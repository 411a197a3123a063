------------------------------ MODULE Delivery ------------------------------
(***************************************************************************)
(* What a file transfer promises the one who asks for it, with no          *)
(* connection, frame or part file in sight: the file appears under its     *)
(* name at most once and at one stroke, every request is answered once,    *)
(* and it is answered Ok only when the file that is there has the digest   *)
(* the request offered.                                                    *)
(***************************************************************************)
EXTENDS Integers

CONSTANTS MaxSends, Content, Digests, Sha256(_), Absent, NoDigest

VARIABLES file,     \* the file under its final name
          offered,  \* the digest each request offered
          outcome   \* the answer to each request

vars == <<file, offered, outcome>>

Sends == 1..MaxSends

Init ==
    /\ file = Absent
    /\ offered = [k \in Sends |-> NoDigest]
    /\ outcome = [k \in Sends |-> "none"]

\* One request at a time.
Start(k) ==
    /\ outcome[k] = "none"
    /\ \A j \in Sends : outcome[j] # "pending"
    /\ outcome' = [outcome EXCEPT ![k] = "pending"]
    /\ UNCHANGED <<file, offered>>

Offer(k) ==
    /\ outcome[k] = "pending"
    /\ offered[k] = NoDigest
    /\ offered'[k] \in Digests
    /\ offered' = [offered EXCEPT ![k] = offered'[k]]
    /\ UNCHANGED <<file, outcome>>

\* By a transfer, this one or another, or by another program.
Appear ==
    /\ file = Absent
    /\ file' \in Content
    /\ UNCHANGED <<offered, outcome>>

Succeed(k) ==
    /\ outcome[k] = "pending"
    /\ file # Absent
    /\ Sha256(file) = offered[k]
    /\ outcome' = [outcome EXCEPT ![k] = "Ok"]
    /\ UNCHANGED <<file, offered>>

Fail(k) ==
    /\ outcome[k] = "pending"
    /\ outcome'[k] \notin {"none", "pending", "Ok"}
    /\ outcome' = [outcome EXCEPT ![k] = outcome'[k]]
    /\ UNCHANGED <<file, offered>>

Next ==
    \/ Appear
    \/ \E k \in Sends : Start(k) \/ Offer(k) \/ Succeed(k) \/ Fail(k)

Spec == Init /\ [][Next]_vars
=============================================================================

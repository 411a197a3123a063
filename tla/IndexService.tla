---------------------------- MODULE IndexService ----------------------------
(***************************************************************************)
(* What ServiceController promises its callers (COREDESK_SPEC 13): one     *)
(* scan at a time, each either installing a whole new index or leaving the *)
(* old one, and reporting its outcome once; and searches that answer from  *)
(* one whole index, the current one when they began.  There is no cache,   *)
(* no lock and no step inside a scan here.                                 *)
(***************************************************************************)
EXTENDS Naturals

CONSTANTS Workers, Queries, MaxScans, None

VARIABLES index,    \* the installed snapshot
          running,  \* the scan that is under way, 0 if none
          outcome,  \* what each scan has reported, None before it does
          asked,    \* the query and index of the search each worker runs
          alive,    \* whether the process is still there
          answer    \* the hits of each worker's last search

vars == <<index, running, outcome, asked, alive, answer>>

Scans == 1..MaxScans

HitsOf(snapshot, q) == [content |-> snapshot.content, query |-> q]

Generation(snapshot) == IF snapshot = None THEN 0 ELSE snapshot.generation

Init ==
    /\ index = None
    /\ running = 0
    /\ outcome = [n \in Scans |-> None]
    /\ asked = [w \in Workers |-> None]
    /\ answer = [w \in Workers |-> None]
    /\ alive = TRUE

BeginScan(n) ==
    /\ running = 0
    /\ outcome[n] = None
    /\ running' = n
    /\ UNCHANGED <<index, outcome, asked, alive, answer>>

InstallIndex ==
    /\ running # 0
    /\ index # None => index.content # running
    /\ index' = [generation |-> Generation(index) + 1, content |-> running]
    /\ UNCHANGED <<running, outcome, asked, alive, answer>>

\* A scan that reports "installed" has installed its index, one that reports
\* "Cancelled" has not; an internal error may come before or after.
Report(result) ==
    /\ running # 0
    /\ result = "installed" => index # None /\ index.content = running
    /\ result = "Cancelled" => (index # None => index.content # running)
    /\ outcome' = [outcome EXCEPT ![running] = result]
    /\ running' = 0
    /\ UNCHANGED <<index, asked, alive, answer>>

Ask(w, q) ==
    /\ asked[w] = None
    /\ index # None
    /\ asked' = [asked EXCEPT ![w] = [query |-> q, snapshot |-> index]]
    /\ answer' = [answer EXCEPT ![w] = None]
    /\ UNCHANGED <<index, running, outcome, alive>>

NotReady(w) ==
    /\ asked[w] = None
    /\ index = None
    /\ answer' = [answer EXCEPT ![w] = None]
    /\ UNCHANGED <<index, running, outcome, asked, alive>>

Answer(w) ==
    /\ asked[w] # None
    /\ answer' = [answer EXCEPT ![w] = HitsOf(asked[w].snapshot, asked[w].query)]
    /\ asked' = [asked EXCEPT ![w] = None]
    /\ UNCHANGED <<index, running, outcome, alive>>

Die == alive' = FALSE /\ UNCHANGED <<index, running, outcome, asked, answer>>

AnyReport == \E result \in {"installed", "Cancelled", "InternalError"} : Report(result)

Next ==
    /\ alive
    /\ \/ \E n \in Scans : BeginScan(n)
       \/ InstallIndex \/ AnyReport \/ Die
       \/ \E w \in Workers : Answer(w) \/ NotReady(w) \/ \E q \in Queries : Ask(w, q)

Spec ==
    /\ Init /\ [][Next]_vars
    /\ WF_vars(alive /\ AnyReport)
    /\ \A w \in Workers : WF_vars(alive /\ Answer(w))
=============================================================================

---------------------------- MODULE LocalIpcClient ----------------------------
(***************************************************************************)
(* The desktop's end of the local socket: connecting, request ids, the     *)
(* requests that await their last reply and the replies not yet read.      *)
(*                                                                         *)
(* The service at the other end is what LocalIpcServer shows it to be: of  *)
(* one request come an acceptance, then progress, then one last reply, in  *)
(* this order; a CancelScan that succeeds has none.  It may die, and the   *)
(* connection may break, at any moment.                                    *)
(***************************************************************************)
EXTENDS Naturals, Sequences

CONSTANTS Queries,
          NoData,
          MaxUnread   \* bound: replies not read while the service reports progress

ASSUME ClientAssumption == NoData \notin Queries /\ MaxUnread \in Nat

VARIABLES
    socket,           \* the state of socket_; "Broken" is connected, but at this end only
    next_request_id,
    open,             \* requests sent on this connection that await their last reply
    unread,           \* the replies on their way or received and not yet handled
    service,          \* whether the service process runs
    available         \* whether it is built with file transfer

clientVars == <<socket, next_request_id, open, unread, service, available>>

\* What a reply says, as far as the desktop tells replies apart.
Data == Queries \cup {NoData, "Enabled", "Disabled"}

TransferKinds == {"Enable", "Disable", "SetDirectory", "Status"}
Kinds == TransferKinds \cup {"Scan", "Cancel", "Search", "Send"}
Requests == [kind : Kinds, id : Nat, query : Queries \cup {NoData}, accepted : BOOLEAN]

\* A frame has the kind and the id of the request it answers.  Its type is the kind
\* and the part; the last part of Scan is ScanCompleted if ok and else ScanFailed,
\* and that of Cancel is ScanFailed.  A reply that is not ok carries an error.
Frames == [kind : Kinds, part : {"Accepted", "Progress", "Last"}, id : Nat,
           ok : BOOLEAN, data : Data]

ClientTypeOK ==
    /\ socket \in {"Unconnected", "Connecting", "Connected", "Broken"}
    /\ next_request_id \in Nat \ {0}
    /\ open \subseteq Requests
    /\ unread \in Seq(Frames)
    /\ service \in {"down", "starting", "up"}
    /\ available \in BOOLEAN

ClientInit ==
    /\ socket = "Unconnected"
    /\ next_request_id = 1
    /\ open = {}
    /\ unread = << >>
    /\ service \in {"down", "starting", "up"}
    /\ available \in BOOLEAN

IsConnected == socket \in {"Connected", "Broken"}

\* What was under way on the connection is gone with it.
LoseConnection(state) ==
    /\ socket' = state
    /\ open' = {}
    /\ unread' = << >>

ConnectToServerAsync ==
    /\ LoseConnection("Connecting")
    /\ UNCHANGED <<next_request_id, available>>

\* A request takes its id and is written.  It always can be: the window asks for
\* nothing while it is not connected, and for nothing empty or of port 0; what its
\* line edits hold stays far below the size of a payload; and QLocalSocket takes all
\* it is given.
SendFrame(kind, query) ==
    /\ next_request_id' = next_request_id + 1
    /\ open' = open \cup {[kind |-> kind, id |-> next_request_id, query |-> query, accepted |-> FALSE]}

-----------------------------------------------------------------------------
\* The service.

Reply(r, part, ok, data) == [kind |-> r.kind, part |-> part, id |-> r.id, ok |-> ok, data |-> data]

\* How a request can end.
LastReplies(r) ==
    IF r.kind \in TransferKinds \cup {"Send"} /\ ~available THEN {Reply(r, "Last", FALSE, NoData)}
    ELSE {Reply(r, "Last", FALSE, NoData)} \cup
         CASE r.kind = "Search" -> {Reply(r, "Last", TRUE, r.query)}
           [] r.kind = "Status" -> {Reply(r, "Last", TRUE, d) : d \in {"Enabled", "Disabled"}}
           [] r.kind = "Cancel" -> {}
           [] r.kind \in {"Scan", "Send"} -> IF r.accepted THEN {Reply(r, "Last", TRUE, NoData)} ELSE {}
           [] OTHER -> {Reply(r, "Last", TRUE, NoData)}

ServiceAccepts(r) ==
    /\ socket = "Connected"
    /\ r.kind = "Scan" \/ (r.kind = "Send" /\ available)
    /\ ~r.accepted
    /\ open' = (open \ {r}) \cup {[r EXCEPT !.accepted = TRUE]}
    /\ unread' = Append(unread, Reply(r, "Accepted", TRUE, NoData))
    /\ UNCHANGED <<socket, next_request_id, service, available>>

ServiceReportsProgress(r) ==
    /\ socket = "Connected"
    /\ r.kind = "Scan" /\ r.accepted
    /\ Len(unread) < MaxUnread
    /\ unread' = Append(unread, Reply(r, "Progress", TRUE, NoData))
    /\ UNCHANGED <<socket, next_request_id, open, service, available>>

\* A scan that is done, a search that is answered, a transfer that is over; or a
\* refusal.  A scan may be done before its cancellation is seen.
ServiceAnswers(r) ==
    /\ socket = "Connected"
    /\ open' = open \ {r}
    /\ \/ \E f \in LastReplies(r) : unread' = Append(unread, f)
       \/ r.kind = "Cancel" /\ UNCHANGED unread
    /\ UNCHANGED <<socket, next_request_id, service, available>>

ServiceComesUp ==
    /\ service = "starting"
    /\ service' = "up"
    /\ UNCHANGED <<socket, next_request_id, open, unread, available>>

\* It crashes, or quits before it serves, as an instance does that finds another.
ServiceDies ==
    /\ service # "down"
    /\ service' = "down"
    /\ socket' = IF socket = "Connected" THEN "Broken" ELSE socket
    /\ UNCHANGED <<next_request_id, open, unread, available>>

ConnectionBreaks ==
    /\ socket = "Connected"
    /\ socket' = "Broken"
    /\ UNCHANGED <<next_request_id, open, unread, service, available>>
=============================================================================

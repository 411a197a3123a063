--------------------------- MODULE LocalIpcServer ---------------------------
(***************************************************************************)
(* The local IPC server of the service process: connections, requests and  *)
(* the replies that come back to them from the search pool, the scan       *)
(* thread and the file transfer through the event queue of the Qt thread,  *)
(* and the order in which main takes it all down.                          *)
(*                                                                         *)
(* ServiceController and ThreadPool take part as what they promise,        *)
(* IndexService and Executor, which they implement; a request is at once   *)
(* the scan, the search or the task it causes.  A call that waits inside   *)
(* start_scan or submit is a handler that begins when it can go on.        *)
(***************************************************************************)
EXTENDS Naturals, Sequences

CONSTANTS MaxSockets,   \* bound: connections ever made
          MaxRequests,  \* bound: requests of all clients together
          PoolThreads,  \* threads of search_pool_
          None

ASSUME IpcAssumption ==
    MaxSockets \in Nat /\ MaxRequests \in Nat /\ PoolThreads \in Nat \ {0} /\ None \notin Nat

VARIABLES
    loop,         \* how far the Qt thread is in main
    object,       \* the life of each socket object
    address,      \* where it lives or lived
    connections,  \* the keys of connections_
    requests,     \* history: the requests, in the order they were dispatched
    events,       \* the calls posted to the server
    replies,      \* the frames written to each connection
    outgoing,     \* the request whose file is being sent, 0 if none
    progressed,   \* the scans that have reported progress
    told          \* history: the newest generation any client was told of

VARIABLES index, running, outcome, asked, alive, answer  \* IndexService
VARIABLES accepted, begun, finished, refused, closed     \* Executor

Sockets == 1..MaxSockets   \* numbered as they connect
Addresses == Sockets       \* where their socket objects may live
Requests == 1..MaxRequests

Service == INSTANCE IndexService WITH
    Workers <- Requests, Queries <- {"query"}, MaxScans <- MaxRequests

SearchPool == INSTANCE Executor WITH Tasks <- Requests, Parallelism <- PoolThreads

netVars == <<object, address, connections>>
serviceVars == <<index, running, outcome, asked, alive, answer>>
poolVars == <<accepted, begun, finished, refused, closed>>
ipcVars == <<loop, object, address, connections, requests, events, replies, outgoing,
             progressed, told, serviceVars, poolVars>>

\* A reply that ends its request at once, be it an answer or a refusal, is a
\* "Response", whatever its message type.
Final == {"Response", "ScanCompleted", "ScanFailed", "SearchResponse", "NotReady", "SendFileResult"}
Frames == [type : Final \cup {"Accepted", "ScanProgress"},
           request : Nat, generation : Nat]
Snapshots == [generation : Nat, content : Requests]
Searches == [query : {"query"}, snapshot : Snapshots]

ASSUME NoneAssumption == None \notin Snapshots \cup Searches

Frame(type, r) == [type |-> type, request |-> r, generation |-> 0]
Tells(type, r, g) == [type |-> type, request |-> r, generation |-> g]

TypeOK ==
    /\ loop \in {"running", "stopping", "draining", "destroyed"}
    /\ object \in [Sockets -> {"unborn", "open", "leaving", "deleted"}]
    /\ address \in [Sockets -> Addresses \cup {None}]
    /\ connections \subseteq Addresses
    /\ requests \in Seq([socket : Sockets, awaits : BOOLEAN, told : Nat])
    /\ events \in Seq(Frames)
    /\ replies \in [Sockets -> Seq(Frames)]
    /\ outgoing \in Nat
    /\ progressed \subseteq Requests
    /\ told \in Nat
    /\ index \in Snapshots \cup {None}
    /\ running \in {0} \cup Requests
    /\ asked \in [Requests -> Searches \cup {None}]
    /\ accepted \in Seq(Requests)
    /\ begun \in 0..Len(accepted)
    /\ finished \subseteq Requests
    /\ closed \in BOOLEAN

Init ==
    /\ loop = "running"
    /\ object = [s \in Sockets |-> "unborn"]
    /\ address = [s \in Sockets |-> None]
    /\ connections = {}
    /\ requests = << >>
    /\ events = << >>
    /\ replies = [s \in Sockets |-> << >>]
    /\ outgoing = 0
    /\ progressed = {}
    /\ told = 0
    /\ Service!Init
    /\ SearchPool!Init

\* Once exec has returned nothing that is posted is called any more.
Post(frame) == events' = IF loop = "running" THEN Append(events, frame) ELSE events

\* What is written at an address reaches the connection that lives there.
Written(a, frame) ==
    [s \in Sockets |-> IF object[s] = "open" /\ address[s] = a
                       THEN Append(replies[s], frame) ELSE replies[s]]

SendFrame(s, frame) ==
    replies' = IF address[s] \in connections THEN Written(address[s], frame) ELSE replies

-----------------------------------------------------------------------------
\* Connections.

\* A new socket object may come to live where a deleted one did.  Addresses mean
\* nothing: they are numbered as they are first used.
HandleNewConnection(s) ==
    /\ loop = "running"
    /\ object[s] = "unborn" /\ \A t \in 1..s-1 : object[t] # "unborn"
    /\ \E a \in 1..s :
          /\ \A t \in Sockets : object[t] \in {"open", "leaving"} => address[t] # a
          /\ address' = [address EXCEPT ![s] = a]
          /\ connections' = connections \cup {a}
    /\ object' = [object EXCEPT ![s] = "open"]
    /\ UNCHANGED <<loop, requests, events, replies, outgoing, progressed, told, serviceVars, poolVars>>

HandleDisconnected(s) ==
    /\ loop = "running"
    /\ object[s] = "open"
    /\ object' = [object EXCEPT ![s] = "leaving"]
    /\ connections' = connections \ {address[s]}
    /\ UNCHANGED <<loop, address, requests, events, replies, outgoing, progressed, told,
                   serviceVars, poolVars>>

\* deleteLater has its turn.
DeleteSocket(s) ==
    /\ loop = "running"
    /\ object[s] = "leaving"
    /\ object' = [object EXCEPT ![s] = "deleted"]
    /\ UNCHANGED <<loop, address, connections, requests, events, replies, outgoing, progressed,
                   told, serviceVars, poolVars>>

\* The disconnected signal that follows finds nothing to remove.
CloseProtocolError(s) ==
    /\ SendFrame(s, Frame("Response", 0))
    /\ connections' = connections \ {address[s]}
    /\ object' = [object EXCEPT ![s] = "leaving"]
    /\ UNCHANGED <<loop, address, requests, outgoing, progressed, told, serviceVars, poolVars>>

\* Bytes that are no frame.
HandleGarbage(s) ==
    /\ loop = "running"
    /\ object[s] = "open"
    /\ CloseProtocolError(s)
    /\ UNCHANGED events

-----------------------------------------------------------------------------
\* Requests.  A read that brings several frames is so many of these in a row.

\* A request on socket s is dispatched; r is its number, and it awaits a reply
\* unless it is a CancelScan that succeeds.
Dispatch(s, r, awaits) ==
    /\ loop = "running"
    /\ object[s] = "open"
    /\ address[s] \in connections
    /\ r = Len(requests) + 1
    /\ requests' = Append(requests, [socket |-> s, awaits |-> awaits, told |-> told])
    /\ UNCHANGED <<loop, netVars, progressed, told>>

\* What is answered on the spot: Ping, status, enable, set directory, unsupported
\* types; and of every type what does not decode or is refused.
Respond(s, r) ==
    /\ Dispatch(s, r, TRUE)
    /\ SendFrame(s, Frame("Response", r))
    /\ UNCHANGED <<events, outgoing, serviceVars, poolVars>>

AcceptScan(s, r) ==
    /\ Dispatch(s, r, TRUE)
    /\ Service!BeginScan(r)
    /\ SendFrame(s, Frame("Accepted", r))
    /\ UNCHANGED <<events, outgoing, poolVars>>

\* The scan will report Cancelled, unless it is past its last look at the token.
CancelScan(s, r) ==
    /\ Dispatch(s, r, FALSE)
    /\ running # 0
    /\ UNCHANGED <<events, replies, outgoing, serviceVars, poolVars>>

SubmitSearch(s, r) ==
    /\ Dispatch(s, r, TRUE)
    /\ SearchPool!Accept(r)
    /\ UNCHANGED <<events, replies, outgoing, serviceVars>>

AcceptSendFile(s, r) ==
    /\ Dispatch(s, r, TRUE)
    /\ outgoing = 0
    /\ outgoing' = r
    /\ SendFrame(s, Frame("Accepted", r))
    /\ UNCHANGED <<events, serviceVars, poolVars>>

\* Mutant: the completion is not called.
OutgoingForgotten ==
    /\ outgoing' = 0
    /\ UNCHANGED events

\* finish_outgoing calls the completion, which posts.
OutgoingFinished ==
    /\ outgoing' = 0
    /\ IF outgoing = 0 THEN UNCHANGED events ELSE Post(Frame("SendFileResult", outgoing))

DisableTransfer(s, r) ==
    /\ Dispatch(s, r, TRUE)
    /\ OutgoingFinished
    /\ SendFrame(s, Frame("Response", r))
    /\ UNCHANGED <<serviceVars, poolVars>>

DispatchFrame(s) ==
    \E r \in Requests :
        \/ Respond(s, r)
        \/ AcceptScan(s, r) \/ CancelScan(s, r) \/ SubmitSearch(s, r)
        \/ AcceptSendFile(s, r) \/ DisableTransfer(s, r)

-----------------------------------------------------------------------------
\* What runs elsewhere and posts its results.

\* Mutant: the socket's address is all that is kept of the requester.
ReachableByAddress(s) == address[s] \in connections

\* requester is a QPointer: null once its object is deleted.
Reachable(s) == object[s] # "deleted" /\ address[s] \in connections

HandlePosted ==
    /\ loop = "running"
    /\ events # << >>
    /\ LET f == Head(events)
           s == requests[f.request].socket
       IN  IF Reachable(s)
           THEN /\ SendFrame(s, f)
                /\ told' = IF f.generation > told THEN f.generation ELSE told
           ELSE UNCHANGED <<replies, told>>
    /\ events' = Tail(events)
    /\ UNCHANGED <<loop, netVars, requests, outgoing, progressed, serviceVars, poolVars>>

\* The result of a search does not fit into a frame.
HandleTooLarge(s) ==
    /\ loop = "running"
    /\ object[s] = "open"
    /\ events # << >>
    /\ Head(events).type = "SearchResponse"
    /\ requests[Head(events).request].socket = s
    /\ CloseProtocolError(s)
    /\ events' = Tail(events)

\* Bound: one report of progress a scan.
ScanProgresses ==
    /\ running # 0
    /\ running \notin progressed
    /\ index # None => index.content # running
    /\ Post(Frame("ScanProgress", running))
    /\ progressed' = progressed \cup {running}
    /\ UNCHANGED <<loop, netVars, requests, replies, outgoing, told, serviceVars, poolVars>>

ScanInstalls ==
    /\ Service!InstallIndex
    /\ UNCHANGED <<loop, netVars, requests, events, replies, outgoing, progressed, told, poolVars>>

\* Mutant: the completion tells the generation to come.
ScanReportsNextGeneration ==
    /\ \/ Service!Report("installed") /\ Post(Tells("ScanCompleted", running, Service!Generation(index) + 1))
       \/ Service!Report("InternalError") /\ Post(Frame("ScanFailed", running))
    /\ UNCHANGED <<loop, netVars, requests, replies, outgoing, progressed, told, poolVars>>

\* Mutant: the result goes before what was posted earlier.
ScanReportsUrgently ==
    /\ \/ /\ Service!Report("installed")
          /\ events' = <<Tells("ScanCompleted", running, Service!Generation(index))>> \o events
       \/ /\ Service!Report("InternalError")
          /\ events' = <<Frame("ScanFailed", running)>> \o events
    /\ UNCHANGED <<loop, netVars, requests, replies, outgoing, progressed, told, poolVars>>

\* "InternalError" stands for every failure, Cancelled among them.
ScanReports ==
    /\ \/ Service!Report("installed") /\ Post(Tells("ScanCompleted", running, Service!Generation(index)))
       \/ Service!Report("InternalError") /\ Post(Frame("ScanFailed", running))
    /\ UNCHANGED <<loop, netVars, requests, replies, outgoing, progressed, told, poolVars>>

\* A pool thread takes a search, which copies the snapshot or finds none.
SearchBegins(r) ==
    /\ SearchPool!Begin
    /\ r = accepted[begun']
    /\ Service!Ask(r, "query") \/ Service!NotReady(r)
    /\ UNCHANGED <<loop, netVars, requests, events, replies, outgoing, progressed, told>>

\* Mutant: the worker waits for the event loop to take its result.
SearchEndsBlocking(r) ==
    /\ r \in SearchPool!Running
    /\ IF asked[r] # None
       THEN Service!Answer(r) /\ Post(Tells("SearchResponse", r, asked[r].snapshot.generation))
       ELSE UNCHANGED serviceVars /\ Post(Frame("NotReady", r))
    /\ loop = "running"
    /\ SearchPool!Finish
    /\ r \in finished'
    /\ UNCHANGED <<loop, netVars, requests, replies, outgoing, progressed, told>>

SearchEnds(r) ==
    /\ r \in SearchPool!Running
    /\ IF asked[r] # None
       THEN Service!Answer(r) /\ Post(Tells("SearchResponse", r, asked[r].snapshot.generation))
       ELSE UNCHANGED serviceVars /\ Post(Frame("NotReady", r))
    /\ SearchPool!Finish
    /\ r \in finished'
    /\ UNCHANGED <<loop, netVars, requests, replies, outgoing, progressed, told>>

\* The transfer ends (TcpTransferClient).
SendFileEnds ==
    /\ loop = "running"
    /\ outgoing # 0
    /\ OutgoingFinished
    /\ UNCHANGED <<loop, netVars, requests, replies, progressed, told, serviceVars, poolVars>>

-----------------------------------------------------------------------------
\* The end of main, and the destructor of the server.

\* exec() returns: server.close(), transfer_manager.stop(), and
\* controller.shutdown() up to its join.  What is posted will not be called.
Quit ==
    /\ loop = "running"
    /\ loop' = "stopping"
    /\ connections' = {}
    /\ object' = [s \in Sockets |-> IF object[s] = "open" THEN "leaving" ELSE object[s]]
    /\ outgoing' = 0
    /\ events' = << >>
    /\ UNCHANGED <<address, requests, replies, progressed, told, serviceVars, poolVars>>

\* controller.shutdown() has joined the scan thread; the destructor of the server
\* shuts the pool down.
ShutdownPool ==
    /\ loop = "stopping"
    /\ running = 0
    /\ loop' = "draining"
    /\ SearchPool!Close
    /\ UNCHANGED <<netVars, requests, events, replies, outgoing, progressed, told, serviceVars>>

\* shutdown of the pool returns and the server is gone.
Destroy ==
    /\ loop = "draining"
    /\ SearchPool!Accepted = finished
    /\ loop' = "destroyed"
    /\ UNCHANGED <<netVars, requests, events, replies, outgoing, progressed, told, serviceVars, poolVars>>

Next ==
    \/ \E s \in Sockets : \/ HandleNewConnection(s) \/ HandleDisconnected(s) \/ DeleteSocket(s)
                          \/ HandleGarbage(s) \/ HandleTooLarge(s) \/ DispatchFrame(s)
    \/ HandlePosted
    \/ ScanProgresses \/ ScanInstalls \/ ScanReports
    \/ \E r \in Requests : SearchBegins(r) \/ SearchEnds(r)
    \/ SendFileEnds
    \/ Quit \/ ShutdownPool \/ Destroy

Spec == Init /\ [][Next]_ipcVars

\* The threads run; a scan, a search and a transfer end; nobody has to connect,
\* ask or quit.
FairSpec ==
    /\ Spec
    /\ WF_ipcVars(HandlePosted)
    /\ WF_ipcVars(ScanReports)
    /\ \A r \in Requests : WF_ipcVars(SearchBegins(r)) /\ WF_ipcVars(SearchEnds(r))
    /\ WF_ipcVars(SendFileEnds)
    /\ WF_ipcVars(ShutdownPool) /\ WF_ipcVars(Destroy)

-----------------------------------------------------------------------------
\* Properties.

\* connections_ holds the open connections and nothing else, and no two socket
\* objects that still exist share an address (handle_new_connection,
\* remove_connection, deleteLater).
ConnectionsAreOpen ==
    /\ connections = {address[s] : s \in {t \in Sockets : object[t] = "open"}}
    /\ \A s, t \in Sockets :
          /\ object[s] \in {"open", "leaving"}
          /\ object[t] \in {"open", "leaving"}
          /\ s # t
          => address[s] # address[t]
    /\ \A s \in Sockets : object[s] = "unborn" <=> address[s] = None

\* A reply reaches the connection that asked, however late it comes and
\* whoever has connected since, and never another (the QPointer and the look
\* into connections_ of each posted call).
AnswersGoHome ==
    \A s \in Sockets : \A i \in 1..Len(replies[s]) :
        LET r == replies[s][i].request
        IN  r # 0 => r <= Len(requests) /\ requests[r].socket = s

\* What a client reads of one request is a refusal or an answer, or an
\* acceptance, then progress, then one result: in this order, though scan
\* thread, search pool and event loop each write a part of it (dispatch_frame,
\* dispatch_send_file_request).
RepliesInOrder ==
    \A s \in Sockets : \A i \in 1..Len(replies[s]) :
        LET f == replies[s][i]
        IN  f.request # 0 =>
                /\ \/ f.type \in Final
                   \/ \E k \in 1..i : replies[s][k].request = f.request /\ replies[s][k].type = "Accepted"
                /\ \A j \in i+1..Len(replies[s]) :
                       replies[s][j].request = f.request =>
                           f.type \notin Final /\ replies[s][j].type # "Accepted"

\* What has been said of an index is never ahead of the index installed.
ToldInv ==
    /\ told <= Service!Generation(index)
    /\ \A i \in 1..Len(events) : events[i].generation <= Service!Generation(index)
    /\ \A r \in Requests : asked[r] # None => asked[r].snapshot.generation <= Service!Generation(index)
    /\ \A r \in 1..Len(requests) : requests[r].told <= told

\* A frame that answers a search, written or still to be called.
Fresh(f) ==
    f.type \in {"SearchResponse", "NotReady"} =>
        f.request \in 1..Len(requests) /\ f.generation >= requests[f.request].told

\* Who asks after any client was told of a generation is answered from that
\* one or a newer: a search goes through the queue, a pool thread and the
\* controller's snapshot, the news of a scan through the queue of events
\* (dispatch_search_request, the completion callback of start_scan).
SearchesSeeWhatWasTold == \A s \in Sockets : \A i \in 1..Len(replies[s]) : Fresh(replies[s][i])

\* And so it is with searches and answers on their way.
SearchInv ==
    /\ \A i \in 1..Len(events) : Fresh(events[i])
    /\ \A i \in 1..begun : accepted[i] \notin finished =>
          Fresh([type |-> "SearchResponse", request |-> accepted[i],
                 generation |-> IF asked[accepted[i]] = None THEN 0
                                ELSE asked[accepted[i]].snapshot.generation])

\* Work that is under way belongs to a request.
WorkInv ==
    /\ \A i \in 1..Len(events) : events[i].request \in 1..Len(requests)
    /\ running # 0 => running <= Len(requests)
    /\ outgoing <= Len(requests)
    /\ \A i \in 1..Len(accepted) : accepted[i] <= Len(requests)

\* Once the server is destroyed no scan, search or transfer is left that would
\* call it back (test ServerDestructionShutsDownActiveScanWithoutDanglingCallback).
NothingCallsTheDead ==
    loop = "destroyed" => running = 0 /\ SearchPool!Accepted = finished /\ outgoing = 0

\* How the end of main prepares it.
ShutdownInv ==
    /\ loop # "running" => connections = {} /\ outgoing = 0
    /\ loop \in {"draining", "destroyed"} => running = 0

\* The inductive invariant.
IInv ==
    /\ TypeOK
    /\ ConnectionsAreOpen
    /\ AnswersGoHome
    /\ WorkInv
    /\ ToldInv
    /\ SearchesSeeWhatWasTold
    /\ SearchInv
    /\ ShutdownInv
    /\ NothingCallsTheDead

\* Every request gets its last reply while its connection and the service
\* last; a CancelScan that succeeds has none.
RequestsAreAnswered ==
    \A r \in Requests :
        r <= Len(requests) /\ requests[r].awaits ~>
            \E s \in Sockets :
                /\ r <= Len(requests) /\ requests[r].socket = s
                /\ \/ loop # "running"
                   \/ object[s] # "open"
                   \/ \E i \in 1..Len(replies[s]) :
                         replies[s][i].request = r /\ replies[s][i].type \in Final

\* The service that quits comes to its end, whatever is under way (main).
ServiceEnds == loop = "stopping" ~> loop = "destroyed"
=============================================================================

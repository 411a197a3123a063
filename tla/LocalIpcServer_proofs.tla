----------------------- MODULE LocalIpcServer_proofs -----------------------
(***************************************************************************)
(* Proofs about LocalIpcServer for any number of connections, requests and *)
(* pool threads.                                                           *)
(*                                                                         *)
(* What a step does to the replies, the events and the work is stated      *)
(* first, whichever action takes it (RequestsGrow, EventsStep,             *)
(* RepliesStep, WorkStep); the parts of the invariant follow from that.    *)
(* The order of the replies has an invariant of its own, OrderInv.         *)
(***************************************************************************)
EXTENDS LocalIpcServer, TLAPS

ReplyTo(s, f) ==
    /\ f \in Frames
    /\ f.request # 0 => f.request <= Len(requests') /\ requests'[f.request].socket = s
    /\ Fresh(f)
    /\ replies' = [replies EXCEPT ![s] = Append(replies[s], f)]

Posted(f) ==
    /\ f \in Frames
    /\ f.request \in 1..Len(requests)
    /\ f.generation <= Service!Generation(index)
    /\ Fresh(f)
    /\ events' = Append(events, f)

\* What is sent to a socket object that still exists, at an address that is in
\* connections_, is written to that socket's connection (send_frame).
LEMMA SendsHome ==
    ASSUME TypeOK, ConnectionsAreOpen, IpcAssumption,
           NEW s \in Sockets, object[s] # "deleted", address[s] \in connections,
           NEW f, SendFrame(s, f)
    PROVE  /\ object[s] = "open"
           /\ replies' = [replies EXCEPT ![s] = Append(replies[s], f)]
  <1>1. PICK t \in Sockets : object[t] = "open" /\ address[t] = address[s]
    BY DEF ConnectionsAreOpen
  <1>2. object[s] # "unborn"
    BY DEF TypeOK, ConnectionsAreOpen, IpcAssumption, Addresses, Sockets
  <1>3. t = s
    BY <1>1, <1>2 DEF TypeOK, ConnectionsAreOpen
  <1>4. replies' = [u \in Sockets |-> IF object[u] = "open" /\ address[u] = address[s]
                                      THEN Append(replies[u], f) ELSE replies[u]]
    BY DEF SendFrame, Written
  <1>5. \A u \in Sockets : object[u] = "open" /\ address[u] = address[s] => u = s
    BY <1>1, <1>3 DEF ConnectionsAreOpen
  <1>6. replies \in [Sockets -> Seq(Frames)]
    BY DEF TypeOK
  <1>. QED
    BY <1>1, <1>3, <1>4, <1>5, <1>6

\* The parts of the invariant hold initially.
LEMMA InitInv == IpcAssumption /\ Init => IInv
  <1>. SUFFICES ASSUME IpcAssumption, Init PROVE IInv
    OBVIOUS
  <1>. USE DEF Init, Service!Init, SearchPool!Init
  <1>1. TypeOK
    <2>1. asked \in [Requests -> Searches \cup {None}]
      BY DEF Requests
    <2>2. replies \in [Sockets -> Seq(Frames)]
      BY DEF Sockets
    <2>3. address \in [Sockets -> Addresses \cup {None}]
      OBVIOUS
    <2>4. /\ requests \in Seq([socket : Sockets, awaits : BOOLEAN, told : Nat])
          /\ events \in Seq(Frames)
          /\ accepted \in Seq(Requests)
          /\ begun \in 0..Len(accepted)
      OBVIOUS
    <2>. QED
      BY <2>1, <2>2, <2>3, <2>4 DEF TypeOK
  <1>2. ConnectionsAreOpen
    <2>1. \A s \in Sockets : address[s] = None /\ object[s] = "unborn"
      OBVIOUS
    <2>2. connections = {address[s] : s \in {t \in Sockets : object[t] = "open"}}
      BY <2>1
    <2>. QED
      BY <2>1, <2>2 DEF ConnectionsAreOpen
  <1>3. AnswersGoHome /\ WorkInv /\ ShutdownInv /\ NothingCallsTheDead
    BY DEF AnswersGoHome, WorkInv, ShutdownInv, NothingCallsTheDead, IpcAssumption
  <1>4. ToldInv /\ SearchesSeeWhatWasTold /\ SearchInv
    <2>1. \A r \in Requests : asked[r] = None
      BY DEF Requests
    <2>2. ToldInv
      BY <2>1 DEF ToldInv, Service!Generation
    <2>3. SearchesSeeWhatWasTold /\ SearchInv
      BY <2>1 DEF SearchesSeeWhatWasTold, SearchInv
    <2>. QED
      BY <2>2, <2>3
  <1>. QED
    BY <1>1, <1>2, <1>3, <1>4 DEF IInv

\* A step dispatches at most one request, which records what was told.
LEMMA RequestsGrow ==
    ASSUME [Next]_ipcVars
    PROVE  \/ requests' = requests
           \/ /\ loop = "running"
              /\ \E s \in Sockets, awaits \in BOOLEAN :
                    requests' = Append(requests, [socket |-> s, awaits |-> awaits, told |-> told])
  <1>. USE DEF ipcVars, netVars
  <1>1. ASSUME NEW s \in Sockets, DispatchFrame(s)
        PROVE  \E awaits \in BOOLEAN :
                  /\ loop = "running"
                  /\ requests' = Append(requests, [socket |-> s, awaits |-> awaits, told |-> told])
    BY <1>1 DEF DispatchFrame, Respond, AcceptScan, CancelScan, SubmitSearch, AcceptSendFile,
                DisableTransfer, Dispatch
  <1>2. CASE \E s \in Sockets : DispatchFrame(s)
    BY <1>1, <1>2
  <1>3. CASE \E s \in Sockets : HandleNewConnection(s) \/ HandleDisconnected(s)
                                \/ DeleteSocket(s) \/ HandleGarbage(s) \/ HandleTooLarge(s)
    BY <1>3 DEF HandleNewConnection, HandleDisconnected, DeleteSocket, HandleGarbage, HandleTooLarge, CloseProtocolError
  <1>4. CASE HandlePosted \/ SendFileEnds \/ Quit \/ ShutdownPool \/ Destroy
    BY <1>4 DEF HandlePosted, SendFileEnds, Quit, ShutdownPool, Destroy
  <1>5. CASE ScanProgresses \/ ScanInstalls \/ ScanReports
    BY <1>5 DEF ScanProgresses, ScanInstalls, ScanReports
  <1>6. CASE \E r \in Requests : SearchBegins(r) \/ SearchEnds(r)
    BY <1>6 DEF SearchBegins, SearchEnds
  <1>7. CASE UNCHANGED ipcVars
    BY <1>7
  <1>. QED
    BY <1>2, <1>3, <1>4, <1>5, <1>6, <1>7 DEF Next

\* What a dispatched request records.
LEMMA RequestFields ==
    ASSUME TypeOK
    PROVE  \A r \in 1..Len(requests) : requests[r].socket \in Sockets /\ requests[r].told \in Nat
  <1>. DEFINE T == [socket : Sockets, awaits : BOOLEAN, told : Nat]
  <1>1. requests \in Seq(T)
    BY DEF TypeOK
  <1>2. ASSUME NEW r \in 1..Len(requests) PROVE requests[r] \in T
    <2>. HIDE DEF T
    <2>. QED
      BY <1>1
  <1>. QED
    BY <1>2

\* The requests dispatched stay as they are.
LEMMA RequestsStay ==
    ASSUME TypeOK, [Next]_ipcVars
    PROVE  /\ Len(requests) \in Nat /\ Len(requests') \in Nat
           /\ requests' \in Seq([socket : Sockets, awaits : BOOLEAN, told : Nat])
           /\ \A r \in 1..Len(requests) : r \in 1..Len(requests') /\ requests'[r] = requests[r]
           /\ \A r \in 1..Len(requests') : r \notin 1..Len(requests) => requests'[r].told = told
  <1>. DEFINE T == [socket : Sockets, awaits : BOOLEAN, told : Nat]
  <1>1. requests \in Seq(T) /\ told \in Nat
    BY DEF TypeOK
  <1>2. requests' = requests \/ \E x \in T : x.told = told /\ requests' = Append(requests, x)
    BY <1>1, RequestsGrow
  <1>. HIDE DEF T
  <1>3. requests' \in Seq(T)
    BY <1>1, <1>2
  <1>4. /\ Len(requests) \in Nat /\ Len(requests') \in Nat
        /\ \A r \in 1..Len(requests) : r \in 1..Len(requests') /\ requests'[r] = requests[r]
        /\ \A r \in 1..Len(requests') : r \notin 1..Len(requests) => requests'[r].told = told
    BY <1>1, <1>2
  <1>. QED
    BY <1>3, <1>4 DEF T

\* A step posts at most one call, about a request, of an index no newer than
\* the one installed.
LEMMA EventsStep ==
    ASSUME IpcAssumption, IInv, [Next]_ipcVars
    PROVE  \/ events' = events \/ events' = << >>
           \/ events # << >> /\ events' = Tail(events)
           \/ \E f : Posted(f)
  <1>. USE DEF ipcVars, Post
  <1>1. /\ TypeOK /\ WorkInv /\ ToldInv /\ SearchInv
    BY DEF IInv
  <1>2. ASSUME NEW type \in Final \cup {"ScanProgress"}, type \notin {"SearchResponse", "NotReady"},
               NEW r \in 1..Len(requests), Post(Frame(type, r))
        PROVE  events' = events \/ \E f : Posted(f)
    <2>1. Frame(type, r) \in Frames
      BY <1>2, <1>1 DEF Frame, Frames, TypeOK
    <2>2. Frame(type, r).generation <= Service!Generation(index)
      BY <1>1 DEF Frame, Service!Generation, Snapshots, TypeOK
    <2>3. Fresh(Frame(type, r))
      BY <1>2 DEF Fresh, Frame
    <2>. QED
      BY <1>2, <2>1, <2>2, <2>3 DEF Posted, Frame
  <1>3. CASE OutgoingFinished
    <2>1. CASE outgoing # 0
      <3>1. outgoing \in 1..Len(requests)
        BY <1>1, <2>1 DEF TypeOK, WorkInv
      <3>. QED
        BY <1>2, <1>3, <2>1, <3>1 DEF OutgoingFinished, Final
    <2>. QED
      BY <1>3, <2>1 DEF OutgoingFinished
  <1>4. ASSUME NEW s \in Sockets, DispatchFrame(s)
        PROVE  events' = events \/ OutgoingFinished
    BY <1>4 DEF DispatchFrame, Respond, AcceptScan, CancelScan, SubmitSearch, AcceptSendFile,
                DisableTransfer
  <1>5. CASE \E s \in Sockets : HandleNewConnection(s) \/ HandleDisconnected(s)
                                \/ DeleteSocket(s) \/ HandleGarbage(s) \/ HandleTooLarge(s)
    BY <1>5 DEF HandleNewConnection, HandleDisconnected, DeleteSocket, HandleGarbage, HandleTooLarge, CloseProtocolError
  <1>6. CASE HandlePosted \/ SendFileEnds \/ Quit \/ ShutdownPool \/ Destroy \/ ScanInstalls
    BY <1>3, <1>6 DEF HandlePosted, SendFileEnds, Quit, ShutdownPool, Destroy, ScanInstalls
  <1>7. ASSUME running # 0 PROVE running \in 1..Len(requests)
    BY <1>1, <1>7 DEF TypeOK, WorkInv, Requests
  <1>8. CASE ScanProgresses
    BY <1>2, <1>7, <1>8 DEF ScanProgresses
  <1>9. CASE ScanReports
    <2>1. running # 0
      BY <1>9 DEF ScanReports, Service!Report
    <2>2. CASE Service!Report("InternalError") /\ Post(Frame("ScanFailed", running))
      BY <1>2, <1>7, <2>1, <2>2 DEF Final
    <2>3. CASE /\ Service!Report("installed")
               /\ Post(Tells("ScanCompleted", running, Service!Generation(index)))
      <3>. DEFINE f == Tells("ScanCompleted", running, Service!Generation(index))
      <3>1. Service!Generation(index) \in Nat
        BY <1>1 DEF TypeOK, Service!Generation, Snapshots
      <3>2. f \in Frames /\ f.generation <= Service!Generation(index)
        BY <1>1, <1>7, <2>1, <3>1 DEF Tells, Frames, Final, TypeOK
      <3>3. Fresh(f) /\ f.request \in 1..Len(requests)
        BY <1>7, <2>1 DEF Fresh, Tells
      <3>. QED
        BY <2>3, <3>2, <3>3 DEF Posted
    <2>. QED
      BY <1>9, <2>2, <2>3 DEF ScanReports
  <1>10. ASSUME NEW r \in Requests, SearchBegins(r) PROVE events' = events
    BY <1>10 DEF SearchBegins
  <1>11. ASSUME NEW r \in Requests, SearchEnds(r)
         PROVE  events' = events \/ \E f : Posted(f)
    <2>. DEFINE f == [type |-> "SearchResponse", request |-> r,
                      generation |-> IF asked[r] = None THEN 0 ELSE asked[r].snapshot.generation]
    <2>1. PICK i \in 1..begun : accepted[i] = r /\ r \notin finished
      BY <1>11 DEF SearchEnds, SearchPool!Running
    <2>2. Fresh(f)
      BY <1>1, <2>1 DEF SearchInv
    <2>3. r \in 1..Len(requests)
      BY <2>2 DEF Fresh
    <2>4. f.generation \in Nat /\ f.generation <= Service!Generation(index)
      <3>1. Service!Generation(index) \in Nat
        BY <1>1 DEF TypeOK, Service!Generation, Snapshots
      <3>2. asked[r] # None => asked[r].snapshot.generation \in Nat
        BY <1>1 DEF TypeOK, Searches, Snapshots
      <3>. QED
        BY <1>1, <3>1, <3>2 DEF ToldInv
    <2>5. CASE asked[r] # None
      <3>1. f = Tells("SearchResponse", r, asked[r].snapshot.generation)
        BY <2>5 DEF Tells
      <3>2. f \in Frames
        BY <2>4, <2>3, <1>1 DEF Frames, Final, TypeOK
      <3>. QED
        BY <1>11, <2>2, <2>3, <2>4, <2>5, <3>1, <3>2 DEF SearchEnds, Posted
    <2>6. CASE asked[r] = None
      <3>1. Fresh(Frame("NotReady", r))
        BY <2>2, <2>6 DEF Fresh, Frame
      <3>2. Frame("NotReady", r) \in Frames
        BY <2>3, <1>1 DEF Frames, Frame, Final, TypeOK
      <3>3. /\ Frame("NotReady", r).request \in 1..Len(requests)
            /\ Frame("NotReady", r).generation <= Service!Generation(index)
        BY <2>3, <2>4, <2>6 DEF Frame
      <3>. QED
        BY <1>11, <2>6, <3>1, <3>2, <3>3 DEF SearchEnds, Posted
    <2>. QED
      BY <2>5, <2>6
  <1>12. CASE UNCHANGED ipcVars
    BY <1>12
  <1>. HIDE DEF ipcVars, Post
  <1>. QED
    BY <1>3, <1>4, <1>5, <1>6, <1>8, <1>9, <1>10, <1>11, <1>12 DEF Next

\* A step writes at most one frame, to a connection whose request it answers.
LEMMA RepliesStep ==
    ASSUME IpcAssumption, IInv, [Next]_ipcVars
    PROVE  replies' = replies \/ \E s \in Sockets : \E f : ReplyTo(s, f)
  <1>. USE DEF ipcVars
  <1>1. TypeOK /\ ConnectionsAreOpen /\ WorkInv /\ SearchInv
    BY DEF IInv
  <1>2. ASSUME NEW s \in Sockets, object[s] = "open", NEW f, SendFrame(s, f)
        PROVE  replies' = [replies EXCEPT ![s] = Append(replies[s], f)]
    <2>1. address[s] \in connections
      BY <1>1, <1>2 DEF ConnectionsAreOpen
    <2>. QED
      BY <1>1, <1>2, <2>1, SendsHome
  <1>3. ASSUME NEW s \in Sockets, NEW r \in Requests, NEW awaits \in BOOLEAN,
               Dispatch(s, r, awaits), NEW type \in {"Response", "Accepted"},
               SendFrame(s, Frame(type, r))
        PROVE  ReplyTo(s, Frame(type, r))
    <2>1. Frame(type, r) \in Frames /\ Fresh(Frame(type, r))
      BY <1>3, IpcAssumption DEF Frame, Frames, Final, Fresh, Requests
    <2>2. r <= Len(requests') /\ requests'[r].socket = s
      BY <1>1, <1>3 DEF Dispatch, TypeOK
    <2>3. replies' = [replies EXCEPT ![s] = Append(replies[s], Frame(type, r))]
      BY <1>2, <1>3 DEF Dispatch
    <2>. QED
      BY <2>1, <2>2, <2>3 DEF ReplyTo, Frame
  <1>4. ASSUME NEW s \in Sockets, DispatchFrame(s)
        PROVE  replies' = replies \/ \E f : ReplyTo(s, f)
    <2>1. PICK r \in Requests : \/ Respond(s, r)
                                \/ AcceptScan(s, r) \/ CancelScan(s, r) \/ SubmitSearch(s, r)
                                \/ AcceptSendFile(s, r) \/ DisableTransfer(s, r)
      BY <1>4 DEF DispatchFrame
    <2>2. CASE CancelScan(s, r) \/ SubmitSearch(s, r)
      BY <2>2 DEF CancelScan, SubmitSearch
    <2>3. CASE Respond(s, r) \/ DisableTransfer(s, r)
      BY <1>3, <2>3 DEF Respond, DisableTransfer
    <2>4. CASE AcceptScan(s, r) \/ AcceptSendFile(s, r)
      BY <1>3, <2>4 DEF AcceptScan, AcceptSendFile
    <2>. QED
      BY <2>1, <2>2, <2>3, <2>4
  <1>5. ASSUME NEW s \in Sockets, HandleGarbage(s) \/ HandleTooLarge(s)
        PROVE  \E f : ReplyTo(s, f)
    <2>1. Frame("Response", 0) \in Frames /\ Fresh(Frame("Response", 0))
      BY DEF Frame, Frames, Final, Fresh
    <2>2. replies' = [replies EXCEPT ![s] = Append(replies[s], Frame("Response", 0))]
      BY <1>2, <1>5 DEF HandleGarbage, HandleTooLarge, CloseProtocolError
    <2>. QED
      BY <2>1, <2>2 DEF ReplyTo, Frame
  <1>6. CASE HandlePosted
    <2>. DEFINE f == Head(events)
                s == requests[f.request].socket
    <2>1. events # << >> /\ f = events[1] /\ 1 \in 1..Len(events) /\ f \in Frames
      BY <1>1, <1>6 DEF HandlePosted, TypeOK
    <2>2. f.request \in 1..Len(requests) /\ Fresh(f)
      BY <1>1, <2>1 DEF WorkInv, SearchInv
    <2>3. s \in Sockets
      <3>1. \A r \in 1..Len(requests) : requests[r].socket \in Sockets
        BY <1>1, RequestFields
      <3>. QED
        BY <2>2, <3>1
    <2>4. requests' = requests
      BY <1>6 DEF HandlePosted
    <2>5. CASE Reachable(s)
      <3>1. replies' = [replies EXCEPT ![s] = Append(replies[s], f)]
        BY <1>1, <1>6, <2>3, <2>5, SendsHome DEF HandlePosted, Reachable
      <3>2. f.request # 0 => f.request <= Len(requests') /\ requests'[f.request].socket = s
        BY <2>2, <2>4
      <3>3. f \in Frames /\ Fresh(f)
        BY <2>1, <2>2
      <3>. HIDE DEF f, s
      <3>. QED
        BY <2>3, <3>1, <3>2, <3>3 DEF ReplyTo
    <2>. QED
      BY <1>6, <2>5 DEF HandlePosted
  <1>7. CASE \E s \in Sockets : HandleNewConnection(s) \/ HandleDisconnected(s) \/ DeleteSocket(s)
    BY <1>7 DEF HandleNewConnection, HandleDisconnected, DeleteSocket
  <1>8. CASE SendFileEnds \/ Quit \/ ShutdownPool \/ Destroy
    BY <1>8 DEF SendFileEnds, Quit, ShutdownPool, Destroy
  <1>9. CASE ScanProgresses \/ ScanInstalls \/ ScanReports
    BY <1>9 DEF ScanProgresses, ScanInstalls, ScanReports
  <1>10. CASE \E r \in Requests : SearchBegins(r) \/ SearchEnds(r)
    BY <1>10 DEF SearchBegins, SearchEnds
  <1>11. CASE UNCHANGED ipcVars
    BY <1>11
  <1>. HIDE DEF ipcVars
  <1>. QED
    BY <1>4, <1>5, <1>6, <1>7, <1>8, <1>9, <1>10, <1>11 DEF Next

\* What was fresh when it was computed stays so: later requests have numbers of
\* their own.
LEMMA FreshStays ==
    ASSUME TypeOK, [Next]_ipcVars, NEW f, Fresh(f)
    PROVE  f.type \in {"SearchResponse", "NotReady"} =>
               /\ f.request \in 1..Len(requests')
               /\ f.generation >= requests'[f.request].told
  BY RequestsStay DEF Fresh

\* A scan installs, or the index stays.
LEMMA IndexStep ==
    ASSUME [Next]_ipcVars
    PROVE  \/ index' = index
           \/ running # 0 /\ index' = [generation |-> Service!Generation(index) + 1, content |-> running]
  <1>. USE DEF ipcVars, serviceVars
  <1>1. ASSUME NEW s \in Sockets, DispatchFrame(s) PROVE index' = index
    BY <1>1 DEF DispatchFrame, Respond, AcceptScan, CancelScan, SubmitSearch, AcceptSendFile,
                DisableTransfer, Service!BeginScan
  <1>2. CASE \E s \in Sockets : HandleNewConnection(s) \/ HandleDisconnected(s)
                                \/ DeleteSocket(s) \/ HandleGarbage(s) \/ HandleTooLarge(s)
    BY <1>2 DEF HandleNewConnection, HandleDisconnected, DeleteSocket, HandleGarbage, HandleTooLarge, CloseProtocolError
  <1>3. CASE HandlePosted \/ SendFileEnds \/ Quit \/ ShutdownPool \/ Destroy \/ ScanProgresses
    BY <1>3 DEF HandlePosted, SendFileEnds, Quit, ShutdownPool, Destroy, ScanProgresses
  <1>4. CASE ScanInstalls
    BY <1>4 DEF ScanInstalls, Service!InstallIndex
  <1>5. CASE ScanReports
    BY <1>5 DEF ScanReports, Service!Report
  <1>6. ASSUME NEW r \in Requests, SearchBegins(r) \/ SearchEnds(r) PROVE index' = index
    BY <1>6 DEF SearchBegins, SearchEnds, Service!Ask, Service!NotReady, Service!Answer
  <1>7. CASE UNCHANGED ipcVars
    BY <1>7
  <1>. QED
    BY <1>1, <1>2, <1>3, <1>4, <1>5, <1>6, <1>7 DEF Next

\* The generation installed never falls.
LEMMA GenerationGrows ==
    ASSUME NoneAssumption, TypeOK, [Next]_ipcVars
    PROVE  /\ index' \in Snapshots \cup {None}
           /\ Service!Generation(index) \in Nat
           /\ Service!Generation(index') \in Nat
           /\ Service!Generation(index') >= Service!Generation(index)
  <1>1. index \in Snapshots \cup {None} /\ running \in {0} \cup Requests
    BY DEF TypeOK
  <1>2. Service!Generation(index) \in Nat
    BY <1>1 DEF Service!Generation, Snapshots
  <1>3. CASE index' = index
    BY <1>1, <1>2, <1>3
  <1>4. CASE /\ running # 0
             /\ index' = [generation |-> Service!Generation(index) + 1, content |-> running]
    <2>1. index' \in Snapshots
      BY <1>1, <1>2, <1>4 DEF Snapshots
    <2>2. Service!Generation(index') = Service!Generation(index) + 1
      BY <1>4, <2>1, NoneAssumption DEF Service!Generation
    <2>. QED
      BY <1>2, <2>1, <2>2
  <1>. QED
    BY <1>3, <1>4, IndexStep

\* Each search is asked for, begun and finished by its own step; the rest of the
\* work of a step is a scan begun or reported, or a transfer.
LEMMA WorkStep ==
    ASSUME IpcAssumption, TypeOK, [Next]_ipcVars
    PROVE  /\ \/ running' = running \/ running' = 0
              \/ loop = "running" /\ Len(requests') = Len(requests) + 1 /\ running' = Len(requests')
                 /\ running' \in Requests
           /\ \/ outgoing' = outgoing \/ outgoing' = 0
              \/ loop = "running" /\ Len(requests') = Len(requests) + 1 /\ outgoing' = Len(requests')
           /\ \/ UNCHANGED <<accepted, begun, finished, asked>>
              \/ /\ Len(requests') = Len(requests) + 1
                 /\ Len(requests') \in Requests
                 /\ loop = "running"
                 /\ accepted' = Append(accepted, Len(requests'))
                 /\ UNCHANGED <<begun, finished, asked>>
              \/ \E r \in Requests :
                    /\ begun < Len(accepted) /\ begun' = begun + 1 /\ r = accepted[begun']
                    /\ UNCHANGED <<accepted, finished, requests, index, told>>
                    /\ \/ asked' = asked /\ asked[r] = None /\ index = None
                       \/ /\ index # None
                          /\ asked' = [asked EXCEPT ![r] = [query |-> "query", snapshot |-> index]]
              \/ \E r \in Requests :
                    /\ r \in SearchPool!Running
                    /\ finished' = finished \cup {r}
                    /\ asked' = asked \/ asked' = [asked EXCEPT ![r] = None]
                    /\ UNCHANGED <<accepted, begun, requests>>
  <1>. USE DEF ipcVars, serviceVars, poolVars
  <1>1. ASSUME NEW s \in Sockets, NEW r \in Requests, NEW awaits \in BOOLEAN, Dispatch(s, r, awaits)
        PROVE  /\ loop = "running" /\ Len(requests') = Len(requests) + 1 /\ r = Len(requests')
               /\ Len(requests') \in Requests
    BY <1>1 DEF Dispatch, TypeOK
  <1>2. ASSUME NEW s \in Sockets, NEW r \in Requests, Respond(s, r) \/ CancelScan(s, r)
        PROVE  UNCHANGED <<running, outgoing, accepted, begun, finished, asked>>
    BY <1>2 DEF Respond, CancelScan
  <1>3. ASSUME NEW s \in Sockets, NEW r \in Requests, DisableTransfer(s, r)
        PROVE  UNCHANGED <<running, accepted, begun, finished, asked>> /\ outgoing' = 0
    BY <1>3 DEF DisableTransfer, OutgoingFinished
  <1>4. ASSUME NEW s \in Sockets, NEW r \in Requests, AcceptScan(s, r)
        PROVE  /\ UNCHANGED <<outgoing, accepted, begun, finished, asked>> /\ running' = r
               /\ Dispatch(s, r, TRUE)
    BY <1>4 DEF AcceptScan, Service!BeginScan
  <1>5. ASSUME NEW s \in Sockets, NEW r \in Requests, AcceptSendFile(s, r)
        PROVE  /\ UNCHANGED <<running, accepted, begun, finished, asked>> /\ outgoing' = r
               /\ Dispatch(s, r, TRUE)
    BY <1>5 DEF AcceptSendFile
  <1>6. ASSUME NEW s \in Sockets, NEW r \in Requests, SubmitSearch(s, r)
        PROVE  /\ UNCHANGED <<running, outgoing, begun, finished, asked>>
               /\ accepted' = Append(accepted, r)
               /\ Dispatch(s, r, TRUE)
    BY <1>6 DEF SubmitSearch, SearchPool!Accept
  <1>7. CASE \E s \in Sockets : HandleNewConnection(s) \/ HandleDisconnected(s)
                                \/ DeleteSocket(s) \/ HandleGarbage(s) \/ HandleTooLarge(s)
    BY <1>7 DEF HandleNewConnection, HandleDisconnected, DeleteSocket, HandleGarbage, HandleTooLarge, CloseProtocolError
  <1>8. CASE HandlePosted \/ Quit \/ Destroy \/ ScanProgresses
    BY <1>8 DEF HandlePosted, Quit, Destroy, ScanProgresses
  <1>9. CASE SendFileEnds \/ ShutdownPool
    BY <1>9 DEF SendFileEnds, OutgoingFinished, ShutdownPool, SearchPool!Close
  <1>10. CASE ScanInstalls \/ ScanReports
    BY <1>10 DEF ScanInstalls, ScanReports, Service!InstallIndex, Service!Report
  <1>11. ASSUME NEW r \in Requests, SearchBegins(r)
         PROVE  /\ begun < Len(accepted) /\ begun' = begun + 1 /\ r = accepted[begun']
                /\ UNCHANGED <<running, outgoing, accepted, finished, requests, index, told>>
                /\ \/ asked' = asked /\ asked[r] = None /\ index = None
                   \/ /\ index # None
                      /\ asked' = [asked EXCEPT ![r] = [query |-> "query", snapshot |-> index]]
    BY <1>11 DEF SearchBegins, SearchPool!Begin, Service!Ask, Service!NotReady
  <1>12. ASSUME NEW r \in Requests, SearchEnds(r)
         PROVE  /\ r \in SearchPool!Running
                /\ finished' = finished \cup {r}
                /\ asked' = asked \/ asked' = [asked EXCEPT ![r] = None]
                /\ UNCHANGED <<running, outgoing, accepted, begun, requests>>
    <2>1. finished' = finished \cup {r} /\ r \in SearchPool!Running
      BY <1>12 DEF SearchEnds, SearchPool!Finish, SearchPool!Running
    <2>2. asked' = asked \/ asked' = [asked EXCEPT ![r] = None]
      BY <1>12 DEF SearchEnds, Service!Answer
    <2>3. UNCHANGED <<running, outgoing, accepted, begun, requests>>
      BY <1>12 DEF SearchEnds, SearchPool!Finish, Service!Answer
    <2>. QED
      BY <2>1, <2>2, <2>3
  <1>13. CASE UNCHANGED ipcVars
    BY <1>13
  <1>. HIDE DEF ipcVars, serviceVars, poolVars
  <1>14. CASE \E s \in Sockets : DispatchFrame(s)
    <2>1. PICK s \in Sockets, r \in Requests :
              \/ Respond(s, r)
              \/ AcceptScan(s, r) \/ CancelScan(s, r) \/ SubmitSearch(s, r)
              \/ AcceptSendFile(s, r) \/ DisableTransfer(s, r)
      BY <1>14 DEF DispatchFrame
    <2>2. CASE Respond(s, r) \/ CancelScan(s, r) \/ DisableTransfer(s, r)
      BY <1>2, <1>3, <2>2
    <2>3. CASE AcceptScan(s, r)
      BY <1>1, <1>4, <2>3
    <2>4. CASE AcceptSendFile(s, r)
      BY <1>1, <1>5, <2>4
    <2>5. CASE SubmitSearch(s, r)
      BY <1>1, <1>6, <2>5
    <2>. QED
      BY <2>1, <2>2, <2>3, <2>4, <2>5
  <1>15. CASE \E r \in Requests : SearchBegins(r)
    BY <1>11, <1>15
  <1>16. CASE \E r \in Requests : SearchEnds(r)
    BY <1>12, <1>16
  <1>. QED
    BY <1>7, <1>8, <1>9, <1>10, <1>13, <1>14, <1>15, <1>16 DEF Next

\* The life of the Qt thread and of the sockets.
LEMMA NetStep ==
    ASSUME [Next]_ipcVars
    PROVE  \/ UNCHANGED netVars
           \/ \E s \in Sockets : HandleNewConnection(s) \/ HandleDisconnected(s)
                                 \/ DeleteSocket(s) \/ HandleGarbage(s) \/ HandleTooLarge(s)
           \/ Quit
  <1>. USE DEF ipcVars
  <1>1. ASSUME NEW s \in Sockets, DispatchFrame(s) PROVE UNCHANGED netVars
    BY <1>1 DEF DispatchFrame, Respond, AcceptScan, CancelScan, SubmitSearch, AcceptSendFile,
                DisableTransfer, Dispatch
  <1>2. CASE HandlePosted \/ SendFileEnds \/ ShutdownPool \/ Destroy
    BY <1>2 DEF HandlePosted, SendFileEnds, ShutdownPool, Destroy
  <1>3. CASE ScanProgresses \/ ScanInstalls \/ ScanReports
    BY <1>3 DEF ScanProgresses, ScanInstalls, ScanReports
  <1>4. CASE \E r \in Requests : SearchBegins(r) \/ SearchEnds(r)
    BY <1>4 DEF SearchBegins, SearchEnds
  <1>5. CASE UNCHANGED ipcVars
    BY <1>5 DEF netVars
  <1>6. CASE \E s \in Sockets : HandleNewConnection(s) \/ HandleDisconnected(s)
                                \/ DeleteSocket(s) \/ HandleGarbage(s) \/ HandleTooLarge(s)
    BY <1>6
  <1>7. CASE Quit
    BY <1>7
  <1>8. CASE \E s \in Sockets : DispatchFrame(s)
    BY <1>1, <1>8
  <1>. HIDE DEF ipcVars
  <1>9. \/ \E s \in Sockets : \/ HandleNewConnection(s) \/ HandleDisconnected(s) \/ DeleteSocket(s)
                              \/ HandleGarbage(s) \/ HandleTooLarge(s) \/ DispatchFrame(s)
        \/ HandlePosted \/ SendFileEnds \/ ShutdownPool \/ Destroy
        \/ ScanProgresses \/ ScanInstalls \/ ScanReports
        \/ \E r \in Requests : SearchBegins(r) \/ SearchEnds(r)
        \/ Quit \/ UNCHANGED ipcVars
    BY DEF Next
  <1>. QED
    BY <1>2, <1>3, <1>4, <1>5, <1>6, <1>7, <1>8, <1>9

\* connections_ is right after every step.
LEMMA ConnectionsStep ==
    ASSUME IpcAssumption, TypeOK, ConnectionsAreOpen, [Next]_ipcVars
    PROVE  /\ object' \in [Sockets -> {"unborn", "open", "leaving", "deleted"}]
           /\ address' \in [Sockets -> Addresses \cup {None}]
           /\ connections' \subseteq Addresses
           /\ ConnectionsAreOpen'
  <1>. USE DEF TypeOK, ConnectionsAreOpen
  <1>1. CASE UNCHANGED netVars
    BY <1>1 DEF netVars
  <1>2. ASSUME NEW s \in Sockets, HandleNewConnection(s)
        PROVE  /\ object' \in [Sockets -> {"unborn", "open", "leaving", "deleted"}]
               /\ address' \in [Sockets -> Addresses \cup {None}]
               /\ connections' \subseteq Addresses
               /\ ConnectionsAreOpen'
    <2>1. PICK a \in 1..s :
              /\ \A t \in Sockets : object[t] \in {"open", "leaving"} => address[t] # a
              /\ address' = [address EXCEPT ![s] = a]
              /\ connections' = connections \cup {a}
      BY <1>2 DEF HandleNewConnection
    <2>2. object[s] = "unborn" /\ object' = [object EXCEPT ![s] = "open"]
      BY <1>2 DEF HandleNewConnection
    <2>3. a \in Addresses /\ a # None
      BY IpcAssumption DEF Addresses, Sockets
    <2>4. connections' = {address'[t] : t \in {u \in Sockets : object'[u] = "open"}}
      BY <2>1, <2>2
    <2>. QED
      BY <2>1, <2>2, <2>3, <2>4
  <1>3. ASSUME NEW s \in Sockets, HandleDisconnected(s) \/ HandleGarbage(s) \/ HandleTooLarge(s)
        PROVE  /\ object' \in [Sockets -> {"unborn", "open", "leaving", "deleted"}]
               /\ address' \in [Sockets -> Addresses \cup {None}]
               /\ connections' \subseteq Addresses
               /\ ConnectionsAreOpen'
    <2>1. /\ object[s] = "open" /\ object' = [object EXCEPT ![s] = "leaving"]
          /\ connections' = connections \ {address[s]} /\ address' = address
      BY <1>3 DEF HandleDisconnected, HandleGarbage, HandleTooLarge, CloseProtocolError
    <2>2. connections' = {address'[t] : t \in {u \in Sockets : object'[u] = "open"}}
      BY <2>1
    <2>. QED
      BY <2>1, <2>2
  <1>4. ASSUME NEW s \in Sockets, DeleteSocket(s)
        PROVE  /\ object' \in [Sockets -> {"unborn", "open", "leaving", "deleted"}]
               /\ address' \in [Sockets -> Addresses \cup {None}]
               /\ connections' \subseteq Addresses
               /\ ConnectionsAreOpen'
    BY <1>4 DEF DeleteSocket
  <1>5. CASE Quit
    BY <1>5 DEF Quit
  <1>. HIDE DEF TypeOK, ConnectionsAreOpen
  <1>. QED
    BY <1>1, <1>2, <1>3, <1>4, <1>5, NetStep

\* What is left of the types: history, flags and the stage of main.
LEMMA FlagsStep ==
    ASSUME IpcAssumption, IInv, [Next]_ipcVars
    PROVE  /\ loop' \in {"running", "stopping", "draining", "destroyed"}
           /\ progressed' \subseteq Requests
           /\ told' \in Nat /\ told' >= told /\ told' <= Service!Generation(index)
           /\ closed' \in BOOLEAN
  <1>. USE DEF ipcVars, poolVars
  <1>1. /\ loop \in {"running", "stopping", "draining", "destroyed"}
        /\ progressed \subseteq Requests
        /\ told \in Nat /\ closed \in BOOLEAN /\ running \in {0} \cup Requests
        /\ told <= Service!Generation(index)
    BY DEF IInv, TypeOK, ToldInv
  <1>2. ASSUME NEW s \in Sockets, DispatchFrame(s) PROVE UNCHANGED <<loop, progressed, told, closed>>
    BY <1>2 DEF DispatchFrame, Respond, AcceptScan, CancelScan, SubmitSearch, AcceptSendFile,
                DisableTransfer, Dispatch, SearchPool!Accept
  <1>3. CASE \E s \in Sockets : HandleNewConnection(s) \/ HandleDisconnected(s)
                                \/ DeleteSocket(s) \/ HandleGarbage(s) \/ HandleTooLarge(s)
    BY <1>1, <1>3 DEF HandleNewConnection, HandleDisconnected, DeleteSocket, HandleGarbage, HandleTooLarge, CloseProtocolError
  <1>4. CASE HandlePosted
    <2>1. /\ events # << >> /\ events \in Seq(Frames)
          /\ Head(events) = events[1] /\ 1 \in 1..Len(events) /\ events[1] \in Frames
      BY <1>4 DEF HandlePosted, IInv, TypeOK
    <2>2. Head(events).generation \in Nat
      BY <2>1 DEF Frames
    <2>3. Head(events).generation <= Service!Generation(index)
      BY <2>1 DEF IInv, ToldInv
    <2>4. \/ told' = told
          \/ told' = IF Head(events).generation > told THEN Head(events).generation ELSE told
      BY <1>4 DEF HandlePosted
    <2>. QED
      BY <1>1, <1>4, <2>2, <2>3, <2>4 DEF HandlePosted
  <1>5. CASE SendFileEnds \/ Quit \/ ShutdownPool \/ Destroy
    <2>1. UNCHANGED <<progressed, told>> /\ loop' \in {loop, "stopping", "draining", "destroyed"}
      BY <1>5 DEF SendFileEnds, Quit, ShutdownPool, Destroy
    <2>2. closed' = closed \/ closed' = TRUE
      BY <1>5 DEF SendFileEnds, Quit, ShutdownPool, Destroy, SearchPool!Close
    <2>3. closed' \in BOOLEAN
      BY <1>1, <2>2
    <2>4. loop' \in {"running", "stopping", "draining", "destroyed"}
      BY <1>1, <2>1
    <2>5. told' \in Nat /\ told' >= told /\ told' <= Service!Generation(index)
      BY <1>1, <2>1
    <2>. QED
      BY <1>1, <2>1, <2>3, <2>4, <2>5
  <1>6. CASE ScanProgresses \/ ScanInstalls \/ ScanReports
    BY <1>1, <1>6 DEF ScanProgresses, ScanInstalls, ScanReports
  <1>7. CASE \E r \in Requests : SearchBegins(r) \/ SearchEnds(r)
    BY <1>1, <1>7 DEF SearchBegins, SearchEnds, SearchPool!Begin, SearchPool!Finish
  <1>8. CASE UNCHANGED ipcVars
    BY <1>1, <1>8
  <1>9. CASE \E s \in Sockets : DispatchFrame(s)
    BY <1>1, <1>2, <1>9
  <1>. HIDE DEF ipcVars, poolVars
  <1>. QED
    BY <1>3, <1>4, <1>5, <1>6, <1>7, <1>8, <1>9 DEF Next

\* Types are kept.
LEMMA TypeStep ==
    ASSUME IpcAssumption, NoneAssumption, IInv, [Next]_ipcVars
    PROVE  TypeOK'
  <1>1. TypeOK /\ ConnectionsAreOpen /\ Len(requests) \in Nat /\ Len(requests') \in Nat
    BY RequestsStay DEF IInv
  <1>2. events' \in Seq(Frames)
    <2>1. events \in Seq(Frames)
      BY <1>1 DEF TypeOK
    <2>2. ASSUME NEW f, Posted(f) PROVE events' \in Seq(Frames)
      <3>1. f \in Frames /\ events' = Append(events, f)
        BY <2>2 DEF Posted
      <3>. QED
        BY <2>1, <3>1
    <2>3. CASE events' = events
      BY <2>1, <2>3
    <2>5. CASE events' = << >>
      <3>1. << >> \in Seq(Frames)
        OBVIOUS
      <3>. QED
        BY <2>5, <3>1
    <2>4. CASE events # << >> /\ events' = Tail(events)
      BY <2>1, <2>4
    <2>. QED
      BY <2>2, <2>3, <2>4, <2>5, EventsStep
  <1>3. replies' \in [Sockets -> Seq(Frames)]
    <2>1. replies \in [Sockets -> Seq(Frames)]
      BY <1>1 DEF TypeOK
    <2>2. ASSUME NEW s \in Sockets, NEW f, ReplyTo(s, f) PROVE replies' \in [Sockets -> Seq(Frames)]
      <3>1. Append(replies[s], f) \in Seq(Frames)
        BY <2>1, <2>2 DEF ReplyTo
      <3>. QED
        BY <2>1, <2>2, <3>1 DEF ReplyTo
    <2>. QED
      BY <2>1, <2>2, RepliesStep
  <1>4. running' \in {0} \cup Requests /\ outgoing' \in Nat
    BY <1>1, WorkStep DEF TypeOK
  <1>5. /\ accepted' \in Seq(Requests)
        /\ begun' \in 0..Len(accepted')
        /\ finished' \subseteq Requests
    <2>1. accepted \in Seq(Requests) /\ begun \in 0..Len(accepted) /\ finished \subseteq Requests
      BY <1>1 DEF TypeOK
    <2>3. CASE UNCHANGED <<accepted, begun, finished>>
      BY <2>1, <2>3
    <2>4. CASE /\ Len(requests') \in Requests
               /\ accepted' = Append(accepted, Len(requests'))
               /\ UNCHANGED <<begun, finished>>
      BY <2>1, <2>4
    <2>5. CASE /\ begun < Len(accepted) /\ begun' = begun + 1
               /\ UNCHANGED <<accepted, finished>>
      BY <2>1, <2>5
    <2>6. CASE /\ \E r \in Requests : finished' = finished \cup {r}
               /\ UNCHANGED <<accepted, begun>>
      BY <2>1, <2>6
    <2>. QED
      BY <1>1, <2>3, <2>4, <2>5, <2>6, WorkStep
  <1>6. asked' \in [Requests -> Searches \cup {None}]
    <2>1. asked \in [Requests -> Searches \cup {None}] /\ index \in Snapshots \cup {None}
      BY <1>1 DEF TypeOK
    <2>2. index # None => [query |-> "query", snapshot |-> index] \in Searches
      BY <2>1 DEF Searches
    <2>. QED
      BY <1>1, <2>1, <2>2, WorkStep
  <1>. QED
    BY <1>1, <1>2, <1>3, <1>4, <1>5, <1>6, RequestsStay, ConnectionsStep, GenerationGrows, FlagsStep
    DEF TypeOK

\* Every reply goes to the connection that asked.
LEMMA HomeStep ==
    ASSUME IpcAssumption, IInv, [Next]_ipcVars
    PROVE  AnswersGoHome'
  <1>. SUFFICES ASSUME NEW s \in Sockets, NEW i \in 1..Len(replies'[s]), replies'[s][i].request # 0
                PROVE  /\ replies'[s][i].request <= Len(requests')
                       /\ requests'[replies'[s][i].request].socket = s
    BY DEF AnswersGoHome
  <1>1. TypeOK /\ AnswersGoHome /\ Len(requests) \in Nat /\ Len(requests') \in Nat
    BY RequestsStay DEF IInv
  <1>2. replies[s] \in Seq(Frames)
    BY <1>1 DEF TypeOK
  <1>3. ASSUME i \in 1..Len(replies[s]), replies'[s][i] = replies[s][i]
        PROVE  /\ replies'[s][i].request <= Len(requests')
               /\ requests'[replies'[s][i].request].socket = s
    <2>. DEFINE r == replies[s][i].request
    <2>1. replies[s][i] \in Frames
      BY <1>2, <1>3
    <2>2. r \in Nat
      BY <2>1 DEF Frames
    <2>3. r <= Len(requests) /\ requests[r].socket = s
      BY <1>1, <1>3 DEF AnswersGoHome
    <2>4. r \in 1..Len(requests)
      BY <1>1, <1>3, <2>2, <2>3
    <2>. QED
      BY <1>1, <1>3, <2>3, <2>4, RequestsStay
  <1>4. CASE replies' = replies
    BY <1>3, <1>4
  <1>5. ASSUME NEW t \in Sockets, NEW f, ReplyTo(t, f)
        PROVE  /\ replies'[s][i].request <= Len(requests')
               /\ requests'[replies'[s][i].request].socket = s
    <2>1. replies \in [Sockets -> Seq(Frames)] /\ replies' = [replies EXCEPT ![t] = Append(replies[t], f)]
      BY <1>1, <1>5 DEF TypeOK, ReplyTo
    <2>2. CASE i \in 1..Len(replies[s]) /\ replies'[s][i] = replies[s][i]
      BY <1>3, <2>2
    <2>3. CASE s = t /\ replies'[s][i] = f
      BY <1>5, <2>3 DEF ReplyTo
    <2>. QED
      BY <1>2, <2>1, <2>2, <2>3
  <1>. QED
    BY <1>4, <1>5, RepliesStep

\* Answers of searches, written or waiting, are as new as what was told.
LEMMA FreshStep ==
    ASSUME IpcAssumption, IInv, [Next]_ipcVars
    PROVE  SearchesSeeWhatWasTold'
  <1>. SUFFICES ASSUME NEW s \in Sockets, NEW i \in 1..Len(replies'[s]),
                       replies'[s][i].type \in {"SearchResponse", "NotReady"}
                PROVE  /\ replies'[s][i].request \in 1..Len(requests')
                       /\ replies'[s][i].generation >= requests'[replies'[s][i].request].told
    BY DEF SearchesSeeWhatWasTold, Fresh
  <1>1. TypeOK /\ SearchesSeeWhatWasTold /\ replies \in [Sockets -> Seq(Frames)]
    BY DEF IInv, TypeOK
  <1>2. ASSUME i \in 1..Len(replies[s]), replies'[s][i] = replies[s][i]
        PROVE  Fresh(replies'[s][i])
    BY <1>1, <1>2 DEF SearchesSeeWhatWasTold
  <1>3. CASE replies' = replies
    BY <1>1, <1>2, <1>3, FreshStays
  <1>4. ASSUME NEW t \in Sockets, NEW f, ReplyTo(t, f) PROVE Fresh(replies'[s][i])
    <2>1. replies' = [replies EXCEPT ![t] = Append(replies[t], f)] /\ Fresh(f)
      BY <1>4 DEF ReplyTo
    <2>2. \/ i \in 1..Len(replies[s]) /\ replies'[s][i] = replies[s][i]
          \/ replies'[s][i] = f
      BY <1>1, <2>1
    <2>. QED
      BY <1>2, <2>1, <2>2
  <1>. QED
    BY <1>1, <1>3, <1>4, FreshStays, RepliesStep

\* Work under way belongs to a request.
LEMMA WorkInvStep ==
    ASSUME IpcAssumption, NoneAssumption, IInv, [Next]_ipcVars
    PROVE  WorkInv'
  <1>1. /\ TypeOK /\ WorkInv
        /\ Len(requests) \in Nat /\ Len(requests') \in Nat /\ Len(requests') >= Len(requests)
    BY RequestsStay DEF IInv
  <1>2. running' # 0 => running' <= Len(requests')
    BY <1>1, WorkStep DEF WorkInv, TypeOK, Requests
  <1>3. outgoing' <= Len(requests')
    BY <1>1, WorkStep DEF WorkInv, TypeOK
  <1>4. \A i \in 1..Len(accepted') : accepted'[i] <= Len(requests')
    <2>1. accepted \in Seq(Requests) /\ \A i \in 1..Len(accepted) : accepted[i] <= Len(requests)
      BY <1>1 DEF TypeOK, WorkInv
    <2>2. \A i \in 1..Len(accepted) : accepted[i] \in Nat
      BY <2>1 DEF Requests
    <2>3. accepted' = accepted \/ accepted' = Append(accepted, Len(requests'))
      BY <1>1, WorkStep
    <2>. QED
      BY <1>1, <2>1, <2>2, <2>3
  <1>5. \A i \in 1..Len(events') : events'[i].request \in 1..Len(requests')
    <2>1. events \in Seq(Frames) /\ \A i \in 1..Len(events) : events[i].request \in 1..Len(requests')
      BY <1>1 DEF TypeOK, WorkInv
    <2>2. ASSUME NEW f, Posted(f)
          PROVE  f.request \in 1..Len(requests') /\ events' = Append(events, f)
      BY <1>1, <2>2 DEF Posted
    <2>3. CASE events' = events
      BY <2>1, <2>3
    <2>4. CASE events' = << >>
      BY <2>4
    <2>5. CASE events # << >> /\ events' = Tail(events)
      BY <2>1, <2>5
    <2>6. CASE \E f : Posted(f)
      BY <2>1, <2>2, <2>6
    <2>. QED
      BY <2>3, <2>4, <2>5, <2>6, EventsStep
  <1>. QED
    BY <1>2, <1>3, <1>4, <1>5 DEF WorkInv

\* Nothing said or under way is ahead of the index.
LEMMA ToldStep ==
    ASSUME IpcAssumption, NoneAssumption, IInv, [Next]_ipcVars
    PROVE  ToldInv'
  <1>. DEFINE G == Service!Generation(index)
              H == Service!Generation(index')
  <1>1. TypeOK /\ ToldInv /\ G \in Nat /\ H \in Nat /\ H >= G
    BY GenerationGrows DEF IInv
  <1>2. told \in Nat /\ told' \in Nat /\ told' >= told /\ told' <= H
    <2>1. told \in Nat /\ told' \in Nat /\ told' >= told /\ told' <= G
      BY <1>1, FlagsStep DEF TypeOK
    <2>. HIDE DEF G, H
    <2>. QED
      BY <1>1, <2>1
  <1>3. \A r \in 1..Len(requests') : requests'[r].told <= told'
    <2>1. ASSUME NEW r \in 1..Len(requests) PROVE requests'[r].told <= told'
      BY <1>1, <1>2, <2>1, RequestFields, RequestsStay DEF ToldInv
    <2>. QED
      BY <1>1, <1>2, <2>1, RequestsStay
  <1>4. \A i \in 1..Len(events') : events'[i].generation <= H
    <2>1. events \in Seq(Frames) /\ \A i \in 1..Len(events) : events[i] \in Frames /\ events[i].generation <= G
      <3>1. events \in Seq(Frames)
        BY <1>1 DEF TypeOK
      <3>2. \A i \in 1..Len(events) : events[i].generation <= G
        BY <1>1 DEF ToldInv
      <3>. QED
        BY <3>1, <3>2
    <2>. HIDE DEF H
    <2>2. \A i \in 1..Len(events) : events[i].generation <= H
      <3>1. \A i \in 1..Len(events) : events[i].generation \in Nat
        BY <2>1 DEF Frames
      <3>. HIDE DEF G
      <3>. QED
        BY <1>1, <2>1, <3>1
    <2>3. ASSUME NEW f, Posted(f)
          PROVE  f.generation <= H /\ events' = Append(events, f)
      <3>1. f.generation \in Nat /\ f.generation <= G /\ events' = Append(events, f)
        BY <2>3 DEF Posted, Frames
      <3>. HIDE DEF G
      <3>. QED
        BY <1>1, <3>1
    <2>. HIDE DEF G
    <2>4. CASE events' = events
      BY <2>2, <2>4
    <2>5. CASE events' = << >>
      BY <2>5
    <2>6. CASE events # << >> /\ events' = Tail(events)
      BY <2>1, <2>2, <2>6
    <2>7. CASE \E f : Posted(f)
      BY <2>1, <2>2, <2>3, <2>7
    <2>. QED
      BY <2>4, <2>5, <2>6, <2>7, EventsStep
  <1>5. \A r \in Requests : asked'[r] # None => asked'[r].snapshot.generation <= H
    <2>1. /\ asked \in [Requests -> Searches \cup {None}]
          /\ \A r \in Requests : asked[r] # None => asked[r].snapshot.generation <= G
      BY <1>1 DEF TypeOK, ToldInv
    <2>2. \A r \in Requests : asked[r] # None => asked[r].snapshot.generation \in Nat
      BY <2>1 DEF Searches, Snapshots
    <2>3. \A r \in Requests : asked[r] # None => asked[r].snapshot.generation <= H
      <3>. HIDE DEF G, H
      <3>. QED
        BY <1>1, <2>1, <2>2
    <2>4. ASSUME NEW r \in Requests, index' = index, index # None,
                 asked' = [asked EXCEPT ![r] = [query |-> "query", snapshot |-> index]]
          PROVE  \A t \in Requests : asked'[t] # None => asked'[t].snapshot.generation <= H
      <3>1. index.generation = G /\ G <= H
        BY <1>1, <2>4 DEF Service!Generation
      <3>. HIDE DEF G, H
      <3>. QED
        BY <2>1, <2>3, <2>4, <3>1
    <2>. HIDE DEF G, H
    <2>5. CASE asked' = asked
      BY <2>3, <2>5
    <2>6. CASE \E r \in Requests : asked' = [asked EXCEPT ![r] = None]
      BY <2>1, <2>3, <2>6
    <2>. QED
      BY <1>1, <2>4, <2>5, <2>6, WorkStep
  <1>. QED
    BY <1>2, <1>3, <1>4, <1>5 DEF ToldInv

\* Searches on their way are fresh after every step.
LEMMA SearchStep ==
    ASSUME IpcAssumption, NoneAssumption, IInv, [Next]_ipcVars
    PROVE  SearchInv'
  <1>1. /\ TypeOK /\ ToldInv /\ SearchInv /\ WorkInv
        /\ Len(requests) \in Nat /\ Len(requests') \in Nat
    BY RequestsStay DEF IInv
  <1>2. \A i \in 1..Len(events') : Fresh(events[i])'
    <2>1. events \in Seq(Frames) /\ \A i \in 1..Len(events) : Fresh(events[i])
      BY <1>1 DEF TypeOK, SearchInv
    <2>2. \A i \in 1..Len(events') : Fresh(events'[i])
      <3>1. CASE events' = events
        BY <2>1, <3>1
      <3>2. CASE events' = << >>
        BY <3>2
      <3>3. CASE events # << >> /\ events' = Tail(events)
        BY <2>1, <3>3
      <3>4. ASSUME NEW f, Posted(f) PROVE \A i \in 1..Len(events') : Fresh(events'[i])
        BY <2>1, <3>4 DEF Posted
      <3>. QED
        BY <3>1, <3>2, <3>3, <3>4, EventsStep
    <2>3. ASSUME NEW i \in 1..Len(events') PROVE Fresh(events[i])'
      BY <1>1, <2>2, <2>3, FreshStays DEF Fresh
    <2>. QED
      BY <2>3
  <1>. DEFINE Age(s) == IF s = None THEN 0 ELSE s.snapshot.generation
              Ready(r, s) == r \in 1..Len(requests) /\ Age(s) >= requests[r].told
              ReadyNext(r, s) == r \in 1..Len(requests') /\ Age(s) >= requests'[r].told
  <1>3. ASSUME NEW i \in 1..begun, accepted[i] \notin finished
        PROVE  Ready(accepted[i], asked[accepted[i]])
    BY <1>1, <1>3 DEF SearchInv, Fresh
  <1>4. ASSUME NEW r, NEW s, Ready(r, s) PROVE ReadyNext(r, s)
    BY <1>1, <1>4, RequestsStay
  <1>5. \A i \in 1..begun' : accepted'[i] \notin finished' => ReadyNext(accepted'[i], asked'[accepted'[i]])
    <2>1. /\ accepted \in Seq(Requests) /\ begun \in 0..Len(accepted)
          /\ asked \in [Requests -> Searches \cup {None}]
      BY <1>1 DEF TypeOK
    <2>. HIDE DEF Ready, ReadyNext
    <2>2. \A i \in 1..begun : accepted[i] \notin finished => ReadyNext(accepted[i], asked[accepted[i]])
      BY <1>3, <1>4
    <2>3. CASE UNCHANGED <<accepted, begun, finished, asked>>
      BY <2>2, <2>3
    <2>4. CASE /\ accepted' = Append(accepted, Len(requests'))
               /\ UNCHANGED <<begun, finished, asked>>
      BY <2>1, <2>2, <2>4
    <2>5. ASSUME NEW r \in Requests,
                 begun < Len(accepted), begun' = begun + 1, r = accepted[begun'],
                 UNCHANGED <<accepted, finished, requests, index, told>>,
                 \/ asked' = asked /\ asked[r] = None /\ index = None
                 \/ /\ index # None
                    /\ asked' = [asked EXCEPT ![r] = [query |-> "query", snapshot |-> index]]
          PROVE  \A i \in 1..begun' : accepted'[i] \notin finished' =>
                     ReadyNext(accepted'[i], asked'[accepted'[i]])
      <3>1. r \in 1..Len(requests)
        <4>1. begun' \in 1..Len(accepted)
          BY <2>1, <2>5
        <4>. QED
          BY <1>1, <2>1, <2>5, <4>1 DEF WorkInv, Requests
      <3>2. Age(asked'[r]) = Service!Generation(index)
        <4>1. CASE asked' = asked /\ asked[r] = None /\ index = None
          BY <4>1 DEF Service!Generation
        <4>2. CASE /\ index # None
                   /\ asked' = [asked EXCEPT ![r] = [query |-> "query", snapshot |-> index]]
          <5>1. index \in Snapshots /\ asked'[r] = [query |-> "query", snapshot |-> index]
            BY <1>1, <2>1, <4>2 DEF TypeOK
          <5>2. asked'[r] # None
            BY <5>1, NoneAssumption DEF Searches
          <5>. QED
            BY <4>2, <5>1, <5>2 DEF Service!Generation
        <4>. QED
          BY <2>5, <4>1, <4>2
      <3>3. Service!Generation(index) >= requests[r].told
        <4>1. /\ Service!Generation(index) \in Nat /\ told \in Nat
              /\ told <= Service!Generation(index)
          BY <1>1, GenerationGrows DEF TypeOK, ToldInv
        <4>2. requests[r].told \in Nat /\ requests[r].told <= told
          BY <1>1, <3>1, RequestFields DEF ToldInv
        <4>. QED
          BY <4>1, <4>2
      <3>4. ReadyNext(r, asked'[r])
        BY <2>5, <3>1, <3>2, <3>3 DEF ReadyNext
      <3>5. \A t \in Requests : t # r => asked'[t] = asked[t]
        BY <2>1, <2>5
      <3>6. \A i \in 1..begun : accepted[i] \in Requests
        BY <2>1
      <3>. HIDE DEF Age
      <3>. QED
        BY <2>1, <2>2, <2>5, <3>4, <3>5, <3>6
    <2>6. ASSUME NEW r \in Requests, finished' = finished \cup {r},
                 asked' = asked \/ asked' = [asked EXCEPT ![r] = None],
                 UNCHANGED <<accepted, begun, requests>>
          PROVE  \A i \in 1..begun' : accepted'[i] \notin finished' =>
                     ReadyNext(accepted'[i], asked'[accepted'[i]])
      <3>1. \A t \in Requests : t # r => asked'[t] = asked[t]
        BY <2>1, <2>6
      <3>2. \A i \in 1..begun : accepted[i] \in Requests
        BY <2>1
      <3>. QED
        BY <2>2, <2>6, <3>1, <3>2
    <2>. QED
      BY <1>1, <2>3, <2>4, <2>5, <2>6, WorkStep
  <1>6. \A i \in 1..begun' : accepted'[i] \notin finished' =>
            Fresh([type |-> "SearchResponse", request |-> accepted[i],
                   generation |-> IF asked[accepted[i]] = None THEN 0
                                  ELSE asked[accepted[i]].snapshot.generation])'
    BY <1>5 DEF Fresh
  <1>. QED
    BY <1>2, <1>6 DEF SearchInv

\* The end of main.
LEMMA ShutdownStep ==
    ASSUME IpcAssumption, NoneAssumption, IInv, [Next]_ipcVars
    PROVE  ShutdownInv' /\ NothingCallsTheDead'
  <1>1. TypeOK /\ ShutdownInv /\ NothingCallsTheDead
    BY DEF IInv
  <1>2. \/ loop' = loop
        \/ loop = "running" /\ loop' = "stopping" /\ connections' = {} /\ outgoing' = 0
        \/ loop = "stopping" /\ running = 0 /\ loop' = "draining" /\ UNCHANGED running
        \/ /\ loop = "draining" /\ loop' = "destroyed" /\ SearchPool!Accepted = finished
           /\ UNCHANGED <<running, outgoing, accepted, finished>>
    <2>. USE DEF ipcVars, serviceVars, poolVars
    <2>1. ASSUME NEW s \in Sockets, DispatchFrame(s) PROVE loop' = loop
      BY <2>1 DEF DispatchFrame, Respond, AcceptScan, CancelScan, SubmitSearch, AcceptSendFile,
                  DisableTransfer, Dispatch
    <2>2. CASE \E s \in Sockets : DispatchFrame(s)
      BY <2>1, <2>2
    <2>3. CASE \E s \in Sockets : HandleNewConnection(s) \/ HandleDisconnected(s)
                                  \/ DeleteSocket(s) \/ HandleGarbage(s) \/ HandleTooLarge(s)
      BY <2>3 DEF HandleNewConnection, HandleDisconnected, DeleteSocket, HandleGarbage, HandleTooLarge, CloseProtocolError
    <2>4. CASE HandlePosted \/ SendFileEnds \/ ScanProgresses \/ ScanInstalls \/ ScanReports
      BY <2>4 DEF HandlePosted, SendFileEnds, ScanProgresses, ScanInstalls, ScanReports
    <2>5. CASE Quit \/ ShutdownPool \/ Destroy
      BY <2>5 DEF Quit, ShutdownPool, Destroy
    <2>6. CASE \E r \in Requests : SearchBegins(r) \/ SearchEnds(r)
      BY <2>6 DEF SearchBegins, SearchEnds
    <2>7. CASE UNCHANGED ipcVars
      BY <2>7
    <2>. HIDE DEF ipcVars, serviceVars, poolVars
    <2>. QED
      BY <2>2, <2>3, <2>4, <2>5, <2>6, <2>7 DEF Next
  <1>3. connections' = connections \/ loop = "running" \/ connections' = {}
    BY NetStep DEF netVars, HandleNewConnection, HandleDisconnected, DeleteSocket, HandleGarbage, HandleTooLarge, CloseProtocolError, Quit
  <1>4. running' = running \/ running' = 0 \/ loop = "running"
    BY <1>1, WorkStep
  <1>5. outgoing' = outgoing \/ outgoing' = 0 \/ loop = "running"
    BY <1>1, WorkStep
  <1>6. ASSUME loop = "destroyed" PROVE UNCHANGED <<accepted, finished>>
    <2>1. SearchPool!Running = {}
      <3>1. begun \in 0..Len(accepted)
        BY <1>1 DEF TypeOK
      <3>2. SearchPool!Accepted = finished
        BY <1>1, <1>6 DEF NothingCallsTheDead
      <3>. QED
        BY <3>1, <3>2 DEF SearchPool!Accepted, SearchPool!Running
    <2>. QED
      BY <1>1, <1>6, <2>1, WorkStep
  <1>7. ShutdownInv'
    BY <1>1, <1>2, <1>3, <1>4, <1>5 DEF ShutdownInv, TypeOK
  <1>8. NothingCallsTheDead'
    BY <1>1, <1>2, <1>4, <1>5, <1>6 DEF ShutdownInv, NothingCallsTheDead, SearchPool!Accepted, TypeOK
  <1>. QED
    BY <1>7, <1>8

\* Every step keeps the inductive invariant.
LEMMA StepInv == IpcAssumption /\ NoneAssumption /\ IInv /\ [Next]_ipcVars => IInv'
  <1>. SUFFICES ASSUME IpcAssumption, NoneAssumption, IInv, [Next]_ipcVars PROVE IInv'
    OBVIOUS
  <1>1. TypeOK /\ ConnectionsAreOpen
    BY DEF IInv
  <1>. QED
    BY <1>1, TypeStep, ConnectionsStep, HomeStep, WorkInvStep, ToldStep, FreshStep, SearchStep,
       ShutdownStep DEF IInv

\* However connections come and go, requests are asked and answered, scans end
\* and the service quits, the inductive invariant holds.
THEOREM IpcIsSound == Spec => []IInv
  <1>. USE IpcAssumption, NoneAssumption
  <1>1. Init => IInv
    BY InitInv
  <1>2. IInv /\ [Next]_ipcVars => IInv'
    BY StepInv
  <1>. QED
    BY <1>1, <1>2, PTL DEF Spec

\* No connection is ever sent the reply to a request of another, whatever
\* addresses the socket objects are given (the QPointer and the look into
\* connections_ of each posted call).
THEOREM RepliesGoHome == Spec => []AnswersGoHome
  <1>1. IInv => AnswersGoHome
    BY DEF IInv
  <1>. QED
    BY <1>1, IpcIsSound, PTL

\* A search asked after a client was told of a generation answers from that or a
\* newer one (dispatch_search_request).
THEOREM SearchesAreFresh == Spec => []SearchesSeeWhatWasTold
  <1>1. IInv => SearchesSeeWhatWasTold
    BY DEF IInv
  <1>. QED
    BY <1>1, IpcIsSound, PTL

\* When the server is gone nothing is left that would call it (the order of
\* shutdown in main and ~LocalIpcServer).
THEOREM NoDanglingCallback == Spec => []NothingCallsTheDead
  <1>1. IInv => NothingCallsTheDead
    BY DEF IInv
  <1>. QED
    BY <1>1, IpcIsSound, PTL
-----------------------------------------------------------------------------
(***************************************************************************)
(* The order of the replies.  A request is open while the scan, the        *)
(* transfer or the search it asked for is under way, and nothing final is  *)
(* said of it, or waits to be, before it is not.                           *)
(***************************************************************************)
Commissioned(r) == r # 0 /\ (running = r \/ outgoing = r)
Searching(r) == r \in SearchPool!Accepted \ finished
Open(r) == Commissioned(r) \/ Searching(r)

SaidFrames == UNION {{replies[s][i] : i \in 1..Len(replies[s])} : s \in Sockets}
DueFrames == {events[i] : i \in 1..Len(events)}
Accepts(r) == \E f \in SaidFrames : f.request = r /\ f.type = "Accepted"

\* What has been said, what waits to be said and what is under way.
NewsInv ==
    /\ running # 0 => running # outgoing
    /\ \A r \in Nat : Commissioned(r) => Accepts(r)
    /\ \A f \in DueFrames : /\ f.type # "Accepted"
                            /\ f.type \in Final => ~Open(f.request)
                            /\ f.type \notin Final => Accepts(f.request)
    /\ \A f \in SaidFrames : f.request # 0 /\ f.type \in Final =>
          ~Open(f.request) /\ \A g \in DueFrames : g.request # f.request
    /\ \A f \in SaidFrames \cup DueFrames : f.request # 0 => ~Searching(f.request)
    /\ \A f \in SaidFrames, g \in DueFrames : f.request = g.request => Accepts(f.request)

\* Nothing follows a final event of the same request.
EventsInOrder ==
    \A j \in 1..Len(events) : \A i \in 1..j-1 :
        events[i].request = events[j].request => events[i].type \notin Final

OrderInv == RepliesInOrder /\ EventsInOrder /\ NewsInv

Newest == Len(requests) + 1

Writes(s, f) ==
    /\ f \in Frames
    /\ replies' = [replies EXCEPT ![s] = Append(replies[s], f)]

\* A call about an open request is posted.
Comes(f) ==
    /\ f \in Frames
    /\ f.request # 0 /\ Open(f.request)
    /\ f.type # "Accepted"
    /\ f.type \in Final => ~Open(f.request)'
    /\ f.type \notin Final => Commissioned(f.request)
    /\ events' = Append(events, f)

Narrows ==
    /\ \A r \in Nat : (Commissioned(r)' => Commissioned(r)) /\ (Searching(r)' => Searching(r))
    /\ running' # 0 => running' = running
    /\ outgoing' # 0 => outgoing' = outgoing

\* The four ways in which a step takes part in the order.
Works ==
    /\ Narrows
    /\ \/ events' = events \/ events' = << >> \/ \E f : Comes(f)
       \/ events # << >> /\ events' = Tail(events)
    /\ \/ replies' = replies
       \/ \E s \in Sockets : \E f : f.type \in Final /\ f.request \in {0, Newest} /\ Writes(s, f)

Delivers ==
    /\ UNCHANGED <<running, outgoing, accepted, finished>>
    /\ events # << >> /\ events' = Tail(events)
    /\ \/ replies' = replies
       \/ \E s \in Sockets : requests[events[1].request].socket = s /\ Writes(s, events[1])

Takes ==
    /\ UNCHANGED <<accepted, finished, events>>
    /\ \/ running = 0 /\ running' = Newest /\ outgoing' = outgoing
       \/ outgoing = 0 /\ outgoing' = Newest /\ running' = running
    /\ \E s \in Sockets : \E f : f.type = "Accepted" /\ f.request = Newest /\ Writes(s, f)

Queues ==
    /\ UNCHANGED <<running, outgoing, finished, replies, events>>
    /\ accepted' = Append(accepted, Newest)

\* Of the newest request nothing has been said, and nothing is under way.
LEMMA NewestIsNew ==
    ASSUME IpcAssumption, IInv
    PROVE  /\ Newest \in Nat \ {0} /\ ~Open(Newest) /\ ~Searching(0)
           /\ \A f \in SaidFrames \cup DueFrames : f \in Frames /\ f.request # Newest
           /\ \A f \in DueFrames : f.request # 0
  <1>1. TypeOK /\ AnswersGoHome /\ WorkInv
    BY DEF IInv
  <1>2. Newest \in Nat \ {0}
    BY <1>1 DEF TypeOK, Newest
  <1>3. /\ \A r \in SearchPool!Accepted : r \in Nat \ {0} /\ r <= Len(requests)
        /\ running \in Nat /\ running <= Len(requests) /\ outgoing \in Nat /\ outgoing <= Len(requests)
    <2>1. \A i \in 1..Len(accepted) : accepted[i] \in Requests /\ accepted[i] <= Len(requests)
      BY <1>1 DEF TypeOK, WorkInv
    <2>2. running \in Nat /\ running <= Len(requests) /\ outgoing \in Nat /\ outgoing <= Len(requests)
      BY <1>1 DEF TypeOK, WorkInv, Requests
    <2>. QED
      BY <2>1, <2>2 DEF SearchPool!Accepted, Requests
  <1>4. ~Open(Newest) /\ ~Searching(0)
    BY <1>1, <1>3 DEF Open, Commissioned, Searching, Newest, TypeOK
  <1>5. ASSUME NEW f \in SaidFrames PROVE f \in Frames /\ f.request # Newest
    <2>1. PICK s \in Sockets : \E i \in 1..Len(replies[s]) : f = replies[s][i]
      BY <1>5 DEF SaidFrames
    <2>2. f \in Frames
      <3>1. replies[s] \in Seq(Frames)
        BY <1>1 DEF TypeOK
      <3>. QED
        BY <2>1, <3>1
    <2>3. f.request # 0 => f.request <= Len(requests)
      BY <1>1, <2>1 DEF AnswersGoHome
    <2>. QED
      BY <1>1, <1>2, <2>2, <2>3 DEF Newest, TypeOK
  <1>6. ASSUME NEW f \in DueFrames PROVE f \in Frames /\ f.request # Newest /\ f.request # 0
    <2>1. events \in Seq(Frames)
      BY <1>1 DEF TypeOK
    <2>2. f \in Frames
      BY <1>6, <2>1 DEF DueFrames
    <2>3. f.request \in 1..Len(requests)
      BY <1>1, <1>6 DEF DueFrames, WorkInv
    <2>. QED
      BY <1>1, <2>2, <2>3 DEF Newest, TypeOK
  <1>. QED
    BY <1>2, <1>4, <1>5, <1>6

\* What a written frame adds.
LEMMA WrittenFrames ==
    ASSUME IInv, NEW s \in Sockets, NEW f, Writes(s, f)
    PROVE  /\ SaidFrames' = SaidFrames \cup {f}
           /\ Len(replies'[s]) = Len(replies[s]) + 1 /\ replies'[s][Len(replies[s]) + 1] = f
           /\ \A i \in 1..Len(replies[s]) : replies'[s][i] = replies[s][i]
           /\ \A t \in Sockets : t # s => replies'[t] = replies[t]
           /\ Len(replies[s]) \in Nat
  <1>1. replies \in [Sockets -> Seq(Frames)] /\ f \in Frames
    BY DEF IInv, TypeOK, Writes
  <1>2. replies[s] \in Seq(Frames) /\ replies'[s] = Append(replies[s], f)
    BY <1>1 DEF Writes
  <1>3. /\ Len(replies'[s]) = Len(replies[s]) + 1 /\ replies'[s][Len(replies[s]) + 1] = f
        /\ \A i \in 1..Len(replies[s]) : replies'[s][i] = replies[s][i]
        /\ Len(replies[s]) \in Nat
    BY <1>1, <1>2
  <1>4. \A t \in Sockets : t # s => replies'[t] = replies[t]
    BY <1>1 DEF Writes
  <1>5. ASSUME NEW g \in SaidFrames' PROVE g \in SaidFrames \cup {f}
    <2>1. PICK t \in Sockets : \E i \in 1..Len(replies'[t]) : g = replies'[t][i]
      BY <1>5 DEF SaidFrames
    <2>2. PICK i \in 1..Len(replies'[t]) : g = replies'[t][i]
      BY <2>1
    <2>3. CASE t = s /\ i = Len(replies[s]) + 1
      BY <1>3, <2>2, <2>3
    <2>4. CASE ~(t = s /\ i = Len(replies[s]) + 1)
      <3>1. i \in 1..Len(replies[t]) /\ g = replies[t][i]
        BY <1>3, <1>4, <2>2, <2>4
      <3>. QED
        BY <3>1 DEF SaidFrames
    <2>. QED
      BY <2>3, <2>4
  <1>6. ASSUME NEW g \in SaidFrames PROVE g \in SaidFrames'
    <2>1. PICK t \in Sockets : \E i \in 1..Len(replies[t]) : g = replies[t][i]
      BY <1>6 DEF SaidFrames
    <2>2. \E i \in 1..Len(replies'[t]) : g = replies'[t][i]
      BY <1>3, <1>4, <2>1
    <2>. QED
      BY <2>1, <2>2 DEF SaidFrames
  <1>7. f \in SaidFrames'
    <2>1. Len(replies[s]) + 1 \in 1..Len(replies'[s])
      BY <1>3
    <2>. QED
      BY <1>3, <2>1 DEF SaidFrames
  <1>. QED
    BY <1>3, <1>4, <1>5, <1>6, <1>7

\* What becomes of the calls that wait.
LEMMA EventFrames ==
    ASSUME IInv
    PROVE  /\ events' = << >> => DueFrames' = {}
           /\ \A f \in Frames : events' = Append(events, f) =>
                 /\ DueFrames' = DueFrames \cup {f}
                 /\ Len(events') = Len(events) + 1 /\ events'[Len(events) + 1] = f
                 /\ \A i \in 1..Len(events) : events'[i] = events[i]
           /\ events # << >> /\ events' = Tail(events) =>
                 /\ events[1] \in DueFrames /\ events[1] \in Frames
                 /\ DueFrames' \subseteq DueFrames
                 /\ \A f \in DueFrames' : \E j \in 2..Len(events) : f = events[j]
                 /\ Len(events') = Len(events) - 1
                 /\ \A i \in 1..Len(events') : events'[i] = events[i + 1]
           /\ Len(events) \in Nat
  <1>1. events \in Seq(Frames)
    BY DEF IInv, TypeOK
  <1>2. ASSUME NEW f \in Frames, events' = Append(events, f)
        PROVE  /\ DueFrames' = DueFrames \cup {f}
               /\ Len(events') = Len(events) + 1 /\ events'[Len(events) + 1] = f
               /\ \A i \in 1..Len(events) : events'[i] = events[i]
    BY <1>1, <1>2 DEF DueFrames
  <1>3. ASSUME events # << >>, events' = Tail(events)
        PROVE  /\ events[1] \in DueFrames /\ events[1] \in Frames
               /\ DueFrames' \subseteq DueFrames
               /\ \A f \in DueFrames' : \E j \in 2..Len(events) : f = events[j]
               /\ Len(events') = Len(events) - 1
               /\ \A i \in 1..Len(events') : events'[i] = events[i + 1]
    <2>1. /\ Len(events') = Len(events) - 1 /\ Len(events) \in Nat \ {0}
          /\ \A i \in 1..Len(events') : events'[i] = events[i + 1]
          /\ events[1] \in Frames
      BY <1>1, <1>3
    <2>2. ASSUME NEW f \in DueFrames' PROVE \E j \in 2..Len(events) : f = events[j]
      <3>1. PICK i \in 1..Len(events') : f = events'[i]
        BY <2>2 DEF DueFrames
      <3>2. i + 1 \in 2..Len(events) /\ f = events[i + 1]
        BY <2>1, <3>1
      <3>. QED
        BY <3>2
    <2>3. events[1] \in DueFrames
      BY <2>1 DEF DueFrames
    <2>4. \A j \in 2..Len(events) : events[j] \in DueFrames
      BY <2>1 DEF DueFrames
    <2>. QED
      BY <2>1, <2>2, <2>3, <2>4
  <1>4. events' = << >> => DueFrames' = {}
    BY DEF DueFrames
  <1>. QED
    BY <1>1, <1>2, <1>3, <1>4
\* What ends the scan or the transfer of a request leaves nothing of it open.
LEMMA EndsClose ==
    ASSUME IpcAssumption, IInv, NewsInv, NEW r \in Nat \ {0}
    PROVE  /\ Commissioned(r) => ~Searching(r)
           /\ /\ Commissioned(r) /\ UNCHANGED <<accepted, finished>>
              /\ \/ r = running /\ running' = 0 /\ outgoing' = outgoing
                 \/ r = outgoing /\ outgoing' = 0 /\ running' = running
              => ~Open(r)'
  <1>1. ASSUME Commissioned(r) PROVE ~Searching(r)
    <2>1. PICK f \in SaidFrames : f.request = r
      BY <1>1 DEF NewsInv, Accepts
    <2>. QED
      BY <2>1 DEF NewsInv
  <1>2. ASSUME Commissioned(r), UNCHANGED <<accepted, finished>>,
               \/ r = running /\ running' = 0 /\ outgoing' = outgoing
               \/ r = outgoing /\ outgoing' = 0 /\ running' = running
        PROVE  ~Open(r)'
    <2>1. ~Commissioned(r)'
      BY <1>2 DEF Commissioned, NewsInv
    <2>2. ~Searching(r)'
      BY <1>1, <1>2 DEF Searching, SearchPool!Accepted
    <2>. QED
      BY <2>1, <2>2 DEF Open
  <1>. QED
    BY <1>1, <1>2

\* The end of the transfer is posted.
LEMMA OutgoingPosted ==
    ASSUME IpcAssumption, IInv, NewsInv, OutgoingFinished, UNCHANGED <<running, accepted, finished>>
    PROVE  Narrows /\ (events' = events \/ \E f : Comes(f))
  <1>1. Narrows
    BY DEF Narrows, OutgoingFinished, Commissioned, Searching, SearchPool!Accepted
  <1>2. CASE outgoing # 0 /\ loop = "running"
    <2>1. PICK r \in Nat \ {0} : r = outgoing
      BY <1>2 DEF IInv, TypeOK
    <2>2. Commissioned(r)
      BY <2>1 DEF Commissioned
    <2>. DEFINE f == Frame("SendFileResult", r)
    <2>3. f \in Frames /\ f.request = r /\ f.type \in Final /\ f.type # "Accepted"
      BY <2>1 DEF Frame, Frames, Final
    <2>4. events' = Append(events, f) /\ outgoing' = 0
      BY <1>2, <2>1 DEF OutgoingFinished, Post
    <2>5. ~Open(r)'
      BY <2>1, <2>2, <2>4, EndsClose
    <2>. HIDE DEF f
    <2>6. Comes(f)
      BY <2>1, <2>2, <2>3, <2>4, <2>5 DEF Comes, Open
    <2>. QED
      BY <1>1, <2>6
  <1>3. CASE ~(outgoing # 0 /\ loop = "running")
    BY <1>1, <1>3 DEF OutgoingFinished, Post
  <1>. QED
    BY <1>2, <1>3
\* A dispatched request: at most one answer, or the start of some work.
LEMMA DispatchKinds ==
    ASSUME IpcAssumption, IInv, NewsInv, NEW s \in Sockets, DispatchFrame(s)
    PROVE  Works \/ Takes \/ Queues
  <1>1. TypeOK /\ ConnectionsAreOpen
    BY DEF IInv
  <1>2. PICK r \in Requests : \/ Respond(s, r)
                              \/ AcceptScan(s, r) \/ CancelScan(s, r) \/ SubmitSearch(s, r)
                              \/ AcceptSendFile(s, r) \/ DisableTransfer(s, r)
    BY DEF DispatchFrame
  <1>3. r = Newest /\ object[s] = "open" /\ address[s] \in connections
    BY <1>2 DEF Respond, AcceptScan, CancelScan, SubmitSearch, AcceptSendFile, DisableTransfer,
                Dispatch, Newest
  <1>4. ASSUME NEW type \in {"Response", "Accepted"}, SendFrame(s, Frame(type, r))
        PROVE  Writes(s, Frame(type, r))
    <2>1. Frame(type, r) \in Frames
      BY DEF Frame, Frames, Final, Requests
    <2>2. replies' = [replies EXCEPT ![s] = Append(replies[s], Frame(type, r))]
      BY <1>1, <1>3, <1>4, SendsHome
    <2>. QED
      BY <2>1, <2>2 DEF Writes
  <1>5. CASE Respond(s, r)
    <2>1. Narrows /\ events' = events
      BY <1>5 DEF Respond, Narrows, Commissioned, Searching, SearchPool!Accepted, serviceVars, poolVars
    <2>2. Writes(s, Frame("Response", r))
      BY <1>4, <1>5 DEF Respond
    <2>. QED
      BY <1>3, <2>1, <2>2 DEF Works, Frame, Final
  <1>6. CASE CancelScan(s, r)
    <2>1. Narrows /\ events' = events /\ replies' = replies
      BY <1>6 DEF CancelScan, Narrows, Commissioned, Searching, SearchPool!Accepted, serviceVars,
                  poolVars
    <2>. QED
      BY <2>1 DEF Works
  <1>7. CASE DisableTransfer(s, r)
    <2>1. OutgoingFinished /\ UNCHANGED <<running, accepted, finished>>
      BY <1>7 DEF DisableTransfer, serviceVars, poolVars
    <2>2. Writes(s, Frame("Response", r))
      BY <1>4, <1>7 DEF DisableTransfer
    <2>3. Narrows /\ (events' = events \/ \E f : Comes(f))
      BY <2>1, OutgoingPosted
    <2>. QED
      BY <1>3, <2>2, <2>3 DEF Works, Frame, Final
  <1>8. CASE AcceptScan(s, r)
    <2>1. /\ UNCHANGED <<accepted, finished, events, outgoing>>
          /\ running = 0 /\ running' = Newest
      BY <1>3, <1>8 DEF AcceptScan, Service!BeginScan, poolVars
    <2>2. Writes(s, Frame("Accepted", r))
      BY <1>4, <1>8 DEF AcceptScan
    <2>. QED
      BY <1>3, <2>1, <2>2 DEF Takes, Frame
  <1>9. CASE AcceptSendFile(s, r)
    <2>1. /\ UNCHANGED <<accepted, finished, events, running>>
          /\ outgoing = 0 /\ outgoing' = Newest
      BY <1>3, <1>9 DEF AcceptSendFile, serviceVars, poolVars
    <2>2. Writes(s, Frame("Accepted", r))
      BY <1>4, <1>9 DEF AcceptSendFile
    <2>. QED
      BY <1>3, <2>1, <2>2 DEF Takes, Frame
  <1>10. CASE SubmitSearch(s, r)
    BY <1>3, <1>10 DEF SubmitSearch, SearchPool!Accept, Queues, serviceVars
  <1>. QED
    BY <1>2, <1>5, <1>6, <1>7, <1>8, <1>9, <1>10

\* The scan thread posts about the scan that runs.
LEMMA ScanKinds ==
    ASSUME IpcAssumption, IInv, NewsInv, ScanProgresses \/ ScanReports
    PROVE  Works
  <1>1. PICK r \in Nat \ {0} : r = running
    BY DEF IInv, TypeOK, Requests, ScanProgresses, ScanReports, Service!Report
  <1>2. Commissioned(r) /\ Open(r)
    BY <1>1 DEF Commissioned, Open
  <1>3. replies' = replies /\ outgoing' = outgoing /\ UNCHANGED <<accepted, finished>>
    BY DEF ScanProgresses, ScanReports, poolVars
  <1>4. CASE ScanProgresses
    <2>. DEFINE f == Frame("ScanProgress", r)
    <2>1. Narrows
      BY <1>3, <1>4 DEF ScanProgresses, serviceVars, Narrows, Commissioned, Searching, SearchPool!Accepted
    <2>2. f \in Frames /\ f.request = r /\ f.type \notin Final /\ f.type # "Accepted"
      BY DEF Frame, Frames, Final
    <2>3. events' = events \/ events' = Append(events, f)
      BY <1>1, <1>4 DEF ScanProgresses, Post
    <2>. HIDE DEF f
    <2>4. events' = events \/ Comes(f)
      BY <1>2, <2>2, <2>3 DEF Comes
    <2>. QED
      BY <1>3, <2>1, <2>4 DEF Works
  <1>5. CASE ScanReports
    <2>1. running' = 0
      BY <1>5 DEF ScanReports, Service!Report
    <2>2. Narrows /\ ~Open(r)'
      <3>1. Narrows
        BY <1>3, <2>1 DEF Narrows, Commissioned, Searching, SearchPool!Accepted
      <3>. QED
        BY <1>1, <1>2, <1>3, <2>1, <3>1, EndsClose
    <2>3. ASSUME NEW f \in Frames, f.request = r, f.type \in Final, f.type # "Accepted", Post(f)
          PROVE  events' = events \/ Comes(f)
      BY <1>1, <1>2, <2>2, <2>3 DEF Comes, Post
    <2>4. PICK g \in Nat : g = Service!Generation(index)
      BY DEF IInv, TypeOK, Service!Generation, Snapshots
    <2>5. CASE Post(Tells("ScanCompleted", r, g))
      <3>. DEFINE f == Tells("ScanCompleted", r, g)
      <3>1. f \in Frames /\ f.request = r /\ f.type \in Final /\ f.type # "Accepted"
        BY DEF Tells, Frames, Final
      <3>. HIDE DEF f
      <3>. QED
        BY <1>3, <2>2, <2>3, <2>5, <3>1 DEF Works, f
    <2>6. CASE Post(Frame("ScanFailed", r))
      <3>. DEFINE f == Frame("ScanFailed", r)
      <3>1. f \in Frames /\ f.request = r /\ f.type \in Final /\ f.type # "Accepted"
        BY DEF Frame, Frames, Final
      <3>. HIDE DEF f
      <3>. QED
        BY <1>3, <2>2, <2>3, <2>6, <3>1 DEF Works, f
    <2>. QED
      BY <1>1, <1>5, <2>4, <2>5, <2>6 DEF ScanReports
  <1>. QED
    BY <1>4, <1>5

\* A pool thread posts about the search it ends.
LEMMA SearchKinds ==
    ASSUME IpcAssumption, IInv, NewsInv, NEW r \in Requests, SearchEnds(r)
    PROVE  Works
  <1>1. r \in SearchPool!Running /\ finished' = finished \cup {r}
    BY DEF SearchEnds, SearchPool!Finish, SearchPool!Running
  <1>2. Searching(r)
    <2>1. begun \in 0..Len(accepted) /\ Len(accepted) \in Nat
      BY DEF IInv, TypeOK
    <2>. QED
      BY <1>1, <2>1 DEF Searching, SearchPool!Accepted, SearchPool!Running
  <1>3. /\ UNCHANGED <<accepted, running, outgoing, replies>>
    BY DEF SearchEnds, SearchPool!Finish, Service!Answer, serviceVars
  <1>4. r \in Nat \ {0} /\ ~Commissioned(r)
    <2>1. r \in Nat \ {0}
      BY DEF Requests
    <2>. QED
      BY <1>2, <2>1, EndsClose
  <1>5. Narrows
    BY <1>1, <1>3 DEF Narrows, Commissioned, Searching, SearchPool!Accepted
  <1>6. ~Open(r)'
    BY <1>1, <1>3, <1>4 DEF Open, Commissioned, Searching
  <1>7. ASSUME NEW f \in Frames, f.request = r, f.type \in Final, f.type # "Accepted", Post(f)
        PROVE  events' = events \/ Comes(f)
    BY <1>2, <1>4, <1>6, <1>7 DEF Comes, Post, Open
  <1>8. CASE asked[r] # None
    <2>1. PICK g \in Nat : g = asked[r].snapshot.generation
      BY <1>8 DEF IInv, TypeOK, Searches, Snapshots
    <2>. DEFINE f == Tells("SearchResponse", r, g)
    <2>2. f \in Frames /\ f.request = r /\ f.type \in Final /\ f.type # "Accepted"
      BY <1>4 DEF Tells, Frames, Final
    <2>3. Post(f)
      BY <1>8, <2>1 DEF SearchEnds
    <2>. HIDE DEF f
    <2>. QED
      BY <1>3, <1>5, <1>7, <2>2, <2>3 DEF Works
  <1>9. CASE asked[r] = None
    <2>. DEFINE f == Frame("NotReady", r)
    <2>1. f \in Frames /\ f.request = r /\ f.type \in Final /\ f.type # "Accepted"
      BY <1>4 DEF Frame, Frames, Final
    <2>2. Post(f)
      BY <1>9 DEF SearchEnds
    <2>. HIDE DEF f
    <2>. QED
      BY <1>3, <1>5, <1>7, <2>1, <2>2 DEF Works
  <1>. QED
    BY <1>8, <1>9
\* Every step takes part in the order in one of the four ways.
LEMMA StepKinds ==
    ASSUME IpcAssumption, IInv, NewsInv, [Next]_ipcVars
    PROVE  Works \/ Delivers \/ Takes \/ Queues
  <1>1. TypeOK /\ ConnectionsAreOpen /\ WorkInv
    BY DEF IInv
  <1>2. ASSUME UNCHANGED <<running, outgoing, accepted, finished>> PROVE Narrows
    BY <1>2 DEF Narrows, Commissioned, Searching, SearchPool!Accepted
  <1>3. CASE \E s \in Sockets : DispatchFrame(s)
    BY <1>3, DispatchKinds
  <1>4. CASE ScanProgresses \/ ScanReports
    BY <1>4, ScanKinds
  <1>5. CASE \E r \in Requests : SearchEnds(r)
    BY <1>5, SearchKinds
  <1>6. ASSUME NEW s \in Sockets, HandleGarbage(s) \/ HandleTooLarge(s) PROVE Works
    <2>1. Frame("Response", 0) \in Frames
      BY DEF Frame, Frames, Final
    <2>2. address[s] \in connections /\ object[s] = "open"
      BY <1>1, <1>6 DEF HandleGarbage, HandleTooLarge, CloseProtocolError, ConnectionsAreOpen
    <2>3. Writes(s, Frame("Response", 0))
      BY <1>1, <1>6, <2>1, <2>2, SendsHome DEF HandleGarbage, HandleTooLarge, CloseProtocolError, Writes
    <2>4. Narrows /\ (events' = events \/ (events # << >> /\ events' = Tail(events)))
      BY <1>2, <1>6 DEF HandleGarbage, HandleTooLarge, CloseProtocolError, serviceVars, poolVars
    <2>. QED
      BY <2>3, <2>4 DEF Works, Frame, Final
  <1>7. CASE HandlePosted
    <2>. DEFINE s == requests[events[1].request].socket
    <2>1. /\ events # << >> /\ events' = Tail(events) /\ Head(events) = events[1]
          /\ UNCHANGED <<running, outgoing, accepted, finished>>
      BY <1>1, <1>7 DEF HandlePosted, serviceVars, poolVars, TypeOK
    <2>2. CASE Reachable(s)
      <3>1. events[1] \in Frames /\ events[1] \in DueFrames
        BY <2>1, EventFrames
      <3>2. s \in Sockets
        <4>1. events[1].request \in 1..Len(requests)
          BY <1>1, <3>1 DEF DueFrames, WorkInv
        <4>. QED
          BY <1>1, <4>1, RequestFields
      <3>3. SendFrame(s, events[1])
        BY <1>7, <2>1, <2>2 DEF HandlePosted
      <3>4. Writes(s, events[1])
        BY <1>1, <2>2, <3>1, <3>2, <3>3, SendsHome DEF Reachable, Writes
      <3>. QED
        BY <2>1, <3>2, <3>4 DEF Delivers
    <2>3. CASE ~Reachable(s)
      BY <1>7, <2>1, <2>3 DEF HandlePosted, Delivers
    <2>. QED
      BY <2>2, <2>3
  <1>8. CASE SendFileEnds
    <2>1. OutgoingFinished /\ UNCHANGED <<running, accepted, finished, replies>>
      BY <1>8 DEF SendFileEnds, serviceVars, poolVars
    <2>. QED
      BY <2>1, OutgoingPosted DEF Works
  <1>9. CASE Quit
    <2>1. Narrows
      BY <1>9 DEF Quit, serviceVars, poolVars, Narrows, Commissioned, Searching, SearchPool!Accepted
    <2>. QED
      BY <1>9, <2>1 DEF Quit, Works
  <1>10. CASE \E s \in Sockets : HandleNewConnection(s) \/ HandleDisconnected(s) \/ DeleteSocket(s)
    BY <1>2, <1>10 DEF HandleNewConnection, HandleDisconnected, DeleteSocket, serviceVars, poolVars, Works
  <1>11. CASE ScanInstalls \/ ShutdownPool \/ Destroy
    BY <1>2, <1>11 DEF ScanInstalls, Service!InstallIndex, ShutdownPool, SearchPool!Close, Destroy,
                       serviceVars, poolVars, Works
  <1>12. CASE \E r \in Requests : SearchBegins(r)
    BY <1>2, <1>12 DEF SearchBegins, SearchPool!Begin, Service!Ask, Service!NotReady, Works
  <1>13. CASE UNCHANGED ipcVars
    BY <1>2, <1>13 DEF ipcVars, serviceVars, poolVars, Works
  <1>. QED
    BY <1>3, <1>4, <1>5, <1>6, <1>7, <1>8, <1>9, <1>10, <1>11, <1>12, <1>13 DEF Next

\* Events stay in order.
LEMMA EventsStayInOrder ==
    ASSUME IpcAssumption, IInv, NewsInv, EventsInOrder, [Next]_ipcVars
    PROVE  EventsInOrder'
  <1>1. CASE events' = events
    BY <1>1 DEF EventsInOrder
  <1>2. CASE events' = << >>
    BY <1>2 DEF EventsInOrder
  <1>3. ASSUME NEW f, Comes(f) PROVE EventsInOrder'
    <2>1. /\ Len(events') = Len(events) + 1 /\ events'[Len(events) + 1] = f
          /\ \A i \in 1..Len(events) : events'[i] = events[i]
          /\ Len(events) \in Nat
      BY <1>3, EventFrames DEF Comes
    <2>2. \A i \in 1..Len(events) : events[i].request = f.request => events[i].type \notin Final
      BY <1>3 DEF Comes, NewsInv, DueFrames
    <2>. QED
      BY <2>1, <2>2 DEF EventsInOrder
  <1>4. CASE events # << >> /\ events' = Tail(events)
    <2>1. /\ Len(events') = Len(events) - 1 /\ Len(events) \in Nat
          /\ \A i \in 1..Len(events') : events'[i] = events[i + 1]
      BY <1>4, EventFrames
    <2>2. ASSUME NEW j \in 1..Len(events'), NEW i \in 1..j-1, events'[i].request = events'[j].request
          PROVE  events'[i].type \notin Final
      <3>1. j + 1 \in 1..Len(events) /\ i + 1 \in 1..(j+1)-1 /\ i \in 1..Len(events')
        BY <2>1
      <3>2. events'[i] = events[i + 1] /\ events'[j] = events[j + 1]
        BY <2>1, <3>1
      <3>. QED
        BY <2>2, <3>1, <3>2 DEF EventsInOrder
    <2>. QED
      BY <2>2 DEF EventsInOrder
  <1>. QED
    BY <1>1, <1>2, <1>3, <1>4, StepKinds DEF Works, Delivers, Takes, Queues

\* A frame may be written if it repeats nothing and fits what has been said.
LEMMA OneMoreReply ==
    ASSUME IInv, RepliesInOrder, NEW s \in Sockets, NEW f, Writes(s, f),
           f.request # 0 =>
               /\ \/ f.type \in Final \/ f.type = "Accepted"
                  \/ \E k \in 1..Len(replies[s]) :
                        replies[s][k].request = f.request /\ replies[s][k].type = "Accepted"
               /\ \A i \in 1..Len(replies[s]) :
                     replies[s][i].request = f.request =>
                         replies[s][i].type \notin Final /\ f.type # "Accepted"
    PROVE  RepliesInOrder'
  <1>1. /\ Len(replies'[s]) = Len(replies[s]) + 1 /\ replies'[s][Len(replies[s]) + 1] = f
        /\ \A i \in 1..Len(replies[s]) : replies'[s][i] = replies[s][i]
        /\ \A t \in Sockets : t # s => replies'[t] = replies[t]
        /\ Len(replies[s]) \in Nat
    BY WrittenFrames
  <1>. DEFINE Fits(q, i) ==
                q[i].request # 0 =>
                    /\ \/ q[i].type \in Final
                       \/ \E k \in 1..i : q[k].request = q[i].request /\ q[k].type = "Accepted"
                    /\ \A j \in i+1..Len(q) :
                           q[j].request = q[i].request => q[i].type \notin Final /\ q[j].type # "Accepted"
  <1>2. \A t \in Sockets : \A i \in 1..Len(replies[t]) : Fits(replies[t], i)
    BY DEF RepliesInOrder
  <1>3. ASSUME NEW i \in 1..Len(replies'[s]) PROVE Fits(replies'[s], i)
    <2>1. CASE i \in 1..Len(replies[s])
      <3>1. replies'[s][i] = replies[s][i] /\ Fits(replies[s], i)
        BY <1>1, <1>2, <2>1
      <3>2. ASSUME replies[s][i].request # 0
            PROVE  \/ replies'[s][i].type \in Final
                   \/ \E k \in 1..i : /\ replies'[s][k].request = replies'[s][i].request
                                      /\ replies'[s][k].type = "Accepted"
        <4>1. \A k \in 1..i : replies'[s][k] = replies[s][k]
          BY <1>1, <2>1
        <4>. QED
          BY <3>1, <3>2, <4>1
      <3>3. ASSUME replies[s][i].request # 0,
                   NEW j \in i+1..Len(replies'[s]), replies'[s][j].request = replies[s][i].request
            PROVE  replies[s][i].type \notin Final /\ replies'[s][j].type # "Accepted"
        <4>1. CASE j = Len(replies[s]) + 1
          BY <1>1, <2>1, <3>3, <4>1
        <4>2. CASE j # Len(replies[s]) + 1
          <5>1. j \in 1..Len(replies[s]) /\ j \in i+1..Len(replies[s])
            BY <1>1, <2>1, <3>3, <4>2
          <5>. QED
            BY <1>1, <3>1, <3>3, <5>1
        <4>. QED
          BY <4>1, <4>2
      <3>. QED
        BY <3>1, <3>2, <3>3
    <2>2. CASE i = Len(replies[s]) + 1
      <3>1. replies'[s][i] = f /\ \A j \in i+1..Len(replies'[s]) : FALSE
        BY <1>1, <2>2
      <3>2. ASSUME f.request # 0
            PROVE  \/ f.type \in Final
                   \/ \E k \in 1..i : replies'[s][k].request = f.request /\ replies'[s][k].type = "Accepted"
        <4>1. CASE f.type = "Accepted"
          BY <1>1, <2>2, <3>1, <4>1
        <4>2. ASSUME NEW k \in 1..Len(replies[s]),
                     replies[s][k].request = f.request, replies[s][k].type = "Accepted"
              PROVE  \E m \in 1..i : replies'[s][m].request = f.request /\ replies'[s][m].type = "Accepted"
          BY <1>1, <2>2, <4>2
        <4>. QED
          BY <3>2, <4>1, <4>2
      <3>. QED
        BY <3>1, <3>2
    <2>. QED
      BY <1>1, <2>1, <2>2
  <1>4. ASSUME NEW t \in Sockets, NEW i \in 1..Len(replies'[t]) PROVE Fits(replies'[t], i)
    <2>. HIDE DEF Fits
    <2>1. CASE t = s
      BY <1>3, <1>4, <2>1
    <2>2. CASE t # s
      BY <1>1, <1>2, <1>4, <2>2
    <2>. QED
      BY <2>1, <2>2
  <1>. QED
    BY <1>4 DEF RepliesInOrder
\* Replies stay in order.
LEMMA RepliesStayInOrder ==
    ASSUME IpcAssumption, IInv, OrderInv, [Next]_ipcVars
    PROVE  RepliesInOrder'
  <1>1. RepliesInOrder /\ EventsInOrder /\ NewsInv
    BY DEF OrderInv
  <1>2. CASE replies' = replies
    BY <1>1, <1>2 DEF RepliesInOrder
  <1>3. ASSUME NEW s \in Sockets PROVE \A i \in 1..Len(replies[s]) : replies[s][i] \in SaidFrames
    BY DEF SaidFrames
  <1>4. ASSUME NEW s \in Sockets, NEW f, Writes(s, f), f.request \in {0, Newest},
               f.type \in Final \cup {"Accepted"}
        PROVE  RepliesInOrder'
    <2>1. f.request # 0 => \A i \in 1..Len(replies[s]) : replies[s][i].request # f.request
      BY <1>3, <1>4, NewestIsNew
    <2>. QED
      BY <1>1, <1>4, <2>1, OneMoreReply
  <1>5. ASSUME NEW s \in Sockets, events # << >>, events' = Tail(events),
               requests[events[1].request].socket = s, Writes(s, events[1])
        PROVE  RepliesInOrder'
    <2>. DEFINE f == events[1]
    <2>1. f \in DueFrames
      BY <1>5, EventFrames
    <2>2. \A i \in 1..Len(replies[s]) : replies[s][i].request = f.request => replies[s][i].type \notin Final
      BY <1>1, <1>3, <2>1, NewestIsNew DEF NewsInv
    <2>3. f.type # "Accepted" /\ f.request # 0
      BY <1>1, <2>1, NewestIsNew DEF NewsInv
    <2>4. ASSUME f.type \notin Final
          PROVE  \E k \in 1..Len(replies[s]) : replies[s][k].request = f.request /\ replies[s][k].type = "Accepted"
      <3>1. PICK g \in SaidFrames : g.request = f.request /\ g.type = "Accepted"
        BY <1>1, <2>1, <2>4 DEF NewsInv, Accepts
      <3>2. PICK t \in Sockets : \E k \in 1..Len(replies[t]) : g = replies[t][k]
        BY DEF SaidFrames
      <3>3. requests[g.request].socket = t
        BY <2>3, <3>1, <3>2 DEF IInv, AnswersGoHome
      <3>4. t = s
        BY <1>5, <3>1, <3>3
      <3>. QED
        BY <3>1, <3>2, <3>4
    <2>. QED
      BY <1>1, <1>5, <2>2, <2>3, <2>4, OneMoreReply
  <1>. QED
    BY <1>1, <1>2, <1>4, <1>5, StepKinds DEF Works, Delivers, Takes, Queues

\* Work narrows, a call may be posted, a refusal or an answer written.
LEMMA WorksKeepsNews ==
    ASSUME IpcAssumption, IInv, NewsInv, Works
    PROVE  NewsInv'
  <1>1. \E new \in SUBSET {f \in Frames : f.type \in Final /\ f.request \in {0, Newest}} :
            SaidFrames' = SaidFrames \cup new
    <2>1. CASE replies' = replies
      <3>1. SaidFrames' = SaidFrames \cup {}
        BY <2>1 DEF SaidFrames
      <3>. QED
        BY <3>1
    <2>2. ASSUME NEW s \in Sockets, NEW f, f.type \in Final, f.request \in {0, Newest}, Writes(s, f)
          PROVE  \E new \in SUBSET {g \in Frames : g.type \in Final /\ g.request \in {0, Newest}} :
                     SaidFrames' = SaidFrames \cup new
      <3>1. f \in Frames /\ SaidFrames' = SaidFrames \cup {f}
        BY <2>2, WrittenFrames DEF Writes
      <3>. QED
        BY <2>2, <3>1
    <2>. QED
      BY <2>1, <2>2 DEF Works
  <1>2. PICK new \in SUBSET {f \in Frames : f.type \in Final /\ f.request \in {0, Newest}} :
            SaidFrames' = SaidFrames \cup new
    BY <1>1
  <1>3. \A g \in new : g.type \in Final /\ g.request \in {0, Newest}
    BY <1>2
  <1>4. \A f \in DueFrames' : f \in DueFrames \/ Comes(f)
    <2>1. CASE events' = events
      BY <2>1 DEF DueFrames
    <2>2. CASE events' = << >> \/ (events # << >> /\ events' = Tail(events))
      BY <2>2, EventFrames
    <2>3. ASSUME NEW f, Comes(f) PROVE \A g \in DueFrames' : g \in DueFrames \/ Comes(g)
      BY <2>3, EventFrames DEF Comes
    <2>. QED
      BY <2>1, <2>2, <2>3 DEF Works
  <1>5. /\ Narrows
        /\ Newest \in Nat \ {0} /\ ~Open(Newest) /\ ~Searching(0)
        /\ \A f \in SaidFrames \cup DueFrames : f \in Frames /\ f.request # Newest
        /\ \A f \in DueFrames : f.request # 0
    BY NewestIsNew DEF Works
  <1>6. \A r : Accepts(r) => Accepts(r)'
    BY <1>2 DEF Accepts
  <1>7. ASSUME NEW f, Comes(f)
        PROVE  /\ f \in Frames /\ f.request \in Nat \ {0} /\ f.request # Newest
               /\ \A g \in SaidFrames : g.request = f.request => g.type \notin Final /\ Accepts(f.request)
               /\ ~Searching(f.request)'
    <2>1. f \in Frames /\ f.request \in Nat \ {0} /\ f.request # Newest
      BY <1>5, <1>7 DEF Comes, Frames
    <2>2. ASSUME NEW g \in SaidFrames, g.request = f.request
          PROVE  g.type \notin Final /\ Accepts(f.request)
      BY <1>7, <2>1, <2>2 DEF Comes, Open, NewsInv
    <2>3. ~Searching(f.request)'
      <3>1. CASE f.type \in Final
        BY <1>7, <3>1 DEF Comes, Open
      <3>2. CASE f.type \notin Final
        BY <1>5, <1>7, <2>1, <3>2, EndsClose DEF Comes, Narrows
      <3>. QED
        BY <3>1, <3>2
    <2>. QED
      BY <2>1, <2>2, <2>3
  <1>8. \A f \in SaidFrames \cup DueFrames : f.request \in Nat
    BY <1>5 DEF Frames
  <1>9. \A r \in Nat : Open(r)' => Open(r)
    BY <1>5 DEF Narrows, Open
  <1>10. (running # 0 => running # outgoing)'
    BY <1>5 DEF Narrows, NewsInv
  <1>11. ASSUME NEW r \in Nat, Commissioned(r)' PROVE Accepts(r)'
    BY <1>5, <1>6, <1>11 DEF Narrows, NewsInv
  <1>12. ASSUME NEW f \in DueFrames'
         PROVE  /\ f.type # "Accepted"
                /\ f.type \in Final => ~Open(f.request)'
                /\ f.type \notin Final => Accepts(f.request)'
    <2>1. CASE f \in DueFrames
      BY <1>6, <1>8, <1>9, <2>1 DEF NewsInv
    <2>2. CASE Comes(f)
      BY <1>6, <1>7, <2>2 DEF NewsInv, Comes
    <2>. QED
      BY <1>4, <1>12, <2>1, <2>2
  <1>13. ASSUME NEW f \in SaidFrames', f.request # 0, f.type \in Final
         PROVE  ~Open(f.request)' /\ \A g \in DueFrames' : g.request # f.request
    <2>1. CASE f \in SaidFrames
      <3>1. ~Open(f.request)'
        BY <1>8, <1>9, <1>13, <2>1 DEF NewsInv
      <3>2. ASSUME NEW g \in DueFrames' PROVE g.request # f.request
        <4>1. CASE g \in DueFrames
          BY <1>13, <2>1, <4>1 DEF NewsInv
        <4>2. CASE Comes(g)
          BY <1>7, <1>13, <2>1, <4>2
        <4>. QED
          BY <1>4, <4>1, <4>2
      <3>. QED
        BY <3>1, <3>2
    <2>2. CASE f \in new
      <3>1. f.request = Newest
        BY <1>3, <1>13, <2>2
      <3>2. ~Open(f.request)'
        BY <1>5, <1>9, <3>1
      <3>. QED
        BY <1>4, <1>5, <1>7, <3>1, <3>2
    <2>. QED
      BY <1>2, <1>13, <2>1, <2>2
  <1>14. ASSUME NEW f \in (SaidFrames \cup DueFrames)', f.request # 0
         PROVE  ~Searching(f.request)'
    <2>1. CASE f \in SaidFrames \cup DueFrames
      BY <1>5, <1>8, <1>14, <2>1 DEF NewsInv, Narrows
    <2>2. CASE f \in new
      BY <1>3, <1>5, <1>9, <1>14, <2>2 DEF Open
    <2>3. CASE Comes(f)
      BY <1>7, <2>3
    <2>. QED
      BY <1>2, <1>4, <1>14, <2>1, <2>2, <2>3
  <1>15. ASSUME NEW f \in SaidFrames', NEW g \in DueFrames', f.request = g.request
         PROVE  Accepts(f.request)'
    <2>1. f \in SaidFrames
      BY <1>2, <1>3, <1>4, <1>5, <1>7, <1>15
    <2>2. CASE g \in DueFrames
      BY <1>6, <1>15, <2>1, <2>2 DEF NewsInv
    <2>3. CASE Comes(g)
      BY <1>6, <1>7, <1>15, <2>1, <2>3
    <2>. QED
      BY <1>4, <1>15, <2>2, <2>3
  <1>. QED
    BY <1>10, <1>11, <1>12, <1>13, <1>14, <1>15 DEF NewsInv
\* The head of the queue is said, or dropped, and is due no more.
LEMMA DeliversKeepsNews ==
    ASSUME IpcAssumption, IInv, NewsInv, EventsInOrder, Delivers
    PROVE  NewsInv'
  <1>. DEFINE f == events[1]
  <1>1. /\ f \in DueFrames /\ f \in Frames /\ f.request # 0
        /\ DueFrames' \subseteq DueFrames
        /\ \A g \in DueFrames' : g.request = f.request => f.type \notin Final
    <2>1. /\ f \in DueFrames /\ f \in Frames /\ DueFrames' \subseteq DueFrames
          /\ \A g \in DueFrames' : \E j \in 2..Len(events) : g = events[j]
          /\ Len(events) \in Nat
      BY EventFrames DEF Delivers
    <2>2. \A j \in 2..Len(events) : events[j].request = f.request => f.type \notin Final
      <3>1. \A j \in 2..Len(events) : j \in 1..Len(events) /\ 1 \in 1..j-1
        BY <2>1
      <3>. QED
        BY <3>1 DEF EventsInOrder
    <2>. QED
      BY <2>1, <2>2, NewestIsNew
  <1>2. PICK said \in SUBSET {f} : SaidFrames' = SaidFrames \cup said
    <2>1. CASE replies' = replies
      <3>1. SaidFrames' = SaidFrames \cup {}
        BY <2>1 DEF SaidFrames
      <3>. QED
        BY <3>1
    <2>2. ASSUME NEW s \in Sockets, Writes(s, f) PROVE SaidFrames' = SaidFrames \cup {f}
      BY <2>2, WrittenFrames
    <2>. QED
      BY <2>1, <2>2 DEF Delivers
  <1>3. \A r : /\ Commissioned(r)' <=> Commissioned(r)
               /\ Searching(r)' <=> Searching(r)
               /\ Open(r)' <=> Open(r)
    BY DEF Delivers, Open, Commissioned, Searching, SearchPool!Accepted
  <1>4. \A r : Accepts(r) => Accepts(r)'
    BY <1>2 DEF Accepts
  <1>5. /\ \A g \in SaidFrames' : g \in SaidFrames \/ g = f
        /\ \A g \in DueFrames' : g \in DueFrames
    BY <1>1, <1>2
  <1>. HIDE DEF f
  <1>6. (running # 0 => running # outgoing)'
    BY DEF Delivers, NewsInv
  <1>7. \A r \in Nat : Commissioned(r)' => Accepts(r)'
    BY <1>3, <1>4 DEF NewsInv
  <1>8. ASSUME NEW g \in DueFrames'
        PROVE  /\ g.type # "Accepted"
               /\ g.type \in Final => ~Open(g.request)'
               /\ g.type \notin Final => Accepts(g.request)'
    BY <1>3, <1>4, <1>5, <1>8 DEF NewsInv
  <1>9. ASSUME NEW g \in SaidFrames', g.request # 0, g.type \in Final
        PROVE  ~Open(g.request)' /\ \A h \in DueFrames' : h.request # g.request
    <2>1. CASE g \in SaidFrames
      BY <1>3, <1>5, <1>9, <2>1 DEF NewsInv
    <2>2. CASE g = f
      <3>1. f \in DueFrames /\ f.type \in Final
        BY <1>1, <1>9, <2>2
      <3>2. ~Open(f.request)
        BY <3>1 DEF NewsInv
      <3>. QED
        BY <1>1, <1>3, <2>2, <3>1, <3>2
    <2>. QED
      BY <1>5, <1>9, <2>1, <2>2
  <1>10. \A g \in (SaidFrames \cup DueFrames)' : g.request # 0 => ~Searching(g.request)'
    BY <1>1, <1>3, <1>5 DEF NewsInv
  <1>11. ASSUME NEW g \in SaidFrames', NEW h \in DueFrames', g.request = h.request
         PROVE  Accepts(g.request)'
    <2>1. CASE g \in SaidFrames
      BY <1>4, <1>5, <1>11, <2>1 DEF NewsInv
    <2>2. CASE g = f
      <3>1. f.type \notin Final
        BY <1>1, <1>11, <2>2
      <3>2. Accepts(f.request)
        BY <1>1, <3>1 DEF NewsInv
      <3>. QED
        BY <1>4, <2>2, <3>2
    <2>. QED
      BY <1>5, <1>11, <2>1, <2>2
  <1>. QED
    BY <1>6, <1>7, <1>8, <1>9, <1>10, <1>11 DEF NewsInv

\* A request is accepted and at once commissioned.
LEMMA TakesKeepsNews ==
    ASSUME IpcAssumption, IInv, NewsInv, Takes
    PROVE  NewsInv'
  <1>1. PICK f \in Frames : /\ f.type = "Accepted" /\ f.request = Newest
                            /\ SaidFrames' = SaidFrames \cup {f}
    BY WrittenFrames DEF Takes, Writes
  <1>2. /\ Newest \in Nat \ {0} /\ ~Open(Newest)
        /\ \A g \in SaidFrames \cup DueFrames : g \in Frames /\ g.request # Newest
    BY NewestIsNew
  <1>3. DueFrames' = DueFrames
    BY DEF Takes, DueFrames
  <1>4. \A r : /\ Searching(r)' <=> Searching(r)
               /\ r # Newest => (Commissioned(r)' => Commissioned(r)) /\ (Open(r)' => Open(r))
    <2>1. \A r : Searching(r)' <=> Searching(r)
      BY DEF Takes, Searching, SearchPool!Accepted
    <2>2. ASSUME NEW r, r # Newest, Commissioned(r)' PROVE Commissioned(r)
      BY <2>2 DEF Takes, Commissioned
    <2>. QED
      BY <2>1, <2>2 DEF Open
  <1>5. \A r : Accepts(r) => Accepts(r)'
    BY <1>1 DEF Accepts
  <1>6. \A r : r = Newest => Accepts(r)'
    BY <1>1 DEF Accepts
  <1>7. (running # 0 => running # outgoing)'
    BY <1>2 DEF Takes, Open, Commissioned, NewsInv
  <1>8. \A r \in Nat : Commissioned(r)' => Accepts(r)'
    BY <1>4, <1>5, <1>6 DEF NewsInv
  <1>9. \A g \in DueFrames' : /\ g.type # "Accepted"
                              /\ g.type \in Final => ~Open(g.request)'
                              /\ g.type \notin Final => Accepts(g.request)'
    BY <1>2, <1>3, <1>4, <1>5 DEF NewsInv
  <1>10. f.type \notin Final
    BY <1>1 DEF Final
  <1>11. \A g \in SaidFrames' : g.request # 0 /\ g.type \in Final =>
             ~Open(g.request)' /\ \A h \in DueFrames' : h.request # g.request
    BY <1>1, <1>2, <1>3, <1>4, <1>10 DEF NewsInv
  <1>12. \A g \in (SaidFrames \cup DueFrames)' : g.request # 0 => ~Searching(g.request)'
    BY <1>1, <1>2, <1>3, <1>4 DEF NewsInv, Open
  <1>13. \A g \in SaidFrames', h \in DueFrames' : g.request = h.request => Accepts(g.request)'
    BY <1>1, <1>2, <1>3, <1>5 DEF NewsInv
  <1>. QED
    BY <1>7, <1>8, <1>9, <1>11, <1>12, <1>13 DEF NewsInv

\* A search is queued of which nobody has heard yet.
LEMMA QueuesKeepsNews ==
    ASSUME IpcAssumption, IInv, NewsInv, Queues
    PROVE  NewsInv'
  <1>1. \A g \in SaidFrames \cup DueFrames : g \in Frames /\ g.request # Newest
    BY NewestIsNew
  <1>2. SaidFrames' = SaidFrames /\ DueFrames' = DueFrames
    BY DEF Queues, SaidFrames, DueFrames
  <1>3. \A r : Commissioned(r)' <=> Commissioned(r)
    BY DEF Queues, Commissioned
  <1>4. \A r : r # Newest => (Searching(r)' <=> Searching(r))
    <2>1. accepted \in Seq(Requests)
      BY DEF IInv, TypeOK
    <2>2. SearchPool!Accepted' = SearchPool!Accepted \cup {Newest}
      BY <2>1 DEF Queues, SearchPool!Accepted
    <2>. QED
      BY <2>2 DEF Queues, Searching
  <1>5. \A r : Accepts(r)' <=> Accepts(r)
    BY <1>2 DEF Accepts
  <1>6. (running # 0 => running # outgoing)'
    BY DEF Queues, NewsInv
  <1>7. \A r \in Nat : Commissioned(r)' => Accepts(r)'
    BY <1>3, <1>5 DEF NewsInv
  <1>8. \A g \in SaidFrames \cup DueFrames : /\ Open(g.request)' <=> Open(g.request)
                                             /\ Searching(g.request)' <=> Searching(g.request)
    BY <1>1, <1>3, <1>4 DEF Open
  <1>. QED
    BY <1>2, <1>5, <1>6, <1>7, <1>8 DEF NewsInv

\* What has been said and done initially, and after every step.
LEMMA OrderStep ==
    /\ IpcAssumption /\ Init => OrderInv
    /\ IpcAssumption /\ IInv /\ OrderInv /\ [Next]_ipcVars => OrderInv'
  <1>1. ASSUME IpcAssumption, Init PROVE OrderInv
    <2>1. SaidFrames = {} /\ DueFrames = {}
      BY <1>1 DEF Init, SaidFrames, DueFrames
    <2>2. RepliesInOrder /\ EventsInOrder
      BY <1>1 DEF Init, RepliesInOrder, EventsInOrder
    <2>3. NewsInv
      BY <1>1, <2>1 DEF Init, Service!Init, NewsInv, Commissioned
    <2>. QED
      BY <2>2, <2>3 DEF OrderInv
  <1>2. ASSUME IpcAssumption, IInv, OrderInv, [Next]_ipcVars PROVE OrderInv'
    <2>1. NewsInv /\ EventsInOrder
      BY <1>2 DEF OrderInv
    <2>2. NewsInv'
      BY <1>2, <2>1, StepKinds, WorksKeepsNews, DeliversKeepsNews, TakesKeepsNews, QueuesKeepsNews
    <2>3. RepliesInOrder' /\ EventsInOrder'
      BY <1>2, <2>1, RepliesStayInOrder, EventsStayInOrder
    <2>. QED
      BY <2>2, <2>3 DEF OrderInv
  <1>. QED
    BY <1>1, <1>2

\* A client never reads progress before the acceptance nor anything after the
\* result, in whatever order event loop, scan thread and search pool come to
\* write (dispatch_frame and the callbacks it posts from).
THEOREM RepliesComeInOrder == Spec => []RepliesInOrder
  <1>. USE IpcAssumption, NoneAssumption
  <1>1. Init => OrderInv
    BY OrderStep
  <1>2. IInv /\ OrderInv /\ [Next]_ipcVars => OrderInv'
    BY OrderStep
  <1>3. OrderInv => RepliesInOrder
    BY DEF OrderInv
  <1>. QED
    BY <1>1, <1>2, <1>3, IpcIsSound, PTL DEF Spec
=============================================================================

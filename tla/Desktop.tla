------------------------------- MODULE Desktop -------------------------------
(***************************************************************************)
(* The desktop's window: MainWindow with its SearchWidget and              *)
(* TransferWidget over LocalIpcClient.  An action is one event of the Qt   *)
(* loop (a click, a keystroke, a timer, a signal of the socket, a frame)   *)
(* with all that its handler does.                                         *)
(*                                                                         *)
(* The retry deadline is a time of day, which comes round every day.  Three*)
(* seconds after a retry begins the deadline comes, unless midnight comes  *)
(* between: then it is past from the start (wrapped) and ahead again from  *)
(* midnight on.  A deadline that is past is missed when midnight comes     *)
(* before the retry timer looks: it lies ahead once more, a day away.      *)
(***************************************************************************)
EXTENDS LocalIpcClient

CONSTANT MaxRequests   \* bound: the user asks for no more once so many ids are taken

ASSUME DesktopAssumption == MaxRequests \in Nat

VARIABLES
    connection_state,
    auto_start_attempted,
    retrying,         \* retry_timer_ is active
    deadline,         \* where the time of day is against retry_deadline_
    held,             \* the request id held of each kind, 0 if none
    scanning,
    tab,              \* state_ of TransferWidget
    pending,
    sending,
    choosing,         \* the dialog for the receive directory is open
    text,             \* the trimmed search text, NoData if empty
    debouncing,       \* debounce_timer_ is active
    rows              \* what the results in the table answer, NoData if it is empty

retryVars == <<auto_start_attempted, retrying, deadline>>
transferVars == <<tab, pending, sending, choosing>>
searchVars == <<text, debouncing, rows>>
desktopVars == <<clientVars, connection_state, retryVars, held, scanning, transferVars, searchVars>>

\* The kinds of request whose id MainWindow keeps.
HeldKinds == Kinds \ {"Cancel"}
NoneHeld == [k \in HeldKinds |-> 0]

Deadlines == {"wrapped", "ahead", "past", "missed"}

TypeOK ==
    /\ ClientTypeOK
    /\ connection_state \in {"Disconnected", "Connecting", "StartingService", "Connected", "Offline"}
    /\ auto_start_attempted \in BOOLEAN
    /\ retrying \in BOOLEAN
    /\ deadline \in Deadlines
    /\ held \in [HeldKinds -> Nat]
    /\ scanning \in BOOLEAN
    /\ tab \in {"Offline", "Unavailable", "Disabled", "Enabled"}
    /\ pending \in BOOLEAN
    /\ sending \in BOOLEAN
    /\ choosing \in BOOLEAN
    /\ text \in Queries \cup {NoData}
    /\ debouncing \in BOOLEAN
    /\ rows \in Queries \cup {NoData}

Init ==
    /\ ClientInit
    /\ connection_state = "Disconnected"
    /\ auto_start_attempted = FALSE
    /\ retrying = FALSE
    /\ deadline = "ahead"
    /\ held = NoneHeld
    /\ scanning = FALSE
    /\ tab = "Offline" /\ pending = FALSE /\ sending = FALSE /\ choosing = FALSE
    /\ text = NoData /\ debouncing = FALSE /\ rows = NoData

\* QTime::currentTime() >= retry_deadline_
past_deadline == deadline \in {"wrapped", "past"}

Starting == connection_state \in {"Connecting", "StartingService"}

\* A request whose id is kept.
SendHeld(kind, query) ==
    /\ SendFrame(kind, query)
    /\ held' = [held EXCEPT ![kind] = next_request_id]

RequestTransferStatus ==
    /\ SendHeld("Status", NoData)
    /\ pending' = TRUE

\* start_scan, send_search, ... while the client is not connected.
RefuseOffline ==
    /\ connection_state' = "Offline"
    /\ UNCHANGED <<clientVars, held>>

-----------------------------------------------------------------------------
\* Connecting.

\* At the start, and when the Retry button is clicked, which is seen when Offline.
RetryConnection ==
    /\ connection_state \in {"Disconnected", "Offline"}
    /\ next_request_id <= MaxRequests
    /\ held' = NoneHeld
    /\ auto_start_attempted' = FALSE
    /\ deadline' \in {"ahead", "wrapped"}
    /\ retrying' = FALSE
    /\ connection_state' = "Connecting"
    /\ ConnectToServerAsync
    /\ UNCHANGED <<service, scanning, transferVars, searchVars>>

\* Mutant: the timer never looks at the deadline.
RetryTimerNeverGivesUp ==
    /\ retrying
    /\ UNCHANGED <<connection_state, retrying>>
    /\ ConnectToServerAsync
    /\ UNCHANGED <<auto_start_attempted, deadline, held, service, scanning, transferVars, searchVars>>

RetryTimerFires ==
    /\ retrying
    /\ \/ /\ past_deadline
          /\ retrying' = FALSE
          /\ connection_state' = "Offline"
          /\ UNCHANGED clientVars
       \/ /\ ~past_deadline
          /\ ConnectToServerAsync
          /\ UNCHANGED <<connection_state, retrying, service>>
    /\ UNCHANGED <<auto_start_attempted, deadline, held, scanning, transferVars, searchVars>>

\* The clock matters while something looks at it.
DeadlineComes ==
    /\ Starting \/ retrying
    /\ deadline \in {"ahead", "missed"}
    /\ deadline' = "past"
    /\ UNCHANGED <<clientVars, connection_state, auto_start_attempted, retrying, held, scanning,
                   transferVars, searchVars>>

MidnightComes ==
    /\ Starting \/ retrying
    /\ past_deadline
    /\ deadline' = IF deadline = "wrapped" THEN "ahead" ELSE "missed"
    /\ UNCHANGED <<clientVars, connection_state, auto_start_attempted, retrying, held, scanning,
                   transferVars, searchVars>>

HandleConnected ==
    /\ socket = "Connecting"
    /\ service = "up"
    /\ socket' = "Connected"
    /\ retrying' = FALSE
    /\ connection_state' = "Connected"
    /\ RequestTransferStatus
    /\ deadline' = "ahead"   \* nothing looks at it until it is set anew
    /\ UNCHANGED <<unread, service, available, auto_start_attempted, scanning, tab, sending, choosing,
                   searchVars>>

\* An attempt fails: handle_connection_error.  The service is started once, and may
\* fail to.  An error while the timer is active falls through to Offline.
HandleConnectionError ==
    /\ socket = "Connecting"
    /\ LoseConnection("Unconnected")
    /\ LET starts == Starting /\ ~auto_start_attempted
           retries == Starting /\ ~past_deadline /\ ~retrying
       IN  /\ auto_start_attempted' = (auto_start_attempted \/ starts)
           /\ service' \in IF starts /\ service = "down" THEN {"down", "starting"} ELSE {service}
           /\ retrying' = (retrying \/ retries)
           /\ connection_state' = CASE ~retries -> "Offline"
                                    [] retries /\ starts -> "StartingService"
                                    [] OTHER -> connection_state
    /\ UNCHANGED <<next_request_id, available, deadline, held, scanning, transferVars, searchVars>>

SetOfflineState ==
    /\ tab' = "Offline"
    /\ pending' = FALSE
    /\ sending' = FALSE

\* Mutant: the scan button is left as it is.
DisconnectForgetsScan ==
    /\ IsConnected
    /\ LoseConnection("Unconnected")
    /\ retrying' = FALSE
    /\ held' = NoneHeld
    /\ SetOfflineState
    /\ connection_state' = "Offline"
    /\ UNCHANGED <<next_request_id, service, available, auto_start_attempted, deadline,
                   scanning, choosing, searchVars>>

\* The connection is lost (errorOccurred, which changes nothing here, and then
\* disconnected), or what is read is no frame (handle_ready_read).
HandleDisconnected ==
    /\ IsConnected
    /\ LoseConnection("Unconnected")
    /\ retrying' = FALSE
    /\ held' = NoneHeld
    /\ scanning' = FALSE
    /\ SetOfflineState
    /\ connection_state' = "Offline"
    /\ UNCHANGED <<next_request_id, service, available, auto_start_attempted, deadline, choosing,
                   searchVars>>

-----------------------------------------------------------------------------
\* Searching.

\* Mutant: the id of the former query is kept.
TextChangeKeepsId(q) ==
    /\ text' = q
    /\ rows' = NoData
    /\ debouncing' = TRUE
    /\ UNCHANGED <<clientVars, connection_state, retryVars, held, scanning, transferVars>>

TextChanged(q) ==
    /\ text' = q
    /\ held' = [held EXCEPT !["Search"] = 0]
    /\ rows' = NoData
    /\ debouncing' = TRUE
    /\ UNCHANGED <<clientVars, connection_state, retryVars, scanning, transferVars>>

\* emit_debounced_search, send_search.
DebounceFires ==
    /\ debouncing
    /\ next_request_id <= MaxRequests
    /\ debouncing' = FALSE
    /\ \/ /\ text = NoData
          /\ rows' = NoData
          /\ UNCHANGED <<clientVars, connection_state, held>>
       \/ /\ text # NoData /\ ~IsConnected
          /\ rows' = NoData
          /\ RefuseOffline
       \/ /\ text # NoData /\ IsConnected
          /\ SendHeld("Search", text)
          /\ UNCHANGED <<socket, unread, service, available, connection_state, rows>>
    /\ UNCHANGED <<text, retryVars, scanning, transferVars>>

-----------------------------------------------------------------------------
\* Scanning.  The root is not empty.

ClickScan ==
    /\ ~scanning
    /\ next_request_id <= MaxRequests
    /\ \/ /\ ~IsConnected
          /\ RefuseOffline
          /\ UNCHANGED scanning
       \/ /\ IsConnected
          /\ SendHeld("Scan", NoData)
          /\ scanning' = TRUE
          /\ UNCHANGED <<socket, unread, service, available, connection_state>>
    /\ UNCHANGED <<retryVars, transferVars, searchVars>>

\* While scanning the client is connected (ControlsAreTrue).
ClickCancel ==
    /\ scanning /\ IsConnected
    /\ next_request_id <= MaxRequests
    /\ SendFrame("Cancel", NoData)
    /\ UNCHANGED <<socket, unread, service, available, connection_state, retryVars, held, scanning,
                   transferVars, searchVars>>

-----------------------------------------------------------------------------
\* The transfer tab.  Clicks come only from enabled buttons (apply_controls), and
\* while the client is connected (ControlsAreTrue).

ButtonEnabled(kind) == ~pending /\ tab = IF kind = "Disable" THEN "Enabled" ELSE "Disabled"
SendEnabled == ~sending /\ tab \in {"Disabled", "Enabled"}

\* Mutant: the buttons stay enabled while an operation is pending.
ClickTransferAgain(kind) ==
    /\ tab = IF kind = "Disable" THEN "Enabled" ELSE "Disabled"
    /\ IsConnected
    /\ next_request_id <= MaxRequests
    /\ SendHeld(kind, NoData)
    /\ pending' = TRUE
    /\ UNCHANGED <<socket, unread, service, available, connection_state, retryVars, scanning, tab,
                   sending, choosing, searchVars>>

\* enable_lan_transfer, disable_lan_transfer.
ClickTransfer(kind) ==
    /\ ButtonEnabled(kind) /\ IsConnected
    /\ next_request_id <= MaxRequests
    /\ SendHeld(kind, NoData)
    /\ pending' = TRUE
    /\ UNCHANGED <<socket, unread, service, available, connection_state, retryVars, scanning, tab,
                   sending, choosing, searchVars>>

\* Mutant: the dialog opens while an operation is pending.
ChooseWhilePending ==
    /\ tab = "Disabled"
    /\ choosing' = TRUE
    /\ UNCHANGED <<clientVars, connection_state, retryVars, held, scanning, tab, pending, sending,
                   searchVars>>

\* choose_receive_directory: it looks at the state and opens a dialog, whose event
\* loop handles all but the user's clicks in the window.
ChooseDirectory ==
    /\ ButtonEnabled("SetDirectory")
    /\ choosing' = TRUE
    /\ UNCHANGED <<clientVars, connection_state, retryVars, held, scanning, tab, pending, sending,
                   searchVars>>

\* Nothing is chosen; or set_receive_directory, without a second look at the state.
DirectoryChosen ==
    /\ choosing
    /\ choosing' = FALSE
    /\ \/ UNCHANGED <<clientVars, connection_state, held, tab, pending, sending>>
       \/ /\ ~IsConnected
          /\ SetOfflineState
          /\ RefuseOffline
       \/ /\ IsConnected
          /\ next_request_id <= MaxRequests
          /\ SendHeld("SetDirectory", NoData)
          /\ pending' = TRUE
          /\ UNCHANGED <<socket, unread, service, available, connection_state, tab, sending>>
    /\ UNCHANGED <<retryVars, scanning, searchVars>>

\* request_send with valid inputs, send_file.
ClickSend ==
    /\ SendEnabled /\ IsConnected
    /\ next_request_id <= MaxRequests
    /\ SendHeld("Send", NoData)
    /\ sending' = TRUE
    /\ UNCHANGED <<socket, unread, service, available, connection_state, retryVars, scanning, tab,
                   pending, choosing, searchVars>>

-----------------------------------------------------------------------------
\* Frames: handle_frame.

\* f answers the request of its kind whose id is held.
Matches(f) == f.kind \in HeldKinds /\ held[f.kind] # 0 /\ f.id = held[f.kind]

Release(kind) == held' = [held EXCEPT ![kind] = 0]

\* set_unavailable_state, which an error from a service without file transfer causes.
UnavailableOr(f, sent, waits) ==
    IF ~f.ok /\ ~available
    THEN tab' = "Unavailable" /\ pending' = FALSE /\ sending' = FALSE
    ELSE UNCHANGED tab /\ pending' = waits /\ sending' = sent

ApplySearchResponse(f) ==
    /\ f.kind = "Search" /\ Matches(f)
    /\ rows' = IF f.ok THEN f.data ELSE NoData
    /\ UNCHANGED <<next_request_id, open, held, scanning, tab, pending, sending>>

\* ScanAccepted and ScanProgress.
ApplyScanProgress(f) ==
    /\ f.kind = "Scan" /\ f.part # "Last" /\ Matches(f)
    /\ scanning' = TRUE
    /\ UNCHANGED <<next_request_id, open, held, tab, pending, sending, rows>>

\* Mutant: only a completed scan gives the button back.
ScanFailureIgnored(f) ==
    /\ f.kind = "Scan" /\ f.part = "Last" /\ Matches(f)
    /\ IF f.ok THEN Release("Scan") /\ scanning' = FALSE ELSE UNCHANGED <<held, scanning>>
    /\ UNCHANGED <<next_request_id, open, tab, pending, sending, rows>>

\* ScanCompleted and ScanFailed.  The ScanFailed of a CancelScan has the id of that.
ApplyScanEnd(f) ==
    /\ f.kind = "Scan" /\ f.part = "Last" /\ Matches(f)
    /\ Release("Scan")
    /\ scanning' = FALSE
    /\ UNCHANGED <<next_request_id, open, tab, pending, sending, rows>>

\* The responses to enable, disable and set directory, after which the status is
\* requested anew.
ApplyTransferResponse(f) ==
    /\ f.kind \in TransferKinds \ {"Status"} /\ Matches(f)
    /\ SendFrame("Status", NoData)
    /\ held' = [held EXCEPT ![f.kind] = 0, !["Status"] = next_request_id]
    /\ pending' = TRUE
    /\ IF ~f.ok /\ ~available THEN tab' = "Unavailable" /\ sending' = FALSE ELSE UNCHANGED <<tab, sending>>
    /\ UNCHANGED <<scanning, rows>>

ApplyTransferStatus(f) ==
    /\ f.kind = "Status" /\ Matches(f)
    /\ Release("Status")
    /\ IF f.ok THEN tab' = f.data /\ pending' = FALSE /\ UNCHANGED sending
               ELSE UnavailableOr(f, sending, FALSE)
    /\ UNCHANGED <<next_request_id, open, scanning, rows>>

\* SendFileAccepted and SendFileResult; a refusal is the last reply.
ApplySendFile(f) ==
    /\ f.kind = "Send" /\ Matches(f)
    /\ IF f.part = "Accepted"
       THEN sending' = TRUE /\ UNCHANGED <<held, tab, pending>>
       ELSE Release("Send") /\ UnavailableOr(f, FALSE, pending)
    /\ UNCHANGED <<next_request_id, open, scanning, rows>>

HandleFrame ==
    /\ IsConnected
    /\ unread # << >>
    /\ unread' = Tail(unread)
    /\ LET f == Head(unread)
       IN  \/ ApplySearchResponse(f)
           \/ ApplyScanProgress(f) \/ ApplyScanEnd(f)
           \/ ApplyTransferResponse(f) \/ ApplyTransferStatus(f) \/ ApplySendFile(f)
           \/ ~Matches(f) /\ UNCHANGED <<next_request_id, open, held, scanning, tab, pending, sending, rows>>
    /\ UNCHANGED <<socket, service, available, connection_state, retryVars, choosing, text, debouncing>>

-----------------------------------------------------------------------------

\* What the service does leaves the window alone.
Service ==
    /\ \/ \E r \in open : ServiceAccepts(r) \/ ServiceReportsProgress(r) \/ ServiceAnswers(r)
       \/ ServiceComesUp \/ ServiceDies \/ ConnectionBreaks
    /\ UNCHANGED <<connection_state, retryVars, held, scanning, transferVars, searchVars>>

ServiceEnds(kinds) ==
    /\ \E r \in open : r.kind \in kinds /\ ServiceAnswers(r)
    /\ UNCHANGED <<connection_state, retryVars, held, scanning, transferVars, searchVars>>

Click ==
    \/ \E q \in Queries \cup {NoData} : TextChanged(q)
    \/ RetryConnection
    \/ ClickScan \/ ClickCancel
    \/ \E k \in {"Enable", "Disable"} : ClickTransfer(k)
    \/ ChooseDirectory
    \/ ClickSend

User == (~choosing /\ Click) \/ DirectoryChosen

Next ==
    \/ User
    \/ DebounceFires \/ RetryTimerFires \/ DeadlineComes \/ MidnightComes
    \/ HandleConnected \/ HandleConnectionError \/ HandleDisconnected \/ HandleFrame
    \/ Service

Spec == Init /\ [][Next]_desktopVars

\* The window's event loop runs, a connection attempt ends, a live service answers,
\* a broken connection is noticed, the retry timer fires and the time passes.  No
\* tick is promised between a deadline and the midnight after it, which may be less
\* than the timer's interval apart.
FairSpec ==
    /\ Spec
    /\ WF_desktopVars(HandleFrame)
    /\ WF_desktopVars(HandleConnected \/ HandleConnectionError)
    /\ WF_desktopVars(socket = "Broken" /\ HandleDisconnected)
    /\ \A kinds \in {{"Scan"}, {"Send"}, TransferKinds} : WF_desktopVars(ServiceEnds(kinds))
    /\ WF_desktopVars(DeadlineComes)
    /\ WF_desktopVars(RetryTimerFires)

-----------------------------------------------------------------------------
\* Properties.

\* A last reply to the request of kind k with this id is still to be read.
Owed(k, id) ==
    \/ \E r \in open : r.kind = k /\ r.id = id
    \/ \E n \in 1..Len(unread) : unread[n].kind = k /\ unread[n].id = id /\ unread[n].part = "Last"

\* The window knows whether it is connected.
StateIsTrue ==
    /\ connection_state = "Connected" <=> IsConnected
    /\ retrying => connection_state # "Connected"

\* Of each kind but Search, the id the window holds is that of the one request of
\* this connection whose last reply is still to come: it waits for no reply that
\* will not come, and no last reply is dropped because its id was overwritten by a
\* second request or belongs to a former connection (the guards of the apply_
\* functions, invalidate_pending_requests, apply_controls).
RepliesAreAwaited ==
    \A k \in HeldKinds \ {"Search"} : \A id \in 1..next_request_id - 1 :
        held[k] = id <=> Owed(k, id)

\* The scan button says Cancel while a scan of this window is under way, the
\* transfer buttons are off while an operation is, and the send button is off
\* while a file is being sent, and only then: whatever replies come in between and
\* however the connection ends (set_scan_active, set_pending, set_sending, ...).
ControlsAreTrue ==
    /\ scanning <=> held["Scan"] # 0
    /\ pending <=> \E k \in TransferKinds : held[k] # 0
    /\ sending <=> held["Send"] # 0
    /\ \A k \in HeldKinds : held[k] # 0 => IsConnected
    /\ tab # "Offline" => IsConnected

\* The results in the table answer the text in the input, however late the answers
\* of earlier queries come (apply_search_response; spec 1175).
ResultsMatchText == rows # NoData => rows = text

\* What that rests on: the search whose id is held asked for the text.
SearchInv ==
    /\ \A r \in open : r.kind = "Search" /\ r.id = held["Search"] => r.query = text
    /\ \A n \in 1..Len(unread) :
          unread[n].kind = "Search" /\ unread[n].id = held["Search"] /\ unread[n].ok => unread[n].data = text

\* Of a request at most one last reply is under way, and a new id is one of no other
\* request of this connection; without a connection nothing is under way.
RequestInv ==
    /\ \A r \in open : r.id \in 1..next_request_id - 1
    /\ \A r, s \in open : r.id = s.id => r = s
    /\ \A n \in 1..Len(unread) :
          /\ unread[n].id \in 1..next_request_id - 1
          /\ unread[n].part = "Progress" => unread[n].kind = "Scan"
          /\ unread[n].part = "Accepted" => unread[n].kind \in {"Scan", "Send"}
          /\ unread[n].kind = "Status" /\ unread[n].ok => unread[n].data \in {"Enabled", "Disabled"}
          /\ unread[n].part = "Last" =>
                /\ \A r \in open : r.id # unread[n].id
                /\ \A m \in 1..Len(unread) :
                      unread[m].part = "Last" /\ unread[m].id = unread[n].id => m = n
    /\ \A k \in HeldKinds : held[k] < next_request_id
    /\ ~IsConnected => open = {} /\ unread = << >>

\* One transfer operation at a time; the dialog opens only between two, and until it
\* is closed none begins; a service without file transfer never leads to a send.
TransferInv ==
    /\ \A j, k \in TransferKinds : held[j] # 0 /\ held[k] # 0 => j = k
    /\ choosing => ~pending /\ socket # "Connecting" /\ ~retrying
    /\ ~available =>
          /\ tab \in {"Offline", "Unavailable"}
          /\ held["Send"] = 0
          /\ \A n \in 1..Len(unread) : unread[n].kind \in TransferKinds => ~unread[n].ok

\* All of it, which no event breaks.
IInv ==
    /\ TypeOK
    /\ StateIsTrue
    /\ RepliesAreAwaited
    /\ ControlsAreTrue
    /\ ResultsMatchText
    /\ SearchInv
    /\ RequestInv
    /\ TransferInv

\* The controls come back: whatever was asked of the service, the scan button, the
\* transfer buttons and the send button are the user's again, by the last reply or
\* with the connection.
ControlsComeBack ==
    /\ scanning ~> ~scanning
    /\ pending ~> ~pending
    /\ sending ~> ~sending

\* A retry comes to an end unless the user begins another: the window is connected, or
\* Offline with no timer running, whatever the service does and however failed attempts
\* and ticks of the timer alternate (retry_connection, handle_connection_error, the
\* timer).  Only midnight can take the deadline away before a tick sees it, and then the
\* same holds of the day after.
RetryEnds ==
    \/ []<><<RetryConnection>>_desktopVars
    \/ Starting \/ retrying ~> (~Starting /\ ~retrying) \/ deadline = "missed"

\* The specification of CoreDesk has the desktop retry for at most three seconds (16.3):
\* a tick after them ends the retry.
RetriesThreeSecondsAtMost ==
    [][RetryTimerFires /\ deadline \in {"past", "missed"} => ~retrying']_desktopVars
=============================================================================

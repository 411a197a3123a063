------------------------- MODULE TcpTransferClient -------------------------
(***************************************************************************)
(* The sending end: TransferManager's outgoing transfer and the            *)
(* TcpTransferClient it makes for each, the hash worker and the file that  *)
(* is sent.  One action is one callback of the Qt event loop, with every   *)
(* callback it calls in turn; the hash worker is a thread of its own.      *)
(* What an event does to the client and, through the callbacks, to the     *)
(* manager is a function on the pair of them (Now below).                  *)
(***************************************************************************)
EXTENDS Integers, Sequences

CONSTANTS MaxSends,     \* bound: calls of TransferManager::send_file
          FileName,     \* the name of the file
          Sources,      \* the contents the file may have
          Sha256(_),    \* the digest of a content
          ChunkSize,    \* kFileChunkSize, in blocks
          HighWater,    \* kPendingWriteHighWaterMark, in frames
          PeerFrames,   \* the frames a peer sends
          Missing,      \* the file does not exist, or could not be hashed
          NoWorker,     \* hash_thread_ is null
          NoDigest      \* nothing was offered yet

ASSUME SendAssumption == MaxSends \in Nat /\ ChunkSize \in Nat \ {0} /\ HighWater \in Nat \ {0}

SourceBlocks == UNION {{c[i] : i \in DOMAIN c} : c \in Sources}
ASSUME SourcesAssumption == Sources \subseteq Seq(SourceBlocks) /\ Missing \notin Sources

Sends == 1..MaxSends
Failures == {"Cancelled", "ConnectionFailed", "ProtocolError", "InvalidArgument", "IoError",
             "PathNotFound", "Busy", "TargetExists", "HashMismatch"}

\* No transfer_id that decodes is empty; code and ok of a result agree, and no
\* reject says Ok, as TcpTransferServer sends them.
PeerFrame ==
    [kind : {"HelloAck", "Other"}, rid : Nat]
    \cup [kind : {"FileAccept"}, rid : Nat, id : Nat \ {0}]
    \cup [kind : {"FileReject"}, rid : Nat, id : Nat \ {0}, code : Failures]
    \cup [kind : {"FileResult"}, rid : Nat, id : Nat \ {0}, code : {"Ok"} \cup Failures]
ASSUME PeerFramesAssumption == PeerFrames \subseteq PeerFrame

VARIABLES sends,            \* how many clients were made; also the id of the transfer
          outgoing_active,  \* outgoing_active_
          outcome,          \* what outgoing_completion_ was called with
          client,           \* tcp_client_
          worker,           \* the hash worker of client
          source,           \* the content of the file that is sent
          up,               \* frames written to the connection of each send
          offered           \* history: the sha256 each send offered

senderVars == <<sends, outgoing_active, outcome, client, worker, source, up, offered>>

Active == {"Offering", "Sending", "Finishing"}
Ended == {"Completed", "Failed"}

Client == [link : {"connecting", "cancelled", "up", "closing", "down"},
           state : {"Idle", "Connecting", "HelloSent"} \cup Active \cup Ended,
           handshake : BOOLEAN,
           next_id : Nat \ {0}, hello_id : Nat, offer_id : Nat, finish_id : Nat, transfer_id : 0..MaxSends,
           generation : Nat, file : BOOLEAN, offset : Nat, size : Nat]

Digests == {Sha256(c) : c \in Sources}
Worker ==
    [generation : Nat, size : Nat, digest : {NoDigest}, done : {FALSE}]
    \cup [generation : Nat, size : Nat, digest : Digests \cup {Missing}, done : {TRUE}]
ASSUME WorkerAssumption == NoWorker \notin Worker /\ NoDigest \notin Digests

\* The frames of the sender.
SentFrame ==
    [kind : {"Hello"}, rid : Nat]
    \cup [kind : {"FileOffer"}, rid : Nat, id : Sends, name : {FileName}, size : Nat, sha256 : Digests]
    \cup [kind : {"FileChunk"}, rid : Nat, id : Sends, offset : Nat, data : Seq(SourceBlocks)]
    \cup [kind : {"FileFinish"}, rid : Nat, id : Sends]

TypeOK ==
    /\ sends \in 0..MaxSends
    /\ outgoing_active \in BOOLEAN
    /\ outcome \in [Sends -> {"none", "pending", "Ok"} \cup Failures]
    /\ client \in Client
    /\ worker \in Worker \cup {NoWorker}
    /\ source \in Sources \cup {Missing}
    /\ up \in [Sends -> Seq(SentFrame)]
    /\ offered \in [Sends -> Digests \cup {NoDigest}]

NewClient ==
    [link |-> "connecting", state |-> "Connecting", handshake |-> FALSE,
     next_id |-> 1, hello_id |-> 0, offer_id |-> 0, finish_id |-> 0, transfer_id |-> 0,
     generation |-> 0, file |-> FALSE, offset |-> 0, size |-> 0]

Init ==
    /\ sends = 0
    /\ outgoing_active = FALSE
    /\ outcome = [k \in Sends |-> "none"]
    /\ client = [NewClient EXCEPT !.link = "down", !.state = "Idle"]
    /\ worker = NoWorker
    /\ source \in Sources
    /\ up = [k \in Sends |-> <<>>]
    /\ offered = [k \in Sends |-> NoDigest]

-----------------------------------------------------------------------------
\* Client and manager together, and what the callbacks make of them.

Now == [client |-> client, active |-> outgoing_active, outcome |-> outcome]

\* The pair as it is, with a client that went on.
With(c) == [Now EXCEPT !.client = c]

Becomes(x) ==
    /\ client' = x.client
    /\ outgoing_active' = x.active
    /\ outcome' = x.outcome

\* disconnect_from_host, as the socket takes it: a connection being made is
\* closed as soon as it is up.
Leaving(link) == CASE link = "connecting" -> "cancelled" [] link = "up" -> "closing" [] OTHER -> link

\* Mutant: disconnect_from_host leaves send_file_ open.
ForgottenButFile(c) ==
    [c EXCEPT !.handshake = FALSE, !.offer_id = 0, !.finish_id = 0, !.transfer_id = 0]

Forgotten(c) ==
    [c EXCEPT !.handshake = FALSE, !.offer_id = 0, !.finish_id = 0, !.transfer_id = 0, !.file = FALSE]

DisconnectFromHost(c) == [Forgotten(c) EXCEPT !.state = "Idle", !.link = Leaving(@)]

\* Mutant: finish_outgoing without its guard.
FinishOutgoingAgain(x, code) ==
    IF sends = 0 THEN x
    ELSE [client |-> DisconnectFromHost(x.client), active |-> FALSE,
          outcome |-> [x.outcome EXCEPT ![sends] = code]]

FinishOutgoing(x, code) ==
    IF x.active
    THEN [client |-> DisconnectFromHost(x.client), active |-> FALSE,
          outcome |-> [x.outcome EXCEPT ![sends] = code]]
    ELSE x

FailTransfer(x, code) ==
    IF x.client.state \in Ended THEN x
    ELSE FinishOutgoing([x EXCEPT !.client.file = FALSE, !.client.state = "Failed"], code)

HandleError(x) ==
    IF x.client.state = "Idle" THEN FinishOutgoing(x, "ConnectionFailed")
    ELSE FailTransfer(x, "ConnectionFailed")

\* handle_disconnected and the manager's disconnected callback
HandleDisconnected(x) ==
    LET c == x.client
    IN  FinishOutgoing(
            [x EXCEPT !.client = [Forgotten(c) EXCEPT
                !.link = "down",
                !.generation = @ + 1,
                !.state = IF c.state \in Active THEN "Failed" ELSE c.state]],
            "ConnectionFailed")

\* socket_->abort()
Abort(x) ==
    IF x.client.link \in {"up", "closing"} THEN HandleDisconnected(x)
    ELSE [x EXCEPT !.client.link = "down"]

\* socket_->disconnectFromHost()
Hangup(x) == [x EXCEPT !.client.link = Leaving(@)]

Sent(frame) == up' = [up EXCEPT ![sends] = Append(@, frame)]

-----------------------------------------------------------------------------
\* The operations of the manager and the socket's events.

SendFile ==
    /\ ~outgoing_active
    /\ sends < MaxSends
    /\ source # Missing
    /\ sends' = sends + 1
    /\ outgoing_active' = TRUE
    /\ outcome' = [outcome EXCEPT ![sends + 1] = "pending"]
    /\ client' = NewClient      \* the old client goes and waits for its worker
    /\ worker' = NoWorker
    /\ UNCHANGED <<source, up, offered>>

Stop ==
    /\ outgoing_active
    /\ Becomes(FinishOutgoing(Now, "Cancelled"))
    /\ UNCHANGED <<sends, worker, source, up, offered>>

HandleConnected ==
    /\ client.link \in {"connecting", "cancelled"}
    /\ LET x == With([client EXCEPT !.link = IF @ = "connecting" THEN "up" ELSE "closing",
                                    !.state = "HelloSent",
                                    !.hello_id = client.next_id,
                                    !.next_id = @ + 1])
       IN  \/ /\ Becomes(x)
              /\ Sent([kind |-> "Hello", rid |-> client.next_id])
           \/ /\ Becomes(Abort(FailTransfer(x, "ConnectionFailed")))
              /\ UNCHANGED up
    /\ UNCHANGED <<sends, worker, source, offered>>

HandleConnectError ==
    /\ client.link \in {"connecting", "cancelled"}
    /\ Becomes(HandleError(With([client EXCEPT !.link = "down"])))
    /\ UNCHANGED <<sends, worker, source, up, offered>>

\* The peer closed, the connection broke, or a closing socket is done.
HandleLinkDown ==
    /\ client.link \in {"up", "closing"}
    /\ Becomes(HandleDisconnected(IF client.link = "up" THEN HandleError(Now) ELSE Now))
    /\ UNCHANGED <<sends, worker, source, up, offered>>

-----------------------------------------------------------------------------
\* The frames of the peer.

Unexpected == Becomes(Abort(FailTransfer(Now, "ProtocolError"))) /\ UNCHANGED worker

Greeted == [client EXCEPT !.handshake = TRUE, !.hello_id = 0, !.state = "Idle"]

\* TcpTransferClient::send_file starts the hash worker.
OfferFile ==
    /\ Becomes(With([Greeted EXCEPT !.state = "Offering", !.file = FALSE, !.offset = 0,
                                    !.size = Len(source), !.generation = @ + 1]))
    /\ worker' = [generation |-> client.generation + 1, size |-> Len(source),
                  digest |-> NoDigest, done |-> FALSE]

Greets(f) == client.state = "HelloSent" /\ f.rid = client.hello_id

\* Mutant: the manager does not look at what TcpTransferClient::send_file returns.
HandleHelloAckUnchecked(f) ==
    \/ ~Greets(f) /\ Unexpected
    \/ /\ Greets(f)
       /\ IF outgoing_active /\ source # Missing THEN OfferFile
          ELSE Becomes(With(Greeted)) /\ UNCHANGED worker

\* The manager's handshake callback calls TcpTransferClient::send_file; a
\* manager that is done has forgotten the path.
HandleHelloAck(f) ==
    \/ ~Greets(f) /\ Unexpected
    \/ /\ Greets(f) /\ ~outgoing_active
       /\ Becomes(With(Greeted)) /\ UNCHANGED worker
    \/ /\ Greets(f) /\ outgoing_active /\ source = Missing
       /\ Becomes(FinishOutgoing(With(Greeted), "PathNotFound")) /\ UNCHANGED worker
    \/ Greets(f) /\ outgoing_active /\ source # Missing /\ OfferFile

Correlates(f, id) == f.rid = id /\ f.id = client.transfer_id

HandleFileAccept(f) ==
    IF client.state # "Offering" THEN Unexpected
    ELSE /\ Becomes(IF Correlates(f, client.offer_id)
                    THEN With([client EXCEPT !.state = IF client.file THEN "Sending" ELSE "Idle"])
                    ELSE Hangup(HandleError(Now)))
         /\ UNCHANGED worker

HandleFileReject(f) ==
    IF client.state # "Offering" THEN Unexpected
    ELSE /\ Becomes(IF Correlates(f, client.offer_id)
                    THEN FinishOutgoing(With([client EXCEPT !.file = FALSE,
                                                            !.state = IF client.file THEN "Failed" ELSE "Idle"]),
                                        f.code)
                    ELSE Hangup(HandleError(Now)))
         /\ UNCHANGED worker

\* A result that correlates with nothing, or is no result: then with the code of
\* what cannot be decoded.
HandleFileResult(f) ==
    CASE client.state \in Ended -> Becomes(Now) /\ UNCHANGED worker
      [] client.state \notin Ended \cup {"Finishing"} -> Unexpected
      [] client.state = "Finishing" ->
            /\ IF Correlates(f, client.finish_id)
               THEN Becomes(FinishOutgoing(
                        With([client EXCEPT !.file = FALSE,
                                            !.state = IF f.code = "Ok" THEN "Completed" ELSE "Failed"]),
                        f.code))
               ELSE \E code \in {"InvalidArgument", "ProtocolError"} :
                        Becomes(Hangup(FailTransfer(Now, code)))
            /\ UNCHANGED worker

\* Bytes that are no frame, any other frame; and, in the state that expects it, a
\* HelloAck, FileAccept or FileReject that does not decode.
HandleOther == Becomes(Hangup(HandleError(Now))) /\ UNCHANGED worker

\* Of a batch of frames the rest is dispatched even after one of them aborted; all
\* it can do to a client that is over is to call it Failed, and it is left out.
HandleFrame(f) ==
    /\ client.link \in {"up", "closing"}
    /\ CASE f.kind = "HelloAck" -> HandleHelloAck(f)
         [] f.kind = "FileAccept" -> HandleFileAccept(f)
         [] f.kind = "FileReject" -> HandleFileReject(f)
         [] f.kind = "FileResult" -> HandleFileResult(f)
         [] OTHER -> HandleOther
    /\ UNCHANGED <<sends, source, up, offered>>

-----------------------------------------------------------------------------
\* The hash worker and the file.

HashFinishes ==
    /\ worker # NoWorker
    /\ ~worker.done
    /\ worker' = [worker EXCEPT !.done = TRUE,
                                !.digest = IF source = Missing THEN Missing ELSE Sha256(source)]
    /\ UNCHANGED <<sends, outgoing_active, outcome, client, source, up, offered>>

\* That the handshake is complete and the file is being offered needs no look:
\* OfferIsOpen.
SendFileOffer ==
    LET x == With([client EXCEPT !.file = TRUE, !.offset = 0, !.size = worker.size,
                                 !.offer_id = client.next_id, !.next_id = @ + 1,
                                 !.transfer_id = sends])
    IN  \/ /\ client.link = "up"
           /\ Becomes(x)
           /\ Sent([kind |-> "FileOffer", rid |-> client.next_id, id |-> sends, name |-> FileName,
                    size |-> worker.size, sha256 |-> worker.digest])
           /\ offered' = [offered EXCEPT ![sends] = worker.digest]
        \/ /\ Becomes([FailTransfer(x, "ConnectionFailed") EXCEPT !.client.file = FALSE,
                                                                  !.client.state = "Failed"])
           /\ UNCHANGED <<up, offered>>

HandleHashResult ==
    /\ worker # NoWorker
    /\ worker.done
    /\ worker' = NoWorker
    /\ CASE worker.generation # client.generation \/ client.state # "Offering" ->
                Becomes(Now) /\ UNCHANGED <<up, offered>>
         [] OTHER ->
                IF worker.digest = Missing \/ source = Missing
                THEN Becomes(FailTransfer(Now, "IoError")) /\ UNCHANGED <<up, offered>>
                ELSE SendFileOffer
    /\ UNCHANGED <<sends, source>>

SendOrFail(x, frame) ==
    \/ Becomes(x) /\ Sent(frame)
    \/ Becomes(Abort(FailTransfer(x, "ConnectionFailed"))) /\ UNCHANGED up

SendFileFinish ==
    SendOrFail(With([client EXCEPT !.file = FALSE, !.state = "Finishing",
                                   !.finish_id = client.next_id, !.next_id = @ + 1]),
               [kind |-> "FileFinish", rid |-> client.next_id, id |-> client.transfer_id])

\* The file is read as it is now, not as it was when it was hashed.
NextChunk ==
    SubSeq(source, client.offset + 1,
           IF client.offset + ChunkSize < Len(source) THEN client.offset + ChunkSize ELSE Len(source))

SendFileChunk ==
    \/ SendOrFail(With([client EXCEPT !.offset = @ + Len(NextChunk), !.next_id = @ + 1]),
                  [kind |-> "FileChunk", rid |-> client.next_id, id |-> client.transfer_id,
                   offset |-> client.offset, data |-> NextChunk])
    \/ Becomes(FailTransfer(Now, "IoError")) /\ UNCHANGED up

\* The pump runs when nothing of an earlier frame remains to be written.
SendNextChunk ==
    /\ client.state = "Sending"
    /\ client.file
    /\ client.link = "up"
    /\ Len(up[sends]) < HighWater
    /\ IF client.offset >= client.size \/ client.offset >= Len(source)
       THEN SendFileFinish
       ELSE SendFileChunk
    /\ UNCHANGED <<sends, worker, source, offered>>

\* Other programs write to the file; they cannot remove it while it is open.
SourceChanges ==
    /\ source' \in (Sources \cup {Missing}) \ {source}
    /\ client.file => source' # Missing
    /\ UNCHANGED <<sends, outgoing_active, outcome, client, worker, up, offered>>

PeerReads(k) ==
    /\ up[k] # <<>>
    /\ up' = [up EXCEPT ![k] = Tail(@)]
    /\ UNCHANGED <<sends, outgoing_active, outcome, client, worker, source, offered>>

Next ==
    \/ SendFile \/ Stop
    \/ HandleConnected \/ HandleConnectError \/ HandleLinkDown
    \/ \E f \in PeerFrames : HandleFrame(f)
    \/ HashFinishes \/ HandleHashResult \/ SendNextChunk
    \/ SourceChanges
    \/ \E k \in Sends : PeerReads(k)

Spec == Init /\ [][Next]_senderVars

-----------------------------------------------------------------------------
\* Properties.

\* outgoing_active_ stands for one completion still owed, to the last
\* send_file; every earlier one has been called (finish_outgoing).
OneCompletionOwed ==
    /\ outgoing_active <=> sends > 0 /\ outcome[sends] = "pending"
    /\ \A k \in Sends : outcome[k] = "none" <=> k > sends
    /\ \A k \in Sends : outcome[k] = "pending" => k = sends

\* What keeps the completion from being called must be going on: a
\* connection, and in each state what that state waits for.
OutgoingIsAlive ==
    outgoing_active =>
        /\ \/ client.state = "Connecting" /\ client.link = "connecting"
           \/ client.state \in {"HelloSent"} \cup Active /\ client.link = "up"
        /\ client.state = "Offering" /\ client.offer_id = 0 =>
               worker # NoWorker /\ worker.generation = client.generation
        /\ client.state = "Sending" => client.file
        /\ client.state = "Finishing" => client.finish_id # 0

\* A finished transfer leaves no open file behind, and no pump that reads it.
FileIsClosed == client.file => outgoing_active /\ client.state \in {"Offering", "Sending"}

\* A transfer under way is one the manager waits for, after a handshake, and what the peer may
\* accept is the offer of this connection, its file open and still there.
OfferIsOpen ==
    /\ client.state \in Active => outgoing_active /\ client.handshake
    /\ client.state \in {"Sending", "Finishing"} => client.transfer_id # 0
    /\ outgoing_active /\ client.state \in {"Connecting", "HelloSent"} => client.transfer_id = 0
    /\ client.state = "Offering" /\ client.transfer_id # 0 => client.file
    /\ client.file => source # Missing

\* Types and all of the above, to be checked in one run: a send that failed or
\* was cancelled leaves neither a second completion, nor a dead transfer that
\* owes one, nor an open file.
IInv == TypeOK /\ OneCompletionOwed /\ OutgoingIsAlive /\ FileIsClosed /\ OfferIsOpen

\* A send offers one digest and only once: nothing was offered while its connection
\* has yet to greet or its file to be hashed, and what is under way to the peer is
\* that offer (handle_connected; send_file_offer).
OfferedOnce ==
    /\ \A k \in Sends : k > sends => offered[k] = NoDigest
    /\ client.link \in {"connecting", "cancelled"} \/ client.state = "HelloSent" \/ worker # NoWorker =>
           sends > 0 /\ offered[sends] = NoDigest
    /\ \A k \in Sends : \A i \in 1..Len(up[k]) :
           up[k][i].kind = "FileOffer" => up[k][i].id = k /\ up[k][i].sha256 = offered[k]

\* What is over is over, whatever the socket, the worker or the peer still do: the
\* completion of a send is called once, and what it was called with stays
\* (finish_outgoing); and frames of a transfer are sent only while its completion is
\* owed: nothing is offered, sent or finished after a cancel or a failure.
OutcomeIsFinal ==
    [][\A k \in Sends :
        /\ outcome[k] \notin {"none", "pending"} => outcome'[k] = outcome[k]
        /\ Len(up'[k]) > Len(up[k]) =>
               (outgoing_active /\ k = sends) \/ up'[k][Len(up'[k])].kind = "Hello"]_senderVars
=============================================================================

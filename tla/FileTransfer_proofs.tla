------------------------ MODULE FileTransfer_proofs ------------------------
(***************************************************************************)
(* Both ends joined keep IInv and implement Delivery, for any number of    *)
(* sends, contents, digests, chunk sizes and frames of the rival.  What    *)
(* each end does is proved in its own module; here both are instances of   *)
(* those modules, with every frame for the frames a peer may send.  The    *)
(* proofs join the two: what the sender took up, the receiver keeps.       *)
(***************************************************************************)
EXTENDS FileTransfer, SequenceTheorems, TLAPS

\* The ends as their proofs know them.
SP == INSTANCE TcpTransferClient_proofs WITH PeerFrames <- Sender!PeerFrame

RP == INSTANCE TcpTransferServer_proofs WITH
    Sockets <- Sends \cup {Rival},
    Names <- {FileName},
    Ids <- 1..RivalId,
    UnknownId <- 0,
    Digests <- {Sha256(c) : c \in Sources},
    Frames <- Receiver!Frame

-----------------------------------------------------------------------------
\* The two names of each end stand for the same.

LEMMA SenderIs ==
  /\ Sender!IInv <=> SP!IInv
  /\ Sender!OfferedOnce <=> SP!OfferedOnce
  /\ Sender!Init <=> SP!Init
  /\ Sender!PeerFrame = SP!PeerFrame
  /\ Sender!Worker = SP!Worker
  /\ Sender!Digests = SP!Digests
  BY DEF Sender!IInv, SP!IInv, Sender!OfferedOnce, SP!OfferedOnce, Sender!Init, SP!Init,
         Sender!NewClient, SP!NewClient, Sender!PeerFrame, SP!PeerFrame, Sender!TypeOK,
         SP!TypeOK, Sender!OneCompletionOwed, SP!OneCompletionOwed, Sender!OutgoingIsAlive,
         SP!OutgoingIsAlive, Sender!FileIsClosed, SP!FileIsClosed, Sender!OfferIsOpen,
         SP!OfferIsOpen, Sender!Sends, SP!Sends, Sender!Failures, SP!Failures,
         Sender!Client, SP!Client, Sender!Worker, SP!Worker, Sender!Digests, SP!Digests,
         Sender!SentFrame, SP!SentFrame, Sender!Active, SP!Active, Sender!Ended, SP!Ended,
         Sender!SourceBlocks, SP!SourceBlocks

LEMMA ReceiverIs ==
  /\ Receiver!IInv <=> RP!IInv
  /\ Receiver!Init <=> RP!Init
  /\ Receiver!Frame = RP!Frame
  /\ Receiver!Transfer = RP!Transfer
  /\ \A a, s : Receiver!Owns(a, s) <=> RP!Owns(a, s)
  BY DEF Receiver!IInv, RP!IInv, Receiver!Init, RP!Init, Receiver!TypeOK, RP!TypeOK,
         Receiver!SlotIsHeldByConnection, RP!SlotIsHeldByConnection, Receiver!PartHoldsData,
         RP!PartHoldsData, Receiver!ConnectionsAreLive, RP!ConnectionsAreLive,
         Receiver!ConnectionStates, RP!ConnectionStates, Receiver!WireStates, RP!WireStates,
         Receiver!Reply, RP!Reply, Receiver!Codes, RP!Codes, Receiver!Transfer, RP!Transfer,
         Receiver!Paths, RP!Paths, Receiver!Content, RP!Content, Receiver!Frame, RP!Frame,
         Receiver!Owns, RP!Owns

\* What the modules of the two ends assume of their constants.
LEMMA SenderConstants ==
  /\ MaxSends \in Nat /\ ChunkSize \in Nat \ {0} /\ HighWater \in Nat \ {0}
  /\ Sources \subseteq Seq(SP!SourceBlocks) /\ Missing \notin Sources
  /\ Sender!PeerFrame \subseteq SP!PeerFrame
  /\ NoWorker \notin SP!Worker /\ NoDigest \notin SP!Digests
<1>1. Sources \subseteq Seq(SP!SourceBlocks)
  <2>1. ASSUME NEW c \in Sources PROVE c \in Seq(SP!SourceBlocks)
    <3>1. c \in Seq(Blocks)
      BY ContentAssumption
    <3>2. Len(c) \in Nat /\ DOMAIN c = 1..Len(c) /\ c = [i \in 1..Len(c) |-> c[i]]
      BY <3>1
    <3>3. \A i \in 1..Len(c) : c[i] \in SP!SourceBlocks
      BY <3>2 DEF SP!SourceBlocks
    <3> QED BY <3>2, <3>3
  <2> QED BY <2>1
<1> QED BY <1>1, SenderIs, SendAssumption, ContentAssumption, NothingAssumption

LEMMA ReceiverConstants ==
  /\ Receiver!Frame \subseteq RP!Frame
  /\ DOMAIN PartName = {FileName}
  /\ Foreign \subseteq RP!Content /\ Absent \notin RP!Content
  /\ NoTransfer \notin RP!Transfer
  /\ RP!PartNamesApart
  BY ReceiverIs, ContentAssumption, NameAssumption, NothingAssumption
     DEF RP!Content, RP!PartNamesApart

\* The callbacks of the sender are made of the same parts.
LEMMA SenderPartsAre ==
  /\ Sender!Now = SP!Now
  /\ \A c : Sender!With(c) = SP!With(c)
  /\ \A x : Sender!Becomes(x) <=> SP!Becomes(x)
  /\ \A f : Sender!Sent(f) <=> SP!Sent(f)
  /\ \A x, code : Sender!FinishOutgoing(x, code) = SP!FinishOutgoing(x, code)
  /\ \A x, code : Sender!FailTransfer(x, code) = SP!FailTransfer(x, code)
  /\ \A x : Sender!HandleError(x) = SP!HandleError(x)
  /\ \A x : Sender!HandleDisconnected(x) = SP!HandleDisconnected(x)
  /\ \A x : Sender!Abort(x) = SP!Abort(x)
  /\ \A x : Sender!Hangup(x) = SP!Hangup(x)
  BY DEF Sender!Now, SP!Now, Sender!With, SP!With, Sender!Becomes, SP!Becomes, Sender!Sent,
         SP!Sent, Sender!FinishOutgoing, SP!FinishOutgoing, Sender!FailTransfer,
         SP!FailTransfer, Sender!HandleError, SP!HandleError, Sender!HandleDisconnected,
         SP!HandleDisconnected, Sender!Abort, SP!Abort, Sender!Hangup, SP!Hangup,
         Sender!Ended, SP!Ended, Sender!Active, SP!Active, Sender!DisconnectFromHost,
         SP!DisconnectFromHost, Sender!Forgotten, SP!Forgotten, Sender!Leaving, SP!Leaving

LEMMA SenderStepIs ==
  /\ Sender!SendFile <=> SP!SendFile
  /\ Sender!Stop <=> SP!Stop
  /\ Sender!SourceChanges <=> SP!SourceChanges
  /\ Sender!HashFinishes <=> SP!HashFinishes
  /\ Sender!HandleHashResult <=> SP!HandleHashResult
  /\ Sender!SendNextChunk <=> SP!SendNextChunk
  /\ Sender!HandleConnected <=> SP!HandleConnected
  /\ Sender!HandleConnectError <=> SP!HandleConnectError
  /\ Sender!HandleLinkDown <=> SP!HandleLinkDown
  /\ \A k : Sender!PeerReads(k) <=> SP!PeerReads(k)
<1>1. Sender!SendNextChunk <=> SP!SendNextChunk
  <2>1. Sender!NextChunk = SP!NextChunk
    BY DEF Sender!NextChunk, SP!NextChunk
  <2>2. \A x, f : Sender!SendOrFail(x, f) <=> SP!SendOrFail(x, f)
    BY SenderPartsAre DEF Sender!SendOrFail, SP!SendOrFail
  <2>3. Sender!SendFileFinish <=> SP!SendFileFinish
    BY <2>2, SenderPartsAre DEF Sender!SendFileFinish, SP!SendFileFinish
  <2>4. Sender!SendFileChunk <=> SP!SendFileChunk
    BY <2>1, <2>2, SenderPartsAre DEF Sender!SendFileChunk, SP!SendFileChunk
  <2> QED BY <2>3, <2>4 DEF Sender!SendNextChunk, SP!SendNextChunk
<1>2. Sender!HandleHashResult <=> SP!HandleHashResult
  <2>1. Sender!SendFileOffer <=> SP!SendFileOffer
    BY SenderPartsAre DEF Sender!SendFileOffer, SP!SendFileOffer
  <2> QED BY <2>1, SenderPartsAre DEF Sender!HandleHashResult, SP!HandleHashResult
<1> QED BY <1>1, <1>2, SenderPartsAre
       DEF Sender!SendFile, SP!SendFile, Sender!NewClient, SP!NewClient, Sender!Stop, SP!Stop,
         Sender!SourceChanges, SP!SourceChanges, Sender!HashFinishes, SP!HashFinishes,
         Sender!HandleConnected, SP!HandleConnected, Sender!HandleConnectError,
         SP!HandleConnectError, Sender!HandleLinkDown, SP!HandleLinkDown, Sender!PeerReads,
         SP!PeerReads

LEMMA SenderFrameIs == ASSUME NEW f PROVE Sender!HandleFrame(f) <=> SP!HandleFrame(f)
<1>1. Sender!Unexpected <=> SP!Unexpected
  BY SenderPartsAre DEF Sender!Unexpected, SP!Unexpected
<1>2. Sender!HandleHelloAck(f) <=> SP!HandleHelloAck(f)
  <2>1. Sender!Greeted = SP!Greeted /\ (Sender!Greets(f) <=> SP!Greets(f))
    BY DEF Sender!Greeted, SP!Greeted, Sender!Greets, SP!Greets
  <2>2. Sender!OfferFile <=> SP!OfferFile
    BY <2>1, SenderPartsAre DEF Sender!OfferFile, SP!OfferFile
  <2> QED BY <1>1, <2>1, <2>2, SenderPartsAre DEF Sender!HandleHelloAck, SP!HandleHelloAck
<1>3. \A id : Sender!Correlates(f, id) <=> SP!Correlates(f, id)
  BY DEF Sender!Correlates, SP!Correlates
<1>4. Sender!HandleFileAccept(f) <=> SP!HandleFileAccept(f)
  BY <1>1, <1>3, SenderPartsAre DEF Sender!HandleFileAccept, SP!HandleFileAccept
<1>5. Sender!HandleFileReject(f) <=> SP!HandleFileReject(f)
  BY <1>1, <1>3, SenderPartsAre DEF Sender!HandleFileReject, SP!HandleFileReject
<1>6. Sender!HandleFileResult(f) <=> SP!HandleFileResult(f)
  BY <1>1, <1>3, SenderPartsAre DEF Sender!HandleFileResult, SP!HandleFileResult, Sender!Ended, SP!Ended
<1>7. Sender!HandleOther <=> SP!HandleOther
  BY SenderPartsAre DEF Sender!HandleOther, SP!HandleOther
<1> QED BY <1>2, <1>4, <1>5, <1>6, <1>7 DEF Sender!HandleFrame, SP!HandleFrame

LEMMA ReceiverStepIs ==
  /\ \A s : Receiver!HandleNewConnection(s) <=> RP!HandleNewConnection(s)
  /\ \A s, f : Receiver!HandleReadyRead(s, f) <=> RP!HandleReadyRead(s, f)
  /\ \A s : Receiver!HandleDisconnected(s) <=> RP!HandleDisconnected(s)
  /\ \A s : Receiver!PeerReads(s) <=> RP!PeerReads(s)
  /\ Receiver!Listen <=> RP!Listen
  /\ Receiver!Close <=> RP!Close
  /\ Receiver!Crash <=> RP!Crash
  /\ \A p, c : Receiver!OtherProgramCreates(p, c) <=> RP!OtherProgramCreates(p, c)
  /\ Receiver!Paths = RP!Paths
<1>1. ASSUME NEW s, NEW f PROVE Receiver!HandleReadyRead(s, f) <=> RP!HandleReadyRead(s, f)
  BY DEF Receiver!HandleReadyRead, RP!HandleReadyRead, Receiver!DispatchFrame,
         RP!DispatchFrame, Receiver!HandleHello, RP!HandleHello, Receiver!HandleFileOffer,
         RP!HandleFileOffer, Receiver!HandleFileChunk, RP!HandleFileChunk,
         Receiver!HandleFileFinish, RP!HandleFileFinish, Receiver!CloseProtocolError,
         RP!CloseProtocolError, Receiver!SendFrame, RP!SendFrame,
         Receiver!HandleSendFailure, RP!HandleSendFailure, Receiver!RemoveConnection,
         RP!RemoveConnection, Receiver!WithoutPart, RP!WithoutPart, Receiver!Owns, RP!Owns,
         Receiver!Reject, RP!Reject, Receiver!FileResult, RP!FileResult,
         Receiver!FailReceive, RP!FailReceive, Receiver!RejectConnectionReceive,
         RP!RejectConnectionReceive, Receiver!RefuseOffer, RP!RefuseOffer,
         Receiver!NewTransfer, RP!NewTransfer, Receiver!BeginReceive, RP!BeginReceive,
         Receiver!IdOf, RP!IdOf, Receiver!ChunkFits, RP!ChunkFits, Receiver!Renamed,
         RP!Renamed, Receiver!CompleteReceive, RP!CompleteReceive, Receiver!Handshake,
         RP!Handshake
<1> QED BY <1>1 DEF Receiver!HandleNewConnection, RP!HandleNewConnection, Receiver!HandleDisconnected,
         RP!HandleDisconnected, Receiver!RemoveConnection, RP!RemoveConnection,
         Receiver!WithoutPart, RP!WithoutPart, Receiver!Owns, RP!Owns, Receiver!PeerReads,
         RP!PeerReads, Receiver!Listen, RP!Listen, Receiver!Close, RP!Close, Receiver!Crash,
         RP!Crash, Receiver!Disconnected, RP!Disconnected, Receiver!OtherProgramCreates,
         RP!OtherProgramCreates, Receiver!Paths, RP!Paths

-----------------------------------------------------------------------------
\* What the one end does and what of it the other relies on.

\* The file stays as it is once it is there.
FileStays ==
    disk'[FileName] = disk[FileName] \/ (disk[FileName] = Absent /\ disk'[FileName] \in Seq(Blocks))

\* An offer that was made stays made.
OffersStay == \A k \in Sends : offered[k] # NoDigest => offered'[k] = offered[k]

\* The slot is given to what the connection offered.
SlotIsOffered ==
    \A k \in Sends : RP!Owns(active', k) => offered[k] # NoDigest /\ active'.sha256 = offered[k]

\* A reply the sender can take and, if it is a success, believe.
Deserved(k, r) ==
    /\ r \in Sender!PeerFrame
    /\ r.kind = "FileResult" /\ r.code = "Ok" => Delivered(k) /\ offered[k] # NoDigest

\* Replies are read, or one that is deserved joins them.
RepliesAreDeserved ==
    \A k \in Sends :
        \/ outbox'[k] = outbox[k]
        \/ outbox[k] # <<>> /\ outbox'[k] = Tail(outbox[k])
        \/ \E r : outbox'[k] = Append(outbox[k], r) /\ Deserved(k, r)'

LEMMA Types ==
  ASSUME IInv
  PROVE  /\ SP!IInv /\ SP!OfferedOnce /\ RP!IInv
         /\ outcome \in [Sends -> {"none", "pending", "Ok"} \cup SP!Failures]
         /\ offered \in [Sends -> SP!Digests \cup {NoDigest}]
         /\ \A k \in Sends : up[k] \in Seq(SP!SentFrame)
         /\ \A k \in Sends : outbox[k] \in Seq(RP!Reply)
         /\ active \in RP!Transfer \cup {NoTransfer}
<1>1. SP!IInv /\ SP!OfferedOnce /\ RP!IInv
  BY SenderIs, ReceiverIs DEF IInv
<1> QED BY <1>1 DEF SP!IInv, SP!TypeOK, SP!Sends, RP!IInv, RP!TypeOK, Sends

LEMMA DeliveredStays ==
  ASSUME FileStays, OffersStay, NEW k \in Sends, Delivered(k), offered[k] # NoDigest
  PROVE  (Delivered(k) /\ offered[k] # NoDigest)'
  BY DEF FileStays, OffersStay, Delivered

\* The transfer in the slot is of an offer that was made.
LEMMA SlotWasOffered ==
  ASSUME IInv, NEW k \in Sends, RP!Owns(active, k)
  PROVE  offered[k] # NoDigest /\ active.sha256 = offered[k]
<1>1. active.sha256 = offered[k]
  BY ReceiverIs DEF IInv, OfferIsKept
<1>2. active.sha256 \in SP!Digests
  BY Types DEF RP!Owns, RP!Transfer, SP!Digests
<1> QED BY <1>1, <1>2, SenderConstants

\* The joint invariant holds when each end keeps its own and relies on no more.
LEMMA JoinedKeeps ==
  ASSUME IInv, SP!IInv', SP!OfferedOnce', RP!IInv',
         FileStays, OffersStay, SlotIsOffered, RepliesAreDeserved,
         \A k \in Sends : outcome'[k] = "Ok" =>
             outcome[k] = "Ok" \/ (Delivered(k) /\ offered[k] # NoDigest)
  PROVE  IInv'
<1>1. ASSUME NEW k \in Sends PROVE Receiver!Owns(active', k) => active'.sha256 = offered'[k]
  BY ReceiverIs DEF SlotIsOffered, OffersStay
<1>2. ASSUME NEW k \in Sends, NEW r, Deserved(k, r) PROVE Deserved(k, r)'
  BY <1>2, DeliveredStays DEF Deserved
<1>3. ASSUME NEW k \in Sends, NEW i \in 1..Len(outbox[k]) PROVE Deserved(k, outbox[k][i])
  BY DEF IInv, OfferIsKept, Deserved
<1>4. ASSUME NEW k \in Sends, NEW i \in 1..Len(outbox'[k]), NEW r, r = outbox'[k][i]
      PROVE  Deserved(k, r)'
  <2>1. outbox[k] \in Seq(RP!Reply) /\ Len(outbox[k]) \in Nat
    BY Types
  <2>2. ASSUME NEW j \in 1..Len(outbox[k]), r = outbox[k][j] PROVE Deserved(k, r)'
    <3>1. Deserved(k, r)
      BY <1>3, <2>2
    <3> QED BY <1>2, <3>1
  <2>3. CASE outbox'[k] = outbox[k]
    BY <1>4, <2>2, <2>3
  <2>4. CASE outbox[k] # <<>> /\ outbox'[k] = Tail(outbox[k])
    <3>1. /\ Len(Tail(outbox[k])) = Len(outbox[k]) - 1
          /\ \A j \in 1..Len(Tail(outbox[k])) : Tail(outbox[k])[j] = outbox[k][j + 1]
      BY <2>1, <2>4
    <3>2. i + 1 \in 1..Len(outbox[k])
      BY <1>4, <2>1, <2>4, <3>1
    <3> QED BY <1>4, <2>2, <2>4, <3>1, <3>2
  <2>5. ASSUME NEW new, outbox'[k] = Append(outbox[k], new), Deserved(k, new)' PROVE Deserved(k, r)'
    <3>1. /\ Len(Append(outbox[k], new)) = Len(outbox[k]) + 1
          /\ \A j \in 1..Len(outbox[k]) : Append(outbox[k], new)[j] = outbox[k][j]
          /\ Append(outbox[k], new)[Len(outbox[k]) + 1] = new
      BY <2>1
    <3>2. i \in 1..Len(outbox[k]) \/ i = Len(outbox[k]) + 1
      BY <1>4, <2>1, <2>5, <3>1
    <3>3. CASE i \in 1..Len(outbox[k])
      BY <1>4, <2>2, <2>5, <3>1, <3>3
    <3>4. CASE i = Len(outbox[k]) + 1
      <4>1. r = new
        BY <1>4, <2>5, <3>1, <3>4
      <4> QED BY <2>5, <4>1
    <3> QED BY <3>2, <3>3, <3>4
  <2> QED BY <2>3, <2>4, <2>5 DEF RepliesAreDeserved
<1>5. ASSUME NEW k \in Sends, outcome'[k] = "Ok" PROVE (Delivered(k) /\ offered[k] # NoDigest)'
  <2>1. Delivered(k) /\ offered[k] # NoDigest
    BY <1>5 DEF IInv, OfferIsKept, OkMeansDelivered
  <2> QED BY <2>1, DeliveredStays
<1>6. ASSUME NEW k \in Sends, NEW i \in 1..Len(outbox'[k])
      PROVE  /\ outbox'[k][i] \in Sender!PeerFrame
             /\ outbox'[k][i].kind = "FileResult" /\ outbox'[k][i].code = "Ok" =>
                    Delivered(k)' /\ offered'[k] # NoDigest
  <2>1. PICK r : r = outbox'[k][i]
    OBVIOUS
  <2>2. Deserved(k, r)'
    BY <1>4, <2>1
  <2> QED BY <2>1, <2>2 DEF Deserved
<1>7. OfferIsKept'
  BY <1>1, <1>5, <1>6 DEF OfferIsKept
<1>8. OkMeansDelivered'
  BY <1>5 DEF OkMeansDelivered
<1>9. (Sender!IInv /\ Sender!OfferedOnce /\ Receiver!IInv)'
  BY SenderIs, ReceiverIs, PTL
<1> QED BY <1>7, <1>8, <1>9 DEF IInv

-----------------------------------------------------------------------------
\* The promise.

Promises == [Promise!Next]_(Promise!vars)

LEMMA FileAppears ==
  ASSUME FileStays, UNCHANGED <<outcome, offered>>
  PROVE  Promises
  BY DEF Promises, FileStays, Promise!Next, Promise!Appear, Promise!vars

LEMMA FailureIsPromised ==
  ASSUME IInv, SP!Final, SP!Ends(outcome, outcome'), UNCHANGED <<offered, disk>>
  PROVE  /\ Promises
         /\ \A k \in Sends : outcome'[k] = "Ok" => outcome[k] = "Ok"
<1>1. CASE outcome' = outcome
  BY <1>1 DEF Promises, Promise!vars
<1>2. ASSUME NEW code \in SP!Failures, outcome' = [outcome EXCEPT ![sends] = code], outcome' # outcome
      PROVE  /\ Promises
             /\ \A k \in Sends : outcome'[k] = "Ok" => outcome[k] = "Ok"
  <2>1. sends \in Sends /\ outcome[sends] = "pending"
    BY <1>2, Types, SenderConstants, SP!AnswersPending DEF SP!Sends, Sends
  <2>2. code \notin {"none", "pending", "Ok"}
    BY DEF SP!Failures
  <2>3. PICK k \in Sends : k = sends
    BY <2>1
  <2>4. outcome' = [outcome EXCEPT ![k] = outcome'[k]] /\ outcome'[k] = code
    BY <1>2, <2>3, Types
  <2>5. Promise!Fail(k)
    BY <2>1, <2>2, <2>3, <2>4 DEF Promise!Fail
  <2>6. Promises
    BY <2>5 DEF Promises, Promise!Next, Promise!Sends, Sends
  <2>7. \A j \in Sends : outcome'[j] = "Ok" => outcome[j] = "Ok"
    BY <2>2, <2>4, Types
  <2> QED BY <2>6, <2>7
<1> QED BY <1>1, <1>2 DEF SP!Ends

LEMMA StartIsPromised ==
  ASSUME IInv, SP!Starts, UNCHANGED disk
  PROVE  /\ Promises
         /\ \A k \in Sends : outcome'[k] = "Ok" => outcome[k] = "Ok"
<1>1. PICK k \in Sends : k = sends + 1
  BY DEF SP!Starts, SP!Sends, Sends
<1>2. Promise!Start(k)
  BY <1>1 DEF SP!Starts, SP!Sends, Promise!Start, Promise!Sends
<1>3. Promises
  BY <1>2 DEF Promises, Promise!Next, Promise!Sends, Sends
<1> QED BY <1>1, <1>3, Types DEF SP!Starts

LEMMA OfferIsPromised ==
  ASSUME IInv, SP!Offers, UNCHANGED disk
  PROVE  Promises /\ OffersStay /\ outcome' = outcome
<1>1. PICK k \in Sends : k = sends
  BY DEF SP!Offers, SP!Sends, Sends
<1>2. PICK d \in SP!Digests : offered' = [offered EXCEPT ![sends] = d]
  BY DEF SP!Offers
<1>3. offered'[k] = d /\ offered' = [offered EXCEPT ![k] = offered'[k]]
  BY <1>1, <1>2, Types
<1>4. Promise!Offer(k)
  BY <1>1, <1>3 DEF SP!Offers, SP!Digests, Promise!Offer
<1>5. Promises
  BY <1>4 DEF Promises, Promise!Next, Promise!Sends, Sends
<1>6. OffersStay
  BY <1>1, <1>3, Types DEF SP!Offers, OffersStay
<1> QED BY <1>5, <1>6 DEF SP!Offers
-----------------------------------------------------------------------------
\* The steps of the sender.

LEMMA SenderAlone ==
  ASSUME IInv,
         \/ Sender!SendFile \/ Sender!Stop \/ Sender!SourceChanges
         \/ Sender!HashFinishes \/ Sender!HandleHashResult \/ Sender!SendNextChunk
         \/ Sender!HandleConnected \/ Sender!HandleConnectError \/ Sender!HandleLinkDown,
         UNCHANGED disk
  PROVE  /\ SP!IInv' /\ SP!OfferedOnce' /\ OffersStay
         /\ \A k \in Sends : outcome'[k] = "Ok" => outcome[k] = "Ok"
         /\ Promises
<1>1. /\ SP!IInv' /\ SP!Final /\ SP!OfferedOnce'
      /\ SP!Starts \/ SP!Offers \/ (UNCHANGED offered /\ SP!Ends(outcome, outcome'))
  BY Types, SenderStepIs, SenderConstants, SP!AloneKeeps
<1>2. CASE SP!Starts
  BY <1>1, <1>2, StartIsPromised DEF SP!Starts, OffersStay
<1>3. CASE SP!Offers
  BY <1>1, <1>3, OfferIsPromised
<1>4. CASE UNCHANGED offered /\ SP!Ends(outcome, outcome')
  BY <1>1, <1>4, FailureIsPromised DEF OffersStay
<1> QED BY <1>1, <1>2, <1>3, <1>4

\* The receiver, as far as it matters here, stands still.
LEMMA ReceiverRests ==
  ASSUME IInv, UNCHANGED <<outbox, active, disk>>
  PROVE  FileStays /\ SlotIsOffered /\ RepliesAreDeserved
  BY SlotWasOffered DEF FileStays, SlotIsOffered, RepliesAreDeserved

\* The sender steps by itself, the receiver not at all.
LEMMA SendingStep ==
  ASSUME IInv, Sending \/ ConnectFails \/ ClientSeesBreak
  PROVE  IInv' /\ Promises
<1>1. UNCHANGED receiverVars
  BY DEF Sending, ConnectFails, ClientSeesBreak
<1>2. /\ SP!IInv' /\ SP!OfferedOnce' /\ OffersStay
      /\ \A k \in Sends : outcome'[k] = "Ok" => outcome[k] = "Ok"
      /\ Promises
  BY <1>1, SenderAlone DEF Sending, ConnectFails, ClientSeesBreak, receiverVars
<1>3. RP!IInv'
  BY <1>1, Types DEF receiverVars, RP!IInv, RP!TypeOK, RP!SlotIsHeldByConnection, RP!PartHoldsData,
                     RP!ConnectionsAreLive
<1>4. FileStays /\ SlotIsOffered /\ RepliesAreDeserved
  BY <1>1, ReceiverRests DEF receiverVars
<1> QED BY <1>2, <1>3, <1>4, JoinedKeeps

\* The connection is made: the receiver has a new connection and nothing else.
LEMMA ConnectStep == ASSUME IInv, Connect PROVE IInv' /\ Promises
<1>1. RP!HandleNewConnection(sends) /\ UNCHANGED <<outbox, active, disk>>
  BY ReceiverStepIs DEF Connect, RP!HandleNewConnection
<1>2. /\ SP!IInv' /\ SP!OfferedOnce' /\ OffersStay
      /\ \A k \in Sends : outcome'[k] = "Ok" => outcome[k] = "Ok"
      /\ Promises
  BY <1>1, SenderAlone DEF Connect
<1>3. RP!IInv'
  <2>1. sends \in Sends
    BY Types, SenderStepIs DEF Connect, SP!HandleConnected, SP!OfferedOnce, SP!IInv, SP!TypeOK, Sends
  <2>2. RP!Next
    BY <1>1, <2>1 DEF RP!Next
  <2> QED BY <2>2, Types, ReceiverConstants, RP!NextInvariant
<1>4. FileStays /\ SlotIsOffered /\ RepliesAreDeserved
  BY <1>1, ReceiverRests
<1> QED BY <1>2, <1>3, <1>4, JoinedKeeps

\* The sender takes a reply: it can, and what it believes of it is true.
LEMMA TakeReplyStep == ASSUME IInv, TakeReply PROVE IInv' /\ Promises
<1>1. /\ RP!PeerReads(sends) /\ outbox[sends] # <<>>
      /\ Sender!HandleFrame(Head(outbox[sends]))
      /\ UNCHANGED <<active, disk, offered>>
  BY ReceiverStepIs DEF TakeReply, RP!PeerReads, Sender!HandleFrame
<1>2. PICK k \in Sends : k = sends
  BY Types DEF TakeReply, SP!IInv, SP!TypeOK, Sends
<1>3. PICK f : f = Head(outbox[k])
  OBVIOUS
<1>4. Deserved(k, f)
  <2>1. outbox[k] \in Seq(RP!Reply) /\ outbox[k] # <<>>
    BY <1>1, <1>2, Types
  <2>2. 1 \in 1..Len(outbox[k]) /\ f = outbox[k][1]
    BY <1>3, <2>1
  <2> QED BY <2>2 DEF IInv, OfferIsKept, Deserved
<1>5. f \in Sender!PeerFrame /\ f \in SP!PeerFrame /\ SP!HandleFrame(f)
  BY <1>1, <1>2, <1>3, <1>4, SenderFrameIs, SenderIs DEF Deserved
<1>6. SP!IInv' /\ SP!Final
  BY <1>5, Types, SenderConstants, SP!HandleFrameStep
<1>7. SP!OfferedOnce' /\ (SP!Ends(outcome, outcome') \/ SP!Succeeds(f))
  BY <1>5, Types, SenderConstants, SP!HandleFrameOffers
<1>8. RP!IInv'
  <2>1. RP!Next
    BY <1>1, <1>2 DEF RP!Next
  <2> QED BY <2>1, Types, ReceiverConstants, RP!NextInvariant
<1>9. FileStays /\ OffersStay /\ SlotIsOffered /\ RepliesAreDeserved
  <2>1. \A j \in Sends : outbox'[j] = outbox[j] \/ (outbox[j] # <<>> /\ outbox'[j] = Tail(outbox[j]))
    BY <1>1, <1>2, Types DEF RP!PeerReads, RP!IInv, RP!TypeOK
  <2> QED BY <1>1, <2>1, SlotWasOffered DEF FileStays, OffersStay, SlotIsOffered, RepliesAreDeserved
<1>10. CASE SP!Ends(outcome, outcome')
  BY <1>1, <1>6, <1>7, <1>8, <1>9, <1>10, FailureIsPromised, JoinedKeeps
<1>11. CASE SP!Succeeds(f)
  <2>1. Delivered(k) /\ offered[k] # NoDigest /\ outcome' = [outcome EXCEPT ![k] = "Ok"]
    BY <1>2, <1>4, <1>11 DEF SP!Succeeds, Deserved
  <2>2. \A j \in Sends : outcome'[j] = "Ok" => outcome[j] = "Ok" \/ (Delivered(j) /\ offered[j] # NoDigest)
    BY <2>1, Types
  <2>3. Promises
    <3>1. outcome' = outcome \/ outcome[k] = "pending"
      BY <1>2, <1>6, <2>1, Types, SenderConstants, SP!AnswersPending
    <3>2. CASE outcome' = outcome
      BY <1>1, <3>2 DEF Promises, Promise!vars
    <3>3. CASE outcome[k] = "pending"
      <4>1. Promise!Succeed(k)
        BY <1>1, <2>1, <3>3 DEF Promise!Succeed, Delivered
      <4> QED BY <4>1 DEF Promises, Promise!Next, Promise!Sends, Sends
    <3> QED BY <3>1, <3>2, <3>3
  <2> QED BY <1>6, <1>7, <1>8, <1>9, <2>2, <2>3, JoinedKeeps
<1> QED BY <1>7, <1>10, <1>11

-----------------------------------------------------------------------------
\* The steps of the receiver.

\* The sender, as far as it matters here, stands still.
LEMMA SenderRests ==
  ASSUME IInv, UNCHANGED <<outcome, offered>>, FileStays
  PROVE  /\ OffersStay
         /\ \A k \in Sends : outcome'[k] = "Ok" => outcome[k] = "Ok"
         /\ Promises
  BY FileAppears DEF OffersStay

\* What the receiver does short of reading.
LEMMA ReceiverAlone ==
  ASSUME IInv,
         \/ \E s \in Sends \cup {Rival} :
              RP!HandleNewConnection(s) \/ RP!HandleDisconnected(s) \/ RP!PeerReads(s)
         \/ RP!Listen \/ RP!Close \/ RP!Crash
         \/ \E p \in RP!Paths, c \in Foreign : RP!OtherProgramCreates(p, c)
  PROVE  RP!IInv' /\ FileStays /\ SlotIsOffered /\ RepliesAreDeserved
<1>1. RP!Next
  BY DEF RP!Next
<1>2. RP!IInv'
  BY <1>1, Types, ReceiverConstants, RP!NextInvariant
<1>3. FileStays
  BY <1>1, Types, ReceiverConstants, RP!NamesStay DEF FileStays, RP!Content
<1>4. /\ active' = active \/ active' = NoTransfer
      /\ \A s \in Sends \cup {Rival} :
            outbox'[s] = outbox[s] \/ (outbox[s] # <<>> /\ outbox'[s] = Tail(outbox[s]))
  BY Types, ReceiverConstants, RP!OthersGrantNothing
<1>5. SlotIsOffered
  BY <1>4, SlotWasOffered DEF SlotIsOffered, RP!Owns
<1>6. RepliesAreDeserved
  BY <1>4 DEF RepliesAreDeserved
<1> QED BY <1>2, <1>3, <1>5, <1>6

LEMMA ReceivingStep == ASSUME IInv, Receiving PROVE IInv' /\ Promises
<1>1. UNCHANGED senderVars
  BY DEF Receiving
<1>2. RP!IInv' /\ FileStays /\ SlotIsOffered /\ RepliesAreDeserved
  BY ReceiverAlone, ReceiverStepIs DEF Receiving
<1>3. SP!IInv' /\ SP!OfferedOnce'
  BY <1>1, Types DEF senderVars, SP!IInv, SP!TypeOK, SP!OneCompletionOwed, SP!OutgoingIsAlive,
                     SP!FileIsClosed, SP!OfferIsOpen, SP!OfferedOnce
<1> QED BY <1>1, <1>2, <1>3, SenderRests, JoinedKeeps DEF senderVars

\* The receiver learns that the connection is gone; so are the frames.
LEMMA ServerSeesBreakStep ==
  ASSUME IInv, NEW k \in Sends, ServerSeesBreak(k)
  PROVE  IInv' /\ Promises
<1>1. RP!HandleDisconnected(k)
  BY ReceiverStepIs DEF ServerSeesBreak
<1>2. RP!IInv' /\ FileStays /\ SlotIsOffered /\ RepliesAreDeserved
  BY <1>1, ReceiverAlone
<1>3. k \in SP!Sends
  BY DEF SP!Sends, Sends
<1>4. SP!IInv' /\ SP!OfferedOnce'
  BY <1>3, Types, SenderConstants, SP!LessUnderWay DEF ServerSeesBreak
<1> QED BY <1>2, <1>4, SenderRests, JoinedKeeps DEF ServerSeesBreak

\* A frame of the sender is one the receiver knows.
LEMMA SentIsFrame ==
  ASSUME NEW f \in SP!SentFrame
  PROVE  f \in Receiver!Frame /\ f.kind \in {"Hello", "FileOffer", "FileChunk", "FileFinish"}
<1>1. SP!Sends \subseteq 1..RivalId
  BY SendAssumption DEF SP!Sends, RivalId
<1>2. Seq(SP!SourceBlocks) \subseteq Seq(Blocks)
  <2>1. SP!SourceBlocks \subseteq Blocks
    BY ContentAssumption DEF SP!SourceBlocks
  <2> QED BY <2>1
<1>3. SP!Digests = {Sha256(c) : c \in Sources}
  BY DEF SP!Digests
<1>4. CASE f \in [kind : {"Hello"}, rid : Nat]
  BY <1>4 DEF Receiver!Frame
<1>5. CASE f \in [kind : {"FileOffer"}, rid : Nat, id : SP!Sends, name : {FileName}, size : Nat,
                  sha256 : SP!Digests]
  <2>1. f \in [kind : {"FileOffer"}, rid : Nat, id : 1..RivalId, name : {FileName}, size : Nat,
               sha256 : {Sha256(c) : c \in Sources}]
    BY <1>1, <1>3, <1>5
  <2> QED BY <1>5, <2>1, Zenon DEF Receiver!Frame
<1>6. CASE f \in [kind : {"FileChunk"}, rid : Nat, id : SP!Sends, offset : Nat, data : Seq(SP!SourceBlocks)]
  <2>1. /\ f \in [kind : {"FileChunk"}, rid : Nat, id : 1..RivalId, offset : Nat, data : Seq(Blocks)]
        /\ f.kind = "FileChunk"
    BY <1>1, <1>2, <1>6
  <2> QED BY <2>1, Zenon DEF Receiver!Frame, Receiver!Content
<1>7. CASE f \in [kind : {"FileFinish"}, rid : Nat, id : SP!Sends]
  <2>1. f \in [kind : {"FileFinish"}, rid : Nat, id : 1..RivalId] /\ f.kind = "FileFinish"
    BY <1>1, <1>7
  <2> QED BY <2>1, Zenon DEF Receiver!Frame
<1> QED BY <1>4, <1>5, <1>6, <1>7 DEF SP!SentFrame

\* A reply to such a frame is one the sender knows.
LEMMA ReplyIsFrame ==
  ASSUME NEW r \in RP!Reply, NEW f, RP!Fits(r, f),
         f.kind \in {"Hello", "FileOffer", "FileChunk", "FileFinish"}
  PROVE  r \in SP!PeerFrame
<1>1. RP!Codes \subseteq {"Ok"} \cup SP!Failures
  BY DEF RP!Codes, SP!Failures
<1>2. 1..RivalId \subseteq Nat \ {0}
  BY SendAssumption DEF RivalId
<1>3. CASE r \in [kind : {"HelloAck"}, rid : Nat]
  BY <1>3 DEF SP!PeerFrame
<1>4. CASE r \in [kind : {"FileAccept"}, rid : Nat, id : 1..RivalId]
  <2>1. r \in [kind : {"FileAccept"}, rid : Nat, id : Nat \ {0}]
    BY <1>2, <1>4
  <2> QED BY <2>1, Zenon DEF SP!PeerFrame
<1>5. CASE r \in [kind : {"FileReject", "FileResult"}, rid : Nat, id : (1..RivalId) \cup {0}, code : RP!Codes]
  <2>1. r.id \in Nat \ {0}
    BY <1>2, <1>5 DEF RP!Fits
  <2>2. CASE r.kind = "FileReject"
    <3>1. r.code \in SP!Failures
      BY <1>1, <1>5, <2>2 DEF RP!Fits
    <3>2. r \in [kind : {"FileReject"}, rid : Nat, id : Nat \ {0}, code : SP!Failures]
      BY <1>5, <2>1, <2>2, <3>1
    <3> QED BY <3>2, Zenon DEF SP!PeerFrame
  <2>3. CASE r.kind = "FileResult"
    <3>1. r \in [kind : {"FileResult"}, rid : Nat, id : Nat \ {0}, code : {"Ok"} \cup SP!Failures]
      BY <1>1, <1>5, <2>1, <2>3
    <3> QED BY <3>1, Zenon DEF SP!PeerFrame
  <2> QED BY <1>5, <2>2, <2>3
<1> QED BY <1>3, <1>4, <1>5 DEF RP!Reply

\* The receiver reads a frame: other connections hear nothing of it, and an Ok is
\* said only when the file is there.
LEMMA DeliverStep ==
  ASSUME IInv, NEW k \in Sends, Deliver(k)
  PROVE  IInv' /\ Promises
<1>1. PICK f : f = Head(up[k])
  OBVIOUS
<1>2. up[k] # <<>> /\ up' = [up EXCEPT ![k] = Tail(up[k])]
      /\ UNCHANGED <<sends, outgoing_active, outcome, client, worker, source, offered>>
  BY DEF Deliver, Sender!PeerReads
<1>3. 1 \in 1..Len(up[k]) /\ f = up[k][1] /\ f \in SP!SentFrame
  BY <1>1, <1>2, Types
<1>4. RP!HandleReadyRead(k, f)
  BY <1>1, ReceiverStepIs DEF Deliver
<1>5. f \in Receiver!Frame /\ f \in RP!Frame
      /\ f.kind \in {"Hello", "FileOffer", "FileChunk", "FileFinish"}
  BY <1>3, SentIsFrame, ReceiverIs
<1>6. RP!Next /\ k \in Sends \cup {Rival}
  BY <1>4, <1>5 DEF RP!Next
<1>7. RP!IInv'
  BY <1>6, Types, ReceiverConstants, RP!NextInvariant
<1>8. FileStays
  BY <1>6, Types, ReceiverConstants, RP!NamesStay DEF FileStays, RP!Content
<1>9. RP!DispatchFrame(k, f)
  BY <1>4 DEF RP!HandleReadyRead
<1>10. RP!Answers(k, f)
  BY <1>5, <1>6, <1>9, Types, ReceiverConstants, RP!DispatchAnswers
<1>11. RP!Outcome(k)
  BY <1>5, <1>6, <1>9, Types, ReceiverConstants, RP!DispatchOutcome
<1>12. SP!IInv' /\ SP!OfferedOnce'
  <2>1. k \in SP!Sends
    BY DEF SP!Sends, Sends
  <2> QED BY <1>2, <2>1, Types, SenderConstants, SP!LessUnderWay
<1>13. SlotIsOffered
  <2> SUFFICES ASSUME NEW j \in Sends, RP!Owns(active', j)
               PROVE  offered[j] # NoDigest /\ active'.sha256 = offered[j]
    BY DEF SlotIsOffered
  <2>1. CASE active # NoTransfer /\ active'.socket = active.socket /\ active'.sha256 = active.sha256
    <3>1. RP!Owns(active, j)
      BY <2>1 DEF RP!Owns
    <3> QED BY <2>1, <3>1, SlotWasOffered
  <2>2. CASE f.kind = "FileOffer" /\ active'.socket = k /\ active'.sha256 = f.sha256
    <3>1. j = k
      BY <2>2 DEF RP!Owns
    <3>2. f.sha256 = offered[k]
      BY <1>3, <2>2, Types DEF SP!OfferedOnce, SP!Sends, Sends
    <3>3. f.sha256 \in SP!Digests
      BY <1>3, <2>2 DEF SP!SentFrame
    <3> QED BY <2>2, <3>1, <3>2, <3>3, SenderConstants
  <2> QED BY <1>10, <2>1, <2>2 DEF RP!Answers, RP!Grants, RP!Owns
<1>14. RepliesAreDeserved
  <2>1. \A j \in Sends : j # k => outbox'[j] = outbox[j]
    BY <1>10 DEF RP!Answers
  <2>2. ASSUME NEW r \in RP!Reply, RP!Fits(r, f), outbox'[k] = Append(outbox[k], r)
        PROVE  Deserved(k, r)'
    <3>1. r \in Sender!PeerFrame
      BY <1>5, <2>2, ReplyIsFrame, SenderIs
    <3>2. ASSUME r.kind = "FileResult", r.code = "Ok"
          PROVE  Delivered(k)' /\ offered'[k] # NoDigest
      <4>1. outbox[k] \in Seq(RP!Reply)
        BY Types
      <4>2. Len(outbox'[k]) > Len(outbox[k]) /\ RP!LastOf(outbox'[k]) = r
        BY <2>2, <4>1 DEF RP!LastOf
      <4>3. RP!Stored(r, k, disk')
        BY <1>11, <3>2, <4>2 DEF RP!Outcome, RP!IsSuccess
      <4>4. active.name = FileName
        BY <4>3, Types DEF RP!Stored, RP!Owns, RP!Transfer
      <4>5. offered[k] # NoDigest /\ active.sha256 = offered[k]
        BY <4>3, SlotWasOffered DEF RP!Stored
      <4> QED BY <1>2, <4>3, <4>4, <4>5 DEF RP!Stored, Delivered
    <3> QED BY <3>1, <3>2 DEF Deserved
  <2>3. outbox'[k] = outbox[k] \/ \E r : outbox'[k] = Append(outbox[k], r) /\ Deserved(k, r)'
    BY <1>10, <2>2 DEF RP!Answers
  <2> QED BY <2>1, <2>3 DEF RepliesAreDeserved
<1> QED BY <1>2, <1>7, <1>8, <1>12, <1>13, <1>14, SenderRests, JoinedKeeps

\* The rival gets nothing but the slot.
LEMMA RivalStep == ASSUME IInv, RivalActs PROVE IInv' /\ Promises
<1>1. UNCHANGED senderVars
  BY DEF RivalActs
<1>2. SP!IInv' /\ SP!OfferedOnce'
  BY <1>1, Types DEF senderVars, SP!IInv, SP!TypeOK, SP!OneCompletionOwed, SP!OutgoingIsAlive,
                     SP!FileIsClosed, SP!OfferIsOpen, SP!OfferedOnce
<1>3. ASSUME NEW f \in RivalFrames, RP!HandleReadyRead(Rival, f)
      PROVE  RP!IInv' /\ FileStays /\ SlotIsOffered /\ RepliesAreDeserved
  <2>1. f \in Receiver!Frame /\ f \in RP!Frame /\ Rival \in Sends \cup {Rival}
    BY RivalAssumption, ReceiverIs
  <2>2. RP!Next
    BY <1>3, <2>1 DEF RP!Next
  <2>3. RP!IInv'
    BY <2>2, Types, ReceiverConstants, RP!NextInvariant
  <2>4. FileStays
    BY <2>2, Types, ReceiverConstants, RP!NamesStay DEF FileStays, RP!Content
  <2>5. RP!DispatchFrame(Rival, f)
    BY <1>3 DEF RP!HandleReadyRead
  <2>6. RP!Answers(Rival, f)
    BY <2>1, <2>5, Types, ReceiverConstants, RP!DispatchAnswers
  <2>7. SlotIsOffered
    <3> SUFFICES ASSUME NEW j \in Sends, RP!Owns(active', j)
                 PROVE  offered[j] # NoDigest /\ active'.sha256 = offered[j]
      BY DEF SlotIsOffered
    <3>1. active # NoTransfer /\ active'.socket = active.socket /\ active'.sha256 = active.sha256
      BY <2>6, RivalAssumption DEF RP!Answers, RP!Grants, RP!Owns
    <3>2. RP!Owns(active, j)
      BY <3>1 DEF RP!Owns
    <3> QED BY <3>1, <3>2, SlotWasOffered
  <2>8. RepliesAreDeserved
    BY <2>6, RivalAssumption DEF RP!Answers, RepliesAreDeserved
  <2> QED BY <2>3, <2>4, <2>7, <2>8
<1>4. RP!IInv' /\ FileStays /\ SlotIsOffered /\ RepliesAreDeserved
  BY <1>3, ReceiverAlone, ReceiverStepIs DEF RivalActs
<1> QED BY <1>1, <1>2, <1>4, SenderRests, JoinedKeeps DEF senderVars

-----------------------------------------------------------------------------
LEMMA InitJoined == ASSUME Init PROVE IInv /\ Promise!Init
<1>1. SP!Init /\ RP!Init
  BY SenderIs, ReceiverIs DEF Init
<1>2. SP!IInv /\ SP!OfferedOnce
  BY <1>1, SenderConstants, SP!InitEstablishes, SP!InitOffers
<1>3. RP!IInv
  BY <1>1, ReceiverConstants, RP!InitInvariant
<1>4. \A k \in Sends : outcome[k] = "none" /\ outbox[k] = <<>>
  BY <1>1 DEF SP!Init, RP!Init, SP!Sends, Sends
<1>5. active = NoTransfer
  BY <1>1 DEF RP!Init
<1>6. OfferIsKept /\ OkMeansDelivered
  BY <1>4, <1>5 DEF OfferIsKept, OkMeansDelivered, Receiver!Owns
<1>7. Promise!Init
  BY <1>1 DEF SP!Init, RP!Init, SP!Sends, Promise!Init, Promise!Sends, RP!Paths
<1> QED BY <1>2, <1>3, <1>6, <1>7, SenderIs, ReceiverIs DEF IInv

LEMMA StepJoined == ASSUME IInv, [Next]_vars PROVE IInv' /\ Promises
<1>1. CASE Next
  BY <1>1, ConnectStep, SendingStep, DeliverStep, ServerSeesBreakStep, TakeReplyStep, RivalStep,
     ReceivingStep DEF Next
<1>2. CASE UNCHANGED vars
  <2>1. UNCHANGED <<senderVars, receiverVars>>
    BY <1>2 DEF vars
  <2>2. SP!IInv' /\ SP!OfferedOnce'
    BY <2>1, Types DEF senderVars, SP!IInv, SP!TypeOK, SP!OneCompletionOwed, SP!OutgoingIsAlive,
                       SP!FileIsClosed, SP!OfferIsOpen, SP!OfferedOnce
  <2>3. RP!IInv'
    BY <2>1, Types DEF receiverVars, RP!IInv, RP!TypeOK, RP!SlotIsHeldByConnection, RP!PartHoldsData,
                       RP!ConnectionsAreLive
  <2>4. FileStays /\ SlotIsOffered /\ RepliesAreDeserved
    BY <2>1, ReceiverRests DEF receiverVars
  <2> QED BY <2>1, <2>2, <2>3, <2>4, SenderRests, JoinedKeeps DEF senderVars
<1> QED BY <1>1, <1>2

\* All that holds between two steps of the two ends holds always: each end keeps its
\* own invariant, the slot belongs to what the connection offered, and an Ok that is
\* under way or was reported is true.
THEOREM JointInvariant == Spec => []IInv
<1>1. Init => IInv
  BY InitJoined
<1>2. IInv /\ [Next]_vars => IInv'
  BY StepJoined
<1> QED BY <1>1, <1>2, PTL DEF Spec

\* A send reported as done has its file in the other's directory, with the digest it
\* offered, whatever is lost, reordered between the ends, cancelled or sent by a rival.
THEOREM SuccessIsDelivery == Spec => []OkMeansDelivered
<1>1. IInv => OkMeansDelivered
  BY DEF IInv
<1> QED BY <1>1, JointInvariant, PTL

\* The two ends and the connection implement what a transfer promises: the initial
\* states map to initial states of Delivery, every step to a step of it or a stutter.
THEOREM TransferImplementsDelivery == Spec => ImplementsDelivery
<1>1. Init => Promise!Init
  BY InitJoined
<1>2. IInv /\ [Next]_vars => [Promise!Next]_(Promise!vars)
  BY StepJoined DEF Promises
<1> QED BY <1>1, <1>2, JointInvariant, PTL DEF Spec, ImplementsDelivery, Promise!Spec
=============================================================================

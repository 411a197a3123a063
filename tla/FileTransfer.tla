---------------------------- MODULE FileTransfer ----------------------------
(***************************************************************************)
(* TcpTransferClient and TcpTransferServer over TCP.  Each send of one     *)
(* TransferManager is a connection of its own to the server of another;    *)
(* `up' and `outbox' are the two directions of its stream.  A rival sends  *)
(* the server whatever it likes over one connection.  A connection may     *)
(* break at any time and each end learns of it by itself: what was under   *)
(* way to an end that has seen the break is lost.                          *)
(***************************************************************************)
EXTENDS Integers, Sequences

CONSTANTS MaxSends, FileName, Sources, Sha256(_), ChunkSize, HighWater,
          Missing, NoWorker, NoDigest,
          PartName, Blocks, Foreign, Absent, NoTransfer, MaxOutbox,
          Rival,        \* the rival's connection
          RivalFrames   \* what the rival sends

VARIABLES sends, outgoing_active, outcome, client, worker, source, up, offered,
          listening, connections, wire, outbox, active, disk

Sends == 1..MaxSends

Sender == INSTANCE TcpTransferClient WITH PeerFrames <- {}

RivalId == MaxSends + 1

Receiver == INSTANCE TcpTransferServer WITH
    Sockets <- Sends \cup {Rival},
    Names <- {FileName},
    Ids <- 1..RivalId,
    UnknownId <- 0,
    Digests <- {Sha256(c) : c \in Sources},
    Frames <- RivalFrames

\* The two ends agree on what files are made of, and what stands for nothing is
\* none of the things it stands for.
ASSUME SendAssumption == MaxSends \in Nat /\ ChunkSize \in Nat \ {0} /\ HighWater \in Nat \ {0}
ASSUME ContentAssumption ==
    /\ Sources \subseteq Seq(Blocks) /\ Missing \notin Sources
    /\ Foreign \subseteq Seq(Blocks) /\ Absent \notin Seq(Blocks)
ASSUME NameAssumption == DOMAIN PartName = {FileName} /\ PartName[FileName] # FileName
ASSUME RivalAssumption == Rival \notin Sends /\ RivalFrames \subseteq Receiver!Frame
ASSUME NothingAssumption ==
    /\ NoWorker \notin Sender!Worker
    /\ NoDigest \notin Sender!Digests
    /\ NoTransfer \notin Receiver!Transfer

senderVars == <<sends, outgoing_active, outcome, client, worker, source, up, offered>>
receiverVars == <<listening, connections, wire, outbox, active, disk>>
vars == <<senderVars, receiverVars>>

TypeOK == Sender!TypeOK /\ Receiver!TypeOK

Init == Sender!Init /\ Receiver!Init

-----------------------------------------------------------------------------
\* The connection joins the two.

Connect ==
    /\ Sender!HandleConnected
    /\ Receiver!HandleNewConnection(sends)

ConnectFails ==
    /\ Sender!HandleConnectError
    /\ UNCHANGED receiverVars

Deliver(k) ==
    /\ Sender!PeerReads(k)
    /\ Receiver!HandleReadyRead(k, Head(up[k]))

TakeReply ==
    /\ sends > 0
    /\ Receiver!PeerReads(sends)
    /\ Sender!HandleFrame(Head(outbox[sends]))

ClientSeesBreak ==
    /\ Sender!HandleLinkDown
    /\ UNCHANGED receiverVars

ServerSeesBreak(k) ==
    /\ Receiver!HandleDisconnected(k)
    /\ up' = [up EXCEPT ![k] = <<>>]
    /\ UNCHANGED <<sends, outgoing_active, outcome, client, worker, source, offered>>

-----------------------------------------------------------------------------
\* What each end does alone.

Sending ==
    /\ \/ Sender!SendFile \/ Sender!Stop \/ Sender!SourceChanges
       \/ Sender!HashFinishes \/ Sender!HandleHashResult \/ Sender!SendNextChunk
    /\ UNCHANGED receiverVars

RivalActs ==
    /\ \/ Receiver!HandleNewConnection(Rival)
       \/ \E f \in RivalFrames : Receiver!HandleReadyRead(Rival, f)
       \/ Receiver!PeerReads(Rival)
       \/ Receiver!HandleDisconnected(Rival)
    /\ UNCHANGED senderVars

Receiving ==
    /\ \/ Receiver!Listen \/ Receiver!Close \/ Receiver!Crash
       \/ \E p \in Receiver!Paths, c \in Foreign : Receiver!OtherProgramCreates(p, c)
    /\ UNCHANGED senderVars

Next ==
    \/ Connect \/ ConnectFails
    \/ \E k \in Sends : Deliver(k) \/ ServerSeesBreak(k)
    \/ TakeReply \/ ClientSeesBreak
    \/ Sending \/ RivalActs \/ Receiving

Spec == Init /\ [][Next]_vars

ClientGone(k) == k # sends \/ client.link = "down"
Flushed(k) == wire[k] = "closing" /\ outbox[k] = <<>>

(***************************************************************************)
(* The event loops of both ends, the hash worker and the network run on;   *)
(* a connection attempt ends, and an end learns that the other is gone.    *)
(* Nobody has to send, stop, listen or break a connection, and the rival   *)
(* may do nothing for ever.                                                *)
(***************************************************************************)
Fairness ==
    /\ WF_vars(Connect \/ ConnectFails)
    /\ WF_vars(TakeReply)
    /\ WF_vars(Sender!HashFinishes /\ UNCHANGED receiverVars)
    /\ WF_vars(Sender!HandleHashResult /\ UNCHANGED receiverVars)
    /\ WF_vars(Sender!SendNextChunk /\ UNCHANGED receiverVars)
    /\ WF_vars(ClientSeesBreak /\ (client.link = "up" => wire[sends] = "closed"))
    /\ \A k \in Sends :
        /\ WF_vars(Deliver(k))
        /\ WF_vars(ServerSeesBreak(k) /\ (ClientGone(k) \/ Flushed(k)))

FairSpec == Spec /\ Fairness

-----------------------------------------------------------------------------
\* Properties.

\* A send reported as done has its file in the other's directory, with the
\* digest that was offered, from then on (handle_file_result, complete_receive).
Delivered(k) == disk[FileName] # Absent /\ Sha256(disk[FileName]) = offered[k]

OkMeansDelivered == \A k \in Sends : outcome[k] = "Ok" => Delivered(k)

\* What it rests on: the receiver's transfer is the one this connection offered, and
\* the sender can take whatever it is answered; an Ok under way is true already.
OfferIsKept ==
    \A k \in Sends :
        /\ Receiver!Owns(active, k) => active.sha256 = offered[k]
        /\ \A i \in 1..Len(outbox[k]) :
              LET reply == outbox[k][i]
              IN  /\ reply \in Sender!PeerFrame
                  /\ reply.kind = "FileResult" /\ reply.code = "Ok" => Delivered(k) /\ offered[k] # NoDigest
        /\ outcome[k] = "Ok" => offered[k] # NoDigest

\* All that holds between two steps of the two ends joined.
IInv ==
    /\ Sender!IInv /\ Sender!OfferedOnce
    /\ Receiver!IInv
    /\ OfferIsKept
    /\ OkMeansDelivered

Promise == INSTANCE Delivery WITH
    file <- disk[FileName],
    Content <- Seq(Blocks),
    Digests <- {Sha256(c) : c \in Sources}

\* Both ends and the connection between them implement Delivery.
ImplementsDelivery == Promise!Spec

\* Every send ends: its completion is called, though neither end has a timeout,
\* and the receiver's slot comes free of it, whatever of the connection, the file or
\* the peer breaks (finish_outgoing; remove_connection, fail_receive).
SendsEnd ==
    \A k \in Sends :
        /\ outcome[k] = "pending" ~> outcome[k] # "pending"
        /\ Receiver!Owns(active, k) ~> ~Receiver!Owns(active, k)

=============================================================================

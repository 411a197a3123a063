---------------------- MODULE TcpTransferServer_proofs ----------------------
(***************************************************************************)
(* The receiver keeps its invariant for any number of connections, names,  *)
(* frames and block contents, and, when no offered name is the part name   *)
(* of another, lets files appear whole or not at all.                      *)
(***************************************************************************)
EXTENDS TcpTransferServer, SequenceTheorems, TLAPS

Disk == [Paths -> Content \cup {Absent}]
MaybeTransfer == Transfer \cup {NoTransfer}

LEMMA PartIsPath == ASSUME NEW n \in Names PROVE PartName[n] \in Paths /\ n \in Paths
  BY DEF Paths

\* Removing the part file of a transfer keeps the directory one.
LEMMA WithoutPartType ==
  ASSUME NEW d \in Disk, NEW a \in MaybeTransfer
  PROVE  WithoutPart(d, a) \in Disk
  BY PartIsPath DEF WithoutPart, Disk, MaybeTransfer, Transfer

\* A transfer that may be left when a handler ends: held by a live
\* connection, its data in its part file.
Sound(a, d) ==
    a # NoTransfer =>
        /\ connections[a.socket] = "ready"
        /\ d[PartName[a.name]] = a.data
        /\ Len(a.data) <= a.size

\* Dropping a connection keeps the invariant, whatever the handler did before.
LEMMA RemovalKeepsInvariant ==
  ASSUME IInv, NEW s \in Sockets, NEW a \in MaybeTransfer, NEW d \in Disk,
         Sound(a, d),
         RemoveConnection(s, a, d),
         NEW w \in WireStates, wire' = [wire EXCEPT ![s] = w],
         UNCHANGED <<listening, outbox>>
  PROVE  IInv'
<1> USE DEF IInv
<1>1. TypeOK'
  BY WithoutPartType DEF TypeOK, RemoveConnection, MaybeTransfer, Disk, ConnectionStates
<1>2. SlotIsHeldByConnection'
  BY DEF SlotIsHeldByConnection, RemoveConnection, Owns, Sound, TypeOK, ConnectionsAreLive,
         MaybeTransfer, Transfer
<1>3. PartHoldsData'
  BY DEF PartHoldsData, RemoveConnection, Owns, Sound
<1>4. ConnectionsAreLive'
  BY DEF ConnectionsAreLive, RemoveConnection, TypeOK
<1> QED BY <1>1, <1>2, <1>3, <1>4

\* So does sending a frame, when the handler left things sound.
LEMMA SendKeepsInvariant ==
  ASSUME IInv, NEW s \in Sockets, NEW reply \in Reply, connections[s] # "none",
         NEW c, c = connections \/ c = [connections EXCEPT ![s] = "ready"],
         NEW a \in MaybeTransfer, NEW d \in Disk,
         Sound(a, d),
         SendFrame(s, reply, c, a, d),
         UNCHANGED listening
  PROVE  IInv'
<1>1. CASE HandleSendFailure(s, a, d)
  BY <1>1, RemovalKeepsInvariant DEF HandleSendFailure, WireStates
<1>2. CASE /\ outbox' = [outbox EXCEPT ![s] = Append(@, reply)]
           /\ connections' = c
           /\ active' = a
           /\ disk' = d
           /\ UNCHANGED wire
  <2> USE <1>2 DEF IInv
  <2>1. TypeOK'
    <3>1. connections' \in [Sockets -> ConnectionStates]
      BY DEF TypeOK, ConnectionStates
    <3>2. outbox[s] \in Seq(Reply)
      BY DEF TypeOK
    <3>3. Append(outbox[s], reply) \in Seq(Reply)
      BY <3>2
    <3>4. outbox' \in [Sockets -> Seq(Reply)]
      BY <3>3 DEF TypeOK
    <3> QED BY <3>1, <3>4 DEF TypeOK, MaybeTransfer, Disk
  <2>2. SlotIsHeldByConnection'
    BY DEF SlotIsHeldByConnection, Sound, ConnectionsAreLive, TypeOK, MaybeTransfer, Transfer
  <2>3. PartHoldsData'
    BY DEF PartHoldsData, Sound
  <2>4. ConnectionsAreLive'
    BY DEF ConnectionsAreLive, TypeOK
  <2> QED BY <2>1, <2>2, <2>3, <2>4
<1> QED BY <1>1, <1>2 DEF SendFrame

-----------------------------------------------------------------------------
\* What the handlers send and leave.

LEMMA InvariantIsSound ==
  ASSUME IInv
  PROVE  /\ Sound(active, disk)
         /\ Sound(NoTransfer, disk)
         /\ active \in MaybeTransfer
         /\ NoTransfer \in MaybeTransfer
         /\ disk \in Disk
         /\ WithoutPart(disk, active) \in Disk
         /\ Sound(NoTransfer, WithoutPart(disk, active))
BY WithoutPartType DEF IInv, TypeOK, SlotIsHeldByConnection, PartHoldsData, Sound, MaybeTransfer, Disk

LEMMA ResultIsReply ==
  ASSUME NEW f \in Frame, NEW id \in Ids \cup {UnknownId}, NEW code \in Codes
  PROVE  /\ FileResult(f, id, code) \in Reply
         /\ [kind |-> "FileReject", rid |-> f.rid, id |-> id, code |-> code] \in Reply
BY DEF Frame, Reply, FileResult

LEMMA RejectKeepsInvariant ==
  ASSUME IInv, NEW s \in Sockets, connections[s] # "none", NEW f \in Frame,
         NEW id \in Ids \cup {UnknownId}, NEW code \in Codes, NEW d \in Disk,
         Sound(active, d), Reject(s, f, id, code, d), UNCHANGED listening
  PROVE  IInv'
BY SendKeepsInvariant, ResultIsReply, InvariantIsSound DEF Reject

LEMMA FailKeepsInvariant ==
  ASSUME IInv, NEW s \in Sockets, connections[s] # "none", NEW f \in Frame,
         active # NoTransfer, NEW code \in Codes, FailReceive(s, f, code), UNCHANGED listening
  PROVE  IInv'
<1>1. active.id \in Ids
  BY DEF IInv, TypeOK, Transfer
<1> QED BY <1>1, SendKeepsInvariant, ResultIsReply, InvariantIsSound DEF FailReceive

LEMMA RejectConnectionKeepsInvariant ==
  ASSUME IInv, NEW s \in Sockets, connections[s] # "none", NEW f \in Frame,
         NEW id \in Ids \cup {UnknownId}, RejectConnectionReceive(s, f, id), UNCHANGED listening
  PROVE  IInv'
<1>1. CASE HandleSendFailure(s, active, disk)
  BY <1>1, RemovalKeepsInvariant, InvariantIsSound DEF HandleSendFailure, WireStates
<1>2. CASE /\ outbox' = [outbox EXCEPT ![s] = Append(@, FileResult(f, id, "InvalidArgument"))]
           /\ wire' = [wire EXCEPT ![s] = "closing"]
           /\ UNCHANGED <<connections, active, disk>>
  <2>1. FileResult(f, id, "InvalidArgument") \in Reply
    BY ResultIsReply DEF Codes
  <2>2. outbox[s] \in Seq(Reply)
    BY DEF IInv, TypeOK
  <2>3. Append(outbox[s], FileResult(f, id, "InvalidArgument")) \in Seq(Reply)
    BY <2>1, <2>2
  <2>4. TypeOK'
    BY <1>2, <2>3 DEF IInv, TypeOK, WireStates
  <2>5. (SlotIsHeldByConnection /\ PartHoldsData /\ ConnectionsAreLive)'
    BY <1>2 DEF IInv, TypeOK, SlotIsHeldByConnection, PartHoldsData, ConnectionsAreLive, Transfer
  <2> QED BY <2>4, <2>5 DEF IInv
<1> QED BY <1>1, <1>2 DEF RejectConnectionReceive

LEMMA CloseKeepsInvariant ==
  ASSUME IInv, NEW s \in Sockets, CloseProtocolError(s), UNCHANGED listening
  PROVE  IInv'
BY RemovalKeepsInvariant, InvariantIsSound DEF CloseProtocolError, WireStates

LEMMA IdOfType ==
  ASSUME NEW f \in Frame, f.kind \in {"FileChunk", "BadChunk", "FileFinish", "BadFinish"}
  PROVE  IdOf(f) \in Ids \cup {UnknownId}
BY DEF IdOf, Frame

-----------------------------------------------------------------------------
\* One lemma for each frame type.

LEMMA HelloKeepsInvariant ==
  ASSUME IInv, NEW s \in Sockets, connections[s] # "none", NEW f \in Frame,
         HandleHello(s, f), UNCHANGED listening
  PROVE  IInv'
<1>1. [kind |-> "HelloAck", rid |-> f.rid] \in Reply
  BY DEF Frame, Reply
<1> QED BY <1>1, SendKeepsInvariant, InvariantIsSound, CloseKeepsInvariant DEF HandleHello

LEMMA OfferKeepsInvariant ==
  ASSUME IInv, NEW s \in Sockets, connections[s] = "ready", NEW f \in Frame,
         HandleFileOffer(s, f), UNCHANGED listening
  PROVE  IInv'
<1>1. CASE f.kind = "BadOffer" /\ Reject(s, f, UnknownId, "InvalidArgument", disk)
  BY <1>1, RejectKeepsInvariant, InvariantIsSound DEF Codes
<1>2. CASE f.kind = "FileOffer"
  <2>1. /\ f.id \in Ids /\ f.name \in Names /\ f.size \in Nat /\ f.sha256 \in Digests /\ f.rid \in Nat
    BY <1>2 DEF Frame
  <2>2. CASE active # NoTransfer /\ Reject(s, f, f.id, "Busy", disk)
    BY <2>1, <2>2, RejectKeepsInvariant, InvariantIsSound DEF Codes
  <2>3. CASE \E code \in {"PathNotFound", "IoError"} : Reject(s, f, f.id, code, disk)
    BY <2>1, <2>3, RejectKeepsInvariant, InvariantIsSound DEF Codes
  <2>4. CASE Reject(s, f, f.id, "TargetExists", disk)
    BY <2>1, <2>4, RejectKeepsInvariant, InvariantIsSound DEF Codes
  <2>5. CASE active = NoTransfer /\ Reject(s, f, f.id, "IoError", [disk EXCEPT ![PartName[f.name]] = Absent])
    <3>1. [disk EXCEPT ![PartName[f.name]] = Absent] \in Disk
      BY InvariantIsSound DEF Disk
    <3>2. Sound(active, [disk EXCEPT ![PartName[f.name]] = Absent])
      BY <2>5 DEF Sound
    <3> QED BY <2>1, <2>5, <3>1, <3>2, RejectKeepsInvariant DEF Codes
  <2>6. CASE BeginReceive(s, f)
    <3> DEFINE d == [disk EXCEPT ![PartName[f.name]] = <<>>]
    <3>1. <<>> \in Content /\ Len(<<>>) = 0
      BY DEF Content
    <3>2. NewTransfer(s, f) \in Transfer
      BY <2>1, <3>1 DEF NewTransfer, Transfer
    <3>3. d \in Disk
      BY <3>1, InvariantIsSound DEF Disk
    <3>4. d[PartName[f.name]] = <<>>
      BY <2>1, PartIsPath, InvariantIsSound DEF Disk
    <3>5. Sound(NewTransfer(s, f), d)
      BY <2>1, <3>1, <3>4 DEF Sound, NewTransfer
    <3>6. [kind |-> "FileAccept", rid |-> f.rid, id |-> f.id] \in Reply
      BY <2>1 DEF Reply
    <3>7. SendFrame(s, [kind |-> "FileAccept", rid |-> f.rid, id |-> f.id],
                    connections, NewTransfer(s, f), d)
      BY <2>6 DEF BeginReceive
    <3> HIDE DEF d
    <3> QED BY <3>2, <3>3, <3>5, <3>6, <3>7, SendKeepsInvariant DEF MaybeTransfer
  <2> QED BY <1>2, <2>2, <2>3, <2>4, <2>5, <2>6 DEF HandleFileOffer, RefuseOffer
<1> QED BY <1>1, <1>2 DEF HandleFileOffer

LEMMA StillFits ==
  ASSUME NEW n \in Nat, NEW m \in Nat, NEW size \in Nat, m <= size - n, NEW total, total = n + m
  PROVE  total <= size
OBVIOUS

LEMMA ChunkKeepsInvariant ==
  ASSUME IInv, NEW s \in Sockets, connections[s] = "ready", NEW f \in Frame,
         f.kind \in {"FileChunk", "BadChunk"}, HandleFileChunk(s, f), UNCHANGED listening
  PROVE  IInv'
<1>1. CASE RejectConnectionReceive(s, f, IdOf(f))
  BY <1>1, IdOfType, RejectConnectionKeepsInvariant
<1>2. CASE Owns(active, s) /\ FailReceive(s, f, "InvalidArgument")
  BY <1>2, FailKeepsInvariant DEF Codes, Owns
<1>3. CASE Owns(active, s) /\ FailReceive(s, f, "IoError")
  BY <1>3, FailKeepsInvariant DEF Codes, Owns
<1>4. CASE /\ Owns(active, s)
           /\ ChunkFits(f)
           /\ active' = [active EXCEPT !.data = @ \o f.data]
           /\ disk' = [disk EXCEPT ![PartName[active.name]] = @ \o f.data]
           /\ UNCHANGED <<connections, wire, outbox>>
  <2>1. active \in Transfer /\ active # NoTransfer
    BY <1>4 DEF IInv, TypeOK, Owns
  <2>2. f.data \in Content
    BY <1>4 DEF ChunkFits, Frame
  <2>3. /\ active.data \in Content
        /\ active.name \in Names
        /\ active.size \in Nat
    BY <2>1 DEF Transfer
  <2>4. /\ active.data \o f.data \in Content
        /\ Len(active.data \o f.data) = Len(active.data) + Len(f.data)
    BY <2>2, <2>3 DEF Content
  <2>5. Len(active.data \o f.data) <= active.size
    <3>1. Len(active.data) \in Nat /\ Len(f.data) \in Nat
      BY <2>2, <2>3 DEF Content
    <3>2. Len(f.data) <= active.size - Len(active.data)
      BY <1>4 DEF ChunkFits
    <3> QED BY <2>3, <2>4, <3>1, <3>2, StillFits, Zenon
  <2>6. disk[PartName[active.name]] = active.data
    BY <2>1 DEF IInv, PartHoldsData
  <2>7. disk' = [disk EXCEPT ![PartName[active.name]] = active.data \o f.data]
    BY <1>4, <2>6
  <2>8. active' \in Transfer /\ active'.name = active.name /\ active'.size = active.size
        /\ active'.socket = active.socket /\ active'.data = active.data \o f.data
    BY <1>4, <2>1, <2>4 DEF Transfer
  <2>9. disk' \in Disk /\ disk'[PartName[active.name]] = active.data \o f.data
    BY <2>3, <2>4, <2>7, PartIsPath, InvariantIsSound DEF Disk
  <2>10. TypeOK'
    BY <1>4, <2>8, <2>9 DEF IInv, TypeOK, Disk
  <2>11. PartHoldsData'
    BY <2>5, <2>8, <2>9 DEF PartHoldsData
  <2>12. SlotIsHeldByConnection'
    BY <1>4, <2>1, <2>8 DEF IInv, SlotIsHeldByConnection
  <2>13. ConnectionsAreLive'
    BY <1>4 DEF IInv, ConnectionsAreLive
  <2> QED BY <2>10, <2>11, <2>12, <2>13 DEF IInv
<1> QED BY <1>1, <1>2, <1>3, <1>4 DEF HandleFileChunk

LEMMA FinishKeepsInvariant ==
  ASSUME IInv, NEW s \in Sockets, connections[s] = "ready", NEW f \in Frame,
         f.kind \in {"FileFinish", "BadFinish"}, HandleFileFinish(s, f), UNCHANGED listening
  PROVE  IInv'
<1>1. CASE RejectConnectionReceive(s, f, IdOf(f))
  BY <1>1, IdOfType, RejectConnectionKeepsInvariant
<1>2. CASE Owns(active, s) /\ \E code \in Codes : FailReceive(s, f, code)
  BY <1>2, FailKeepsInvariant DEF Owns
<1>3. CASE /\ Owns(active, s)
           /\ SendFrame(s, FileResult(f, active.id, "Ok"), connections, NoTransfer, Renamed(disk, active))
  <2>1. active \in Transfer
    BY <1>3 DEF IInv, TypeOK, Owns
  <2>2. active.id \in Ids /\ active.name \in Names
    BY <2>1 DEF Transfer
  <2>3. disk[PartName[active.name]] \in Content \cup {Absent}
    BY <2>2, PartIsPath DEF IInv, TypeOK
  <2>4. Renamed(disk, active) \in Disk
    BY <2>2, <2>3, PartIsPath DEF Renamed, Disk, IInv, TypeOK
  <2>5. Sound(NoTransfer, Renamed(disk, active))
    BY DEF Sound
  <2>6. FileResult(f, active.id, "Ok") \in Reply
    BY <2>2, ResultIsReply DEF Codes
  <2> QED BY <1>3, <2>4, <2>5, <2>6, SendKeepsInvariant DEF MaybeTransfer
<1>4. /\ "InvalidArgument" \in Codes
      /\ "IoError" \in Codes
      /\ "HashMismatch" \in Codes
  BY DEF Codes
<1> QED BY <1>1, <1>2, <1>3, <1>4 DEF HandleFileFinish, CompleteReceive

LEMMA DispatchKeepsInvariant ==
  ASSUME IInv, NEW s \in Sockets, connections[s] # "none", NEW f \in Frame,
         DispatchFrame(s, f), UNCHANGED listening
  PROVE  IInv'
BY HelloKeepsInvariant, CloseKeepsInvariant, OfferKeepsInvariant, ChunkKeepsInvariant,
   FinishKeepsInvariant DEF DispatchFrame

-----------------------------------------------------------------------------
\* The invariant.

LEMMA InitInvariant == Init => IInv
<1>1. Absent \in Content \cup {Absent} /\ <<>> \in Seq(Reply)
  OBVIOUS
<1> QED BY <1>1 DEF Init, IInv, TypeOK, SlotIsHeldByConnection, PartHoldsData, ConnectionsAreLive,
           ConnectionStates, WireStates

\* Close and Crash leave no connection behind.
LEMMA NoneIsLeft ==
  ASSUME IInv, connections' = [s \in Sockets |-> "none"], wire' = Disconnected,
         active' = NoTransfer, disk' \in Disk, listening' = FALSE, UNCHANGED outbox
  PROVE  IInv'
BY DEF IInv, TypeOK, Disconnected, Disk, ConnectionStates, WireStates,
       SlotIsHeldByConnection, PartHoldsData, ConnectionsAreLive

LEMMA NextInvariant == IInv /\ [Next]_vars => IInv'
<1> SUFFICES ASSUME IInv, [Next]_vars PROVE IInv'
  OBVIOUS
<1>1. ASSUME NEW s \in Sockets, HandleNewConnection(s) PROVE IInv'
  BY <1>1 DEF HandleNewConnection, IInv, TypeOK, SlotIsHeldByConnection, PartHoldsData,
              ConnectionsAreLive, ConnectionStates, WireStates, Transfer
<1>2. ASSUME NEW s \in Sockets, NEW f \in Frames, HandleReadyRead(s, f) PROVE IInv'
  BY <1>2, FramesAssumption, DispatchKeepsInvariant DEF HandleReadyRead
<1>3. ASSUME NEW s \in Sockets, HandleDisconnected(s) PROVE IInv'
  BY <1>3, RemovalKeepsInvariant, InvariantIsSound DEF HandleDisconnected, WireStates
<1>4. ASSUME NEW s \in Sockets, PeerReads(s) PROVE IInv'
  <2>1. outbox[s] \in Seq(Reply) /\ outbox[s] # <<>>
    BY <1>4 DEF PeerReads, IInv, TypeOK
  <2>2. Tail(outbox[s]) \in Seq(Reply)
    BY <2>1
  <2> QED BY <1>4, <2>2 DEF PeerReads, IInv, TypeOK, SlotIsHeldByConnection, PartHoldsData,
                            ConnectionsAreLive
<1>5. ASSUME Listen PROVE IInv'
  BY <1>5 DEF Listen, IInv, TypeOK, SlotIsHeldByConnection, PartHoldsData, ConnectionsAreLive
<1>6. ASSUME Close PROVE IInv'
  BY <1>6, NoneIsLeft, InvariantIsSound DEF Close
<1>7. ASSUME Crash PROVE IInv'
  BY <1>7, NoneIsLeft, InvariantIsSound DEF Crash
<1>8. ASSUME NEW p \in Paths, NEW c \in Foreign, OtherProgramCreates(p, c) PROVE IInv'
  <2>1. TypeOK'
    BY <1>8, ContentAssumption DEF OtherProgramCreates, IInv, TypeOK
  <2>2. PartHoldsData'
    <3>1. active # NoTransfer => active.data # Absent /\ PartName[active.name] \in Paths
      BY ContentAssumption, PartIsPath DEF IInv, TypeOK, Transfer
    <3> QED BY <1>8, <3>1 DEF OtherProgramCreates, IInv, TypeOK, PartHoldsData
  <2> QED BY <1>8, <2>1, <2>2 DEF OtherProgramCreates, IInv, SlotIsHeldByConnection, ConnectionsAreLive
<1>9. CASE UNCHANGED vars
  BY <1>9 DEF vars, IInv, TypeOK, SlotIsHeldByConnection, PartHoldsData, ConnectionsAreLive
<1> QED BY <1>1, <1>2, <1>3, <1>4, <1>5, <1>6, <1>7, <1>8, <1>9 DEF Next

\* What the handlers may rely on between two callbacks always holds.
THEOREM ReceiverInvariant == Spec => []IInv
BY InitInvariant, NextInvariant, PTL DEF Spec

\* Every variable keeps its type.
THEOREM ReceiverTypeCorrect == Spec => []TypeOK
<1>1. IInv => TypeOK
  BY DEF IInv
<1> QED BY <1>1, ReceiverInvariant, PTL

\* The receive slot is never held for a connection that is gone.
THEOREM SlotIsNeverLeaked == Spec => []SlotIsHeldByConnection
<1>1. IInv => SlotIsHeldByConnection
  BY DEF IInv
<1> QED BY <1>1, ReceiverInvariant, PTL

-----------------------------------------------------------------------------
\* What one callback may do to the directory, the slot and the peers.

Whole(n, content) ==
    /\ disk[n] = Absent
    /\ active # NoTransfer
    /\ active.name = n
    /\ Len(content) = active.size
    /\ Sha256(content) = active.sha256

IsSuccess(reply) == reply.kind = "FileResult" /\ reply.code = "Ok"

Stored(reply, s, d) ==
    /\ Owns(active, s)
    /\ reply.id = active.id
    /\ d[active.name] # Absent
    /\ Sha256(d[active.name]) = active.sha256

LastOf(q) == q[Len(q)]

Outcome(s) ==
    /\ \A n \in Names : disk'[n] # disk[n] => Whole(n, disk'[n])
    /\ active # NoTransfer /\ active' = NoTransfer => disk'[PartName[active.name]] = Absent
    /\ active # NoTransfer /\ s # active.socket => active' = active /\ disk' = disk
    /\ \A t \in Sockets \ {s} : outbox'[t] = outbox[t] /\ wire'[t] = wire[t]
    /\ Len(outbox'[s]) > Len(outbox[s]) /\ IsSuccess(LastOf(outbox'[s]))
         => Stored(LastOf(outbox'[s]), s, disk')

\* The premises on a handler that ends by sending reply, having left the
\* transfer a and the directory d.
Leaves(s, reply, a, d) ==
    /\ \A n \in Names : d[n] # disk[n] => Whole(n, d[n])
    /\ active # NoTransfer =>
          \/ a = active
          \/ a = NoTransfer /\ d[PartName[active.name]] = Absent
    /\ active # NoTransfer /\ s # active.socket => a = active /\ d = disk
    /\ IsSuccess(reply) => Stored(reply, s, d)

LEMMA RemovalOutcome ==
  ASSUME PartNamesApart, IInv, NEW s \in Sockets, NEW a \in MaybeTransfer, NEW d \in Disk,
         NEW reply, Leaves(s, reply, a, d), RemoveConnection(s, a, d), UNCHANGED outbox,
         NEW w, wire' = [wire EXCEPT ![s] = w]
  PROVE  Outcome(s)
<1>1. \A n \in Names : WithoutPart(d, a)[n] = d[n]
  BY DEF WithoutPart, PartNamesApart, MaybeTransfer, Transfer, Disk, Paths
<1>2. \A n \in Names : disk'[n] = d[n]
  BY <1>1 DEF RemoveConnection
<1>3. \A n \in Names : disk'[n] # disk[n] => Whole(n, disk'[n])
  BY <1>2 DEF Leaves
<1>4. ASSUME active # NoTransfer, active' = NoTransfer PROVE disk'[PartName[active.name]] = Absent
  <2>1. active.name \in Names /\ PartName[active.name] \in Paths
    BY <1>4, PartIsPath DEF IInv, TypeOK, Transfer
  <2>2. CASE a = active
    <3>1. Owns(a, s)
      BY <1>4, <2>2 DEF RemoveConnection
    <3>2. disk' = [d EXCEPT ![PartName[active.name]] = Absent]
      BY <3>1, <1>4, <2>2 DEF RemoveConnection, WithoutPart
    <3> QED BY <2>1, <3>2 DEF Disk
  <2>3. CASE a = NoTransfer /\ d[PartName[active.name]] = Absent
    BY <2>3 DEF RemoveConnection, Owns
  <2> QED BY <1>4, <2>2, <2>3 DEF Leaves
<1>5. active # NoTransfer /\ s # active.socket => active' = active /\ disk' = disk
  BY DEF Leaves, RemoveConnection, Owns
<1>6. \A t \in Sockets \ {s} : outbox'[t] = outbox[t] /\ wire'[t] = wire[t]
  BY DEF IInv, TypeOK
<1>7. ~(Len(outbox'[s]) > Len(outbox[s]))
  <2>1. Len(outbox[s]) \in Nat
    BY DEF IInv, TypeOK
  <2> QED BY <2>1
<1> QED BY <1>3, <1>4, <1>5, <1>6, <1>7 DEF Outcome

LEMMA AppendLast ==
  ASSUME NEW q \in Seq(Reply), NEW reply \in Reply
  PROVE  LastOf(Append(q, reply)) = reply
BY DEF LastOf

LEMMA SendOutcome ==
  ASSUME PartNamesApart, IInv, NEW s \in Sockets, NEW reply \in Reply, NEW c,
         NEW a \in MaybeTransfer, NEW d \in Disk,
         Leaves(s, reply, a, d), SendFrame(s, reply, c, a, d)
  PROVE  Outcome(s)
<1>1. CASE HandleSendFailure(s, a, d)
  BY <1>1, RemovalOutcome DEF HandleSendFailure
<1>2. CASE /\ outbox' = [outbox EXCEPT ![s] = Append(@, reply)]
           /\ connections' = c
           /\ active' = a
           /\ disk' = d
           /\ UNCHANGED wire
  <2>1. outbox'[s] = Append(outbox[s], reply) /\ outbox[s] \in Seq(Reply)
    BY <1>2 DEF IInv, TypeOK
  <2>2. LastOf(outbox'[s]) = reply
    BY <2>1, AppendLast
  <2>3. \A t \in Sockets \ {s} : outbox'[t] = outbox[t] /\ wire'[t] = wire[t]
    BY <1>2 DEF IInv, TypeOK
  <2> QED BY <1>2, <2>2, <2>3, Zenon DEF Outcome, Leaves
<1> QED BY <1>1, <1>2 DEF SendFrame

\* Leaving things as they are and sending anything but a success.
LEMMA NothingLeft ==
  ASSUME NEW s, NEW reply, ~IsSuccess(reply)
  PROVE  Leaves(s, reply, active, disk)
BY DEF Leaves

\* cleanup_active_transfer(true) by the owner.
LEMMA CleanupLeaves ==
  ASSUME PartNamesApart, IInv, NEW s \in Sockets, Owns(active, s), NEW reply, ~IsSuccess(reply)
  PROVE  Leaves(s, reply, NoTransfer, WithoutPart(disk, active))
<1>1. active.name \in Names /\ PartName[active.name] \in Paths /\ active # NoTransfer
  BY PartIsPath DEF Owns, IInv, TypeOK, Transfer
<1>2. WithoutPart(disk, active) = [disk EXCEPT ![PartName[active.name]] = Absent]
  BY <1>1 DEF WithoutPart
<1>3. WithoutPart(disk, active)[PartName[active.name]] = Absent
  BY <1>1, <1>2 DEF IInv, TypeOK
<1>4. \A n \in Names : WithoutPart(disk, active)[n] = disk[n]
  BY <1>1, <1>2 DEF IInv, TypeOK, PartNamesApart, Paths
<1> QED BY <1>1, <1>3, <1>4 DEF Leaves, Owns

LEMMA FailOutcome ==
  ASSUME PartNamesApart, IInv, NEW s \in Sockets, NEW f \in Frame, Owns(active, s),
         NEW code \in Codes, code # "Ok", FailReceive(s, f, code)
  PROVE  Outcome(s)
<1>1. active.id \in Ids
  BY DEF Owns, IInv, TypeOK, Transfer
<1>2. FileResult(f, active.id, code) \in Reply /\ ~IsSuccess(FileResult(f, active.id, code))
  BY <1>1, ResultIsReply DEF FileResult, IsSuccess
<1> QED BY <1>2, CleanupLeaves, SendOutcome, InvariantIsSound DEF FailReceive

LEMMA RejectConnectionOutcome ==
  ASSUME PartNamesApart, IInv, NEW s \in Sockets, NEW f \in Frame,
         NEW id \in Ids \cup {UnknownId}, RejectConnectionReceive(s, f, id)
  PROVE  Outcome(s)
<1> DEFINE reply == FileResult(f, id, "InvalidArgument")
<1>1. reply \in Reply /\ ~IsSuccess(reply)
  BY ResultIsReply DEF Codes, FileResult, IsSuccess
<1>2. Leaves(s, reply, active, disk)
  BY <1>1, NothingLeft
<1>3. CASE HandleSendFailure(s, active, disk)
  BY <1>2, <1>3, RemovalOutcome, InvariantIsSound DEF HandleSendFailure
<1>4. CASE /\ outbox' = [outbox EXCEPT ![s] = Append(@, reply)]
           /\ wire' = [wire EXCEPT ![s] = "closing"]
           /\ UNCHANGED <<connections, active, disk>>
  <2> HIDE DEF reply
  <2>1. outbox'[s] = Append(outbox[s], reply) /\ outbox[s] \in Seq(Reply)
    BY <1>4 DEF IInv, TypeOK
  <2>2. LastOf(outbox'[s]) = reply
    BY <1>1, <2>1, AppendLast
  <2>3. \A t \in Sockets \ {s} : outbox'[t] = outbox[t] /\ wire'[t] = wire[t]
    BY <1>4 DEF IInv, TypeOK
  <2> QED BY <1>1, <1>4, <2>2, <2>3, Zenon DEF Outcome
<1> QED BY <1>3, <1>4 DEF RejectConnectionReceive

LEMMA HelloOutcome ==
  ASSUME PartNamesApart, IInv, NEW s \in Sockets, NEW f \in Frame, HandleHello(s, f)
  PROVE  Outcome(s)
<1> DEFINE reply == [kind |-> "HelloAck", rid |-> f.rid]
<1>1. reply \in Reply /\ ~IsSuccess(reply)
  BY DEF Frame, Reply, IsSuccess
<1>2. Leaves(s, reply, active, disk)
  BY <1>1, NothingLeft
<1>3. CASE SendFrame(s, reply, [connections EXCEPT ![s] = "ready"], active, disk)
  <2> HIDE DEF reply
  <2> QED BY <1>1, <1>2, <1>3, SendOutcome, InvariantIsSound
<1>4. CASE CloseProtocolError(s)
  BY <1>2, <1>4, RemovalOutcome, InvariantIsSound DEF CloseProtocolError
<1> QED BY <1>3, <1>4 DEF HandleHello

LEMMA CloseOutcome ==
  ASSUME PartNamesApart, IInv, NEW s \in Sockets, CloseProtocolError(s)
  PROVE  Outcome(s)
<1>1. Leaves(s, [kind |-> "HelloAck"], active, disk)
  BY NothingLeft DEF IsSuccess
<1> QED BY <1>1, RemovalOutcome, InvariantIsSound DEF CloseProtocolError

LEMMA RejectOutcome ==
  ASSUME PartNamesApart, IInv, NEW s \in Sockets, NEW f \in Frame,
         NEW id \in Ids \cup {UnknownId}, NEW code \in Codes, NEW d \in Disk,
         d = disk \/ (active = NoTransfer /\ \A n \in Names : d[n] = disk[n]),
         Reject(s, f, id, code, d)
  PROVE  Outcome(s)
<1> DEFINE reply == [kind |-> "FileReject", rid |-> f.rid, id |-> id, code |-> code]
<1>1. reply \in Reply /\ ~IsSuccess(reply)
  BY ResultIsReply DEF IsSuccess
<1>2. Leaves(s, reply, active, d)
  BY <1>1 DEF Leaves
<1>3. SendFrame(s, reply, connections, active, d)
  BY DEF Reject
<1> HIDE DEF reply
<1> QED BY <1>1, <1>2, <1>3, SendOutcome, InvariantIsSound

LEMMA OfferOutcome ==
  ASSUME PartNamesApart, IInv, NEW s \in Sockets, NEW f \in Frame, HandleFileOffer(s, f)
  PROVE  Outcome(s)
<1>1. CASE f.kind = "BadOffer" /\ Reject(s, f, UnknownId, "InvalidArgument", disk)
  BY <1>1, RejectOutcome, InvariantIsSound DEF Codes
<1>2. CASE f.kind = "FileOffer"
  <2>1. /\ f.id \in Ids /\ f.name \in Names /\ f.size \in Nat /\ f.sha256 \in Digests /\ f.rid \in Nat
    BY <1>2 DEF Frame
  <2>2. CASE \E code \in Codes : Reject(s, f, f.id, code, disk)
    BY <2>1, <2>2, RejectOutcome, InvariantIsSound
  <2>3. ASSUME active = NoTransfer, NEW v \in Content \cup {Absent}
        PROVE  /\ [disk EXCEPT ![PartName[f.name]] = v] \in Disk
               /\ \A n \in Names : [disk EXCEPT ![PartName[f.name]] = v][n] = disk[n]
    BY <2>1, InvariantIsSound DEF Disk, PartNamesApart, Paths
  <2>4. CASE active = NoTransfer /\ Reject(s, f, f.id, "IoError", [disk EXCEPT ![PartName[f.name]] = Absent])
    BY <2>1, <2>3, <2>4, RejectOutcome DEF Codes
  <2>5. CASE BeginReceive(s, f)
    <3> DEFINE d == [disk EXCEPT ![PartName[f.name]] = <<>>]
               reply == [kind |-> "FileAccept", rid |-> f.rid, id |-> f.id]
    <3>1. <<>> \in Content
      BY DEF Content
    <3>2. NewTransfer(s, f) \in MaybeTransfer
      BY <2>1, <3>1 DEF NewTransfer, Transfer, MaybeTransfer
    <3>3. d \in Disk /\ \A n \in Names : d[n] = disk[n]
      BY <2>3, <2>5, <3>1 DEF BeginReceive
    <3>4. reply \in Reply /\ ~IsSuccess(reply)
      BY <2>1 DEF Reply, IsSuccess
    <3>5. SendFrame(s, reply, connections, NewTransfer(s, f), d) /\ active = NoTransfer
      BY <2>5 DEF BeginReceive
    <3> HIDE DEF d, reply
    <3>6. Leaves(s, reply, NewTransfer(s, f), d)
      BY <3>3, <3>4, <3>5 DEF Leaves
    <3> QED BY <3>2, <3>3, <3>4, <3>5, <3>6, SendOutcome
  <2> QED BY <1>2, <2>2, <2>4, <2>5 DEF HandleFileOffer, RefuseOffer, Codes
<1> QED BY <1>1, <1>2 DEF HandleFileOffer

LEMMA ChunkOutcome ==
  ASSUME PartNamesApart, IInv, NEW s \in Sockets, NEW f \in Frame,
         f.kind \in {"FileChunk", "BadChunk"}, HandleFileChunk(s, f)
  PROVE  Outcome(s)
<1>1. CASE RejectConnectionReceive(s, f, IdOf(f))
  BY <1>1, IdOfType, RejectConnectionOutcome
<1>2. CASE Owns(active, s) /\ \E code \in Codes \ {"Ok"} : FailReceive(s, f, code)
  BY <1>2, FailOutcome
<1>3. CASE /\ Owns(active, s)
           /\ ChunkFits(f)
           /\ active' = [active EXCEPT !.data = @ \o f.data]
           /\ disk' = [disk EXCEPT ![PartName[active.name]] = @ \o f.data]
           /\ UNCHANGED <<connections, wire, outbox>>
  <2>1. active \in Transfer /\ active.name \in Names /\ active # NoTransfer
    BY <1>3 DEF IInv, TypeOK, Owns, Transfer
  <2>2. f.data \in Content /\ active.data \in Content
    BY <1>3, <2>1 DEF ChunkFits, Frame, Transfer
  <2>4. active.data \o f.data \in Content
    BY <2>2 DEF Content
  <2>5. active' # NoTransfer
    BY <1>3, <2>1, <2>4, TransferAssumption DEF Transfer
  <2>3. \A n \in Names : disk'[n] = disk[n]
    BY <1>3, <2>1 DEF IInv, TypeOK, PartNamesApart, Paths
  <2>6. \A t \in Sockets : outbox'[t] = outbox[t] /\ wire'[t] = wire[t] /\ Len(outbox[t]) \in Nat
    BY <1>3 DEF IInv, TypeOK
  <2>7. ~(Len(outbox'[s]) > Len(outbox[s]))
    BY <2>6
  <2>8. s = active.socket
    BY <1>3 DEF Owns
  <2> QED BY <2>3, <2>5, <2>6, <2>7, <2>8, Zenon DEF Outcome
<1>4. {"InvalidArgument", "IoError"} \subseteq Codes \ {"Ok"}
  BY DEF Codes
<1> QED BY <1>1, <1>2, <1>3, <1>4 DEF HandleFileChunk

LEMMA FinishOutcome ==
  ASSUME PartNamesApart, IInv, NEW s \in Sockets, NEW f \in Frame,
         f.kind \in {"FileFinish", "BadFinish"}, HandleFileFinish(s, f)
  PROVE  Outcome(s)
<1>1. CASE RejectConnectionReceive(s, f, IdOf(f))
  BY <1>1, IdOfType, RejectConnectionOutcome
<1>2. CASE Owns(active, s) /\ \E code \in Codes \ {"Ok"} : FailReceive(s, f, code)
  BY <1>2, FailOutcome
<1>3. CASE /\ Owns(active, s)
           /\ Len(active.data) = active.size
           /\ Sha256(active.data) = active.sha256
           /\ disk[active.name] = Absent
           /\ SendFrame(s, FileResult(f, active.id, "Ok"), connections, NoTransfer, Renamed(disk, active))
  <2> DEFINE reply == FileResult(f, active.id, "Ok")
             d == Renamed(disk, active)
  <2>1. active \in Transfer /\ active.id \in Ids /\ active.name \in Names /\ active # NoTransfer
    BY <1>3 DEF IInv, TypeOK, Owns, Transfer
  <2>2. /\ PartName[active.name] \in Paths /\ active.name \in Paths
        /\ PartName[active.name] # active.name
    BY <2>1, PartIsPath DEF PartNamesApart
  <2>3. disk[PartName[active.name]] = active.data /\ active.data \in Content
    BY <2>1 DEF IInv, PartHoldsData, Transfer
  <2>4. d = [[disk EXCEPT ![PartName[active.name]] = Absent] EXCEPT ![active.name] = active.data]
    BY <2>3 DEF Renamed
  <2>5. d \in Disk /\ d[PartName[active.name]] = Absent /\ d[active.name] = active.data
    BY <2>2, <2>3, <2>4 DEF IInv, TypeOK, Disk
  <2>6. \A n \in Names : d[n] # disk[n] => n = active.name
    BY <2>1, <2>2, <2>4 DEF IInv, TypeOK, PartNamesApart, Paths
  <2>7. reply \in Reply /\ reply.id = active.id
    BY <2>1, ResultIsReply DEF Codes, FileResult
  <2>8. active.data # Absent
    BY <2>3, ContentAssumption
  <2>9. SendFrame(s, reply, connections, NoTransfer, d)
    BY <1>3
  <2> HIDE DEF reply, d
  <2>10. \A n \in Names : d[n] # disk[n] => Whole(n, d[n])
    BY <1>3, <2>1, <2>5, <2>6 DEF Whole
  <2>11. Stored(reply, s, d)
    BY <1>3, <2>5, <2>7, <2>8 DEF Stored
  <2>12. s = active.socket
    BY <1>3 DEF Owns
  <2>13. Leaves(s, reply, NoTransfer, d)
    BY <2>5, <2>10, <2>11, <2>12 DEF Leaves
  <2> QED BY <2>5, <2>7, <2>9, <2>13, SendOutcome DEF MaybeTransfer
<1>4. {"InvalidArgument", "IoError", "HashMismatch"} \subseteq Codes \ {"Ok"}
  BY DEF Codes
<1> QED BY <1>1, <1>2, <1>3, <1>4 DEF HandleFileFinish, CompleteReceive

LEMMA DispatchOutcome ==
  ASSUME PartNamesApart, IInv, NEW s \in Sockets, NEW f \in Frame, DispatchFrame(s, f)
  PROVE  Outcome(s)
BY HelloOutcome, CloseOutcome, OfferOutcome, ChunkOutcome, FinishOutcome DEF DispatchFrame

LEMMA DisconnectOutcome ==
  ASSUME PartNamesApart, IInv, NEW s \in Sockets, HandleDisconnected(s)
  PROVE  Outcome(s)
<1>1. Leaves(s, [kind |-> "HelloAck"], active, disk)
  BY NothingLeft DEF IsSuccess
<1> QED BY <1>1, RemovalOutcome, InvariantIsSound DEF HandleDisconnected

-----------------------------------------------------------------------------
\* The steps that are not the work of one connection.

Elsewhere ==
    \/ \E s \in Sockets : HandleNewConnection(s) \/ PeerReads(s)
    \/ Listen \/ Close \/ Crash
    \/ \E p \in Paths, c \in Foreign : OtherProgramCreates(p, c)
    \/ UNCHANGED vars

LEMMA StepCases ==
  ASSUME PartNamesApart, IInv, [Next]_vars
  PROVE  (\E s \in Sockets : Outcome(s)) \/ Elsewhere
<1>1. ASSUME NEW s \in Sockets, NEW f \in Frames, HandleReadyRead(s, f) PROVE Outcome(s)
  BY <1>1, FramesAssumption, DispatchOutcome DEF HandleReadyRead
<1>2. ASSUME NEW s \in Sockets, HandleDisconnected(s) PROVE Outcome(s)
  BY <1>2, DisconnectOutcome
<1> QED BY <1>1, <1>2 DEF Next, Elsewhere

LEMMA OutboxType == ASSUME IInv, NEW s \in Sockets PROVE outbox[s] \in Seq(Reply) /\ Len(outbox[s]) \in Nat
<1>1. outbox[s] \in Seq(Reply)
  BY DEF IInv, TypeOK
<1> QED BY <1>1

LEMMA CloseKeepsNames ==
  ASSUME PartNamesApart, IInv, NEW n \in Names
  PROVE  WithoutPart(disk, active)[n] = disk[n]
BY InvariantIsSound DEF WithoutPart, PartNamesApart, MaybeTransfer, Transfer, Disk, Paths

\* Files appear whole, as offered, or not at all, when no offered name is
\* the part name of another.
THEOREM FilesArriveWhole == ASSUME PartNamesApart PROVE Spec => FilesAppearWhole
<1> DEFINE Appears ==
      \A n \in Names : disk'[n] # disk[n] =>
        UNCHANGED <<connections, wire, outbox, active>> \/ Whole(n, disk'[n])
<1>1. IInv /\ [Next]_vars => Appears
  <2> SUFFICES ASSUME IInv, [Next]_vars PROVE Appears
    OBVIOUS
  <2>1. ASSUME NEW s \in Sockets, Outcome(s) PROVE Appears
    BY <2>1 DEF Outcome
  <2>2. CASE Elsewhere
    BY <2>2, CloseKeepsNames DEF Elsewhere, HandleNewConnection, PeerReads, Listen, Close, Crash,
                                 OtherProgramCreates, vars
  <2> QED BY <2>1, <2>2, StepCases
<1>2. IInv /\ [Next]_vars => [\A n \in Names : disk'[n] # disk[n] =>
        \/ UNCHANGED <<connections, wire, outbox, active>>
        \/ /\ disk[n] = Absent
           /\ active # NoTransfer
           /\ active.name = n
           /\ Len(disk'[n]) = active.size
           /\ Sha256(disk'[n]) = active.sha256]_vars
  BY <1>1 DEF Whole
<1> QED BY <1>2, ReceiverInvariant, PTL DEF Spec, FilesAppearWhole

\* No part file outlives its transfer, unless the process dies.
THEOREM PartsAreRemoved == ASSUME PartNamesApart PROVE Spec => PartLeavesWithTransfer
<1>1. IInv /\ [Next]_vars => [active # NoTransfer /\ active' = NoTransfer =>
        Crash \/ disk'[PartName[active.name]] = Absent]_vars
  <2> SUFFICES ASSUME IInv, [Next]_vars, active # NoTransfer, active' = NoTransfer, ~Crash
               PROVE  disk'[PartName[active.name]] = Absent
    OBVIOUS
  <2>1. PartName[active.name] \in Paths
    BY PartIsPath DEF IInv, TypeOK, Transfer
  <2>2. ASSUME NEW s \in Sockets, Outcome(s) PROVE disk'[PartName[active.name]] = Absent
    BY <2>2 DEF Outcome
  <2>3. CASE Elsewhere
    <3>1. Close
      BY <2>3 DEF Elsewhere, HandleNewConnection, PeerReads, Listen, OtherProgramCreates, vars
    <3> QED BY <2>1, <3>1 DEF Close, WithoutPart, IInv, TypeOK
  <2> QED BY <2>2, <2>3, StepCases
<1> QED BY <1>1, ReceiverInvariant, PTL DEF Spec, PartLeavesWithTransfer

\* What a handler of a socket that does not own the slot leaves, whatever it sends.
LEMMA StrangerLeaves ==
  ASSUME NEW s \in Sockets, ~Owns(active, s)
  PROVE  /\ RemoveConnection(s, active, disk) => active' = active /\ disk' = disk
         /\ \A reply, c : SendFrame(s, reply, c, active, disk) => active' = active /\ disk' = disk
         /\ CloseProtocolError(s) => active' = active /\ disk' = disk
         /\ \A f, id : RejectConnectionReceive(s, f, id) => active' = active /\ disk' = disk
BY DEF RemoveConnection, SendFrame, HandleSendFailure, CloseProtocolError, RejectConnectionReceive

\* Other connections cannot disturb the transfer under way: one case for each
\* callback of a socket that does not own it.
THEOREM OtherSocketsAreHarmless == Spec => OtherSocketsDoNotInterfere
<1>1. [\A s \in Sockets :
        active # NoTransfer /\ s # active.socket /\ CallbackOf(s)
        => active' = active /\ disk' = disk]_vars
  <2> SUFFICES ASSUME NEW s \in Sockets, active # NoTransfer, s # active.socket, CallbackOf(s)
               PROVE  active' = active /\ disk' = disk
    OBVIOUS
  <2>1. ~Owns(active, s)
    BY DEF Owns
  <2>2. CASE HandleNewConnection(s)
    BY <2>2 DEF HandleNewConnection
  <2>3. CASE HandleDisconnected(s)
    BY <2>1, <2>3, StrangerLeaves DEF HandleDisconnected
  <2>4. ASSUME NEW f \in Frames, HandleReadyRead(s, f) PROVE active' = active /\ disk' = disk
    <3>1. CASE HandleHello(s, f)
      BY <2>1, <3>1, StrangerLeaves DEF HandleHello
    <3>2. CASE CloseProtocolError(s)
      BY <2>1, <3>2, StrangerLeaves
    <3>3. CASE HandleFileOffer(s, f)
      BY <2>1, <3>3, StrangerLeaves DEF HandleFileOffer, RefuseOffer, BeginReceive, Reject
    <3>4. CASE HandleFileChunk(s, f)
      BY <2>1, <3>4, StrangerLeaves DEF HandleFileChunk
    <3>5. CASE HandleFileFinish(s, f)
      BY <2>1, <3>5, StrangerLeaves DEF HandleFileFinish
    <3> QED BY <2>4, <3>1, <3>2, <3>3, <3>4, <3>5 DEF HandleReadyRead, DispatchFrame
  <2> QED BY <2>2, <2>3, <2>4 DEF CallbackOf
<1> QED BY <1>1, PTL DEF Spec, OtherSocketsDoNotInterfere

\* A success is reported only when the file is in place.
THEOREM SuccessIsNeverEarly == ASSUME PartNamesApart PROVE Spec => SuccessIsTrue
<1>1. IInv /\ [Next]_vars => [\A s \in Sockets :
        LET last == outbox'[s][Len(outbox'[s])]
        IN  Len(outbox'[s]) > Len(outbox[s]) /\ last.kind = "FileResult" /\ last.code = "Ok" =>
                /\ Owns(active, s)
                /\ last.id = active.id
                /\ disk'[active.name] # Absent
                /\ Sha256(disk'[active.name]) = active.sha256]_vars
  <2> SUFFICES ASSUME IInv, [Next]_vars, NEW s \in Sockets,
                      Len(outbox'[s]) > Len(outbox[s]), IsSuccess(LastOf(outbox'[s]))
               PROVE  Stored(LastOf(outbox'[s]), s, disk')
    BY DEF IsSuccess, LastOf, Stored
  <2>1. ASSUME NEW t \in Sockets, Outcome(t) PROVE Stored(LastOf(outbox'[s]), s, disk')
    <3>1. CASE t = s
      BY <2>1, <3>1 DEF Outcome
    <3>2. CASE t # s
      BY <2>1, <3>2, OutboxType DEF Outcome
    <3> QED BY <3>1, <3>2
  <2>2. CASE Elsewhere
    <3>1. outbox'[s] = outbox[s] \/ (outbox[s] # <<>> /\ outbox'[s] = Tail(outbox[s]))
      BY <2>2 DEF Elsewhere, HandleNewConnection, PeerReads, Listen, Close, Crash,
                  OtherProgramCreates, vars, IInv, TypeOK
    <3>2. outbox[s] # <<>> => Len(Tail(outbox[s])) = Len(outbox[s]) - 1
      BY OutboxType
    <3>3. Len(outbox'[s]) = Len(outbox[s]) \/ Len(outbox'[s]) = Len(outbox[s]) - 1
      BY <3>1, <3>2, Zenon
    <3> QED BY <3>3, OutboxType
  <2> QED BY <2>1, <2>2, StepCases
<1> QED BY <1>1, ReceiverInvariant, PTL DEF Spec, SuccessIsTrue

-----------------------------------------------------------------------------
\* What a peer is answered, and to whom the slot goes.

\* A reply the sender of f can take: it names a transfer when f did.
Fits(r, f) ==
    /\ r.kind = "FileReject" => r.code # "Ok"
    /\ r.kind # "HelloAck" => r.id \in Ids \/ f.kind \in {"BadOffer", "BadChunk", "BadFinish"}

\* The slot stays with who had it, or goes to the offer f.
Grants(a, s, f) ==
    a # NoTransfer =>
        \/ active # NoTransfer /\ a.socket = active.socket /\ a.sha256 = active.sha256
        \/ f.kind = "FileOffer" /\ a.socket = s /\ a.sha256 = f.sha256

Answers(s, f) ==
    /\ \A t \in Sockets \ {s} : outbox'[t] = outbox[t]
    /\ outbox'[s] = outbox[s] \/ \E r \in Reply : Fits(r, f) /\ outbox'[s] = Append(outbox[s], r)
    /\ Grants(active', s, f)

LEMMA NoAnswer ==
  ASSUME IInv, NEW s \in Sockets, NEW f, UNCHANGED outbox,
         NEW a, Grants(a, s, f), active' = a \/ active' = NoTransfer
  PROVE  Answers(s, f)
BY DEF Answers, Grants

LEMMA SendAnswers ==
  ASSUME IInv, NEW s \in Sockets, NEW f, NEW r \in Reply, Fits(r, f),
         NEW c, NEW d, NEW a, Grants(a, s, f), SendFrame(s, r, c, a, d)
  PROVE  Answers(s, f)
<1>1. CASE HandleSendFailure(s, a, d)
  BY <1>1, NoAnswer DEF HandleSendFailure, RemoveConnection
<1>2. CASE outbox' = [outbox EXCEPT ![s] = Append(@, r)] /\ active' = a
  <2>1. outbox'[s] = Append(outbox[s], r) /\ \A t \in Sockets \ {s} : outbox'[t] = outbox[t]
    BY <1>2 DEF IInv, TypeOK
  <2> QED BY <1>2, <2>1, Zenon DEF Answers
<1> QED BY <1>1, <1>2 DEF SendFrame

LEMMA KeepingGrants == ASSUME NEW s, NEW f PROVE Grants(active, s, f) /\ Grants(NoTransfer, s, f)
BY DEF Grants

LEMMA RejectAnswers ==
  ASSUME IInv, NEW s \in Sockets, NEW f \in Frame, NEW id \in Ids \cup {UnknownId},
         id \in Ids \/ f.kind = "BadOffer",
         NEW code \in Codes \ {"Ok"}, NEW d, Reject(s, f, id, code, d)
  PROVE  Answers(s, f)
<1> DEFINE r == [kind |-> "FileReject", rid |-> f.rid, id |-> id, code |-> code]
<1>1. r \in Reply
  BY ResultIsReply
<1>2. Fits(r, f)
  BY DEF Fits
<1>3. SendFrame(s, r, connections, active, d)
  BY DEF Reject
<1> HIDE DEF r
<1> QED BY <1>1, <1>2, <1>3, KeepingGrants, SendAnswers

LEMMA ResultAnswers ==
  ASSUME IInv, NEW s \in Sockets, NEW f \in Frame, Owns(active, s), NEW code \in Codes,
         NEW c, NEW d, SendFrame(s, FileResult(f, active.id, code), c, NoTransfer, d)
  PROVE  Answers(s, f)
<1>1. active.id \in Ids
  BY DEF Owns, IInv, TypeOK, Transfer
<1>2. FileResult(f, active.id, code) \in Reply
  BY <1>1, ResultIsReply
<1>3. Fits(FileResult(f, active.id, code), f)
  BY <1>1 DEF Fits, FileResult
<1> QED BY <1>2, <1>3, KeepingGrants, SendAnswers

LEMMA RejectConnectionAnswers ==
  ASSUME IInv, NEW s \in Sockets, NEW f \in Frame,
         f.kind \in {"FileChunk", "BadChunk", "FileFinish", "BadFinish"},
         RejectConnectionReceive(s, f, IdOf(f))
  PROVE  Answers(s, f)
<1> DEFINE r == FileResult(f, IdOf(f), "InvalidArgument")
<1>1. CASE HandleSendFailure(s, active, disk)
  BY <1>1, KeepingGrants, NoAnswer DEF HandleSendFailure, RemoveConnection
<1>2. CASE outbox' = [outbox EXCEPT ![s] = Append(@, r)] /\ UNCHANGED active
  <2>1. r \in Reply
    BY IdOfType, ResultIsReply DEF Codes
  <2>2. Fits(r, f)
    BY DEF Fits, FileResult, IdOf, Frame
  <2> HIDE DEF r
  <2>3. outbox'[s] = Append(outbox[s], r) /\ \A t \in Sockets \ {s} : outbox'[t] = outbox[t]
    BY <1>2 DEF IInv, TypeOK
  <2>4. Grants(active', s, f)
    BY <1>2 DEF Grants
  <2> QED BY <2>1, <2>2, <2>3, <2>4, Zenon DEF Answers
<1> QED BY <1>1, <1>2 DEF RejectConnectionReceive

LEMMA CloseAnswers ==
  ASSUME IInv, NEW s \in Sockets, NEW f, CloseProtocolError(s)
  PROVE  Answers(s, f)
BY KeepingGrants, NoAnswer DEF CloseProtocolError, RemoveConnection

LEMMA HelloAnswers ==
  ASSUME IInv, NEW s \in Sockets, NEW f \in Frame, HandleHello(s, f)
  PROVE  Answers(s, f)
<1> DEFINE r == [kind |-> "HelloAck", rid |-> f.rid]
<1>1. r \in Reply /\ Fits(r, f)
  BY DEF Frame, Reply, Fits
<1>2. CASE SendFrame(s, r, [connections EXCEPT ![s] = "ready"], active, disk)
  <2> HIDE DEF r
  <2> QED BY <1>1, <1>2, KeepingGrants, SendAnswers
<1>3. CASE CloseProtocolError(s)
  BY <1>3, CloseAnswers
<1> QED BY <1>2, <1>3 DEF HandleHello

LEMMA OfferAnswers ==
  ASSUME IInv, NEW s \in Sockets, NEW f \in Frame, HandleFileOffer(s, f)
  PROVE  Answers(s, f)
<1>1. CASE f.kind = "BadOffer" /\ Reject(s, f, UnknownId, "InvalidArgument", disk)
  BY <1>1, RejectAnswers DEF Codes
<1>2. CASE f.kind = "FileOffer"
  <2>1. f.id \in Ids /\ f.rid \in Nat
    BY <1>2 DEF Frame
  <2>2. ASSUME NEW code \in Codes \ {"Ok"}, NEW d, Reject(s, f, f.id, code, d)
        PROVE  Answers(s, f)
    BY <2>1, <2>2, RejectAnswers
  <2>3. CASE BeginReceive(s, f)
    <3> DEFINE r == [kind |-> "FileAccept", rid |-> f.rid, id |-> f.id]
               d == [disk EXCEPT ![PartName[f.name]] = <<>>]
    <3>1. r \in Reply /\ Fits(r, f)
      BY <2>1 DEF Reply, Fits
    <3>2. Grants(NewTransfer(s, f), s, f)
      BY <1>2 DEF Grants, NewTransfer
    <3>3. SendFrame(s, r, connections, NewTransfer(s, f), d)
      BY <2>3 DEF BeginReceive
    <3> HIDE DEF r, d
    <3> QED BY <3>1, <3>2, <3>3, SendAnswers
  <2>4. {"Busy", "PathNotFound", "IoError", "TargetExists"} \subseteq Codes \ {"Ok"}
    BY DEF Codes
  <2> QED BY <1>2, <2>2, <2>3, <2>4 DEF HandleFileOffer, RefuseOffer
<1> QED BY <1>1, <1>2 DEF HandleFileOffer

LEMMA ChunkAnswers ==
  ASSUME IInv, NEW s \in Sockets, NEW f \in Frame,
         f.kind \in {"FileChunk", "BadChunk"}, HandleFileChunk(s, f)
  PROVE  Answers(s, f)
<1>1. CASE RejectConnectionReceive(s, f, IdOf(f))
  BY <1>1, RejectConnectionAnswers
<1>2. CASE Owns(active, s) /\ \E code \in Codes : FailReceive(s, f, code)
  BY <1>2, ResultAnswers DEF FailReceive
<1>3. CASE Owns(active, s) /\ active' = [active EXCEPT !.data = @ \o f.data] /\ UNCHANGED outbox
  <2>1. active \in Transfer /\ active # NoTransfer
    BY <1>3 DEF IInv, TypeOK, Owns
  <2>2. active'.socket = active.socket /\ active'.sha256 = active.sha256
    BY <1>3, <2>1 DEF Transfer
  <2> QED BY <1>3, <2>1, <2>2 DEF Answers, Grants
<1>4. {"InvalidArgument", "IoError"} \subseteq Codes
  BY DEF Codes
<1> QED BY <1>1, <1>2, <1>3, <1>4 DEF HandleFileChunk

LEMMA FinishAnswers ==
  ASSUME IInv, NEW s \in Sockets, NEW f \in Frame,
         f.kind \in {"FileFinish", "BadFinish"}, HandleFileFinish(s, f)
  PROVE  Answers(s, f)
<1>1. CASE RejectConnectionReceive(s, f, IdOf(f))
  BY <1>1, RejectConnectionAnswers
<1>2. CASE Owns(active, s) /\ \E code \in Codes : FailReceive(s, f, code)
  BY <1>2, ResultAnswers DEF FailReceive
<1>3. CASE /\ Owns(active, s)
           /\ SendFrame(s, FileResult(f, active.id, "Ok"), connections, NoTransfer, Renamed(disk, active))
  BY <1>3, ResultAnswers DEF Codes
<1>4. {"InvalidArgument", "IoError", "HashMismatch"} \subseteq Codes
  BY DEF Codes
<1> QED BY <1>1, <1>2, <1>3, <1>4 DEF HandleFileFinish, CompleteReceive

LEMMA DispatchAnswers ==
  ASSUME IInv, NEW s \in Sockets, NEW f \in Frame, DispatchFrame(s, f)
  PROVE  Answers(s, f)
BY HelloAnswers, CloseAnswers, OfferAnswers, ChunkAnswers, FinishAnswers DEF DispatchFrame

\* The rest of what happens hands out neither slot nor reply.
LEMMA OthersGrantNothing ==
  ASSUME IInv,
         \/ \E s \in Sockets : HandleNewConnection(s) \/ HandleDisconnected(s) \/ PeerReads(s)
         \/ Listen \/ Close \/ Crash
         \/ \E p \in Paths, c \in Foreign : OtherProgramCreates(p, c)
  PROVE  /\ active' = active \/ active' = NoTransfer
         /\ \A s \in Sockets : outbox'[s] = outbox[s]
                               \/ (outbox[s] # <<>> /\ outbox'[s] = Tail(outbox[s]))
BY DEF IInv, TypeOK, HandleNewConnection, HandleDisconnected, RemoveConnection, PeerReads, Listen,
       Close, Crash, OtherProgramCreates

\* A file that is there stays as it is.
LEMMA NamesStay ==
  ASSUME PartNamesApart, IInv, [Next]_vars, NEW n \in Names
  PROVE  disk'[n] = disk[n] \/ (disk[n] = Absent /\ disk'[n] \in Content)
<1>1. n \in Paths /\ disk'[n] \in Content \cup {Absent}
  BY NextInvariant, PartIsPath DEF IInv, TypeOK
<1>2. disk'[n] # disk[n] => disk[n] = Absent
  <2>1. ASSUME NEW s \in Sockets, Outcome(s) PROVE disk'[n] # disk[n] => disk[n] = Absent
    BY <2>1 DEF Outcome, Whole
  <2>2. ASSUME NEW p \in Paths, NEW c \in Foreign, OtherProgramCreates(p, c)
        PROVE  disk'[n] # disk[n] => disk[n] = Absent
    BY <1>1, <2>2 DEF OtherProgramCreates, IInv, TypeOK
  <2>3. CASE Elsewhere
    BY <2>2, <2>3, CloseKeepsNames DEF Elsewhere, HandleNewConnection, PeerReads, Listen, Close,
                                       Crash, vars
  <2> QED BY <2>1, <2>3, StepCases
<1> QED BY <1>1, <1>2
=============================================================================

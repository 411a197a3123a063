------------------------- MODULE TcpTransferServer -------------------------
(***************************************************************************)
(* The receiving end of a file transfer: TcpTransferServer, the peers      *)
(* connected to it and the receive directory.  One action is one callback  *)
(* of the Qt event loop.  A frame arrives from any peer at any time, in    *)
(* any order; what FrameDecoder makes of the bytes is the frame's kind,    *)
(* where Bad... stands for a payload that does not decode and Garbage for  *)
(* bytes that are no frame.  A file's content is a sequence of blocks.     *)
(***************************************************************************)
EXTENDS Integers, Sequences

CONSTANTS Sockets,     \* accepted connections, each used once
          Names,       \* file names a peer may offer
          PartName,    \* the name the receiver writes to: file_name + ".coredesk.part"
          Ids,         \* transfer ids
          UnknownId,   \* unknown_transfer_id()
          Blocks,      \* what files are made of
          Digests,     \* what an offer may give as sha256
          Sha256(_),   \* the digest of a content
          Frames,      \* the frames peers send
          Foreign,     \* contents other programs put into the directory
          Absent,      \* no such file
          NoTransfer,  \* active_transfer_ is empty
          MaxOutbox    \* bound: replies in flight on one connection

Paths == Names \cup {PartName[n] : n \in Names}
Content == Seq(Blocks)

Frame ==
    [kind : {"Hello", "BadHello", "BadOffer", "BadChunk", "BadFinish", "Other", "Garbage"}, rid : Nat]
    \cup [kind : {"FileOffer"}, rid : Nat, id : Ids, name : Names, size : Nat, sha256 : Digests]
    \cup [kind : {"FileChunk"}, rid : Nat, id : Ids, offset : Nat, data : Content]
    \cup [kind : {"FileFinish"}, rid : Nat, id : Ids]

ASSUME FramesAssumption == Frames \subseteq Frame
ASSUME PathsAssumption == DOMAIN PartName = Names
ASSUME ContentAssumption == Foreign \subseteq Content /\ Absent \notin Content

Codes == {"Ok", "Busy", "PathNotFound", "TargetExists", "IoError", "InvalidArgument", "HashMismatch"}
Reply ==
    [kind : {"HelloAck"}, rid : Nat]
    \cup [kind : {"FileAccept"}, rid : Nat, id : Ids]
    \cup [kind : {"FileReject", "FileResult"}, rid : Nat, id : Ids \cup {UnknownId}, code : Codes]

Transfer == [socket : Sockets, id : Ids, name : Names, size : Nat, sha256 : Digests, data : Content]
ASSUME TransferAssumption == NoTransfer \notin Transfer

VARIABLES listening,   \* server_ accepts connections
          connections, \* connections_: "none", "new", or "ready" after Hello
          wire,        \* the socket of each connection
          outbox,      \* replies the peer has not read
          active,      \* active_transfer_; expected_offset is the length of data
          disk         \* the receive directory

vars == <<listening, connections, wire, outbox, active, disk>>

(***************************************************************************)
(* The receiver between two callbacks has at most one transfer.  Its       *)
(* state Finishing is never seen from outside handle_file_finish, and      *)
(* Accepted and Receiving admit the same frames, so the state is left out. *)
(***************************************************************************)
WireStates == {"unused", "open", "closing", "closed"}
ConnectionStates == {"none", "new", "ready"}

TypeOK ==
    /\ listening \in BOOLEAN
    /\ connections \in [Sockets -> ConnectionStates]
    /\ wire \in [Sockets -> WireStates]
    /\ outbox \in [Sockets -> Seq(Reply)]
    /\ active \in Transfer \cup {NoTransfer}
    /\ disk \in [Paths -> Content \cup {Absent}]

Init ==
    /\ listening = FALSE
    /\ connections = [s \in Sockets |-> "none"]
    /\ wire = [s \in Sockets |-> "unused"]
    /\ outbox = [s \in Sockets |-> <<>>]
    /\ active = NoTransfer
    /\ disk = [p \in Paths |-> Absent]

-----------------------------------------------------------------------------
\* What the handlers share.  a and d stand for the transfer and the
\* directory as the handler leaves them when it comes to sending.

Owns(a, s) == a # NoTransfer /\ a.socket = s

\* Mutant: cleanup_active_transfer forgets to remove the part file.
WithoutPartForgotten(d, a) == d

\* cleanup_active_transfer(true)
WithoutPart(d, a) == IF a = NoTransfer THEN d ELSE [d EXCEPT ![PartName[a.name]] = Absent]

RemoveConnection(s, a, d) ==
    /\ connections' = [connections EXCEPT ![s] = "none"]
    /\ active' = IF Owns(a, s) THEN NoTransfer ELSE a
    /\ disk' = IF Owns(a, s) THEN WithoutPart(d, a) ELSE d

HandleSendFailure(s, a, d) ==
    /\ RemoveConnection(s, a, d)
    /\ wire' = [wire EXCEPT ![s] = "closed"]
    /\ UNCHANGED outbox

\* The socket takes the frame; or an earlier frame is not wholly accepted,
\* the limit on pending bytes is met or the write fails.
SendFrame(s, reply, c, a, d) ==
    \/ /\ outbox' = [outbox EXCEPT ![s] = Append(@, reply)]
       /\ connections' = c
       /\ active' = a
       /\ disk' = d
       /\ UNCHANGED wire
    \/ HandleSendFailure(s, a, d)

CloseProtocolError(s) ==
    /\ RemoveConnection(s, active, disk)
    /\ wire' = [wire EXCEPT ![s] = "closing"]
    /\ UNCHANGED outbox

Reject(s, f, id, code, d) ==
    SendFrame(s, [kind |-> "FileReject", rid |-> f.rid, id |-> id, code |-> code],
              connections, active, d)

FileResult(f, id, code) == [kind |-> "FileResult", rid |-> f.rid, id |-> id, code |-> code]

FailReceive(s, f, code) ==
    SendFrame(s, FileResult(f, active.id, code), connections, NoTransfer, WithoutPart(disk, active))

\* A frame of a socket that is not the owner answers and disconnects it;
\* the active transfer of the other socket goes on.
RejectConnectionReceive(s, f, id) ==
    \/ /\ outbox' = [outbox EXCEPT ![s] = Append(@, FileResult(f, id, "InvalidArgument"))]
       /\ wire' = [wire EXCEPT ![s] = "closing"]
       /\ UNCHANGED <<connections, active, disk>>
    \/ HandleSendFailure(s, active, disk)

-----------------------------------------------------------------------------
\* One disjunct per outcome of the handler of each frame type.

HandleHello(s, f) ==
    \/ /\ connections[s] = "new"
       /\ f.kind = "Hello"
       /\ SendFrame(s, [kind |-> "HelloAck", rid |-> f.rid],
                    [connections EXCEPT ![s] = "ready"], active, disk)
    \/ /\ connections[s] = "ready" \/ f.kind = "BadHello"
       /\ CloseProtocolError(s)

\* validate_offer_target and the failures of begin_receive.  Busy comes
\* before anything is looked up in the directory; begin_receive removes a
\* stale part file before the open that may fail.
RefuseOffer(s, f) ==
    \/ active # NoTransfer /\ Reject(s, f, f.id, "Busy", disk)
    \/ /\ active = NoTransfer
       /\ \/ \E code \in {"PathNotFound", "IoError"} : Reject(s, f, f.id, code, disk)
          \/ disk[f.name] # Absent /\ Reject(s, f, f.id, "TargetExists", disk)
          \/ /\ disk[f.name] = Absent
             /\ Reject(s, f, f.id, "IoError", [disk EXCEPT ![PartName[f.name]] = Absent])

NewTransfer(s, f) ==
    [socket |-> s, id |-> f.id, name |-> f.name, size |-> f.size, sha256 |-> f.sha256, data |-> <<>>]

\* Mutant: begin_receive opens the part file without Truncate and without
\* removing a stale one.
BeginReceiveAppends(s, f) ==
    /\ active = NoTransfer
    /\ disk[f.name] = Absent
    /\ SendFrame(s, [kind |-> "FileAccept", rid |-> f.rid, id |-> f.id],
                 connections, NewTransfer(s, f),
                 [disk EXCEPT ![PartName[f.name]] = IF @ = Absent THEN <<>> ELSE @])

BeginReceive(s, f) ==
    /\ active = NoTransfer
    /\ disk[f.name] = Absent
    /\ SendFrame(s, [kind |-> "FileAccept", rid |-> f.rid, id |-> f.id],
                 connections, NewTransfer(s, f), [disk EXCEPT ![PartName[f.name]] = <<>>])

HandleFileOffer(s, f) ==
    \/ f.kind = "BadOffer" /\ Reject(s, f, UnknownId, "InvalidArgument", disk)
    \/ f.kind = "FileOffer" /\ (RefuseOffer(s, f) \/ BeginReceive(s, f))

IdOf(f) == IF f.kind \in {"BadChunk", "BadFinish"} THEN UnknownId ELSE f.id

\* validate_chunk_bounds, the offset and the transfer_id
ChunkFits(f) ==
    /\ f.kind = "FileChunk"
    /\ f.id = active.id
    /\ f.offset = Len(active.data)
    /\ Len(f.data) <= active.size - Len(active.data)

\* Mutant: a chunk is asked for its transfer_id and offset, not for its socket.
ChunkOfAnySocket(s, f) ==
    IF active = NoTransfer
    THEN RejectConnectionReceive(s, f, IdOf(f))
    ELSE \/ ~ChunkFits(f) /\ ~Owns(active, s) /\ RejectConnectionReceive(s, f, IdOf(f))
         \/ ~ChunkFits(f) /\ Owns(active, s) /\ FailReceive(s, f, "InvalidArgument")
         \/ /\ ChunkFits(f)
            /\ active' = [active EXCEPT !.data = @ \o f.data]
            /\ disk' = [disk EXCEPT ![PartName[active.name]] = @ \o f.data]
            /\ UNCHANGED <<connections, wire, outbox>>

HandleFileChunk(s, f) ==
    \/ ~Owns(active, s) /\ RejectConnectionReceive(s, f, IdOf(f))
    \/ /\ Owns(active, s)
       /\ ~ChunkFits(f)
       /\ FailReceive(s, f, "InvalidArgument")
    \/ /\ Owns(active, s)
       /\ ChunkFits(f)
       /\ \/ FailReceive(s, f, "IoError")
          \/ /\ active' = [active EXCEPT !.data = @ \o f.data]
             /\ disk' = [disk EXCEPT ![PartName[active.name]] = @ \o f.data]
             /\ UNCHANGED <<connections, wire, outbox>>

Renamed(d, a) == [d EXCEPT ![PartName[a.name]] = Absent, ![a.name] = d[PartName[a.name]]]

\* Mutant: the rename replaces a file that appeared meanwhile.
CompleteReceiveReplaces(s, f) ==
    IF Len(active.data) # active.size
    THEN FailReceive(s, f, "InvalidArgument")
    ELSE IF Sha256(active.data) # active.sha256
         THEN FailReceive(s, f, "HashMismatch")
         ELSE SendFrame(s, FileResult(f, active.id, "Ok"), connections,
                        NoTransfer, Renamed(disk, active))

\* Mutant: the result is sent before the rename, which may then fail.
CompleteReceiveEarly(s, f) ==
    IF Len(active.data) # active.size
    THEN FailReceive(s, f, "InvalidArgument")
    ELSE \/ /\ Sha256(active.data) # active.sha256
            /\ FailReceive(s, f, "HashMismatch")
         \/ /\ Sha256(active.data) = active.sha256
            /\ SendFrame(s, FileResult(f, active.id, "Ok"), connections, NoTransfer,
                         IF disk[active.name] = Absent THEN Renamed(disk, active)
                         ELSE WithoutPart(disk, active))

\* Mutant: the digest is not verified.
CompleteReceiveUnverified(s, f) ==
    IF Len(active.data) # active.size
    THEN FailReceive(s, f, "InvalidArgument")
    ELSE \/ FailReceive(s, f, "IoError")
         \/ /\ disk[active.name] = Absent
            /\ SendFrame(s, FileResult(f, active.id, "Ok"), connections,
                         NoTransfer, Renamed(disk, active))

\* complete_receive: QFile::rename does not replace a file.  Flush and
\* rename may fail in any case.
CompleteReceive(s, f) ==
    IF Len(active.data) # active.size
    THEN FailReceive(s, f, "InvalidArgument")
    ELSE \/ FailReceive(s, f, "IoError")
         \/ /\ Sha256(active.data) # active.sha256
            /\ FailReceive(s, f, "HashMismatch")
         \/ /\ Sha256(active.data) = active.sha256
            /\ disk[active.name] = Absent
            /\ SendFrame(s, FileResult(f, active.id, "Ok"), connections,
                         NoTransfer, Renamed(disk, active))

HandleFileFinish(s, f) ==
    \/ ~Owns(active, s) /\ RejectConnectionReceive(s, f, IdOf(f))
    \/ /\ Owns(active, s)
       /\ IF f.kind = "BadFinish" \/ f.id # active.id
          THEN FailReceive(s, f, "InvalidArgument")
          ELSE CompleteReceive(s, f)

Handshake == {"Hello", "BadHello"}

\* The dispatch on the frame type.  Everything but a Hello needs one first.
DispatchFrame(s, f) ==
    \/ f.kind \in Handshake /\ HandleHello(s, f)
    \/ /\ f.kind \in {"Other", "Garbage"} \/ (connections[s] = "new" /\ f.kind \notin Handshake)
       /\ CloseProtocolError(s)
    \/ /\ connections[s] = "ready"
       /\ \/ f.kind \in {"FileOffer", "BadOffer"} /\ HandleFileOffer(s, f)
          \/ f.kind \in {"FileChunk", "BadChunk"} /\ HandleFileChunk(s, f)
          \/ f.kind \in {"FileFinish", "BadFinish"} /\ HandleFileFinish(s, f)

-----------------------------------------------------------------------------
\* The actions.

HandleNewConnection(s) ==
    /\ listening
    /\ wire[s] = "unused"
    /\ wire' = [wire EXCEPT ![s] = "open"]
    /\ connections' = [connections EXCEPT ![s] = "new"]
    /\ UNCHANGED <<listening, outbox, active, disk>>

\* Bytes of a socket that has left connections_ are not read.
HandleReadyRead(s, f) ==
    /\ connections[s] # "none"
    /\ Len(outbox[s]) < MaxOutbox
    /\ DispatchFrame(s, f)
    /\ UNCHANGED listening

\* The peer closed, the connection broke, or a closing socket is done.
HandleDisconnected(s) ==
    /\ wire[s] \in {"open", "closing"}
    /\ RemoveConnection(s, active, disk)
    /\ wire' = [wire EXCEPT ![s] = "closed"]
    /\ UNCHANGED <<listening, outbox>>

PeerReads(s) ==
    /\ outbox[s] # <<>>
    /\ outbox' = [outbox EXCEPT ![s] = Tail(@)]
    /\ UNCHANGED <<listening, connections, wire, active, disk>>

Listen ==
    /\ ~listening
    /\ listening' = TRUE
    /\ UNCHANGED <<connections, wire, outbox, active, disk>>

Disconnected == [s \in Sockets |-> IF wire[s] = "unused" THEN "unused" ELSE "closed"]

Close ==
    /\ listening
    /\ listening' = FALSE
    /\ connections' = [s \in Sockets |-> "none"]
    /\ wire' = Disconnected
    /\ active' = NoTransfer
    /\ disk' = WithoutPart(disk, active)
    /\ UNCHANGED outbox

\* The process dies: nothing is cleaned up.
Crash ==
    /\ listening
    /\ listening' = FALSE
    /\ connections' = [s \in Sockets |-> "none"]
    /\ wire' = Disconnected
    /\ active' = NoTransfer
    /\ UNCHANGED <<outbox, disk>>

\* Another program puts a file into the receive directory.
OtherProgramCreates(p, c) ==
    /\ disk[p] = Absent
    /\ disk' = [disk EXCEPT ![p] = c]
    /\ UNCHANGED <<listening, connections, wire, outbox, active>>

Next ==
    \/ \E s \in Sockets :
        \/ HandleNewConnection(s)
        \/ \E f \in Frames : HandleReadyRead(s, f)
        \/ HandleDisconnected(s)
        \/ PeerReads(s)
    \/ Listen \/ Close \/ Crash
    \/ \E p \in Paths, c \in Foreign : OtherProgramCreates(p, c)

Spec == Init /\ [][Next]_vars

-----------------------------------------------------------------------------
\* Properties.

\* The receiver's one slot is held by a connection that can still fill or
\* free it: a transfer whose peer is gone (remove_connection) never keeps
\* later offers Busy.
SlotIsHeldByConnection ==
    active # NoTransfer =>
        connections[active.socket] = "ready" /\ wire[active.socket] \in {"open", "closing"}

\* What has been hashed is what the part file holds, and no more than was
\* offered: a stale part file or a chunk out of place never gets into it.
PartHoldsData ==
    active # NoTransfer =>
        /\ disk[PartName[active.name]] = active.data
        /\ Len(active.data) <= active.size

\* connections_ holds sockets that are not closed.
ConnectionsAreLive ==
    \A s \in Sockets : connections[s] # "none" => wire[s] \in {"open", "closing"}

IInv == TypeOK /\ SlotIsHeldByConnection /\ PartHoldsData /\ ConnectionsAreLive

\* No offered name is another name's part name.  Nothing in the code ensures
\* it: is_safe_transfer_file_name admits "x.coredesk.part".
PartNamesApart == \A n \in Names : PartName[n] \notin Names

\* The receiver touches a file under an offered name only to let it appear,
\* whole, with the offered size and digest, when the owner of the slot
\* finishes; it changes or removes none (complete_receive, begin_receive).
FilesAppearWhole ==
    [][\A n \in Names : disk'[n] # disk[n] =>
        \/ UNCHANGED <<connections, wire, outbox, active>>
        \/ /\ disk[n] = Absent
           /\ active # NoTransfer
           /\ active.name = n
           /\ Len(disk'[n]) = active.size
           /\ Sha256(disk'[n]) = active.sha256]_vars

\* However a transfer ends, short of the death of the process, its part file
\* goes with it (fail_receive, remove_connection, close, complete_receive).
PartLeavesWithTransfer ==
    [][active # NoTransfer /\ active' = NoTransfer =>
        Crash \/ disk'[PartName[active.name]] = Absent]_vars

\* A callback of this connection.
CallbackOf(s) ==
    HandleNewConnection(s) \/ HandleDisconnected(s) \/ \E f \in Frames : HandleReadyRead(s, f)

\* No callback of another socket touches the transfer of the owner or the directory:
\* no frame, whatever ids and offsets it carries and whether it is answered or not,
\* no failed reply and no lost connection (the ownership checks of
\* handle_file_chunk and handle_file_finish, Busy, remove_connection).
OtherSocketsDoNotInterfere ==
    [][\A s \in Sockets :
        active # NoTransfer /\ s # active.socket /\ CallbackOf(s)
        => active' = active /\ disk' = disk]_vars

\* A success is sent to the owner only, when the whole file is in place.
SuccessIsTrue ==
    [][\A s \in Sockets :
        LET last == outbox'[s][Len(outbox'[s])]
        IN  Len(outbox'[s]) > Len(outbox[s]) /\ last.kind = "FileResult" /\ last.code = "Ok" =>
                /\ Owns(active, s)
                /\ last.id = active.id
                /\ disk'[active.name] # Absent
                /\ Sha256(disk'[active.name]) = active.sha256]_vars

\* The specification of CoreDesk promises that a file already received under
\* its final name is never overwritten: only the part file of the transfer
\* under way changes.
NeverOverwrites ==
    [][\A n \in Names :
        disk[n] # Absent /\ ~(active # NoTransfer /\ n = PartName[active.name])
        => disk'[n] = disk[n]]_vars
=============================================================================

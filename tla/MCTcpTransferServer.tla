------------------------ MODULE MCTcpTransferServer ------------------------
EXTENDS TcpTransferServer, TLC

\* Digests are told apart by the content they are of.
MCSha256(c) == [digest |-> c]

Symmetric == Permutations(Sockets)

MCPartName == [n \in Names |-> n \o ".part"]
MCContents == {<<>>, <<"a">>, <<"a", "b">>}
MCForeign == {<<"x">>}
MCDigests == {MCSha256(<<>>), MCSha256(<<"a", "b">>)}

MCFrames ==
    [kind : {"Hello", "BadHello", "BadOffer", "BadChunk", "BadFinish", "Other", "Garbage"}, rid : {1}]
    \cup [kind : {"FileOffer"}, rid : {1}, id : {"t1"}, name : Names, size : {0, 2},
          sha256 : MCDigests]
    \cup [kind : {"FileChunk"}, rid : {1}, id : Ids, offset : 0..2, data : MCContents]
    \cup [kind : {"FileFinish"}, rid : {1}, id : Ids]

\* Without crashes during a transfer every file under a final name is one that was received.
SpecWithoutCrash == Init /\ [][Next /\ ~(active # NoTransfer /\ Crash)]_vars
=============================================================================

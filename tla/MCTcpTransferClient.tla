------------------------ MODULE MCTcpTransferClient ------------------------
EXTENDS TcpTransferClient

\* Digests are told apart by the content they are of.
MCSha256(c) == [digest |-> c]

MCSources == {<<"a">>, <<"a", "b">>}

MCPeerFrames ==
    [kind : {"HelloAck", "Other"}, rid : 1..2]
    \cup [kind : {"FileAccept"}, rid : 1..3, id : 1..2]
    \cup [kind : {"FileReject"}, rid : 1..3, id : 1..2, code : {"Busy"}]
    \cup [kind : {"FileResult"}, rid : 2..5, id : 1..2, code : {"Ok", "IoError"}]
=============================================================================

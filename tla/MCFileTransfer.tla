--------------------------- MODULE MCFileTransfer ---------------------------
EXTENDS FileTransfer

\* Digests are told apart by the content they are of.
MCSha256(c) == [digest |-> c]

MCPartName == [n \in {FileName} |-> n \o ".part"]
MCForeign == {<<"x">>}

\* A file that changes while it is hashed and sent.
MCSources == {<<"a">>, <<"b">>}

\* The rival takes the receiver's slot and may keep it.
MCRivalFrames ==
    {[kind |-> "Hello", rid |-> 1],
     [kind |-> "FileOffer", rid |-> 2, id |-> RivalId, name |-> FileName, size |-> 1,
      sha256 |-> MCSha256(<<"a">>)]}
=============================================================================

SPECIFICATION SpecWithoutCrash
CONSTANTS
  p1 = p1
  p2 = p2
  Sockets = {p1, p2}
  Names = {"f", "f.part"}
  PartName <- MCPartName
  Ids = {"t1"}
  UnknownId = "none"
  Blocks = {"a", "b", "x"}
  Digests <- MCDigests
  Sha256 <- MCSha256
  Frames <- MCFrames
  Foreign = {}
  Absent = Absent
  NoTransfer = NoTransfer
  MaxOutbox = 1
PROPERTIES NeverOverwrites

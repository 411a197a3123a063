SPECIFICATION Spec
CONSTANTS
  p1 = p1
  p2 = p2
  Sockets = {p1, p2}
  Names = {"f", "g"}
  PartName <- MCPartName
  Ids = {"t1", "t2"}
  UnknownId = "none"
  Blocks = {"a", "b", "x"}
  Digests <- MCDigests
  Sha256 <- MCSha256
  Frames <- MCFrames
  Foreign <- MCForeign
  Absent = Absent
  NoTransfer = NoTransfer
  MaxOutbox = 1
SYMMETRY Symmetric
INVARIANTS IInv
PROPERTIES FilesAppearWhole PartLeavesWithTransfer OtherSocketsDoNotInterfere SuccessIsTrue

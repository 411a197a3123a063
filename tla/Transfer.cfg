SPECIFICATION FairSpec
CONSTANTS
  MaxSends = 1
  FileName = "f"
  Sources <- MCSources
  Sha256 <- MCSha256
  ChunkSize = 1
  HighWater = 1
  Missing = Missing
  NoWorker = NoWorker
  NoDigest = NoDigest
  PartName <- MCPartName
  Blocks = {"a", "b", "x"}
  Foreign <- MCForeign
  Absent = Absent
  NoTransfer = NoTransfer
  MaxOutbox = 1
  Rival = Rival
  RivalFrames <- MCRivalFrames
INVARIANTS IInv
PROPERTIES ImplementsDelivery SendsEnd

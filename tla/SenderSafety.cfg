SPECIFICATION Spec
CONSTANTS
  MaxSends = 2
  FileName = "f"
  Sources <- MCSources
  Sha256 <- MCSha256
  ChunkSize = 1
  HighWater = 1
  PeerFrames <- MCPeerFrames
  Missing = Missing
  NoWorker = NoWorker
  NoDigest = NoDigest
INVARIANT IInv
PROPERTY OutcomeIsFinal

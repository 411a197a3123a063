SPECIFICATION IndexingSpec
CONSTANTS
  Dirs = {"root", "d", "h"}
  Links = {"l", "up"}
  Files = {"f", "k"}
  Root = "root"
  DotHidden = {"h"}
  Contents <- MCContents
  Target <- MCTarget
  WorkerCount = 2
  MaxFailures = 1
  MaxTokenBytes = 2
  MaxQueryBytes = 5
  MaxLimit = 2
  Name <- MCName
  Queries <- MCQueries
  Limits <- MCLimits
INVARIANTS InaccessibleRootFails
CHECK_DEADLOCK FALSE

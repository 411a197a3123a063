SPECIFICATION FairSpec
CONSTANTS
  MaxSockets = 2
  MaxRequests = 2
  PoolThreads = 2
  None = None
INVARIANTS IInv RepliesInOrder SearchesSeeWhatWasTold
PROPERTIES RequestsAreAnswered ServiceEnds
CHECK_DEADLOCK FALSE

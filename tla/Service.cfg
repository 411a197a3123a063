SPECIFICATION FairSpec
CONSTANTS
    Workers = {w1, w2}
    Queries = {q1}
    CacheCapacity = 1
    MaxScans = 2
    None = None
INVARIANTS IInv HitsMatchSnapshot StateTellsTruth ShutdownQuiesces CancelledLeavesNoTrace
PROPERTIES IndexOnlyAdvances ImplementsIndexService CallsReturn

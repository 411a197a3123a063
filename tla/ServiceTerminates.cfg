SPECIFICATION Spec
CONSTANTS
    Workers = {w1}
    Queries = {q1}
    CacheCapacity = 1
    MaxScans = 2
    None = None
INVARIANT NeverTerminates

SPECIFICATION FairSpec
CONSTANTS
    Workers = {w1, w2}
    Callers = {c1, c2}
    Tasks = {t1, t2, t3}
    max_queue_size = 2
    None = None
INVARIANTS IInv ShutdownDrains
PROPERTIES WaitIdleIsQuiet ImplementsExecutor CallsReturn

CONSTANTS
    t1 = t1
    t2 = t2
    r1 = r1
    r2 = r2
    Threads <- OneThread
    Runtimes <- TwoRuntimes
    Home <- AllAtHome
    MaxFrames = 5
    PoolSize = 2
    ZeroCopy <- None_
    StackAlloc <- None_
    Unwinds = FALSE
    HeapMayFail = FALSE
SPECIFICATION Spec
INVARIANTS
    AccessScopeBorrowed

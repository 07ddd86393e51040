CONSTANTS
    t1 = t1
    t2 = t2
    r1 = r1
    r2 = r2
    Threads <- OneThread
    Runtimes <- OneRuntime
    Home <- AllAtHome
    MaxFrames = 4
    PoolSize = 2
    ZeroCopy <- None_
    StackAlloc <- None_
    Unwinds = TRUE
    HeapMayFail = FALSE
SPECIFICATION Spec
INVARIANTS
    HeadIsInnermostSetup

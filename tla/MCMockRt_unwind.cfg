CONSTANTS
    t1 = t1
    t2 = t2
    r1 = r1
    r2 = r2
    Threads <- OneThread
    Runtimes <- TwoRuntimes
    Home <- AllAtHome
    MaxFrames = 4
    PoolSize = 1
    ZeroCopy <- First
    StackAlloc <- Second
    Unwinds = TRUE
    HeapMayFail = TRUE
SPECIFICATION Spec
INVARIANTS
    ScopesLive
    UpgradeWithinRuntime
    HeapOwnedWhileLive

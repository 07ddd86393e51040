CONSTANTS
    t1 = t1
    t2 = t2
    r1 = r1
    r2 = r2
    Threads <- OneThread
    Runtimes <- OneRuntime
    Home <- AllAtHome
    MaxFrames = 6
    PoolSize = 3
    ZeroCopy <- OneRuntime
    StackAlloc <- None_
    Unwinds = FALSE
    HeapMayFail = FALSE
SPECIFICATION Spec
INVARIANTS
    TypeOK
    HeadIsInnermostSetup
    RegistrationIdsDense
    UpgradeWindow
    HeapOwnedWhileLive
    HeapFreedWithFrame
PROPERTIES
    ImplementsCallbackRegistry

CONSTANTS
    p1 = p1
    p2 = p2
    p3 = p3
    Procs <- MCProcs
    MaxId <- MCMaxId
SPECIFICATION FairSpec
INVARIANTS
    TypeOK
    UniqueBrands
    IdsGrow
    NoIdLost
PROPERTIES
    CounterNeverWraps
    NewReturns
    ImplementsIdSource

CONSTANTS
    MaxUsize = 63
    StackTop = 48
    StackLimit = 8
    MinAlign = 4
    Layouts <- SomeLayouts
    FrameSizes <- SomeSizes
    Scratch = {0}
    MaxFrames = 5
SPECIFICATION Spec
INVARIANTS
    TypeOK
    StackPointerCorrect
    AllocationsAligned
    MemoryDisjoint

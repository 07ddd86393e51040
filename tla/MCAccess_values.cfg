CONSTANTS
    a = a
    b = b
    bool = bool
    u16 = u16
    u8 = u8
    MaxUsize = 7
    Brands <- MCBrands
    Allocs <- SharedAllocs
    AllUpgradesValid <- NoBrand
    Elems <- BoolU16
    Size <- MCSize
    Align <- MCSize
    OverflowChecks = FALSE
    DISABLE_UPGRADE_CHECKS = FALSE
    Byte <- MCByte
    ValidBytes <- MCValidBytes
    U8 = u8
    Utf8 <- MCUtf8
    Lengths <- ZeroTwoFive
    StackWords <- Five
    MaxRefs = 1
    MaxVals = 1
    MaxCopies = 0
    DISABLE_VALIDATION_CHECKS = FALSE
SPECIFICATION Spec
INVARIANTS
    TypeOK
    RefsInBounds
    MutRefsMutable
    ValidatedIsValid
PROPERTIES
    ValidatedUnchanged
    

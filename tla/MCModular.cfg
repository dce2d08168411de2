CONSTANTS
    Moduli = {0, 1, 2, 3, 6, 7, 8, 9, 12}
    FixnumLimit = 8
    Span = 20
    MaxPower = 7
    Half = 8
SPECIFICATION Spec
INVARIANTS
    RegistersFit
    ZeroIsZero
    OutOfRangeIsStale
    ArchivedAgrees
PROPERTIES
    RingSpec
    Ends

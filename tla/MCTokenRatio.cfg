CONSTANTS
    U64_MAX <- MC_U64_MAX
    RatioParts <- MC_RatioParts
    BpsValues <- MC_BpsValues

SPECIFICATION Spec

INVARIANTS
    TypeOK
    CmpIsValueOrder
    NoComparisonPanic
    ReverseIsExact
    FeeSplitExactCeil
    BpsValidIffApplies
    PseudoReverseRoundTrip

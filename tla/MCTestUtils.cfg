SPECIFICATION Spec

INVARIANTS
    ProgramErrorAssertExact
    CustomAssertByCode
    PaddedReturnDataRecovers
    PanicsOnlyOnNonzeroExcess

SPECIFICATION FairSpec
CONSTANT MaxSeq = 5
INVARIANTS
    TypeOK
    ScatterUndisturbed
    ClashNeedsTwoMisses
    NoThreadAfterClose
PROPERTIES
    FreshOrSilent
    CycleEnds
    DeactivateReturns
CHECK_DEADLOCK FALSE

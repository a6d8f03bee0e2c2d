SPECIFICATION FairSpec
CONSTANTS
    NOut = 2
    ActiveSets <- MCPrefixSets
    MaxClock = 3
INVARIANTS
    TypeOK
    CycleMemoryLive
    
    OneHalfPerCycle
    HalvesAlternate
PROPERTIES
    PositionNotOlderThanStamp
    DisposeCompletes

SPECIFICATION FairSpec
CONSTANTS
    MaxWatchers = 3
    EarlyRelease = FALSE
INVARIANTS
    TypeOK
    ObjectOutlivesUse
    ContextOutlivesUse
    OneActiveWatcher
PROPERTIES
    NotifyWithBuffers
    DisposeReturns
    AllReclaimed
CHECK_DEADLOCK FALSE

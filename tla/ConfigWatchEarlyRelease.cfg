SPECIFICATION FairSpec
CONSTANTS
    MaxWatchers = 1
    EarlyRelease = TRUE
INVARIANT
    ObjectOutlivesUse
CHECK_DEADLOCK FALSE

SPECIFICATION FairSpec
CONSTANTS
    Devices = {"speakers", "headset"}
    Ids = {1, 2, 3, 4, 5, 6}
    Initial <- MCInitial
    MaxAttempts = 3
    MaxFilters = 1
    MaxChanges = 1
INVARIANTS
    TypeOK
    MemoLive
    
    NoGhosts
    FirstActivationLinks
PROPERTIES
    ActivateReturns
CHECK_DEADLOCK FALSE

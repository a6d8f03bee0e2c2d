SPECIFICATION Spec
CONSTANTS
    Devices = {"speakers", "headset"}
    Ids = {1, 2, 3, 4, 5, 6}
    Initial <- MCInitial
    MaxAttempts = 1
    MaxFilters = 2
    MaxChanges = 0
INVARIANT LinksLivePort
CHECK_DEADLOCK FALSE

SPECIFICATION Spec
CONSTANTS
    Devices = {"speakers", "headset"}
    Ids = {1, 2, 3, 4, 5, 6}
    Initial <- MCInitial
    MaxAttempts = 1
    MaxFilters = 1
    MaxChanges = 1
INVARIANT PortTypeLive
CHECK_DEADLOCK FALSE

CONSTANTS
    Win32 = {w1}
    Qt = {q1}
    Inodes = {1, 2, 3}
    Times = {1, 2, 3, 4, 5}
    Sizes = {512}
    ChosenModes = {3}
    Devices = {"usb"}
    Editions <- MCEditions
    Races = FALSE
    Faulty = {w1}
    MaxSaves = 2
    MaxChanges = 1
SPECIFICATION FairSpec
INVARIANTS
    TypeOK
    NeverTorn
    FingerprintVouches
PROPERTIES
    SavesAtomic
    InSync

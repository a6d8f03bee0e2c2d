CONSTANTS
    Win32 = {w1}
    Qt = {q1}
    Inodes = {1, 2, 3}
    Times = {1, 2, 3, 4, 5}
    Sizes = {512}
    ChosenModes = {3}
    Devices = {"usb"}
    Editions <- MCEditions
    Races = TRUE
    Faulty = {}
    MaxSaves = 2
    MaxChanges = 0
SPECIFICATION Spec
INVARIANT NeverTorn

CONSTANTS
    Hosts = {"host"}
    Sinks = {"sink"}
    Ids = {1, 2, 3}
    Quanta = {256, 512}
    Target = ""
    MaxChanges = 4
SPECIFICATION FairSpec

    
PROPERTIES
    DisplayCatchesUp

SPECIFICATION FairSpec
CONSTANTS
    None = None
    Peers = {"p1"}
    Relays = {"r1", "r2"}
    HubConfigs <- MCOne
    Uplinks = {"w1"}
    HaveKernel = TRUE
    BootForward = {0}
    GiveUpAfter = 3
    Faults = {"remove"}
    MaxHub = 1
    MaxCrashes = 0
    MaxFaults = 1
    MaxMoves = 0
PROPERTIES
    ExpiredLeaves
CHECK_DEADLOCK FALSE

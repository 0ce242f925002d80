SPECIFICATION Spec
CONSTANTS
    None = None
    Peers = {"p1"}
    Relays = {"r1", "r2"}
    HubConfigs <- MCOne
    Uplinks = {"w1"}
    HaveKernel = FALSE
    BootForward = {0}
    GiveUpAfter = 3
    Faults = {"panic", "rebuild", "iface"}
    MaxHub = 2
    MaxCrashes = 0
    MaxFaults = 3
    MaxMoves = 0
INVARIANTS
    DownIsNotOk
CHECK_DEADLOCK FALSE

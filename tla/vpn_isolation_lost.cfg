SPECIFICATION Spec
CONSTANTS
    None = None
    Peers = {"p1"}
    Relays = {"r1", "r2"}
    HubConfigs <- MCOne
    Uplinks = {"w1"}
    HaveKernel = FALSE
    BootForward = {0}
    GiveUpAfter = 3
    Faults = {"rule"}
    MaxHub = 2
    MaxCrashes = 0
    MaxFaults = 1
    MaxMoves = 0
INVARIANTS
    IsolatedWhileForwarding
CHECK_DEADLOCK FALSE

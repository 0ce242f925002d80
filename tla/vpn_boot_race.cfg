SPECIFICATION Spec
CONSTANTS
    None = None
    Peers = {"p1", "p2"}
    Relays = {"r1", "r2"}
    HubConfigs <- MCTwo
    Uplinks = {"w1"}
    HaveKernel = FALSE
    BootForward = {0}
    GiveUpAfter = 3
    Faults = {}
    MaxHub = 2
    MaxCrashes = 1
    MaxFaults = 1
    MaxMoves = 0
INVARIANTS
    HubHasLastWord
CHECK_DEADLOCK FALSE

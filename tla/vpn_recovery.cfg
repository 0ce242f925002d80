SPECIFICATION MCFairSpec
CONSTANTS
    None = None
    Peers = {}
    Relays = {"r1"}
    HubConfigs <- MCBare
    Uplinks = {"w1", "w2"}
    HaveKernel = FALSE
    BootForward = {0}
    GiveUpAfter = 2
    Faults = {"iface", "rebuild", "panic", "vanish", "spawn"}
    MaxHub = 2
    MaxCrashes = 1
    MaxFaults = 2
    MaxMoves = 1
INVARIANTS
    EnabledIsWatched
PROPERTIES
    DeadComesBack
    UplinkFollowed
    ResumeGetsThrough
CHECK_DEADLOCK FALSE

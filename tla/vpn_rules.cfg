SPECIFICATION Spec
CONSTANTS
    None = None
    Peers = {"p1"}
    Relays = {"r1", "r2"}
    HubConfigs <- MCPair
    Uplinks = {"w1", "w2"}
    HaveKernel = TRUE
    BootForward = {0, 1}
    GiveUpAfter = 3
    Faults = {"prereq", "iface", "record", "rule", "peer", "vanish", "remove", "forward", "delete", "link"}
    MaxHub = 2
    MaxCrashes = 1
    MaxFaults = 1
    MaxMoves = 1
INVARIANTS
    ForwardingRestorable
    RulesWhole
PROPERTIES
    ForwardOnlyBehindRules
    DisableIsClean
    OkMeansRunning
    ImplementsIntent
CHECK_DEADLOCK FALSE

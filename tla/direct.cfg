SPECIFICATION Spec
CONSTANTS
    SKEW_SECS = 1
    REPLAY_MAX = 3
    Calls = {"foreground", "background"}
    Req <- Requests
    Addrs = {"lan1", "lan2"}
    Ips <- Addresses
    TTL = 0
    Tiers = {"run"}
    Starts <- Sessions
    MaxTime = 2
    MaxOpen = 2
    MaxLate = 1
    MaxEvents = 1
INVARIANTS
    LanRunsAllowed
    GrantServesOnce
    TwiceOnlyIfLost
PROPERTIES
    NoRunAfterDeny
CHECK_DEADLOCK FALSE

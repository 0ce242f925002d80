SPECIFICATION FairSpec
CONSTANTS
    None = None
    Gone = Gone
    Torn = Torn
    Requests = {"r1", "r2"}
    Ids = {"s"}
    MaxArms = 2
    Hosts = {"hub", "new.hub", "other"}
    Below <- MCBelow
    Addrs <- MCAddrs
    Relay <- MCRelay
    MaxHops = 2
    Worlds <- All
INVARIANTS
    TokenStaysHome
    FiresOnce
PROPERTIES
    Settles

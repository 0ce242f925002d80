SPECIFICATION FairSpec
CONSTANTS
    None = None
    a = a
    b = b
    Viewers = {a, b}
    Calls = {1, 2}
    Sessions = {1, 2, 3, 4}
    MAX_SESSIONS = 1
    Worlds <- All
    Pids = {1, 2, 3, 4}
    Ports = {1, 2}
INVARIANTS
    AckedIsShown
    HelperIsKnown
PROPERTIES
    CatchesUp

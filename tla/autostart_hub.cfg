SPECIFICATION Spec
CONSTANTS
    None = None
    Worlds <- Simple
    MaxStarts = 1
    MaxOps = 0
    MaxSwaps = 0
    MaxFaults = 0
PROPERTIES
    HubIsFound
CHECK_DEADLOCK FALSE

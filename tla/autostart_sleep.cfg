SPECIFICATION Spec
CONSTANTS
    None = None
    Worlds <- Twice
    MaxStarts = 1
    MaxOps = 3
    MaxSwaps = 0
    MaxFaults = 0
PROPERTIES
    SleepRestored
CHECK_DEADLOCK FALSE

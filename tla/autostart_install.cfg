SPECIFICATION Spec
CONSTANTS
    None = None
    Worlds <- Simple
    MaxStarts = 1
    MaxOps = 1
    MaxSwaps = 0
    MaxFaults = 0
PROPERTIES
    InstallSurvives
CHECK_DEADLOCK FALSE

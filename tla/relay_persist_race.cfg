SPECIFICATION Spec
CONSTANTS
    None = None
    Torn = Torn
    Faults = {}
    MaxFaults = 0
    MaxStarts = 1
    MaxHub = 0
PROPERTIES
    PersistKeepsSecret
CHECK_DEADLOCK FALSE

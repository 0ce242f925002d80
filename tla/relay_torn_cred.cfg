SPECIFICATION Spec
CONSTANTS
    None = None
    Torn = Torn
    Faults = {}
    MaxFaults = 0
    MaxStarts = 2
    MaxHub = 0
PROPERTIES
    EntryStarts
CHECK_DEADLOCK FALSE

SPECIFICATION FairSpec
CONSTANTS
    None = None
    Torn = Torn
    Faults = {"lost", "late", "save"}
    MaxFaults = 1
    MaxStarts = 3
    MaxHub = 1
INVARIANTS
    SecretIsCurrentUnlessOvertaken
PROPERTIES
    GivesUpOnlyRejected
    Enrolls
CHECK_DEADLOCK FALSE

SPECIFICATION FairSpec
CONSTANTS
    None = None
    Worlds <- Machines
    MaxStarts = 1
    MaxOps = 1
    MaxSwaps = 1
    MaxFaults = 1
INVARIANTS
    CleanedFinds
    ReportIsRight
PROPERTIES
    RewritesOnlyOwn
    RenameLosesNothing
    CleanableLeaves
CHECK_DEADLOCK FALSE

SPECIFICATION FairSpec
CONSTANTS
    None = None
    Stale = Stale
    Cut = Cut
    Procs = {p1, p2}
    Builds = {1, 2, 3}
    Startable = {1, 3}
    Size <- MCSize
    PublishesSums = TRUE
    Platforms = {"linux", "windows", "macos"}
    MaxStarts = 1
    MaxPublished = 1
    MaxFaults = 1
    MaxCrashes = 1
PROPERTIES
    AppRollsBack
    NeverGoesDark
    RestartChangesBuild
    SomeoneServes
CHECK_DEADLOCK FALSE

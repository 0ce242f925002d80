SPECIFICATION FairSpec
CONSTANTS
    MAX_JOBS = 1
    DEFAULT_READ = 1
    Starters = {c1, c2}
    Stoppers = {s1}
    Followers = {f1}
    Offsets = {0}
    MaxStarts = 2
    MaxLog <- LogLengths
    Forking = {1}
    Elevating = {}
    MaxFaults = 1
    MaxRestarts = 1
PROPERTIES
    DropsOldestFinished
    RegistryBounded
    FollowEnds
    StopEnds
CHECK_DEADLOCK FALSE

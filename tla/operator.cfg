SPECIFICATION FairSpec
CONSTANTS
    Calls = {1, 2}
    Fetches <- Pulls
    Uploads <- Ups
    FileNames = {"long", "short"}
    Size <- Sizes
    Bad = "bad"
    Hole = "hole"
    MaxPolls = 2
    Worlds <- All
INVARIANTS
    RestIsWhole
    StopsWhereTold
    PushTold
PROPERTIES
    EveryCallAnswers
CHECK_DEADLOCK FALSE

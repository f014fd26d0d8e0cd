SPECIFICATION FairSync
CONSTANTS
    A = A
    B = B
    Nodes = {A, B}
    Ids = {1, 2}
    Kinds = {"Message", "Metadata"}
    MaxClock = 3
    CompactMin = 1
    Links <- BothWays
    Level <- MCLevel
    TopLevel = 2
    FrameMax = 1
    MaxFollowups = 1
    MaxRounds = 3
    MaxAborts = 1
CONSTRAINT OneAuthor
INVARIANT VersionsAgree
PROPERTY EventuallyEverywhere
CHECK_DEADLOCK FALSE

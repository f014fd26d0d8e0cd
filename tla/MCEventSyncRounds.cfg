SPECIFICATION SyncSpec
CONSTANTS
    A = A
    B = B
    Nodes = {A, B}
    Ids = {1, 2}
    Kinds = {"Message", "Metadata"}
    MaxClock = 3
    CompactMin = 1
    Links <- OneWay
    Level <- MCLevel
    TopLevel = 2
    FrameMax = 1
    MaxFollowups = 2
    MaxRounds = 2
    MaxAborts = 0
INVARIANT RoundsBounded
CHECK_DEADLOCK FALSE

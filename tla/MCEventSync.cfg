SPECIFICATION SyncSpec
CONSTANTS
    A = A
    B = B
    Nodes = {A, B}
    Ids = {1, 2, 3, 4}
    Kinds = {"Message"}
    MaxClock = 3
    CompactMin = 1
    Links <- OneWay
    Level <- MCLevel
    TopLevel = 2
    FrameMax = 1
    MaxFollowups = 1
    MaxRounds = 6
    MaxAborts = 0
CONSTRAINT HashesInOrder
INVARIANTS ParentsFirst IndexExact NoEquivocation ClocksCausal
PROPERTIES DoneMeansConverged StuckOnlyOnProfiles
CHECK_DEADLOCK FALSE

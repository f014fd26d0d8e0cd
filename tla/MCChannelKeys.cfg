CONSTANTS
    Seeds = {s1, s2}
    U32Max = 6
    MAX_SKIP = 3
    MAX_SKIPPED_TOTAL = 2
    Receivers = {r1}
    MaxSends = 7
    MaxSnaps = 1
    MaxCrashes = 1
    None = None
SPECIFICATION FairSpec
INVARIANTS
    NoKeyReuse
    OneChainPerEpoch
    SingleUse
    BufferExact
PROPERTIES
    DropsOnlyOldest
    AcceptedReachesLog

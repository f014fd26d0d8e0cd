SPECIFICATION FairSpec
CONSTANTS
    dA = dA
    dB = dB
    dC = dC
    m1 = m1
    m2 = m2
    m3 = m3
    m4 = m4
    Devices = {dA, dB, dC}
    Msgs = {m1, m2, m3, m4}
    From <- MCFrom
    To <- MCTo
    Eligible <- MCTo
    Request <- MCRequest
    UserId <- MCUserId
    MaxCrashes = 2
    MaxFaults = 1
CONSTRAINT OneWorkload
CHECK_DEADLOCK FALSE
INVARIANTS
    PositionSealedOnce
    OneAcceptance
    ReplayApplies
    NoPlaintextLost
PROPERTIES
    KeepsPromise
    EventuallyDelivered

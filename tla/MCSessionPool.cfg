SPECIFICATION FairSpec
CONSTANTS
    d1 = d1
    d2 = d2
    Dials = {d1, d2}
    Routes = {r1}
    Priority <- MCPriority
    Gates = {g1, g2}
    MaxGates = 1
    NoGate = NoGate
    Conns = {c1, c2}
    Loop = Loop
    TotalCap = 3
    MaxEvents = 1
    None = None
INVARIANTS OneAuthentication NoLostHandoff PermitsAccounted
PROPERTIES DialsAdmitted SlotComesFree

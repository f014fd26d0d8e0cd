SPECIFICATION Spec
CONSTANTS
    d1 = d1
    d2 = d2
    Dials = {d1, d2}
    Routes = {r1, r2}
    Priority <- MCPriority
    Gates = {g1, g2}
    MaxGates = 2
    NoGate = NoGate
    Conns = {c1, c2}
    Loop = Loop
    TotalCap = 3
    MaxEvents = 0
    None = None
INVARIANT IdleNeverBlocks

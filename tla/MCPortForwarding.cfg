CONSTANTS
    w1 = w1
    p1 = p1
    r1 = r1
    c1 = c1
    c2 = c2
    g1 = g1
    g2 = g2
    Local = Local
    None = None
    Workers = {w1}
    Ports = {p1, r1}
    Reserved = {r1}
    HostPorts = {p1, r1}
    Conns = {c1, c2}
    Gos = {g1, g2}
    Grants = {c1, c2}
    Declared <- MCDeclared
    Saved <- MCSaved
    MaxEvents = 3
SYMMETRY Symmetry
SPECIFICATION Spec
INVARIANTS
    TypeOK
    ForwardsAreOpen
    OneOwner
    
PROPERTY OnlyOwnEndDemotes
CHECK_DEADLOCK FALSE

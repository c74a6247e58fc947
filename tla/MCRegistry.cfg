CONSTANTS
    w1 = w1
    w2 = w2
    p1 = p1
    p2 = p2
    g1 = g1
    g2 = g2
    None = None
    Workers = {w1, w2}
    Ports = {p1, p2}
    Gos = {g1, g2}
    Found <- MCFound
    MaxEvents = 3
SPECIFICATION Spec
INVARIANTS
    TypeOK
    NoCrossTalk
PROPERTY RegistryConverges
CHECK_DEADLOCK FALSE

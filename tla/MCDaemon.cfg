CONSTANTS
    d1 = d1
    d2 = d2
    d3 = d3
    c1 = c1
    c2 = c2
    p1 = p1
    p2 = p2
    Unset = Unset
    Daemons = {d1, d2, d3}
    Clients = {c1, c2}
    Ports = {p1, p2}
SPECIFICATION DaemonSpec
SYMMETRY MCSymmetry
INVARIANTS
    FoundByClients
    
CHECK_DEADLOCK FALSE

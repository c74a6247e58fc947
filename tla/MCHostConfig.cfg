CONSTANTS
    p1 = p1
    p2 = p2
    g1 = g1
    g2 = g2
    c1 = c1
    None = None
    Cli = Cli
    Empty = Empty
    Torn = Torn
    Passwords = {p1, p2}
    Gos = {g1, g2}
    Codes = {c1}
    MaxEvents = 3
SPECIFICATION Spec
INVARIANTS
    
    OneVerdict
PROPERTY DecisionIsHeard
CHECK_DEADLOCK FALSE

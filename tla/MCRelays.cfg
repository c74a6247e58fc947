CONSTANTS
    w1 = w1
    w2 = w2
    g1 = g1
    g2 = g2
    g3 = g3
    Ticker = Ticker
    Reaper = Reaper
    Handler = Handler
    None = None
    Workers = {w1}
    Gos = {g1, g2, g3}
    MaxEvents = 3
SPECIFICATION RelaysSpec
INVARIANTS
    RelayIsServed
PROPERTY WiredInTheEnd
CHECK_DEADLOCK FALSE

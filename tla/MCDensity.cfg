CONSTANTS
    w1 = w1
    h1 = h1
    Ticker = Ticker
    Reaper = Reaper
    None = None
    Workers = {w1}
    Handlers = {h1}
    Found <- MCFound
    MaxEvents = 2
SPECIFICATION Spec
PROPERTIES
    BusyIsSpared
    
    
CHECK_DEADLOCK FALSE

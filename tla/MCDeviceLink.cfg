CONSTANTS
    c1 = c1
    c2 = c2
    u1 = u1
    Calls = {c1, c2}
    Users = {u1}
    MaxLinks = 2
SPECIFICATION Spec
INVARIANTS
    RightPort
    NoStrayListener
PROPERTIES
    NotTurnedAway
    PortsAreReleased
    HelloIsAnswered
CHECK_DEADLOCK FALSE

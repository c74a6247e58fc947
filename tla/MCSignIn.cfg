CONSTANTS
    p1 = p1
    l1 = l1
    l2 = l2
    l3 = l3
    Temp = Temp
    Wrong = Wrong
    NoPassword = NoPassword
    Chosen = {p1}
    Logins = {l1, l2, l3}
    MaxFails = 3
SPECIFICATION SignInSpec
INVARIANTS
    GuessesBounded
SYMMETRY MCSymmetry
CHECK_DEADLOCK FALSE

CONSTANTS
    w1 = w1
    s1 = s1
    r1 = r1
    r2 = r2
    b1 = b1
    None = None
    Workers = {w1}
    Sessions = {s1}
    Readers = {r1, r2}
    Browsers = {b1}
    StreamCap = 1
    BrowserCap = 1
SPECIFICATION FairSpec
PROPERTY RunningWorkersFollowed
CHECK_DEADLOCK FALSE

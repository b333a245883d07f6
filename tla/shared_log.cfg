CONSTANTS
    Requests = {r1, r2, r3}
    Clients = {c1}
    short = short
    long = long
    Policies = {short, long}
    Limit <- MCLimit
    Window <- MCWindow
    Suffix <- MCSuffix
    Lag = 0
    Ahead = 0
    Cap = 2
    Span = 3
    MaxClock = 4
SPECIFICATION Spec
SYMMETRY RequestSymmetry
INVARIANT WindowLimit
CHECK_DEADLOCK FALSE

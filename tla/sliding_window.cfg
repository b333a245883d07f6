CONSTANTS
    Requests = {r1, r2, r3}
    Clients = {c1}
    short = short
    long = long
    Policies = {short, long}
    Limit <- MCLimit
    Window <- MCWindow
    Suffix <- MCSuffix
    Lag = 1
    Ahead = 1
    Cap = 2
    Span = 1
    MaxClock = 6
SPECIFICATION Spec
SYMMETRY RequestSymmetry
INVARIANTS TypeOK SpanLimit ForgottenOnlyWhenOld
PROPERTIES NeverDeniedEarly
\* The three requests are made once, then nothing is left to do.
CHECK_DEADLOCK FALSE

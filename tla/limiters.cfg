CONSTANTS
    \* the limiters
    Clients = {c1, c2}
    Capacity = 2
    Unit = 2
    Rate = 1
    MaxCalls = 4
    Calls = {1, 2, 3, 4, 5}
    Limit = 2
    Window = 2
    MaxClock = 6
    \* the token check
    expiring = expiring
    lasting = lasting
    Tokens = {expiring, lasting}
    Expiry <- MCExpiry
    Checks = {r1}
    TTLs = {0, 1, 3}
    Behind = 1
    Never = Never
    \* the analyzer and the brain, in units of 5 s
    Goroutines = {g1, g2, g3}
    AITimeout = 2
    Latency = 1
    Interval = 2
    ScaleTimeout = 1
    Jitter = 0
    Rates = {0, 6, 12, 30}
    MinHistory = 5
    MaxHistory = 6
    MinRate = 5
SPECIFICATION AllSpec
INVARIANTS AllTypeOK BudgetKept BurstBelowDouble RevokedStaysOut UsedToLevel LostOnlyToTheClock OverlapBounded
PROPERTIES DeniesOnlyOverBudget DeniedOnlyInFullWindow
\* Calls and requests are bounded and the clock stops.
CHECK_DEADLOCK FALSE

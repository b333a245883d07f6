CONSTANTS
    r1 = r1
    r2 = r2
    Requests = {r1, r2, r3}
    Readers = {x1}
    users = users
    stats = stats
    Keys = {users, stats}
    Words <- MCWords
    Segments <- MCSegments
    Asked <- MCAsked
    Text <- MCText
    Key <- MCKey
    Amount <- MCAmount
    TooMany = {r2}
    Rounds = 2
    None = None
SPECIFICATION FairSpec
INVARIANTS TypeOK HeldIsMapped LinesMeanRequests
PROPERTIES CountersImplemented TotalsNeverGoBack RecordedUnlessPanic
\* Every request is recorded once and a reader reads Rounds times; a panic
\* also stops the rest.
CHECK_DEADLOCK FALSE

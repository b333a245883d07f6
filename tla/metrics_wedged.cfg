CONSTANTS
    r1 = r1
    r2 = r2
    Requests = {r1, r2}
    Readers = {x1}
    users = users
    stats = stats
    Keys = {users, stats}
    Words <- MCWords
    Segments <- MCSegments
    Asked <- MCAsked
    Text <- MCText
    Key <- MCKey
    Amount <- MCAmount
    TooMany = {r2}
    Rounds = 1
    None = None
SPECIFICATION FairSpec
PROPERTY EveryRequestRecorded
\* A panic stops every request: this is what the run shows.
CHECK_DEADLOCK FALSE

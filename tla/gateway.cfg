CONSTANTS
    Requests = {r1, r2}
    Clients = {alice, bob}
    Agents <- MCAgents
    UpstreamCodes = {429}
    None = None
SPECIFICATION FairSpec
INVARIANTS TypeOK OnlyBearersPass CountsMatchAnswers DoneIsAnswered
PROPERTIES StopsUnlessJammed
CHECK_DEADLOCK FALSE

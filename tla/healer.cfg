CONSTANTS
    Nodes = {n1, n2}
    Healers = {n1}
    Targets = {primary, backup}
    Garbled = {garbled}
    Primary = primary
    Faults = {502}
    MinRequests = 2
    FailureLimit = 60
    Workers = {w1, w2}
    MaxTraffic = 2
    MaxPending = 2
    None = None
SPECIFICATION FairSpec
INVARIANTS TypeOK SingleFlight DrainedNodesAgree
PROPERTIES LeavesDeadPrimary

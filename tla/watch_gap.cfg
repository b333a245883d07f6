CONSTANTS
    Nodes = {n1}
    Ids = {i1}
    Limits = {1}
    Routes = {{i1}}
    Scalers = {s1}
    Factor = 2
    MaxRevision = 2
SPECIFICATION FairSpec
PROPERTY WatchersConverge

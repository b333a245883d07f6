CONSTANTS
    Nodes = {n1}
    Ids = {i1, i2}
    Limits = {1}
    Routes = {{i1}, {i1, i2}}
    Scalers = {s1, s2}
    Factor = 2
    MaxRevision = 3
SPECIFICATION FairSpec
INVARIANTS TypeOK CacheIsSnapshot GrowthBounded LookupTrueOfStore
PROPERTIES CacheNeverRegresses SyncedConverge FollowsStore

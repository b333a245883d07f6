CONSTANTS
    Files = {f1, f2}
    MaxRetries = 2
    MaxRuns = 2
SPECIFICATION FairSpec
INVARIANTS TypeOK WorkBounded CleanSlate CommitPastGate
PROPERTIES RunsEnd
CHECK_DEADLOCK FALSE

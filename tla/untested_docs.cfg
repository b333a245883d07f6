CONSTANTS
    Files = {f1}
    MaxRetries = 2
    MaxRuns = 1
SPECIFICATION Spec
INVARIANTS DocWriterAfterPass
CHECK_DEADLOCK FALSE

CONSTANTS
    Requests = {r1, r2}
    MaxMs = 1
    None = None
SPECIFICATION Spec
INVARIANTS UniqueIds
CHECK_DEADLOCK FALSE

CONSTANTS
    Keys = {k1}
    MaxItems = 1
    Workers = {w1}
    ClaimLimit = 1
    SemSize = 1
    Reasons = {"timeout"}
    MaxVersion = 1
    Unstorable = {}
    MaxFaults = 0
    NoRow = NoRow
    NoJob = NoJob
SPECIFICATION Spec
INVARIANTS QueuedRefetchKept
CHECK_DEADLOCK FALSE

CONSTANTS
    Keys = {k1, k2}
    MaxItems = 2
    Workers = {w1}
    ClaimLimit = 1
    SemSize = 1
    Reasons = {"timeout"}
    MaxVersion = 2
    Unstorable = {2}
    MaxFaults = 1
    NoRow = NoRow
    NoJob = NoJob
SPECIFICATION FairSpec
INVARIANTS JobShowsFetching
PROPERTIES ReaderSpec OldestItemServed
CHECK_DEADLOCK FALSE

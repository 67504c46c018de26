CONSTANTS
    Keys = {k1}
    MaxItems = 1
    Workers = {w1}
    ClaimLimit = 1
    SemSize = 1
    Reasons = {"timeout"}
    MaxVersion = 1
    Unstorable = {}
    MaxFaults = 1
    NoRow = NoRow
    NoJob = NoJob
SPECIFICATION FairSpec
PROPERTIES EveryItemFetched
CHECK_DEADLOCK FALSE

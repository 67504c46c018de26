CONSTANTS
    Keys = {k1, k2}
    MaxItems = 2
    Workers = {w1}
    ClaimLimit = 1
    SemSize = 1
    Reasons = {"timeout"}
    MaxVersion = 2
    Unstorable = {1}
    MaxFaults = 2
    NoRow = NoRow
    NoJob = NoJob
SPECIFICATION FairSpec
PROPERTIES RefetchServed SettledOrDropped
CHECK_DEADLOCK FALSE

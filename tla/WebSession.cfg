CONSTANTS
    Tabs = {t1, t2}
    People = {alice, bob}
    TTL = 2
    StateTTL = 1
    MaxSessions = 2
    MaxStates = 2
    MaxTime = 4
    None = None
SPECIFICATION Spec
INVARIANTS TypeOK WritesMatchPage RefusedOnlyForCause LoginRefusedOnlyForCause
PROPERTIES ExpiredSessionsGo
CHECK_DEADLOCK FALSE

CONSTANTS
    i1 = i1
    i2 = i2
    i3 = i3
    a = a
    b = b
    Items <- MCItems
    Tags <- MCTags
    Keys = {"k1", "k2"}
    KeyOf <- MCKeyOf
    Procs = {web1, web2, worker}
    Workers = {worker}
    Ops <- RaceOps
    MaxOps = 4
    NoTx = NoTx
SPECIFICATION Spec
INVARIANTS RowsResolve
PROPERTIES EveryTxEnds
CHECK_DEADLOCK FALSE

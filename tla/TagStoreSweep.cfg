CONSTANTS
    i1 = i1
    i2 = i2
    i3 = i3
    a = a
    b = b
    Items <- MCItems
    Tags <- MCTags
    Keys = {"k1", "k2"}
    KeyOf <- MCKeyOf
    Procs = {web1, web2}
    Workers = {}
    Ops <- SweepOps
    MaxOps = 4
    NoTx = NoTx
SPECIFICATION Spec
INVARIANTS TagsAsLastSaved
CHECK_DEADLOCK FALSE

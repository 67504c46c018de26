CONSTANTS
    i1 = i1
    i2 = i2
    i3 = i3
    a = a
    b = b
    Items <- MCItems
    Tags <- MCTags
    Keys = {"k1", "k2"}
    KeyOf <- MCKeyOf
    Procs = {web, worker}
    Workers = {worker}
    Ops <- EditorOps
    MaxOps = 5
    NoTx = NoTx
    Handlers = {h1, h2, h3}
    MaxConns = 2
    MaxCalls = 2
SPECIFICATION StoreSpec
INVARIANTS StoreTypeOK TagsAsLastSaved NoOrphanTags LeakedHoldsNothing
PROPERTIES StopIsGentle RequestsEnd StopsUnlessLeaked
CHECK_DEADLOCK FALSE

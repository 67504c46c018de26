CONSTANTS
    i1 = i1
    i2 = i2
    i3 = i3
    a = a
    b = b
    Items <- MCItems
    Tags <- MCTags
    Keys = {"k1", "k2"}
    KeyOf <- MCKeyOf
    Procs = {web}
    Workers = {}
    Ops <- LeakOps
    MaxOps = 3
    NoTx = NoTx
SPECIFICATION Spec
PROPERTIES ConnectionsComeBack
CHECK_DEADLOCK FALSE

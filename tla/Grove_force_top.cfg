CONSTANTS
    a = a
    b = b
    None = None
    Keys = {a, b}
    Values = {1}
    Paths <- MCChain
    TreeTypes = {"NormalTree"}
    Callers = {"force_delete_top"}
    MaxEntries = 1
    MaxTxOps = 1
SPECIFICATION Spec
INVARIANTS
    RootKeyFollowsRotations

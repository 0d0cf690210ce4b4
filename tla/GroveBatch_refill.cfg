CONSTANTS
    a = a
    b = b
    None = None
    Keys = {a, b}
    Values = {1}
    Paths <- MCChain
    TreeTypes = {"NormalTree"}
    MaxEntries = 1
    Kinds = {"insert", "insert_error"}
    Policies = {}
    ValidateTree = TRUE
    Refill = TRUE
SPECIFICATION Spec
PROPERTY
    ExistingTreesAreKept

CONSTANTS
    a = a
    b = b
    None = None
    Keys = {a, b}
    Values = {1}
    Paths <- MCChain
    TreeTypes = {"NormalTree", "MmrTree"}
    MaxEntries = 1
    Kinds = {"insert", "insert_skip", "delete", "delete_tree", "append"}
    Policies = {"Error", "Skip", "DeleteChildren"}
    ValidateTree = TRUE
    Refill = FALSE
SPECIFICATION Spec
INVARIANTS
    TypeOK
    BatchesVerify
    BatchesLeaveNothing
PROPERTY
    BatchIsWhole

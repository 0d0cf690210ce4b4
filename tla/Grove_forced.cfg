CONSTANTS
    a = a
    b = b
    None = None
    Keys = {a, b}
    Values = {1}
    Paths <- MCFork
    TreeTypes = {"NormalTree", "MmrTree"}
    Callers = {"transaction", "force_delete", "clear_subtrees"}
    MaxEntries = 1
    MaxTxOps = 1
SPECIFICATION Spec
PROPERTIES
    OperationsAreAtomic

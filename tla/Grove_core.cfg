CONSTANTS
    a = a
    b = b
    None = None
    Keys = {a, b}
    Values = {1}
    Paths <- MCChain
    TreeTypes = {"NormalTree", "ProvableCountTree", "MmrTree"}
    Callers = {"transaction"}
    MaxEntries = 1
    MaxTxOps = 2
SPECIFICATION Spec
INVARIANTS
    TypeOK
    GroveVerifies
    NoKeyLostOrLeft
    PropagationSucceeds
PROPERTY
    OperationsAreAtomic

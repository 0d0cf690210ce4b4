CONSTANTS
    a = a
    b = b
    None = None
    Keys = {a, b}
    Values = {1}
    Paths <- MCChain
    TreeTypes = {"NormalTree", "ProvableCountTree", "MmrTree"}
    Callers = {"override_tree", "force_delete", "clear_subtrees", "clear_unchecked", "clear_non_merk"}
    MaxEntries = 1
    MaxTxOps = 1
SPECIFICATION Spec
INVARIANTS
    MerkTreesVerify

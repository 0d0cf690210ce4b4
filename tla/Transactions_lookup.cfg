CONSTANTS
    Subtrees = {s1}
    Keys = {k1, k2}
    None = None
    Root = Root
    Writers = {t1}
    Readers = {r1}
    Interleave = FALSE
    MaxCommits = 2
SPECIFICATION Spec
INVARIANTS
    ReadersFindWhatStays
SYMMETRY Symmetry

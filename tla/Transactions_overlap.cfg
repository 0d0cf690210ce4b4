CONSTANTS
    Subtrees = {s1, s2}
    Keys = {k1}
    None = None
    Root = Root
    Writers = {t1, t2}
    Readers = {}
    Interleave = TRUE
    MaxCommits = 2
SPECIFICATION Spec
PROPERTIES
    OverlapIsRefused
SYMMETRY Symmetry

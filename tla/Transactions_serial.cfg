CONSTANTS
    Subtrees = {s1}
    Keys = {k1, k2}
    None = None
    Root = Root
    Writers = {t1, t2}
    Readers = {r1}
    Interleave = FALSE
    MaxCommits = 2
SPECIFICATION Spec
INVARIANTS
    TypeOK
    RootBindsSubtrees
    NoLostUpdate
SYMMETRY Symmetry

CONSTANTS
    Root = Root
    A = A
    B = B
    C = C
    D = D
    Subtrees <- MCSubtrees
    ParentOf <- MCParentOf
    NumChunks <- MCNumChunks
    At <- MCAt
    BatchSize = 2
    Answers = {"chunk", "damaged"}
    MaxSessions = 1
SPECIFICATION Spec
INVARIANT
    CommittedIsWhole
CHECK_DEADLOCK FALSE

CONSTANTS
    Root = Root
    A = A
    B = B
    C = C
    D = D
    Subtrees <- MCSubtrees
    ParentOf <- MCParentOf
    NumChunks <- MCNumChunks
    At <- MCAt
    BatchSize = 2
    Answers = {"chunk", "damaged", "empty"}
    MaxSessions = 2
SPECIFICATION FairSpec
INVARIANTS
    TypeOK
    RightAnswersSync
    StoredFromTheTop
PROPERTY
    SessionsEnd
CHECK_DEADLOCK FALSE

CONSTANTS
    MaxKey = 6
    Rewritten = {2, 5}
SPECIFICATION Spec
INVARIANTS
    TypeOK
    TreeIsAvl
    ContentIsTheBatches
    StorageMirrorsTree
    ReopensAsItWas

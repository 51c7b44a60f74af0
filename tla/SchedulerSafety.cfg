SPECIFICATION Spec
CONSTANTS
    NumTxns = 3
    Workers = {w1, w2, w3}
    NoWorker = NoWorker
SYMMETRY WorkerSymmetry
CHECK_DEADLOCK FALSE
INVARIANTS
    TypeOK
    OnlyLockOrderBlocks
    WorkConserved
    CommitPrefix
    DoneSound
    FirstRunFirst
    AllExecutedOnce
    BoundedReexecution
PROPERTIES
    CommitInOrder

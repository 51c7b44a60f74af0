SPECIFICATION ExecFairSpec
CONSTANTS
    NumTxns = 3
    Workers = {w1, w2}
    NoWorker = NoWorker
    Addresses = {a, b}
    InitialBalance = 3
    SigOutcomes = {TRUE}
CHECK_DEADLOCK FALSE
PROPERTIES
    AbortCompletes

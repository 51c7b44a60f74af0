SPECIFICATION ExecFairSpec
CONSTANTS
    NumTxns = 2
    Workers = {w1, w2}
    NoWorker = NoWorker
    Addresses = {a, b}
    InitialBalance = 2
    SigOutcomes = {TRUE}
PROPERTIES
    ExecutedIsCommitted

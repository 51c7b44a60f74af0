SPECIFICATION BenchSpec
CONSTANTS
    NumTxns = 3
    BlockSize = 2
    Addresses = {1, 2, 3, 4}
    InitialBalance = 2
    Fee = 1
    SigOutcomes = {TRUE, FALSE}
    Workers = {w1, w2}
    NoWorker = NoWorker
    MaxThreads = 2
    Faults = {"error"}
    CommandLines <- MCCommandLines
CHECK_DEADLOCK FALSE
INVARIANTS
    BenchTypeOK
    GasAccounted
    SenderPrefix
    StrictRowsExact
    

    

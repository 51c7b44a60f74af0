SPECIFICATION FdbFairSpec
CONSTANTS
    NumTxns = 2
    MaxThreads = 2
    Addresses = {a, b}
    InitialBalance = 2
    SigOutcomes = {TRUE}
    Faults = {"unknown_applied"}
PROPERTIES
    FdbTermination

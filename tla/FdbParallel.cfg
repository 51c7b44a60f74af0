SPECIFICATION FdbFairSpec
CONSTANTS
    NumTxns = 3
    MaxThreads = 4
    Addresses = {a, b, c}
    InitialBalance = 2
    SigOutcomes = {TRUE, FALSE}
    Faults = {"unknown_applied", "unknown_lost", "error"}
INVARIANTS
    FdbTypeOK
    FdbInductive
    LedgerExplained
    SliceProgress
    AllHandled
PROPERTIES
    PerSenderOrder
    ImplementsLooseOrder
    RetriesSucceed

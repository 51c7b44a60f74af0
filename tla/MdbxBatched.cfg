SPECIFICATION BatchSpec
CONSTANTS
    NumTxns = 4
    BlockSize = 3
    Addresses = {a, b, c}
    InitialBalance = 4
    SigOutcomes = {TRUE, FALSE}
SYMMETRY AddressSymmetry
INVARIANTS
    BatchTypeOK
    BlockAtomic
    BlockResultsExact
    GeneratedAllSucceed
PROPERTIES
    ImplementsDurableLedger

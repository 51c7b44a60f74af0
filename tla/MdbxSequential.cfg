SPECIFICATION SeqSpec
CONSTANTS
    NumTxns = 4
    Addresses = {a, b, c}
    InitialBalance = 1
    SigOutcomes = {TRUE, FALSE}
SYMMETRY AddressSymmetry
INVARIANTS
    SeqTypeOK
    DurablePrefix
    RerunIsExact

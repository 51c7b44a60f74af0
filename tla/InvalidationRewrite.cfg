SPECIFICATION RewriteSpec
CONSTANTS
    Addresses = {a, b}
    InitialBalance = 1
    NumReaders = 3
    MaxIncarnation = 1
SYMMETRY AddressSymmetry
CHECK_DEADLOCK FALSE
INVARIANTS
    InvalidationComplete

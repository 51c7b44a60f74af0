SPECIFICATION ExecSpec
CONSTANTS
    NumTxns = 3
    Workers = {w1, w2}
    NoWorker = NoWorker
    Addresses = {a, b, c}
    InitialBalance = 1
    SigOutcomes = {TRUE, FALSE}
SYMMETRY Symmetry
CHECK_DEADLOCK FALSE
INVARIANTS
    ExecTypeOK
    ReadsGoBack
    RejectedLeaveNoTrace
    
    IndependentExact
PROPERTIES
    ImplementsScheduler

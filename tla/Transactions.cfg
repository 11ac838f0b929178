SPECIFICATION FairSpec
CONSTANTS
    Threads = {h1, h2}
    Txns = {t1, t2}
    Ops = {o1, o2}
    Names = {s1}
    MaxSavepoints = 2
    NoTxn = NoTxn
    AllocFails = TRUE
CHECK_DEADLOCK FALSE
INVARIANTS
    TransactionsSound
PROPERTIES
    FinishedIsFinal
    FinishedLeaveTable

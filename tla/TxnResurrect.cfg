SPECIFICATION Spec
CONSTANTS
    Threads = {h1}
    Txns = {t1}
    Ops = {o1, o2}
    Names = {s1, s2}
    MaxSavepoints = 2
    NoTxn = NoTxn
    AllocFails = FALSE
CHECK_DEADLOCK FALSE
INVARIANTS
    UndoneStaysUndone

\* Three transactions lock two documents, shared and exclusive, in any order.
SPECIFICATION Spec
CONSTANTS
    t1 = t1  t2 = t2  t3 = t3
    Txns = {t1, t2, t3}
    Keys = {k1, k2}
    Requests = {r1, r2, r3}
    MaxRetries = 1
    NoTxn = NoTxn  NoKey = NoKey  NoReq = NoReq
    StartTime <- MCStartTime
    InitialDetection = TRUE
    ConfigValues = {}
SYMMETRY Symmetry
INVARIANTS
    LockTableSound
PROPERTIES
    WaitersTakeTurns

\* Three transactions compete for one document, with deadlock detection off.
SPECIFICATION FairSpec
CONSTANTS
    t1 = t1  t2 = t2  t3 = t3
    Txns = {t1, t2, t3}
    Keys = {k1}
    Requests = {r1, r2, r3}
    MaxRetries = 0
    NoTxn = NoTxn  NoKey = NoKey  NoReq = NoReq
    StartTime <- MCStartTime
    InitialDetection = FALSE
    ConfigValues <- OffOnly
PROPERTY CallsReturn

SPECIFICATION Spec
CONSTANTS
    Threads = {h1}
    Checkpoints = {c1, c2}
    Blocks = {b1}
    Txns = {t1}
    Links = {"promoted", "hazard"}
    None = None
    Arena = FALSE
CHECK_DEADLOCK FALSE
INVARIANT NoFault

SPECIFICATION Spec
CONSTANTS
    Threads = {h1, h2}
    Checkpoints = {c1, c2, c3, c4}
    Blocks = {b1, b2}
    Txns = {t1}
    Links = {"promoted", "hazard"}
    None = None
    Arena = FALSE
CHECK_DEADLOCK FALSE
SYMMETRY Symmetry
INVARIANTS
    ListsSound
    
PROPERTIES
    ThreadIsolation

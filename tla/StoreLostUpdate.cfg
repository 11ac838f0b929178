SPECIFICATION Spec
CONSTANTS
    c1 = c1
    c2 = c2
    d1 = d1
    d2 = d2
    k1 = k1
    k2 = k2
    t1 = t1
    t2 = t2
    Clients = {c1, c2}
    Ids = {d1, d2}
    Kinds = {k1, k2}
    Tags = {t1, t2}
    Leaves = {l1, l2, l3}
    NoDoc = NoDoc
    NoLeaf = NoLeaf
    NoResult = NoResult
    AnyId = AnyId
    InitialIds <- StartOne
    KindOf <- OneKind
    Capacity = 1
    Uses <- OnlyUpdates
CHECK_DEADLOCK FALSE
SYMMETRY Symmetry
INVARIANTS
    UpdatesKept

SPECIFICATION Spec
CONSTANTS
    Clients = {c1, c2, c3}
    Keys = {k1}
    Similar <- NoneSimilar
    SemanticMax = 0
    Kinds = {"query", "batch"}
    Droppable = {c1}
    AdminOps = {"pause", "reload"}
    NoKey = NoKey
    Nobody = Nobody
    k1 = k1
    k2 = k2
SYMMETRY Symmetry
INVARIANTS SingleLeader WaiterHasLeader
PROPERTY Coalesces
CHECK_DEADLOCK FALSE

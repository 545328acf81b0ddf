SPECIFICATION FairSpec
CONSTANTS
    Clients = {c1, c2}
    Keys = {k1}
    Similar <- NoneSimilar
    SemanticMax = 0
    Kinds = {"query"}
    Droppable = {c1}
    AdminOps = {}
    NoKey = NoKey
    Nobody = Nobody
    k1 = k1
    k2 = k2
PROPERTY RequestsAnswered
CHECK_DEADLOCK FALSE

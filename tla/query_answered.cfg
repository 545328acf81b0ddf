SPECIFICATION FairSpec
CONSTANTS
    Clients = {c1, c2}
    Keys = {k1, k2}
    Similar <- OneWay
    SemanticMax = 1
    Kinds = {"query", "skip_cache"}
    Droppable = {}
    AdminOps = {}
    NoKey = NoKey
    Nobody = Nobody
    k1 = k1
    k2 = k2
INVARIANTS AnswerFitsQuery
PROPERTY RequestsAnswered

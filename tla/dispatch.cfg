SPECIFICATION FairSpec
CONSTANTS
    N = 2
    Requests = {r1, r2}
    Named = {2}
    Configs <- AllConfigs
INVARIANTS TypeOK PermitsConserved CallBound
PROPERTIES FailedMeansAllTried OkIsBacked RequestsEnd PoolRecovers

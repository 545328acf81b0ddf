SPECIFICATION FairSpec
CONSTANTS
    a = a
    b = b
    c = c
    Nodes = {a, b, c}
    Keys = {k1}
    Writers = {w1, w2}
    Configs <- FollowConfigs
    Buffer = 2
    Ttl = 1
    ReadyPercent = 90
    MaxOps = 3
    MaxClock = 2
INVARIANTS TypeOK FollowerKeysAgree FollowerCatchesUp
PROPERTY BecomesReady

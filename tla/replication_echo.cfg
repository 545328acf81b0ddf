SPECIFICATION FairSpec
CONSTANTS
    a = a
    b = b
    c = c
    Nodes = {a, b}
    Keys = {k1}
    Writers = {w1}
    Configs <- MutualConfigs
    Buffer = 2
    Ttl = 1
    ReadyPercent = 90
    MaxOps = 1
    MaxClock = 2
PROPERTY EventsDieOut

SPECIFICATION FairSpec
CONSTANTS
    Callers = {c1, c2}
    Reloaders = {r1}
    Configs <- TwoConfigs
    MaxCount = 2
INVARIANTS NoLostTrip NoLostClose
PROPERTY CallsReturn
CHECK_DEADLOCK FALSE

SPECIFICATION FairSpec
CONSTANTS
    Callers = {c1, c2}
    Reloaders = {r1}
    Configs <- OneConfig
    MaxCount = 2
PROPERTY ReloadReturns
CHECK_DEADLOCK FALSE

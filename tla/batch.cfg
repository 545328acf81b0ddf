SPECIFICATION FairSpec
CONSTANTS
    k1 = k1
    k2 = k2
    N = 3
    Keys = {k1, k2}
    Configs <- SomeConfigs
INVARIANTS ParallelBound AnswerAddsUp LeaderAtWork
PROPERTIES Coalesces BatchAnswered ItemsFinish

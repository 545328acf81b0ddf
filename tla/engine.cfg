SPECIFICATION FairSpec
CONSTANTS
    Keys = {1, 2}
    Writers = {w1}
    Tasks = {t1}
    Capacities = {1, 2}
    MaxAnswers = 2
INVARIANTS WriteThrough ClearIsDurable
PROPERTIES StaleIsTried FileReleased

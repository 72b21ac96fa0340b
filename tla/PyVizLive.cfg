SPECIFICATION Spec
CONSTANTS
    Periods = {1}
    TimerIds = {1, 2, 3}
    MaxNested = 1
    MaxTime = 2
    MaxPauses = 1
CHECK_DEADLOCK FALSE
PROPERTIES
    PlayProgress
    PauseTakesEffect
    QuitEnds

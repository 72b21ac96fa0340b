SPECIFICATION Spec
CONSTANTS
    Periods = {1, 2}
    TimerIds = {1, 2, 3}
    MaxNested = 2
    MaxTime = 3
    MaxPauses = 1
INVARIANTS
    TypeOK
    NotAheadOfView
    PausesConserved
    PlayingIsTimed

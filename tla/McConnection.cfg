SPECIFICATION Spec
CONSTANTS
    LteCell = 9
    Cells = {1, 2, 3}
    Modes = {"threshold", "ttt"}
    SinrLevels = {0, 1, 3}
    OutageThreshold = 1
    LteHysteresis = 1
    SinrThresholdDifference = 1
    MaxDecisions = 3
    MaxMishaps = 1
INVARIANTS
    TypeOK
    ScheduledHandoverIsCurrent
    SetupMeansIdle
    ServedByItsContext
    HandlersAccept
    ForwardingMeansLeaving
    DownlinkPath
PROPERTIES
    HandoverEnds
    SecondaryCellIsSetUp

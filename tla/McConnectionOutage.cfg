SPECIFICATION Spec
CONSTANTS
    LteCell = 9
    Cells = {1, 2}
    Modes = {"threshold"}
    SinrLevels = {0, 1, 3}
    OutageThreshold = 1
    LteHysteresis = 1
    SinrThresholdDifference = 1
    MaxDecisions = 2
    MaxMishaps = 1
PROPERTY
    OutageAtInitialAccessEnds

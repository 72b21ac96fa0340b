\* Re-segmentation: does somebody always act.
SPECIFICATION Spec
CONSTANTS
    Modulus = 4
    WindowSize = 2
    HdrLen = 2
    OppSizes = {3, 4}
    MinDataOpp = 3
    SduSizes = {2}
    MaxTxBufferSize = 4
    RetxAlwaysBigEnough = FALSE
    MaxAccepted = 4
    NackCaps = {1}
    DataCap = 2
    StatusCap = 1
CHECK_DEADLOCK FALSE
INVARIANT
    NoSilentStall

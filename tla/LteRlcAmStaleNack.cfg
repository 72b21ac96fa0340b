\* A STATUS PDU with a NACK is overtaken by the next.
SPECIFICATION Spec
CONSTANTS
    Modulus = 8
    WindowSize = 4
    HdrLen = 2
    OppSizes = {3}
    MinDataOpp = 3
    SduSizes = {1}
    MaxTxBufferSize = 2
    RetxAlwaysBigEnough = TRUE
    MaxAccepted = 3
    NackCaps = {2}
    DataCap = 2
    StatusCap = 2
CHECK_DEADLOCK FALSE
INVARIANT
    NackedIsBuffered

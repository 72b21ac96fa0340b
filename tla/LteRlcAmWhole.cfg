\* Whole PDUs only, a window of four: enough for a poll that no PDU carries.
SPECIFICATION Spec
CONSTANTS
    Modulus = 8
    WindowSize = 4
    HdrLen = 2
    OppSizes = {3}
    MinDataOpp = 3
    SduSizes = {1}
    MaxTxBufferSize = 2
    RetxAlwaysBigEnough = TRUE
    MaxAccepted = 4
    NackCaps = {1}
    DataCap = 2
    StatusCap = 1
CHECK_DEADLOCK FALSE
INVARIANTS
    ReorderingOK
    WindowsNested
    SilentOnlyIfPollDue
PROPERTY
    VrMsNeverRetreats

\* Whole PDUs only, as in the end-to-end tests, with fairness.
SPECIFICATION FairSpec
CONSTANTS
    Modulus = 4
    WindowSize = 2
    HdrLen = 2
    OppSizes = {3}
    MinDataOpp = 3
    SduSizes = {1}
    MaxTxBufferSize = 2
    RetxAlwaysBigEnough = TRUE
    MaxAccepted = 5
    NackCaps = {1}
    DataCap = 2
    StatusCap = 1
CHECK_DEADLOCK FALSE
PROPERTIES
    AllAcknowledged
    ImplementsService

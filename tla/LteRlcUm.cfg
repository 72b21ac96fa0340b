\* Small PDUs: an SDU needs up to three, or two SDUs share one.
SPECIFICATION Spec
CONSTANTS
    Modulus = 6
    WindowSize = 3
    MaxLi = 2047
    SkipsUnexpectedRest = TRUE
    OppSizes = {3, 6}
    SduSizes = {1, 3}
    MaxTxBufferSize = 4
    MaxAccepted = 4
    DataCap = 2
    ReorderingIsPrompt = TRUE
CHECK_DEADLOCK FALSE
INVARIANTS
    WholeSdusInOrder
    WindowOK
    NothingWaitsUntimed
    LossExplained

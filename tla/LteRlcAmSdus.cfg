\* SDUs of which several go into one PDU, SDUs that need several PDUs, and SDUs
\* larger than a length indicator can tell.
SPECIFICATION Spec
CONSTANTS
    Modulus = 4
    WindowSize = 2
    MaxLi = 5
    SkipsUnexpectedRest = FALSE
    OppSizes = {7, 11, 17}
    MinDataOpp = 7
    SduSizes = {1, 2, 6}
    MaxTxBufferSize = 12
    MaxAccepted = 4
CHECK_DEADLOCK FALSE
INVARIANTS
    EverySduInOrder
    PduFits

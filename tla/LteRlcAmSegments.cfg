\* Re-segmentation: PDUs of up to 2 bytes, retransmission opportunities for 2, 1 or
\* no byte of the data field.  Nothing more happens once everything is delivered.
SPECIFICATION Spec
CONSTANTS
    Modulus = 4
    WindowSize = 2
    HdrLen = 2
    OppSizes = {1, 3, 4}
    MinDataOpp = 3
    SduSizes = {2}
    MaxTxBufferSize = 4
    RetxAlwaysBigEnough = FALSE
    MaxAccepted = 4
    NackCaps = {1}
    DataCap = 2
    StatusCap = 1
CHECK_DEADLOCK FALSE
INVARIANTS
    TypeOK
    TxBuffersOK
    SizesExact
    RxWindowOK
    InOrderExactlyOnce
    NothingForgotten
    HolBuffered

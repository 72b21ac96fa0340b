\* SNs at the edges of the bit fields: every octet boundary splits a NACK that
\* has ones on both sides of it.
SPECIFICATION Spec
CONSTANTS
    Modulus = 1024
    WindowSize = 512
    Width = 65536
    OppBytes = {4, 5, 6, 7, 8, 9, 10, 11, 12}
    SomeSNs = {0, 1, 31, 64, 341, 511, 512, 682, 1023}
CHECK_DEADLOCK FALSE
INVARIANTS
    RoundTrip
    OverrunIsOneOctet
    OperatorsAgree
    RebaseKeepsOrder

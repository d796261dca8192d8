CONSTANTS
    UDP_RX_MAX_PACKETS = 2
    PBUF_POOL_SIZE = 6
    TxPbufs = 2
    Shapes <- MCShapes
    MaxArrivals = 5
    NULL = NULL
SPECIFICATION Spec
INVARIANTS TypeOK RearAhead PbufsAccounted
PROPERTIES RefinesDatagramQueue DatagramHandedOut

CONSTANTS
    MAX_CLIENTS = 2
    Pcbs = {a1, a2}
    Ports = {7}
    Handles = {h1}
    NULL = NULL
    GenMax = 3
    MaxAccepts = 2
    MaxQueue = 1
SPECIFICATION FairSpec
PROPERTIES AvailableReachesAll ClosedPcbFreed

CONSTANTS
    MAX_CLIENTS = 1
    Pcbs = {a1, a2}
    Ports = {7}
    Handles = {h1}
    NULL = NULL
    GenMax = 3
    MaxAccepts = 3
    MaxQueue = 1
SPECIFICATION Spec
PROPERTY AcceptOnce

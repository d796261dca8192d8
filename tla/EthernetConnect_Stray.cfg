SPECIFICATION Spec
CONSTANTS
    NULL = NULL
    Pcbs = {b1, b2}
    KeepLimit = 1
INVARIANT NoStrayClose

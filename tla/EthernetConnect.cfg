SPECIFICATION FairSpec
CONSTANTS
    NULL = NULL
    Pcbs = {b1, b2}
    KeepLimit = 2
INVARIANTS TypeOK HandleValid OldConnectionSilent
PROPERTIES ConnectReturns DeadPeerDropped

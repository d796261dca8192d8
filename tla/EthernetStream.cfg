CONSTANTS
    TCP_WND = 4
    MaxSeg = 3
    MaxEmpty = 2
    MaxBytes = 6
    MaxConns = 2
SPECIFICATION FairSpec
INVARIANTS TypeOK BuffersReturned CloseIsClean
PROPERTY RefinesByteStream WindowNeverStuck
CHECK_DEADLOCK FALSE

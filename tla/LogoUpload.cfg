CONSTANTS
    NBlocks = 2
    retries = 2
    IdentTries = 2
    LockPolls = 2
    MaxCycles = 1
    MaxPresses = 2
SPECIFICATION Spec
INVARIANTS TypeOK PassedMeansWritten OkMeansTransferred LockedMeansUntouched
PROPERTY Terminates
CHECK_DEADLOCK FALSE

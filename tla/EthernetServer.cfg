CONSTANTS
    MAX_CLIENTS = 2
    Pcbs = {a1, a2, a3}
    Ports = {7}
    Handles = {h1}
    NULL = NULL
    GenMax = 2
    MaxAccepts = 3
    MaxQueue = 1
SYMMETRY Symmetry
SPECIFICATION Spec
INVARIANTS TypeOK CallbackOwnsSlot SlotNeverDangles QueueIsolated HandleIdentity
PROPERTIES StopClosesOwn ClaimedOnce

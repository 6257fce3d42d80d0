SPECIFICATION Spec
CONSTANTS
    Codes = {1, 2}
    MaxConns = 2
    MaxRooms = 2
    MaxFrames = 1
    MaxRemote = 1
INVARIANTS
    NoOrphanFlush
CHECK_DEADLOCK FALSE

SPECIFICATION FairSpec
CONSTANTS
    Codes = {1, 2}
    MaxConns = 2
    MaxRooms = 2
    MaxFrames = 1
    MaxRemote = 1
INVARIANTS
    TypeOK
    DoneIffReady
    OneLiveRoom
    StoppedIsSilent
PROPERTIES
    LeaveCompletes
CHECK_DEADLOCK FALSE

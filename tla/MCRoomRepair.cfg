SPECIFICATION Spec
CONSTANTS
    Peers = {1, 2}
    Personas = {}
    MaxMessages = 3
    SyncLimit = 2
    ChanCap = 1
    MaxSends = 2
    Syncers = {2}
INVARIANTS
    RepairLists
CHECK_DEADLOCK FALSE

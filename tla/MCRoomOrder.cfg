SPECIFICATION Spec
CONSTANTS
    Peers = {1, 2, 3}
    Personas = {}
    MaxMessages = 3
    SyncLimit = 2
    ChanCap = 1
    MaxSends = 3
    Syncers = {}
INVARIANTS
    ReplicasAgree
CHECK_DEADLOCK FALSE

SPECIFICATION FairSpec
CONSTANTS
    Peers = {1, 2}
    Personas = {1}
    MaxMessages = 3
    SyncLimit = 2
    ChanCap = 1
    MaxSends = 3
    Syncers = {2}
INVARIANTS
    TypeOK
    CausalClocks
    ScreenIsKnown
    HonestNeverFork
    
    ReplicasAgree
PROPERTIES
    SyncSettles
    ImplementsAbs
CHECK_DEADLOCK FALSE

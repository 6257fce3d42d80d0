SPECIFICATION Spec
CONSTANTS
    Peers = {1, 2}
    MaxMessages = 2
    MaxCalls = 8
    Messages <- MCMessages
INVARIANTS
    TypeOK
    IdsMatchList
    
    AcceptanceExact
    VerifiedOnce
    
PROPERTIES
    
    ImplementsAbs
CHECK_DEADLOCK FALSE

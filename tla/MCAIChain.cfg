SPECIFICATION ChainSpec
CONSTANTS
    Peers = {1, 2}
    HardStop = 2
    MaxHistory = 3
    HumanKinds <- ToOneOrAll
    AIKinds <- AskOrSay
    MaxHumans = 2
INVARIANTS
    ChainTypeOK
    
PROPERTIES
    ReplyComesLast
    HumansGetATurn
CHECK_DEADLOCK FALSE

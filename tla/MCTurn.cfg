SPECIFICATION FairSpec
CONSTANTS
    Words = {"hey"}
    Names = {"ann", "bob"}
    Models = {"big", "small"}
    FallbackModels <- OneFallback
    Installed = {"small"}
    Lookback = 2
    AtAllCooldown = 1
    MaxTime = 1
    MaxTurns = 2
    MaxEdits = 1
INVARIANTS
    TypeOK
    AtAllSpaced
PROPERTIES
    MustAnswered
    
CHECK_DEADLOCK FALSE

SPECIFICATION Spec
CONSTANTS
    Stores = {"room"}
    Limits = {1, 2}
    CrashInSave = FALSE
    MaxFacts = 5
INVARIANTS
    TypeOK
    NothingForgotten
PROPERTIES
    ImplementsAbs
CHECK_DEADLOCK FALSE

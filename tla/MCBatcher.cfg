SPECIFICATION FairSpec
CONSTANTS
    Callers = {"relay", "socket"}
    Capacity = 3
    MaxAdds = 4
INVARIANTS
    TypeOK
    EachMessageOnce
    NoneStranded
PROPERTIES
    AllHandled
CHECK_DEADLOCK FALSE

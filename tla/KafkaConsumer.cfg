SPECIFICATION Spec
CONSTANTS
    Consumer = {c1, c2}
    Nobody = nobody
    Messages = 3
    Retry = 1
    Polling = 2
    Reset = "latest"
    Unreadable = {3}
    MaxStops = 2
INVARIANTS
    DoneBeforeCommitted
PROPERTIES
    OwnerWorksOff
CHECK_DEADLOCK FALSE

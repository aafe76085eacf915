SPECIFICATION Spec
CONSTANTS
    Consumer = {c1}
    Nobody = nobody
    Messages = 3
    Retry = 3
    Polling = 2
    Reset = "earliest"
    Unreadable = {1}
    MaxStops = 2
PROPERTIES
    NullValuesAreHandled
CHECK_DEADLOCK FALSE

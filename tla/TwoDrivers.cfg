SPECIFICATION Spec
CONSTANTS
    Slot = {r1, r2}
    Trip = "trip"
    None = "none"
    Task = {"accept", "drop"}
    Todo = {"accept_trip"}
    taskOf <- MCtaskOf
    taskType <- MCtaskType
    todoType <- MCtodoType
    Required = {"accept_trip"}
    CancelStatus = {}
    Faults = {}
    InOrder = TRUE
INVARIANTS
    AcceptedOnce
CHECK_DEADLOCK FALSE

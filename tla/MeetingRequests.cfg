SPECIFICATION Spec
CONSTANTS
    Slot = {r1, r2}
    Trip = "trip"
    None = "none"
    Task = {"accept", "pickup"}
    Todo = {"accept_trip", "pickup_set_off", "pickup_done"}
    taskOf <- MCtaskOf
    taskType <- MCtaskType
    todoType <- MCtodoType
    Required = {"accept_trip", "pickup_set_off", "pickup_done"}
    CancelStatus = {"CANCELLED", "FAILED"}
    Faults = {"call", "restore"}
    InOrder = FALSE
SYMMETRY Slots
INVARIANTS
    StatusHasCause
    LastCancelClosesTrip
CHECK_DEADLOCK FALSE

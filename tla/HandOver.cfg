SPECIFICATION Spec
CONSTANTS
    Slot = {r1, r2}
    Trip = "trip"
    None = "none"
    Task = {"accept", "pickup"}
    Todo = {"accept_trip", "pickup_set_off", "pickup_check_in", "pickup_done"}
    taskOf <- MCtaskOf
    taskType <- MCtaskType
    todoType <- MCtodoType
    Required = {"accept_trip", "pickup_set_off", "pickup_check_in", "pickup_done"}
    CancelStatus = {}
    Faults = {"write"}
    InOrder = FALSE
INVARIANTS
    HandedOverTaskIsComplete
CHECK_DEADLOCK FALSE

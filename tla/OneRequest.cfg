SPECIFICATION Spec
CONSTANTS
    Slot = {r1}
    Trip = "trip"
    None = "none"
    Task = {"accept", "pickup", "drop", "drop2", "back"}
    Todo = {"accept_trip", "pickup_set_off", "pickup_done", "drop_set_off", "drop_summary", "drop_pod", "drop_done", "drop2_receipt", "back_set_off", "back_check_in"}
    taskOf <- MCtaskOf
    taskType <- MCtaskType
    todoType <- MCtodoType
    Required = {"accept_trip", "pickup_set_off", "pickup_done", "drop_set_off", "drop_summary", "drop_pod", "drop_done", "drop2_receipt", "back_set_off", "back_check_in"}
    CancelStatus = {"CANCELLED"}
    Faults = {"write", "ack", "call", "read"}
    InOrder = TRUE
INVARIANTS
    ClosedTripHasNoOpenTask
    AcceptedOnce
    CancelledOnce
    AcceptedTripHasTransport
    OrderShowsTripStatus
PROPERTIES
    RequestIsAtomic

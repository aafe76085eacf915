SPECIFICATION Spec
CONSTANTS
    Ref = {r1, r2, r3}
    NoRef = none
    ExtraCOD = TRUE
    Faults = {"refuse", "timeout", "write", "restore", "crash"}
INVARIANTS
    NoForgottenHold
    UnderWayIsBacked
    DeliveredIsSettled
    SettledOnce
CHECK_DEADLOCK FALSE

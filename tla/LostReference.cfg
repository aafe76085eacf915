SPECIFICATION Spec
CONSTANTS
    t1 = t1
    t2 = t2
    t3 = t3
    d1 = d1
    r1 = r1
    r2 = r2
    r3 = r3
    Trip = {t1, t2}
    Driver = {d1}
    Request = {r1, r2, r3}
    Note = {}
    Allowed = {t1, t2}
    Wallet = {t1}
    Limit = 0
    MaxMonth = 1
    MaxFaults = 1
    None = None
    MaxEvents = 3
SYMMETRY Requests
CONSTRAINT Instance
INVARIANTS
    AcceptedTripHasItsReference
CHECK_DEADLOCK FALSE

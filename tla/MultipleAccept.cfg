SPECIFICATION Spec
CONSTANTS
    t1 = t1
    t2 = t2
    t3 = t3
    d1 = d1
    r1 = r1
    r2 = r2
    r3 = r3
    n1 = n1
    Trip = {t1, t2, t3}
    Driver = {d1}
    Request = {r1, r2, r3}
    Note = {n1}
    Allowed = {t1, t2, t3}
    Wallet = {t1, t2, t3}
    Limit = 2
    MaxMonth = 2
    MaxFaults = 2
    None = None
    MaxEvents = 4
SYMMETRY Interchangeable
CONSTRAINT Instance
INVARIANTS
    LimitKept
    NumbersAreFresh
    SameReference
    MetadataKept
CHECK_DEADLOCK FALSE

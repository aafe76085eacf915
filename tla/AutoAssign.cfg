SPECIFICATION Spec
CONSTANTS
    d1 = d1
    d2 = d2
    c1 = c1
    c2 = c2
    j1 = j1
    j2 = j2
    Task <- Names
    Driver = {d1, d2}
    Job = {j1, j2}
    Call = {c1, c2}
    Window <- MCWindow
    Open = {"k1", "k2"}
    Pool <- MCPool
    Appointed = {"appointment", "tomorrow"}
    Tomorrow = {"tomorrow"}
    Length <- MCLength
    Due <- MCDue
    Cases <- MCCases
    MaxTrips = 3
    MaxFaults = 2
    NoTrip = NoTrip
    NoJob = NoJob
INVARIANTS
    TypeOK
    TaskInOneTrip
    AssignedTimeIsFree
    AssignedInTime
    AssignedOnce
PROPERTIES
    UndoneLeavesNoTrace
    NumberedInOrder
CHECK_DEADLOCK FALSE

SPECIFICATION Spec
CONSTANTS
    t1 = t1
    t2 = t2
    s1 = s1
    s2 = s2
    j1 = j1
    j2 = j2
    j3 = j3
    Task = {t1, t2}
    Staff = {s1, s2}
    NoStaff = NoStaff
    FormerStaff = {s2}
    StaffLists <- MCStaffLists
    Team = {"blue", "red"}
    NoTeam = NoTeam
    teamOf <- MCteamOf
    NoTime = NoTime
    Process = {p1, p2}
    Nobody = Nobody
    NoDoc = NoDoc
    Job = {j1, j2, j3}
    NoJob = NoJob
    work <- MCwork
    about <- MCabout
    Status = {"PENDING", "CANCELLED"}
    Polling = 2
    Hits = 1
    Cases <- MCCases
    Queries <- MCQueries
    Times <- MCTimes
INVARIANTS
    IndexShowsTask
    SearchShowsMonitorList
    SummaryCountsOnce
PROPERTIES
    UndoneStepLeavesTask
    ShownInTheEnd
CHECK_DEADLOCK FALSE

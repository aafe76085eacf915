----------------------------- MODULE TaskSearch -----------------------------
(***************************************************************************)
(* What a dispatcher is shown of the tasks: the document the search index  *)
(* keeps of a task (domains/task/wfm/enrichESTask.js), the search of the   *)
(* index (domains/wfm/task/search.js), the list that is read from the      *)
(* tasks themselves (findMonitorListTasks.js), and the summary of tasks by *)
(* deadline (findSLASummary.js).  Everything here is a pure function.      *)
(*                                                                         *)
(* A query names staffs, areas, teams and a period.  A place says what no  *)
(* write here changes of a task: its area as the order gave it (area) and  *)
(* as the map has it (geography), its team, when it is planned (from, to)  *)
(* and due (deadline), when it was completed and whether it has a trip.    *)
(***************************************************************************)
EXTENDS TripStatus, Integers, Sequences, FiniteSets

CONSTANTS
    Staff, NoStaff,
    FormerStaff,  \* staffs whose accounts are deleted
    Team, NoTeam,
    teamOf,       \* of each staff: the first of his teams
    NoTime        \* a task that was never completed

WFM_ASSIGN_TASK_STATUS == {"TODO", "DOING", "DONE", "PENDING"}
WFM_UNASSIGN_TASK_STATUS == {"FAILED", "NEW"}
WFM_CANCELLED_TASK_STATUS == "CANCELLED"

(***************************************************************************)
(* enrichESTask.                                                           *)
(***************************************************************************)
getStatusSequence(status) ==
    CASE status \in WFM_UNASSIGN_TASK_STATUS -> 1
      [] status \in WFM_ASSIGN_TASK_STATUS -> 2
      [] status = WFM_CANCELLED_TASK_STATUS -> 3
      [] OTHER -> 4

findSourceSystem(doc) == IF doc.source = "QRUN" THEN "INSTALLATION" ELSE "ASSURANCE"

\* Of the staffs of a task the index keeps the first, if his account is not
\* deleted.
StaffId(doc) ==
    IF doc.staffs = <<>> \/ Head(doc.staffs) \in FormerStaff THEN NoStaff ELSE Head(doc.staffs)

TeamId(doc, place) ==
    IF place.team # NoTeam THEN place.team
    ELSE IF StaffId(doc) = NoStaff THEN NoTeam ELSE teamOf[StaffId(doc)]

enrichInstallationTask(doc, place) ==
    [sourceSystem |-> "INSTALLATION", status |-> doc.status,
     statusSequence |-> getStatusSequence(doc.status), staffId |-> StaffId(doc),
     teamId |-> TeamId(doc, place), customer |-> doc.order, tracking |-> doc.tracking,
     updatedAt |-> doc.at]

\* The customer comes from another part of the task, and tracking is left out.
enrichAssuranceTask(doc, place) ==
    [sourceSystem |-> "ASSURANCE", status |-> doc.status,
     statusSequence |-> getStatusSequence(doc.status), staffId |-> StaffId(doc),
     teamId |-> TeamId(doc, place), updatedAt |-> doc.at]

enrichESTask(doc, place) ==
    IF findSourceSystem(doc) = "INSTALLATION" THEN enrichInstallationTask(doc, place)
                                              ELSE enrichAssuranceTask(doc, place)

(***************************************************************************)
(* WfmTasksSearch: one search for three groups of tasks.                   *)
(***************************************************************************)
Planned(query, place) == place.from >= query.from /\ place.to <= query.to

\* Slip: the index has no task that is waiting.
AssignedWithoutPending(query, place, doc) ==
    /\ query.staffs = {} \/ doc.staffId \in query.staffs
    /\ Planned(query, place)
    /\ doc.status \in {"TODO", "DOING", "DONE", "RETURNED"}

generateAssignedTaskQuery(query, place, doc) ==
    /\ query.staffs = {} \/ doc.staffId \in query.staffs
    /\ Planned(query, place)
    /\ doc.status \in WFM_ASSIGN_TASK_STATUS \cup {"RETURNED"}

\* Assurance tasks are looked for by the area the map has them in,
\* installation tasks by team.
InAreaOrTeam(query, place, doc) ==
    \/ doc.sourceSystem = "ASSURANCE" /\ place.geography \in query.areaCodes
    \/ doc.sourceSystem = "INSTALLATION" /\ doc.teamId \in query.teams

generateUnassignedTaskQuery(query, place, doc) ==
    InAreaOrTeam(query, place, doc) /\ doc.status \in WFM_UNASSIGN_TASK_STATUS

generateCancelledTaskQuery(query, place, doc) ==
    /\ InAreaOrTeam(query, place, doc)
    /\ doc.updatedAt >= query.from /\ doc.updatedAt <= query.to
    /\ doc.status = WFM_CANCELLED_TASK_STATUS

search(query, place, doc) ==
    \/ generateAssignedTaskQuery(query, place, doc)
    \/ /\ query.areaCodes # {} \/ query.teams # {}
       /\ \/ generateUnassignedTaskQuery(query, place, doc)
          \/ generateCancelledTaskQuery(query, place, doc)

(***************************************************************************)
(* wfmFindMonitorListTasks: the same three groups, from the tasks, with    *)
(* the area the order gave and any of the staffs.                          *)
(***************************************************************************)
SomeStaff(query, task) == \E i \in DOMAIN task.staffs : task.staffs[i] \in query.staffs

wfmFindMonitorListTasks(query, place, task) ==
    /\ ~task.deleted
    /\ \/ /\ task.status \in WFM_UNASSIGN_TASK_STATUS
          /\ place.area \in query.areaCodes
       \/ /\ task.status \in WFM_ASSIGN_TASK_STATUS
          /\ Planned(query, place)
          /\ SomeStaff(query, task)
       \/ /\ task.status = WFM_CANCELLED_TASK_STATUS
          /\ task.at >= query.from /\ task.at <= query.to
          /\ place.area \in query.areaCodes

(***************************************************************************)
(* findSLASummary: nine counts, three groups in three classes.  Times are  *)
(* ticks, fifteen minutes are Quarter; the text of a deadline is read as   *)
(* the time the summary compares it with.                                  *)
(***************************************************************************)
Quarter == 2

assignedTaskFilter(query, place, task) ==
    /\ ~task.deleted
    /\ SomeStaff(query, task)
    /\ place.from >= query.from /\ place.to < query.to

\* In one of the areas, with neither driver nor trip.
Unplanned(query, place, task) ==
    /\ ~task.deleted
    /\ place.area \in query.areaCodes
    /\ task.staffs = <<>> /\ ~place.hasTrip

unassignedTaskFilter(query, place, task) ==
    Unplanned(query, place, task) /\ task.status \in {"FAILED", "PENDING"}

cancelledTask(query, place, task) ==
    Unplanned(query, place, task) /\ task.status = "CANCELLED"

cancelledTaskFilter(query, place, task) ==
    /\ cancelledTask(query, place, task)
    /\ task.at >= query.from /\ task.at < query.to

\* Slip: the deadline itself is late already, and a warning still.
ClassesAtOnce(time, deadline) ==
    (IF time >= deadline THEN {"timeout"} ELSE {})
        \cup (IF time + Quarter > deadline /\ time <= deadline THEN {"warning"} ELSE {})
        \cup (IF time + Quarter <= deadline THEN {"normal"} ELSE {})

AssignedClassesAtOnce(place, task, now) ==
    IF task.status # "DONE" THEN ClassesAtOnce(now, place.deadline)
    ELSE IF place.completedAt = NoTime THEN {"normal"}
         ELSE ClassesAtOnce(place.completedAt, place.deadline)

ClassesAt(time, deadline) ==
    (IF time > deadline THEN {"timeout"} ELSE {})
        \cup (IF time + Quarter > deadline /\ time < deadline THEN {"warning"} ELSE {})
        \cup (IF time + Quarter <= deadline THEN {"normal"} ELSE {})

\* A task that is done is measured by when it was completed; no time is less
\* than any deadline.
AssignedClasses(place, task, now) ==
    IF task.status # "DONE" THEN ClassesAt(now, place.deadline)
    ELSE IF place.completedAt = NoTime THEN {"normal"}
         ELSE ClassesAt(place.completedAt, place.deadline)

OtherClasses(deadline, now) ==
    (IF deadline < now THEN {"timeout"} ELSE {})
        \cup (IF deadline < now + Quarter /\ deadline > now THEN {"warning"} ELSE {})
        \cup (IF deadline > now + Quarter THEN {"normal"} ELSE {})

\* The query for cancelled tasks that are nearly due has an $and of its own,
\* which takes the place of the period in the filter it spreads.
CancelledClasses(query, place, task, now) ==
    {class \in OtherClasses(place.deadline, now) :
        IF class = "warning" THEN cancelledTask(query, place, task)
                             ELSE cancelledTaskFilter(query, place, task)}

findSLASummary(query, place, task, now) ==
    (IF assignedTaskFilter(query, place, task)
     THEN {"assigned"} \X AssignedClasses(place, task, now) ELSE {})
        \cup (IF unassignedTaskFilter(query, place, task)
              THEN {"unassigned"} \X OtherClasses(place.deadline, now) ELSE {})
        \cup {"cancelled"} \X CancelledClasses(query, place, task, now)
=============================================================================

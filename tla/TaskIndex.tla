----------------------------- MODULE TaskIndex -----------------------------
(***************************************************************************)
(* The dispatcher's list of tasks.  Tasks are documents that requests,     *)
(* sagas and workers write; every write is published to a topic.  The      *)
(* worker TaskMonitorList takes the messages in order, reads the task      *)
(* again and writes what it found into a search index                      *)
(* (workers/wfm/taskMonitorList.worker.js, domains/task/wfm/enrichESTask). *)
(* Its callback swallows every error, so a message that failed is not      *)
(* tried again; an administrator's sync (domains/wfm/task/syncTaskData.js) *)
(* compares tasks and index and touches the tasks that are missing.  The   *)
(* dispatcher searches the index (search.js), the old list reads the       *)
(* tasks themselves (findMonitorListTasks.js).                             *)
(*                                                                         *)
(* Of the consumer only what KafkaConsumer promises is assumed: a batch is *)
(* handled in order, a process that lost the partition goes on with its    *)
(* batch, and the next owner may begin at any message with nothing undone  *)
(* before it.  Messages are numbered, and updatedAt is the number of the   *)
(* task's last message.                                                    *)
(***************************************************************************)
EXTENDS TaskSearch, Sequences

CONSTANTS
    Task,
    StaffLists,   \* the lists of staffs requests put on a task
    Process,      \* processes of the worker's consumer group
    Nobody, NoDoc,
    Job,          \* Melonade steps
    NoJob,
    work,         \* what each is called for: its kind and its tasks
    about,        \* of each task: where it is, when it is planned and due
    Status,       \* the statuses requests ask for
    Polling,      \* maximumPollingMessages
    Hits,         \* how many documents a search returns at most
    Cases,        \* situations: whose the tasks are, which of them the index
                  \* lacks, which steps are called, and how often requests
                  \* write, syncs run and calls fail (bounds)
    Queries,      \* what dispatchers ask for
    Times         \* when the summary is asked for

\* The documents of the index (enrichInstallationTask, enrichAssuranceTask).
IndexDoc ==
    [sourceSystem: {"INSTALLATION"}, status: Status, statusSequence: 1..4,
     staffId: Staff \cup {NoStaff}, teamId: Team \cup {NoTeam}, customer: {"old", "new"},
     tracking: Seq(Job), updatedAt: Nat]
    \cup [sourceSystem: {"ASSURANCE"}, status: Status, statusSequence: 1..4,
          staffId: Staff \cup {NoStaff}, teamId: Team \cup {NoTeam}, updatedAt: Nat]

Place == [area: STRING, geography: STRING, team: Team \cup {NoTeam}, from: Int, to: Int,
          deadline: Int, hasTrip: BOOLEAN, completedAt: Int \cup {NoTime}]

ASSUME IndexAssumption ==
    /\ Nobody \notin Process /\ NoStaff \notin Staff /\ NoJob \notin Job
    /\ Status \subseteq TASK_STATUS /\ "PENDING" \in Status
    /\ Polling \in Nat \ {0} /\ Hits \in Nat
    /\ \A j \in Job : work[j].tasks \subseteq Task /\ work[j].status \in Status
    /\ \A j \in Job : work[j].kind = "sccd" => \E t \in Task : work[j].tasks = {t}
    /\ \A c \in Cases :
        /\ c.source \in [Task -> {"QRUN", "TRUE_CFM", "OTHER_PROJECT"}]
        /\ c.missing \subseteq Task /\ c.jobs \subseteq Job
        /\ c.budget \in [{"writes", "syncs", "faults"} -> Nat]
    /\ NoDoc \notin IndexDoc
    /\ FormerStaff \subseteq Staff /\ \A staffs \in StaffLists : staffs \in Seq(Staff)
    /\ teamOf \in [Staff -> Team \cup {NoTeam}]
    /\ about \in [Task -> Place]
    /\ \A query \in Queries : query.from \in Int /\ query.to \in Int
    /\ Times \subseteq Int

VARIABLES
    task,     \* the documents
    feed,     \* the topic: a message for every write of a task
    index,    \* the search index
    owner,    \* the process the partition is assigned to
    next,     \* the first message that was not polled yet
    hand,     \* of each process: its batch and what it read for its message
    sync,     \* the sync under way
    job,      \* how far each Melonade step is, and what it read
    budget,   \* the writes, syncs and faults left
    done,     \* history: messages some process is through with
    unsure,   \* history: tasks whose message failed, was handled by a process
              \* that had lost the partition, or was not repeated to the end
    met       \* history: jobs whose fields another one wrote meanwhile

worker == <<index, owner, next, hand, done, unsure>>
documents == <<task, feed, met>>
vars == <<worker, documents, sync, job, budget>>

Sources == {"QRUN", "TRUE_CFM", "OTHER_PROJECT"}

TaskDoc == [status: Status, staffs: Seq(Staff), order: {"old", "new"},
            sccd: Job \cup {NoJob}, tracking: Seq(Job),
            source: Sources, deleted: BOOLEAN, gone: BOOLEAN, at: Nat]

Message == [task: Task, op: {"update", "delete"}, deleted: BOOLEAN]

Created(source) ==
    [status |-> "PENDING", staffs |-> <<>>, order |-> "old", sccd |-> NoJob,
     tracking |-> <<>>, source |-> source, deleted |-> FALSE, gone |-> FALSE, at |-> 0]

isValidProject(doc) == doc.source # "OTHER_PROJECT"

\* What the index should hold for a task.
Shown(t) ==
    IF task[t].gone \/ task[t].deleted \/ ~isValidProject(task[t]) THEN NoDoc
    ELSE enrichESTask(task[t], about[t])

Spend(what) == budget[what] > 0 /\ budget' = [budget EXCEPT ![what] = @ - 1]
Fault == Spend("faults")

(***************************************************************************)
(* Jobs and what they share.                                               *)
(***************************************************************************)
Fields(j) == IF work[j].kind = "sccd" THEN {"status", "sccd", "order"} ELSE {"tracking"}

Active(j) == job[j].at \in {"update", "push", "done", "pop"} \/ job[j].left # {}

\* The write of a task, with its message; `by` is the job that wrote.
Write(t, doc, by) ==
    LET n == Len(feed) + 1
        touched == {f \in {"status", "sccd", "order", "tracking"} : doc[f] # task[t][f]}
    IN  /\ task' = [task EXCEPT ![t] = [doc EXCEPT !.at = n]]
        /\ feed' = Append(feed, [task |-> t, deleted |-> doc.deleted,
                                 op |-> IF doc.gone THEN "delete" ELSE "update"])
        /\ met' = met \cup {j \in Job \ {by} :
                              /\ Active(j) /\ t \in work[j].tasks
                              /\ touched \cap Fields(j) # {}}

(***************************************************************************)
(* Requests that write a task.                                             *)
(***************************************************************************)
Request(t, doc) ==
    /\ ~task[t].gone
    /\ Spend("writes")
    /\ Write(t, doc, NoJob)
    /\ UNCHANGED <<worker, sync, job>>

\* updateSingleTaskStatus, updateTaskStatusByOrderId, and one of the tasks of
\* updateAllTaskStatus.
UpdateTaskStatus(t) ==
    \E s \in Status : s # task[t].status /\ Request(t, [task[t] EXCEPT !.status = s])

\* domains/task/update.js with staffs.
UpdateTask(t) ==
    \E list \in StaffLists :
        list # task[t].staffs /\ Request(t, [task[t] EXCEPT !.staffs = list])

UpdateTaskInformation(t) ==
    task[t].order = "old" /\ Request(t, [task[t] EXCEPT !.order = "new"])

\* A closed work order, or the parcels and payment of a task: nothing the list shows.
SyncCloseWorkOrder(t) == ~task[t].deleted /\ Request(t, task[t])

DeleteTask(t) == ~task[t].deleted /\ Request(t, [task[t] EXCEPT !.deleted = TRUE])

\* The compensation of deleteTaskById.
RestoreTask(t) == task[t].deleted /\ Request(t, [task[t] EXCEPT !.deleted = FALSE])

\* Somebody removes the document from the database.
DropTask(t) == Request(t, [task[t] EXCEPT !.gone = TRUE])

(***************************************************************************)
(* wfm_update_sccd_task_meta_info: read, then write three fields; undone,  *)
(* it writes back all that metaInformation was when it was read.           *)
(***************************************************************************)
Goes(j, place) == job' = [job EXCEPT ![j].at = place]

JobStep(j, kind, place) == work[j].kind = kind /\ job[j].at = place

Read(j) == [t \in work[j].tasks |-> task[t]]

FindTaskOfOrder(j) ==
    /\ JobStep(j, "sccd", "ready")
    /\ \E t \in work[j].tasks :
        IF task[t].gone THEN Goes(j, "failed")
        ELSE job' = [job EXCEPT ![j].at = "update", ![j].seen = Read(j)]
    /\ UNCHANGED <<worker, documents, sync, budget>>

\* A write is answered, or its answer is lost and the step counts as failed.
Answered(j, end, bad) ==
    \/ Goes(j, end) /\ UNCHANGED budget
    \/ Goes(j, bad) /\ Fault

UpdateSccd(j) ==
    /\ JobStep(j, "sccd", "update")
    /\ Answered(j, "done", "failed")
    /\ \E t \in work[j].tasks :
        IF task[t].gone THEN UNCHANGED documents
        ELSE Write(t, [task[t] EXCEPT !.status = work[j].status, !.sccd = j], j)
    /\ UNCHANGED <<worker, sync>>

\* Slip: the compensation forgets the status.
RestoreInformationOnly(j) ==
    /\ JobStep(j, "sccd", "done")
    /\ Answered(j, "undone", "broken")
    /\ \E t \in work[j].tasks :
        IF task[t].gone THEN UNCHANGED documents
        ELSE Write(t, [task[t] EXCEPT !.sccd = job[j].seen[t].sccd,
                                      !.order = job[j].seen[t].order], j)
    /\ UNCHANGED <<worker, sync>>

CompensateSccd(j) ==
    /\ JobStep(j, "sccd", "done")
    /\ Answered(j, "undone", "broken")
    /\ \E t \in work[j].tasks :
        IF task[t].gone THEN UNCHANGED documents
        ELSE LET seen == job[j].seen[t]
             IN  Write(t, [task[t] EXCEPT !.status = seen.status, !.sccd = seen.sccd,
                                          !.order = seen.order], j)
    /\ UNCHANGED <<worker, sync>>

(***************************************************************************)
(* wfm_update_tracking: an entry for each of several tasks, pushed at      *)
(* once; undone, the last entry of each is popped, whoever's it is.  What  *)
(* it saw is history.                                                      *)
(***************************************************************************)
BeginTracking(j) ==
    /\ JobStep(j, "track", "ready")
    /\ job' = [job EXCEPT ![j] = [at |-> "push", seen |-> Read(j), left |-> work[j].tasks]]
    /\ UNCHANGED <<worker, documents, sync, budget>>

\* Promise.all waits for the last of them, or rejects at the first failure
\* while the others go on.
Wrote(j, t, end, bad) ==
    \/ /\ job' = [job EXCEPT ![j].left = @ \ {t},
                             ![j].at = IF job[j].left = {t} /\ @ # bad THEN end ELSE @]
       /\ UNCHANGED budget
    \/ /\ job' = [job EXCEPT ![j].left = @ \ {t}, ![j].at = bad]
       /\ Fault

NotFoundBy(j, t) ==
    /\ job' = [job EXCEPT ![j].left = @ \ {t}, ![j].at = "failed"]
    /\ UNCHANGED <<documents, budget>>

Push(j, t) ==
    /\ work[j].kind = "track" /\ job[j].at \in {"push", "failed"}
    /\ t \in job[j].left
    /\ IF task[t].gone THEN NotFoundBy(j, t)
       ELSE /\ Wrote(j, t, "done", "failed")
            /\ Write(t, [task[t] EXCEPT !.tracking = Append(@, j)], j)
    /\ UNCHANGED <<worker, sync>>

BeginPopping(j) ==
    /\ JobStep(j, "track", "done")
    /\ job' = [job EXCEPT ![j].at = "pop", ![j].left = work[j].tasks]
    /\ UNCHANGED <<worker, documents, sync, budget>>

WithoutLast(s) == IF s = <<>> THEN s ELSE SubSeq(s, 1, Len(s) - 1)

Pop(j, t) ==
    /\ work[j].kind = "track" /\ job[j].at \in {"pop", "broken"}
    /\ t \in job[j].left
    /\ Wrote(j, t, "undone", "broken")
    /\ IF task[t].gone THEN UNCHANGED documents
       ELSE Write(t, [task[t] EXCEPT !.tracking = WithoutLast(@)], j)
    /\ UNCHANGED <<worker, sync>>

\* A call of a job fails before its write.
JobFails(j) ==
    /\ Fault
    /\ \/ job[j].at \in {"ready", "update"} /\ Goes(j, "failed")
       \/ JobStep(j, "sccd", "done") /\ Goes(j, "broken")
       \/ \E t \in job[j].left :
           job' = [job EXCEPT ![j].left = @ \ {t},
                              ![j].at = IF @ \in {"pop", "broken"} THEN "broken" ELSE "failed"]
    /\ UNCHANGED <<worker, documents, sync>>

JobActs(j) ==
    \/ FindTaskOfOrder(j) \/ UpdateSccd(j) \/ CompensateSccd(j)
    \/ BeginTracking(j) \/ BeginPopping(j) \/ JobFails(j)
    \/ \E t \in Task : Push(j, t) \/ Pop(j, t)

(***************************************************************************)
(* The worker.                                                             *)
(***************************************************************************)
Idle == [at |-> 1, to |-> 0, pc |-> "wait", doc |-> NoDoc, own |-> FALSE]
Holds(p) == hand[p].at <= hand[p].to
TaskOf(p) == feed[hand[p].at].task

Poll(p) ==
    /\ owner = p /\ ~Holds(p)
    /\ \E n \in next..Len(feed) :
        /\ n < next + Polling
        /\ hand' = [hand EXCEPT ![p] = [Idle EXCEPT !.at = next, !.to = n, !.own = TRUE]]
        /\ next' = n + 1
    /\ UNCHANGED <<index, owner, done, unsure, documents, sync, job, budget>>

Finish(p) ==
    /\ hand' = [hand EXCEPT ![p].at = @ + 1, ![p].pc = "wait", ![p].doc = NoDoc]
    /\ done' = done \cup {hand[p].at}

\* A process that lost the partition may come too late.
Handled(p) ==
    /\ Finish(p)
    /\ unsure' = IF hand[p].own THEN unsure \ {TaskOf(p)} ELSE unsure \cup {TaskOf(p)}

\* Slip: a deleted task is looked up like any other.
BeginUpdate(p) ==
    /\ Holds(p) /\ hand[p].pc = "wait"
    /\ hand' = [hand EXCEPT ![p].pc = IF feed[hand[p].at].op = "delete" THEN "unindex" ELSE "read"]
    /\ feed[hand[p].at].op = "update" => isValidProject(task[TaskOf(p)])
    /\ UNCHANGED <<index, owner, next, done, unsure, documents, sync, job, budget>>

Begin(p) ==
    /\ Holds(p) /\ hand[p].pc = "wait"
    /\ LET m == feed[hand[p].at]
           isDeleted == m.op = "delete" \/ m.deleted
       IN  /\ isDeleted \/ isValidProject(task[m.task])
           /\ hand' = [hand EXCEPT ![p].pc = IF isDeleted THEN "unindex" ELSE "read"]
    /\ UNCHANGED <<index, owner, next, done, unsure, documents, sync, job, budget>>

\* A task of another project is no business of the list.
Ignore(p) ==
    /\ Holds(p) /\ hand[p].pc = "wait"
    /\ feed[hand[p].at].op = "update" /\ ~feed[hand[p].at].deleted
    /\ ~isValidProject(task[TaskOf(p)])
    /\ Finish(p)
    /\ UNCHANGED <<index, owner, next, unsure, documents, sync, job, budget>>

\* enrichESTask reads the task as it is now, then staff, team and addresses.
ReadTask(p) ==
    /\ Holds(p) /\ hand[p].pc = "read"
    /\ ~task[TaskOf(p)].gone
    /\ hand' = [hand EXCEPT ![p].pc = "index", ![p].doc = enrichESTask(task[TaskOf(p)], about[TaskOf(p)])]
    /\ UNCHANGED <<index, owner, next, done, unsure, documents, sync, job, budget>>

\* A task that is not found makes enrichESTask throw; whether a deleted one is
\* found depends on a library.
NotFound(p) ==
    /\ Holds(p) /\ hand[p].pc = "read"
    /\ task[TaskOf(p)].gone \/ task[TaskOf(p)].deleted
    /\ Finish(p)
    /\ unsure' = unsure \cup {TaskOf(p)}
    /\ UNCHANGED <<index, owner, next, documents, sync, job, budget>>

Wanted(p) == IF hand[p].pc = "index" THEN hand[p].doc ELSE NoDoc

\* index and deleteById of the client.
WriteIndex(p) ==
    /\ Holds(p) /\ hand[p].pc \in {"index", "unindex"}
    /\ index' = [index EXCEPT ![TaskOf(p)] = Wanted(p)]
    /\ Handled(p)
    /\ UNCHANGED <<owner, next, documents, sync, job, budget>>

\* A write of the index that fails or whose answer is lost.
Attempted(p) ==
    \/ UNCHANGED index
    \/ /\ hand[p].pc \in {"index", "unindex"}
       /\ index' = [index EXCEPT ![TaskOf(p)] = Wanted(p)]

\* onMessage catches every error: the message counts as handled.
Throws(p) ==
    /\ Holds(p) /\ hand[p].pc # "wait"
    /\ Fault
    /\ Attempted(p)
    /\ Finish(p)
    /\ unsure' = unsure \cup {TaskOf(p)}
    /\ UNCHANGED <<owner, next, documents, sync, job>>

\* Is message m still to come to the owner of the partition?
ToCome(m) == m >= next \/ \E p \in Process : hand[p].own /\ m \in hand[p].at..hand[p].to

\* The group goes on at a message with nothing undone before it.
Moves(rest, risked) ==
    \E n \in 1..(Len(feed) + 1) :
        /\ 1..(n - 1) \subseteq done
        /\ next' = n
        /\ unsure' = unsure \cup risked
                        \cup {feed[m].task : m \in {k \in done : ToCome(k) /\ k < n}}
        /\ hand' = [p \in Process |-> [rest[p] EXCEPT !.own = FALSE]]

Rebalance(p) ==
    /\ owner \notin {p, Nobody}
    /\ Fault
    /\ owner' = p
    /\ Moves(hand, {})
    /\ UNCHANGED <<index, done, documents, sync, job>>

Stop(p) ==
    /\ owner = p \/ Holds(p)
    /\ Fault
    /\ IF Holds(p) /\ hand[p].pc # "wait" THEN Attempted(p) ELSE UNCHANGED index
    /\ LET rest == [hand EXCEPT ![p] = Idle]
           risked == IF index' = index THEN {} ELSE {TaskOf(p)}
       IN  IF owner = p
           THEN owner' = Nobody /\ Moves(rest, risked)
           ELSE hand' = rest /\ unsure' = unsure \cup risked /\ UNCHANGED <<owner, next>>
    /\ UNCHANGED <<done, documents, sync, job>>

Assign(p) ==
    /\ owner = Nobody
    /\ owner' = p
    /\ UNCHANGED <<index, next, hand, done, unsure, documents, sync, job, budget>>

(***************************************************************************)
(* SyncTaskData.batchProcessReIndexing.                                    *)
(***************************************************************************)
NoSync == [at |-> "idle", from |-> 0, to |-> 0, ids |-> {}]
InWindow(n) == n >= sync.from /\ n <= sync.to

FindTasksToSync ==
    /\ sync.at = "idle"
    /\ Spend("syncs")
    /\ \E from, to \in 0..Len(feed) :
        /\ from <= to
        /\ sync' = [at |-> "compare", from |-> from, to |-> to,
                    ids |-> {t \in Task : /\ ~task[t].gone /\ ~task[t].deleted
                                          /\ isValidProject(task[t])
                                          /\ task[t].at >= from /\ task[t].at <= to}]
    /\ UNCHANGED <<worker, documents, job>>

IsHit(t) == index[t] # NoDoc /\ InWindow(index[t].updatedAt)

\* Slip: what the index has and the tasks have not.
TouchNothing ==
    /\ sync.at = "compare"
    /\ sync' = NoSync
    /\ UNCHANGED <<worker, documents, job, budget>>

\* The search is given no limit of its own, so it returns the default number.
ValidateIdsWithIndexingSource ==
    /\ sync.at = "compare"
    /\ LET hits == {t \in sync.ids : IsHit(t)}
       IN  \E found \in SUBSET hits :
            /\ Cardinality(found) <= Hits
            /\ found = hits \/ Cardinality(found) = Hits
            /\ sync' = IF found = sync.ids THEN NoSync
                       ELSE [sync EXCEPT !.at = "touch", !.ids = @ \ found]
    /\ UNCHANGED <<worker, documents, job, budget>>

\* updateMany sets metadata.reIndexAt, one document after the other.
Touch(t) ==
    /\ sync.at = "touch" /\ t \in sync.ids
    /\ sync' = IF sync.ids = {t} THEN NoSync ELSE [sync EXCEPT !.ids = @ \ {t}]
    /\ IF task[t].gone THEN UNCHANGED documents ELSE Write(t, task[t], NoJob)
    /\ UNCHANGED <<worker, job, budget>>

SyncFails ==
    /\ sync.at # "idle"
    /\ Fault
    /\ sync' = NoSync
    /\ UNCHANGED <<worker, documents, job>>

SyncActs ==
    FindTasksToSync \/ ValidateIdsWithIndexingSource \/ SyncFails \/ \E t \in Task : Touch(t)

Requests(t) ==
    \/ UpdateTaskStatus(t) \/ UpdateTask(t) \/ UpdateTaskInformation(t)
    \/ SyncCloseWorkOrder(t) \/ DeleteTask(t) \/ RestoreTask(t) \/ DropTask(t)

Works(p) ==
    Poll(p) \/ Begin(p) \/ Ignore(p) \/ ReadTask(p) \/ NotFound(p) \/ WriteIndex(p)

Disturbs(p) == Throws(p) \/ Rebalance(p) \/ Stop(p)

Init ==
    /\ \E case \in Cases :
        /\ task = [t \in Task |-> Created(case.source[t])]
        /\ index = [t \in Task |-> IF t \in case.missing THEN NoDoc ELSE Shown(t)]
        /\ unsure = case.missing
        /\ job = [j \in Job |-> [at |-> IF j \in case.jobs THEN "ready" ELSE "off",
                                 seen |-> NoDoc, left |-> {}]]
        /\ budget = case.budget
    /\ feed = <<>> /\ owner = Nobody /\ next = 1
    /\ hand = [p \in Process |-> Idle]
    /\ sync = NoSync
    /\ done = {} /\ met = {}

Next ==
    \/ \E t \in Task : Requests(t)
    \/ \E j \in Job : JobActs(j)
    \/ \E p \in Process : Works(p) \/ Assign(p) \/ Disturbs(p)
    \/ SyncActs

Fairness ==
    /\ \A p \in Process : WF_vars(Works(p))
    /\ WF_vars(\E p \in Process : Assign(p))
    /\ WF_vars(ValidateIdsWithIndexingSource) /\ WF_vars(\E t \in Task : Touch(t))

Spec == Init /\ [][Next]_vars /\ Fairness
-----------------------------------------------------------------------------
(***************************************************************************)
(* Properties.                                                             *)
(***************************************************************************)
Docs == {enrichESTask(doc, about[t]) : doc \in TaskDoc, t \in Task}

Hand == [at: Nat \ {0}, to: Nat, pc: {"wait", "read", "index", "unindex"},
         doc: Docs \cup {NoDoc}, own: BOOLEAN]

\* The types: messages of known tasks, a process with a document to index has
\* read it, and whoever owns the batch in hand owns the partition.
IndexTypeOK ==
    /\ task \in [Task -> TaskDoc]
    /\ feed \in Seq(Message)
    /\ index \in [Task -> Docs \cup {NoDoc}]
    /\ owner \in Process \cup {Nobody}
    /\ next \in 1..(Len(feed) + 1)
    /\ hand \in [Process -> Hand]
    /\ done \subseteq 1..Len(feed)
    /\ unsure \subseteq Task
    /\ \A p \in Process :
        /\ hand[p].to <= Len(feed)
        /\ hand[p].own => owner = p /\ hand[p].to = next - 1
        /\ hand[p].pc # "wait" => Holds(p)

\* Is a message of the task still to come?
OnTheWay(t) == \E m \in 1..Len(feed) : feed[m].task = t /\ ToCome(m)

\* When no message of a task is to come any more, the index holds the task as
\* it is now: not as it was when the message was sent (enrichESTask reads it
\* again), not a deleted one, not one of another project, whatever was written
\* while a process read, and however often messages were repeated.  Excused is
\* a task whose last message failed (onMessage swallows the error), came late,
\* or was not repeated to the end.
IndexShowsTask == \A t \in Task \ unsure : OnTheWay(t) \/ index[t] = Shown(t)

\* The index keeps the first of the staffs of a task, and the area of the map.
Overlooked(query, t) ==
    IF task[t].status \in WFM_ASSIGN_TASK_STATUS THEN StaffId(task[t]) \notin query.staffs
    ELSE about[t].geography \notin query.areaCodes

\* An assurance task that the list made from the tasks shows is in the index,
\* once its messages are handled, and the search that replaced that list finds
\* it.  Excused is a task asked for by a staff that is not its first, or whose
\* account is deleted, and one that the map has in another area than its order
\* (search.js, findMonitorListTasks.js, enrichESTask.js).
SearchShowsMonitorList ==
    \A t \in Task \ unsure, query \in Queries :
        /\ ~OnTheWay(t) /\ ~task[t].gone
        /\ task[t].source = "TRUE_CFM"
        /\ wfmFindMonitorListTasks(query, about[t], task[t])
        => /\ index[t] # NoDoc
           /\ search(query, about[t], index[t]) \/ Overlooked(query, t)

\* Where the summary counts a task.
Counted(query, t, now) == findSLASummary(query, about[t], task[t], now)

\* The filter of one group of the summary lets the task through.
Summed(query, t) ==
    \/ assignedTaskFilter(query, about[t], task[t])
    \/ unassignedTaskFilter(query, about[t], task[t])
    \/ cancelledTaskFilter(query, about[t], task[t])

\* The time a task is measured by.
Measured(t, now) ==
    IF task[t].status = "DONE" THEN about[t].completedAt ELSE now

\* A summary counts no task twice, and of those its filters let through it
\* leaves one out only at the very second of the deadline or a quarter of an
\* hour before it.  Summaries of periods that follow one another count a task
\* once, but for those that wait for a driver, which have no period, and
\* cancelled ones that are nearly due, whose query lost its period.
\* (findSLASummary.)
SummaryCountsOnce ==
    \A t \in {u \in Task : ~task[u].gone}, query \in Queries, now \in Times :
        LET counted == Counted(query, t, now)
        IN  /\ \A one, other \in counted : one = other
            /\ Summed(query, t) /\ counted = {} =>
                  about[t].deadline \in {Measured(t, now), Measured(t, now) + Quarter}
            /\ \A later \in Queries :
                  query.to <= later.from /\ about[t].from <= about[t].to =>
                      \A count \in counted \cap Counted(later, t, now) :
                          count[1] = "unassigned" \/ count = <<"cancelled", "warning">>

\* Once nothing is disturbed any more, a task is shown as it is again: one whose
\* message is to come, and one that a sync found missing (syncTaskData.js).
Missed(t) == sync.at = "compare" /\ t \in sync.ids /\ ~IsHit(t)

ShownInTheEnd ==
    \A t \in Task :
        budget.faults = 0 /\ (OnTheWay(t) \/ Missed(t)) ~> index[t] = Shown(t)

\* A step that was undone leaves the tasks as it found them, in the fields it
\* writes, unless another one wrote one of these meanwhile.
UndoneStepLeavesTask ==
    [][\A j \in Job \ met :
          job[j].at # "undone" /\ job'[j].at = "undone" =>
              \A t \in work[j].tasks :
                  task'[t].gone \/ \A f \in Fields(j) : task'[t][f] = job[j].seen[t][f]]_vars
=============================================================================

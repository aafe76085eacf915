------------------------- MODULE TaskIndex_proofs -------------------------
(***************************************************************************)
(* Proofs about TaskIndex, for any number of tasks, processes, jobs and    *)
(* writes: its types, that the index shows a task as it is now once no     *)
(* message of the task is to come, that the search then shows what the     *)
(* list made from the tasks shows, that the summary counts a task once,    *)
(* and that a step of a workflow that was undone leaves its tasks as it    *)
(* found them.                                                             *)
(*                                                                         *)
(* The invariant says of each task what its last message is, of each       *)
(* undone message that it is to come, and of each process that what it     *)
(* read is what the task is now, or that a later message will correct it.  *)
(***************************************************************************)
EXTENDS TaskIndex, SequenceTheorems, TLAPS

JobPlace == {"off", "ready", "update", "done", "undone", "failed", "broken", "push", "pop"}

Seen == {NoDoc} \cup UNION {[work[j].tasks -> TaskDoc] : j \in Job}

\* A job that will write back what it read has read its tasks.
JobsRead ==
    /\ job \in [Job -> [at: JobPlace, seen: Seen, left: SUBSET Task]]
    /\ \A j \in Job : work[j].kind = "sccd" /\ job[j].at \in {"update", "done"} =>
                          job[j].seen \in [work[j].tasks -> TaskDoc]

\* The last message of a task says what became of it.
LastMessage ==
    \A t \in Task :
        /\ task[t].at <= Len(feed)
        /\ task[t].at = 0 => ~task[t].deleted /\ ~task[t].gone
        /\ task[t].at # 0 => /\ feed[task[t].at].task = t
                             /\ feed[task[t].at].deleted = task[t].deleted
                             /\ feed[task[t].at].op = "delete" <=> task[t].gone
        /\ \A m \in 1..Len(feed) : feed[m].task = t => m <= task[t].at

UndoneToCome == \A m \in 1..Len(feed) : m \in done \/ ToCome(m)

Removes(m) == feed[m].op = "delete" \/ feed[m].deleted

\* A process with a document holds the task as it is, or a later message of it
\* is to come.
HandsFresh ==
    \A p \in Process :
        /\ hand[p].pc \in {"read", "index"} =>
               ~Removes(hand[p].at) /\ isValidProject(task[TaskOf(p)])
        /\ hand[p].pc = "unindex" => Removes(hand[p].at)
        /\ hand[p].pc = "index" => \/ hand[p].doc = enrichESTask(task[TaskOf(p)], about[TaskOf(p)])
                                   \/ task[TaskOf(p)].at > hand[p].at

OthersOut == \A t \in Task : ~isValidProject(task[t]) => index[t] = NoDoc

Types == IndexTypeOK /\ JobsRead

Inv == Types /\ LastMessage /\ UndoneToCome /\ HandsFresh /\ OthersOut /\ IndexShowsTask

(***************************************************************************)
(* What a step does to the documents, as one formula.                      *)
(***************************************************************************)
Published(t, doc) ==
    /\ task' = [task EXCEPT ![t] = [doc EXCEPT !.at = Len(feed) + 1]]
    /\ feed' = Append(feed, [task |-> t, deleted |-> doc.deleted,
                             op |-> IF doc.gone THEN "delete" ELSE "update"])

Writes ==
    \/ UNCHANGED <<task, feed>>
    \/ \E t \in Task, doc \in TaskDoc : doc.source = task[t].source /\ Published(t, doc)

\* A write puts a document and its message in place and changes nothing else.
LEMMA PublishedTypes ==
    ASSUME Types, NEW t \in Task, NEW doc \in TaskDoc, Published(t, doc)
    PROVE  /\ task' \in [Task -> TaskDoc]
           /\ task'[t] = [doc EXCEPT !.at = Len(feed) + 1]
           /\ \A u \in Task \ {t} : task'[u] = task[u]
           /\ feed' \in Seq(Message)
           /\ Len(feed') = Len(feed) + 1
           /\ \A m \in 1..Len(feed) : feed'[m] = feed[m]
           /\ feed'[Len(feed) + 1] = [task |-> t, deleted |-> doc.deleted,
                                      op |-> IF doc.gone THEN "delete" ELSE "update"]
  <1> DEFINE message == [task |-> t, deleted |-> doc.deleted,
                         op |-> IF doc.gone THEN "delete" ELSE "update"]
  <1>1. Len(feed) \in Nat /\ feed \in Seq(Message) /\ task \in [Task -> TaskDoc]
    BY DEF Types, IndexTypeOK
  <1>2. \A n \in Nat : [doc EXCEPT !.at = n] \in TaskDoc
    BY DEF TaskDoc
  <1>3. message \in Message
    BY DEF Message, TaskDoc
  <1>4. feed' = Append(feed, message)
    BY DEF Published
  <1> HIDE DEF message
  <1>5. /\ feed' \in Seq(Message) /\ Len(feed') = Len(feed) + 1
        /\ \A m \in 1..Len(feed) : feed'[m] = feed[m]
        /\ feed'[Len(feed) + 1] = message
    BY <1>1, <1>3, <1>4, AppendProperties
  <1>6. /\ task' \in [Task -> TaskDoc]
        /\ task'[t] = [doc EXCEPT !.at = Len(feed) + 1]
        /\ \A u \in Task \ {t} : task'[u] = task[u]
    BY <1>1, <1>2 DEF Published
  <1>7. QED
    BY <1>5, <1>6 DEF message

\* The message a process handles is a message of a task.
LEMMA HandledMessage ==
    ASSUME IndexTypeOK, NEW p \in Process, Holds(p)
    PROVE  /\ hand[p] \in Hand /\ hand[p].at \in 1..Len(feed)
           /\ feed[hand[p].at] \in Message /\ TaskOf(p) \in Task
  <1>1. hand[p] \in Hand /\ hand[p].to <= Len(feed) /\ feed \in Seq(Message)
    BY DEF IndexTypeOK
  <1>2. hand[p].at \in Nat \ {0} /\ hand[p].to \in Nat /\ Len(feed) \in Nat
    BY <1>1 DEF Hand
  <1>3. hand[p].at \in 1..Len(feed)
    BY <1>1, <1>2 DEF Holds
  <1>4. feed[hand[p].at] \in Message
    BY <1>1, <1>3
  <1> QED
    BY <1>1, <1>3, <1>4 DEF TaskOf, Message

Parts == IndexTypeOK /\ LastMessage /\ UndoneToCome /\ HandsFresh /\ OthersOut /\ IndexShowsTask

\* A write of a task, while the worker does nothing.
LEMMA WriteKeeps ==
    ASSUME Inv, Writes, UNCHANGED worker
    PROVE  Parts'
  <1>1. CASE UNCHANGED <<task, feed>>
    BY <1>1 DEF Inv, Types, Parts, worker, IndexTypeOK, LastMessage, UndoneToCome, ToCome,
                HandsFresh, Removes, TaskOf, OthersOut, IndexShowsTask, OnTheWay, Shown, Holds
  <1>2. CASE \E t \in Task, doc \in TaskDoc : doc.source = task[t].source /\ Published(t, doc)
    <2>1. PICK t \in Task, doc \in TaskDoc : doc.source = task[t].source /\ Published(t, doc)
      BY <1>2
    <2>0. Len(feed) \in Nat
      BY DEF Inv, Types, IndexTypeOK
    <2>n. PICK n \in Nat : n = Len(feed) + 1
      BY <2>0
    <2>2. /\ task' \in [Task -> TaskDoc]
          /\ task'[t] = [doc EXCEPT !.at = n]
          /\ \A u \in Task \ {t} : task'[u] = task[u]
          /\ feed' \in Seq(Message)
          /\ Len(feed') = n
          /\ \A m \in 1..Len(feed) : feed'[m] = feed[m]
          /\ feed'[n] = [task |-> t, deleted |-> doc.deleted,
                         op |-> IF doc.gone THEN "delete" ELSE "update"]
      BY <2>1, <2>n, PublishedTypes DEF Inv
    <2>3. /\ task'[t].at = n /\ task'[t].source = task[t].source
          /\ task'[t].deleted = feed'[n].deleted /\ feed'[n].task = t
          /\ feed'[n].op = "delete" <=> task'[t].gone
      BY <2>1, <2>2 DEF TaskDoc
    <2>4. Len(feed) \in Nat /\ n \in Nat /\ n = Len(feed) + 1
      BY <2>0, <2>n
    <2>5. /\ index' = index /\ owner' = owner /\ next' = next /\ hand' = hand
          /\ done' = done /\ unsure' = unsure
      BY DEF worker
    <2>6. IndexTypeOK'
      <3>1. IndexTypeOK
        BY DEF Inv, Types
      <3>2. next' \in 1..(Len(feed') + 1) /\ done' \subseteq 1..Len(feed')
        BY <2>2, <2>4, <2>5, <3>1 DEF IndexTypeOK
      <3>3. ASSUME NEW p \in Process
            PROVE  /\ hand'[p].to <= Len(feed')
                   /\ hand'[p].own => owner' = p /\ hand'[p].to = next' - 1
                   /\ hand'[p].pc # "wait" => Holds(p)'
        <4>1. hand[p].to \in Nat /\ hand[p].to <= Len(feed)
          BY <3>1 DEF IndexTypeOK, Hand
        <4> QED
          BY <2>2, <2>4, <2>5, <3>1, <4>1 DEF IndexTypeOK, Holds
      <3> QED
        BY <2>2, <2>5, <3>1, <3>2, <3>3 DEF IndexTypeOK
    <2>7. LastMessage'
      <3> SUFFICES ASSUME NEW u \in Task
                   PROVE  LastMessage!(u)'
        BY DEF LastMessage
      <3>1. CASE u = t
        <4>1. /\ task'[u].at = n
              /\ feed'[n].task = u /\ feed'[n].deleted = task'[u].deleted
              /\ feed'[n].op = "delete" <=> task'[u].gone
          BY <2>3, <3>1
        <4>3. n # 0 /\ n <= Len(feed')
          BY <2>0, <2>2, <2>4
        <4>2. \A m \in 1..Len(feed') : m <= n
          BY <2>2, <2>4
        <4> QED
          BY <4>1, <4>2, <4>3
      <3>2. CASE u # t
        <4>1. task'[u] = task[u] /\ task[u].at \in Nat
          BY <2>2, <3>2 DEF Inv, Types, IndexTypeOK, TaskDoc
        <4>2. LastMessage!(u)
          BY DEF Inv, LastMessage
        <4> QED
          BY <2>2, <2>3, <2>4, <3>2, <4>1, <4>2
      <3> QED
        BY <3>1, <3>2
    <2>8. \A m : ToCome(m)' <=> ToCome(m)
      BY <2>5 DEF ToCome
    <2>9. ToCome(n)'
      BY <2>4, <2>5 DEF ToCome, Inv, Types, IndexTypeOK
    <2>10. UndoneToCome'
      <3> SUFFICES ASSUME NEW m \in 1..n PROVE m \in done \/ ToCome(m)'
        BY <2>2, <2>5 DEF UndoneToCome
      <3>1. m = n \/ m \in 1..Len(feed)
        BY <2>4
      <3> QED
        BY <2>8, <2>9, <3>1 DEF Inv, UndoneToCome
    <2>11. HandsFresh'
      <3> SUFFICES ASSUME NEW p \in Process, hand[p].pc # "wait"
                   PROVE  HandsFresh!(p)'
        BY <2>5 DEF HandsFresh
      <3>1. Holds(p)
        BY DEF Inv, Types, IndexTypeOK
      <3>2. hand[p].at \in 1..Len(feed) /\ TaskOf(p) \in Task
        BY <3>1, HandledMessage DEF Inv, Types
      <3>3. feed'[hand[p].at] = feed[hand[p].at]
        BY <2>2, <3>2
      <3>4. TaskOf(p)' = TaskOf(p) /\ Removes(hand[p].at)' = Removes(hand[p].at)
        BY <2>5, <3>3 DEF TaskOf, Removes
      <3>5. isValidProject(task[TaskOf(p)])' <=> isValidProject(task[TaskOf(p)])
        <4>1. task'[TaskOf(p)].source = task[TaskOf(p)].source
          BY <2>2, <2>3, <3>2
        <4> QED
          BY <3>4, <4>1 DEF isValidProject
      <3>6. CASE TaskOf(p) = t
        <4>1. task'[TaskOf(p)].at > hand[p].at
          BY <2>3, <2>4, <3>2, <3>6
        <4> QED
          BY <2>5, <3>3, <3>4, <3>5, <4>1 DEF Inv, HandsFresh, Removes
      <3>7. CASE TaskOf(p) # t
        <4>1. task'[TaskOf(p)] = task[TaskOf(p)]
          BY <2>2, <3>2, <3>7
        <4> QED
          BY <2>5, <3>3, <3>4, <3>5, <4>1 DEF Inv, HandsFresh, Removes
      <3> QED
        BY <3>6, <3>7
    <2>12. OthersOut'
      BY <2>2, <2>3, <2>5 DEF Inv, OthersOut, isValidProject
    <2>13. IndexShowsTask'
      <3> SUFFICES ASSUME NEW u \in Task, u \notin unsure
                   PROVE  OnTheWay(u)' \/ index[u] = Shown(u)'
        BY <2>5 DEF IndexShowsTask
      <3>1. CASE u = t
        <4>1. OnTheWay(t)'
          BY <2>2, <2>3, <2>4, <2>9 DEF OnTheWay
        <4> QED
          BY <3>1, <4>1
      <3>2. CASE u # t
        <4>1. OnTheWay(u) => OnTheWay(u)'
          BY <2>2, <2>4, <2>8 DEF OnTheWay
        <4>2. Shown(u)' = Shown(u)
          BY <2>2, <3>2 DEF Shown
        <4> QED
          BY <4>1, <4>2 DEF Inv, IndexShowsTask
      <3> QED
        BY <3>1, <3>2
    <2> QED
      BY <2>6, <2>7, <2>10, <2>11, <2>12, <2>13 DEF Parts
  <1> QED
    BY <1>1, <1>2 DEF Writes

\* What the worker writes into the index is the task as it is, unless a later
\* message of the task was published.
LEMMA WantedDoc ==
    ASSUME Inv, NEW p \in Process, hand[p].pc \in {"index", "unindex"}
    PROVE  /\ Wanted(p) \in Docs \cup {NoDoc}
           /\ ~isValidProject(task[TaskOf(p)]) => Wanted(p) = NoDoc
           /\ Wanted(p) = Shown(TaskOf(p)) \/ task[TaskOf(p)].at > hand[p].at
  <1>1. Holds(p)
    BY DEF Inv, Types, IndexTypeOK
  <1>2. /\ hand[p] \in Hand /\ hand[p].at \in 1..Len(feed) /\ TaskOf(p) \in Task
        /\ feed[hand[p].at] \in Message
    BY <1>1, HandledMessage DEF Inv, Types
  <1>3. Wanted(p) \in Docs \cup {NoDoc}
    BY <1>2 DEF Wanted, Hand
  <1>4. ~isValidProject(task[TaskOf(p)]) => Wanted(p) = NoDoc
    BY DEF Wanted, Inv, HandsFresh
  <1>5. task[TaskOf(p)] \in TaskDoc /\ task[TaskOf(p)].at \in Nat
    BY <1>2 DEF Inv, Types, IndexTypeOK, TaskDoc
  <1>6. hand[p].at <= task[TaskOf(p)].at
    BY <1>2 DEF Inv, LastMessage, TaskOf
  <1>7. ASSUME hand[p].at = task[TaskOf(p)].at
        PROVE  Wanted(p) = Shown(TaskOf(p))
    <2>1. /\ feed[hand[p].at].deleted = task[TaskOf(p)].deleted
          /\ feed[hand[p].at].op = "delete" <=> task[TaskOf(p)].gone
      BY <1>2, <1>7 DEF Inv, LastMessage
    <2>2. CASE hand[p].pc = "index"
      <3>1. /\ ~Removes(hand[p].at) /\ isValidProject(task[TaskOf(p)])
            /\ hand[p].doc = enrichESTask(task[TaskOf(p)], about[TaskOf(p)])
        BY <1>5, <1>7, <2>2 DEF Inv, HandsFresh
      <3>2. ~task[TaskOf(p)].gone /\ ~task[TaskOf(p)].deleted
        BY <2>1, <3>1 DEF Removes
      <3> QED
        BY <2>2, <3>1, <3>2 DEF Wanted, Shown
    <2>3. CASE hand[p].pc = "unindex"
      <3>1. Removes(hand[p].at)
        BY <2>3 DEF Inv, HandsFresh
      <3> QED
        BY <2>1, <2>3, <3>1 DEF Removes, Wanted, Shown
    <2> QED
      BY <2>2, <2>3
  <1> QED
    BY <1>2, <1>3, <1>4, <1>5, <1>6, <1>7

\* A write of the index that may have failed.
LEMMA AttemptedWrite ==
    ASSUME Inv, NEW p \in Process, hand[p].pc # "wait", Attempted(p)
    PROVE  /\ index' \in [Task -> Docs \cup {NoDoc}]
           /\ \A u \in Task \ {TaskOf(p)} : index'[u] = index[u]
           /\ ~isValidProject(task[TaskOf(p)]) => index'[TaskOf(p)] = NoDoc
  <1>1. Holds(p)
    BY DEF Inv, Types, IndexTypeOK
  <1>2. TaskOf(p) \in Task
    BY <1>1, HandledMessage DEF Inv, Types
  <1>3. index \in [Task -> Docs \cup {NoDoc}]
    BY DEF Inv, Types, IndexTypeOK
  <1>4. CASE UNCHANGED index
    BY <1>2, <1>3, <1>4 DEF Inv, OthersOut
  <1>5. CASE /\ hand[p].pc \in {"index", "unindex"}
             /\ index' = [index EXCEPT ![TaskOf(p)] = Wanted(p)]
    BY <1>2, <1>3, <1>5, WantedDoc
  <1> QED
    BY <1>4, <1>5 DEF Attempted

LEMMA LastMessageKept ==
    ASSUME Inv, UNCHANGED <<task, feed>>
    PROVE  LastMessage'
  BY DEF Inv, LastMessage

\* A process turns to its next message.
LEMMA FinishKeeps ==
    ASSUME Inv, NEW p \in Process, Holds(p), Finish(p), UNCHANGED <<task, feed, next, owner>>,
           index' \in [Task -> Docs \cup {NoDoc}], unsure' \subseteq Task,
           \A u \in Task \ {TaskOf(p)} : index'[u] = index[u] /\ (u \in unsure <=> u \in unsure'),
           ~isValidProject(task[TaskOf(p)]) => index'[TaskOf(p)] = NoDoc,
           \/ TaskOf(p) \in unsure'
           \/ index'[TaskOf(p)] = Shown(TaskOf(p))
           \/ hand[p].own /\ task[TaskOf(p)].at > hand[p].at
    PROVE  Parts'
  <1>1. IndexTypeOK
    BY DEF Inv, Types
  <1>2. /\ hand[p] \in Hand /\ hand[p].at \in 1..Len(feed) /\ TaskOf(p) \in Task
        /\ hand[p].to \in Nat /\ Len(feed) \in Nat
    BY <1>1, HandledMessage DEF IndexTypeOK, Hand
  <1> DEFINE new == [hand[p] EXCEPT !.at = @ + 1, !.pc = "wait", !.doc = NoDoc]
  <1>3. /\ new \in Hand /\ new.at = hand[p].at + 1 /\ new.to = hand[p].to
        /\ new.own = hand[p].own /\ new.pc = "wait"
    <2>1. hand[p].at + 1 \in Nat \ {0}
      BY <1>2
    <2>2. \A n \in Nat \ {0} : [hand[p] EXCEPT !.at = n, !.pc = "wait", !.doc = NoDoc] \in Hand
      BY <1>2 DEF Hand
    <2>3. new \in Hand
      BY <2>1, <2>2
    <2> QED
      BY <1>2, <2>3 DEF Hand
  <1>4. /\ hand' \in [Process -> Hand] /\ hand'[p] = new
        /\ \A q \in Process \ {p} : hand'[q] = hand[q]
        /\ done' = done \cup {hand[p].at}
    BY <1>1, <1>3 DEF Finish, IndexTypeOK
  <1> HIDE DEF new
  <1>5. \A m \in Nat : m # hand[p].at => (ToCome(m)' <=> ToCome(m))
    <2> SUFFICES ASSUME NEW m \in Nat, m # hand[p].at
                 PROVE  ToCome(m)' <=> ToCome(m)
      OBVIOUS
    <2>1. \A q \in Process : hand'[q].own /\ m \in hand'[q].at..hand'[q].to
                                 <=> hand[q].own /\ m \in hand[q].at..hand[q].to
      <3> SUFFICES ASSUME NEW q \in Process
                   PROVE  hand'[q].own /\ m \in hand'[q].at..hand'[q].to
                                 <=> hand[q].own /\ m \in hand[q].at..hand[q].to
        OBVIOUS
      <3>1. CASE q = p
        BY <1>2, <1>3, <1>4, <3>1
      <3>2. CASE q # p
        BY <1>4, <3>2
      <3> QED
        BY <3>1, <3>2
    <2> QED
      BY <2>1 DEF ToCome
  <1>6. IndexTypeOK'
    <2>1. ASSUME NEW q \in Process
          PROVE  /\ hand'[q].to <= Len(feed)
                 /\ hand'[q].own => owner = q /\ hand'[q].to = next - 1
                 /\ hand'[q].pc # "wait" => Holds(q)'
      <3>1. CASE q = p
        BY <1>1, <1>2, <1>3, <1>4, <3>1 DEF IndexTypeOK
      <3>2. CASE q # p
        BY <1>1, <1>4, <3>2 DEF IndexTypeOK, Holds
      <3> QED
        BY <3>1, <3>2
    <2>2. done' \subseteq 1..Len(feed)
      BY <1>1, <1>2, <1>4 DEF IndexTypeOK
    <2> QED
      BY <1>1, <1>4, <2>1, <2>2 DEF IndexTypeOK
  <1>7. UndoneToCome'
    BY <1>2, <1>4, <1>5 DEF Inv, UndoneToCome
  <1>8. HandsFresh'
    <2> SUFFICES ASSUME NEW q \in Process PROVE HandsFresh!(q)'
      BY DEF HandsFresh
    <2>1. CASE q = p
      BY <1>3, <1>4, <2>1
    <2>2. CASE q # p
      <3>1. hand'[q] = hand[q] /\ task' = task /\ feed' = feed
        BY <1>4, <2>2
      <3> QED
        BY <3>1 DEF Inv, HandsFresh, Removes, TaskOf
    <2> QED
      BY <2>1, <2>2
  <1>9. OthersOut'
    <2> SUFFICES ASSUME NEW u \in Task, ~isValidProject(task[u]) PROVE index'[u] = NoDoc
      BY DEF OthersOut
    <2> QED
      BY DEF Inv, OthersOut
  <1>10. IndexShowsTask'
    <2> SUFFICES ASSUME NEW u \in Task, u \notin unsure'
                 PROVE  OnTheWay(u)' \/ index'[u] = Shown(u)
      BY DEF IndexShowsTask, Shown
    <2>1. CASE u = TaskOf(p)
      <3>1. CASE hand[p].own /\ task[u].at > hand[p].at
        <4>1. PICK m \in Nat : m = task[u].at
          BY <1>1 DEF IndexTypeOK, TaskDoc
        <4>2. m \in 1..Len(feed) /\ feed[m].task = u /\ m > hand[p].at
          BY <1>2, <3>1, <4>1 DEF Inv, LastMessage
        <4>3. hand[p].to = next - 1 /\ next \in Nat
          BY <1>1, <3>1 DEF IndexTypeOK
        <4>4. ToCome(m)
          BY <1>2, <3>1, <4>2, <4>3 DEF ToCome
        <4> QED
          BY <1>5, <4>2, <4>4 DEF OnTheWay
      <3> QED
        BY <2>1, <3>1
    <2>2. CASE u # TaskOf(p)
      <3>1. index'[u] = index[u] /\ u \notin unsure
        BY <2>2
      <3>2. OnTheWay(u) => OnTheWay(u)'
        <4>1. ASSUME NEW m \in 1..Len(feed), feed[m].task = u, ToCome(m) PROVE ToCome(m)'
          <5>1. m # hand[p].at
            BY <2>2, <4>1 DEF TaskOf
          <5> QED
            BY <1>5, <4>1, <5>1
        <4> QED
          BY <4>1 DEF OnTheWay
      <3> QED
        BY <3>1, <3>2 DEF Inv, IndexShowsTask
    <2> QED
      BY <2>1, <2>2
  <1> QED
    BY <1>6, <1>7, <1>8, <1>9, <1>10, LastMessageKept DEF Parts

\* A process goes on with its message: places and ownership stay.
LEMMA HandKeeps ==
    ASSUME Inv, NEW p \in Process, Holds(p), hand' \in [Process -> Hand],
           \A q \in Process \ {p} : hand'[q] = hand[q],
           hand'[p].at = hand[p].at, hand'[p].to = hand[p].to, hand'[p].own = hand[p].own,
           UNCHANGED <<task, feed, index, owner, next, done, unsure>>,
           hand'[p].pc \in {"read", "index"} =>
               ~Removes(hand[p].at) /\ isValidProject(task[TaskOf(p)]),
           hand'[p].pc = "unindex" => Removes(hand[p].at),
           hand'[p].pc = "index" => hand'[p].doc = enrichESTask(task[TaskOf(p)], about[TaskOf(p)])
    PROVE  Parts'
  <1>1. IndexTypeOK
    BY DEF Inv, Types
  <1>4. \A q \in Process : /\ hand'[q].at = hand[q].at /\ hand'[q].to = hand[q].to
                           /\ hand'[q].own = hand[q].own
    OBVIOUS
  <1>5. \A m : ToCome(m)' <=> ToCome(m)
    BY <1>4 DEF ToCome
  <1>6. IndexTypeOK'
    <2>1. ASSUME NEW q \in Process
          PROVE  /\ hand'[q].to <= Len(feed)
                 /\ hand'[q].own => owner = q /\ hand'[q].to = next - 1
                 /\ hand'[q].pc # "wait" => Holds(q)'
      <3>1. CASE q = p
        BY <1>1, <3>1 DEF IndexTypeOK, Holds
      <3>2. CASE q # p
        BY <1>1, <3>2 DEF IndexTypeOK, Holds
      <3> QED
        BY <3>1, <3>2
    <2> QED
      BY <1>1, <2>1 DEF IndexTypeOK
  <1>7. UndoneToCome'
    BY <1>5 DEF Inv, UndoneToCome
  <1>8. HandsFresh'
    <2> SUFFICES ASSUME NEW q \in Process PROVE HandsFresh!(q)'
      BY DEF HandsFresh
    <2>1. CASE q = p
      BY <2>1 DEF TaskOf, Removes
    <2>2. CASE q # p
      <3>1. hand'[q] = hand[q] /\ task' = task /\ feed' = feed
        BY <2>2
      <3> QED
        BY <3>1 DEF Inv, HandsFresh, Removes, TaskOf
    <2> QED
      BY <2>1, <2>2
  <1>9. OthersOut'
    BY DEF Inv, OthersOut
  <1>10. IndexShowsTask'
    BY <1>5 DEF Inv, IndexShowsTask, OnTheWay, Shown
  <1> QED
    BY <1>6, <1>7, <1>8, <1>9, <1>10, LastMessageKept DEF Parts

\* The owner takes the next messages.
LEMMA PollKeeps ==
    ASSUME Inv, NEW p \in Process, Poll(p)
    PROVE  Parts'
  <1>1. IndexTypeOK /\ hand \in [Process -> Hand] /\ hand[p] \in Hand
    BY DEF Inv, Types, IndexTypeOK
  <1>0. owner = p /\ ~Holds(p) /\ UNCHANGED <<task, feed, index, owner, done, unsure>>
    BY DEF Poll, documents
  <1>2. PICK n \in next..Len(feed) :
          /\ hand' = [hand EXCEPT ![p] = [Idle EXCEPT !.at = next, !.to = n, !.own = TRUE]]
          /\ next' = n + 1
    BY DEF Poll
  <1>3. /\ next \in Nat \ {0} /\ n \in Nat /\ next <= n /\ n <= Len(feed) /\ Len(feed) \in Nat
        /\ next <= Len(feed) + 1
    BY <1>1, <1>2 DEF IndexTypeOK
  <1> DEFINE new == [Idle EXCEPT !.at = next, !.to = n, !.own = TRUE]
  <1>4. /\ new \in Hand /\ new.at = next /\ new.to = n /\ new.own = TRUE /\ new.pc = "wait"
    BY <1>3 DEF Idle, Hand
  <1>5. /\ hand' \in [Process -> Hand] /\ hand'[p] = new
        /\ \A q \in Process \ {p} : hand'[q] = hand[q]
    BY <1>1, <1>2, <1>4
  <1> HIDE DEF new
  <1>6. \A q \in Process \ {p} : ~hand[q].own
    BY <1>0, <1>1 DEF IndexTypeOK
  <1>7. \A m \in Nat : ToCome(m) => ToCome(m)'
    <2> SUFFICES ASSUME NEW m \in Nat, ToCome(m) PROVE ToCome(m)'
      OBVIOUS
    <2>1. m >= next
      <3>1. \A q \in Process : ~(hand[q].own /\ m \in hand[q].at..hand[q].to)
        BY <1>0, <1>1, <1>6 DEF Holds, Hand
      <3> QED
        BY <3>1 DEF ToCome
    <2>2. CASE m <= n
      <3>1. hand'[p].own /\ m \in hand'[p].at..hand'[p].to
        BY <1>3, <1>4, <1>5, <2>1, <2>2
      <3> QED
        BY <3>1 DEF ToCome
    <2>3. CASE m > n
      BY <1>2, <1>3, <2>3 DEF ToCome
    <2> QED
      BY <1>3, <2>2, <2>3
  <1>8. IndexTypeOK'
    <2>1. ASSUME NEW q \in Process
          PROVE  /\ hand'[q].to <= Len(feed)
                 /\ hand'[q].own => owner = q /\ hand'[q].to = next' - 1
                 /\ hand'[q].pc # "wait" => Holds(q)'
      <3>1. CASE q = p
        <4>1. hand'[q].to = n /\ hand'[q].pc = "wait" /\ owner = q
          BY <1>0, <1>4, <1>5, <3>1
        <4>2. n = next' - 1
          BY <1>2, <1>3
        <4> QED
          BY <1>3, <4>1, <4>2
      <3>2. CASE q # p
        BY <1>1, <1>5, <1>6, <3>2 DEF IndexTypeOK, Holds
      <3> QED
        BY <3>1, <3>2
    <2>2. next' \in 1..(Len(feed) + 1)
      BY <1>2, <1>3
    <2> QED
      BY <1>0, <1>1, <1>5, <2>1, <2>2 DEF IndexTypeOK
  <1>9. UndoneToCome'
    BY <1>0, <1>7 DEF Inv, UndoneToCome
  <1>10. HandsFresh'
    <2> SUFFICES ASSUME NEW q \in Process PROVE HandsFresh!(q)'
      BY DEF HandsFresh
    <2>1. CASE q = p
      BY <1>4, <1>5, <2>1
    <2>2. CASE q # p
      <3>1. hand'[q] = hand[q] /\ task' = task /\ feed' = feed
        BY <1>0, <1>5, <2>2
      <3> QED
        BY <3>1 DEF Inv, HandsFresh, Removes, TaskOf
    <2> QED
      BY <2>1, <2>2
  <1>11. OthersOut'
    BY <1>0 DEF Inv, OthersOut
  <1>12. IndexShowsTask'
    <2>1. \A u \in Task : OnTheWay(u) => OnTheWay(u)'
      BY <1>0, <1>7 DEF OnTheWay
    <2> QED
      BY <1>0, <2>1 DEF Inv, IndexShowsTask, Shown
  <1> QED
    BY <1>0, <1>8, <1>9, <1>10, <1>11, <1>12, LastMessageKept DEF Parts

\* The partition moves: nobody's batch counts any more, and what is not
\* repeated was done.
LEMMA MovesKeeps ==
    ASSUME Inv, UNCHANGED <<task, feed, done>>, NEW rest, NEW risked \in SUBSET Task,
           \A q \in Process : rest[q] = hand[q] \/ rest[q] = Idle,
           rest \in [Process -> Hand],
           owner' \in Process \cup {Nobody},
           index' \in [Task -> Docs \cup {NoDoc}],
           \A u \in Task \ risked : index'[u] = index[u],
           \A u \in risked : ~isValidProject(task[u]) => index'[u] = NoDoc,
           Moves(rest, risked)
    PROVE  Parts'
  <1>1. IndexTypeOK /\ hand \in [Process -> Hand] /\ Len(feed) \in Nat /\ next \in Nat
    BY DEF Inv, Types, IndexTypeOK
  <1>2. PICK n \in 1..(Len(feed) + 1) :
          /\ 1..(n - 1) \subseteq done
          /\ next' = n
          /\ unsure' = unsure \cup risked
                          \cup {feed[m].task : m \in {k \in done : ToCome(k) /\ k < n}}
          /\ hand' = [q \in Process |-> [rest[q] EXCEPT !.own = FALSE]]
    BY DEF Moves
  <1>3. ASSUME NEW q \in Process
        PROVE  /\ hand'[q] \in Hand /\ hand'[q].own = FALSE /\ hand'[q].to <= Len(feed)
               /\ hand'[q].pc # "wait" =>
                    /\ hand[q].pc = hand'[q].pc /\ hand[q].at = hand'[q].at
                    /\ hand[q].to = hand'[q].to /\ hand[q].doc = hand'[q].doc
    <2>1. hand'[q] = [rest[q] EXCEPT !.own = FALSE] /\ rest[q] \in Hand
      BY <1>2
    <2>2. hand'[q] \in Hand /\ hand'[q].own = FALSE
      BY <2>1 DEF Hand
    <2>3. /\ hand'[q].pc = rest[q].pc /\ hand'[q].at = rest[q].at
          /\ hand'[q].to = rest[q].to /\ hand'[q].doc = rest[q].doc
      BY <2>1 DEF Hand
    <2>4. CASE rest[q] = hand[q]
      BY <1>1, <2>2, <2>3, <2>4 DEF IndexTypeOK
    <2>5. CASE rest[q] = Idle
      BY <1>1, <2>2, <2>3, <2>5 DEF Idle
    <2> QED
      BY <2>4, <2>5
  <1>4. IndexTypeOK'
    <2>1. hand' \in [Process -> Hand]
      BY <1>2, <1>3
    <2>2. unsure' \subseteq Task
      <3>1. \A k \in done : feed[k].task \in Task
        <4> SUFFICES ASSUME NEW k \in 1..Len(feed) PROVE feed[k].task \in Task
          BY <1>1 DEF IndexTypeOK
        <4>1. feed[k] \in Message
          BY <1>1 DEF IndexTypeOK
        <4> QED
          BY <4>1 DEF Message
      <3> QED
        BY <1>1, <1>2, <3>1 DEF IndexTypeOK
    <2>3. ASSUME NEW q \in Process
          PROVE  /\ hand'[q].to <= Len(feed)
                 /\ hand'[q].own => owner' = q /\ hand'[q].to = next' - 1
                 /\ hand'[q].pc # "wait" => Holds(q)'
      BY <1>1, <1>3 DEF IndexTypeOK, Holds
    <2> QED
      BY <1>1, <1>2, <2>1, <2>2, <2>3 DEF IndexTypeOK
  <1>5. UndoneToCome'
    BY <1>1, <1>2 DEF UndoneToCome, ToCome
  <1>6. HandsFresh'
    BY <1>3 DEF Inv, HandsFresh, Removes, TaskOf
  <1>7. OthersOut'
    BY DEF Inv, OthersOut
  <1>8. IndexShowsTask'
    <2> SUFFICES ASSUME NEW u \in Task, u \notin unsure', index'[u] # Shown(u)
                 PROVE  OnTheWay(u)'
      BY DEF IndexShowsTask, Shown
    <2>1. u \notin unsure /\ index'[u] = index[u]
      BY <1>2
    <2>2. PICK m \in 1..Len(feed) : feed[m].task = u /\ ToCome(m)
      BY <2>1 DEF Inv, IndexShowsTask, OnTheWay
    <2>3. ~(m < n)
      BY <1>2, <2>2
    <2>4. ToCome(m)'
      BY <1>2, <2>3 DEF ToCome
    <2> QED
      BY <2>2, <2>4 DEF OnTheWay
  <1> QED
    BY <1>4, <1>5, <1>6, <1>7, <1>8, LastMessageKept DEF Parts

LEMMA BeginKeeps ==
    ASSUME Inv, NEW p \in Process, Begin(p)
    PROVE  Parts'
  <1>1. /\ Holds(p) /\ hand[p].pc = "wait"
        /\ UNCHANGED <<task, feed, index, owner, next, done, unsure>>
    BY DEF Begin, documents
  <1>2. /\ hand \in [Process -> Hand] /\ hand[p] \in Hand /\ feed[hand[p].at] \in Message
    BY <1>1, HandledMessage DEF Inv, Types, IndexTypeOK
  <1>3. /\ Removes(hand[p].at) \/ isValidProject(task[TaskOf(p)])
        /\ hand' = [hand EXCEPT ![p].pc = IF Removes(hand[p].at) THEN "unindex" ELSE "read"]
    BY DEF Begin, Removes, TaskOf
  <1>4. /\ hand' \in [Process -> Hand]
        /\ hand'[p].at = hand[p].at /\ hand'[p].to = hand[p].to /\ hand'[p].own = hand[p].own
        /\ \A q \in Process \ {p} : hand'[q] = hand[q]
        /\ hand'[p].pc = IF Removes(hand[p].at) THEN "unindex" ELSE "read"
    BY <1>2, <1>3 DEF Hand
  <1> QED
    BY <1>1, <1>3, <1>4, HandKeeps

LEMMA ReadTaskKeeps ==
    ASSUME Inv, NEW p \in Process, ReadTask(p)
    PROVE  Parts'
  <1>1. /\ Holds(p) /\ hand[p].pc = "read"
        /\ UNCHANGED <<task, feed, index, owner, next, done, unsure>>
        /\ hand' = [hand EXCEPT ![p].pc = "index",
                                ![p].doc = enrichESTask(task[TaskOf(p)], about[TaskOf(p)])]
    BY DEF ReadTask, documents
  <1>2. /\ hand \in [Process -> Hand] /\ hand[p] \in Hand
        /\ TaskOf(p) \in Task /\ task[TaskOf(p)] \in TaskDoc
    BY <1>1, HandledMessage DEF Inv, Types, IndexTypeOK
  <1>3. enrichESTask(task[TaskOf(p)], about[TaskOf(p)]) \in Docs
    BY <1>2 DEF Docs
  <1>4. /\ hand' \in [Process -> Hand]
        /\ hand'[p].at = hand[p].at /\ hand'[p].to = hand[p].to /\ hand'[p].own = hand[p].own
        /\ \A q \in Process \ {p} : hand'[q] = hand[q]
        /\ hand'[p].pc = "index"
        /\ hand'[p].doc = enrichESTask(task[TaskOf(p)], about[TaskOf(p)])
    BY <1>1, <1>2, <1>3 DEF Hand
  <1>5. ~Removes(hand[p].at) /\ isValidProject(task[TaskOf(p)])
    BY <1>1 DEF Inv, HandsFresh
  <1> QED
    BY <1>1, <1>4, <1>5, HandKeeps

LEMMA WriteIndexKeeps ==
    ASSUME Inv, NEW p \in Process, WriteIndex(p)
    PROVE  Parts'
  <1>1. /\ Holds(p) /\ hand[p].pc \in {"index", "unindex"} /\ Finish(p)
        /\ UNCHANGED <<task, feed, owner, next>>
        /\ index' = [index EXCEPT ![TaskOf(p)] = Wanted(p)]
        /\ unsure' = IF hand[p].own THEN unsure \ {TaskOf(p)} ELSE unsure \cup {TaskOf(p)}
    BY DEF WriteIndex, Handled, documents
  <1>2. TaskOf(p) \in Task /\ index \in [Task -> Docs \cup {NoDoc}] /\ unsure \subseteq Task
    BY <1>1, HandledMessage DEF Inv, Types, IndexTypeOK
  <1>3. /\ index' \in [Task -> Docs \cup {NoDoc}] /\ index'[TaskOf(p)] = Wanted(p)
        /\ \A u \in Task \ {TaskOf(p)} : index'[u] = index[u]
        /\ ~isValidProject(task[TaskOf(p)]) => index'[TaskOf(p)] = NoDoc
    BY <1>1, <1>2, WantedDoc
  <1>4. /\ unsure' \subseteq Task
        /\ \A u \in Task \ {TaskOf(p)} : u \in unsure <=> u \in unsure'
        /\ ~hand[p].own => TaskOf(p) \in unsure'
    BY <1>1, <1>2
  <1>5. Wanted(p) = Shown(TaskOf(p)) \/ task[TaskOf(p)].at > hand[p].at
    BY <1>1, WantedDoc
  <1> QED
    BY <1>1, <1>3, <1>4, <1>5, FinishKeeps

\* A message of another project, one whose task is not found, one that fails.
LEMMA PassKeeps ==
    ASSUME Inv, NEW p \in Process, Ignore(p) \/ NotFound(p) \/ Throws(p)
    PROVE  Parts'
  <1>1. Holds(p) /\ Finish(p) /\ UNCHANGED <<task, feed, owner, next>>
    BY DEF Ignore, NotFound, Throws, documents
  <1>2. TaskOf(p) \in Task /\ index \in [Task -> Docs \cup {NoDoc}] /\ unsure \subseteq Task
    BY <1>1, HandledMessage DEF Inv, Types, IndexTypeOK
  <1>3. CASE Ignore(p)
    <2>1. ~isValidProject(task[TaskOf(p)]) /\ UNCHANGED <<index, unsure>>
      BY <1>3 DEF Ignore
    <2>2. index[TaskOf(p)] = Shown(TaskOf(p)) /\ index[TaskOf(p)] = NoDoc
      BY <1>2, <2>1 DEF Inv, OthersOut, Shown
    <2> QED
      BY <1>1, <1>2, <2>1, <2>2, FinishKeeps
  <1>4. CASE NotFound(p)
    <2>1. UNCHANGED index /\ unsure' = unsure \cup {TaskOf(p)}
      BY <1>4 DEF NotFound
    <2>2. ~isValidProject(task[TaskOf(p)]) => index[TaskOf(p)] = NoDoc
      BY <1>2 DEF Inv, OthersOut
    <2> QED
      BY <1>1, <1>2, <2>1, <2>2, FinishKeeps
  <1>5. CASE Throws(p)
    <2>1. hand[p].pc # "wait" /\ Attempted(p) /\ unsure' = unsure \cup {TaskOf(p)}
      BY <1>5 DEF Throws
    <2> QED
      BY <1>1, <1>2, <2>1, AttemptedWrite, FinishKeeps
  <1> QED
    BY <1>3, <1>4, <1>5

LEMMA AssignKeeps ==
    ASSUME Inv, NEW p \in Process, Assign(p)
    PROVE  Parts'
  <1>1. /\ owner = Nobody /\ owner' = p
        /\ UNCHANGED <<task, feed, index, next, hand, done, unsure>>
    BY DEF Assign, documents
  <1>2. IndexTypeOK /\ \A q \in Process : ~hand[q].own
    BY <1>1, IndexAssumption DEF Inv, Types, IndexTypeOK
  <1>3. IndexTypeOK'
    BY <1>1, <1>2 DEF IndexTypeOK, Holds
  <1>4. \A m : ToCome(m)' <=> ToCome(m)
    BY <1>1 DEF ToCome
  <1>5. UndoneToCome' /\ OthersOut' /\ IndexShowsTask'
    BY <1>1, <1>4 DEF Inv, UndoneToCome, OthersOut, IndexShowsTask, OnTheWay, Shown
  <1>6. HandsFresh'
    BY <1>1 DEF Inv, HandsFresh, TaskOf, Removes
  <1> QED
    BY <1>1, <1>3, <1>5, <1>6, LastMessageKept DEF Parts

LEMMA RebalanceKeeps ==
    ASSUME Inv, NEW p \in Process, Rebalance(p)
    PROVE  Parts'
  <1>1. owner' = p /\ Moves(hand, {}) /\ UNCHANGED <<task, feed, index, done>>
    BY DEF Rebalance, documents
  <1>2. hand \in [Process -> Hand] /\ index \in [Task -> Docs \cup {NoDoc}]
    BY DEF Inv, Types, IndexTypeOK
  <1> QED
    BY <1>1, <1>2, MovesKeeps

LEMMA IdleType == Idle \in Hand /\ Idle.own = FALSE /\ Idle.to = 0 /\ Idle.pc = "wait"
  BY DEF Idle, Hand

\* A process dies in the middle of its message, whether it owns the partition
\* or not.
LEMMA StopKeeps ==
    ASSUME Inv, NEW p \in Process, Stop(p)
    PROVE  Parts'
  <1> DEFINE rest == [hand EXCEPT ![p] = Idle]
             risked == IF index' = index THEN {} ELSE {TaskOf(p)}
  <1>1. UNCHANGED <<task, feed, done>>
    BY DEF Stop, documents
  <1>2. /\ IndexTypeOK
        /\ hand \in [Process -> Hand] /\ index \in [Task -> Docs \cup {NoDoc}]
        /\ unsure \subseteq Task
    BY DEF Inv, Types, IndexTypeOK
  <1>3. \/ UNCHANGED index
        \/ hand[p].pc # "wait" /\ Holds(p) /\ Attempted(p)
    BY DEF Stop
  <1>4. /\ index' \in [Task -> Docs \cup {NoDoc}]
        /\ risked \in SUBSET Task
        /\ \A u \in Task \ risked : index'[u] = index[u]
        /\ \A u \in risked : ~isValidProject(task[u]) => index'[u] = NoDoc
    <2>1. CASE UNCHANGED index
      BY <1>2, <2>1
    <2>2. CASE hand[p].pc # "wait" /\ Holds(p) /\ Attempted(p)
      BY <1>2, <2>2, HandledMessage, AttemptedWrite
    <2> QED
      BY <1>3, <2>1, <2>2
  <1>5. /\ rest \in [Process -> Hand] /\ rest[p] = Idle
        /\ \A q \in Process \ {p} : rest[q] = hand[q]
    BY <1>2, IdleType
  <1>6. CASE owner = p
    <2>1. owner' = Nobody /\ Moves(rest, risked)
      BY <1>6 DEF Stop
    <2> HIDE DEF rest, risked
    <2> QED
      BY <1>1, <1>4, <1>5, <2>1, MovesKeeps
  <1>7. CASE owner # p
    <2>1. hand' = rest /\ unsure' = unsure \cup risked /\ UNCHANGED <<owner, next>>
      BY <1>7 DEF Stop
    <2> HIDE DEF rest, risked
    <2>2. ~hand[p].own /\ ~hand'[p].own
      BY <1>2, <1>5, <1>7, <2>1, IdleType DEF IndexTypeOK
    <2>3. \A m : ToCome(m)' <=> ToCome(m)
      <3>1. \A q \in Process : \A m :
                   hand'[q].own /\ m \in hand'[q].at..hand'[q].to
                       <=> hand[q].own /\ m \in hand[q].at..hand[q].to
        BY <1>5, <2>1, <2>2
      <3> QED
        BY <2>1, <3>1 DEF ToCome
    <2>4. IndexTypeOK'
      <3>1. ASSUME NEW q \in Process
            PROVE  /\ hand'[q].to <= Len(feed)
                   /\ hand'[q].own => owner = q /\ hand'[q].to = next - 1
                   /\ hand'[q].pc # "wait" => Holds(q)'
        <4>1. CASE q = p
          <5>1. Len(feed) \in Nat
            BY <1>2 DEF IndexTypeOK
          <5> QED
            BY <1>5, <2>1, <2>2, <4>1, <5>1, IdleType
        <4>2. CASE q # p
          BY <1>2, <1>5, <2>1, <4>2 DEF IndexTypeOK, Holds
        <4> QED
          BY <4>1, <4>2
      <3> QED
        BY <1>1, <1>2, <1>4, <1>5, <2>1, <3>1 DEF IndexTypeOK
    <2>5. UndoneToCome'
      BY <1>1, <2>3 DEF Inv, UndoneToCome
    <2>6. HandsFresh'
      <3> SUFFICES ASSUME NEW q \in Process PROVE HandsFresh!(q)'
        BY DEF HandsFresh
      <3>1. CASE q = p
        BY <1>5, <2>1, <3>1, IdleType
      <3>2. CASE q # p
        <4>1. hand'[q] = hand[q] /\ task' = task /\ feed' = feed
          BY <1>1, <1>5, <2>1, <3>2
        <4> QED
          BY <4>1 DEF Inv, HandsFresh, Removes, TaskOf
      <3> QED
        BY <3>1, <3>2
    <2>7. OthersOut'
      BY <1>1, <1>4 DEF Inv, OthersOut
    <2>8. IndexShowsTask'
      <3> SUFFICES ASSUME NEW u \in Task, u \notin unsure'
                   PROVE  OnTheWay(u)' \/ index'[u] = Shown(u)
        BY <1>1 DEF IndexShowsTask, Shown
      <3>1. u \notin unsure /\ index'[u] = index[u]
        BY <1>4, <2>1
      <3>2. OnTheWay(u)' <=> OnTheWay(u)
        BY <1>1, <2>3 DEF OnTheWay
      <3> QED
        BY <3>1, <3>2 DEF Inv, IndexShowsTask
    <2> QED
      BY <1>1, <2>4, <2>5, <2>6, <2>7, <2>8, LastMessageKept DEF Parts
  <1> QED
    BY <1>6, <1>7

LEMMA WorkerKeeps ==
    ASSUME Inv, NEW p \in Process, Works(p) \/ Assign(p) \/ Disturbs(p)
    PROVE  Parts'
  BY PollKeeps, BeginKeeps, ReadTaskKeeps, WriteIndexKeeps, PassKeeps, AssignKeeps,
     RebalanceKeeps, StopKeeps
     DEF Works, Disturbs

\* The worker changes no document.
LEMMA WorkerChangesNoTask ==
    ASSUME NEW p \in Process, Works(p) \/ Assign(p) \/ Disturbs(p)
    PROVE  UNCHANGED <<task, feed, job>>
  BY DEF Works, Disturbs, Poll, Begin, Ignore, ReadTask, NotFound, WriteIndex, Assign, Throws,
         Rebalance, Stop, documents

(***************************************************************************)
(* Requests, jobs and syncs.                                               *)
(***************************************************************************)
JobState == [at: JobPlace, seen: Seen, left: SUBSET Task]

\* The job that will write back has read.
HasRead(j, state) ==
    work[j].kind = "sccd" /\ state.at \in {"update", "done"} =>
        state.seen \in [work[j].tasks -> TaskDoc]

LEMMA JobChange ==
    ASSUME JobsRead, NEW j \in Job, NEW new \in JobState, HasRead(j, new),
           job' = [job EXCEPT ![j] = new]
    PROVE  JobsRead'
  <1>1. job' \in [Job -> JobState] /\ job'[j] = new /\ \A k \in Job \ {j} : job'[k] = job[k]
    BY DEF JobsRead, JobState
  <1>2. \A k \in Job : HasRead(k, job'[k])
    BY <1>1 DEF JobsRead, HasRead
  <1> QED
    BY <1>1, <1>2 DEF JobsRead, HasRead, JobState

LEMMA JobType ==
    ASSUME JobsRead, NEW j \in Job
    PROVE  /\ job \in [Job -> JobState] /\ job[j] \in JobState
           /\ job[j].at \in JobPlace /\ job[j].seen \in Seen /\ job[j].left \subseteq Task
           /\ HasRead(j, job[j])
  BY DEF JobsRead, JobState, HasRead

LEMMA GoesKeeps ==
    ASSUME JobsRead, NEW j \in Job, NEW place \in JobPlace, Goes(j, place),
           place \in {"update", "done"} => job[j].at = "update"
    PROVE  JobsRead'
  <1> DEFINE new == [job[j] EXCEPT !.at = place]
  <1>1. new \in JobState /\ new.at = place /\ new.seen = job[j].seen
    BY JobType DEF JobState
  <1>2. HasRead(j, new)
    BY <1>1, JobType DEF HasRead
  <1>3. job' = [job EXCEPT ![j] = new]
    BY DEF Goes
  <1> HIDE DEF new
  <1> QED
    BY <1>1, <1>2, <1>3, JobChange

\* Another part of a tracking step, wherever it goes.
LEMMA LeftKeeps ==
    ASSUME JobsRead, NEW j \in Job, NEW place \in JobPlace, NEW left \in SUBSET Task,
           job' = [job EXCEPT ![j].left = left, ![j].at = place],
           work[j].kind # "sccd" \/ place \notin {"update", "done"}
    PROVE  JobsRead'
  <1> DEFINE new == [job[j] EXCEPT !.left = left, !.at = place]
  <1>1. new \in JobState /\ new.at = place
    BY JobType DEF JobState
  <1>2. HasRead(j, new)
    BY <1>1 DEF HasRead
  <1>3. job' = [job EXCEPT ![j] = new]
    OBVIOUS
  <1> HIDE DEF new
  <1> QED
    BY <1>1, <1>2, <1>3, JobChange

LEMMA WroteKeeps ==
    ASSUME JobsRead, NEW j \in Job, work[j].kind = "track", NEW t \in Task,
           NEW end \in {"done", "undone"}, NEW bad \in {"failed", "broken"}, Wrote(j, t, end, bad)
    PROVE  JobsRead'
  <1> DEFINE left == job[j].left \ {t}
             place == IF job[j].left = {t} /\ job[j].at # bad THEN end ELSE job[j].at
  <1>1. left \in SUBSET Task /\ place \in JobPlace /\ bad \in JobPlace /\ work[j].kind # "sccd"
    BY JobType DEF JobPlace
  <1>2. \/ job' = [job EXCEPT ![j].left = left, ![j].at = place]
        \/ job' = [job EXCEPT ![j].left = left, ![j].at = bad]
    BY JobType DEF Wrote, JobState
  <1> HIDE DEF left, place
  <1> QED
    BY <1>1, <1>2, LeftKeeps

\* A write of a document that is there, if there is one, by a job or, `by`
\* being NoJob, by somebody else.
WrittenBy(by) ==
    \/ UNCHANGED documents
    \/ \E t \in Task, doc \in TaskDoc :
          doc.source = task[t].source /\ ~task[t].gone /\ Write(t, doc, by)

\* A document is written as the formula Writes says.
LEMMA WrittenWrites ==
    ASSUME NEW by, WrittenBy(by)
    PROVE  Writes
  BY DEF WrittenBy, Write, Writes, Published, documents

\* A request changes a field of the document, never its project.
LEMMA RequestsWrite ==
    ASSUME Types, NEW t \in Task, Requests(t)
    PROVE  WrittenBy(NoJob) /\ UNCHANGED worker /\ UNCHANGED job
  <1>1. task[t] \in TaskDoc
    BY DEF Types, IndexTypeOK
  <1>2. ASSUME NEW doc \in TaskDoc, doc.source = task[t].source, Request(t, doc)
        PROVE  WrittenBy(NoJob) /\ UNCHANGED worker /\ UNCHANGED job
    BY <1>2 DEF Request, WrittenBy
  <1>3. CASE UpdateTaskStatus(t)
    <2>1. \A s \in Status : /\ [task[t] EXCEPT !.status = s] \in TaskDoc
                            /\ [task[t] EXCEPT !.status = s].source = task[t].source
      BY <1>1 DEF TaskDoc
    <2> QED
      BY <1>2, <1>3, <2>1 DEF UpdateTaskStatus
  <1>4. CASE UpdateTask(t)
    <2>1. \A list \in StaffLists : /\ [task[t] EXCEPT !.staffs = list] \in TaskDoc
                                   /\ [task[t] EXCEPT !.staffs = list].source = task[t].source
      BY <1>1, IndexAssumption DEF TaskDoc
    <2> QED
      BY <1>2, <1>4, <2>1 DEF UpdateTask
  <1>5. CASE UpdateTaskInformation(t)
    <2>1. /\ [task[t] EXCEPT !.order = "new"] \in TaskDoc
          /\ [task[t] EXCEPT !.order = "new"].source = task[t].source
      BY <1>1 DEF TaskDoc
    <2> QED
      BY <1>2, <1>5, <2>1 DEF UpdateTaskInformation
  <1>6. CASE SyncCloseWorkOrder(t)
    BY <1>1, <1>2, <1>6 DEF SyncCloseWorkOrder
  <1>7. CASE DeleteTask(t) \/ RestoreTask(t)
    <2>1. \A b \in BOOLEAN : /\ [task[t] EXCEPT !.deleted = b] \in TaskDoc
                             /\ [task[t] EXCEPT !.deleted = b].source = task[t].source
      BY <1>1 DEF TaskDoc
    <2> QED
      BY <1>2, <1>7, <2>1 DEF DeleteTask, RestoreTask
  <1>8. CASE DropTask(t)
    <2>1. /\ [task[t] EXCEPT !.gone = TRUE] \in TaskDoc
          /\ [task[t] EXCEPT !.gone = TRUE].source = task[t].source
      BY <1>1 DEF TaskDoc
    <2> QED
      BY <1>2, <1>8, <2>1 DEF DropTask
  <1> QED
    BY <1>3, <1>4, <1>5, <1>6, <1>7, <1>8 DEF Requests

LEMMA WithoutLastType ==
    ASSUME NEW s \in Seq(Job)
    PROVE  WithoutLast(s) \in Seq(Job)
  <1> SUFFICES ASSUME s # <<>> PROVE SubSeq(s, 1, Len(s) - 1) \in Seq(Job)
    BY DEF WithoutLast
  <1>1. Len(s) - 1 \in Int /\ \A i \in 1..(Len(s) - 1) : s[i] \in Job
    OBVIOUS
  <1> QED
    BY <1>1, SubSeqProperties

LEMMA JobActsKeep ==
    ASSUME Types, NEW j \in Job, JobActs(j)
    PROVE  WrittenBy(j) /\ UNCHANGED worker /\ JobsRead'
  <1>1. JobsRead /\ work[j].tasks \subseteq Task /\ work[j].status \in Status
    BY IndexAssumption DEF Types
  <1>2. ASSUME NEW t \in Task PROVE task[t] \in TaskDoc
    BY DEF Types, IndexTypeOK
  <1>3. Read(j) \in [work[j].tasks -> TaskDoc] /\ Read(j) \in Seen
    BY <1>1, <1>2 DEF Read, Seen
  <1>4. {"failed", "broken", "update", "done", "undone", "push", "pop"} \subseteq JobPlace
    BY DEF JobPlace
  <1>5. CASE FindTaskOfOrder(j)
    <2>1. WrittenBy(j) /\ UNCHANGED worker
      BY <1>5 DEF FindTaskOfOrder, WrittenBy
    <2>2. CASE Goes(j, "failed")
      BY <1>1, <1>4, <2>1, <2>2, GoesKeeps
    <2>3. CASE job' = [job EXCEPT ![j].at = "update", ![j].seen = Read(j)]
      <3> DEFINE new == [job[j] EXCEPT !.at = "update", !.seen = Read(j)]
      <3>1. new \in JobState /\ new.at = "update" /\ new.seen = Read(j)
        BY <1>1, <1>3, <1>4, JobType DEF JobState
      <3>2. job' = [job EXCEPT ![j] = new]
        BY <2>3
      <3> HIDE DEF new
      <3>3. HasRead(j, new)
        BY <1>3, <3>1 DEF HasRead
      <3> QED
        BY <1>1, <2>1, <3>1, <3>2, <3>3, JobChange
    <2> QED
      BY <1>5, <2>1, <2>2, <2>3 DEF FindTaskOfOrder
  <1>6. CASE UpdateSccd(j)
    <2>1. UNCHANGED worker /\ job[j].at = "update"
      BY <1>6 DEF UpdateSccd, JobStep
    <2>2. JobsRead'
      BY <1>1, <1>4, <1>6, <2>1, GoesKeeps DEF UpdateSccd, Answered
    <2>3. ASSUME NEW t \in Task
          PROVE  /\ [task[t] EXCEPT !.status = work[j].status, !.sccd = j] \in TaskDoc
                 /\ [task[t] EXCEPT !.status = work[j].status, !.sccd = j].source = task[t].source
      BY <1>1, <1>2 DEF TaskDoc
    <2>4. WrittenBy(j)
      BY <1>1, <1>6, <2>3 DEF UpdateSccd, WrittenBy
    <2> QED
      BY <2>1, <2>2, <2>4
  <1>7. CASE CompensateSccd(j)
    <2>1. UNCHANGED worker /\ job[j].at = "done" /\ work[j].kind = "sccd"
      BY <1>7 DEF CompensateSccd, JobStep
    <2>2. JobsRead'
      BY <1>1, <1>4, <1>7, <2>1, GoesKeeps DEF CompensateSccd, Answered
    <2>3. job[j].seen \in [work[j].tasks -> TaskDoc]
      BY <1>1, <2>1 DEF JobsRead
    <2>4. ASSUME NEW t \in work[j].tasks
          PROVE  LET seen == job[j].seen[t]
                     doc == [task[t] EXCEPT !.status = seen.status, !.sccd = seen.sccd,
                                            !.order = seen.order]
                 IN  doc \in TaskDoc /\ doc.source = task[t].source
      <3>1. job[j].seen[t] \in TaskDoc /\ task[t] \in TaskDoc
        BY <1>1, <1>2, <2>3
      <3> QED
        BY <3>1 DEF TaskDoc
    <2>5. WrittenBy(j)
      BY <1>1, <1>7, <2>4 DEF CompensateSccd, WrittenBy
    <2> QED
      BY <2>1, <2>2, <2>5
  <1>8. CASE BeginTracking(j)
    <2>1. WrittenBy(j) /\ UNCHANGED worker /\ work[j].kind # "sccd"
      BY <1>8 DEF BeginTracking, JobStep, WrittenBy
    <2> DEFINE new == [at |-> "push", seen |-> Read(j), left |-> work[j].tasks]
    <2>2. new \in JobState /\ job' = [job EXCEPT ![j] = new]
      BY <1>1, <1>3, <1>4, <1>8 DEF BeginTracking, JobState
    <2> HIDE DEF new
    <2> QED
      BY <1>1, <2>1, <2>2, JobChange DEF HasRead
  <1>9. CASE BeginPopping(j)
    <2>1. WrittenBy(j) /\ UNCHANGED worker
      BY <1>9 DEF BeginPopping, WrittenBy
    <2>2. job' = [job EXCEPT ![j].left = work[j].tasks, ![j].at = "pop"]
      BY <1>1, <1>9, JobType DEF BeginPopping, JobState
    <2> QED
      BY <1>1, <1>4, <2>1, <2>2, LeftKeeps
  <1>10. CASE JobFails(j)
    <2>1. WrittenBy(j) /\ UNCHANGED worker
      BY <1>10 DEF JobFails, WrittenBy
    <2>2. CASE Goes(j, "failed") \/ Goes(j, "broken")
      BY <1>1, <1>4, <2>1, <2>2, GoesKeeps
    <2>3. ASSUME NEW t \in job[j].left,
                 job' = [job EXCEPT ![j].left = @ \ {t},
                              ![j].at = IF @ \in {"pop", "broken"} THEN "broken" ELSE "failed"]
          PROVE  JobsRead'
      <3> DEFINE left == job[j].left \ {t}
                 place == IF job[j].at \in {"pop", "broken"} THEN "broken" ELSE "failed"
      <3>1. left \in SUBSET Task /\ place \in JobPlace /\ place \notin {"update", "done"}
        BY <1>1, <1>4, JobType
      <3>2. job' = [job EXCEPT ![j].left = left, ![j].at = place]
        BY <1>1, <2>3, JobType DEF JobState
      <3> HIDE DEF left, place
      <3> QED
        BY <1>1, <3>1, <3>2, LeftKeeps
    <2> QED
      BY <1>10, <2>1, <2>2, <2>3 DEF JobFails
  <1>11. ASSUME NEW t \in Task, Push(j, t) PROVE WrittenBy(j) /\ UNCHANGED worker /\ JobsRead'
    <2>1. UNCHANGED worker /\ work[j].kind = "track"
      BY <1>11 DEF Push
    <2>2. /\ [task[t] EXCEPT !.tracking = Append(@, j)] \in TaskDoc
          /\ [task[t] EXCEPT !.tracking = Append(@, j)].source = task[t].source
      <3>1. task[t] \in TaskDoc /\ Append(task[t].tracking, j) \in Seq(Job)
        BY <1>2, AppendProperties DEF TaskDoc
      <3>2. \A s \in Seq(Job) : /\ [task[t] EXCEPT !.tracking = s] \in TaskDoc
                                /\ [task[t] EXCEPT !.tracking = s].source = task[t].source
        BY <3>1 DEF TaskDoc
      <3> QED
        BY <3>1, <3>2
    <2>3. CASE NotFoundBy(j, t)
      <3>1. WrittenBy(j)
        BY <2>3 DEF NotFoundBy, WrittenBy
      <3>2. job[j].left \ {t} \in SUBSET Task
        BY <1>1, JobType
      <3>3. job' = [job EXCEPT ![j].left = job[j].left \ {t}, ![j].at = "failed"]
        BY <2>3 DEF NotFoundBy
      <3> QED
        BY <1>1, <1>4, <2>1, <3>1, <3>2, <3>3, LeftKeeps
    <2>4. CASE ~task[t].gone /\ Wrote(j, t, "done", "failed") /\ Write(t, [task[t] EXCEPT !.tracking = Append(@, j)], j)
      BY <1>1, <2>1, <2>2, <2>4, WroteKeeps DEF WrittenBy
    <2> QED
      BY <1>11, <2>3, <2>4 DEF Push
  <1>12. ASSUME NEW t \in Task, Pop(j, t) PROVE WrittenBy(j) /\ UNCHANGED worker /\ JobsRead'
    <2>1. UNCHANGED worker /\ work[j].kind = "track" /\ Wrote(j, t, "undone", "broken")
      BY <1>12 DEF Pop
    <2>2. JobsRead'
      BY <1>1, <2>1, WroteKeeps
    <2>3. \A s \in Seq(Job) : WithoutLast(s) \in Seq(Job)
      BY WithoutLastType
    <2>4. task[t] \in TaskDoc /\ task[t].tracking \in Seq(Job)
      BY <1>2 DEF TaskDoc
    <2>5. \A s \in Seq(Job) : /\ [task[t] EXCEPT !.tracking = s] \in TaskDoc
                              /\ [task[t] EXCEPT !.tracking = s].source = task[t].source
      BY <2>4 DEF TaskDoc
    <2>6. WrittenBy(j)
      BY <1>12, <2>3, <2>4, <2>5 DEF Pop, WrittenBy
    <2> QED
      BY <2>1, <2>2, <2>6
  <1> QED
    BY <1>5, <1>6, <1>7, <1>8, <1>9, <1>10, <1>11, <1>12 DEF JobActs

LEMMA SyncActsWrite ==
    ASSUME Types, SyncActs
    PROVE  WrittenBy(NoJob) /\ UNCHANGED worker /\ UNCHANGED job
  <1>1. CASE FindTasksToSync \/ ValidateIdsWithIndexingSource \/ SyncFails
    BY <1>1 DEF FindTasksToSync, ValidateIdsWithIndexingSource, SyncFails, WrittenBy
  <1>2. ASSUME NEW t \in Task, Touch(t) PROVE WrittenBy(NoJob) /\ UNCHANGED worker /\ UNCHANGED job
    <2>1. task[t] \in TaskDoc
      BY DEF Types, IndexTypeOK
    <2> QED
      BY <1>2, <2>1 DEF Touch, WrittenBy
  <1> QED
    BY <1>1, <1>2 DEF SyncActs

(***************************************************************************)
(* The theorems.                                                           *)
(***************************************************************************)
LEMMA Initially == Init => Inv
  <1> SUFFICES ASSUME Init PROVE Inv
    OBVIOUS
  <1>1. PICK case \in Cases :
          /\ task = [t \in Task |-> Created(case.source[t])]
          /\ index = [t \in Task |-> IF t \in case.missing THEN NoDoc ELSE Shown(t)]
          /\ unsure = case.missing
          /\ job = [j \in Job |-> [at |-> IF j \in case.jobs THEN "ready" ELSE "off",
                                   seen |-> NoDoc, left |-> {}]]
    BY DEF Init
  <1>2. /\ feed = <<>> /\ owner = Nobody /\ next = 1
        /\ hand = [p \in Process |-> Idle] /\ done = {}
    BY DEF Init
  <1>3. /\ case.source \in [Task -> Sources] /\ case.missing \subseteq Task
        /\ "PENDING" \in Status
    BY IndexAssumption DEF Sources
  <1>4. ASSUME NEW t \in Task
        PROVE  /\ task[t] \in TaskDoc /\ task[t].at = 0
               /\ ~task[t].deleted /\ ~task[t].gone
    <2>1. task[t] = Created(case.source[t]) /\ case.source[t] \in Sources
      BY <1>1, <1>3
    <2>2. <<>> \in Seq(Job)
      OBVIOUS
    <2> QED
      BY <1>3, <2>1, <2>2 DEF Created, TaskDoc
  <1>5. ASSUME NEW t \in Task PROVE Shown(t) \in Docs \cup {NoDoc}
    BY <1>4 DEF Shown, Docs
  <1>6. IndexTypeOK
    <2>1. task \in [Task -> TaskDoc] /\ index \in [Task -> Docs \cup {NoDoc}]
      BY <1>1, <1>4, <1>5
    <2>2. feed \in Seq(Message) /\ Len(feed) = 0
      BY <1>2
    <2> QED
      BY <1>1, <1>2, <1>3, <2>1, <2>2, IdleType DEF IndexTypeOK
  <1>7. JobsRead
    BY <1>1 DEF JobsRead, JobPlace, Seen
  <1>8. LastMessage
    BY <1>2, <1>4 DEF LastMessage
  <1>9. UndoneToCome /\ HandsFresh
    BY <1>2, IdleType DEF UndoneToCome, HandsFresh
  <1>10. OthersOut /\ IndexShowsTask
    BY <1>1 DEF OthersOut, IndexShowsTask, Shown
  <1> QED
    BY <1>6, <1>7, <1>8, <1>9, <1>10 DEF Inv, Types

LEMMA Step == Inv /\ [Next]_vars => Inv'
  <1> SUFFICES ASSUME Inv, [Next]_vars PROVE Inv'
    OBVIOUS
  <1>1. Types /\ JobsRead
    BY DEF Inv, Types
  <1>2. ASSUME Writes, UNCHANGED worker, JobsRead' PROVE Inv'
    BY <1>2, WriteKeeps DEF Parts, Inv, Types
  <1>3. ASSUME UNCHANGED job PROVE JobsRead'
    BY <1>1, <1>3 DEF JobsRead
  <1>4. ASSUME NEW t \in Task, Requests(t) PROVE Inv'
    BY <1>1, <1>2, <1>3, <1>4, RequestsWrite, WrittenWrites
  <1>5. ASSUME NEW j \in Job, JobActs(j) PROVE Inv'
    BY <1>1, <1>2, <1>5, JobActsKeep, WrittenWrites
  <1>6. ASSUME NEW p \in Process, Works(p) \/ Assign(p) \/ Disturbs(p) PROVE Inv'
    BY <1>3, <1>6, WorkerKeeps, WorkerChangesNoTask DEF Parts, Inv, Types
  <1>7. CASE SyncActs
    BY <1>1, <1>2, <1>3, <1>7, SyncActsWrite, WrittenWrites
  <1>8. CASE UNCHANGED vars
    BY <1>2, <1>3, <1>8 DEF vars, documents, Writes
  <1> QED
    BY <1>4, <1>5, <1>6, <1>7, <1>8 DEF Next

\* The types, for any number of tasks, processes and jobs: above all, who owns
\* a batch owns the partition and is at its end (kafka consumer), and a
\* compensation has read what it writes back (updateSccdTaskMetaInfo.worker.js).
THEOREM IndexTypeCorrect == Spec => []IndexTypeOK
  <1>1. Inv => IndexTypeOK
    BY DEF Inv, Types
  <1> QED
    BY <1>1, Initially, Step, PTL DEF Spec

\* Once no message of a task is to come, the index shows the task as it is,
\* unless its last message failed or came late: however requests, jobs, syncs,
\* rebalances and crashes interleave (taskMonitorList.worker.js).
THEOREM IndexShown == Spec => []IndexShowsTask
  <1>1. Inv => IndexShowsTask
    BY DEF Inv
  <1> QED
    BY <1>1, Initially, Step, PTL DEF Spec

(***************************************************************************)
(* What dispatchers see.                                                   *)
(***************************************************************************)
\* A task as the index shows it is a document of the index.
LEMMA ShownIsDoc ==
  ASSUME Types, NEW t \in Task, ~task[t].gone, ~task[t].deleted, task[t].source = "TRUE_CFM"
  PROVE  /\ Shown(t) = enrichAssuranceTask(task[t], about[t])
         /\ Shown(t) # NoDoc
  <1>1. task[t] \in TaskDoc /\ about[t] \in Place
    BY IndexAssumption DEF Types, IndexTypeOK
  <1>2. Shown(t) = enrichAssuranceTask(task[t], about[t])
    BY DEF Shown, isValidProject, enrichESTask, findSourceSystem
  <1>3. getStatusSequence(task[t].status) \in 1..4
    BY DEF getStatusSequence
  <1>4. task[t].staffs \in Seq(Staff) /\ task[t].status \in Status /\ task[t].at \in Nat
    BY <1>1 DEF TaskDoc
  <1>5. StaffId(task[t]) \in Staff \cup {NoStaff}
    <2>1. task[t].staffs # <<>> => Head(task[t].staffs) \in Staff
      BY <1>4, HeadTailProperties
    <2> QED
      BY <2>1 DEF StaffId
  <1>6. TeamId(task[t], about[t]) \in Team \cup {NoTeam}
    <2>1. about[t].team \in Team \cup {NoTeam}
      BY <1>1 DEF Place
    <2>2. teamOf \in [Staff -> Team \cup {NoTeam}]
      BY IndexAssumption
    <2>3. StaffId(task[t]) # NoStaff => teamOf[StaffId(task[t])] \in Team \cup {NoTeam}
      BY <1>5, <2>2
    <2> QED
      BY <2>1, <2>3 DEF TeamId
  <1>7. enrichAssuranceTask(task[t], about[t]) \in IndexDoc
    BY <1>3, <1>4, <1>5, <1>6 DEF enrichAssuranceTask, IndexDoc
  <1> QED
    BY <1>2, <1>7, IndexAssumption

\* Once the messages of an assurance task are handled, whoever would find it in the list made
\* from the tasks finds it with the search of the index, unless the index keeps another staff or
\* another area of it than the list looks at (search.js, findMonitorListTasks.js).
THEOREM SearchShows == Spec => []SearchShowsMonitorList
  <1>1. ASSUME Inv, NEW t \in Task \ unsure, NEW query \in Queries,
               ~OnTheWay(t), ~task[t].gone, task[t].source = "TRUE_CFM",
               wfmFindMonitorListTasks(query, about[t], task[t])
        PROVE  /\ index[t] # NoDoc
               /\ search(query, about[t], index[t]) \/ Overlooked(query, t)
    <2> DEFINE doc == enrichAssuranceTask(task[t], about[t])
    <2>1. ~task[t].deleted
      BY <1>1 DEF wfmFindMonitorListTasks
    <2>2. index[t] = Shown(t)
      BY <1>1 DEF Inv, IndexShowsTask
    <2>3. index[t] = doc /\ index[t] # NoDoc
      BY <1>1, <2>1, <2>2, ShownIsDoc DEF Inv
    <2>4. /\ doc.sourceSystem = "ASSURANCE" /\ doc.status = task[t].status
          /\ doc.staffId = StaffId(task[t]) /\ doc.updatedAt = task[t].at
      BY DEF enrichAssuranceTask
    <2> HIDE DEF doc
    <2>5. CASE Overlooked(query, t)
      BY <2>3, <2>5
    <2>6. CASE ~Overlooked(query, t)
      <3>1. CASE /\ task[t].status \in WFM_UNASSIGN_TASK_STATUS
                 /\ about[t].area \in query.areaCodes
        <4>1. about[t].geography \in query.areaCodes
          BY <2>6, <3>1 DEF Overlooked, WFM_ASSIGN_TASK_STATUS, WFM_UNASSIGN_TASK_STATUS
        <4> QED
          BY <2>3, <2>4, <3>1, <4>1 DEF search, generateUnassignedTaskQuery, InAreaOrTeam
      <3>2. CASE task[t].status \in WFM_ASSIGN_TASK_STATUS /\ Planned(query, about[t])
        <4>1. StaffId(task[t]) \in query.staffs
          BY <2>6, <3>2 DEF Overlooked
        <4> QED
          BY <2>3, <2>4, <3>2, <4>1 DEF search, generateAssignedTaskQuery
      <3>3. CASE /\ task[t].status = WFM_CANCELLED_TASK_STATUS
                 /\ task[t].at >= query.from /\ task[t].at <= query.to
                 /\ about[t].area \in query.areaCodes
        <4>1. about[t].geography \in query.areaCodes
          BY <2>6, <3>3 DEF Overlooked, WFM_ASSIGN_TASK_STATUS, WFM_CANCELLED_TASK_STATUS
        <4> QED
          BY <2>3, <2>4, <3>3, <4>1 DEF search, generateCancelledTaskQuery, InAreaOrTeam
      <3> QED
        BY <1>1, <2>3, <3>1, <3>2, <3>3 DEF wfmFindMonitorListTasks
    <2> QED
      BY <2>5, <2>6
  <1>2. Inv => SearchShowsMonitorList
    BY <1>1 DEF SearchShowsMonitorList
  <1> QED
    BY <1>2, Initially, Step, PTL DEF Spec

\* The classes of a group exclude each other, and only at the deadline or a quarter of an hour
\* before it there is none.
LEMMA ClassesAreApart ==
  ASSUME NEW time \in Int, NEW due \in Int
  PROVE  /\ \A one, other \in ClassesAt(time, due) : one = other
         /\ ClassesAt(time, due) = {} => due = time
         /\ \A one, other \in OtherClasses(due, time) : one = other
         /\ OtherClasses(due, time) = {} => due \in {time, time + Quarter}
  <1>1. /\ "timeout" \in ClassesAt(time, due) <=> time > due
        /\ "warning" \in ClassesAt(time, due) <=> time + Quarter > due /\ time < due
        /\ "normal" \in ClassesAt(time, due) <=> time + Quarter <= due
        /\ ClassesAt(time, due) \subseteq {"timeout", "warning", "normal"}
    BY DEF ClassesAt
  <1>2. /\ "timeout" \in OtherClasses(due, time) <=> due < time
        /\ "warning" \in OtherClasses(due, time) <=> due < time + Quarter /\ due > time
        /\ "normal" \in OtherClasses(due, time) <=> due > time + Quarter
        /\ OtherClasses(due, time) \subseteq {"timeout", "warning", "normal"}
    BY DEF OtherClasses
  <1>3. /\ \A one, other \in ClassesAt(time, due) : one = other
        /\ ClassesAt(time, due) = {} => due = time
    BY <1>1 DEF Quarter
  <1>4. /\ \A one, other \in OtherClasses(due, time) : one = other
        /\ OtherClasses(due, time) = {} => due \in {time, time + Quarter}
    BY <1>2 DEF Quarter
  <1> QED
    BY <1>3, <1>4

\* A group that has one class at most counts once at most.
LEMMA OneClass ==
  ASSUME NEW group, NEW classes, \A one, other \in classes : one = other
  PROVE  /\ \A one, other \in {group} \X classes : one = other
         /\ {group} \X classes = {} => classes = {}
  <1>1. ASSUME NEW one \in {group} \X classes, NEW other \in {group} \X classes PROVE one = other
    <2>1. PICK x \in classes : one = <<group, x>>
      BY <1>1
    <2>2. PICK y \in classes : other = <<group, y>>
      BY <1>1
    <2> QED
      BY <2>1, <2>2
  <1>2. ASSUME NEW x \in classes PROVE <<group, x>> \in {group} \X classes
    OBVIOUS
  <1> QED
    BY <1>1, <1>2

\* A task is in one group at most: it has a staff or none, and one status.
LEMMA OneGroup ==
  ASSUME NEW query, NEW place, NEW doc, NEW now
  PROVE  LET counted == findSLASummary(query, place, doc, now)
             assigned == assignedTaskFilter(query, place, doc)
             unassigned == unassignedTaskFilter(query, place, doc)
         IN  /\ assigned => /\ counted = {"assigned"} \X AssignedClasses(place, doc, now)
                            /\ ~unassigned /\ ~cancelledTaskFilter(query, place, doc)
             /\ unassigned => /\ counted = {"unassigned"} \X OtherClasses(place.deadline, now)
                              /\ ~cancelledTaskFilter(query, place, doc)
             /\ ~assigned /\ ~unassigned =>
                    counted = {"cancelled"} \X CancelledClasses(query, place, doc, now)
  <1> DEFINE assigned == assignedTaskFilter(query, place, doc)
             unassigned == unassignedTaskFilter(query, place, doc)
             cancelled == CancelledClasses(query, place, doc, now)
  <1>1. assigned => ~Unplanned(query, place, doc)
    BY DEF assignedTaskFilter, SomeStaff, Unplanned
  <1>2. /\ assigned => ~unassigned
        /\ assigned \/ unassigned => ~cancelledTask(query, place, doc)
    BY <1>1 DEF unassignedTaskFilter, cancelledTask
  <1>3. /\ cancelledTaskFilter(query, place, doc) => cancelledTask(query, place, doc)
        /\ ~cancelledTask(query, place, doc) => cancelled = {}
    BY DEF cancelledTaskFilter, CancelledClasses
  <1>4. cancelled = {} => {"cancelled"} \X cancelled = {}
    OBVIOUS
  <1> HIDE DEF assigned, unassigned, cancelled
  <1>5. findSLASummary(query, place, doc, now) =
            (IF assigned THEN {"assigned"} \X AssignedClasses(place, doc, now) ELSE {})
                \cup (IF unassigned THEN {"unassigned"} \X OtherClasses(place.deadline, now)
                                    ELSE {})
                \cup {"cancelled"} \X cancelled
    BY DEF findSLASummary, assigned, unassigned, cancelled
  <1>6. /\ assigned => /\ findSLASummary(query, place, doc, now) =
                              {"assigned"} \X AssignedClasses(place, doc, now)
                       /\ ~unassigned /\ ~cancelledTaskFilter(query, place, doc)
        /\ unassigned => /\ findSLASummary(query, place, doc, now) =
                                {"unassigned"} \X OtherClasses(place.deadline, now)
                         /\ ~cancelledTaskFilter(query, place, doc)
        /\ ~assigned /\ ~unassigned =>
               findSLASummary(query, place, doc, now) = {"cancelled"} \X cancelled
    BY <1>2, <1>3, <1>4, <1>5
  <1> QED
    BY <1>6 DEF assigned, unassigned, cancelled

\* A task is counted in a group because the filter of the group lets it through.
LEMMA CountedWhy ==
  ASSUME NEW query, NEW place, NEW doc, NEW now,
         NEW count \in findSLASummary(query, place, doc, now)
  PROVE  \/ count[1] = "assigned" /\ assignedTaskFilter(query, place, doc)
         \/ count[1] = "unassigned"
         \/ count = <<"cancelled", "warning">>
         \/ count[1] = "cancelled" /\ cancelledTaskFilter(query, place, doc)
  <1>1. CASE assignedTaskFilter(query, place, doc)
    <2>1. count \in {"assigned"} \X AssignedClasses(place, doc, now)
      BY <1>1, OneGroup
    <2> QED
      BY <1>1, <2>1
  <1>2. CASE unassignedTaskFilter(query, place, doc)
    <2>1. count \in {"unassigned"} \X OtherClasses(place.deadline, now)
      BY <1>2, OneGroup
    <2> QED
      BY <2>1
  <1>3. CASE ~assignedTaskFilter(query, place, doc) /\ ~unassignedTaskFilter(query, place, doc)
    <2>1. count \in {"cancelled"} \X CancelledClasses(query, place, doc, now)
      BY <1>3, OneGroup
    <2>2. PICK class \in CancelledClasses(query, place, doc, now) : count = <<"cancelled", class>>
      BY <2>1
    <2>3. class = "warning" \/ cancelledTaskFilter(query, place, doc)
      BY <2>2 DEF CancelledClasses
    <2> QED
      BY <2>2, <2>3
  <1> QED
    BY <1>1, <1>2, <1>3

\* The summary counts no task twice, leaves one out that a filter lets through only at its
\* deadline or a quarter of an hour before, and counts it again in a later period only where it
\* looks at no period: any tasks, places, queries, times and deadlines (findSLASummary.js).
THEOREM SummaryCounts == Spec => []SummaryCountsOnce
  <1>1. ASSUME Types, NEW t \in Task, NEW query \in Queries, NEW now \in Times
        PROVE  /\ \A one, other \in Counted(query, t, now) : one = other
               /\ Summed(query, t) /\ Counted(query, t, now) = {} =>
                      about[t].deadline \in {Measured(t, now), Measured(t, now) + Quarter}
    <2> DEFINE counted == Counted(query, t, now)
               due == about[t].deadline
               time == Measured(t, now)
               assigned == AssignedClasses(about[t], task[t], now)
               other == OtherClasses(due, now)
               cancelled == CancelledClasses(query, about[t], task[t], now)
    <2>1. now \in Int /\ due \in Int /\ about[t].completedAt \in Int \cup {NoTime}
      BY IndexAssumption DEF Place
    <2>2. /\ \A a, b \in assigned : a = b
          /\ assigned = {} => due = time
      <3>1. CASE task[t].status # "DONE"
        <4>1. assigned = ClassesAt(now, due) /\ time = now
          BY <3>1 DEF AssignedClasses, Measured
        <4> QED
          BY <2>1, <4>1, ClassesAreApart
      <3>2. CASE task[t].status = "DONE" /\ about[t].completedAt = NoTime
        <4>1. assigned = {"normal"}
          BY <3>2 DEF AssignedClasses
        <4> QED
          BY <4>1
      <3>3. CASE task[t].status = "DONE" /\ about[t].completedAt # NoTime
        <4>1. assigned = ClassesAt(about[t].completedAt, due) /\ time = about[t].completedAt
          BY <3>3 DEF AssignedClasses, Measured
        <4>2. about[t].completedAt \in Int
          BY <2>1, <3>3
        <4> QED
          BY <2>1, <4>1, <4>2, ClassesAreApart
      <3> QED
        BY <3>1, <3>2, <3>3
    <2>3. /\ \A a, b \in other : a = b
          /\ other = {} => due \in {now, now + Quarter}
      BY <2>1, ClassesAreApart
    <2>4. /\ cancelled \subseteq other
          /\ cancelledTaskFilter(query, about[t], task[t]) => cancelled = other
      BY DEF CancelledClasses, cancelledTaskFilter
    <2>5. task[t].status # "DONE" => time = now
      BY DEF Measured
    <2>6. CASE assignedTaskFilter(query, about[t], task[t])
      <3>1. counted = {"assigned"} \X assigned
        BY <2>6, OneGroup DEF Counted
      <3> HIDE DEF counted, assigned, due, time
      <3>2. (\A a, b \in counted : a = b) /\ (counted = {} => assigned = {})
        BY <2>2, <3>1, OneClass
      <3> QED
        BY <2>2, <3>2 DEF counted, due, time
    <2>7. CASE unassignedTaskFilter(query, about[t], task[t])
      <3>1. counted = {"unassigned"} \X other
        BY <2>7, OneGroup DEF Counted
      <3>2. time = now
        BY <2>5, <2>7 DEF unassignedTaskFilter
      <3> HIDE DEF counted, other, due, time
      <3>3. (\A a, b \in counted : a = b) /\ (counted = {} => other = {})
        BY <2>3, <3>1, OneClass
      <3> QED
        BY <2>3, <3>2, <3>3 DEF counted, due, time
    <2>8. CASE /\ ~assignedTaskFilter(query, about[t], task[t])
               /\ ~unassignedTaskFilter(query, about[t], task[t])
      <3>1. counted = {"cancelled"} \X cancelled
        BY <2>8, OneGroup DEF Counted
      <3>2. Summed(query, t) => cancelled = other /\ time = now
        BY <2>4, <2>5, <2>8 DEF Summed, cancelledTaskFilter, cancelledTask
      <3> HIDE DEF counted, cancelled, other, due, time
      <3>3. \A a, b \in cancelled : a = b
        BY <2>3, <2>4
      <3>4. (\A a, b \in counted : a = b) /\ (counted = {} => cancelled = {})
        BY <3>1, <3>3, OneClass
      <3> QED
        BY <2>3, <3>2, <3>4 DEF counted, due, time
    <2> QED
      BY <2>6, <2>7, <2>8
  <1>2. ASSUME Types, NEW t \in Task, NEW query \in Queries, NEW later \in Queries,
               NEW now \in Times, query.to <= later.from, about[t].from <= about[t].to,
               NEW count \in Counted(query, t, now) \cap Counted(later, t, now)
        PROVE  count[1] = "unassigned" \/ count = <<"cancelled", "warning">>
    <2>1. /\ about[t].from \in Int /\ about[t].to \in Int /\ task[t].at \in Int
          /\ query.to \in Int /\ later.from \in Int
      <3>1. task[t] \in TaskDoc /\ about[t] \in Place
        BY <1>2, IndexAssumption DEF Types, IndexTypeOK
      <3> QED
        BY <3>1, IndexAssumption DEF TaskDoc, Place
    <2>2. ~(assignedTaskFilter(query, about[t], task[t]) /\ assignedTaskFilter(later, about[t], task[t]))
      BY <1>2, <2>1 DEF assignedTaskFilter
    <2>3. ~(cancelledTaskFilter(query, about[t], task[t]) /\ cancelledTaskFilter(later, about[t], task[t]))
      BY <1>2, <2>1 DEF cancelledTaskFilter
    <2>4. /\ count \in findSLASummary(query, about[t], task[t], now)
          /\ count \in findSLASummary(later, about[t], task[t], now)
      BY <1>2 DEF Counted
    <2> QED
      BY <2>2, <2>3, <2>4, CountedWhy
  <1>3. Types => SummaryCountsOnce
    BY <1>1, <1>2 DEF SummaryCountsOnce
  <1> QED
    BY <1>3, Initially, Step, PTL DEF Spec, Inv

(***************************************************************************)
(* A step that is undone.                                                  *)
(***************************************************************************)
Tracks(j) == work[j].kind = "track" /\ job[j].at \in {"push", "done", "pop"}

\* Is there an entry of the job at this task now?
Pushed(j, t) ==
    \/ job[j].at = "push" /\ t \notin job[j].left
    \/ job[j].at = "done"
    \/ job[j].at = "pop" /\ t \in job[j].left

\* A job whose tracking nobody else wrote to finds its own entry, and nothing
\* else, after what it has read.
TracksItsOwn ==
    \A j \in Job : Tracks(j) =>
        /\ job[j].seen \in [work[j].tasks -> TaskDoc]
        /\ j \notin met => \A t \in work[j].tasks :
              LET before == job[j].seen[t].tracking
              IN  task[t].gone \/ task[t].tracking = IF Pushed(j, t) THEN Append(before, j) ELSE before

\* Popping undoes pushing.
LEMMA PopUndoesPush ==
    ASSUME NEW S, NEW s \in Seq(S), NEW x \in S
    PROVE  WithoutLast(Append(s, x)) = s
  <1> DEFINE longer == Append(s, x)
  <1>1. longer \in Seq(S) /\ Len(longer) = Len(s) + 1 /\ longer # <<>>
        /\ \A i \in 1..Len(s) : longer[i] = s[i]
    BY AppendProperties
  <1>2. Len(s) \in Nat
    OBVIOUS
  <1> HIDE DEF longer
  <1>3. WithoutLast(longer) = SubSeq(longer, 1, Len(s))
    BY <1>1, <1>2 DEF WithoutLast
  <1>4. SubSeq(longer, 1, Len(s)) \in Seq(S) /\ Len(SubSeq(longer, 1, Len(s))) = Len(s)
        /\ \A i \in 1..Len(s) : SubSeq(longer, 1, Len(s))[i] = s[i]
    BY <1>1, <1>2
  <1>5. SubSeq(longer, 1, Len(s)) = s
    BY <1>4, SeqEqual
  <1> QED
    BY <1>3, <1>5 DEF longer

\* The effect of one write on a task: its fields and whose jobs met it.
LEMMA WriteEffect ==
    ASSUME task \in [Task -> TaskDoc], NEW t \in Task, NEW doc \in TaskDoc, NEW by, Write(t, doc, by)
    PROVE  /\ \A u \in Task : u # t => task'[u] = task[u]
           /\ task'[t].tracking = doc.tracking /\ task'[t].gone = doc.gone
           /\ task'[t].status = doc.status /\ task'[t].sccd = doc.sccd /\ task'[t].order = doc.order
           /\ met \subseteq met'
  BY DEF Write, TaskDoc

\* Whoever else writes a job's tasks leaves their tracking, or is met.
LEMMA OthersLeaveTracking ==
    ASSUME task \in [Task -> TaskDoc], NEW by, WrittenBy(by), NEW j \in Job, j # by, Tracks(j),
           work[j].tasks \subseteq Task
    PROVE  /\ met \subseteq met'
           /\ j \notin met' => \A t \in work[j].tasks :
                 task[t].gone \/ task'[t].gone \/ task'[t].tracking = task[t].tracking
           /\ \A t \in work[j].tasks : task[t].gone => task'[t].gone
  <1>1. CASE UNCHANGED documents
    BY <1>1 DEF documents
  <1>2. ASSUME NEW t \in Task, NEW doc \in TaskDoc, ~task[t].gone, Write(t, doc, by)
        PROVE  /\ met \subseteq met'
               /\ j \notin met' /\ t \in work[j].tasks => task'[t].tracking = task[t].tracking
               /\ \A u \in Task : u # t => task'[u] = task[u]
    <2>1. Active(j) /\ "tracking" \in Fields(j)
      BY DEF Tracks, Active, Fields
    <2>2. j \notin met' /\ t \in work[j].tasks => doc.tracking = task[t].tracking
      BY <1>2, <2>1 DEF Write
    <2> QED
      BY <1>2, <2>2, WriteEffect
  <1> QED
    BY <1>1, <1>2 DEF WrittenBy

\* A step that leaves a tracking job where it is, and its tasks to it.
LEMMA TracksKept ==
    ASSUME Types, TracksItsOwn, NEW by, WrittenBy(by), NEW j \in Job, j # by, job'[j] = job[j], Tracks(j)'
    PROVE  /\ job'[j].seen \in [work[j].tasks -> TaskDoc]
           /\ j \notin met' => \A t \in work[j].tasks :
                 LET before == job'[j].seen[t].tracking
                 IN  task'[t].gone \/ task'[t].tracking = IF Pushed(j, t)' THEN Append(before, j) ELSE before
  <1>1. Tracks(j) /\ \A t \in Task : Pushed(j, t)' = Pushed(j, t)
    BY DEF Tracks, Pushed
  <1>2. work[j].tasks \subseteq Task /\ task \in [Task -> TaskDoc]
    BY IndexAssumption DEF Types, IndexTypeOK
  <1>3. /\ met \subseteq met'
        /\ j \notin met' => \A t \in work[j].tasks :
              task[t].gone \/ task'[t].gone \/ task'[t].tracking = task[t].tracking
        /\ \A t \in work[j].tasks : task[t].gone => task'[t].gone
    BY <1>1, <1>2, OthersLeaveTracking
  <1> QED
    BY <1>1, <1>2, <1>3 DEF TracksItsOwn

\* The jobs beside the one that acts.
LEMMA JobActsAlone ==
    ASSUME Types, NEW j \in Job, JobActs(j)
    PROVE  \A k \in Job \ {j} : job'[k] = job[k]
  <1>1. job \in [Job -> JobState]
    BY JobType DEF Types, JobsRead, JobState
  <1> QED
    BY <1>1 DEF JobActs, FindTaskOfOrder, UpdateSccd, CompensateSccd, BeginTracking, BeginPopping, JobFails,
                Push, Pop, Answered, Goes, NotFoundBy, Wrote

\* Popping writes one task.
LEMMA PopEffect ==
    ASSUME Types, NEW j \in Job, NEW t \in Task, Pop(j, t)
    PROVE  /\ met \subseteq met' /\ \A u \in Task : u # t => task'[u] = task[u]
           /\ task[t].gone => task'[t].gone
           /\ ~task[t].gone => task'[t].tracking = WithoutLast(task[t].tracking)
  <1>1. task \in [Task -> TaskDoc] /\ task[t] \in TaskDoc
    BY DEF Types, IndexTypeOK
  <1>2. CASE task[t].gone
    BY <1>2 DEF Pop, documents
  <1>3. CASE ~task[t].gone
    <2>1. WithoutLast(task[t].tracking) \in Seq(Job)
      <3>1. task[t].tracking \in Seq(Job)
        BY <1>1 DEF TaskDoc
      <3> QED
        BY <3>1, WithoutLastType
    <2>2. /\ [task[t] EXCEPT !.tracking = WithoutLast(@)] \in TaskDoc
          /\ [task[t] EXCEPT !.tracking = WithoutLast(@)].tracking = WithoutLast(task[t].tracking)
      <3>1. \A s \in Seq(Job) : /\ [task[t] EXCEPT !.tracking = s] \in TaskDoc
                                /\ [task[t] EXCEPT !.tracking = s].tracking = s
        BY <1>1 DEF TaskDoc
      <3> QED
        BY <2>1, <3>1
    <2>3. Write(t, [task[t] EXCEPT !.tracking = WithoutLast(@)], j)
      BY <1>3 DEF Pop
    <2> QED
      BY <1>1, <1>3, <2>2, <2>3, WriteEffect
  <1> QED
    BY <1>2, <1>3

\* A task is popped back to what its job has read.
LEMMA PopRestores ==
    ASSUME Types, TracksItsOwn, NEW j \in Job, NEW t \in Task, Pop(j, t), job[j].at = "pop", j \notin met,
           t \in work[j].tasks
    PROVE  task'[t].gone \/ task'[t].tracking = job[j].seen[t].tracking
  <1>1. Tracks(j) /\ Pushed(j, t)
    BY DEF Pop, Tracks, Pushed
  <1>2. task[t].gone \/ task[t].tracking = Append(job[j].seen[t].tracking, j)
    BY <1>1 DEF TracksItsOwn
  <1>3. job[j].seen[t].tracking \in Seq(Job)
    BY <1>1 DEF TracksItsOwn, TaskDoc
  <1>4. WithoutLast(Append(job[j].seen[t].tracking, j)) = job[j].seen[t].tracking
    BY <1>3, PopUndoesPush
  <1> QED
    BY <1>2, <1>4, PopEffect

\* A job's own step: it pushes its entry to a task it has read, or pops it.
LEMMA OwnStepTracks ==
    ASSUME Types, TracksItsOwn, NEW j \in Job, JobActs(j), Tracks(j)'
    PROVE  /\ job'[j].seen \in [work[j].tasks -> TaskDoc]
           /\ j \notin met' => \A t \in work[j].tasks :
                 LET before == job'[j].seen[t].tracking
                 IN  task'[t].gone \/ task'[t].tracking = IF Pushed(j, t)' THEN Append(before, j) ELSE before
  <1>1. /\ task \in [Task -> TaskDoc] /\ work[j].tasks \subseteq Task
        /\ job \in [Job -> JobState] /\ job[j] \in JobState /\ JobsRead
    BY IndexAssumption, JobType DEF Types, IndexTypeOK
  <1>2. work[j].kind = "track"
    BY DEF Tracks
  <1>3. ASSUME UNCHANGED <<task, met>>, Tracks(j), job'[j].seen = job[j].seen,
               \A t \in work[j].tasks : Pushed(j, t)' = Pushed(j, t)
        PROVE  /\ job'[j].seen \in [work[j].tasks -> TaskDoc]
               /\ j \notin met' => \A t \in work[j].tasks :
                     LET before == job'[j].seen[t].tracking
                     IN  task'[t].gone \/ task'[t].tracking = IF Pushed(j, t)' THEN Append(before, j) ELSE before
    BY <1>3 DEF TracksItsOwn
  <1>4. CASE FindTaskOfOrder(j) \/ UpdateSccd(j) \/ CompensateSccd(j)
    BY <1>2, <1>4 DEF FindTaskOfOrder, UpdateSccd, CompensateSccd, JobStep
  <1>5. CASE BeginTracking(j)
    <2>1. job'[j] = [at |-> "push", seen |-> Read(j), left |-> work[j].tasks] /\ UNCHANGED <<task, met>>
      BY <1>1, <1>5 DEF BeginTracking, documents
    <2>2. Read(j) = [t \in work[j].tasks |-> task[t]]
      BY DEF Read
    <2>3. \A t \in work[j].tasks : ~Pushed(j, t)'
      BY <2>1 DEF Pushed
    <2> QED
      BY <1>1, <2>1, <2>2, <2>3
  <1>6. CASE BeginPopping(j)
    <2>1. /\ job[j].at = "done" /\ job'[j].at = "pop" /\ job'[j].left = work[j].tasks
          /\ job'[j].seen = job[j].seen /\ UNCHANGED <<task, met>>
      BY <1>1, <1>6 DEF BeginPopping, JobStep, documents, JobState
    <2> QED
      BY <1>2, <1>3, <2>1 DEF Pushed, Tracks
  <1>7. CASE JobFails(j)
    <2>1. job'[j].at \in {"failed", "broken"}
      BY <1>1, <1>7 DEF JobFails, Goes, JobState
    <2> QED
      BY <2>1 DEF Tracks
  <1>8. ASSUME NEW t \in Task, Push(j, t)
        PROVE  /\ job'[j].seen \in [work[j].tasks -> TaskDoc]
               /\ j \notin met' => \A u \in work[j].tasks :
                     LET before == job'[j].seen[u].tracking
                     IN  task'[u].gone \/ task'[u].tracking = IF Pushed(j, u)' THEN Append(before, j) ELSE before
    <2>1. ~NotFoundBy(j, t)
      BY <1>1 DEF NotFoundBy, Tracks, JobState
    <2>2. /\ Wrote(j, t, "done", "failed") /\ t \in job[j].left /\ job[j].at \in {"push", "failed"} /\ ~task[t].gone
          /\ Write(t, [task[t] EXCEPT !.tracking = Append(@, j)], j)
      BY <1>8, <2>1 DEF Push
    <2>3. /\ job[j].at = "push" /\ job'[j].seen = job[j].seen /\ job'[j].left = job[j].left \ {t}
          /\ \/ job'[j].at = "push"
             \/ job'[j].at = "done" /\ job[j].left = {t}
      BY <1>1, <2>2 DEF Wrote, Tracks, JobState
    <2>4. [task[t] EXCEPT !.tracking = Append(@, j)] \in TaskDoc
      <3>1. task[t] \in TaskDoc /\ Append(task[t].tracking, j) \in Seq(Job)
        BY <1>1, AppendProperties DEF TaskDoc
      <3>2. \A s \in Seq(Job) : [task[t] EXCEPT !.tracking = s] \in TaskDoc
        BY <3>1 DEF TaskDoc
      <3> QED
        BY <3>1, <3>2
    <2>5. /\ \A u \in Task : u # t => task'[u] = task[u]
          /\ task'[t].tracking = Append(task[t].tracking, j) /\ met \subseteq met'
      <3>1. [task[t] EXCEPT !.tracking = Append(@, j)].tracking = Append(task[t].tracking, j)
        BY <1>1 DEF TaskDoc
      <3> QED
        BY <1>1, <2>2, <2>4, <3>1, WriteEffect
    <2>6. Tracks(j) /\ \A u \in work[j].tasks : Pushed(j, u)' <=> Pushed(j, u) \/ u = t
      BY <1>2, <2>2, <2>3 DEF Pushed, Tracks
    <2>7. ~Pushed(j, t)
      BY <2>2, <2>3 DEF Pushed
    <2> QED
      BY <1>1, <2>2, <2>3, <2>5, <2>6, <2>7 DEF TracksItsOwn
  <1>9. ASSUME NEW t \in Task, Pop(j, t)
        PROVE  /\ job'[j].seen \in [work[j].tasks -> TaskDoc]
               /\ j \notin met' => \A u \in work[j].tasks :
                     LET before == job'[j].seen[u].tracking
                     IN  task'[u].gone \/ task'[u].tracking = IF Pushed(j, u)' THEN Append(before, j) ELSE before
    <2>1. Tracks(j) /\ job'[j].seen = job[j].seen /\ job[j].at = "pop" /\ job'[j].at = "pop"
          /\ t \in job[j].left /\ job'[j].left = job[j].left \ {t}
      BY <1>1, <1>2, <1>9 DEF Pop, Wrote, Tracks, JobState
    <2>2. \A u \in work[j].tasks : Pushed(j, u)' <=> Pushed(j, u) /\ u # t
      BY <2>1 DEF Pushed
    <2>3. met \subseteq met' /\ \A u \in Task : u # t => task'[u] = task[u]
      BY <1>1, <1>9, PopEffect
    <2>4. j \notin met /\ t \in work[j].tasks => task'[t].gone \/ task'[t].tracking = job[j].seen[t].tracking
      BY <1>1, <1>9, <2>1, PopRestores
    <2> QED
      BY <1>1, <2>1, <2>2, <2>3, <2>4 DEF TracksItsOwn
  <1> QED
    BY <1>4, <1>5, <1>6, <1>7, <1>8, <1>9 DEF JobActs

LEMMA TracksStep == Inv /\ TracksItsOwn /\ [Next]_vars => TracksItsOwn'
  <1> SUFFICES ASSUME Inv, TracksItsOwn, [Next]_vars PROVE TracksItsOwn'
    OBVIOUS
  <1>1. Types /\ NoJob \notin Job
    BY IndexAssumption DEF Inv
  <1>2. ASSUME WrittenBy(NoJob), UNCHANGED job PROVE TracksItsOwn'
    BY <1>1, <1>2, TracksKept DEF TracksItsOwn
  <1>3. ASSUME NEW t \in Task, Requests(t) PROVE TracksItsOwn'
    BY <1>1, <1>2, <1>3, RequestsWrite
  <1>4. ASSUME NEW j \in Job, JobActs(j) PROVE TracksItsOwn'
    <2>1. WrittenBy(j) /\ \A k \in Job \ {j} : job'[k] = job[k]
      BY <1>1, <1>4, JobActsKeep, JobActsAlone
    <2> QED
      BY <1>1, <1>4, <2>1, TracksKept, OwnStepTracks DEF TracksItsOwn
  <1>5. ASSUME NEW p \in Process, Works(p) \/ Assign(p) \/ Disturbs(p) PROVE TracksItsOwn'
    <2>1. UNCHANGED <<documents, job>>
      BY <1>5 DEF Works, Disturbs, Poll, Begin, Ignore, ReadTask, NotFound, WriteIndex, Assign, Throws, Rebalance, Stop
    <2> QED
      BY <1>2, <2>1 DEF WrittenBy
  <1>6. CASE SyncActs
    BY <1>1, <1>2, <1>6, SyncActsWrite
  <1>7. CASE UNCHANGED vars
    BY <1>2, <1>7 DEF vars, WrittenBy
  <1> QED
    BY <1>3, <1>4, <1>5, <1>6, <1>7 DEF Next

LEMMA TracksInit == Init => TracksItsOwn
  BY DEF Init, TracksItsOwn, Tracks

\* Undoing the update of a work order writes back what was read.
LEMMA UndoneSccd ==
    ASSUME Types, NEW j \in Job, CompensateSccd(j), NEW t \in work[j].tasks
    PROVE  task'[t].gone \/ \A f \in Fields(j) : task'[t][f] = job[j].seen[t][f]
  <1>1. task \in [Task -> TaskDoc] /\ work[j].tasks \subseteq Task /\ JobsRead
    BY IndexAssumption DEF Types, IndexTypeOK
  <1>2. work[j].kind = "sccd" /\ job[j].at = "done"
    BY DEF CompensateSccd, JobStep
  <1>3. PICK one \in Task : work[j].tasks = {one}
    BY <1>2, IndexAssumption
  <1>4. t = one /\ t \in Task
    BY <1>3
  <1>5. task[t] \in TaskDoc /\ job[j].seen[t] \in TaskDoc
    BY <1>1, <1>2, <1>4 DEF JobsRead
  <1>6. Fields(j) = {"status", "sccd", "order"}
    BY <1>2 DEF Fields
  <1>7. CASE task[t].gone
    BY <1>3, <1>4, <1>7 DEF CompensateSccd, documents
  <1>8. CASE ~task[t].gone
    <2> DEFINE seen == job[j].seen[t]
               doc == [task[t] EXCEPT !.status = seen.status, !.sccd = seen.sccd, !.order = seen.order]
    <2>1. Write(t, doc, j)
      BY <1>3, <1>4, <1>8 DEF CompensateSccd
    <2>2. doc \in TaskDoc /\ doc.status = seen.status /\ doc.sccd = seen.sccd /\ doc.order = seen.order
      BY <1>5 DEF TaskDoc
    <2> HIDE DEF doc
    <2>3. task'[t].status = seen.status /\ task'[t].sccd = seen.sccd /\ task'[t].order = seen.order
      BY <1>1, <1>4, <2>1, <2>2, WriteEffect
    <2> QED
      BY <1>6, <2>3
  <1> QED
    BY <1>7, <1>8

\* The last pop of a tracking step finds every other task popped.
LEMMA UndoneTracking ==
    ASSUME Types, TracksItsOwn, NEW j \in Job \ met, NEW t \in Task, Pop(j, t), job[j].at # "undone",
           job'[j].at = "undone", NEW u \in work[j].tasks
    PROVE  task'[u].gone \/ \A f \in Fields(j) : task'[u][f] = job[j].seen[u][f]
  <1>1. /\ job \in [Job -> JobState] /\ job[j] \in JobState /\ work[j].tasks \subseteq Task
    BY IndexAssumption, JobType DEF Types
  <1>2. job[j].at = "pop" /\ job[j].left = {t} /\ work[j].kind = "track"
    BY <1>1 DEF Pop, Wrote, JobState
  <1>3. Fields(j) = {"tracking"}
    BY <1>2 DEF Fields
  <1>4. CASE u = t
    BY <1>2, <1>3, <1>4, PopRestores
  <1>5. CASE u # t
    <2>1. task'[u] = task[u]
      BY <1>1, <1>5, PopEffect
    <2>2. Tracks(j) /\ ~Pushed(j, u)
      BY <1>2, <1>5 DEF Tracks, Pushed
    <2> QED
      BY <1>3, <2>1, <2>2 DEF TracksItsOwn
  <1> QED
    BY <1>4, <1>5

\* A Melonade step that is undone leaves every task as it found it, for any
\* number of tasks and jobs at the same time, unless another one wrote the same
\* fields meanwhile (updateSccdTaskMetaInfo.worker.js, updateTracking.worker.js).
THEOREM UndoneStepsLeaveTasks == Spec => UndoneStepLeavesTask
  <1>1. ASSUME Inv, TracksItsOwn, [Next]_vars, NEW j \in Job \ met, job[j].at # "undone", job'[j].at = "undone",
               NEW t \in work[j].tasks
        PROVE  task'[t].gone \/ \A f \in Fields(j) : task'[t][f] = job[j].seen[t][f]
    <2>1. Types
      BY <1>1 DEF Inv
    <2>2. \A u \in Task : ~Requests(u)
      BY <1>1, <2>1, RequestsWrite
    <2>3. ~SyncActs
      BY <1>1, <2>1, SyncActsWrite
    <2>4. \A p \in Process : ~(Works(p) \/ Assign(p) \/ Disturbs(p))
      BY <1>1, WorkerChangesNoTask
    <2>5. JobActs(j)
      <3>1. PICK k \in Job : JobActs(k)
        BY <1>1, <2>2, <2>3, <2>4 DEF Next, vars
      <3> QED
        BY <1>1, <2>1, <3>1, JobActsAlone
    <2>6. job \in [Job -> JobState] /\ job[j] \in JobState
      BY <2>1, JobType DEF Types
    <2>7. CompensateSccd(j) \/ \E u \in Task : Pop(j, u)
      <3>1. ~FindTaskOfOrder(j)
        BY <1>1, <2>6 DEF FindTaskOfOrder, Goes, JobState
      <3>2. ~UpdateSccd(j)
        BY <1>1, <2>6 DEF UpdateSccd, Answered, Goes, JobState
      <3>3. ~BeginTracking(j)
        BY <1>1, <2>6 DEF BeginTracking
      <3>4. ~BeginPopping(j)
        BY <1>1, <2>6 DEF BeginPopping, JobState
      <3>5. ~JobFails(j)
        BY <1>1, <2>6 DEF JobFails, Goes, JobState
      <3>6. \A u \in Task : ~Push(j, u)
        BY <1>1, <2>6 DEF Push, NotFoundBy, Wrote, JobState
      <3> QED
        BY <2>5, <3>1, <3>2, <3>3, <3>4, <3>5, <3>6 DEF JobActs
    <2> QED
      BY <1>1, <2>1, <2>7, UndoneSccd, UndoneTracking
  <1>2. Inv /\ TracksItsOwn /\ [Next]_vars =>
            [\A j \in Job \ met :
                job[j].at # "undone" /\ job'[j].at = "undone" =>
                    \A t \in work[j].tasks :
                        task'[t].gone \/ \A f \in Fields(j) : task'[t][f] = job[j].seen[t][f]]_vars
    BY <1>1
  <1> QED
    BY <1>2, Initially, Step, TracksInit, TracksStep, PTL DEF Spec, UndoneStepLeavesTask
=============================================================================

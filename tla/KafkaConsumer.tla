--------------------------- MODULE KafkaConsumer ---------------------------
(***************************************************************************)
(* libraries/kafka/consumer.js: the processes of one consumer group take   *)
(* the messages of one partition, hand each to the callback of a worker,   *)
(* try it again when the callback throws, and commit it.  Messages are     *)
(* numbered from 1; committing m covers every message up to m.  The group  *)
(* may move the partition while its old owner still handles a batch, a     *)
(* commit may throw and be tried again later, and a process may stop.      *)
(***************************************************************************)
EXTENDS Integers

CONSTANTS
    Consumer,     \* the processes of the group
    Nobody,       \* no process
    Messages,     \* how many messages are published
    Retry,        \* config.retry
    Polling,      \* config.maximumPollingMessages
    Reset,        \* config.autoOffReset
    Unreadable,   \* messages whose value is null
    MaxStops      \* bound: how often processes stop or the group rebalances

ASSUME KafkaAssumption ==
    /\ Nobody \notin Consumer
    /\ Messages \in Nat /\ Retry \in Nat /\ Polling \in Nat \ {0} /\ MaxStops \in Nat
    /\ Reset \in {"earliest", "latest"}
    /\ Unreadable \subseteq 1..Messages

VARIABLES
    published,  \* messages in the partition
    committed,  \* broker: the group's committed offset, -1 when there is none
    owner,      \* broker: the process the partition is assigned to
    state,      \* of each process: off, connected, closing, or dead (poll threw)
    position,   \* of each process: the last message fetched
    at, to,     \* of each process: its batch, the messages at..to
    retryCount, \* of each process: how often its message was tried again
    handled,    \* of each process: is `at` done and its commit next?
    late,       \* of each process: commits to be tried again
    stops,      \* counts the disturbances
    done,       \* history: messages a callback settled, or given up
    skipped     \* history: messages autoOffReset jumped over

broker == <<published, committed, owner>>
batch == <<at, to, retryCount, handled>>
process == <<state, position, batch, late>>
vars == <<broker, process, stops, done, skipped>>

NoOffset == -1

isConnected(c) == state[c] = "connected"

Busy(c) == state[c] \in {"connected", "closing"} /\ at[c] <= to[c]

InHand(c) == Busy(c) /\ at[c] \notin Unreadable /\ ~handled[c]

ToCommit(c) == Busy(c) /\ isConnected(c) /\ handled[c]

Publish ==
    /\ published < Messages
    /\ published' = published + 1
    /\ UNCHANGED <<committed, owner, process, stops, done, skipped>>

(***************************************************************************)
(* The group.                                                              *)
(***************************************************************************)
\* connect: subscribe and start to poll.
Connect(c) ==
    /\ state[c] = "off"
    /\ state' = [state EXCEPT ![c] = "connected"]
    /\ UNCHANGED <<broker, position, batch, late, stops, done, skipped>>

\* The owner starts from the committed offset, or where autoOffReset says.
StartOffset ==
    IF committed # NoOffset THEN committed
    ELSE IF Reset = "earliest" THEN 0 ELSE published

Assigned(c) ==
    /\ owner' = c
    /\ position' = [position EXCEPT ![c] = StartOffset]
    /\ skipped' = IF committed = NoOffset THEN skipped \union 1..StartOffset ELSE skipped

Assign(c) ==
    /\ isConnected(c)
    /\ owner = Nobody
    /\ Assigned(c)
    /\ UNCHANGED <<published, committed, state, batch, late, stops, done>>

\* The old owner does not notice: it goes on with its batch.
Rebalance(c) ==
    /\ isConnected(c)
    /\ owner \notin {c, Nobody}
    /\ stops < MaxStops
    /\ stops' = stops + 1
    /\ Assigned(c)
    /\ UNCHANGED <<published, committed, state, at, to, retryCount, handled, late, done>>

(***************************************************************************)
(* poll, consume, handleMessage, consumeMessage.                           *)
(***************************************************************************)
Consume(c) ==
    /\ isConnected(c)
    /\ owner = c
    /\ at[c] > to[c]
    /\ \E n \in 1..Polling :
        /\ position[c] + n <= published
        /\ position' = [position EXCEPT ![c] = @ + n]
        /\ at' = [at EXCEPT ![c] = position[c] + 1]
        /\ to' = [to EXCEPT ![c] = position[c] + n]
    /\ UNCHANGED <<broker, state, retryCount, handled, late, stops, done, skipped>>

DropBatch(c) ==
    /\ at' = [at EXCEPT ![c] = 1] /\ to' = [to EXCEPT ![c] = 0]
    /\ retryCount' = [retryCount EXCEPT ![c] = 0]
    /\ handled' = [handled EXCEPT ![c] = FALSE]

\* deserialize throws outside the try of handleMessage: the promise of poll is
\* rejected and nobody polls any more, while isConnected stays true.
DeserializeThrows(c) ==
    /\ Busy(c)
    /\ at[c] \in Unreadable
    /\ state' = [state EXCEPT ![c] = "dead"]
    /\ DropBatch(c)
    /\ UNCHANGED <<broker, position, late, stops, done, skipped>>

Finish(c) ==
    /\ handled' = [handled EXCEPT ![c] = TRUE]
    /\ done' = done \union {at[c]}
    /\ UNCHANGED <<broker, state, position, at, to, retryCount, late, stops, skipped>>

\* The callback settles its message.
Settle(c) == InHand(c) /\ Finish(c)

\* The callback throws and is called again after retryDelay.
CallAgain(c) ==
    /\ InHand(c)
    /\ retryCount[c] < Retry
    /\ retryCount' = [retryCount EXCEPT ![c] = @ + 1]
    /\ UNCHANGED <<broker, state, position, at, to, handled, late, stops, done, skipped>>

\* KafkaRetryExhausted is caught; the message is committed all the same.
GiveUp(c) == InHand(c) /\ retryCount[c] = Retry /\ Finish(c)

(***************************************************************************)
(* commitMessageSync, which handleMessage does not wait for.               *)
(***************************************************************************)
NextMessage(c) ==
    /\ at' = [at EXCEPT ![c] = @ + 1]
    /\ retryCount' = [retryCount EXCEPT ![c] = 0]
    /\ handled' = [handled EXCEPT ![c] = FALSE]

\* Slip: the whole batch is committed with its first message.
CommitBatch(c) ==
    /\ ToCommit(c)
    /\ committed' = to[c]
    /\ NextMessage(c)
    /\ UNCHANGED <<published, owner, state, position, to, late, stops, done, skipped>>

Commit(c) ==
    /\ ToCommit(c)
    /\ committed' = at[c]
    /\ NextMessage(c)
    /\ UNCHANGED <<published, owner, state, position, to, late, stops, done, skipped>>

\* Slip: the error leaves the loop over the batch, and the next one is fetched.
LeaveLoop(c) ==
    /\ ToCommit(c)
    /\ DropBatch(c)
    /\ UNCHANGED <<broker, state, position, late, stops, done, skipped>>

\* The commit throws: try again in a second, and go on meanwhile.
CommitThrows(c) ==
    /\ ToCommit(c)
    /\ late' = [late EXCEPT ![c] = @ \union {at[c]}]
    /\ NextMessage(c)
    /\ UNCHANGED <<broker, state, position, to, stops, done, skipped>>

SkipCommit(c) ==
    /\ Busy(c)
    /\ ~isConnected(c)
    /\ handled[c]
    /\ NextMessage(c)
    /\ UNCHANGED <<broker, state, position, to, late, stops, done, skipped>>

CommitLate(c) ==
    \E m \in late[c] :
        /\ isConnected(c) \/ state[c] = "dead"
        /\ committed' = m
        /\ late' = [late EXCEPT ![c] = @ \ {m}]
        /\ UNCHANGED <<published, owner, state, position, batch, stops, done, skipped>>

(***************************************************************************)
(* Stopping.                                                               *)
(***************************************************************************)
Leave(c) == owner' = IF owner = c THEN Nobody ELSE owner

\* disconnect, on SIGTERM: the batch in hand is finished without commits, and
\* late commits see that the consumer is not connected.
Disconnect(c) ==
    /\ isConnected(c)
    /\ stops < MaxStops
    /\ stops' = stops + 1
    /\ state' = [state EXCEPT ![c] = "closing"]
    /\ late' = [late EXCEPT ![c] = {}]
    /\ Leave(c)
    /\ UNCHANGED <<published, committed, position, batch, done, skipped>>

Gone(c) ==
    /\ state' = [state EXCEPT ![c] = "off"]
    /\ DropBatch(c)
    /\ late' = [late EXCEPT ![c] = {}]
    /\ Leave(c)

\* The while loop of poll ends.
Closed(c) ==
    /\ state[c] = "closing"
    /\ at[c] > to[c]
    /\ Gone(c)
    /\ UNCHANGED <<published, committed, position, stops, done, skipped>>

\* The process dies; the broker notices when its session times out.
Die(c) ==
    /\ state[c] # "off"
    /\ stops < MaxStops
    /\ stops' = stops + 1
    /\ Gone(c)
    /\ UNCHANGED <<published, committed, position, done, skipped>>

Init ==
    /\ published = 0 /\ committed = NoOffset /\ owner = Nobody
    /\ state = [c \in Consumer |-> "off"]
    /\ position = [c \in Consumer |-> 0]
    /\ at = [c \in Consumer |-> 1] /\ to = [c \in Consumer |-> 0]
    /\ retryCount = [c \in Consumer |-> 0]
    /\ handled = [c \in Consumer |-> FALSE]
    /\ late = [c \in Consumer |-> {}]
    /\ stops = 0 /\ done = {} /\ skipped = {}

Next ==
    \/ Publish
    \/ \E c \in Consumer :
        \/ Connect(c) \/ Assign(c) \/ Rebalance(c)
        \/ Consume(c) \/ DeserializeThrows(c)
        \/ Settle(c) \/ CallAgain(c) \/ GiveUp(c)
        \/ Commit(c) \/ CommitThrows(c) \/ SkipCommit(c) \/ CommitLate(c)
        \/ Disconnect(c) \/ Closed(c) \/ Die(c)

\* poll runs as long as the process does, and a callback returns or throws.
Poll(c) ==
    \/ Consume(c) \/ DeserializeThrows(c)
    \/ Settle(c) \/ CallAgain(c) \/ GiveUp(c)
    \/ Commit(c) \/ CommitThrows(c) \/ SkipCommit(c)

Spec == Init /\ [][Next]_vars /\ \A c \in Consumer : WF_vars(Poll(c))

(***************************************************************************)
(* Properties.                                                             *)
(***************************************************************************)
TypeOK ==
    /\ published \in 0..Messages
    /\ committed \in NoOffset..Messages
    /\ owner \in Consumer \union {Nobody}
    /\ state \in [Consumer -> {"off", "connected", "closing", "dead"}]
    /\ position \in [Consumer -> 0..Messages]
    /\ at \in [Consumer -> 1..Messages + 1]
    /\ to \in [Consumer -> 0..Messages]
    /\ retryCount \in [Consumer -> 0..Retry]
    /\ handled \in [Consumer -> BOOLEAN]
    /\ late \in [Consumer -> SUBSET (1..Messages)]
    /\ stops \in 0..MaxStops
    /\ done \subseteq 1..Messages
    /\ skipped \subseteq 1..Messages

\* Whatever process commits, and however late, the committed offset covers no
\* message that is not done, but the ones jumped over at the start: a process
\* that starts from it misses nothing (handleMessage commits in its finally).
DoneBeforeCommitted == \A m \in 1..committed : m \in done \union skipped

\* The owner works off every message that is published: callbacks that throw
\* are given up after their retries, and commits that throw hold nothing up
\* (consumeMessage, commitMessageSync).  Only a poll that ended may stop it.
OwnerWorksOff ==
    \A c \in Consumer : \A m \in 1..Messages :
        owner = c /\ m <= published ~>
            m \in done \union skipped \/ owner # c \/ state[c] = "dead"

\* The type of the value of a message is `Buffer | null` (consumer.js:22), so
\* that a message without a value is handled like any other.
NullValuesAreHandled ==
    \A c \in Consumer : \A m \in 1..Messages :
        owner = c /\ m <= published ~> m \in done \union skipped \/ owner # c
=============================================================================

------------------------ MODULE KafkaConsumer_proofs ------------------------
(***************************************************************************)
(* No committed offset covers a message that is not done, for any number   *)
(* of processes, messages, retries and disturbances.                       *)
(***************************************************************************)
EXTENDS KafkaConsumer, TLAPS

Seen == done \union skipped

Polls(c) == state[c] \in {"connected", "closing"}

\* Whatever may be committed, now or later, is done.
CommitInv ==
    /\ \A m \in 1..committed : m \in Seen
    /\ \A c \in Consumer : \A n \in late[c] : \A m \in 1..n : m \in Seen

\* What precedes the message in hand is done.
BatchInv ==
    \A c \in Consumer :
        /\ state[c] = "off" => at[c] > to[c] /\ ~handled[c]
        /\ Polls(c) /\ at[c] <= to[c] => \A m \in 1..at[c] - 1 : m \in Seen
        /\ Polls(c) /\ handled[c] => at[c] <= to[c] /\ at[c] \in Seen

\* What the owner fetched is done, or in its batch.
PositionInv ==
    \A c \in Consumer :
        /\ owner = c => state[c] \in {"connected", "dead"}
        /\ owner = c /\ isConnected(c) =>
            \A m \in 1..position[c] : m \in Seen \/ (at[c] <= m /\ m <= to[c])

KafkaInv == TypeOK /\ CommitInv /\ BatchInv /\ PositionInv

\* Before anything is consumed.
LEMMA InitInv == Init => KafkaInv
BY KafkaAssumption
   DEF Init, KafkaInv, TypeOK, CommitInv, BatchInv, PositionInv, isConnected, Polls, NoOffset, Seen

\* One step per action, whichever process takes it.
LEMMA StepInv == KafkaInv /\ [Next]_vars => KafkaInv'
<1> SUFFICES ASSUME KafkaInv, [Next]_vars PROVE KafkaInv'
  OBVIOUS
<1> USE KafkaAssumption
    DEF KafkaInv, TypeOK, CommitInv, BatchInv, PositionInv, Seen, Polls, isConnected, Busy,
        InHand, ToCommit, Finish, DropBatch, NoOffset, vars, broker, process, batch
<1>1. CASE Publish
  BY <1>1 DEF Publish
<1>2. ASSUME NEW c \in Consumer, Connect(c) PROVE KafkaInv'
  BY <1>2 DEF Connect
<1>3. ASSUME NEW c \in Consumer, Assign(c) PROVE KafkaInv'
  BY <1>3 DEF Assign, Assigned, StartOffset
<1>4. ASSUME NEW c \in Consumer, Rebalance(c) PROVE KafkaInv'
  BY <1>4 DEF Rebalance, Assigned, StartOffset
<1>5. ASSUME NEW c \in Consumer, Consume(c) PROVE KafkaInv'
  BY <1>5 DEF Consume
<1>6. ASSUME NEW c \in Consumer, DeserializeThrows(c) PROVE KafkaInv'
  BY <1>6 DEF DeserializeThrows
<1>7. ASSUME NEW c \in Consumer, Settle(c) PROVE KafkaInv'
  <2>0. at[c] \in 1..Messages
    BY <1>7 DEF Settle
  <2>1. TypeOK'
    BY <1>7, <2>0 DEF Settle
  <2>2. CommitInv'
    BY <1>7 DEF Settle
  <2>3. BatchInv'
    BY <1>7 DEF Settle
  <2>4. PositionInv'
    BY <1>7 DEF Settle
  <2>5. QED
    BY <2>1, <2>2, <2>3, <2>4
<1>8. ASSUME NEW c \in Consumer, CallAgain(c) PROVE KafkaInv'
  BY <1>8 DEF CallAgain
<1>9. ASSUME NEW c \in Consumer, GiveUp(c) PROVE KafkaInv'
  <2>0. at[c] \in 1..Messages
    BY <1>9 DEF GiveUp
  <2>1. TypeOK'
    BY <1>9, <2>0 DEF GiveUp
  <2>2. CommitInv'
    BY <1>9 DEF GiveUp
  <2>3. BatchInv'
    BY <1>9 DEF GiveUp
  <2>4. PositionInv'
    BY <1>9 DEF GiveUp
  <2>5. QED
    BY <2>1, <2>2, <2>3, <2>4
<1>10. ASSUME NEW c \in Consumer, Commit(c) PROVE KafkaInv'
  <2>1. TypeOK'
    BY <1>10 DEF Commit, NextMessage
  <2>2. CommitInv'
    BY <1>10 DEF Commit, NextMessage
  <2>3. BatchInv'
    BY <1>10 DEF Commit, NextMessage
  <2>4. PositionInv'
    BY <1>10 DEF Commit, NextMessage
  <2>5. QED
    BY <2>1, <2>2, <2>3, <2>4
<1>11. ASSUME NEW c \in Consumer, CommitThrows(c) PROVE KafkaInv'
  <2>1. TypeOK'
    BY <1>11 DEF CommitThrows, NextMessage
  <2>2. CommitInv'
    BY <1>11 DEF CommitThrows, NextMessage
  <2>3. BatchInv'
    BY <1>11 DEF CommitThrows, NextMessage
  <2>4. PositionInv'
    BY <1>11 DEF CommitThrows, NextMessage
  <2>5. QED
    BY <2>1, <2>2, <2>3, <2>4
<1>12. ASSUME NEW c \in Consumer, SkipCommit(c) PROVE KafkaInv'
  BY <1>12 DEF SkipCommit, NextMessage
<1>13. ASSUME NEW c \in Consumer, CommitLate(c) PROVE KafkaInv'
  <2>1. TypeOK'
    BY <1>13 DEF CommitLate
  <2>2. CommitInv'
    BY <1>13 DEF CommitLate
  <2>3. BatchInv'
    BY <1>13 DEF CommitLate
  <2>4. PositionInv'
    BY <1>13 DEF CommitLate
  <2>5. QED
    BY <2>1, <2>2, <2>3, <2>4
<1>14. ASSUME NEW c \in Consumer, Disconnect(c) PROVE KafkaInv'
  BY <1>14 DEF Disconnect, Leave
<1>15. ASSUME NEW c \in Consumer, Closed(c) PROVE KafkaInv'
  BY <1>15 DEF Closed, Gone, Leave
<1>16. ASSUME NEW c \in Consumer, Die(c) PROVE KafkaInv'
  BY <1>16 DEF Die, Gone, Leave
<1>17. CASE UNCHANGED vars
  BY <1>17
<1>18. QED
  BY <1>1, <1>2, <1>3, <1>4, <1>5, <1>6, <1>7, <1>8, <1>9, <1>10, <1>11, <1>12,
     <1>13, <1>14, <1>15, <1>16, <1>17
     DEF Next

\* A process that starts from the committed offset misses no message that was
\* not given up or jumped over (handleMessage, commitMessageSync).
THEOREM NothingIsMissed == Spec => []DoneBeforeCommitted
<1>1. KafkaInv => DoneBeforeCommitted
  BY DEF KafkaInv, CommitInv, Seen, DoneBeforeCommitted
<1>2. QED
  BY <1>1, InitInv, StepInv, PTL DEF Spec

\* Every counter and every commit keeps to its range, for any bounds.
THEOREM KafkaTypeCorrect == Spec => []TypeOK
<1>1. KafkaInv => TypeOK
  BY DEF KafkaInv
<1>2. QED
  BY <1>1, InitInv, StepInv, PTL DEF Spec
=============================================================================

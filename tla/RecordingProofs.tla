--------------------------- MODULE RecordingProofs ---------------------------
(***************************************************************************)
(* Proofs about Recording, for every set of consumers, partitions and      *)
(* messages, every topic content and every bound on the failures: no       *)
(* message is lost; each event is recorded together or not at all, once,   *)
(* with at most one gap; the consumers implement ScoreOnce; and one        *)
(* consumer never counts an instant of an associate's time as idle twice.  *)
(***************************************************************************)
EXTENDS Recording, SequenceTheorems, TLAPS

\* What recordIdleGap builds is a well-formed idle_periods row.
LEMMA IdleGapType ==
    ASSUME NEW m \in Messages, NEW prior \in SUBSET Int
    PROVE  IdleGap(m, prior) \in SUBSET IdlePeriods
<1>1. ClaimedAt(m) \in Int
  BY MessageAssumption, TicksAssumption DEF ClaimedAt
<1>2. ASSUME NEW t \in Int
      PROVE  IdlePeriod(m, t) \in IdlePeriods
  <2>1. RawGapSeconds(t, ClaimedAt(m)) \in Int
    BY <1>1, TicksAssumption DEF RawGapSeconds
  <2>2. EffectiveCap(IdleGapCapSeconds) \in Int
    BY BoundAssumption DEF EffectiveCap, DefaultIdleGapCapSeconds
  <2>3. GapCapped(t, ClaimedAt(m), EffectiveCap(IdleGapCapSeconds)) \in BOOLEAN
    BY DEF GapCapped
  <2>4. GapSeconds(t, ClaimedAt(m), EffectiveCap(IdleGapCapSeconds)) \in Int
    BY <2>1, <2>2 DEF GapSeconds
  <2> QED
    BY <1>1, <2>3, <2>4 DEF IdlePeriod, IdlePeriods
<1> QED
  BY <1>2 DEF IdleGap

\* The message of a busy consumer is a message.
LEMMA MsgType ==
    ASSUME TypeOK, NEW c \in Consumers, off[c] \in Offsets(part[c])
    PROVE  Msg(c) \in Messages
<1>1. log \in [Partitions -> Seq(Messages)] /\ part[c] \in Partitions
  BY MessageAssumption DEF TypeOK, KafkaTypeOK, ConsumerTypeOK
<1> QED
  BY <1>1 DEF Msg, Offsets

-----------------------------------------------------------------------------
(***************************************************************************)
(* Type correctness.  TypeOK is inductive together with InHand: a message  *)
(* that is written to a table is one that was fetched.                     *)
(***************************************************************************)

\* Committing a transaction writes well-formed rows.
LEMMA InstallType ==
    ASSUME TypeOK, NEW c \in Consumers, Msg(c) \in Messages, InstallWrites(c)
    PROVE  TablesTypeOK'
<1> DEFINE found == IdleGap(Msg(c), previous[c])
           idle == {g.seconds : g \in found}
<1>1. found \in SUBSET IdlePeriods
  BY IdleGapType DEF TypeOK, ConsumerTypeOK
<1>2. idle \in SUBSET Int
  BY <1>1 DEF IdlePeriods
<1>3. \A t \in Topics : OutboxRow(Msg(c), t, idle) \in OutboxRows
  BY <1>2 DEF OutboxRow, OutboxRows
<1>4. outbox' \in Seq(OutboxRows)
  BY <1>3 DEF InstallWrites, Topics, TypeOK, TablesTypeOK
<1>5. gaps' \in Seq(IdlePeriods)
  <2>1. gaps' = gaps \/ \E g \in found : gaps' = Append(gaps, g)
    BY DEF InstallWrites
  <2> QED
    BY <1>1, <2>1 DEF TypeOK, TablesTypeOK
<1>6. /\ processed' \subseteq Messages
      /\ rows' \in [Messages -> StandardSeconds \cup {NoRow}]
  BY DEF InstallWrites, TypeOK, TablesTypeOK, ConsumerTypeOK
<1> QED
  BY <1>4, <1>5, <1>6 DEF TablesTypeOK

\* A step that only moves c from one busy control point to another.
LEMMA MoveType ==
    ASSUME TypeOK, InHand, NEW c \in Consumers, NEW to \in PcValues,
           Busy(c), pc' = [pc EXCEPT ![c] = to],
           UNCHANGED <<log, part, off>>
    PROVE  InHand' /\ pc' \in [Consumers -> PcValues]
BY DEF TypeOK, ConsumerTypeOK, InHand, Busy, Offsets

\* Giving an attempt up, to retry or for good, keeps the types.
LEMMA FailAttemptType ==
    ASSUME TypeOK, InHand, NEW c \in Consumers, Busy(c),
           FailAttempt(c) \/ StopRetrying(c), log' = log
    PROVE  ConsumerTypeOK' /\ InHand'
<1>1. pc' \in [Consumers -> PcValues] /\ InHand'
  BY MoveType DEF FailAttempt, StopRetrying, PcValues
<1> QED
  BY <1>1, BoundAssumption DEF FailAttempt, StopRetrying, EndTx, TypeOK, ConsumerTypeOK

\* Every step keeps the types, and the message in hand.
LEMMA TypeStep ==
    ASSUME TypeOK, InHand, [Next]_vars
    PROVE  TypeOK' /\ InHand'
<1> USE DEF kafka, database, consumer, Transition
<1>0. /\ log \in [Partitions -> Seq(Messages)]
      /\ \A c \in Consumers : Busy(c) => Msg(c) \in Messages
  BY MsgType, MessageAssumption DEF TypeOK, KafkaTypeOK, InHand
<1>1. ASSUME NEW c \in Consumers, NEW p \in Partitions, Fetch(c, p)
      PROVE  TypeOK' /\ InHand'
  <2>1. KafkaTypeOK' /\ TablesTypeOK' /\ faults' \in 0 .. MaxFaults
    BY <1>1 DEF Fetch, TypeOK, KafkaTypeOK, TablesTypeOK
  <2>2. ConsumerTypeOK'
    <3>1. PICK to \in PcValues : pc' = [pc EXCEPT ![c] = to]
      BY <1>1 DEF Fetch, PcValues
    <3>2. position[p] + 1 \in Nat
      BY DEF TypeOK, KafkaTypeOK
    <3> QED
      BY <1>1, <3>1, <3>2 DEF Fetch, TypeOK, ConsumerTypeOK
  <2>3. position[p] + 1 \in DOMAIN log[p]
    BY <1>0, <1>1 DEF Fetch, TypeOK, KafkaTypeOK
  <2>4. InHand'
    BY <1>1, <2>3 DEF Fetch, TypeOK, ConsumerTypeOK, InHand, Busy, Offsets
  <2> QED
    BY <2>1, <2>2, <2>4 DEF TypeOK
<1>2. ASSUME NEW c \in Consumers,
             SkipOtherType(c) \/ MarkProcessed(c) \/ SkipProcessed(c)
             \/ SavePerformance(c) \/ RecordIdleGap(c) \/ Publish(c) \/ Fenced(c)
      PROVE  TypeOK' /\ InHand'
  <2>1. /\ Busy(c)
        /\ \E to \in PcValues : pc' = [pc EXCEPT ![c] = to]
        /\ UNCHANGED <<kafka, database, part, off, attempts, standard, previous, faults>>
    BY <1>2 DEF SkipOtherType, MarkProcessed, SkipProcessed, SavePerformance,
                RecordIdleGap, Publish, Fenced, Busy, PcValues, TxSteps
  <2>2. InHand' /\ pc' \in [Consumers -> PcValues]
    BY <2>1, MoveType
  <2> QED
    BY <2>1, <2>2 DEF TypeOK, KafkaTypeOK, TablesTypeOK, ConsumerTypeOK
<1>3. ASSUME NEW c \in Consumers,
             RejectData(c) \/ RejectTask(c) \/ StatementFails(c) \/ StopHandling(c)
      PROVE  TypeOK' /\ InHand'
  <2>1. /\ Busy(c) /\ (FailAttempt(c) \/ StopRetrying(c)) /\ UNCHANGED <<kafka, database>>
        /\ faults' = faults \/ (faults < MaxFaults /\ faults' = faults + 1)
    BY <1>3 DEF RejectData, RejectTask, StatementFails, StopHandling, Fault, Busy, TxSteps
  <2>2. ConsumerTypeOK' /\ InHand'
    BY <2>1, FailAttemptType
  <2> QED
    BY <2>1, <2>2, BoundAssumption DEF TypeOK, KafkaTypeOK, TablesTypeOK
<1>4. ASSUME NEW c \in Consumers, ResolveStandard(c)
      PROVE  TypeOK' /\ InHand'
  <2>1. InHand' /\ pc' \in [Consumers -> PcValues]
    BY <1>4, MoveType DEF ResolveStandard, Busy, PcValues, TxSteps
  <2>2. PICK s \in StandardSeconds : standard' = [standard EXCEPT ![c] = s]
    BY <1>4 DEF ResolveStandard
  <2>3. standard' \in [Consumers -> StandardSeconds]
    BY <2>2 DEF TypeOK, ConsumerTypeOK
  <2>4. UNCHANGED <<kafka, database, part, off, attempts, previous, faults>>
    BY <1>4 DEF ResolveStandard
  <2> QED
    BY <2>1, <2>3, <2>4 DEF TypeOK, KafkaTypeOK, TablesTypeOK, ConsumerTypeOK
<1>5. ASSUME NEW c \in Consumers, ResolvePrevious(c)
      PROVE  TypeOK' /\ InHand'
  <2>1. InHand' /\ pc' \in [Consumers -> PcValues]
    BY <1>5, MoveType DEF ResolvePrevious, Busy, PcValues, TxSteps
  <2>2. \E t \in SUBSET Int : previous' = [previous EXCEPT ![c] = t]
    <3>1. CASE previous' = [previous EXCEPT ![c] = {}]
      BY <3>1
    <3>2. CASE \E m \in Messages : previous' = [previous EXCEPT ![c] = {CompletedAt[m]}]
      <4>1. PICK m \in Messages : previous' = [previous EXCEPT ![c] = {CompletedAt[m]}]
        BY <3>2
      <4>2. {CompletedAt[m]} \in SUBSET Int
        BY MessageAssumption
      <4> QED
        BY <4>1, <4>2
    <3> QED
      BY <1>5, <3>1, <3>2 DEF ResolvePrevious, RowsOf
  <2>3. previous' \in [Consumers -> SUBSET Int]
    BY <2>2 DEF TypeOK, ConsumerTypeOK
  <2> QED
    BY <1>5, <2>1, <2>3
    DEF ResolvePrevious, TypeOK, KafkaTypeOK, TablesTypeOK, ConsumerTypeOK
<1>6. ASSUME NEW c \in Consumers, Commit(c)
      PROVE  TypeOK' /\ InHand'
  <2>1. InHand' /\ pc' \in [Consumers -> PcValues]
    BY <1>6, MoveType DEF Commit, Busy, PcValues
  <2>2. TablesTypeOK'
    BY <1>0, <1>6, InstallType DEF Commit, Busy
  <2> QED
    BY <1>6, <2>1, <2>2, BoundAssumption
    DEF Commit, EndTx, TypeOK, KafkaTypeOK, ConsumerTypeOK
<1>7. ASSUME NEW c \in Consumers, CommitUnknown(c)
      PROVE  TypeOK' /\ InHand'
  <2>1. ConsumerTypeOK' /\ InHand'
    BY <1>7, FailAttemptType DEF CommitUnknown, Busy
  <2>2. TablesTypeOK'
    BY <1>0, <1>7, InstallType DEF CommitUnknown, Busy
  <2> QED
    BY <1>7, <2>1, <2>2, BoundAssumption DEF CommitUnknown, Fault, TypeOK, KafkaTypeOK
<1>8. ASSUME NEW c \in Consumers, DeadLetter(c) \/ DeadLetterFails(c)
      PROVE  TypeOK' /\ InHand'
  <2>1. InHand' /\ pc' \in [Consumers -> PcValues]
    BY <1>8, MoveType DEF DeadLetter, DeadLetterFails, Busy, PcValues
  <2>2. dlq' \subseteq Messages
    <3>1. Msg(c) \in Messages
      BY <1>0, <1>8 DEF DeadLetter, DeadLetterFails, Busy
    <3>2. dlq' = dlq \/ dlq' = dlq \cup {Msg(c)}
      BY <1>8 DEF DeadLetter, DeadLetterFails
    <3> QED
      BY <3>1, <3>2 DEF TypeOK, KafkaTypeOK
  <2>3. faults' \in 0 .. MaxFaults
    BY <1>8, BoundAssumption DEF DeadLetter, DeadLetterFails, Fault, TypeOK
  <2>4. UNCHANGED <<log, owner, position, committed, database, part, off, attempts,
                    standard, previous>>
    BY <1>8 DEF DeadLetter, DeadLetterFails
  <2> QED
    BY <2>1, <2>2, <2>3, <2>4
    DEF TypeOK, KafkaTypeOK, TablesTypeOK, ConsumerTypeOK
<1>9. ASSUME NEW c \in Consumers, Acknowledge(c) \/ AcknowledgeFails(c)
      PROVE  TypeOK' /\ InHand'
  <2>1. InHand' /\ pc' \in [Consumers -> PcValues]
    BY <1>9, MoveType DEF Acknowledge, AcknowledgeFails, Busy, PcValues
  <2>2. committed' \in [Partitions -> Nat]
    BY <1>9 DEF Acknowledge, AcknowledgeFails, TypeOK, KafkaTypeOK, ConsumerTypeOK
  <2>3. faults' \in 0 .. MaxFaults
    BY <1>9, BoundAssumption DEF Acknowledge, AcknowledgeFails, Fault, TypeOK
  <2>4. UNCHANGED <<log, owner, position, dlq, database, part, off, attempts,
                    standard, previous>>
    BY <1>9 DEF Acknowledge, AcknowledgeFails
  <2> QED
    BY <2>1, <2>2, <2>3, <2>4
    DEF TypeOK, KafkaTypeOK, TablesTypeOK, ConsumerTypeOK
<1>10. ASSUME NEW c \in Consumers, Crash(c) \/ Restart(c)
       PROVE  TypeOK' /\ InHand'
  <2>1. InHand' /\ ConsumerTypeOK'
    BY <1>10, BoundAssumption DEF Crash, Restart, EndTx, InHand, Busy, Offsets, PcValues,
              TypeOK, ConsumerTypeOK
  <2>2. faults' \in 0 .. MaxFaults
    BY <1>10, BoundAssumption DEF Crash, Restart, Fault, TypeOK
  <2>3. position' \in [Partitions -> Nat]
    BY <1>10 DEF Crash, Restart, TypeOK, KafkaTypeOK
  <2>4. UNCHANGED <<log, owner, committed, dlq, database>>
    BY <1>10 DEF Crash, Restart
  <2> QED
    BY <2>1, <2>2, <2>3, <2>4 DEF TypeOK, KafkaTypeOK, TablesTypeOK
<1>11. ASSUME NEW c \in Consumers, NEW p \in Partitions, Rebalance(c, p)
       PROVE  TypeOK' /\ InHand'
  <2>1. InHand' /\ ConsumerTypeOK' /\ TablesTypeOK'
    BY <1>11 DEF Rebalance, InHand, Busy, Offsets, TypeOK, ConsumerTypeOK, TablesTypeOK
  <2> QED
    BY <1>11, <2>1, BoundAssumption DEF Rebalance, Fault, TypeOK, KafkaTypeOK
<1>12. ASSUME UNCHANGED vars
       PROVE  TypeOK' /\ InHand'
  BY <1>12 DEF vars, TypeOK, KafkaTypeOK, TablesTypeOK, ConsumerTypeOK, InHand, Busy, Offsets
<1> QED
  BY <1>1, <1>2, <1>3, <1>4, <1>5, <1>6, <1>7, <1>8, <1>9, <1>10, <1>11, <1>12
  DEF Next, Progress, Failure, AwaitMessages

\* Every reachable state is well typed: no table, topic or consumer ever holds
\* anything but messages that were fetched from the topic.
THEOREM TypeCorrect == Spec => [](TypeOK /\ InHand)
<1>1. Init => TypeOK /\ InHand
  BY MessageAssumption, BoundAssumption
  DEF Init, TypeOK, KafkaTypeOK, TablesTypeOK, ConsumerTypeOK, InHand, Busy, PcValues, NoRow
<1>2. TypeOK /\ InHand /\ [Next]_vars => TypeOK' /\ InHand'
  BY TypeStep
<1> QED
  BY <1>1, <1>2, PTL DEF Spec

-----------------------------------------------------------------------------
(***************************************************************************)
(* No message is lost.  NoMessageLost alone is not inductive: a commit of  *)
(* offset n claims every message up to n, so the invariant has to know     *)
(* what the consumer fetched before the one in hand (InHandSettled) and    *)
(* what a live owner has fetched at all (FetchedSettled).                  *)
(***************************************************************************)

\* A settled message stays settled: neither table nor dead-letter topic shrinks.
LEMMA SettledGrows ==
    ASSUME processed \subseteq processed', dlq \subseteq dlq', NEW m, Settled(m)
    PROVE  Settled(m)'
BY DEF Settled

\* Every step that keeps c's message in hand and moves it on, to "ack" only
\* when the message is settled.
LEMMA SettledMove ==
    ASSUME TypeOK, InHand, SettledInv, NEW c \in Consumers, NEW to \in PcValues,
           Busy(c), to \notin {"idle", "down"}, pc' = [pc EXCEPT ![c] = to],
           UNCHANGED <<log, owner, position, committed, part, off>>,
           processed \subseteq processed', dlq \subseteq dlq',
           to = "ack" => Settled(Msg(c))'
    PROVE  SettledInv'
<1>1. \A m : Settled(m) => Settled(m)'
  BY SettledGrows
<1>2. \A d \in Consumers : Busy(d)' = Busy(d) /\ Msg(d)' = Msg(d)
  BY DEF Busy, Msg, TypeOK, ConsumerTypeOK
<1>3. InHandSettled'
  BY <1>1, <1>2 DEF SettledInv, InHandSettled, TypeOK, ConsumerTypeOK
<1>4. FetchedSettled'
  <2> SUFFICES ASSUME NEW p \in Partitions, pc'[owner[p]] # "down", NEW i \in 1 .. position[p]
               PROVE  /\ i \in DOMAIN log[p]
                      /\ \/ Settled(log[p][i])'
                         \/ Busy(owner[p])' /\ part[owner[p]] = p /\ off[owner[p]] = i
    BY DEF FetchedSettled, Offsets
  <2>1. owner[p] \in Consumers
    BY DEF TypeOK, KafkaTypeOK
  <2>2. pc[owner[p]] # "down"
    BY <2>1 DEF Busy, TypeOK, ConsumerTypeOK
  <2>3. /\ i \in DOMAIN log[p]
        /\ \/ Settled(log[p][i])
           \/ Busy(owner[p]) /\ part[owner[p]] = p /\ off[owner[p]] = i
    BY <2>2 DEF SettledInv, FetchedSettled, Offsets
  <2> QED
    BY <1>1, <1>2, <2>1, <2>3
<1>5. NoMessageLost'
  BY <1>1 DEF SettledInv, NoMessageLost, Offsets
<1> QED
  BY <1>3, <1>4, <1>5 DEF SettledInv

\* Every step that takes c's message, if it has one, out of its hands: to "down",
\* or to "idle" when the message is settled; the committed offsets stay covered.
LEMMA SettledDrop ==
    ASSUME TypeOK, InHand, SettledInv, NEW c \in Consumers, NEW to \in {"idle", "down"},
           pc' = [pc EXCEPT ![c] = to],
           to = "idle" => Busy(c) /\ Settled(Msg(c)),
           UNCHANGED <<log, owner, position, part, off>>,
           processed \subseteq processed', dlq \subseteq dlq',
           NoMessageLost'
    PROVE  SettledInv'
<1>1. \A m : Settled(m) => Settled(m)'
  BY SettledGrows
<1>2. \A d \in Consumers : d # c => Busy(d)' = Busy(d) /\ Msg(d)' = Msg(d) /\ pc'[d] = pc[d]
  BY DEF Busy, Msg, TypeOK, ConsumerTypeOK
<1>3. pc'[c] = to /\ ~Busy(c)'
  BY DEF Busy, TypeOK, ConsumerTypeOK
<1>4. InHandSettled'
  BY <1>1, <1>2, <1>3 DEF SettledInv, InHandSettled
<1>5. FetchedSettled'
  <2> SUFFICES ASSUME NEW p \in Partitions, pc'[owner[p]] # "down", NEW i \in 1 .. position[p]
               PROVE  /\ i \in DOMAIN log[p]
                      /\ \/ Settled(log[p][i])'
                         \/ Busy(owner[p])' /\ part[owner[p]] = p /\ off[owner[p]] = i
    BY DEF FetchedSettled, Offsets
  <2>1. owner[p] \in Consumers
    BY DEF TypeOK, KafkaTypeOK
  <2>2. CASE owner[p] # c
    BY <1>1, <1>2, <2>1, <2>2 DEF SettledInv, FetchedSettled, Offsets
  <2>3. CASE owner[p] = c
    <3>1. to = "idle" /\ Busy(c) /\ Settled(Msg(c)) /\ pc[c] # "down"
      BY <1>3, <2>3 DEF Busy
    <3>2. /\ i \in DOMAIN log[p]
          /\ Settled(log[p][i]) \/ (part[c] = p /\ off[c] = i)
      BY <2>3, <3>1 DEF SettledInv, FetchedSettled, Offsets
    <3> QED
      BY <1>1, <3>1, <3>2 DEF Msg
  <2> QED
    BY <2>2, <2>3
<1> QED
  BY <1>4, <1>5 DEF SettledInv

\* No step commits past an unsettled message, loses one or forgets one.
LEMMA SettledStep ==
    ASSUME TypeOK, InHand, SettledInv, [Next]_vars
    PROVE  SettledInv'
<1> USE DEF kafka, database, consumer, Transition
<1>1. ASSUME NEW c \in Consumers, NEW p \in Partitions, Fetch(c, p)
      PROVE  SettledInv'
  <2>1. /\ UNCHANGED <<log, owner, committed, dlq, processed>>
        /\ \A m : Settled(m)' = Settled(m)
    BY <1>1 DEF Fetch, Settled
  <2>2. \A d \in Consumers \ {c} : /\ pc'[d] = pc[d] /\ part'[d] = part[d] /\ off'[d] = off[d]
                                   /\ Busy(d)' = Busy(d) /\ Msg(d)' = Msg(d)
    BY <1>1 DEF Fetch, Busy, Msg, TypeOK, ConsumerTypeOK
  <2>3. /\ pc[c] = "idle" /\ owner[p] = c
        /\ pc'[c] \in {"handle", "dlq"} /\ Busy(c)'
        /\ part'[c] = p /\ off'[c] = position[p] + 1
    BY <1>1 DEF Fetch, Busy, TypeOK, ConsumerTypeOK
  <2>4. \A q \in Partitions : owner[q] = c =>
            \A i \in 1 .. position[q] : i \in DOMAIN log[q] /\ Settled(log[q][i])
    BY <2>3 DEF SettledInv, FetchedSettled, Busy, Offsets
  <2>5. position[p] \in Nat /\ position[p] + 1 \in DOMAIN log[p]
    BY <1>1, MessageAssumption DEF Fetch, TypeOK, KafkaTypeOK
  <2>6. InHandSettled'
    <3>1. \A i \in 1 .. off'[c] - 1 : Settled(log[p][i])
      BY <2>3, <2>4, <2>5
    <3> QED
      BY <2>1, <2>2, <2>3, <3>1 DEF SettledInv, InHandSettled
  <2>7. FetchedSettled'
    <3> SUFFICES ASSUME NEW q \in Partitions, pc'[owner[q]] # "down", NEW i \in 1 .. position'[q]
                 PROVE  /\ i \in DOMAIN log[q]
                        /\ \/ Settled(log[q][i])
                           \/ Busy(owner[q])' /\ part'[owner[q]] = q /\ off'[owner[q]] = i
      BY <2>1 DEF FetchedSettled, Offsets
    <3>1. CASE q = p
      <4>1. position'[p] = position[p] + 1
        BY <1>1 DEF Fetch, TypeOK, KafkaTypeOK
      <4> QED
        BY <2>1, <2>3, <2>4, <2>5, <3>1, <4>1 DEF Busy
    <3>2. CASE q # p
      <4>1. position'[q] = position[q] /\ owner[q] \in Consumers
        BY <1>1, <3>2 DEF Fetch, TypeOK, KafkaTypeOK
      <4>2. CASE owner[q] = c
        BY <2>4, <4>1, <4>2
      <4>3. CASE owner[q] # c
        BY <2>1, <2>2, <4>1, <4>3 DEF SettledInv, FetchedSettled, Offsets, Busy
      <4> QED
        BY <4>2, <4>3
    <3> QED
      BY <3>1, <3>2
  <2>8. NoMessageLost'
    BY <2>1 DEF SettledInv, NoMessageLost, Offsets
  <2> QED
    BY <2>6, <2>7, <2>8 DEF SettledInv
<1>2. ASSUME NEW c \in Consumers,
             \/ MarkProcessed(c) \/ ResolveStandard(c) \/ ResolvePrevious(c)
             \/ SavePerformance(c) \/ RecordIdleGap(c) \/ Publish(c)
      PROVE  SettledInv'
  <2>1. /\ Busy(c) /\ UNCHANGED <<kafka, database, part, off>>
        /\ \E to \in PcValues \ {"idle", "down", "ack"} : pc' = [pc EXCEPT ![c] = to]
    BY <1>2 DEF MarkProcessed, ResolveStandard, ResolvePrevious, SavePerformance,
                RecordIdleGap, Publish, Busy, PcValues, TxSteps
  <2> QED
    BY <2>1, SettledMove
<1>3. ASSUME NEW c \in Consumers,
             \/ RejectData(c) \/ RejectTask(c) \/ StatementFails(c) \/ StopHandling(c)
             \/ CommitUnknown(c)
      PROVE  SettledInv'
  <2>1. /\ Busy(c) /\ UNCHANGED <<kafka, part, off>> /\ processed \subseteq processed'
        /\ \E to \in PcValues \ {"idle", "down", "ack"} : pc' = [pc EXCEPT ![c] = to]
    BY <1>3 DEF RejectData, RejectTask, StatementFails, StopHandling, CommitUnknown,
                InstallWrites, FailAttempt, StopRetrying, Busy, PcValues, TxSteps
  <2> QED
    BY <2>1, SettledMove
<1>4. ASSUME NEW c \in Consumers,
             \/ SkipOtherType(c) \/ SkipProcessed(c) \/ Commit(c) \/ DeadLetter(c)
      PROVE  SettledInv'
  <2>1. /\ Busy(c) /\ UNCHANGED <<log, owner, position, committed, part, off>>
        /\ processed \subseteq processed' /\ dlq \subseteq dlq'
        /\ pc' = [pc EXCEPT ![c] = "ack"]
    BY <1>4 DEF SkipOtherType, SkipProcessed, Commit, DeadLetter, InstallWrites, Busy
  <2>2. Settled(Msg(c))'
    <3>1. Msg(c)' = Msg(c)
      BY <2>1 DEF Msg
    <3>2. Msg(c) \in processed' \/ Msg(c) \in dlq' \/ Kind[Msg(c)] = "other"
      BY <1>4 DEF SkipOtherType, SkipProcessed, Commit, DeadLetter, InstallWrites
    <3> QED
      BY <3>1, <3>2 DEF Settled
  <2> QED
    BY <2>1, <2>2, SettledMove DEF PcValues
<1>5. ASSUME NEW c \in Consumers, Acknowledge(c) \/ AcknowledgeFails(c)
      PROVE  SettledInv'
  <2>1. /\ pc[c] = "ack" /\ Busy(c) /\ UNCHANGED <<log, owner, position, dlq, processed, part, off>>
        /\ \E to \in {"idle", "down"} : pc' = [pc EXCEPT ![c] = to]
        /\ committed' = committed \/ committed' = [committed EXCEPT ![part[c]] = off[c]]
    BY <1>5 DEF Acknowledge, AcknowledgeFails, Busy
  <2>2. \A i \in 1 .. off[c] : i \in DOMAIN log[part[c]] /\ Settled(log[part[c]][i])
    <3>1. off[c] \in DOMAIN log[part[c]] /\ off[c] \in Nat /\ part[c] \in Partitions
      BY <2>1 DEF InHand, Offsets, TypeOK, ConsumerTypeOK
    <3>2. log[part[c]] \in Seq(Messages)
      BY <3>1, MessageAssumption DEF TypeOK, KafkaTypeOK
    <3>3. Settled(log[part[c]][off[c]])
      BY <2>1 DEF SettledInv, InHandSettled, Msg
    <3>4. \A i \in 1 .. off[c] - 1 : Settled(log[part[c]][i])
      BY <2>1 DEF SettledInv, InHandSettled
    <3> QED
      BY <3>1, <3>2, <3>3, <3>4
  <2>3. NoMessageLost'
    <3>1. \A m : Settled(m)' = Settled(m)
      BY <2>1 DEF Settled
    <3> QED
      BY <2>1, <2>2, <3>1 DEF SettledInv, NoMessageLost, Offsets, TypeOK, KafkaTypeOK
  <2>4. Settled(Msg(c))
    BY <2>1 DEF SettledInv, InHandSettled
  <2> QED
    BY <2>1, <2>3, <2>4, SettledDrop
<1>6. ASSUME NEW c \in Consumers, Fenced(c) \/ DeadLetterFails(c) \/ Crash(c)
      PROVE  SettledInv'
  <2>1. /\ UNCHANGED <<log, owner, position, committed, processed, part, off>>
        /\ dlq \subseteq dlq' /\ pc' = [pc EXCEPT ![c] = "down"]
    BY <1>6 DEF Fenced, DeadLetterFails, Crash
  <2>2. NoMessageLost'
    BY <2>1, SettledGrows DEF SettledInv, NoMessageLost, Offsets
  <2> QED
    BY <2>1, <2>2, SettledDrop
<1>7. ASSUME NEW c \in Consumers, Restart(c)
      PROVE  SettledInv'
  <2>1. /\ pc[c] = "down" /\ pc' = [pc EXCEPT ![c] = "idle"]
        /\ UNCHANGED <<log, owner, committed, dlq, processed, part, off>>
        /\ \A p \in Partitions : position'[p] = IF owner[p] = c THEN committed[p] ELSE position[p]
    BY <1>7 DEF Restart
  <2>2. \A m : Settled(m)' = Settled(m)
    BY <2>1 DEF Settled
  <2>3. /\ pc'[c] = "idle" /\ ~Busy(c)'
        /\ \A d \in Consumers \ {c} : pc'[d] = pc[d] /\ Busy(d)' = Busy(d) /\ Msg(d)' = Msg(d)
    BY <2>1 DEF Busy, Msg, TypeOK, ConsumerTypeOK
  <2>4. InHandSettled' /\ NoMessageLost'
    BY <2>1, <2>2, <2>3 DEF SettledInv, InHandSettled, NoMessageLost, Offsets
  <2>5. FetchedSettled'
    <3> SUFFICES ASSUME NEW p \in Partitions, pc'[owner[p]] # "down", NEW i \in 1 .. position'[p]
                 PROVE  /\ i \in DOMAIN log[p]
                        /\ \/ Settled(log[p][i])
                           \/ Busy(owner[p])' /\ part[owner[p]] = p /\ off[owner[p]] = i
      BY <2>1, <2>2 DEF FetchedSettled, Offsets
    <3>1. CASE owner[p] = c
      BY <2>1, <3>1 DEF SettledInv, NoMessageLost, Offsets
    <3>2. CASE owner[p] # c
      BY <2>1, <2>3, <3>2 DEF SettledInv, FetchedSettled, Offsets, TypeOK, KafkaTypeOK
    <3> QED
      BY <3>1, <3>2
  <2> QED
    BY <2>4, <2>5 DEF SettledInv
<1>8. ASSUME NEW c \in Consumers, NEW p \in Partitions, Rebalance(c, p)
      PROVE  SettledInv'
  <2>1. /\ UNCHANGED <<log, committed, dlq, processed, pc, part, off>>
        /\ \A q \in Partitions \ {p} : owner'[q] = owner[q] /\ position'[q] = position[q]
        /\ owner'[p] = c /\ position'[p] = committed[p]
    BY <1>8 DEF Rebalance, TypeOK, KafkaTypeOK
  <2>2. /\ \A m : Settled(m)' = Settled(m)
        /\ \A d : Busy(d)' = Busy(d) /\ Msg(d)' = Msg(d)
    BY <2>1 DEF Settled, Busy, Msg
  <2>3. InHandSettled' /\ NoMessageLost'
    BY <2>1, <2>2 DEF SettledInv, InHandSettled, NoMessageLost, Offsets
  <2>4. FetchedSettled'
    BY <2>1, <2>2 DEF SettledInv, FetchedSettled, NoMessageLost, Offsets
  <2> QED
    BY <2>3, <2>4 DEF SettledInv
<1>9. ASSUME UNCHANGED vars
      PROVE  SettledInv'
  BY <1>9 DEF vars, SettledInv, InHandSettled, FetchedSettled, NoMessageLost, Settled, Busy,
              Msg, Offsets
<1> QED
  BY <1>1, <1>2, <1>3, <1>4, <1>5, <1>6, <1>7, <1>8, <1>9
  DEF Next, Progress, Failure, AwaitMessages

\* No committed offset ever covers a message that was neither recorded nor
\* dead-lettered, for every number of replicas, partitions, crashes, rebalances
\* and failed attempts (handleMessage's "no message loss").
THEOREM NothingLost == Spec => []NoMessageLost
<1>1. Init => SettledInv
  BY MessageAssumption
  DEF Init, SettledInv, InHandSettled, FetchedSettled, NoMessageLost, Busy
<1>2. TypeOK /\ InHand /\ SettledInv /\ [Next]_vars => SettledInv'
  BY SettledStep
<1>3. SettledInv => NoMessageLost
  BY DEF SettledInv
<1> QED
  BY <1>1, <1>2, <1>3, TypeCorrect, PTL DEF Spec

-----------------------------------------------------------------------------
(***************************************************************************)
(* The tables: what a step does to them.                                   *)
(***************************************************************************)

\* A step of c that leaves the tables alone.  It may be in a transaction
\* afterwards only if it was before, or if it just staged the marker of an
\* event that nobody has recorded or staged.
Quiet(c) ==
    /\ log' = log /\ UNCHANGED database
    /\ \A d \in Consumers \ {c} : /\ pc'[d] = pc[d] /\ part'[d] = part[d]
                                  /\ off'[d] = off[d] /\ previous'[d] = previous[d]
    /\ pc'[c] \in TxSteps =>
          /\ part'[c] = part[c] /\ off'[c] = off[c] /\ Recordable(Msg(c))
          /\ pc[c] \in TxSteps \/ (/\ Msg(c) \notin processed
                                   /\ \A d \in Consumers : ~HoldsMarker(d, Msg(c)))
    /\ \A t, u \in previous'[c] : t = u

\* A step of c that commits its transaction.
Installs(c) ==
    /\ UNCHANGED <<log, part, off>>
    /\ pc[c] = "published" /\ InstallWrites(c)
    /\ pc'[c] \notin TxSteps
    /\ \A d \in Consumers \ {c} : pc'[d] = pc[d] /\ previous'[d] = previous[d]
    /\ previous'[c] = {}

\* A step that touches neither the tables nor any consumer.
Elsewhere == UNCHANGED <<log, database, pc, part, off, previous>>

\* Every step is one of the three.
LEMMA StepShape ==
    ASSUME TypeOK, InHand, MarkerExclusive, PreviousUnique, [Next]_vars
    PROVE  Elsewhere \/ \E c \in Consumers : Quiet(c) \/ Installs(c)
<1> USE DEF kafka, database, consumer, Transition
<1>1. ASSUME NEW c \in Consumers, NEW p \in Partitions, Fetch(c, p)
      PROVE  Quiet(c)
  BY <1>1 DEF Fetch, Quiet, TxSteps, TypeOK, ConsumerTypeOK, PreviousUnique
<1>2. ASSUME NEW c \in Consumers,
             \/ SkipOtherType(c) \/ SkipProcessed(c) \/ DeadLetter(c) \/ DeadLetterFails(c)
             \/ Acknowledge(c) \/ AcknowledgeFails(c) \/ Fenced(c) \/ Restart(c)
      PROVE  Quiet(c)
  <2>1. /\ UNCHANGED <<log, database, part, off, previous>>
        /\ \E to \in {"ack", "idle", "down"} : pc' = [pc EXCEPT ![c] = to]
    BY <1>2 DEF SkipOtherType, SkipProcessed, DeadLetter, DeadLetterFails, Acknowledge,
                AcknowledgeFails, Fenced, Restart
  <2> QED
    BY <2>1 DEF Quiet, TxSteps, TypeOK, ConsumerTypeOK, PreviousUnique
<1>3. ASSUME NEW c \in Consumers, MarkProcessed(c)
      PROVE  Quiet(c)
  BY <1>3 DEF MarkProcessed, Quiet, TypeOK, ConsumerTypeOK, PreviousUnique
<1>4. ASSUME NEW c \in Consumers,
             \/ ResolveStandard(c) \/ SavePerformance(c) \/ RecordIdleGap(c) \/ Publish(c)
      PROVE  Quiet(c)
  <2>1. /\ UNCHANGED <<log, database, part, off, previous>> /\ pc[c] \in TxSteps
        /\ \E to \in TxSteps : pc' = [pc EXCEPT ![c] = to]
    BY <1>4 DEF ResolveStandard, SavePerformance, RecordIdleGap, Publish, TxSteps
  <2> QED
    BY <2>1 DEF Quiet, TypeOK, ConsumerTypeOK, PreviousUnique, MarkerExclusive
<1>5. ASSUME NEW c \in Consumers, ResolvePrevious(c)
      PROVE  Quiet(c)
  <2>1. /\ UNCHANGED <<log, database, part, off>> /\ pc[c] \in TxSteps
        /\ pc' = [pc EXCEPT ![c] = "resolved"]
    BY <1>5 DEF ResolvePrevious, TxSteps
  <2>2. /\ \A d \in Consumers \ {c} : previous'[d] = previous[d]
        /\ \A t, u \in previous'[c] : t = u
    <3>1. CASE previous' = [previous EXCEPT ![c] = {}]
      BY <3>1 DEF TypeOK, ConsumerTypeOK
    <3>2. CASE \E m \in Messages : previous' = [previous EXCEPT ![c] = {CompletedAt[m]}]
      BY <3>2 DEF TypeOK, ConsumerTypeOK
    <3> QED
      BY <1>5, <3>1, <3>2 DEF ResolvePrevious, RowsOf
  <2> QED
    BY <2>1, <2>2 DEF Quiet, TypeOK, ConsumerTypeOK, MarkerExclusive
<1>6. ASSUME NEW c \in Consumers,
             \/ RejectData(c) \/ RejectTask(c) \/ StatementFails(c) \/ StopHandling(c)
             \/ Crash(c)
      PROVE  Quiet(c)
  <2>1. /\ UNCHANGED <<log, database, part, off>> /\ previous' = [previous EXCEPT ![c] = {}]
        /\ \E to \in {"handle", "dlq", "down"} : pc' = [pc EXCEPT ![c] = to]
    BY <1>6 DEF RejectData, RejectTask, StatementFails, StopHandling, Crash, FailAttempt,
                StopRetrying, EndTx
  <2> QED
    BY <2>1 DEF Quiet, TxSteps, TypeOK, ConsumerTypeOK
<1>7. ASSUME NEW c \in Consumers, Commit(c) \/ CommitUnknown(c)
      PROVE  Installs(c)
  <2>1. /\ UNCHANGED <<log, part, off>> /\ previous' = [previous EXCEPT ![c] = {}]
        /\ pc[c] = "published" /\ InstallWrites(c)
        /\ \E to \in {"handle", "dlq", "ack"} : pc' = [pc EXCEPT ![c] = to]
    BY <1>7 DEF Commit, CommitUnknown, FailAttempt, StopRetrying, EndTx
  <2> QED
    BY <2>1 DEF Installs, TxSteps, TypeOK, ConsumerTypeOK
<1>8. ASSUME NEW c \in Consumers, NEW p \in Partitions, Rebalance(c, p)
      PROVE  Elsewhere
  BY <1>8 DEF Rebalance, Elsewhere
<1>9. ASSUME UNCHANGED vars
      PROVE  Elsewhere
  BY <1>9 DEF vars, Elsewhere
<1> QED
  BY <1>1, <1>2, <1>3, <1>4, <1>5, <1>6, <1>7, <1>8, <1>9
  DEF Next, Progress, Failure, AwaitMessages

-----------------------------------------------------------------------------
(***************************************************************************)
(* What one commit does to the tables, for an event that is new to them.   *)
(***************************************************************************)

\* The outbox grows by the two rows of the event.
LEMMA OutboxGrows ==
    ASSUME TypeOK, NEW c \in Consumers, Msg(c) \in Messages, InstallWrites(c)
    PROVE  LET idle == {g.seconds : g \in IdleGap(Msg(c), previous[c])}
               n == Len(outbox)
           IN  /\ outbox \in Seq(OutboxRows) /\ n \in Nat
               /\ DOMAIN outbox = 1 .. n /\ DOMAIN outbox' = 1 .. n + 2
               /\ \A i \in 1 .. n : outbox'[i] = outbox[i]
               /\ outbox'[n + 1] = OutboxRow(Msg(c), "analytics", idle)
               /\ outbox'[n + 2] = OutboxRow(Msg(c), "integration", idle)
               /\ Len(outbox') = n + 2
<1> DEFINE idle == {g.seconds : g \in IdleGap(Msg(c), previous[c])}
           r1 == OutboxRow(Msg(c), "analytics", idle)
           r2 == OutboxRow(Msg(c), "integration", idle)
<1>1. idle \in SUBSET Int
  BY IdleGapType DEF TypeOK, ConsumerTypeOK, IdlePeriods
<1>2. r1 \in OutboxRows /\ r2 \in OutboxRows
  BY <1>1 DEF OutboxRow, OutboxRows, Topics
<1>3. outbox' = Append(Append(outbox, r1), r2) /\ outbox \in Seq(OutboxRows)
  BY DEF InstallWrites, TypeOK, TablesTypeOK
<1> HIDE DEF r1, r2
<1>4. /\ Len(outbox) \in Nat
      /\ DOMAIN outbox = 1 .. Len(outbox) /\ DOMAIN outbox' = 1 .. Len(outbox) + 2
      /\ \A i \in 1 .. Len(outbox) : outbox'[i] = outbox[i]
      /\ outbox'[Len(outbox) + 1] = r1
      /\ outbox'[Len(outbox) + 2] = r2
      /\ Len(outbox') = Len(outbox) + 2
  BY <1>2, <1>3
<1> QED
  BY <1>3, <1>4 DEF r1, r2

\* idle_periods grows by the event's gap, if there is one.
LEMMA GapsGrow ==
    ASSUME TypeOK, PreviousUnique, NEW c \in Consumers, Msg(c) \in Messages, InstallWrites(c)
    PROVE  LET found == IdleGap(Msg(c), previous[c])
               n == Len(gaps)
           IN  /\ gaps \in Seq(IdlePeriods) /\ n \in Nat
               /\ DOMAIN gaps = 1 .. n
               /\ \A i \in 1 .. n : gaps'[i] = gaps[i]
               /\ \/ found = {} /\ gaps' = gaps
                  \/ \E t \in previous[c] :
                        /\ AssociateId[Msg(c)] # NoAssociate
                        /\ GapIsPositive(t, ClaimedAt(Msg(c)))
                        /\ found = {IdlePeriod(Msg(c), t)}
                        /\ DOMAIN gaps' = 1 .. n + 1
                        /\ gaps'[n + 1] = IdlePeriod(Msg(c), t)
<1> DEFINE found == IdleGap(Msg(c), previous[c])
<1>1. found \in SUBSET IdlePeriods
  BY IdleGapType DEF TypeOK, ConsumerTypeOK
<1>2. gaps \in Seq(IdlePeriods)
  BY DEF TypeOK, TablesTypeOK
<1>3. CASE found = {} /\ gaps' = gaps
  BY <1>2, <1>3
<1>4. CASE \E g \in found : gaps' = Append(gaps, g)
  <2>1. PICK g \in found : gaps' = Append(gaps, g)
    BY <1>4
  <2>2. PICK t \in previous[c] : /\ AssociateId[Msg(c)] # NoAssociate
                                 /\ GapIsPositive(t, ClaimedAt(Msg(c)))
                                 /\ g = IdlePeriod(Msg(c), t)
    BY DEF IdleGap
  <2>3. found = {IdlePeriod(Msg(c), t)}
    BY <2>2 DEF IdleGap, PreviousUnique
  <2>4. /\ DOMAIN gaps' = 1 .. Len(gaps) + 1
        /\ gaps'[Len(gaps) + 1] = g
        /\ \A i \in 1 .. Len(gaps) : gaps'[i] = gaps[i]
    BY <1>1, <1>2, <2>1
  <2> QED
    BY <1>2, <2>2, <2>3, <2>4
<1> QED
  BY <1>3, <1>4 DEF InstallWrites

-----------------------------------------------------------------------------
(***************************************************************************)
(* Each event is recorded together, and once.                              *)
(***************************************************************************)

\* The event of an open transaction is not in any table yet.
LEMMA FreshEvent ==
    ASSUME TypeOK, InHand, OnceInv, NEW c \in Consumers, pc[c] \in TxSteps
    PROVE  /\ Msg(c) \in Messages /\ Msg(c) \notin processed /\ rows[Msg(c)] = NoRow
           /\ \A i \in DOMAIN outbox : outbox[i].event # Msg(c)
           /\ \A i \in DOMAIN gaps : gaps[i].event # Msg(c)
<1>1. Msg(c) \in Messages
  BY MsgType DEF InHand, Busy, TxSteps
<1>2. Msg(c) \notin processed
  BY DEF OnceInv, MarkerExclusive
<1>3. \A i \in DOMAIN outbox : outbox[i].topic \in Topics
  <2>1. \A i \in DOMAIN outbox : outbox[i] \in OutboxRows
    BY DEF TypeOK, TablesTypeOK
  <2> QED
    BY <2>1 DEF OutboxRows
<1>4. rows[Msg(c)] = NoRow
  BY <1>1, <1>2 DEF OnceInv, RecordedTogether
<1>5. ASSUME NEW i \in DOMAIN outbox
      PROVE  outbox[i].event # Msg(c)
  BY <1>1, <1>2, <1>3 DEF OnceInv, RecordedTogether
<1>6. ASSUME NEW i \in DOMAIN gaps
      PROVE  gaps[i].event # Msg(c)
  BY <1>2 DEF OnceInv, GapsRecorded
<1> QED
  BY <1>1, <1>2, <1>4, <1>5, <1>6

\* The marker's lock keeps a second transaction of the same event out.
LEMMA MarkerStep ==
    ASSUME TypeOK, InHand, OnceInv, [Next]_vars
    PROVE  MarkerExclusive' /\ PreviousUnique'
<1>1. CASE Elsewhere
  BY <1>1 DEF Elsewhere, database, OnceInv, MarkerExclusive, PreviousUnique, HoldsMarker, Msg,
              Recordable
<1>2. ASSUME NEW c \in Consumers, Quiet(c)
      PROVE  MarkerExclusive' /\ PreviousUnique'
  <2>1. \A d \in Consumers \ {c} : Msg(d)' = Msg(d)
    BY <1>2 DEF Quiet, Msg
  <2>2. pc'[c] \in TxSteps => Msg(c)' = Msg(c)
    BY <1>2 DEF Quiet, Msg
  <2>3. PreviousUnique'
    BY <1>2 DEF Quiet, OnceInv, PreviousUnique
  <2>4. processed' = processed
    BY <1>2 DEF Quiet, database
  <2>5. CASE pc'[c] \notin TxSteps
    <3> SUFFICES ASSUME NEW d \in Consumers, pc'[d] \in TxSteps
                 PROVE  /\ Recordable(Msg(d)')
                        /\ Msg(d)' \notin processed
                        /\ \A e \in Consumers : pc'[e] \in TxSteps /\ Msg(e)' = Msg(d)' => e = d
      BY <2>3, <2>4 DEF MarkerExclusive, HoldsMarker, Recordable
    <3>1. d # c /\ pc[d] \in TxSteps /\ Msg(d)' = Msg(d)
      BY <1>2, <2>1, <2>5 DEF Quiet
    <3>2. \A e \in Consumers : pc'[e] \in TxSteps => pc[e] \in TxSteps /\ Msg(e)' = Msg(e)
      BY <1>2, <2>1, <2>5 DEF Quiet
    <3> QED
      BY <3>1, <3>2 DEF OnceInv, MarkerExclusive, HoldsMarker
  <2>6. CASE pc'[c] \in TxSteps
    <3>1. Recordable(Msg(c)) /\ Msg(c) \notin processed
      BY <1>2, <2>6 DEF Quiet, OnceInv, MarkerExclusive
    <3>2. \A d \in Consumers \ {c} : pc[d] \in TxSteps => Msg(d) # Msg(c)
      BY <1>2, <2>6 DEF Quiet, OnceInv, MarkerExclusive, HoldsMarker
    <3>3. \A d \in Consumers : pc'[d] \in TxSteps => Msg(d)' = Msg(d)
      BY <2>1, <2>2
    <3>4. \A d \in Consumers \ {c} : pc'[d] = pc[d]
      BY <1>2 DEF Quiet
    <3> SUFFICES ASSUME NEW d \in Consumers, pc'[d] \in TxSteps
                 PROVE  /\ Recordable(Msg(d)')
                        /\ Msg(d)' \notin processed
                        /\ \A e \in Consumers : pc'[e] \in TxSteps /\ Msg(e)' = Msg(d)' => e = d
      BY <2>3, <2>4 DEF MarkerExclusive, HoldsMarker, Recordable
    <3> QED
      BY <3>1, <3>2, <3>3, <3>4 DEF OnceInv, MarkerExclusive, HoldsMarker
  <2> QED
    BY <2>3, <2>5, <2>6
<1>3. ASSUME NEW c \in Consumers, Installs(c)
      PROVE  MarkerExclusive' /\ PreviousUnique'
  <2>1. \A d \in Consumers : Msg(d)' = Msg(d)
    BY <1>3 DEF Installs, Msg
  <2>2. processed' = processed \cup {Msg(c)}
    BY <1>3 DEF Installs, InstallWrites
  <2>3. \A d \in Consumers \ {c} : pc[d] \in TxSteps => Msg(d) # Msg(c)
    BY <1>3 DEF Installs, OnceInv, MarkerExclusive, HoldsMarker, TxSteps
  <2>4. MarkerExclusive'
    BY <1>3, <2>1, <2>2, <2>3 DEF Installs, OnceInv, MarkerExclusive, HoldsMarker, Recordable
  <2>5. PreviousUnique'
    BY <1>3 DEF Installs, OnceInv, PreviousUnique
  <2> QED
    BY <2>4, <2>5
<1> QED
  BY <1>1, <1>2, <1>3, StepShape DEF OnceInv

\* A commit of a fresh event keeps the tables consistent.
LEMMA TablesStep ==
    ASSUME TypeOK, InHand, OnceInv, NEW c \in Consumers, Installs(c)
    PROVE  GapsRecorded' /\ OutboxPaired' /\ RecordedTogether' /\ AnnouncedOnce'
<1> DEFINE m == Msg(c)
           found == IdleGap(m, previous[c])
           idle == {g.seconds : g \in found}
           n == Len(outbox)
           k == Len(gaps)
<1>1. /\ m \in Messages /\ m \notin processed /\ rows[m] = NoRow
      /\ \A i \in DOMAIN outbox : outbox[i].event # m
      /\ \A i \in DOMAIN gaps : gaps[i].event # m
  BY FreshEvent DEF Installs, TxSteps
<1>2. /\ processed' = processed \cup {m}
      /\ rows' = [rows EXCEPT ![m] = standard[c]]
      /\ standard[c] # NoRow
  BY <1>1, BoundAssumption
  DEF Installs, InstallWrites, TypeOK, TablesTypeOK, ConsumerTypeOK, NoRow
<1>3. /\ n \in Nat /\ DOMAIN outbox = 1 .. n /\ DOMAIN outbox' = 1 .. n + 2
      /\ \A i \in 1 .. n : outbox'[i] = outbox[i]
      /\ outbox'[n + 1] = [event |-> m, topic |-> "analytics", idle |-> idle]
      /\ outbox'[n + 2] = [event |-> m, topic |-> "integration", idle |-> idle]
      /\ Len(outbox') = n + 2
  BY <1>1, OutboxGrows DEF Installs, OutboxRow
<1>4. /\ k \in Nat /\ DOMAIN gaps = 1 .. k /\ \A i \in 1 .. k : gaps'[i] = gaps[i]
      /\ \/ found = {} /\ gaps' = gaps
         \/ \E g \in IdlePeriods : /\ found = {g} /\ g.event = m
                                   /\ DOMAIN gaps' = 1 .. k + 1 /\ gaps'[k + 1] = g
  <2>1. found \in SUBSET IdlePeriods
    BY <1>1, IdleGapType DEF TypeOK, ConsumerTypeOK
  <2>2. \A t : IdlePeriod(m, t).event = m
    BY DEF IdlePeriod
  <2> QED
    BY <1>1, <2>1, <2>2, GapsGrow DEF Installs, OnceInv
<1> HIDE DEF m, found, idle, n, k
<1>5. OutboxPaired'
  BY <1>3 DEF OnceInv, OutboxPaired, n
<1>6. GapsRecorded'
  BY <1>2, <1>4 DEF OnceInv, GapsRecorded
<1>7. RecordedTogether'
  <2> SUFFICES ASSUME NEW x \in Messages
               PROVE  /\ x \in processed' <=> rows'[x] # NoRow
                      /\ \A t \in Topics :
                            x \in processed' <=> \E i \in DOMAIN outbox' :
                                /\ outbox'[i].event = x /\ outbox'[i].topic = t
    BY DEF RecordedTogether
  <2>1. CASE x = m
    <3>1. rows'[x] # NoRow /\ x \in processed'
      BY <1>1, <1>2, <2>1 DEF TypeOK, TablesTypeOK
    <3>2. \A t \in Topics : \E i \in DOMAIN outbox' : /\ outbox'[i].event = x
                                                      /\ outbox'[i].topic = t
      BY <1>3, <2>1 DEF Topics
    <3> QED
      BY <3>1, <3>2
  <2>2. CASE x # m
    <3>1. rows'[x] = rows[x] /\ (x \in processed' <=> x \in processed)
      BY <1>1, <1>2, <2>2 DEF TypeOK, TablesTypeOK
    <3>2. \A t \in Topics : (\E i \in DOMAIN outbox' : /\ outbox'[i].event = x
                                                       /\ outbox'[i].topic = t)
                          <=> (\E i \in DOMAIN outbox : /\ outbox[i].event = x
                                                       /\ outbox[i].topic = t)
      BY <1>3, <2>2
    <3> QED
      BY <3>1, <3>2 DEF OnceInv, RecordedTogether
  <2> QED
    BY <2>1, <2>2
<1>8. ASSUME NEW i \in DOMAIN outbox', NEW j \in DOMAIN outbox',
             outbox'[i].event = outbox'[j].event, outbox'[i].topic = outbox'[j].topic
      PROVE  i = j
  BY <1>1, <1>3, <1>8 DEF OnceInv, AnnouncedOnce
<1>9. ASSUME NEW i \in DOMAIN gaps', NEW j \in DOMAIN gaps', gaps'[i].event = gaps'[j].event
      PROVE  i = j
  BY <1>1, <1>4, <1>9 DEF OnceInv, AnnouncedOnce
<1>10. ASSUME NEW i \in DOMAIN outbox'
       PROVE  outbox'[i].idle = {gaps'[j].seconds :
                  j \in {l \in DOMAIN gaps' : gaps'[l].event = outbox'[i].event}}
  <2>1. CASE i \in 1 .. n
    <3>1. outbox'[i] = outbox[i] /\ outbox[i].event # m
      BY <1>1, <1>3, <2>1
    <3>2. /\ {l \in DOMAIN gaps' : gaps'[l].event = outbox[i].event}
              = {l \in DOMAIN gaps : gaps[l].event = outbox[i].event}
          /\ \A l \in DOMAIN gaps : gaps'[l] = gaps[l]
      BY <1>4, <3>1
    <3>3. outbox[i].idle = {gaps[j].seconds :
              j \in {l \in DOMAIN gaps : gaps[l].event = outbox[i].event}}
      BY <1>3, <2>1 DEF OnceInv, AnnouncedOnce
    <3> QED
      BY <3>1, <3>2, <3>3
  <2>2. CASE i \in {n + 1, n + 2}
    <3>1. outbox'[i].event = m /\ outbox'[i].idle = idle
      BY <1>3, <2>2
    <3>2. CASE found = {} /\ gaps' = gaps
      BY <1>1, <3>1, <3>2 DEF idle
    <3>3. CASE \E g \in IdlePeriods : /\ found = {g} /\ g.event = m
                                      /\ DOMAIN gaps' = 1 .. k + 1 /\ gaps'[k + 1] = g
      <4>1. PICK g \in IdlePeriods : /\ found = {g} /\ g.event = m
                                     /\ DOMAIN gaps' = 1 .. k + 1 /\ gaps'[k + 1] = g
        BY <3>3
      <4>2. {l \in DOMAIN gaps' : gaps'[l].event = m} = {k + 1}
        BY <1>1, <1>4, <4>1
      <4>3. idle = {g.seconds}
        BY <4>1 DEF idle
      <4> QED
        BY <3>1, <4>1, <4>2, <4>3
    <3> QED
      BY <1>4, <3>2, <3>3
  <2> QED
    BY <1>3, <2>1, <2>2
<1>11. AnnouncedOnce'
  BY <1>8, <1>9, <1>10 DEF AnnouncedOnce
<1> QED
  BY <1>5, <1>6, <1>7, <1>11

\* Together they are inductive.
LEMMA OnceStep ==
    ASSUME TypeOK, InHand, OnceInv, [Next]_vars
    PROVE  OnceInv'
<1>1. MarkerExclusive' /\ PreviousUnique'
  BY MarkerStep
<1>2. CASE UNCHANGED database
  BY <1>1, <1>2 DEF database, OnceInv, GapsRecorded, OutboxPaired, RecordedTogether, AnnouncedOnce
<1>3. ASSUME NEW c \in Consumers, Installs(c)
      PROVE  OnceInv'
  BY <1>1, <1>3, TablesStep DEF OnceInv
<1>4. Elsewhere \/ (\E c \in Consumers : Quiet(c)) => UNCHANGED database
  BY DEF Elsewhere, Quiet, database
<1> QED
  BY <1>2, <1>3, <1>4, StepShape DEF OnceInv

\* The tables are empty initially.
LEMMA OnceInit == Init => OnceInv
BY DEF Init, OnceInv, MarkerExclusive, PreviousUnique, GapsRecorded, OutboxPaired,
       RecordedTogether, AnnouncedOnce, TxSteps

\* Hence it holds in every reachable state.
LEMMA OnceAlways == Spec => []OnceInv
<1>1. TypeOK /\ InHand /\ OnceInv /\ [Next]_vars => OnceInv'
  BY OnceStep
<1> QED
  BY <1>1, OnceInit, TypeCorrect, PTL DEF Spec

\* The marker, the performance row and the outbox rows of an event exist
\* together or not at all, wherever a consumer or its transaction fails.
THEOREM Atomic == Spec => []RecordedTogether
<1>1. OnceInv => RecordedTogether
  BY DEF OnceInv
<1> QED
  BY <1>1, OnceAlways, PTL

\* No redelivery, duplicate or concurrent handling announces an event twice on
\* a topic or leaves it two idle gaps, and the announced idle time is the
\* recorded one.
THEOREM NeverTwice == Spec => []AnnouncedOnce
<1>1. OnceInv => AnnouncedOnce
  BY DEF OnceInv
<1> QED
  BY <1>1, OnceAlways, PTL

-----------------------------------------------------------------------------
(***************************************************************************)
(* The consumers implement ScoreOnce: a commit is a Score step, and every  *)
(* other step, fetch, retry, crash and rebalance included, is invisible.   *)
(***************************************************************************)

\* A commit scores its event, which no commit did before.
LEMMA CommitScores ==
    ASSUME TypeOK, InHand, OnceInv, NEW c \in Consumers, Installs(c)
    PROVE  Abstract!Next
<1> DEFINE m == Msg(c)
           n == Len(outbox)
           h == n \div 2
<1>1. m \in Messages /\ rows[m] = NoRow
  BY FreshEvent DEF Installs, TxSteps
<1>2. rows' = [rows EXCEPT ![m] = standard[c]] /\ standard[c] \in StandardSeconds
  BY <1>1 DEF Installs, InstallWrites, TypeOK, TablesTypeOK, ConsumerTypeOK
<1>3. /\ n \in Nat /\ \A i \in 1 .. n : outbox'[i] = outbox[i] /\ outbox[i] \in OutboxRows
      /\ outbox'[n + 2].event = m /\ Len(outbox') = n + 2
  <2>1. outbox'[n + 2] =
            OutboxRow(m, "integration", {g.seconds : g \in IdleGap(m, previous[c])})
    BY <1>1, OutboxGrows DEF Installs
  <2>2. outbox'[n + 2].event = m
    BY <2>1 DEF OutboxRow
  <2>3. /\ n \in Nat /\ outbox \in Seq(OutboxRows) /\ Len(outbox') = n + 2
        /\ \A i \in 1 .. n : outbox'[i] = outbox[i]
    BY <1>1, OutboxGrows DEF Installs
  <2> QED
    BY <2>2, <2>3
<1>4. n = 2 * h /\ h \in Nat /\ Len(outbox') \div 2 = h + 1
  BY <1>3 DEF OnceInv, OutboxPaired
<1> HIDE DEF m, h
<1>5. \A k \in 1 .. h : outbox'[2 * k] = outbox[2 * k] /\ outbox[2 * k].event \in Messages
  BY <1>3, <1>4 DEF OutboxRows
<1>6. Announced \in [1 .. h -> Messages]
  BY <1>5 DEF Announced, h
<1>7. /\ Announced' \in [1 .. h + 1 -> Messages]
      /\ Announced'[h + 1] = m /\ \A k \in 1 .. h : Announced'[k] = Announced[k]
  <2>1. Announced' = [k \in 1 .. h + 1 |-> outbox'[2 * k].event]
    BY <1>4 DEF Announced
  <2>2. outbox'[2 * (h + 1)].event = m
    BY <1>3, <1>4
  <2>3. \A k \in 1 .. h : Announced[k] = outbox[2 * k].event
    BY DEF Announced, h
  <2>4. \A k \in 1 .. h + 1 : k = h + 1 \/ k \in 1 .. h
    BY <1>4
  <2>5. \A k \in 1 .. h + 1 : outbox'[2 * k].event \in Messages
    BY <1>1, <1>5, <2>2, <2>4
  <2> QED
    BY <1>4, <1>5, <2>1, <2>2, <2>3, <2>5
<1>8. Announced' = Append(Announced, m)
  <2>1. /\ Announced \in Seq(Messages) /\ Announced' \in Seq(Messages)
        /\ Len(Announced) = h /\ Len(Announced') = h + 1
    <3>1. \A l \in Nat : [1 .. l -> Messages] \subseteq Seq(Messages)
      BY SeqDef
    <3>2. Announced \in Seq(Messages) /\ Announced' \in Seq(Messages)
      BY <1>4, <1>6, <1>7, <3>1
    <3> QED
      BY <1>4, <1>6, <1>7, <3>2, LenProperties
  <2>2. /\ Append(Announced, m) \in Seq(Messages) /\ Len(Append(Announced, m)) = h + 1
        /\ Append(Announced, m)[h + 1] = m
        /\ \A k \in 1 .. h : Append(Announced, m)[k] = Announced[k]
    BY <1>1, <2>1, AppendProperties
  <2>3. \A k \in 1 .. h + 1 : Announced'[k] = Append(Announced, m)[k]
    BY <1>4, <1>7, <2>2
  <2> QED
    BY <2>1, <2>2, <2>3, SeqEqual
<1> QED
  BY <1>1, <1>2, <1>8 DEF Abstract!Next, Abstract!Score

\* Whatever is redelivered and wherever a replica fails, the performance rows
\* and the announcements evolve as if each task were scored once, atomically,
\* and never again (ADR 0004's frozen standard, RecordTaskPerformance's
\* idempotency gate).
THEOREM Refinement == Spec => ImplementsScoreOnce
<1>1. Init => Abstract!Init
  BY DEF Init, Abstract!Init, Announced
<1>2. TypeOK /\ InHand /\ OnceInv /\ [Next]_vars => [Abstract!Next]_(Abstract!vars)
  <2> SUFFICES ASSUME TypeOK, InHand, OnceInv, [Next]_vars
               PROVE  [Abstract!Next]_(Abstract!vars)
    OBVIOUS
  <2>1. CASE UNCHANGED database
    BY <2>1 DEF database, Announced, Abstract!vars
  <2>2. ASSUME NEW c \in Consumers, Installs(c)
        PROVE  Abstract!Next
    BY <2>2, CommitScores
  <2>3. Elsewhere \/ (\E c \in Consumers : Quiet(c)) => UNCHANGED database
    BY DEF Elsewhere, Quiet, database
  <2> QED
    BY <2>1, <2>2, <2>3, StepShape DEF OnceInv
<1> QED
  BY <1>1, <1>2, TypeCorrect, OnceAlways, PTL DEF Spec, ImplementsScoreOnce, Abstract!Spec

-----------------------------------------------------------------------------
(***************************************************************************)
(* With one consumer, idle gaps are disjoint.                              *)
(***************************************************************************)

\* A task is claimed no later than it is completed.
LEMMA ClaimBeforeCompletion ==
    ASSUME NEW m \in Messages
    PROVE  ClaimedAt(m) \in Int /\ ClaimedAt(m) <= CompletedAt[m]
<1>1. CompletedAt[m] \in Int /\ ActualSeconds[m] \in Nat /\ TicksPerSecond \in Nat
  BY MessageAssumption, TicksAssumption
<1>2. ActualSeconds[m] * TicksPerSecond \in Nat
  BY <1>1
<1> QED
  BY <1>1, <1>2 DEF ClaimedAt

\* The only consumer's reading of the latest completion is not overtaken.
LEMMA PreviousStep ==
    ASSUME \A c, d \in Consumers : c = d,
           TypeOK, InHand, PreviousIsLatest, [Next]_vars
    PROVE  PreviousIsLatest'
<1> USE DEF kafka, database, consumer, Transition
<1> DEFINE Resolved == {"resolved", "saved", "gapped", "published"}
<1>1. ASSUME NEW c \in Consumers, ResolvePrevious(c)
      PROVE  PreviousIsLatest'
  <2>1. UNCHANGED <<log, rows, part, off>> /\ pc' = [pc EXCEPT ![c] = "resolved"]
    BY <1>1 DEF ResolvePrevious
  <2>2. Msg(c)' = Msg(c) /\ RowsOf(AssociateId[Msg(c)])' = RowsOf(AssociateId[Msg(c)])
    BY <2>1 DEF Msg, RowsOf
  <2>3. AssociateId[Msg(c)] # NoAssociate =>
            \A m \in RowsOf(AssociateId[Msg(c)]) :
                previous'[c] # {} /\ \A t \in previous'[c] : CompletedAt[m] <= t
    BY <1>1 DEF ResolvePrevious, TypeOK, ConsumerTypeOK
  <2> QED
    BY <2>2, <2>3 DEF PreviousIsLatest
<1>2. ASSUME NEW c \in Consumers, SavePerformance(c) \/ RecordIdleGap(c) \/ Publish(c)
      PROVE  PreviousIsLatest'
  <2>1. UNCHANGED <<log, rows, part, off, previous>> /\ pc[c] \in Resolved
    BY <1>2 DEF SavePerformance, RecordIdleGap, Publish
  <2>2. Msg(c)' = Msg(c) /\ RowsOf(AssociateId[Msg(c)])' = RowsOf(AssociateId[Msg(c)])
    BY <2>1 DEF Msg, RowsOf
  <2> QED
    BY <2>1, <2>2 DEF PreviousIsLatest
<1>3. ASSUME NEW c \in Consumers, pc'[c] \notin Resolved
      PROVE  PreviousIsLatest'
  BY <1>3 DEF PreviousIsLatest
<1>4. ASSUME NEW c \in Consumers,
             \/ (\E p \in Partitions : Fetch(c, p)) \/ SkipOtherType(c) \/ RejectData(c)
             \/ MarkProcessed(c) \/ SkipProcessed(c) \/ ResolveStandard(c) \/ RejectTask(c)
             \/ Commit(c) \/ DeadLetter(c) \/ Acknowledge(c) \/ Fenced(c) \/ Restart(c)
             \/ StatementFails(c) \/ StopHandling(c) \/ CommitUnknown(c)
             \/ DeadLetterFails(c) \/ AcknowledgeFails(c) \/ Crash(c)
      PROVE  PreviousIsLatest'
  <2>1. \E to \in PcValues \ Resolved : pc' = [pc EXCEPT ![c] = to]
    BY <1>4 DEF Fetch, SkipOtherType, RejectData, MarkProcessed, SkipProcessed, ResolveStandard,
                RejectTask, Commit, DeadLetter, Acknowledge, Fenced, Restart, StatementFails,
                StopHandling, CommitUnknown, DeadLetterFails, AcknowledgeFails, Crash,
                FailAttempt, StopRetrying, PcValues, TxSteps
  <2> QED
    BY <1>3, <2>1 DEF TypeOK, ConsumerTypeOK
<1>5. ASSUME UNCHANGED <<log, rows, pc, part, off, previous>>
      PROVE  PreviousIsLatest'
  BY <1>5 DEF PreviousIsLatest, RowsOf, Msg
<1>6. (\E c \in Consumers, p \in Partitions : Rebalance(c, p)) \/ UNCHANGED vars =>
          UNCHANGED <<log, rows, pc, part, off, previous>>
  BY DEF Rebalance, vars
<1> QED
  BY <1>1, <1>2, <1>4, <1>5, <1>6 DEF Next, Progress, Failure, AwaitMessages

\* A commit adds a gap that starts where all others of the associate have ended.
LEMMA GapStep ==
    ASSUME TypeOK, InHand, OnceInv, GapBeforeCompletion, PreviousIsLatest, GapsDisjoint,
           NEW c \in Consumers, Installs(c)
    PROVE  GapBeforeCompletion' /\ GapsDisjoint'
<1> DEFINE m == Msg(c)
           k == Len(gaps)
<1>1. m \in Messages /\ rows[m] = NoRow
  BY FreshEvent DEF Installs, TxSteps
<1>2. /\ \A x \in Messages : rows[x] # NoRow => rows'[x] # NoRow
      /\ rows'[m] # NoRow
  BY <1>1, BoundAssumption
  DEF Installs, InstallWrites, TypeOK, TablesTypeOK, ConsumerTypeOK, NoRow
<1>3. /\ k \in Nat /\ DOMAIN gaps = 1 .. k
      /\ \A i \in 1 .. k : gaps'[i] = gaps[i] /\ gaps[i] \in IdlePeriods
      /\ \/ gaps' = gaps
         \/ \E t \in previous[c] : /\ AssociateId[m] # NoAssociate
                                   /\ GapIsPositive(t, ClaimedAt(m))
                                   /\ DOMAIN gaps' = 1 .. k + 1
                                   /\ gaps'[k + 1] = IdlePeriod(m, t)
  BY <1>1, GapsGrow DEF Installs, OnceInv
<1>4. CASE gaps' = gaps
  <2>1. \A i \in DOMAIN gaps : gaps[i].event \in Messages
    BY <1>3 DEF IdlePeriods
  <2>2. GapBeforeCompletion'
    BY <1>2, <1>4, <2>1 DEF GapBeforeCompletion
  <2>3. GapsDisjoint'
    BY <1>4 DEF GapsDisjoint
  <2> QED
    BY <2>2, <2>3
<1>5. ASSUME NEW t \in previous[c],
             AssociateId[m] # NoAssociate, GapIsPositive(t, ClaimedAt(m)),
             DOMAIN gaps' = 1 .. k + 1, gaps'[k + 1] = IdlePeriod(m, t)
      PROVE  GapBeforeCompletion' /\ GapsDisjoint'
  <2> DEFINE g == gaps'[k + 1]
  <2>1. /\ g.event = m /\ g.associate = AssociateId[m] /\ g.startedAt = t
        /\ g.endedAt = ClaimedAt(m) /\ t \in Int
    BY <1>5 DEF IdlePeriod, TypeOK, ConsumerTypeOK
  <2>2. t < ClaimedAt(m) /\ ClaimedAt(m) <= CompletedAt[m] /\ ClaimedAt(m) \in Int
    BY <1>1, <1>5, <2>1, ClaimBeforeCompletion DEF GapIsPositive
  <2> HIDE DEF m, k
  <2>3. \A i \in 1 .. k : /\ gaps[i].event \in Messages /\ gaps[i].endedAt \in Int
                          /\ rows[gaps[i].event] # NoRow
                          /\ AssociateId[gaps[i].event] = gaps[i].associate
                          /\ gaps[i].associate # NoAssociate
                          /\ gaps[i].startedAt < gaps[i].endedAt
                          /\ gaps[i].endedAt <= CompletedAt[gaps[i].event]
    BY <1>3 DEF GapBeforeCompletion, IdlePeriods
  <2>4. GapBeforeCompletion'
    <3> SUFFICES ASSUME NEW i \in 1 .. k + 1
                 PROVE  /\ rows'[gaps'[i].event] # NoRow
                        /\ AssociateId[gaps'[i].event] = gaps'[i].associate
                        /\ gaps'[i].associate # NoAssociate
                        /\ gaps'[i].startedAt < gaps'[i].endedAt
                        /\ gaps'[i].endedAt <= CompletedAt[gaps'[i].event]
      BY <1>5 DEF GapBeforeCompletion
    <3>1. CASE i \in 1 .. k
      BY <1>2, <1>3, <2>3, <3>1
    <3>2. CASE i = k + 1
      BY <1>2, <1>5, <2>1, <2>2, <3>2
    <3> QED
      BY <1>3, <3>1, <3>2
  <2>5. ASSUME NEW i \in 1 .. k, gaps[i].associate = AssociateId[m]
        PROVE  gaps[i].endedAt <= t
    <3>1. gaps[i].event \in RowsOf(AssociateId[m])
      BY <2>3, <2>5 DEF RowsOf
    <3>2. CompletedAt[gaps[i].event] <= t
      BY <1>5, <3>1 DEF PreviousIsLatest, Installs, m
    <3>3. CompletedAt[gaps[i].event] \in Int
      BY <2>3, MessageAssumption
    <3> QED
      BY <2>1, <2>3, <3>2, <3>3
  <2>6. GapsDisjoint'
    <3> SUFFICES ASSUME NEW i \in 1 .. k + 1, NEW j \in 1 .. k + 1, i # j,
                        gaps'[i].associate = gaps'[j].associate
                 PROVE  \/ gaps'[i].endedAt <= gaps'[j].startedAt
                        \/ gaps'[j].endedAt <= gaps'[i].startedAt
      BY <1>5 DEF GapsDisjoint
    <3>1. CASE i \in 1 .. k /\ j \in 1 .. k
      BY <1>3, <3>1 DEF GapsDisjoint
    <3>2. CASE i \in 1 .. k /\ j = k + 1
      BY <1>3, <2>1, <2>5, <3>2
    <3>3. CASE i = k + 1 /\ j \in 1 .. k
      BY <1>3, <2>1, <2>5, <3>3
    <3> QED
      BY <1>3, <3>1, <3>2, <3>3
  <2> QED
    BY <2>4, <2>6
<1> QED
  BY <1>3, <1>4, <1>5

\* What a single consumer keeps true of the gaps.
LEMMA SoleConsumerAlways ==
    ASSUME \A c, d \in Consumers : c = d
    PROVE  Spec => [](GapBeforeCompletion /\ GapsDisjoint)
<1> DEFINE Inv == GapBeforeCompletion /\ PreviousIsLatest /\ GapsDisjoint
<1>1. Init => Inv
  BY DEF Init, GapBeforeCompletion, PreviousIsLatest, GapsDisjoint
<1>2. TypeOK /\ InHand /\ OnceInv /\ Inv /\ [Next]_vars => Inv'
  <2> SUFFICES ASSUME TypeOK, InHand, OnceInv, Inv, [Next]_vars
               PROVE  Inv'
    OBVIOUS
  <2>1. PreviousIsLatest'
    BY PreviousStep
  <2>2. CASE UNCHANGED database
    BY <2>1, <2>2 DEF database, GapBeforeCompletion, GapsDisjoint
  <2>3. ASSUME NEW c \in Consumers, Installs(c)
        PROVE  GapBeforeCompletion' /\ GapsDisjoint'
    BY <2>3, GapStep
  <2>4. Elsewhere \/ (\E c \in Consumers : Quiet(c)) => UNCHANGED database
    BY DEF Elsewhere, Quiet, database
  <2> QED
    BY <2>1, <2>2, <2>3, <2>4, StepShape DEF OnceInv, database, GapBeforeCompletion, GapsDisjoint
<1> QED
  BY <1>1, <1>2, TypeCorrect, OnceAlways, PTL DEF Spec

\* When a single replica consumes the topic, no instant of an associate's time
\* is counted in two idle gaps, in whatever order completions are delivered and
\* however often they are redelivered.  With two replicas this is false.
THEOREM SoleConsumerGaps ==
    ASSUME \A c, d \in Consumers : c = d
    PROVE  Spec => []GapsDisjoint
BY SoleConsumerAlways, PTL

=============================================================================

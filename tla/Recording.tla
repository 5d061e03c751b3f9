------------------------------ MODULE Recording ------------------------------
(***************************************************************************)
(* The write path of cmd/labor: consumers of warehouse.fulfillment.events  *)
(* turn each TaskCompleted into one TaskPerformance row, at most one idle  *)
(* gap and one TaskPerformanceRecorded event, inside one Postgres          *)
(* transaction, and then acknowledge the message.                          *)
(*                                                                         *)
(* Every replica of cmd/labor runs one consumer; its loop handles one      *)
(* message at a time.  Postgres runs READ COMMITTED: a statement sees what *)
(* is committed when it runs, and a transaction's writes are invisible to  *)
(* the others until Commit.  A transaction is therefore modelled one       *)
(* statement per action, its own writes staged until Commit installs them. *)
(***************************************************************************)
EXTENDS LaborDomain, Sequences, FiniteSets

CONSTANTS
    Consumers,           \* the replicas' Kafka consumers, one group
    Partitions,          \* partitions of the fulfillment topic
    Messages,            \* distinct messages; a valid one is its CloudEvents id
    Kind,                \* what decoding message m yields, see Kinds
    AssociateId,         \* data.AssociateId of m, or NoAssociate
    WireTaskType,        \* data.TaskType of m as it arrives
    CompletedAt,         \* evt.Time() of m, in ticks
    ActualSeconds,       \* data.DurationSeconds of m
    NoAssociate,         \* the empty associate id of a robot station
    Logs,                \* the topic contents considered: partition |-> sequence
    StandardSeconds,     \* what FindActiveAsOf may answer; 0 is "none active"
    IdleGapCapSeconds,   \* IDLE_GAP_CAP_SECONDS
    MaxHandlerAttempts,  \* maxHandlerAttempts of consumer.go (3)
    MaxFaults            \* bound on failures, crashes and rebalances

\* "completed": a well-formed TaskCompleted.    "noTaskId": its task id is empty.
\* "malformed": TaskCompleted, data unreadable. "other": another event type.
\* "undecodable": not a CloudEvents 1.0 event.
Kinds == {"completed", "noTaskId", "malformed", "other", "undecodable"}

\* Upstream measures a duration as completion minus claim: never negative.
ASSUME MessageAssumption ==
    /\ Kind \in [Messages -> Kinds]
    /\ CompletedAt \in [Messages -> Int]
    /\ ActualSeconds \in [Messages -> Nat]
    /\ Partitions # {}
    /\ Logs \subseteq [Partitions -> Seq(Messages)]

ASSUME BoundAssumption ==
    /\ StandardSeconds \subseteq Nat /\ 0 \in StandardSeconds
    /\ IdleGapCapSeconds \in Int
    /\ MaxHandlerAttempts \in Nat \ {0}
    /\ MaxFaults \in Nat

VARIABLES
    log,          \* Kafka: contents of the topic
    owner,        \* Kafka: consumer each partition is assigned to
    position,     \* offset up to which the owner's reader has fetched
    committed,    \* Kafka: committed offset of the group
    dlq,          \* Kafka: messages on the dead-letter topic
    processed,    \* Postgres: processed_events
    rows,         \* Postgres: task_performances, event id |-> frozen standard
    gaps,         \* Postgres: idle_periods, in insertion order
    outbox,       \* Postgres: outbox_events, in insertion order
    pc,           \* consumer: where its loop stands
    part,         \* consumer: partition of the message in hand
    off,          \* consumer: offset of the message in hand
    attempts,     \* consumer: failed attempts on the message in hand
    standard,     \* transaction: standardSecondsAtCompletion
    previous,     \* transaction: previousCompletedAt, {} when there is none
    faults        \* failures so far, bounded by MaxFaults

kafka    == <<log, owner, position, committed, dlq>>
database == <<processed, rows, gaps, outbox>>
consumer == <<pc, part, off, attempts, standard, previous>>
vars     == <<kafka, database, consumer, faults>>

-----------------------------------------------------------------------------

NoRow == -1                              \* event id not in task_performances

Topics == {"analytics", "integration"}   \* one outbox row per encoder

\* Control points of the loop.  A transaction is open in TxSteps.
TxSteps == {"marked", "scored", "resolved", "saved", "gapped", "published"}
PcValues == {"idle", "handle", "dlq", "ack", "down"} \cup TxSteps

Offsets(p) == DOMAIN log[p]

\* The message consumer c has in hand.
Msg(c) == log[part[c]][off[c]]

TaskType(m) == ParseTaskTypeLenient(WireTaskType[m])

ClaimedAt(m) == CompletedAt[m] - ActualSeconds[m] * TicksPerSecond

RowsOf(a) == {m \in Messages : rows[m] # NoRow /\ AssociateId[m] = a}

\* The idle_periods row ended by the claim of m, after a completion at t.
IdlePeriod(m, t) ==
    LET cap == EffectiveCap(IdleGapCapSeconds)
    IN  [event     |-> m,
         associate |-> AssociateId[m],
         startedAt |-> t,
         endedAt   |-> ClaimedAt(m),
         seconds   |-> GapSeconds(t, ClaimedAt(m), cap),
         capped    |-> GapCapped(t, ClaimedAt(m), cap)]

\* recordIdleGap: the gap to save, {} when there is none: no associate, no
\* prior completion, or a claim at or before it (ErrNegativeGap, skipped).
IdleGap(m, prior) ==
    {IdlePeriod(m, t) : t \in {u \in prior : /\ AssociateId[m] # NoAssociate
                                             /\ GapIsPositive(u, ClaimedAt(m))}}

\* outbox_events row for topic t; idle is IdleSecondsBefore ({} for nil).
OutboxRow(m, t, idle) == [event |-> m, topic |-> t, idle |-> idle]

-----------------------------------------------------------------------------

IdlePeriods == [event : Messages, associate : {AssociateId[m] : m \in Messages},
                startedAt : Int, endedAt : Int, seconds : Int, capped : BOOLEAN]

OutboxRows == [event : Messages, topic : Topics, idle : SUBSET Int]

KafkaTypeOK ==
    /\ log \in Logs
    /\ owner \in [Partitions -> Consumers]
    /\ position \in [Partitions -> Nat]
    /\ committed \in [Partitions -> Nat]
    /\ dlq \subseteq Messages

TablesTypeOK ==
    /\ processed \subseteq Messages
    /\ rows \in [Messages -> StandardSeconds \cup {NoRow}]
    /\ gaps \in Seq(IdlePeriods)
    /\ outbox \in Seq(OutboxRows)

ConsumerTypeOK ==
    /\ pc \in [Consumers -> PcValues]
    /\ part \in [Consumers -> Partitions]
    /\ off \in [Consumers -> Nat]
    /\ attempts \in [Consumers -> Nat]
    /\ standard \in [Consumers -> StandardSeconds]
    /\ previous \in [Consumers -> SUBSET Int]

TypeOK == KafkaTypeOK /\ TablesTypeOK /\ ConsumerTypeOK /\ faults \in 0 .. MaxFaults

Init ==
    /\ log \in Logs
    /\ owner \in [Partitions -> Consumers]
    /\ position = [p \in Partitions |-> 0]
    /\ committed = [p \in Partitions |-> 0]
    /\ dlq = {}
    /\ processed = {}
    /\ rows = [m \in Messages |-> NoRow]
    /\ gaps = <<>>
    /\ outbox = <<>>
    /\ pc = [c \in Consumers |-> "idle"]
    /\ part = [c \in Consumers |-> CHOOSE p \in Partitions : TRUE]
    /\ off = [c \in Consumers |-> 0]
    /\ attempts = [c \in Consumers |-> 0]
    /\ standard = [c \in Consumers |-> 0]
    /\ previous = [c \in Consumers |-> {}]
    /\ faults = 0

-----------------------------------------------------------------------------
(***************************************************************************)
(* The consume loop: Run, handleMessage, handleWithRetry.                  *)
(***************************************************************************)

Transition(c, from, to) == pc[c] = from /\ pc' = [pc EXCEPT ![c] = to]

\* Leaving the transaction's scope: its local values are gone.
EndTx(c) ==
    /\ standard' = [standard EXCEPT ![c] = 0]
    /\ previous' = [previous EXCEPT ![c] = {}]

\* FetchMessage: the next message of a partition assigned to c.  A message
\* Decode refuses goes to the dead-letter topic without an attempt.
Fetch(c, p) ==
    /\ owner[p] = c
    /\ position[p] < Len(log[p])
    /\ Transition(c, "idle",
                  IF Kind[log[p][position[p] + 1]] = "undecodable" THEN "dlq"
                                                                   ELSE "handle")
    /\ position' = [position EXCEPT ![p] = @ + 1]
    /\ part' = [part EXCEPT ![c] = p]
    /\ off' = [off EXCEPT ![c] = position[p] + 1]
    /\ attempts' = [attempts EXCEPT ![c] = 0]
    /\ UNCHANGED <<log, owner, committed, dlq, database, standard, previous, faults>>

\* Mutant: an exhausted message is acknowledged instead of dead-lettered.
FailAttemptDrops(c) ==
    /\ attempts' = [attempts EXCEPT ![c] = @ + 1]
    /\ pc' = [pc EXCEPT ![c] =
                  IF attempts[c] + 1 < MaxHandlerAttempts THEN "handle" ELSE "ack"]
    /\ EndTx(c)
    /\ UNCHANGED <<part, off>>

\* Mutant: attempts are not counted, so a message is retried for ever.
FailAttemptUncounted(c) ==
    /\ pc' = [pc EXCEPT ![c] = "handle"]
    /\ EndTx(c)
    /\ UNCHANGED <<part, off, attempts>>

\* An attempt ended with an error: back off and try again, or give up after
\* MaxHandlerAttempts attempts in total.  The open transaction is rolled back.
FailAttempt(c) ==
    /\ attempts' = [attempts EXCEPT ![c] = @ + 1]
    /\ pc' = [pc EXCEPT ![c] =
                  IF attempts[c] + 1 < MaxHandlerAttempts THEN "handle" ELSE "dlq"]
    /\ EndTx(c)
    /\ UNCHANGED <<part, off>>

\* serve cancelled the consumer's context: backoff.WithContext makes this
\* attempt the last one.
StopRetrying(c) ==
    /\ pc' = [pc EXCEPT ![c] = "dlq"]
    /\ EndTx(c)
    /\ UNCHANGED <<part, off, attempts>>

\* Every other event type of the shared topic is skipped and acknowledged.
SkipOtherType(c) ==
    /\ Transition(c, "handle", "ack")
    /\ Kind[Msg(c)] = "other"
    /\ UNCHANGED <<kafka, database, part, off, attempts, standard, previous, faults>>

\* evt.DataAs fails: the attempt ends before any transaction begins.
RejectData(c) ==
    /\ pc[c] = "handle"
    /\ Kind[Msg(c)] = "malformed"
    /\ FailAttempt(c)
    /\ UNCHANGED <<kafka, database, faults>>

-----------------------------------------------------------------------------
(***************************************************************************)
(* RecordTaskPerformance.Execute, one statement of its transaction at a    *)
(* time.                                                                   *)
(***************************************************************************)

Recordable(m) == Kind[m] \in {"completed", "noTaskId"}

\* Mutant: the marker's INSERT never waits for an uncommitted one.
HoldsNoMarker(c, m) == FALSE

\* An uncommitted processed_events row of another transaction blocks the
\* INSERT of the same event id until that transaction ends.
HoldsMarker(c, m) == pc[c] \in TxSteps /\ Msg(c) = m

\* Mutant: MarkProcessed reports every event id as new.
MarkProcessedBlind(c) ==
    /\ Transition(c, "handle", "marked")
    /\ Recordable(Msg(c))
    /\ \A d \in Consumers : ~HoldsMarker(d, Msg(c))
    /\ UNCHANGED <<kafka, database, part, off, attempts, standard, previous, faults>>

\* MarkProcessed for an event id not seen before: the marker is staged.
MarkProcessed(c) ==
    /\ Transition(c, "handle", "marked")
    /\ Recordable(Msg(c))
    /\ Msg(c) \notin processed
    /\ \A d \in Consumers : ~HoldsMarker(d, Msg(c))
    /\ UNCHANGED <<kafka, database, part, off, attempts, standard, previous, faults>>

\* MarkProcessed for an event id already seen: Execute returns (nil, nil).
SkipProcessed(c) ==
    /\ Transition(c, "handle", "ack")
    /\ Recordable(Msg(c))
    /\ Msg(c) \in processed
    /\ UNCHANGED <<kafka, database, part, off, attempts, standard, previous, faults>>

\* Mutant: "no standard" leaves the sentinel of a missing row.
ResolveStandardSentinel(c) ==
    /\ Transition(c, "marked", "scored")
    /\ Kind[Msg(c)] = "completed"
    /\ \E s \in StandardSeconds :
          /\ TaskType(Msg(c)) = Unclassified => s = 0
          /\ standard' = [standard EXCEPT ![c] = IF s = 0 THEN NoRow ELSE s]
    /\ UNCHANGED <<kafka, database, part, off, attempts, previous, faults>>

\* standardSecondsAtCompletion, then performance.New.  What FindActiveAsOf
\* answers is left open here; an unclassified task is not looked up.
ResolveStandard(c) ==
    /\ Transition(c, "marked", "scored")
    /\ Kind[Msg(c)] = "completed"
    /\ \E s \in StandardSeconds :
          /\ TaskType(Msg(c)) = Unclassified => s = 0
          /\ standard' = [standard EXCEPT ![c] = s]
    /\ UNCHANGED <<kafka, database, part, off, attempts, previous, faults>>

\* performance.New refuses an empty task id.
RejectTask(c) ==
    /\ pc[c] = "marked"
    /\ Kind[Msg(c)] = "noTaskId"
    /\ FailAttempt(c)
    /\ UNCHANGED <<kafka, database, faults>>

\* Mutant: RecentByAssociateID orders its rows oldest first.
ResolveOldest(c) ==
    LET a == AssociateId[Msg(c)]
    IN  /\ Transition(c, "scored", "resolved")
        /\ previous' = [previous EXCEPT ![c] =
                           {CompletedAt[m] : m \in {n \in RowsOf(a) :
                               /\ a # NoAssociate
                               /\ \A o \in RowsOf(a) : CompletedAt[n] <= CompletedAt[o]}}]
        /\ UNCHANGED <<kafka, database, part, off, attempts, standard, faults>>

\* previousCompletionFor: RecentByAssociateID(associate, 1) of the committed
\* rows, newest completion first; no query without an associate.
ResolvePrevious(c) ==
    LET a == AssociateId[Msg(c)]
    IN  /\ Transition(c, "scored", "resolved")
        /\ \/ /\ a = NoAssociate \/ RowsOf(a) = {}
              /\ previous' = [previous EXCEPT ![c] = {}]
           \/ /\ a # NoAssociate
              /\ \E m \in RowsOf(a) :
                    /\ \A n \in RowsOf(a) : CompletedAt[n] <= CompletedAt[m]
                    /\ previous' = [previous EXCEPT ![c] = {CompletedAt[m]}]
        /\ UNCHANGED <<kafka, database, part, off, attempts, standard, faults>>

\* Mutant: the row is saved through the pool, outside the transaction.
SaveOutsideTx(c) ==
    /\ Transition(c, "resolved", "saved")
    /\ rows' = [rows EXCEPT ![Msg(c)] = standard[c]]
    /\ UNCHANGED <<kafka, processed, gaps, outbox, part, off, attempts, standard,
                   previous, faults>>

\* Performances.Save, recordIdleGap and Events.Publish stage their rows.
SavePerformance(c) ==
    /\ Transition(c, "resolved", "saved")
    /\ UNCHANGED <<kafka, database, part, off, attempts, standard, previous, faults>>

RecordIdleGap(c) ==
    /\ Transition(c, "saved", "gapped")
    /\ UNCHANGED <<kafka, database, part, off, attempts, standard, previous, faults>>

Publish(c) ==
    /\ Transition(c, "gapped", "published")
    /\ UNCHANGED <<kafka, database, part, off, attempts, standard, previous, faults>>

\* tx.Commit installs what the statements above staged.  task_performances
\* keeps an existing row of the event id (ON CONFLICT DO NOTHING).
InstallWrites(c) ==
    LET m == Msg(c)
        found == IdleGap(m, previous[c])
        idle == {g.seconds : g \in found}
    IN  /\ processed' = processed \cup {m}
        /\ rows' = [rows EXCEPT ![m] = IF @ = NoRow THEN standard[c] ELSE @]
        /\ \/ found = {} /\ gaps' = gaps
           \/ \E g \in found : gaps' = Append(gaps, g)
        /\ outbox' = Append(Append(outbox, OutboxRow(m, "analytics", idle)),
                            OutboxRow(m, "integration", idle))

Commit(c) ==
    /\ Transition(c, "published", "ack")
    /\ InstallWrites(c)
    /\ EndTx(c)
    /\ UNCHANGED <<kafka, part, off, attempts, faults>>

-----------------------------------------------------------------------------
(***************************************************************************)
(* After the handler: the dead-letter topic and the offset commit.         *)
(***************************************************************************)

\* dlqPublish / writeDLQ.
DeadLetter(c) ==
    /\ Transition(c, "dlq", "ack")
    /\ dlq' = dlq \cup {Msg(c)}
    /\ UNCHANGED <<log, owner, position, committed, database, part, off, attempts,
                   standard, previous, faults>>

\* CommitMessages.  The broker may accept or fence a consumer that lost the
\* partition; fenced, the loop stops.
Acknowledge(c) ==
    /\ committed' = [committed EXCEPT ![part[c]] = off[c]]
    /\ Transition(c, "ack", "idle")
    /\ UNCHANGED <<log, owner, position, dlq, database, part, off, attempts,
                   standard, previous, faults>>

Fenced(c) ==
    /\ owner[part[c]] # c
    /\ Transition(c, "ack", "down")
    /\ UNCHANGED <<kafka, database, part, off, attempts, standard, previous, faults>>

-----------------------------------------------------------------------------
(***************************************************************************)
(* Failures.  Each one counts against MaxFaults.                           *)
(***************************************************************************)

Fault == faults < MaxFaults /\ faults' = faults + 1

\* A statement fails, the connection is lost or the commit is refused: the
\* transaction rolls back and the attempt ends with an error.
StatementFails(c) ==
    /\ Fault
    /\ pc[c] \in TxSteps \/ (pc[c] = "handle" /\ Recordable(Msg(c)))
    /\ FailAttempt(c)
    /\ UNCHANGED <<kafka, database>>

\* A graceful stop cancels the context while the message is handled: statements
\* and commit fail.  The dead-letter write and the offset commit that follow run
\* on the same context; they may fail, see below.
StopHandling(c) ==
    /\ Fault
    /\ pc[c] \in TxSteps \/ (pc[c] = "handle" /\ Kind[Msg(c)] # "other")
    /\ StopRetrying(c)
    /\ UNCHANGED <<kafka, database>>

\* The commit took effect but its answer was lost: an error all the same.
CommitUnknown(c) ==
    /\ Fault
    /\ pc[c] = "published"
    /\ InstallWrites(c)
    /\ FailAttempt(c) \/ StopRetrying(c)
    /\ UNCHANGED kafka

\* The dead-letter write fails, or succeeds with its answer lost: Run returns
\* the error, the process exits and nothing is acknowledged.
DeadLetterFails(c) ==
    /\ Fault
    /\ Transition(c, "dlq", "down")
    /\ dlq' \in {dlq, dlq \cup {Msg(c)}}
    /\ UNCHANGED <<log, owner, position, committed, database, part, off, attempts,
                   standard, previous>>

\* The offset commit fails, or succeeds with its answer lost.
AcknowledgeFails(c) ==
    /\ Fault
    /\ Transition(c, "ack", "down")
    /\ committed' \in {committed, [committed EXCEPT ![part[c]] = off[c]]}
    /\ UNCHANGED <<log, owner, position, dlq, database, part, off, attempts,
                   standard, previous>>

\* The process dies anywhere; Postgres aborts its open transaction.
Crash(c) ==
    /\ Fault
    /\ pc[c] # "down"
    /\ pc' = [pc EXCEPT ![c] = "down"]
    /\ EndTx(c)
    /\ UNCHANGED <<kafka, database, part, off, attempts>>

\* The replica is restarted: it reads on from the committed offsets.
Restart(c) ==
    /\ Transition(c, "down", "idle")
    /\ position' = [p \in Partitions |->
                       IF owner[p] = c THEN committed[p] ELSE position[p]]
    /\ UNCHANGED <<log, owner, committed, dlq, database, part, off, attempts,
                   standard, previous, faults>>

\* The group moves a partition to another live consumer, which reads on from
\* the committed offset; the previous owner may still hold a message of it.
Rebalance(c, p) ==
    /\ Fault
    /\ owner[p] # c
    /\ pc[c] # "down"
    /\ owner' = [owner EXCEPT ![p] = c]
    /\ position' = [position EXCEPT ![p] = committed[p]]
    /\ UNCHANGED <<log, committed, dlq, database, consumer>>

\* Every message has been read: FetchMessage waits.
AwaitMessages ==
    /\ \A c \in Consumers : pc[c] = "idle"
    /\ \A p \in Partitions : position[p] = Len(log[p])
    /\ UNCHANGED vars

-----------------------------------------------------------------------------

\* What consumer c does by itself when nothing fails.
Progress(c) ==
    \/ \E p \in Partitions : Fetch(c, p)
    \/ SkipOtherType(c)
    \/ RejectData(c)
    \/ MarkProcessed(c)
    \/ SkipProcessed(c)
    \/ ResolveStandard(c)
    \/ RejectTask(c)
    \/ ResolvePrevious(c)
    \/ SavePerformance(c)
    \/ RecordIdleGap(c)
    \/ Publish(c)
    \/ Commit(c)
    \/ DeadLetter(c)
    \/ Acknowledge(c)
    \/ Fenced(c)
    \/ Restart(c)

Failure(c) ==
    \/ StatementFails(c)
    \/ StopHandling(c)
    \/ CommitUnknown(c)
    \/ DeadLetterFails(c)
    \/ AcknowledgeFails(c)
    \/ Crash(c)
    \/ \E p \in Partitions : Rebalance(c, p)

Next ==
    \/ \E c \in Consumers : Progress(c) \/ Failure(c)
    \/ AwaitMessages

Spec == Init /\ [][Next]_vars

\* The loop of a live replica keeps running, and Kubernetes restarts a dead
\* one; failures are never guaranteed.
FairSpec == Spec /\ \A c \in Consumers : WF_vars(Progress(c))

-----------------------------------------------------------------------------
(***************************************************************************)
(* Properties.                                                             *)
(***************************************************************************)

\* A message needs no further work: it was recorded, it is on the dead-letter
\* topic, or it is of a type this service ignores.
Settled(m) ==
    \/ m \in processed
    \/ m \in dlq
    \/ Kind[m] = "other"

\* No offset is committed past a message that was neither recorded nor
\* dead-lettered, whatever fails, crashes or is rebalanced in between
\* (writeDLQ: "no message loss").
NoMessageLost ==
    \A p \in Partitions : \A i \in 1 .. committed[p] :
        i \in Offsets(p) /\ Settled(log[p][i])

\* The idempotency marker, the performance row and the two outbox rows of an
\* event exist together or not at all (Execute's "ONE atomic scope").
RecordedTogether ==
    \A m \in Messages :
        /\ m \in processed <=> rows[m] # NoRow
        /\ \A t \in Topics :
              m \in processed <=> \E i \in DOMAIN outbox : /\ outbox[i].event = m
                                                           /\ outbox[i].topic = t

\* A redelivered, duplicated or concurrently handled event is announced once
\* per topic and leaves at most one idle gap, and what is announced as
\* IdleSecondsBefore is the gap that was recorded.
AnnouncedOnce ==
    /\ \A i, j \in DOMAIN outbox :
          /\ outbox[i].event = outbox[j].event
          /\ outbox[i].topic = outbox[j].topic
          => i = j
    /\ \A i, j \in DOMAIN gaps : gaps[i].event = gaps[j].event => i = j
    /\ \A i \in DOMAIN outbox :
          outbox[i].idle = {gaps[j].seconds :
              j \in {k \in DOMAIN gaps : gaps[k].event = outbox[i].event}}

\* No instant of an associate's time is counted in two idle gaps: a gap is the
\* wait between a completion and the next claim.  Holds with one consumer for
\* every delivery order; two consumers can both start a gap at the same
\* completion.
GapsDisjoint ==
    \A i, j \in DOMAIN gaps :
        i # j /\ gaps[i].associate = gaps[j].associate
        => \/ gaps[i].endedAt <= gaps[j].startedAt
           \/ gaps[j].endedAt <= gaps[i].startedAt

\* Events announced on the integration topic; Publish writes the analytics row
\* of an event just before its integration row.
Announced == [k \in 1 .. Len(outbox) \div 2 |-> outbox[2 * k].event]

Abstract == INSTANCE ScoreOnce WITH score <- rows, ledger <- Announced,
                                    NoScore <- NoRow

\* The consumers, however many, whatever they redeliver and wherever they
\* fail, implement "score each task once and announce it once": rows are
\* neither rewritten nor removed (ADR 0004) and none appears unannounced.
ImplementsScoreOnce == Abstract!Spec

\* Every message of the topic is eventually settled: a poison message blocks
\* nothing behind it, and a finite number of failures delays but loses none.
EventuallySettled ==
    <>[](\A p \in Partitions : \A i \in Offsets(p) : Settled(log[p][i]))

-----------------------------------------------------------------------------
(***************************************************************************)
(* The inductive invariant behind the safety properties: what holds of a   *)
(* consumer at each control point.                                         *)
(***************************************************************************)

\* The consumer has a message in hand.
Busy(c) == pc[c] \notin {"idle", "down"}

\* The message in hand exists.
InHand == \A c \in Consumers : Busy(c) => off[c] \in Offsets(part[c])

\* All messages before it on its partition are settled, and it is settled
\* itself by the time it is acknowledged.
InHandSettled ==
    \A c \in Consumers :
        /\ Busy(c) => \A i \in 1 .. off[c] - 1 : Settled(log[part[c]][i])
        /\ pc[c] = "ack" => Settled(Msg(c))

\* What a live owner has fetched of a partition is settled, but for the message
\* it has in hand.
FetchedSettled ==
    \A p \in Partitions :
        pc[owner[p]] = "down"
        \/ \A i \in 1 .. position[p] :
              /\ i \in Offsets(p)
              /\ \/ Settled(log[p][i])
                 \/ Busy(owner[p]) /\ part[owner[p]] = p /\ off[owner[p]] = i

\* An open transaction holds the only uncommitted marker of its event, and no
\* marker of it is committed.
MarkerExclusive ==
    \A c \in Consumers : pc[c] \in TxSteps =>
        /\ Recordable(Msg(c))
        /\ Msg(c) \notin processed
        /\ \A d \in Consumers : HoldsMarker(d, Msg(c)) => d = c

\* A transaction read at most one previous completion.
PreviousUnique == \A c \in Consumers : \A t, u \in previous[c] : t = u

\* Only a recorded event ends an idle gap.
GapsRecorded == \A i \in DOMAIN gaps : gaps[i].event \in processed

\* The outbox holds the analytics and the integration row of an event side by
\* side.
OutboxPaired == Len(outbox) % 2 = 0

SettledInv == InHandSettled /\ FetchedSettled /\ NoMessageLost

OnceInv ==
    /\ MarkerExclusive
    /\ PreviousUnique
    /\ GapsRecorded
    /\ OutboxPaired
    /\ RecordedTogether
    /\ AnnouncedOnce

SafetyInv == TypeOK /\ InHand /\ SettledInv /\ OnceInv

\* A recorded gap ended no later than the completion of the task that ended it.
GapBeforeCompletion ==
    \A i \in DOMAIN gaps :
        LET g == gaps[i]
        IN  /\ rows[g.event] # NoRow
            /\ AssociateId[g.event] = g.associate
            /\ g.associate # NoAssociate
            /\ g.startedAt < g.endedAt
            /\ g.endedAt <= CompletedAt[g.event]

\* What a transaction read as the associate's latest completion still is.
PreviousIsLatest ==
    \A c \in Consumers :
        pc[c] \in {"resolved", "saved", "gapped", "published"}
        /\ AssociateId[Msg(c)] # NoAssociate
        => \A m \in RowsOf(AssociateId[Msg(c)]) :
              /\ previous[c] # {}
              /\ \A t \in previous[c] : CompletedAt[m] <= t

GapInv ==
    /\ SafetyInv
    /\ GapBeforeCompletion
    /\ PreviousIsLatest
    /\ GapsDisjoint

=============================================================================

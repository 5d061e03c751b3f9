------------------------------ MODULE Projector ------------------------------
(***************************************************************************)
(* cmd/labor-projector: consumers of the analytics topic fold each event   *)
(* into the rollup the report is built from.                               *)
(*                                                                         *)
(* The loop reads with ReadMessage, which commits the offset before it     *)
(* returns the message; it marks the event id consumed in one statement    *)
(* and applies it in a later transaction.  A handling error is logged and  *)
(* the loop goes on.                                                       *)
(***************************************************************************)
EXTENDS LaborReport, EventEncoders

CONSTANTS
    Projectors,     \* the consumers of the analytics group
    Partitions,     \* partitions of the analytics topic
    Events,         \* distinct events; a valid one is its CloudEvents id
    Kind,           \* what decoding event e yields, see Kinds
    Published,      \* the domain event that was encoded as e
    Logs,           \* the topic contents considered, redeliveries included
    Requests,       \* queries of GET /reports/performance considered
    MaxFaults       \* bound on failures, crashes and rebalances

\* "encoded": by this service.  "malformed": of a projecting type, its data
\* unreadable.  "other": of another type.
Kinds == {"encoded", "malformed", "other", "undecodable"}

Encoded == {e \in Events : Kind[e] = "encoded"}

ProjectingTypes ==
    {"LaborStandardDefined", "LaborStandardRevised", "TaskPerformanceRecorded"}

\* Nothing, or one value of the kind asked for.
Nullable(x, S) == x \subseteq S /\ \A u, v \in x : u = v

\* A domain event of this service that has a subject.
WellFormed(ev) ==
    /\ ev.name \in ProjectingTypes
    /\ ev.at \in Int
    /\ IF ev.name = "TaskPerformanceRecorded"
       THEN /\ Nullable(ev.completedAt, Int)
            /\ Nullable(ev.efficiencyPct, Nat)
            /\ ev.actualSeconds \in Nat
       ELSE Nullable(ev.effectiveFrom, Int)
    /\ Cardinality(AnalyticsEncode(ev)) = 1

ASSUME EventAssumption ==
    /\ Kind \in [Events -> Kinds]
    /\ \A e \in Encoded : WellFormed(Published[e])
    /\ \A q \in Requests : Nullable(q.from, Int) /\ Nullable(q.to, Int)
    /\ Partitions # {}
    /\ Logs \subseteq [Partitions -> Seq(Events)]
    /\ MaxFaults \in Nat

VARIABLES
    log,        \* Kafka: contents of the topic
    owner,      \* Kafka: projector each partition is assigned to
    position,   \* offset up to which the owner's reader has fetched
    committed,  \* Kafka: committed offset of the group
    consumed,   \* Postgres: analytics_consumed_events
    claimed,    \* Postgres: analytics_processed_events
    rollup,     \* Postgres: labor_performance_rollup, key |-> counters
    pc,         \* projector: where its loop stands
    part,       \* projector: partition of the message in hand
    off,        \* projector: offset of the message in hand
    faults

kafka     == <<log, owner, position, committed>>
database  == <<consumed, claimed, rollup>>
projector == <<pc, part, off>>
vars      == <<kafka, database, projector, faults>>

PcValues == {"idle", "fetched", "handle", "marked", "down"}

Event(p) == log[part[p]][off[p]]

\* The message on the topic and the data decoded from it.
Message(e) == CHOOSE msg \in AnalyticsEncode(Published[e]) : TRUE

isProjecting(e) ==
    \/ Kind[e] = "malformed"
    \/ Kind[e] = "encoded" /\ Message(e).type \in ProjectingTypes

\* The time that chooses the bucket: the event's own time when the business
\* time is zero.
orOccurredAt(businessTime, occurredAt) ==
    IF businessTime = {} THEN occurredAt ELSE CHOOSE t \in businessTime : TRUE

\* The row an event is folded into, and what it adds to it.
BucketOf(msg, data) ==
    RowKey(data.task_type,
           orOccurredAt(IF msg.type = "TaskPerformanceRecorded" THEN data.completed_at
                                                                ELSE data.effective_from,
                        msg.time))

Delta(msg, data) ==
    CASE msg.type = "TaskPerformanceRecorded" ->
           TaskDelta(data.efficiency_pct, data.actual_seconds)
      [] msg.type = "LaborStandardDefined" -> StandardDefinedDelta
      [] msg.type = "LaborStandardRevised" -> StandardRevisedDelta

\* The increment of every event, as the projector decodes it.
Increment ==
    [e \in Encoded |-> [key   |-> BucketOf(Message(e), DataAs(Message(e))),
                        delta |-> Delta(Message(e), DataAs(Message(e)))]]

RowKeys == {Increment[e].key : e \in Encoded}

TypeOK ==
    /\ log \in Logs
    /\ owner \in [Partitions -> Projectors]
    /\ position \in [Partitions -> Nat]
    /\ committed \in [Partitions -> Nat]
    /\ consumed \subseteq Events /\ claimed \subseteq Events
    /\ DOMAIN rollup \subseteq RowKeys
    /\ \A k \in DOMAIN rollup : rollup[k] \in [Counters -> Nat]
    /\ pc \in [Projectors -> PcValues]
    /\ part \in [Projectors -> Partitions]
    /\ off \in [Projectors -> Nat]
    /\ faults \in 0 .. MaxFaults

Init ==
    /\ log \in Logs
    /\ owner \in [Partitions -> Projectors]
    /\ position = [q \in Partitions |-> 0]
    /\ committed = [q \in Partitions |-> 0]
    /\ consumed = {} /\ claimed = {}
    /\ rollup = [k \in {} |-> ZeroRow]
    /\ pc = [p \in Projectors |-> "idle"]
    /\ part = [p \in Projectors |-> CHOOSE q \in Partitions : TRUE]
    /\ off = [p \in Projectors |-> 0]
    /\ faults = 0

-----------------------------------------------------------------------------
(***************************************************************************)
(* Run: ReadMessage fetches and commits, HandleMessage follows.            *)
(***************************************************************************)

Transition(p, from, to) == pc[p] = from /\ pc' = [pc EXCEPT ![p] = to]

Fetch(p, q) ==
    /\ owner[q] = p
    /\ position[q] < Len(log[q])
    /\ Transition(p, "idle", "fetched")
    /\ position' = [position EXCEPT ![q] = @ + 1]
    /\ part' = [part EXCEPT ![p] = q]
    /\ off' = [off EXCEPT ![p] = position[q] + 1]
    /\ UNCHANGED <<log, owner, committed, database, faults>>

\* The commit inside ReadMessage.  The broker may accept or fence a projector
\* that lost the partition; an error ends Run and the process.
CommitOffset(p) ==
    /\ Transition(p, "fetched", "handle")
    /\ committed' = [committed EXCEPT ![part[p]] = off[p]]
    /\ UNCHANGED <<log, owner, position, database, part, off, faults>>

Fenced(p) ==
    /\ owner[part[p]] # p
    /\ Transition(p, "fetched", "down")
    /\ UNCHANGED <<kafka, database, part, off, faults>>

\* Mutant: a message that cannot be handled is tried again in place.
SkipRetries(p) ==
    /\ Transition(p, "handle", "handle")
    /\ ~isProjecting(Event(p))
    /\ UNCHANGED <<kafka, database, part, off, faults>>

\* Not a CloudEvent, or a type that moves no counter: left unmarked.
Skip(p) ==
    /\ Transition(p, "handle", "idle")
    /\ ~isProjecting(Event(p))
    /\ UNCHANGED <<kafka, database, part, off, faults>>

\* Processed.MarkProcessed, committed at once by itself.
MarkProcessed(p) ==
    /\ Transition(p, "handle", "marked")
    /\ isProjecting(Event(p))
    /\ Event(p) \notin consumed
    /\ consumed' = consumed \cup {Event(p)}
    /\ UNCHANGED <<kafka, claimed, rollup, part, off, faults>>

\* Mutant: deduplication on the message key (the task type), not on the id.
SkipConsumedKey(p) ==
    /\ Transition(p, "handle", "idle")
    /\ isProjecting(Event(p))
    /\ \E e \in consumed \cap Encoded :
          Event(p) \in Encoded /\ Message(e).key = Message(Event(p)).key
    /\ UNCHANGED <<kafka, database, part, off, faults>>

SkipConsumed(p) ==
    /\ Transition(p, "handle", "idle")
    /\ isProjecting(Event(p))
    /\ Event(p) \in consumed
    /\ UNCHANGED <<kafka, database, part, off, faults>>

\* evt.DataAs fails after the event was marked: logged, never retried.
RejectData(p) ==
    /\ Transition(p, "marked", "idle")
    /\ Kind[Event(p)] = "malformed"
    /\ UNCHANGED <<kafka, database, part, off, faults>>

\* PostgresProjection.apply: the claim and the upsert, in one transaction; an
\* event claimed before moves nothing.
Project(e) ==
    \/ e \in claimed /\ UNCHANGED <<claimed, rollup>>
    \/ /\ e \notin claimed
       /\ claimed' = claimed \cup {e}
       /\ rollup' = Upsert(rollup, Increment[e].key, Increment[e].delta)

Apply(p) ==
    /\ Transition(p, "marked", "idle")
    /\ Kind[Event(p)] # "malformed"
    /\ Project(Event(p))
    /\ UNCHANGED <<kafka, consumed, part, off, faults>>

-----------------------------------------------------------------------------
(***************************************************************************)
(* Failures.                                                               *)
(***************************************************************************)

Fault == faults < MaxFaults /\ faults' = faults + 1

\* The offset commit fails, or succeeds with its answer lost.
CommitOffsetFails(p) ==
    /\ Fault
    /\ Transition(p, "fetched", "down")
    /\ committed' \in {committed, [committed EXCEPT ![part[p]] = off[p]]}
    /\ UNCHANGED <<log, owner, position, database, part, off>>

\* MarkProcessed returns an error, the marker stored or not: logged, next.
MarkFails(p) ==
    /\ Fault
    /\ Transition(p, "handle", "idle")
    /\ isProjecting(Event(p))
    /\ consumed' \in {consumed, consumed \cup {Event(p)}}
    /\ UNCHANGED <<kafka, claimed, rollup, part, off>>

\* The transaction of apply fails, or its commit's answer is lost.
ApplyFails(p) ==
    /\ Fault
    /\ Transition(p, "marked", "idle")
    /\ Kind[Event(p)] # "malformed"
    /\ Project(Event(p)) \/ UNCHANGED <<claimed, rollup>>
    /\ UNCHANGED <<kafka, consumed, part, off>>

Crash(p) ==
    /\ Fault
    /\ pc[p] # "down"
    /\ pc' = [pc EXCEPT ![p] = "down"]
    /\ UNCHANGED <<kafka, database, part, off>>

\* Mutant: the committed offset is taken for the last one read, not the next.
RestartOneBack(p) ==
    /\ Transition(p, "down", "idle")
    /\ position' = [q \in Partitions |->
                       IF owner[q] = p THEN committed[q] - 1 ELSE position[q]]
    /\ UNCHANGED <<log, owner, committed, database, part, off, faults>>

\* The projector is restarted: it reads on from the committed offsets.
Restart(p) ==
    /\ Transition(p, "down", "idle")
    /\ position' = [q \in Partitions |->
                       IF owner[q] = p THEN committed[q] ELSE position[q]]
    /\ UNCHANGED <<log, owner, committed, database, part, off, faults>>

\* The group moves a partition; its previous owner may still hold a message.
Rebalance(p, q) ==
    /\ Fault
    /\ owner[q] # p
    /\ pc[p] # "down"
    /\ owner' = [owner EXCEPT ![q] = p]
    /\ position' = [position EXCEPT ![q] = committed[q]]
    /\ UNCHANGED <<log, committed, database, projector>>

AwaitMessages ==
    /\ \A p \in Projectors : pc[p] = "idle"
    /\ \A q \in Partitions : position[q] = Len(log[q])
    /\ UNCHANGED vars

-----------------------------------------------------------------------------

Progress(p) ==
    \/ \E q \in Partitions : Fetch(p, q)
    \/ CommitOffset(p)
    \/ Fenced(p)
    \/ Skip(p)
    \/ MarkProcessed(p)
    \/ SkipConsumed(p)
    \/ RejectData(p)
    \/ Apply(p)
    \/ Restart(p)

Failure(p) ==
    \/ CommitOffsetFails(p)
    \/ MarkFails(p)
    \/ ApplyFails(p)
    \/ Crash(p)
    \/ \E q \in Partitions : Rebalance(p, q)

Next ==
    \/ \E p \in Projectors : Progress(p) \/ Failure(p)
    \/ AwaitMessages

Spec == Init /\ [][Next]_vars

\* The loop of a live projector keeps running, and a dead one is restarted.
FairSpec == Spec /\ \A p \in Projectors : WF_vars(Progress(p))

-----------------------------------------------------------------------------
(***************************************************************************)
(* Properties.                                                             *)
(***************************************************************************)

\* The mean of measure over a set of events, nil for none.
MeanOver(measure(_), events) ==
    {<<SumFunction([e \in events |-> measure(e)]), n>> : n \in {Cardinality(events)} \ {0}}

\* The hour in which the work of an event was done, from the event itself.
HourOf(e) ==
    LET ev == Published[e]
        done == IF ev.name = "TaskPerformanceRecorded" THEN ev.completedAt
                                                       ELSE ev.effectiveFrom
    IN  HourBucket(Max(done \cup {t \in {ev.at} : done = {}}))

\* What a report should say of a set of projected events, with no encoding and
\* no rollup in between.
Reference(events) ==
    LET named(n) == {e \in events : Published[e].name = n}
        tasks    == named("TaskPerformanceRecorded")
        scored   == {e \in tasks : Published[e].efficiencyPct # {}}
        measured == {e \in tasks : Published[e].actualSeconds > 0}
    IN  [recorded |-> Cardinality(tasks),
         scored   |-> Cardinality(scored),
         unscored |-> Cardinality(tasks \ scored),
         meanEfficiencyPct |-> MeanOver(LAMBDA e : SumSet(Published[e].efficiencyPct),
                                        scored),
         meanActualSeconds |-> MeanOver(LAMBDA e : Published[e].actualSeconds, measured),
         defined  |-> Cardinality(named("LaborStandardDefined")),
         revised  |-> Cardinality(named("LaborStandardRevised"))]

\* A report says what the projected domain events say, through encoding,
\* decoding and the rollup, whatever the order, duplication or lateness in
\* which they arrived: counts and means are those of the work whose hour
\* begins in the window, a late event lands in the hour of its work, no mean
\* is made up where there is nothing to average, there is a row for exactly the
\* hours, and a bar for exactly the task types, with an event in the window, and
\* a request without a proper window is refused.
ReportMatchesEvents ==
    \A q \in Requests : \A report \in GetPerformanceReport(rollup, q) :
        LET from == Max(q.from)
            to   == Max(q.to)
            typeOf(e) == NormalizeTaskType(Published[e].taskType)
            inWindow == {e \in claimed : /\ from <= HourOf(e) /\ HourOf(e) < to
                                         /\ q.taskType \in {"", typeOf(e)}}
        IN  /\ from < to
            /\ report.totals = Reference(inWindow)
            /\ report.rows =
                  [k \in {[taskType |-> typeOf(e), hour |-> HourOf(e)] : e \in inWindow} |->
                      Reference({e \in inWindow : typeOf(e) = k.taskType
                                                 /\ HourOf(e) = k.hour})]
            /\ report.byTaskType =
                  [t \in {typeOf(e) : e \in inWindow} |->
                      Reference({e \in inWindow : typeOf(e) = t})]

\* Readable events behind the committed offsets that are neither in the rollup
\* nor about to be: no projector has them in hand.
Lost ==
    {e \in Events \ claimed :
        /\ e \in Encoded
        /\ \E q \in Partitions : \E i \in 1 .. committed[q] : log[q][i] = e
        /\ \A p \in Projectors : pc[p] \in {"fetched", "handle", "marked"} => Event(p) # e}

\* Every event of the topic is projected exactly once (AnalyticsConsumer:
\* "exactly once per CloudEvents id").  Claims rule out twice; this is the other
\* half.
ProjectedExactlyOnce == Lost = {}

\* A failure loses at most the event in hand: nothing is lost without one.
LossBounded == Cardinality(Lost) <= faults

\* The projector reads to the end of every partition: a message it cannot
\* handle does not wedge it (Run: "one bad message cannot wedge the projector").
NeverWedged == <>[](\A q \in Partitions : position[q] = Len(log[q]))

=============================================================================

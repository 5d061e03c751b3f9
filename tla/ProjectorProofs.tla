--------------------------- MODULE ProjectorProofs ---------------------------
(***************************************************************************)
(* Proofs about the projector and the report built from its rollup, for    *)
(* every set of projectors, topic contents, requests and failures.         *)
(*                                                                         *)
(* The encoding first: the row and the increment that the projector        *)
(* decodes from a message are those of the domain event itself.  Then the  *)
(* rollup: a row is, counter by counter, the sum of the increments of the  *)
(* claimed events of its hour and task type, so that what a report adds up *)
(* over rows is what it would add up over events.                          *)
(***************************************************************************)
EXTENDS Projector, SumTheorems

IsTask(e) == Published[e].name = "TaskPerformanceRecorded"

TypeOf(e) == NormalizeTaskType(Published[e].taskType)

KeyOf(e) == [taskType |-> TypeOf(e), hour |-> HourOf(e)]

Flag(b) == IF b THEN 1 ELSE 0

\* The event e counts as scored, as measured.
Scored(e) == IsTask(e) /\ Published[e].efficiencyPct # {}
Measured(e) == IsTask(e) /\ Published[e].actualSeconds > 0

\* The only member of a set is its greatest.
LEMMA MaxOfOne == \A v \in Int : Max({v}) = v
BY DEF Max

\* An optional value is nothing or one value.
LEMMA NullableCases ==
    ASSUME NEW S, NEW x, Nullable(x, S)
    PROVE  x = {} \/ \E v \in S : x = {v}
BY DEF Nullable

\* The message of an event of this service, and what is decoded from it.
LEMMA MessageIs ==
    ASSUME NEW e \in Encoded
    PROVE  LET ev == Published[e]
               msg == Message(e)
               data == DataAs(msg)
           IN  /\ msg.type = ev.name /\ msg.time = ev.at
               /\ data["task_type"] = ev.taskType
               /\ IF IsTask(e)
                  THEN /\ data["completed_at"] = ev.completedAt
                       /\ data["efficiency_pct"] = ev.efficiencyPct
                       /\ data["actual_seconds"] = ev.actualSeconds
                  ELSE data["effective_from"] = ev.effectiveFrom
<1> DEFINE ev == Published[e]
           body == marshalData(ev)
           m == [stream |-> "analytics", type |-> ev.name, time |-> ev.at,
                 key |-> body.key, subject |-> body.subject, data |-> body.data]
<1>1. /\ ev.name \in ProjectingTypes
      /\ Cardinality(AnalyticsEncode(ev)) = 1
  BY EventAssumption DEF WellFormed
<1>2. AnalyticsEncode(ev) # {}
  BY <1>1, FS_EmptySet
<1>3. AnalyticsEncode(ev) = {m}
  <2>1. AnalyticsEncode(ev) \subseteq {m}
    BY DEF AnalyticsEncode, New
  <2> HIDE DEF m
  <2> QED
    BY <1>2, <2>1
<1>4. Message(e) = m
  BY <1>3 DEF Message
<1>5. /\ m.type = ev.name /\ m.time = ev.at /\ m.data = body.data
  OBVIOUS
<1> HIDE DEF m
<1>6. CASE IsTask(e)
  <2>1. body.data = PerformanceData(ev)
    BY <1>6 DEF marshalData, IsTask
  <2>2. /\ "task_type" \in DOMAIN PerformanceData(ev) /\ PerformanceData(ev)["task_type"] = ev.taskType
        /\ "completed_at" \in DOMAIN PerformanceData(ev)
        /\ PerformanceData(ev)["completed_at"] = ev.completedAt
        /\ "efficiency_pct" \in DOMAIN PerformanceData(ev)
        /\ PerformanceData(ev)["efficiency_pct"] = ev.efficiencyPct
        /\ "actual_seconds" \in DOMAIN PerformanceData(ev)
        /\ PerformanceData(ev)["actual_seconds"] = ev.actualSeconds
    BY DEF PerformanceData
  <2> HIDE DEF body, ev
  <2> QED
    BY <1>4, <1>5, <1>6, <2>1, <2>2 DEF DataAs, ZeroData, ev
<1>7. CASE ~IsTask(e)
  <2>1. ev.name = "LaborStandardDefined" \/ ev.name = "LaborStandardRevised"
    BY <1>1, <1>7 DEF ProjectingTypes, IsTask
  <2>2. /\ "task_type" \in DOMAIN body.data /\ body.data["task_type"] = ev.taskType
        /\ "effective_from" \in DOMAIN body.data
        /\ body.data["effective_from"] = ev.effectiveFrom
    <3>1. CASE ev.name = "LaborStandardDefined"
      <4>1. body.data = [standard_id |-> ev.standardId, task_type |-> ev.taskType,
                         expected_seconds |-> ev.expectedSeconds,
                         effective_from |-> ev.effectiveFrom]
        BY <3>1 DEF marshalData
      <4> QED
        BY <4>1
    <3>2. CASE ev.name = "LaborStandardRevised"
      <4>1. body.data = [standard_id |-> ev.standardId, task_type |-> ev.taskType,
                         previous_expected_seconds |-> ev.previousExpectedSeconds,
                         expected_seconds |-> ev.expectedSeconds,
                         effective_from |-> ev.effectiveFrom]
        BY <3>2 DEF marshalData
      <4> QED
        BY <4>1
    <3> QED
      BY <2>1, <3>1, <3>2
  <2> HIDE DEF body, ev
  <2> QED
    BY <1>4, <1>5, <1>7, <2>2 DEF DataAs, ZeroData, ev
<1> QED
  BY <1>6, <1>7

\* The row chosen by the projector is that of the hour in which the work of the
\* event was done.
LEMMA KeyIs ==
    ASSUME NEW e \in Encoded
    PROVE  Increment[e].key = KeyOf(e) /\ HourOf(e) \in Int
<1> DEFINE ev == Published[e]
           msg == Message(e)
           data == DataAs(msg)
           done == IF IsTask(e) THEN ev.completedAt ELSE ev.effectiveFrom
<1>1. WellFormed(ev) /\ ev.at \in Int /\ Nullable(done, Int)
  BY EventAssumption DEF WellFormed, IsTask
<1>2. Increment[e].key = BucketOf(msg, data)
  BY DEF Increment
<1>3. BucketOf(msg, data) = RowKey(ev.taskType, orOccurredAt(done, ev.at))
  <2> HIDE DEF data, msg
  <2>1. /\ msg.type = ev.name /\ msg.time = ev.at /\ data["task_type"] = ev.taskType
        /\ IsTask(e) => data["completed_at"] = ev.completedAt
        /\ ~IsTask(e) => data["effective_from"] = ev.effectiveFrom
    BY MessageIs DEF data, msg
  <2> QED
    BY <2>1 DEF BucketOf, IsTask
<1>4. Max(done \cup {t \in {ev.at} : done = {}}) = orOccurredAt(done, ev.at)
      /\ orOccurredAt(done, ev.at) \in Int
  <2> HIDE DEF done, ev
  <2>1. CASE done = {}
    <3>1. done \cup {t \in {ev.at} : done = {}} = {ev.at}
      BY <2>1
    <3> QED
      BY <1>1, <2>1, <3>1, MaxOfOne DEF orOccurredAt
  <2>2. ASSUME NEW v \in Int, done = {v}
        PROVE  Max(done \cup {t \in {ev.at} : done = {}}) = orOccurredAt(done, ev.at)
               /\ orOccurredAt(done, ev.at) \in Int
    <3>1. done \cup {t \in {ev.at} : done = {}} = {v}
      BY <2>2
    <3>2. orOccurredAt(done, ev.at) = v
      BY <2>2 DEF orOccurredAt
    <3> QED
      BY <3>1, <3>2, MaxOfOne
  <2> QED
    BY <1>1, <2>1, <2>2, NullableCases
<1>5. HourOf(e) = HourBucket(orOccurredAt(done, ev.at))
  BY <1>4 DEF HourOf, IsTask
<1>6. HourBucket(orOccurredAt(done, ev.at)) \in Int
  <2> HIDE DEF done, ev
  <2> QED
    BY <1>4, HourAssumption DEF HourBucket
<1> QED
  BY <1>2, <1>3, <1>5, <1>6 DEF RowKey, KeyOf, TypeOf

\* The increment is what the event itself counts for.
LEMMA DeltaIs ==
    ASSUME NEW e \in Encoded
    PROVE  LET d == Increment[e].delta
               ev == Published[e]
           IN  /\ d \in [Counters -> Nat]
               /\ d["tasksRecorded"] = Flag(IsTask(e))
               /\ d["tasksScored"] = Flag(Scored(e))
               /\ d["tasksMeasured"] = Flag(Measured(e))
               /\ d["efficiencyPctSum"] = IF Scored(e) THEN SumSet(ev.efficiencyPct) ELSE 0
               /\ d["actualSecondsSum"] = IF Measured(e) THEN ev.actualSeconds ELSE 0
               /\ d["standardsDefined"] = Flag(ev.name = "LaborStandardDefined")
               /\ d["standardsRevised"] = Flag(ev.name = "LaborStandardRevised")
               /\ Scored(e) => SumSet(ev.efficiencyPct) \in Nat
               /\ Measured(e) => ev.actualSeconds \in Nat
<1> DEFINE ev == Published[e]
           msg == Message(e)
           data == DataAs(msg)
           d == Increment[e].delta
<1>1. d = Delta(msg, data)
  BY DEF Increment
<1>2. WellFormed(ev) /\ ev.name \in ProjectingTypes
  BY EventAssumption DEF WellFormed
<1>3. /\ msg.type = ev.name
      /\ IsTask(e) => /\ data["efficiency_pct"] = ev.efficiencyPct
                      /\ data["actual_seconds"] = ev.actualSeconds
  BY MessageIs
<1> HIDE DEF d, msg, data
<1>4. CASE IsTask(e)
  <2> DEFINE pct == ev.efficiencyPct
             secs == ev.actualSeconds
  <2>1. d = TaskDelta(pct, secs)
    BY <1>1, <1>3, <1>4 DEF Delta, IsTask
  <2>2. Nullable(pct, Nat) /\ secs \in Nat
    BY <1>2, <1>4 DEF WellFormed, IsTask
  <2>3. /\ Cardinality(pct) = Flag(pct # {})
        /\ SumSet(pct) \in Nat /\ (pct = {} => SumSet(pct) = 0)
    <3> HIDE DEF pct
    <3>1. CASE pct = {}
      BY <3>1, FS_EmptySet, SumOfOne DEF Flag
    <3>2. ASSUME NEW v \in Nat, pct = {v}
          PROVE  Cardinality(pct) = Flag(pct # {}) /\ SumSet(pct) \in Nat /\ pct # {}
      BY <3>2, FS_Singleton, SumOfOne DEF Flag
    <3> QED
      BY <2>2, <3>1, <3>2, NullableCases
  <2>4. /\ d \in [Counters -> Nat]
        /\ d["tasksRecorded"] = 1 /\ d["tasksScored"] = Flag(pct # {})
        /\ d["efficiencyPctSum"] = SumSet(pct)
        /\ d["tasksMeasured"] = Flag(secs > 0)
        /\ d["actualSecondsSum"] = IF secs > 0 THEN secs ELSE 0
        /\ d["standardsDefined"] = 0 /\ d["standardsRevised"] = 0
    <3> HIDE DEF pct, secs
    <3> QED
      BY <2>1, <2>2, <2>3 DEF TaskDelta, ZeroRow, Counters, Flag
  <2> QED
    BY <1>4, <2>2, <2>3, <2>4 DEF Scored, Measured, Flag, IsTask, d
<1>5. CASE ~IsTask(e)
  <2>1. ev.name = "LaborStandardDefined" \/ ev.name = "LaborStandardRevised"
    BY <1>2, <1>5 DEF ProjectingTypes, IsTask
  <2>2. CASE ev.name = "LaborStandardDefined"
    <3>1. d = StandardDefinedDelta
      BY <1>1, <1>3, <2>2 DEF Delta
    <3> QED
      BY <1>5, <2>2, <3>1 DEF StandardDefinedDelta, ZeroRow, Counters, Scored, Measured, Flag, d
  <2>3. CASE ev.name = "LaborStandardRevised"
    <3>1. d = StandardRevisedDelta
      BY <1>1, <1>3, <2>3 DEF Delta
    <3> QED
      BY <1>5, <2>3, <3>1 DEF StandardRevisedDelta, ZeroRow, Counters, Scored, Measured, Flag, d
  <2> QED
    BY <2>1, <2>2, <2>3
<1> QED
  BY <1>4, <1>5

-----------------------------------------------------------------------------

\* What every event adds to a counter.
Adds == [c \in Counters |-> [e \in Encoded |-> Increment[e].delta[c]]]

\* The row that the events E add up to.
RowOf(E) == [c \in Counters |-> SumFunctionOnSet(Adds[c], E)]

\* What an event adds to a counter is never negative.
LEMMA AddsNatural == \A c \in Counters : Natural(Adds[c], Encoded)
BY DeltaIs DEF Adds, Natural

\* Counters folded from events are natural numbers.
LEMMA RowOfType ==
    ASSUME NEW E \in SUBSET Encoded, IsFiniteSet(E)
    PROVE  RowOf(E) \in [Counters -> Nat]
BY AddsNatural, SumSteps DEF RowOf, Natural

\* A mean over a set is the sum over the count, and neither is made up.
LEMMA MeanIs ==
    ASSUME NEW E, IsFiniteSet(E), NEW n, n = Cardinality(E), NEW sum, NEW f,
           sum = SumFunctionOnSet(f, E), DOMAIN f = E
    PROVE  Mean(sum, n) = {<<SumFunction(f), m>> : m \in {Cardinality(E)} \ {0}}
<1>1. n \in Nat /\ SumFunction(f) = sum
  BY FS_CardinalityType DEF SumFunction
<1>2. CASE n = 0
  BY <1>1, <1>2 DEF Mean
<1>3. CASE n # 0
  <2>1. {Cardinality(E)} \ {0} = {n} /\ ~(n <= 0)
    BY <1>1, <1>3
  <2>2. Mean(sum, n) = {<<sum, n>>}
    BY <2>1 DEF Mean
  <2>3. {<<SumFunction(f), m>> : m \in {Cardinality(E)} \ {0}} = {<<sum, n>>}
    BY <1>1, <2>1
  <2> QED
    BY <2>2, <2>3
<1> QED
  BY <1>2, <1>3

\* What a report shows of a row is what is to be said of the events it adds up.
LEMMA SummaryIs ==
    ASSUME NEW E \in SUBSET Encoded, IsFiniteSet(E), NEW row,
           \A c \in Counters : row[c] = RowOf(E)[c]
    PROVE  Summary(row) = Reference(E)
<1> DEFINE tasks == {e \in E : IsTask(e)}
           scored == {e \in E : Scored(e)}
           measured == {e \in E : Measured(e)}
           named(n) == {e \in E : Published[e].name = n}
           pct == [e \in scored |-> SumSet(Published[e].efficiencyPct)]
           secs == [e \in measured |-> Published[e].actualSeconds]
           R == [recorded |-> Cardinality(tasks),
                 scored   |-> Cardinality(scored),
                 unscored |-> Cardinality(tasks \ scored),
                 meanEfficiencyPct |-> {<<SumFunction(pct), m>> : m \in {Cardinality(scored)} \ {0}},
                 meanActualSeconds |-> {<<SumFunction(secs), m>> : m \in {Cardinality(measured)} \ {0}},
                 defined  |-> Cardinality(named("LaborStandardDefined")),
                 revised  |-> Cardinality(named("LaborStandardRevised"))]
<1>1. Reference(E) = R
  <2>1. /\ {e \in E : Published[e].name = "TaskPerformanceRecorded"} = tasks
        /\ {e \in tasks : Published[e].efficiencyPct # {}} = scored
        /\ {e \in tasks : Published[e].actualSeconds > 0} = measured
    BY DEF IsTask, Scored, Measured
  <2> QED
    BY <2>1, Zenon DEF Reference, MeanOver
<1>2. /\ tasks \in SUBSET E /\ scored \in SUBSET tasks /\ scored \in SUBSET E /\ measured \in SUBSET E
      /\ IsFiniteSet(tasks) /\ IsFiniteSet(scored) /\ IsFiniteSet(measured)
  BY FS_Subset DEF Scored
<1>3. \A c \in Counters : /\ row[c] = SumFunctionOnSet(Adds[c], E) /\ Natural(Adds[c], E)
                           /\ \A e \in E : Adds[c][e] = Increment[e].delta[c]
  BY AddsNatural DEF RowOf, Natural, Adds
<1>4. \A e \in E :
         LET d == Increment[e].delta
         IN  /\ d["tasksRecorded"] = Flag(e \in tasks)
             /\ d["tasksScored"] = Flag(e \in scored)
             /\ d["tasksMeasured"] = Flag(e \in measured)
             /\ d["efficiencyPctSum"] = IF e \in scored THEN pct[e] ELSE 0
             /\ d["actualSecondsSum"] = IF e \in measured THEN secs[e] ELSE 0
             /\ d["standardsDefined"] = Flag(e \in named("LaborStandardDefined"))
             /\ d["standardsRevised"] = Flag(e \in named("LaborStandardRevised"))
  <2> SUFFICES ASSUME NEW e \in E
               PROVE  LET d == Increment[e].delta
                      IN  /\ d["tasksRecorded"] = Flag(e \in tasks)
                          /\ d["tasksScored"] = Flag(e \in scored)
                          /\ d["tasksMeasured"] = Flag(e \in measured)
                          /\ d["efficiencyPctSum"] = IF e \in scored THEN pct[e] ELSE 0
                          /\ d["actualSecondsSum"] = IF e \in measured THEN secs[e] ELSE 0
                          /\ d["standardsDefined"] = Flag(e \in named("LaborStandardDefined"))
                          /\ d["standardsRevised"] = Flag(e \in named("LaborStandardRevised"))
    OBVIOUS
  <2>1. /\ (e \in tasks) = IsTask(e) /\ (e \in scored) = Scored(e) /\ (e \in measured) = Measured(e)
        /\ \A n : (e \in named(n)) = (Published[e].name = n)
    BY DEF IsTask, Scored, Measured
  <2>2. /\ e \in scored => pct[e] = SumSet(Published[e].efficiencyPct)
        /\ e \in measured => secs[e] = Published[e].actualSeconds
    OBVIOUS
  <2> HIDE DEF tasks, scored, measured, named, pct, secs
  <2> QED
    BY <2>1, <2>2, DeltaIs DEF Flag
<1>5. DOMAIN pct = scored /\ DOMAIN secs = measured
  OBVIOUS
<1> HIDE DEF tasks, scored, measured, pct, secs
<1>6. ASSUME NEW c \in Counters, NEW T \in SUBSET E, \A e \in E : Increment[e].delta[c] = Flag(e \in T)
      PROVE  row[c] = Cardinality(T)
  <2> DEFINE f == Adds[c]
  <2>1. \A e \in E : f[e] = Flag(e \in T)
    BY <1>3, <1>6
  <2>2. (\A e \in T : f[e] = 1) /\ (\A e \in E \ T : f[e] = 0)
    BY <2>1 DEF Flag
  <2> HIDE DEF f
  <2>3. SumFunctionOnSet(f, E) = Cardinality(T)
    BY <2>2, SumOfFlags
  <2> QED
    BY <1>3, <2>3 DEF f
<1>7. ASSUME NEW c \in Counters, NEW T \in SUBSET E, NEW g,
             \A e \in E : Increment[e].delta[c] = IF e \in T THEN g[e] ELSE 0
      PROVE  row[c] = SumFunctionOnSet(g, T)
  <2> DEFINE f == Adds[c]
  <2>1. (\A e \in E \ T : f[e] = 0) /\ (\A e \in T : g[e] = f[e])
    BY <1>3, <1>7
  <2>2. Natural(f, E) /\ Natural(f, T) /\ IsFiniteSet(T)
    BY <1>3, FS_Subset DEF Natural
  <2> HIDE DEF f
  <2>3. SumFunctionOnSet(f, E) = SumFunctionOnSet(f, T)
    BY <2>1, <2>2, SumSupport
  <2>4. SumFunctionOnSet(g, T) = SumFunctionOnSet(f, T)
    BY <2>1, <2>2, SumAgrees
  <2> QED
    BY <1>3, <2>3, <2>4 DEF f
<1>8. /\ row["tasksRecorded"] = Cardinality(tasks)
      /\ row["tasksScored"] = Cardinality(scored)
      /\ row["tasksMeasured"] = Cardinality(measured)
      /\ row["standardsDefined"] = Cardinality(named("LaborStandardDefined"))
      /\ row["standardsRevised"] = Cardinality(named("LaborStandardRevised"))
  BY <1>2, <1>4, <1>6 DEF Counters
<1>9. /\ row["efficiencyPctSum"] = SumFunctionOnSet(pct, scored)
      /\ row["actualSecondsSum"] = SumFunctionOnSet(secs, measured)
  BY <1>2, <1>4, <1>7 DEF Counters
<1>10. TasksUnscored(row) = Cardinality(tasks \ scored)
  <2>1. Cardinality(tasks \ scored) = Cardinality(tasks) - Cardinality(scored)
    <3>1. tasks \cap scored = scored
      BY <1>2
    <3>2. Cardinality(tasks \ scored) = Cardinality(tasks) - Cardinality(tasks \cap scored)
      BY <1>2, FS_Difference
    <3> QED
      BY <3>1, <3>2
  <2>2. Cardinality(tasks \ scored) \in Nat
    BY <1>2, FS_Difference, FS_CardinalityType
  <2> QED
    BY <1>8, <2>1, <2>2 DEF TasksUnscored
<1>11. /\ Mean(row["efficiencyPctSum"], row["tasksScored"])
             = {<<SumFunction(pct), m>> : m \in {Cardinality(scored)} \ {0}}
       /\ Mean(row["actualSecondsSum"], row["tasksMeasured"])
             = {<<SumFunction(secs), m>> : m \in {Cardinality(measured)} \ {0}}
  BY <1>2, <1>5, <1>8, <1>9, MeanIs
<1> HIDE DEF named
<1>12. Summary(row) = R
  BY <1>8, <1>10, <1>11 DEF Summary
<1> QED
  BY <1>1, <1>12

-----------------------------------------------------------------------------
(***************************************************************************)
(* The loop: types, and what a projector has in hand.                      *)
(***************************************************************************)

\* TypeOK but for the rollup.
LoopTypeOK ==
    /\ log \in [Partitions -> Seq(Events)] /\ log \in Logs
    /\ owner \in [Partitions -> Projectors]
    /\ position \in [Partitions -> Nat]
    /\ committed \in [Partitions -> Nat]
    /\ consumed \subseteq Events /\ claimed \subseteq Events
    /\ pc \in [Projectors -> PcValues]
    /\ part \in [Projectors -> Partitions]
    /\ off \in [Projectors -> Nat]
    /\ faults \in 0 .. MaxFaults

Holding(p) == pc[p] \in {"fetched", "handle", "marked"}

\* No offset points beyond its partition, and a projector has a message of the
\* topic in hand, once it is marked one that moves a counter.
InHand ==
    /\ \A q \in Partitions : position[q] <= Len(log[q]) /\ committed[q] <= Len(log[q])
    /\ \A p \in Projectors :
          /\ Holding(p) => off[p] \in DOMAIN log[part[p]]
          /\ pc[p] = "marked" => isProjecting(Event(p)) /\ Event(p) \in consumed

LoopInv == LoopTypeOK /\ InHand

\* The message a projector holds is one of its partition's log.
LEMMA HeldIsEvent ==
    ASSUME LoopInv, NEW p \in Projectors, Holding(p)
    PROVE  /\ Event(p) \in Events /\ off[p] \in 1 .. Len(log[part[p]])
           /\ part[p] \in Partitions
<1>1. /\ part[p] \in Partitions /\ log[part[p]] \in Seq(Events)
      /\ off[p] \in DOMAIN log[part[p]]
  BY DEF LoopInv, LoopTypeOK, InHand
<1> QED
  BY <1>1 DEF Event

\* An event that moves a counter is one of this service, unless unreadable.
LEMMA ProjectingIs ==
    ASSUME NEW e \in Events, isProjecting(e), Kind[e] # "malformed"
    PROVE  e \in Encoded
BY DEF isProjecting, Encoded

\* Nothing is in hand initially.
LEMMA LoopStart == Init => LoopInv
<1> SUFFICES ASSUME Init
             PROVE  LoopInv
  OBVIOUS
<1>1. (CHOOSE q \in Partitions : TRUE) \in Partitions
  BY EventAssumption
<1>2. log \in [Partitions -> Seq(Events)]
  BY EventAssumption DEF Init
<1>3. \A q \in Partitions : Len(log[q]) \in Nat
  BY <1>2
<1> QED
  BY <1>1, <1>2, <1>3, EventAssumption DEF Init, LoopInv, LoopTypeOK, InHand, PcValues, Holding

\* The steps that leave offsets, assignments and messages in hand alone: those
\* of HandleMessage.
Handles(p) ==
    /\ pc[p] \in {"handle", "marked"}
    /\ UNCHANGED <<log, owner, position, committed, part, off>>
    /\ pc' \in {[pc EXCEPT ![p] = "idle"], [pc EXCEPT ![p] = "marked"]}
    /\ pc'[p] = "marked" => isProjecting(Event(p)) /\ Event(p) \in consumed'
    /\ consumed' \in {consumed, consumed \cup {Event(p)}}
    /\ \/ UNCHANGED <<claimed, rollup>>
       \/ pc[p] = "marked" /\ Kind[Event(p)] # "malformed" /\ Project(Event(p))
    /\ UNCHANGED faults \/ Fault

\* Whatever HandleMessage does with a message has this shape.
LEMMA HandleShape ==
    ASSUME LoopInv, NEW p \in Projectors,
           Skip(p) \/ MarkProcessed(p) \/ SkipConsumed(p) \/ RejectData(p) \/ Apply(p)
           \/ MarkFails(p) \/ ApplyFails(p)
    PROVE  Handles(p)
<1> USE DEF Handles, Transition, LoopInv, LoopTypeOK, kafka, database
<1>1. pc'[p] # "marked" \/ MarkProcessed(p)
  BY DEF Skip, SkipConsumed, RejectData, Apply, MarkFails, ApplyFails
<1>2. CASE Skip(p)
  BY <1>1, <1>2 DEF Skip
<1>3. CASE MarkProcessed(p)
  BY <1>3 DEF MarkProcessed
<1>4. CASE SkipConsumed(p)
  BY <1>1, <1>4 DEF SkipConsumed
<1>5. CASE RejectData(p)
  BY <1>1, <1>5 DEF RejectData
<1>6. CASE Apply(p)
  BY <1>1, <1>6 DEF Apply
<1>7. CASE MarkFails(p)
  BY <1>1, <1>7 DEF MarkFails
<1>8. CASE ApplyFails(p)
  BY <1>1, <1>8 DEF ApplyFails
<1> QED
  BY <1>2, <1>3, <1>4, <1>5, <1>6, <1>7, <1>8

\* What every step is, seen from the database.
LEMMA ProjectedBy ==
    ASSUME LoopInv, [Next]_vars
    PROVE  \/ UNCHANGED <<claimed, rollup>>
           \/ \E p \in Projectors : /\ pc[p] = "marked" /\ Event(p) \in Encoded
                                    /\ Project(Event(p))
<1>1. ASSUME NEW p \in Projectors, Handles(p)
      PROVE  UNCHANGED <<claimed, rollup>> \/ (pc[p] = "marked" /\ Event(p) \in Encoded
                                               /\ Project(Event(p)))
  BY <1>1, HeldIsEvent, ProjectingIs DEF Handles, Holding, LoopInv, InHand
<1>2. ASSUME NEW p \in Projectors, Progress(p) \/ Failure(p), ~Handles(p)
      PROVE  UNCHANGED <<claimed, rollup>>
  BY <1>2, HandleShape DEF Progress, Failure, Fetch, CommitOffset, Fenced, Restart, CommitOffsetFails,
     Crash, Rebalance, database
<1> QED
  BY <1>1, <1>2 DEF Next, AwaitMessages, vars, database

\* Failures stay within their bound.
LEMMA FaultsCounted ==
    ASSUME faults \in 0 .. MaxFaults, UNCHANGED faults \/ Fault
    PROVE  faults' \in 0 .. MaxFaults
BY EventAssumption DEF Fault

\* Types, and the message in hand, are kept by every step.
LEMMA LoopStep == LoopInv /\ [Next]_vars => LoopInv'
<1> SUFFICES ASSUME LoopInv, [Next]_vars
             PROVE  LoopInv'
  OBVIOUS
<1> USE DEF Holding
<1>0. \A q \in Partitions : Len(log[q]) \in Nat
  BY DEF LoopInv, LoopTypeOK
<1>1. /\ log \in [Partitions -> Seq(Events)] /\ log \in Logs
      /\ \A q \in Partitions : Len(log[q]) \in Nat
      /\ owner \in [Partitions -> Projectors] /\ position \in [Partitions -> Nat]
      /\ committed \in [Partitions -> Nat] /\ part \in [Projectors -> Partitions]
      /\ off \in [Projectors -> Nat] /\ pc \in [Projectors -> PcValues]
      /\ consumed \subseteq Events /\ claimed \subseteq Events
      /\ faults \in 0 .. MaxFaults /\ MaxFaults \in Nat
  BY <1>0, EventAssumption DEF LoopInv, LoopTypeOK
<1>2. /\ \A q \in Partitions : position[q] <= Len(log[q]) /\ committed[q] <= Len(log[q])
      /\ \A r \in Projectors : Holding(r) => /\ off[r] \in DOMAIN log[part[r]]
                                             /\ off[r] \in 1 .. Len(log[part[r]])
                                             /\ Event(r) \in Events
      /\ \A r \in Projectors : pc[r] = "marked" => isProjecting(Event(r)) /\ Event(r) \in consumed
  BY HeldIsEvent DEF LoopInv, InHand
<1>3. claimed' \subseteq Events
  BY <1>1, ProjectedBy DEF Project, Encoded
<1>4. CASE UNCHANGED vars
  BY <1>4 DEF vars, kafka, database, projector, LoopInv, LoopTypeOK, InHand, Event
<1>5. ASSUME NEW p \in Projectors, NEW q \in Partitions, Fetch(p, q)
      PROVE  LoopInv'
  <2>1. UNCHANGED <<log, owner, committed, consumed, claimed, faults>>
    BY <1>5 DEF Fetch, database
  <2>2. /\ position' = [position EXCEPT ![q] = position[q] + 1]
        /\ part' = [part EXCEPT ![p] = q] /\ off' = [off EXCEPT ![p] = position[q] + 1]
        /\ pc' = [pc EXCEPT ![p] = "fetched"] /\ position[q] < Len(log[q])
    BY <1>5 DEF Fetch, Transition
  <2>3. LoopTypeOK'
    <3>1. position' \in [Partitions -> Nat] /\ off' \in [Projectors -> Nat]
      <4>1. position[q] \in Nat
        BY <1>1
      <4>2. position[q] + 1 \in Nat
        BY <4>1
      <4> QED
        BY <1>1, <2>2, <4>2
    <3>2. part' \in [Projectors -> Partitions] /\ pc' \in [Projectors -> PcValues]
      BY <1>1, <2>2 DEF PcValues
    <3> QED
      BY <1>1, <2>1, <3>1, <3>2 DEF LoopTypeOK
  <2>4. position[q] + 1 \in DOMAIN log[q]
    BY <1>1, <2>2
  <2>5. /\ pc'[p] = "fetched" /\ off'[p] \in DOMAIN log'[part'[p]]
        /\ \A r \in Projectors : r # p => /\ pc'[r] = pc[r] /\ part'[r] = part[r]
                                          /\ off'[r] = off[r]
    BY <1>1, <2>1, <2>2, <2>4
  <2>6. \A x \in Partitions : position'[x] <= Len(log'[x]) /\ committed'[x] <= Len(log'[x])
    BY <1>1, <1>2, <2>1, <2>2
  <2>7. InHand'
    BY <1>2, <2>1, <2>5, <2>6 DEF InHand, Event
  <2> QED
    BY <2>3, <2>7 DEF LoopInv
<1>6. ASSUME NEW p \in Projectors, Handles(p)
      PROVE  LoopInv'
  <2>1. UNCHANGED <<log, owner, position, committed, part, off>> /\ consumed \subseteq consumed'
    BY <1>6 DEF Handles
  <2>2. \A r \in Projectors : r # p => pc'[r] = pc[r]
    BY <1>1, <1>6 DEF Handles
  <2>3. /\ pc'[p] \in {"idle", "marked"} /\ Holding(p)
        /\ pc'[p] = "marked" => isProjecting(Event(p)) /\ Event(p) \in consumed'
    BY <1>1, <1>6 DEF Handles
  <2>4. LoopTypeOK'
    <3>1. Event(p) \in Events
      BY <1>2, <2>3
    <3>2. pc' \in [Projectors -> PcValues]
      BY <1>1, <1>6 DEF Handles, PcValues
    <3>3. consumed' \subseteq Events
      BY <1>1, <1>6, <3>1 DEF Handles
    <3>4. faults' \in 0 .. MaxFaults
      BY <1>1, <1>6, FaultsCounted DEF Handles
    <3> QED
      BY <1>1, <1>3, <2>1, <3>2, <3>3, <3>4 DEF LoopTypeOK
  <2>6. \A x \in Partitions : position'[x] <= Len(log'[x]) /\ committed'[x] <= Len(log'[x])
    BY <1>2, <2>1
  <2>7. ASSUME NEW r \in Projectors
        PROVE  /\ Holding(r)' => off'[r] \in DOMAIN log'[part'[r]]
               /\ pc'[r] = "marked" => isProjecting(Event(r)') /\ Event(r)' \in consumed'
    <3>1. Event(r)' = Event(r) /\ off'[r] = off[r] /\ log'[part'[r]] = log[part[r]]
      BY <2>1 DEF Event
    <3>2. CASE r = p
      <4>1. Holding(r) /\ off[r] \in DOMAIN log[part[r]]
        BY <1>2, <2>3, <3>2
      <4>2. pc'[r] = "marked" => isProjecting(Event(r)) /\ Event(r) \in consumed'
        BY <2>3, <3>2
      <4> QED
        BY <3>1, <4>1, <4>2
    <3>3. CASE r # p
      <4>1. pc'[r] = pc[r]
        BY <2>2, <3>3
      <4>2. Holding(r) => off[r] \in DOMAIN log[part[r]]
        BY <1>2
      <4>3. pc[r] = "marked" => isProjecting(Event(r)) /\ Event(r) \in consumed
        BY <1>2
      <4> QED
        BY <2>1, <3>1, <4>1, <4>2, <4>3
    <3> QED
      BY <3>2, <3>3
  <2>8. InHand'
    BY <2>6, <2>7 DEF InHand
  <2> QED
    BY <2>4, <2>8 DEF LoopInv
<1>7. ASSUME NEW p \in Projectors,
             CommitOffset(p) \/ CommitOffsetFails(p) \/ Fenced(p) \/ Crash(p) \/ Restart(p)
             \/ (\E q \in Partitions : Rebalance(p, q))
      PROVE  LoopInv'
  <2>1. UNCHANGED <<log, part, off, consumed>>
    BY <1>7 DEF CommitOffset, CommitOffsetFails, Fenced, Crash, Restart, Rebalance, kafka, database,
               projector
  <2>2. /\ \/ UNCHANGED committed
           \/ Holding(p) /\ committed' = [committed EXCEPT ![part[p]] = off[p]]
        /\ UNCHANGED faults \/ Fault
        /\ owner' = owner \/ \E q \in Partitions : owner' = [owner EXCEPT ![q] = p]
    BY <1>7 DEF CommitOffset, CommitOffsetFails, Fenced, Crash, Restart, Rebalance, kafka, database,
               projector, Transition
  <2>3. \/ UNCHANGED position
        \/ position' = [q \in Partitions |-> IF owner[q] = p THEN committed[q] ELSE position[q]]
        \/ \E q \in Partitions : position' = [position EXCEPT ![q] = committed[q]]
    BY <1>7 DEF CommitOffset, CommitOffsetFails, Fenced, Crash, Restart, Rebalance, kafka
  <2>4. pc' = pc \/ (\E v \in {"idle", "down"} : pc' = [pc EXCEPT ![p] = v])
                 \/ (pc[p] = "fetched" /\ pc' = [pc EXCEPT ![p] = "handle"])
    BY <1>7 DEF CommitOffset, CommitOffsetFails, Fenced, Crash, Restart, Rebalance, Transition,
               projector
  <2>5. /\ committed' \in [Partitions -> Nat]
        /\ \A x \in Partitions : committed'[x] <= Len(log'[x])
    <3>1. CASE UNCHANGED committed
      BY <1>1, <1>2, <2>1, <3>1
    <3>2. CASE Holding(p) /\ committed' = [committed EXCEPT ![part[p]] = off[p]]
      <4>1. /\ part[p] \in Partitions /\ off[p] \in Nat
            /\ Len(log[part[p]]) \in Nat /\ off[p] \in 1 .. Len(log[part[p]])
        BY <1>1, <1>2, <3>2
      <4>2. off[p] <= Len(log[part[p]])
        BY <4>1
      <4>3. committed' \in [Partitions -> Nat]
        BY <1>1, <3>2, <4>1
      <4>4. \A x \in Partitions : committed'[x] = IF x = part[p] THEN off[p] ELSE committed[x]
        BY <1>1, <3>2
      <4> QED
        BY <1>2, <2>1, <4>2, <4>3, <4>4
    <3> QED
      BY <2>2, <3>1, <3>2
  <2>6. /\ position' \in [Partitions -> Nat]
        /\ \A x \in Partitions : position'[x] <= Len(log'[x])
    <3>1. CASE UNCHANGED position
      BY <1>1, <1>2, <2>1, <3>1
    <3>2. CASE position' = [q \in Partitions |-> IF owner[q] = p THEN committed[q] ELSE position[q]]
      BY <1>1, <1>2, <2>1, <3>2
    <3>3. ASSUME NEW q \in Partitions, position' = [position EXCEPT ![q] = committed[q]]
          PROVE  /\ position' \in [Partitions -> Nat]
                 /\ \A x \in Partitions : position'[x] <= Len(log'[x])
      BY <1>1, <1>2, <2>1, <3>3
    <3> QED
      BY <2>3, <3>1, <3>2, <3>3
  <2>7. /\ pc' \in [Projectors -> PcValues]
        /\ \A r \in Projectors : /\ Holding(r)' => Holding(r)
                                 /\ pc'[r] = "marked" => pc[r] = "marked"
    BY <1>1, <2>4 DEF PcValues
  <2>8. owner' \in [Partitions -> Projectors] /\ faults' \in 0 .. MaxFaults
    <3>1. owner \in [Partitions -> Projectors] /\ faults \in 0 .. MaxFaults
      BY <1>1
    <3>2. \A q \in Partitions : [owner EXCEPT ![q] = p] \in [Partitions -> Projectors]
      BY <3>1
    <3>3. owner' \in [Partitions -> Projectors]
      BY <2>2, <3>1, <3>2
    <3> QED
      BY <2>2, <3>1, <3>3, FaultsCounted
  <2>9. LoopTypeOK'
    BY <1>1, <1>3, <2>1, <2>5, <2>6, <2>7, <2>8 DEF LoopTypeOK, LoopInv
  <2>10. InHand'
    BY <1>2, <2>1, <2>5, <2>6, <2>7 DEF InHand, Event
  <2> QED
    BY <2>9, <2>10 DEF LoopInv
<1> QED
  BY <1>4, <1>5, <1>6, <1>7, HandleShape DEF Next, Progress, Failure, AwaitMessages

-----------------------------------------------------------------------------
(***************************************************************************)
(* The rollup: every row is what the claimed events of its key add up to.  *)
(***************************************************************************)

ClaimedAt(k) == {e \in claimed : KeyOf(e) = k}

RollupInv ==
    /\ claimed \subseteq Encoded /\ IsFiniteSet(claimed)
    /\ DOMAIN rollup = {KeyOf(e) : e \in claimed}
    /\ \A k \in DOMAIN rollup : rollup[k] = RowOf(ClaimedAt(k))

\* One event more adds its increment to a row.
LEMMA RowOfMore ==
    ASSUME NEW E \in SUBSET Encoded, IsFiniteSet(E), NEW e \in Encoded \ E, NEW c \in Counters
    PROVE  RowOf(E \cup {e})[c] = RowOf(E)[c] + Increment[e].delta[c]
<1> DEFINE F == E \cup {e}
           f == Adds[c]
<1>1. IsFiniteSet(F) /\ F \in SUBSET Encoded /\ F \in SUBSET F /\ e \in F /\ F \ {e} = E
  BY FS_AddElement
<1>2. Natural(f, F) /\ Natural(f, E) /\ f[e] = Increment[e].delta[c] /\ f[e] \in Nat
  BY <1>1, AddsNatural DEF Natural, Adds
<1> HIDE DEF F, f
<1>3. SumFunctionOnSet(f, F) = f[e] + SumFunctionOnSet(f, F \ {e})
  BY <1>1, <1>2, SumSteps
<1>4. SumFunctionOnSet(f, E) \in Nat
  BY <1>2, SumSteps
<1>5. RowOf(F)[c] = SumFunctionOnSet(f, F) /\ RowOf(E)[c] = SumFunctionOnSet(f, E)
  BY DEF RowOf, f
<1>6. RowOf(F)[c] = RowOf(E)[c] + Increment[e].delta[c]
  BY <1>1, <1>2, <1>3, <1>4, <1>5
<1> QED
  BY <1>6 DEF F

\* No event, no count.
LEMMA RowOfNothing == \A c \in Counters : RowOf({})[c] = 0
<1> SUFFICES ASSUME NEW c \in Counters
             PROVE  SumFunctionOnSet(Adds[c], {}) = 0
  BY DEF RowOf
<1>1. Natural(Adds[c], {}) /\ IsFiniteSet({})
  BY FS_EmptySet DEF Natural
<1> QED
  BY <1>1, SumSteps

\* An empty rollup counts no event.
LEMMA RollupStart == Init => RollupInv
BY FS_EmptySet DEF Init, RollupInv

\* Folding a claimed event into the row of its key is all that changes the
\* rollup.
LEMMA RollupStep == LoopInv /\ RollupInv /\ [Next]_vars => RollupInv'
<1> SUFFICES ASSUME LoopInv, RollupInv, [Next]_vars
             PROVE  RollupInv'
  OBVIOUS
<1>1. CASE UNCHANGED <<claimed, rollup>>
  BY <1>1 DEF RollupInv, ClaimedAt
<1>2. ASSUME NEW e \in Encoded, e \notin claimed, claimed' = claimed \cup {e},
             rollup' = Upsert(rollup, Increment[e].key, Increment[e].delta)
      PROVE  RollupInv'
  <2> DEFINE key == KeyOf(e)
             d == Increment[e].delta
             D == DOMAIN rollup
  <2>1. Increment[e].key = key /\ d \in [Counters -> Nat]
    BY KeyIs, DeltaIs
  <2>2. claimed \subseteq Encoded /\ IsFiniteSet(claimed) /\ D = {KeyOf(x) : x \in claimed}
        /\ \A k \in D : rollup[k] = RowOf(ClaimedAt(k))
    BY DEF RollupInv
  <2>3. claimed' \subseteq Encoded /\ IsFiniteSet(claimed')
    BY <1>2, <2>2, FS_AddElement
  <2>4. ClaimedAt(key)' = ClaimedAt(key) \cup {e} /\ e \notin ClaimedAt(key)
    BY <1>2 DEF ClaimedAt
  <2>5. \A k : k # key => ClaimedAt(k)' = ClaimedAt(k)
    BY <1>2 DEF ClaimedAt
  <2>6. \A k : /\ ClaimedAt(k) \in SUBSET Encoded /\ IsFiniteSet(ClaimedAt(k))
               /\ k \notin D => ClaimedAt(k) = {}
    <3> SUFFICES ASSUME NEW k
                 PROVE  /\ ClaimedAt(k) \in SUBSET Encoded /\ IsFiniteSet(ClaimedAt(k))
                        /\ k \notin D => ClaimedAt(k) = {}
      OBVIOUS
    <3>1. ClaimedAt(k) \in SUBSET claimed
      BY DEF ClaimedAt
    <3> QED
      BY <2>2, <3>1, FS_Subset DEF ClaimedAt
  <2> HIDE DEF key, d, D
  <2>7. rollup' = [k \in D \cup {key} |->
                     [c \in Counters |-> (IF k \in D THEN rollup[k][c] ELSE 0)
                                         + (IF k = key THEN d[c] ELSE 0)]]
    BY <1>2, <2>1 DEF Upsert, d, D
  <2>8. DOMAIN rollup' = {KeyOf(x) : x \in claimed'}
    <3>1. DOMAIN rollup' = D \cup {key}
      BY <2>7
    <3> QED
      BY <1>2, <2>2, <3>1 DEF key
  <2>9. ASSUME NEW k \in D \cup {key}
        PROVE  rollup'[k] = RowOf(ClaimedAt(k)')
    <3> DEFINE F == ClaimedAt(k)
               G == ClaimedAt(k)'
    <3>1. \A c \in Counters : (IF k \in D THEN rollup[k][c] ELSE 0) = RowOf(F)[c]
      BY <2>2, <2>6, RowOfNothing
    <3>2. \A c \in Counters : RowOf(F)[c] \in Nat /\ d[c] \in Nat
      BY <2>1, <2>6, RowOfType
    <3>3. \A c \in Counters : RowOf(G)[c] = RowOf(F)[c] + (IF k = key THEN d[c] ELSE 0)
      <4>1. CASE k = key
        <5>1. G = F \cup {e} /\ e \in Encoded \ F /\ F \in SUBSET Encoded /\ IsFiniteSet(F)
          BY <2>4, <2>6, <4>1
        <5> HIDE DEF F, G
        <5>2. \A c \in Counters : RowOf(F \cup {e})[c] = RowOf(F)[c] + d[c]
          BY <5>1, RowOfMore DEF d
        <5> QED
          BY <4>1, <5>1, <5>2
      <4>2. CASE k # key
        <5>1. G = F
          BY <2>5, <4>2
        <5> HIDE DEF F, G
        <5> QED
          BY <3>2, <4>2, <5>1
      <4> QED
        BY <4>1, <4>2
    <3>4. RowOf(G) = [c \in Counters |-> RowOf(G)[c]]
      BY DEF RowOf
    <3>5. rollup'[k] = [c \in Counters |-> (IF k \in D THEN rollup[k][c] ELSE 0)
                                           + (IF k = key THEN d[c] ELSE 0)]
      BY <2>7
    <3> HIDE DEF F, G
    <3>6. rollup'[k] = [c \in Counters |-> RowOf(G)[c]]
      BY <3>1, <3>3, <3>5
    <3> QED
      BY <3>4, <3>6 DEF G
  <2>10. \A k \in DOMAIN rollup' : rollup'[k] = RowOf(ClaimedAt(k)')
    BY <2>7, <2>9
  <2> QED
    BY <2>3, <2>8, <2>10 DEF RollupInv
<1>3. ASSUME NEW e \in Encoded, Project(e)
      PROVE  RollupInv'
  BY <1>1, <1>2, <1>3 DEF Project
<1> QED
  BY <1>1, <1>3, ProjectedBy

\* Hence both hold in every reachable state.
LEMMA RollupAlways == Spec => [](LoopInv /\ RollupInv)
<1>1. Init => LoopInv /\ RollupInv
  BY LoopStart, RollupStart
<1>2. LoopInv /\ RollupInv /\ [Next]_vars => (LoopInv /\ RollupInv)'
  BY LoopStep, RollupStep
<1> QED
  BY <1>1, <1>2, PTL DEF Spec

\* Everything the projectors keep is of its type: the rows are keyed by the
\* hours and task types of events, and no counter is ever negative.
THEOREM ProjectorTypeCorrect == Spec => []TypeOK
<1>1. LoopInv /\ RollupInv => TypeOK
  <2> SUFFICES ASSUME LoopInv, RollupInv
               PROVE  DOMAIN rollup \subseteq RowKeys
                      /\ \A k \in DOMAIN rollup : rollup[k] \in [Counters -> Nat]
    BY DEF TypeOK, LoopInv, LoopTypeOK
  <2>1. DOMAIN rollup \subseteq RowKeys
    BY KeyIs DEF RollupInv, RowKeys
  <2>2. ASSUME NEW k \in DOMAIN rollup
        PROVE  rollup[k] \in [Counters -> Nat]
    <3>1. ClaimedAt(k) \in SUBSET claimed
      BY DEF ClaimedAt
    <3>2. ClaimedAt(k) \in SUBSET Encoded /\ IsFiniteSet(ClaimedAt(k))
      BY <3>1, FS_Subset DEF RollupInv
    <3> QED
      BY <3>2, RowOfType DEF RollupInv
  <2> QED
    BY <2>1, <2>2
<1> QED
  BY <1>1, RollupAlways, PTL

-----------------------------------------------------------------------------
(***************************************************************************)
(* The report.                                                             *)
(***************************************************************************)

\* Rows added up are their events added up.
LEMMA MergeIs ==
    ASSUME RollupInv, NEW E \in SUBSET claimed, NEW keys, keys = {KeyOf(e) : e \in E},
           \A k \in keys : ClaimedAt(k) \subseteq E
    PROVE  \A c \in Counters : Merge(rollup, keys)[c] = RowOf(E)[c]
<1> SUFFICES ASSUME NEW c \in Counters
             PROVE  Merge(rollup, keys)[c] = RowOf(E)[c]
  OBVIOUS
<1> DEFINE key == [e \in E |-> KeyOf(e)]
           h == [k \in keys |-> rollup[k][c]]
           f == Adds[c]
<1>1. IsFiniteSet(E) /\ E \in SUBSET Encoded
  BY FS_Subset DEF RollupInv
<1>2. Natural(f, E)
  BY <1>1, AddsNatural DEF Natural
<1>3. key \in [E -> keys] /\ \A e \in E : key[e] = KeyOf(e)
  OBVIOUS
<1>4. IsFiniteSet(keys)
  <2>1. key \in Surjection(E, keys)
    BY DEF Surjection
  <2> QED
    BY <1>1, <2>1, FS_Surjection
<1>5. ASSUME NEW k \in keys
      PROVE  h[k] = SumFunctionOnSet(f, {e \in E : key[e] = k})
  <2>1. {e \in E : key[e] = k} = ClaimedAt(k)
    BY DEF ClaimedAt
  <2>2. k \in DOMAIN rollup /\ rollup[k] = RowOf(ClaimedAt(k))
    BY DEF RollupInv
  <2>3. h[k] = rollup[k][c] /\ RowOf(ClaimedAt(k))[c] = SumFunctionOnSet(f, ClaimedAt(k))
    BY DEF RowOf
  <2> HIDE DEF h, f, key
  <2> QED
    BY <2>1, <2>2, <2>3
<1>6. Merge(rollup, keys)[c] = SumFunctionOnSet(h, keys)
  BY DEF Merge, SumFunction
<1>7. RowOf(E)[c] = SumFunctionOnSet(f, E)
  BY DEF RowOf
<1> HIDE DEF key, h, f
<1>8. SumsGroups(h, f, E, keys, key)
  BY <1>3, <1>5 DEF SumsGroups
<1>9. SumFunctionOnSet(h, keys) = SumFunctionOnSet(f, E)
  BY <1>1, <1>2, <1>4, <1>8, SumOfGroups
<1> QED
  BY <1>6, <1>7, <1>9

\* The report says what the claimed events of the window [from, to) say.
Says(report, from, to, filter) ==
    LET inWindow == {e \in claimed : /\ from <= HourOf(e) /\ HourOf(e) < to
                                     /\ filter \in {"", TypeOf(e)}}
    IN  /\ report.totals = Reference(inWindow)
        /\ report.rows =
              [k \in {KeyOf(e) : e \in inWindow} |->
                  Reference({e \in inWindow : TypeOf(e) = k.taskType /\ HourOf(e) = k.hour})]
        /\ report.byTaskType =
              [t \in {TypeOf(e) : e \in inWindow} |->
                  Reference({e \in inWindow : TypeOf(e) = t})]

\* The answer to one request.
LEMMA ReportIs ==
    ASSUME RollupInv, NEW from \in Int, NEW to \in Int, NEW filter
    PROVE  Says(Report(rollup, from, to, filter), from, to, filter)
<1> DEFINE inWindow == {e \in claimed : /\ from <= HourOf(e) /\ HourOf(e) < to
                                        /\ filter \in {"", TypeOf(e)}}
           report == Report(rollup, from, to, filter)
           keys == Select(rollup, from, to, filter)
           types == {k.taskType : k \in keys}
           keysOf(t) == {k \in keys : k.taskType = t}
           of(t) == {e \in inWindow : TypeOf(e) = t}
<1>1. /\ report.totals = Summary(Merge(rollup, keys))
      /\ report.rows = [k \in keys |-> Summary(rollup[k])]
      /\ report.byTaskType = [t \in types |-> Summary(Merge(rollup, keysOf(t)))]
  BY DEF Report
<1> HIDE DEF report
<1>2. \A e \in claimed : KeyOf(e).taskType = TypeOf(e) /\ KeyOf(e).hour = HourOf(e)
  BY DEF KeyOf
<1>3. \A k \in DOMAIN rollup : /\ \E e \in claimed : k = KeyOf(e)
                              /\ k = [taskType |-> k.taskType, hour |-> k.hour]
  BY DEF RollupInv, KeyOf
<1>4. keys = {KeyOf(e) : e \in inWindow}
  <2>1. \A k \in DOMAIN rollup :
           k \in keys <=> /\ from <= k.hour /\ k.hour < to
                          /\ filter \in {"", k.taskType}
    BY DEF Select
  <2>2. keys \subseteq DOMAIN rollup /\ \A e \in claimed : KeyOf(e) \in DOMAIN rollup
    BY DEF Select, RollupInv
  <2> HIDE DEF keys
  <2>3. ASSUME NEW e \in claimed
        PROVE  KeyOf(e) \in keys <=> e \in inWindow
    BY <1>2, <2>1, <2>2
  <2>4. ASSUME NEW k \in keys
        PROVE  k \in {KeyOf(e) : e \in inWindow}
    <3>1. PICK e \in claimed : k = KeyOf(e)
      BY <1>3, <2>2
    <3> HIDE DEF inWindow
    <3> QED
      BY <2>3, <3>1
  <2>5. ASSUME NEW e \in inWindow
        PROVE  KeyOf(e) \in keys
    BY <2>3
  <2> HIDE DEF inWindow
  <2> QED
    BY <2>4, <2>5
<1>5. \A k \in keys : ClaimedAt(k) \subseteq inWindow
  BY <1>4, <1>2 DEF ClaimedAt
<1>6. types = {TypeOf(e) : e \in inWindow}
  <2>1. inWindow \subseteq claimed
    OBVIOUS
  <2> HIDE DEF inWindow, keys
  <2> QED
    BY <1>2, <1>4, <2>1
<1>7. ASSUME NEW E \in SUBSET claimed, NEW row, \A c \in Counters : row[c] = RowOf(E)[c]
      PROVE  Summary(row) = Reference(E)
  <2>1. E \in SUBSET Encoded /\ IsFiniteSet(E)
    BY FS_Subset DEF RollupInv
  <2> QED
    BY <1>7, <2>1, SummaryIs
<1>8. report.totals = Reference(inWindow)
  <2>1. inWindow \in SUBSET claimed
    OBVIOUS
  <2> HIDE DEF inWindow, keys
  <2>2. \A c \in Counters : Merge(rollup, keys)[c] = RowOf(inWindow)[c]
    BY <1>4, <1>5, <2>1, MergeIs
  <2> QED
    BY <1>1, <1>7, <2>1, <2>2
<1>9. ASSUME NEW k \in keys
      PROVE  Summary(rollup[k]) = Reference({e \in inWindow : TypeOf(e) = k.taskType /\ HourOf(e) = k.hour})
  <2>1. k \in DOMAIN rollup /\ rollup[k] = RowOf(ClaimedAt(k)) /\ ClaimedAt(k) \in SUBSET claimed
    BY DEF RollupInv, Select, ClaimedAt
  <2>2. {e \in inWindow : TypeOf(e) = k.taskType /\ HourOf(e) = k.hour} = ClaimedAt(k)
    <3>1. inWindow \subseteq claimed /\ ClaimedAt(k) \subseteq inWindow
      BY <1>5
    <3>2. \A e \in claimed : KeyOf(e) = k <=> TypeOf(e) = k.taskType /\ HourOf(e) = k.hour
      BY <1>3, <2>1 DEF KeyOf
    <3> HIDE DEF inWindow, keys
    <3> QED
      BY <3>1, <3>2 DEF ClaimedAt
  <2>3. Summary(rollup[k]) = Reference(ClaimedAt(k))
    BY <1>7, <2>1
  <2> HIDE DEF inWindow, keys
  <2> QED
    BY <2>2, <2>3
<1>10. ASSUME NEW t \in types
       PROVE  Summary(Merge(rollup, keysOf(t))) = Reference(of(t))
  <2>1. of(t) \in SUBSET claimed /\ of(t) \in SUBSET inWindow /\ inWindow \in SUBSET claimed
    OBVIOUS
  <2>2. keysOf(t) = {KeyOf(e) : e \in of(t)}
    <3>1. \A e \in inWindow : KeyOf(e).taskType = TypeOf(e)
      BY <1>2
    <3> HIDE DEF inWindow, keys
    <3> QED
      BY <1>4, <3>1
  <2>3. \A k \in keysOf(t) : ClaimedAt(k) \subseteq of(t)
    <3> HIDE DEF inWindow, keys
    <3> QED
      BY <1>2, <1>5, <2>1 DEF ClaimedAt
  <2> HIDE DEF of, keysOf, inWindow, keys
  <2>4. \A c \in Counters : Merge(rollup, keysOf(t))[c] = RowOf(of(t))[c]
    BY <2>1, <2>2, <2>3, MergeIs
  <2> QED
    BY <1>7, <2>1, <2>4
<1> HIDE DEF inWindow, keys, types, keysOf
<1>11. report.rows =
          [k \in {KeyOf(e) : e \in inWindow} |->
              Reference({e \in inWindow : TypeOf(e) = k.taskType /\ HourOf(e) = k.hour})]
  BY <1>1, <1>4, <1>9
<1>12. report.byTaskType = [t \in {TypeOf(e) : e \in inWindow} |-> Reference(of(t))]
  <2> HIDE DEF of
  <2> QED
    BY <1>1, <1>6, <1>10
<1> QED
  BY <1>8, <1>11, <1>12 DEF Says, report, inWindow

\* A report says of its window what the projected domain events say: encoding,
\* decoding, the order and the repetition of deliveries and the rollup by hour
\* and task type lose nothing and add nothing.
THEOREM ReportsMatchEvents == Spec => []ReportMatchesEvents
<1>1. ASSUME RollupInv
      PROVE  ReportMatchesEvents
  <2> SUFFICES ASSUME NEW q \in Requests, NEW report \in GetPerformanceReport(rollup, q)
               PROVE  Max(q.from) < Max(q.to) /\ Says(report, Max(q.from), Max(q.to), q.taskType)
    BY Zenon DEF ReportMatchesEvents, Says, TypeOf, KeyOf
  <2>1. PICK u \in q.from, v \in q.to : u < v /\ report = Report(rollup, u, v, q.taskType)
    BY DEF GetPerformanceReport
  <2>2. Nullable(q.from, Int) /\ Nullable(q.to, Int)
    BY EventAssumption
  <2>3. q.from = {u} /\ q.to = {v} /\ u \in Int /\ v \in Int
    BY <2>1, <2>2 DEF Nullable
  <2>4. Max(q.from) = u /\ Max(q.to) = v
    BY <2>3, MaxOfOne
  <2> QED
    BY <1>1, <2>1, <2>3, <2>4, ReportIs
<1> QED
  BY <1>1, RollupAlways, PTL

-----------------------------------------------------------------------------
(***************************************************************************)
(* Loss.  Every failure is charged with the event in hand when it struck;  *)
(* all other events behind a committed offset are in the rollup or about   *)
(* to be.                                                                  *)
(***************************************************************************)

\* Event e is not owed to the rollup, is in it, is charged to a failure, or is
\* in the hands of a projector that has committed past it.
Settled(e, charged) ==
    \/ e \notin Encoded \/ e \in claimed \/ e \in charged
    \/ \E p \in Projectors : pc[p] \in {"handle", "marked"} /\ Event(p) = e

CommittedSettled(charged) ==
    \A q \in Partitions : \A i \in 1 .. committed[q] : Settled(log[q][i], charged)

\* So is all that comes before a message in hand,
EarlierSettled(charged) ==
    \A p \in Projectors : Holding(p) =>
        \A i \in Nat : 1 <= i /\ i < off[p] => Settled(log[part[p]][i], charged)

\* all that a live reader has fetched but the message it has yet to commit,
FetchedSettled(charged) ==
    \A q \in Partitions : pc[owner[q]] # "down" =>
        \A i \in 1 .. position[q] :
            \/ Settled(log[q][i], charged)
            \/ pc[owner[q]] = "fetched" /\ part[owner[q]] = q /\ off[owner[q]] = i

\* and all that is marked consumed, which nobody will apply again.
ConsumedSettled(charged) ==
    \A e \in consumed \cap Encoded :
        \/ e \in claimed \/ e \in charged
        \/ \E p \in Projectors : pc[p] = "marked" /\ Event(p) = e

Accounted(charged) ==
    /\ CommittedSettled(charged) /\ EarlierSettled(charged)
    /\ FetchedSettled(charged) /\ ConsumedSettled(charged)

LossInv ==
    \E charged \in SUBSET Events :
        IsFiniteSet(charged) /\ Cardinality(charged) <= faults /\ Accounted(charged)

\* Nothing is lost initially.
LEMMA LossStart == Init => LossInv
<1> SUFFICES ASSUME Init
             PROVE  LossInv
  OBVIOUS
<1>1. Accounted({})
  BY DEF Init, Accounted, CommittedSettled, EarlierSettled, FetchedSettled, ConsumedSettled, Holding
<1> QED
  BY <1>1, FS_EmptySet DEF Init, LossInv

\* What projector p holds aside, no step unsettles an event.
LEMMA SettledStays ==
    ASSUME NEW p \in Projectors, NEW C, NEW D, C \subseteq D, claimed \subseteq claimed', log' = log,
           \A r \in Projectors : r # p => /\ pc'[r] = pc[r] /\ part'[r] = part[r]
                                         /\ off'[r] = off[r],
           NEW mine, mine = Event(p), pc[p] \in {"handle", "marked"} => Settled(mine, D)',
           NEW e, Settled(e, C)
    PROVE  Settled(e, D)'
<1>1. CASE e \notin Encoded \/ e \in claimed \/ e \in C
  BY <1>1 DEF Settled
<1>2. ASSUME NEW r \in Projectors, pc[r] \in {"handle", "marked"}, Event(r) = e
      PROVE  Settled(e, D)'
  <2>1. CASE r = p
    BY <1>2, <2>1
  <2>2. CASE r # p
    <3>1. Event(r)' = Event(r)
      BY <2>2 DEF Event
    <3> QED
      BY <1>2, <2>2, <3>1 DEF Settled
  <2> QED
    BY <2>1, <2>2
<1> QED
  BY <1>1, <1>2 DEF Settled

\* A step of HandleMessage accounts for every event if it does for the one in
\* hand.
LEMMA HandledAccounted ==
    ASSUME LoopInv, NEW p \in Projectors, Handles(p), NEW C, NEW D, C \subseteq D, Accounted(C),
           NEW mine, mine = Event(p), Settled(mine, D)', ConsumedSettled(D)'
    PROVE  Accounted(D)'
<1>1. /\ UNCHANGED <<log, owner, position, committed, part, off>>
      /\ pc[p] \in {"handle", "marked"} /\ pc'[p] \in {"idle", "marked"}
      /\ \A r \in Projectors : r # p => pc'[r] = pc[r]
      /\ pc \in [Projectors -> PcValues] /\ owner \in [Partitions -> Projectors]
  BY DEF Handles, LoopInv, LoopTypeOK
<1>2. claimed \subseteq claimed'
  BY DEF Handles, Project
<1>4. ASSUME NEW e, Settled(e, C)
      PROVE  Settled(e, D)'
  BY <1>1, <1>2, <1>4, SettledStays
<1>5. CommittedSettled(D)'
  BY <1>1, <1>4 DEF Accounted, CommittedSettled
<1>6. EarlierSettled(D)'
  <2>1. \A r \in Projectors : Holding(r)' => Holding(r)
    BY <1>1 DEF Holding
  <2> QED
    BY <1>1, <1>4, <2>1 DEF Accounted, EarlierSettled
<1>7. FetchedSettled(D)'
  <2> SUFFICES ASSUME NEW q \in Partitions, pc'[owner[q]] # "down", NEW i \in 1 .. position[q],
                      ~(pc'[owner[q]] = "fetched" /\ part[owner[q]] = q /\ off[owner[q]] = i)
               PROVE  Settled(log[q][i], D)'
    BY <1>1 DEF FetchedSettled
  <2>1. pc[owner[q]] # "down"
        /\ ~(pc[owner[q]] = "fetched" /\ part[owner[q]] = q /\ off[owner[q]] = i)
    BY <1>1
  <2>2. Settled(log[q][i], C)
    BY <2>1 DEF Accounted, FetchedSettled
  <2> QED
    BY <1>1, <1>4, <2>2
<1> QED
  BY <1>5, <1>6, <1>7 DEF Accounted

\* A message in hand is charged to the failure that strikes it.
LEMMA ChargeTo ==
    ASSUME NEW C \in SUBSET Events, IsFiniteSet(C), Cardinality(C) <= faults, faults \in Nat, Fault,
           NEW mine \in Events
    PROVE  /\ C \cup {mine} \in SUBSET Events /\ IsFiniteSet(C \cup {mine})
           /\ Cardinality(C \cup {mine}) <= faults' /\ Cardinality(C) <= faults'
<1>1. IsFiniteSet(C \cup {mine}) /\ Cardinality(C \cup {mine}) <= Cardinality(C) + 1
  <2>1. Cardinality(C) \in Nat
    BY FS_CardinalityType
  <2>2. Cardinality(C \cup {mine}) = IF mine \in C THEN Cardinality(C) ELSE Cardinality(C) + 1
    BY FS_AddElement
  <2>3. IsFiniteSet(C \cup {mine})
    BY FS_AddElement
  <2> QED
    BY <2>1, <2>2, <2>3
<1>2. faults' = faults + 1 /\ Cardinality(C) \in Nat /\ Cardinality(C \cup {mine}) \in Nat
  BY <1>1, FS_CardinalityType DEF Fault
<1> QED
  BY <1>1, <1>2

\* What is still owed of the consumed events, when p leaves event mine.
LEMMA ConsumedStays ==
    ASSUME LoopInv, NEW p \in Projectors, Handles(p), NEW C, NEW D, C \subseteq D, Accounted(C),
           NEW mine, mine = Event(p),
           mine \in Encoded /\ mine \in consumed' =>
               mine \in claimed' \/ mine \in D \/ pc'[p] = "marked"
               \/ (mine \in consumed /\ pc[p] = "handle")
    PROVE  ConsumedSettled(D)'
<1>1. /\ UNCHANGED <<log, part, off>> /\ consumed' \subseteq consumed \cup {mine}
      /\ \A r \in Projectors : r # p => pc'[r] = pc[r]
      /\ claimed \subseteq claimed' /\ pc \in [Projectors -> PcValues]
  BY DEF Handles, Project, LoopInv, LoopTypeOK
<1>2. \A r \in Projectors : Event(r)' = Event(r)
  BY <1>1 DEF Event
<1> SUFFICES ASSUME NEW e \in Encoded, e \in consumed'
             PROVE  \/ e \in claimed' \/ e \in D
                    \/ \E r \in Projectors : pc'[r] = "marked" /\ Event(r)' = e
  BY DEF ConsumedSettled
<1>3. CASE e = mine /\ (e \in claimed' \/ e \in D \/ pc'[p] = "marked")
  BY <1>2, <1>3
<1>4. ASSUME e \in consumed, e = mine => pc[p] = "handle"
      PROVE  \/ e \in claimed' \/ e \in D
             \/ \E r \in Projectors : pc'[r] = "marked" /\ Event(r)' = e
  <2>1. CASE e \in claimed \/ e \in C
    BY <1>1, <2>1
  <2>2. ASSUME NEW r \in Projectors, pc[r] = "marked", Event(r) = e
        PROVE  \E x \in Projectors : pc'[x] = "marked" /\ Event(x)' = e
    <3>1. r # p
      BY <1>4, <2>2
    <3> QED
      BY <1>1, <1>2, <2>2, <3>1
  <2> QED
    BY <1>4, <2>1, <2>2 DEF Accounted, ConsumedSettled
<1> QED
  BY <1>1, <1>3, <1>4

\* HandleMessage loses nothing but by a failure, which is charged with the
\* message in hand.
LEMMA HandleLoss ==
    ASSUME LoopInv, LossInv, NEW p \in Projectors, Handles(p),
           Skip(p) \/ MarkProcessed(p) \/ SkipConsumed(p) \/ RejectData(p) \/ Apply(p)
           \/ MarkFails(p) \/ ApplyFails(p)
    PROVE  LossInv'
<1> USE DEF Transition
<1>1. PICK C \in SUBSET Events : IsFiniteSet(C) /\ Cardinality(C) <= faults /\ Accounted(C)
  BY DEF LossInv
<1>2. PICK mine : mine = Event(p)
  OBVIOUS
<1>3. mine \in Events /\ faults \in Nat /\ pc \in [Projectors -> PcValues]
  <2>1. Holding(p)
    BY DEF Handles, Holding
  <2>2. mine \in Events
    BY <1>2, <2>1, HeldIsEvent
  <2>3. faults \in 0 .. MaxFaults /\ MaxFaults \in Nat
    BY EventAssumption DEF LoopInv, LoopTypeOK
  <2> QED
    BY <2>2, <2>3 DEF LoopInv, LoopTypeOK
<1>4. Event(p)' = mine
  BY <1>2 DEF Handles, Event
<1>5. ASSUME UNCHANGED faults, Settled(mine, C)', ConsumedSettled(C)'
      PROVE  LossInv'
  <2>1. Accounted(C)'
    BY <1>1, <1>2, <1>5, HandledAccounted
  <2> QED
    BY <1>1, <1>5, <2>1 DEF LossInv
<1>6. CASE Skip(p)
  <2>1. mine \notin Encoded
    BY <1>2, <1>6, MessageIs, EventAssumption DEF Skip, isProjecting, Encoded, WellFormed
  <2>2. Settled(mine, C)'
    BY <2>1 DEF Settled
  <2>3. ConsumedSettled(C)'
    BY <1>1, <1>2, <2>1, ConsumedStays
  <2> QED
    BY <1>5, <1>6, <2>2, <2>3 DEF Skip
<1>7. CASE MarkProcessed(p)
  <2>1. pc'[p] = "marked"
    BY <1>3, <1>7 DEF MarkProcessed
  <2>2. Settled(mine, C)'
    BY <1>4, <2>1 DEF Settled
  <2>3. ConsumedSettled(C)'
    BY <1>1, <1>2, <2>1, ConsumedStays
  <2> QED
    BY <1>5, <1>7, <2>2, <2>3 DEF MarkProcessed
<1>8. CASE SkipConsumed(p)
  <2>1. mine \in consumed /\ pc[p] = "handle" /\ UNCHANGED <<consumed, claimed, log, part, off>>
    BY <1>2, <1>8 DEF SkipConsumed, kafka, database
  <2>2. ConsumedSettled(C)'
    BY <1>1, <1>2, <2>1, ConsumedStays
  <2>3. Settled(mine, C)'
    BY <2>1, <2>2 DEF ConsumedSettled, Settled
  <2> QED
    BY <1>5, <1>8, <2>2, <2>3 DEF SkipConsumed
<1>9. CASE RejectData(p)
  <2>1. mine \notin Encoded
    BY <1>2, <1>9 DEF RejectData, Encoded
  <2>2. Settled(mine, C)'
    BY <2>1 DEF Settled
  <2>3. ConsumedSettled(C)'
    BY <1>1, <1>2, <2>1, ConsumedStays
  <2> QED
    BY <1>5, <1>9, <2>2, <2>3 DEF RejectData
<1>10. CASE Apply(p)
  <2>1. mine \in claimed'
    BY <1>2, <1>10 DEF Apply, Project
  <2>2. Settled(mine, C)'
    BY <2>1 DEF Settled
  <2>3. ConsumedSettled(C)'
    BY <1>1, <1>2, <2>1, ConsumedStays
  <2> QED
    BY <1>5, <1>10, <2>2, <2>3 DEF Apply
<1>11. ASSUME Fault
       PROVE  LossInv'
  <2> DEFINE D == C \cup {mine}
  <2>1. D \in SUBSET Events /\ IsFiniteSet(D) /\ Cardinality(D) <= faults'
    BY <1>1, <1>3, <1>11, ChargeTo
  <2>2. C \subseteq D /\ mine \in D
    OBVIOUS
  <2> HIDE DEF D
  <2>3. Settled(mine, D)'
    BY <2>2 DEF Settled
  <2>4. ConsumedSettled(D)'
    BY <1>1, <1>2, <2>2, ConsumedStays
  <2>5. Accounted(D)'
    BY <1>1, <1>2, <2>2, <2>3, <2>4, HandledAccounted
  <2> QED
    BY <2>1, <2>5 DEF LossInv
<1> QED
  BY <1>6, <1>7, <1>8, <1>9, <1>10, <1>11 DEF MarkFails, ApplyFails

\* A fetch hands over what comes next and loses nothing.
LEMMA FetchLoss ==
    ASSUME LoopInv, NEW C, Accounted(C), NEW p \in Projectors, NEW q \in Partitions, Fetch(p, q)
    PROVE  Accounted(C)'
<1>1. /\ owner[q] = p /\ pc[p] = "idle" /\ position[q] < Len(log[q]) /\ position[q] \in Nat
      /\ pc' = [pc EXCEPT ![p] = "fetched"] /\ position' = [position EXCEPT ![q] = position[q] + 1]
      /\ part' = [part EXCEPT ![p] = q] /\ off' = [off EXCEPT ![p] = position[q] + 1]
      /\ UNCHANGED <<log, owner, committed, consumed, claimed, rollup, faults>>
  BY DEF Fetch, Transition, database, LoopInv, LoopTypeOK
<1>2. /\ pc \in [Projectors -> PcValues] /\ position \in [Partitions -> Nat]
      /\ part \in [Projectors -> Partitions] /\ off \in [Projectors -> Nat]
      /\ owner \in [Partitions -> Projectors]
  BY DEF LoopInv, LoopTypeOK
<1>3. /\ pc'[p] = "fetched" /\ part'[p] = q /\ off'[p] = position[q] + 1
      /\ \A r \in Projectors : r # p => pc'[r] = pc[r] /\ part'[r] = part[r] /\ off'[r] = off[r]
      /\ position'[q] = position[q] + 1
      /\ \A x \in Partitions : x # q => position'[x] = position[x]
  BY <1>1, <1>2
<1>4. ASSUME NEW e, Settled(e, C)
      PROVE  Settled(e, C)'
  <2>1. PICK mine : mine = Event(p)
    OBVIOUS
  <2> QED
    BY <1>1, <1>3, <1>4, <2>1, SettledStays
<1>5. CommittedSettled(C)'
  BY <1>1, <1>4 DEF Accounted, CommittedSettled
<1>6. \A i \in 1 .. position[q] : Settled(log[q][i], C)
  BY <1>1 DEF Accounted, FetchedSettled
<1>7. EarlierSettled(C)'
  <2> SUFFICES ASSUME NEW r \in Projectors, Holding(r)', NEW i \in Nat, 1 <= i, i < off'[r]
               PROVE  Settled(log[part[r]][i], C)'
    BY DEF EarlierSettled
  <2>1. CASE r = p
    <3>1. i \in 1 .. position[q]
      BY <1>1, <1>3, <2>1
    <3> QED
      BY <1>1, <1>3, <1>4, <1>6, <2>1, <3>1
  <2>2. CASE r # p
    <3>1. Holding(r) /\ i < off[r] /\ log'[part'[r]] = log[part[r]]
      BY <1>1, <1>3, <2>2 DEF Holding
    <3>2. Settled(log[part[r]][i], C)
      BY <3>1 DEF Accounted, EarlierSettled
    <3> QED
      BY <1>1, <1>4, <3>1, <3>2
  <2> QED
    BY <2>1, <2>2
<1>8. FetchedSettled(C)'
  <2> SUFFICES ASSUME NEW x \in Partitions, pc'[owner[x]] # "down", NEW i \in 1 .. position'[x],
                      ~(pc'[owner[x]] = "fetched" /\ part'[owner[x]] = x /\ off'[owner[x]] = i)
               PROVE  Settled(log[x][i], C)'
    BY <1>1 DEF FetchedSettled
  <2>1. CASE x = q
    <3>1. i # position[q] + 1 /\ i \in 1 .. position[q] + 1
      BY <1>1, <1>3, <2>1
    <3>2. i \in 1 .. position[q]
      BY <1>1, <3>1
    <3> QED
      BY <1>1, <1>4, <1>6, <2>1, <3>2
  <2>2. CASE x # q
    <3>1. i \in 1 .. position[x] /\ owner[x] \in Projectors
      BY <1>2, <1>3, <2>2
    <3>2. pc[owner[x]] # "down"
      BY <1>1, <1>3, <3>1
    <3>3. ~(pc[owner[x]] = "fetched" /\ part[owner[x]] = x /\ off[owner[x]] = i)
      BY <1>1, <1>3, <3>1
    <3>4. Settled(log[x][i], C)
      BY <3>1, <3>2, <3>3 DEF Accounted, FetchedSettled
    <3> QED
      BY <1>1, <1>4, <3>4
  <2> QED
    BY <2>1, <2>2
<1>9. ConsumedSettled(C)'
  <2> SUFFICES ASSUME NEW e \in consumed \cap Encoded, e \notin claimed, e \notin C
               PROVE  \E r \in Projectors : pc'[r] = "marked" /\ Event(r)' = e
    BY <1>1 DEF ConsumedSettled
  <2>1. PICK r \in Projectors : pc[r] = "marked" /\ Event(r) = e
    BY DEF Accounted, ConsumedSettled
  <2> QED
    BY <1>1, <1>3, <2>1 DEF Event
<1> QED
  BY <1>5, <1>7, <1>8, <1>9 DEF Accounted

\* The steps that commit or drop the message mine in the hands of p, and those
\* that put a reader back to what is committed, when D is charged.
MovesOffsets(p, mine, D) ==
    /\ UNCHANGED <<log, consumed, claimed, part, off>>
    /\ \A r \in Projectors : r # p => pc'[r] = pc[r]
    /\ \/ pc'[p] = pc[p]
       \/ pc[p] = "fetched" /\ pc'[p] = "handle"
       \/ pc[p] = "down" /\ pc'[p] = "idle"
       \/ pc'[p] = "down" /\ (pc[p] \in {"handle", "marked"} => mine \in D)
    /\ \/ committed' = committed
       \/ /\ pc[p] = "fetched" /\ committed' = [committed EXCEPT ![part[p]] = off[p]]
          /\ pc'[p] = "handle" \/ mine \in D
    /\ \A q \in Partitions :
          \/ position'[q] = committed[q] /\ committed' = committed
          \/ /\ owner'[q] = owner[q] /\ position'[q] = position[q]
             /\ ~(owner[q] = p /\ pc[p] = "down")

\* A commit, a restart or a rebalance moves offsets past what is projected,
\* charged or in hand elsewhere, and past the message in hand, if charged.
LEMMA OffsetLoss ==
    ASSUME LoopInv, NEW C, NEW D, C \subseteq D, Accounted(C), NEW p \in Projectors,
           NEW mine, mine = Event(p), MovesOffsets(p, mine, D)
    PROVE  Accounted(D)'
<1>1. /\ UNCHANGED <<log, consumed, claimed, part, off>>
      /\ \A r \in Projectors : r # p => pc'[r] = pc[r]
  BY DEF MovesOffsets
<1>2. /\ pc \in [Projectors -> PcValues] /\ position \in [Partitions -> Nat]
      /\ part \in [Projectors -> Partitions] /\ off \in [Projectors -> Nat]
      /\ owner \in [Partitions -> Projectors] /\ committed \in [Partitions -> Nat]
  BY DEF LoopInv, LoopTypeOK
<1>3. Event(p)' = mine /\ \A r \in Projectors : Event(r)' = Event(r)
  BY <1>1 DEF Event
<1>4. pc[p] \in {"handle", "marked"} => Settled(mine, D)'
  BY <1>3 DEF MovesOffsets, Settled
<1>5. ASSUME NEW e, Settled(e, C)
      PROVE  Settled(e, D)'
  BY <1>1, <1>4, <1>5, SettledStays
<1>6. pc'[p] = "handle" \/ mine \in D => Settled(mine, D)'
  BY <1>3 DEF Settled
<1>7. CommittedSettled(D)'
  <2>1. CASE committed' = committed
    BY <1>1, <1>5, <2>1 DEF Accounted, CommittedSettled
  <2>2. CASE /\ pc[p] = "fetched" /\ committed' = [committed EXCEPT ![part[p]] = off[p]]
             /\ pc'[p] = "handle" \/ mine \in D
    <3> SUFFICES ASSUME NEW q \in Partitions, NEW i \in 1 .. committed'[q]
                 PROVE  Settled(log[q][i], D)'
      BY <1>1 DEF CommittedSettled
    <3>1. CASE q # part[p]
      <4>1. i \in 1 .. committed[q]
        BY <1>2, <2>2, <3>1
      <4>2. Settled(log[q][i], C)
        BY <4>1 DEF Accounted, CommittedSettled
      <4> QED
        BY <1>1, <1>5, <4>2
    <3>2. CASE q = part[p]
      <4>1. i \in Nat /\ 1 <= i /\ (i < off[p] \/ i = off[p]) /\ off[p] \in Nat
        BY <1>2, <2>2, <3>2
      <4>2. CASE i < off[p]
        <5>1. Settled(log[q][i], C)
          BY <2>2, <3>2, <4>1, <4>2 DEF Accounted, EarlierSettled, Holding
        <5> QED
          BY <1>1, <1>5, <5>1
      <4>3. CASE i = off[p]
        <5>1. log[q][i] = mine
          BY <3>2, <4>3 DEF Event
        <5> QED
          BY <1>1, <1>6, <2>2, <5>1
      <4> QED
        BY <4>1, <4>2, <4>3
    <3> QED
      BY <3>1, <3>2
  <2> QED
    BY <2>1, <2>2 DEF MovesOffsets
<1>8. EarlierSettled(D)'
  <2>1. \A r \in Projectors : Holding(r)' => Holding(r)
    BY <1>1 DEF MovesOffsets, Holding
  <2> QED
    BY <1>1, <1>5, <2>1 DEF Accounted, EarlierSettled
<1>9. FetchedSettled(D)'
  <2> SUFFICES ASSUME NEW q \in Partitions, pc'[owner'[q]] # "down", NEW i \in 1 .. position'[q],
                      ~(pc'[owner'[q]] = "fetched" /\ part'[owner'[q]] = q /\ off'[owner'[q]] = i)
               PROVE  Settled(log[q][i], D)'
    BY <1>1 DEF FetchedSettled
  <2>1. CASE position'[q] = committed[q] /\ committed' = committed
    <3>1. Settled(log[q][i], C)
      BY <2>1 DEF Accounted, CommittedSettled
    <3> QED
      BY <1>1, <1>5, <3>1
  <2>2. CASE /\ owner'[q] = owner[q] /\ position'[q] = position[q]
             /\ ~(owner[q] = p /\ pc[p] = "down")
    <3>1. owner[q] \in Projectors /\ i \in 1 .. position[q]
      BY <1>2, <2>2
    <3>2. CASE owner[q] # p
      <4>1. pc'[owner[q]] = pc[owner[q]]
        BY <1>1, <3>1, <3>2
      <4>2. Settled(log[q][i], C)
        BY <1>1, <2>2, <3>1, <4>1 DEF Accounted, FetchedSettled
      <4> QED
        BY <1>1, <1>5, <4>2
    <3>3. CASE owner[q] = p
      <4>1. pc[p] # "down" /\ pc'[p] # "down"
        BY <2>2, <3>3
      <4>2. CASE Settled(log[q][i], C)
        BY <1>1, <1>5, <4>2
      <4>3. CASE pc[p] = "fetched" /\ part[p] = q /\ off[p] = i
        <5>1. log[q][i] = mine
          BY <4>3 DEF Event
        <5>2. pc'[p] = "handle"
          BY <1>1, <2>2, <3>3, <4>1, <4>3 DEF MovesOffsets
        <5> QED
          BY <1>1, <1>6, <5>1, <5>2
      <4> QED
        BY <3>1, <3>3, <4>1, <4>2, <4>3 DEF Accounted, FetchedSettled
    <3> QED
      BY <3>2, <3>3
  <2> QED
    BY <2>1, <2>2 DEF MovesOffsets
<1>10. ConsumedSettled(D)'
  <2> SUFFICES ASSUME NEW e \in consumed \cap Encoded, e \notin claimed, e \notin D
               PROVE  \E r \in Projectors : pc'[r] = "marked" /\ Event(r)' = e
    BY <1>1 DEF ConsumedSettled
  <2>1. PICK r \in Projectors : pc[r] = "marked" /\ Event(r) = e
    BY DEF Accounted, ConsumedSettled
  <2>2. pc'[r] = "marked"
    <3>1. CASE r # p
      BY <1>1, <2>1, <3>1
    <3>2. CASE r = p
      BY <2>1, <3>2 DEF MovesOffsets
    <3> QED
      BY <3>1, <3>2
  <2> QED
    BY <1>3, <2>1, <2>2
<1> QED
  BY <1>7, <1>8, <1>9, <1>10 DEF Accounted

\* Every step keeps the accounts: a failure charges the event in hand, every
\* other step none.
LEMMA LossStep == LoopInv /\ LossInv /\ [Next]_vars => LossInv'
<1> SUFFICES ASSUME LoopInv, LossInv, [Next]_vars
             PROVE  LossInv'
  OBVIOUS
<1>1. PICK C \in SUBSET Events : IsFiniteSet(C) /\ Cardinality(C) <= faults /\ Accounted(C)
  BY DEF LossInv
<1>2. /\ pc \in [Projectors -> PcValues] /\ owner \in [Partitions -> Projectors]
      /\ position \in [Partitions -> Nat] /\ committed \in [Partitions -> Nat]
      /\ part \in [Projectors -> Partitions] /\ faults \in Nat
  <2>1. MaxFaults \in Nat
    BY EventAssumption
  <2> QED
    BY <2>1 DEF LoopInv, LoopTypeOK
<1>3. Cardinality(C) \in Nat
  BY <1>1, FS_CardinalityType
<1>4. CASE UNCHANGED vars
  <2>1. Accounted(C)'
    BY <1>1, <1>4 DEF vars, kafka, database, projector, Accounted, CommittedSettled, EarlierSettled,
                      FetchedSettled, ConsumedSettled, Settled, Holding, Event
  <2> QED
    BY <1>1, <1>4, <2>1 DEF LossInv, vars
<1>5. ASSUME NEW p \in Projectors, NEW q \in Partitions, Fetch(p, q)
      PROVE  LossInv'
  <2>1. UNCHANGED faults /\ Accounted(C)'
    BY <1>1, <1>5, FetchLoss DEF Fetch
  <2> QED
    BY <1>1, <2>1 DEF LossInv
<1>6. ASSUME NEW p \in Projectors, NEW mine, mine = Event(p), MovesOffsets(p, mine, C), faults <= faults',
             faults' \in Nat
      PROVE  LossInv'
  <2>1. Accounted(C)'
    BY <1>1, <1>6, OffsetLoss
  <2> QED
    BY <1>1, <1>2, <1>3, <1>6, <2>1 DEF LossInv
<1>7. ASSUME NEW p \in Projectors, NEW mine, mine = Event(p), Holding(p), Fault,
             MovesOffsets(p, mine, C \cup {mine})
      PROVE  LossInv'
  <2> DEFINE D == C \cup {mine}
  <2>1. mine \in Events
    BY <1>7, HeldIsEvent
  <2>2. D \in SUBSET Events /\ IsFiniteSet(D) /\ Cardinality(D) <= faults'
    BY <1>1, <1>2, <1>7, <2>1, ChargeTo
  <2>3. C \subseteq D /\ MovesOffsets(p, mine, D)
    BY <1>7
  <2> HIDE DEF D
  <2>4. Accounted(D)'
    BY <1>1, <1>7, <2>3, OffsetLoss
  <2> QED
    BY <2>2, <2>4 DEF LossInv
<1>8. ASSUME NEW p \in Projectors,
             CommitOffset(p) \/ Fenced(p) \/ Restart(p) \/ (\E q \in Partitions : Rebalance(p, q))
      PROVE  LossInv'
  <2>1. PICK mine : mine = Event(p)
    OBVIOUS
  <2>2. faults <= faults' /\ faults' \in Nat
    BY <1>2, <1>8 DEF CommitOffset, Fenced, Restart, Rebalance, Fault
  <2>3. CASE CommitOffset(p)
    <3>1. MovesOffsets(p, mine, C)
      BY <1>2, <2>3 DEF CommitOffset, Transition, MovesOffsets, database
    <3> QED
      BY <1>6, <2>1, <2>2, <3>1
  <2>4. CASE Fenced(p)
    <3>1. MovesOffsets(p, mine, C)
      BY <1>2, <2>4 DEF Fenced, Transition, MovesOffsets, database, kafka
    <3> QED
      BY <1>6, <2>1, <2>2, <3>1
  <2>5. CASE Restart(p)
    <3>1. MovesOffsets(p, mine, C)
      BY <1>2, <2>5 DEF Restart, Transition, MovesOffsets, database
    <3> QED
      BY <1>6, <2>1, <2>2, <3>1
  <2>6. ASSUME NEW q \in Partitions, Rebalance(p, q)
        PROVE  LossInv'
    <3>1. MovesOffsets(p, mine, C)
      BY <1>2, <2>6 DEF Rebalance, MovesOffsets, database, projector
    <3> QED
      BY <1>6, <2>1, <2>2, <3>1
  <2> QED
    BY <1>8, <2>3, <2>4, <2>5, <2>6
<1>9. ASSUME NEW p \in Projectors, CommitOffsetFails(p)
      PROVE  LossInv'
  <2>1. PICK mine : mine = Event(p)
    OBVIOUS
  <2>2. MovesOffsets(p, mine, C \cup {mine})
    BY <1>2, <1>9 DEF CommitOffsetFails, Transition, MovesOffsets, database
  <2> QED
    BY <1>7, <1>9, <2>1, <2>2 DEF CommitOffsetFails, Transition, Holding
<1>10. ASSUME NEW p \in Projectors, Crash(p)
       PROVE  LossInv'
  <2>1. PICK mine : mine = Event(p)
    OBVIOUS
  <2>2. CASE Holding(p)
    <3>1. MovesOffsets(p, mine, C \cup {mine})
      BY <1>2, <1>10 DEF Crash, MovesOffsets, database, kafka
    <3> QED
      BY <1>7, <1>10, <2>1, <2>2, <3>1 DEF Crash
  <2>3. CASE ~Holding(p)
    <3>1. MovesOffsets(p, mine, C)
      BY <1>2, <1>10, <2>3 DEF Crash, MovesOffsets, database, kafka, Holding
    <3>2. faults <= faults' /\ faults' \in Nat
      BY <1>2, <1>10 DEF Crash, Fault
    <3> QED
      BY <1>6, <2>1, <3>1, <3>2
  <2> QED
    BY <2>2, <2>3
<1>11. ASSUME NEW p \in Projectors,
              Skip(p) \/ MarkProcessed(p) \/ SkipConsumed(p) \/ RejectData(p) \/ Apply(p)
              \/ MarkFails(p) \/ ApplyFails(p)
       PROVE  LossInv'
  BY <1>11, HandleShape, HandleLoss
<1> QED
  BY <1>4, <1>5, <1>8, <1>9, <1>10, <1>11 DEF Next, Progress, Failure, AwaitMessages

\* The projector commits before it handles and drops what it fails to handle; it
\* loses no more events than it met failures.
THEOREM LossIsBounded == Spec => []LossBounded
<1>1. LoopInv /\ LossInv => LossBounded
  <2> SUFFICES ASSUME LoopInv, LossInv
               PROVE  Cardinality(Lost) <= faults
    BY DEF LossBounded
  <2>1. PICK C \in SUBSET Events : IsFiniteSet(C) /\ Cardinality(C) <= faults /\ Accounted(C)
    BY DEF LossInv
  <2>2. Lost \subseteq C
    <3> SUFFICES ASSUME NEW e \in Lost
                 PROVE  e \in C
      OBVIOUS
    <3>1. Settled(e, C)
      BY <2>1 DEF Lost, Accounted, CommittedSettled
    <3> QED
      BY <3>1 DEF Lost, Settled
  <2>3. IsFiniteSet(Lost) /\ Cardinality(Lost) <= Cardinality(C)
    BY <2>1, <2>2, FS_Subset
  <2>4. Cardinality(Lost) \in Nat /\ Cardinality(C) \in Nat /\ faults \in Nat
    BY <2>1, <2>3, FS_CardinalityType, EventAssumption DEF LoopInv, LoopTypeOK
  <2> QED
    BY <2>1, <2>3, <2>4
<1>2. Init => LoopInv /\ LossInv
  BY LoopStart, LossStart
<1>3. LoopInv /\ LossInv /\ [Next]_vars => (LoopInv /\ LossInv)'
  BY LoopStep, LossStep
<1> QED
  BY <1>1, <1>2, <1>3, PTL DEF Spec

=============================================================================

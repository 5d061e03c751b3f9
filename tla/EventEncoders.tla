---------------------------- MODULE EventEncoders ----------------------------
(***************************************************************************)
(* What a domain event becomes on its way out and what the projector reads *)
(* back: the analytics and the integration encoder, the checks of the      *)
(* CloudEvents envelope, and the decoding of analytics data.               *)
(*                                                                         *)
(* A pointer is {} for nil and {v} for a value, which JSON carries as null *)
(* and as v; a time is {} for the zero instant, which survives formatting  *)
(* and parsing.  travel_component_seconds, which no consumer reads, and    *)
(* the trace headers are left out.                                         *)
(***************************************************************************)
EXTENDS Integers, SequencesExt

\* The domain events of the service, by EventName.
LaborStandardDefined(standardId, taskType, expected, from, at) ==
    [name |-> "LaborStandardDefined", standardId |-> standardId, taskType |-> taskType,
     expectedSeconds |-> expected, effectiveFrom |-> from, at |-> at]

LaborStandardRevised(standardId, taskType, previous, expected, from, at) ==
    [name |-> "LaborStandardRevised", standardId |-> standardId, taskType |-> taskType,
     previousExpectedSeconds |-> previous, expectedSeconds |-> expected,
     effectiveFrom |-> from, at |-> at]

TaskPerformanceRecorded(taskId, associateId, taskType, actual, pct, idle, completedAt, at) ==
    [name |-> "TaskPerformanceRecorded", taskId |-> taskId, associateId |-> associateId,
     taskType |-> taskType, actualSeconds |-> actual, efficiencyPct |-> pct,
     idleSecondsBefore |-> idle, completedAt |-> completedAt, at |-> at]

\* The associate, or the task of a robot station.
performanceSubject(ev) == IF ev.associateId # "" THEN ev.associateId ELSE ev.taskId

\* Data of a TaskPerformanceRecorded, the same on both streams.
PerformanceData(ev) ==
    [task_id |-> ev.taskId, associate_id |-> ev.associateId, task_type |-> ev.taskType,
     efficiency_pct |-> ev.efficiencyPct, actual_seconds |-> ev.actualSeconds,
     idle_seconds_before |-> ev.idleSecondsBefore, completed_at |-> ev.completedAt]

\* Mutant: the payload of a task carries the emission time as its completion.
marshalDataEmissionTime(ev) ==
    CASE ev.name = "TaskPerformanceRecorded" ->
           [key |-> ev.taskType, subject |-> performanceSubject(ev),
            data |-> [PerformanceData(ev) EXCEPT !.completed_at = {ev.at}]]
      [] OTHER ->
           [key |-> ev.taskType, subject |-> ev.standardId,
            data |-> [task_type |-> ev.taskType, effective_from |-> ev.effectiveFrom]]

\* The analytics stream is keyed by task type.
marshalData(ev) ==
    CASE ev.name = "LaborStandardDefined" ->
           [key |-> ev.taskType, subject |-> ev.standardId,
            data |-> [standard_id |-> ev.standardId, task_type |-> ev.taskType,
                      expected_seconds |-> ev.expectedSeconds,
                      effective_from |-> ev.effectiveFrom]]
      [] ev.name = "LaborStandardRevised" ->
           [key |-> ev.taskType, subject |-> ev.standardId,
            data |-> [standard_id |-> ev.standardId, task_type |-> ev.taskType,
                      previous_expected_seconds |-> ev.previousExpectedSeconds,
                      expected_seconds |-> ev.expectedSeconds,
                      effective_from |-> ev.effectiveFrom]]
      [] ev.name = "TaskPerformanceRecorded" ->
           [key |-> ev.taskType, subject |-> performanceSubject(ev),
            data |-> PerformanceData(ev)]

\* The integration stream is keyed by associate.
integrationData(ev) ==
    [key |-> ev.associateId, subject |-> performanceSubject(ev),
     data |-> PerformanceData(ev)]

\* cloudevents.New: no message ({}) for an empty subject, an error.
New(ev, stream, body) ==
    {[stream |-> stream, type |-> ev.name, time |-> ev.at,
      key |-> b.key, subject |-> b.subject, data |-> b.data] :
        b \in {c \in {body} : c.subject # ""}}

\* AnalyticsPublisher.Encode and IntegrationPublisher.Encode of one event.
\* Standards stay off the integration stream.
AnalyticsEncode(ev) == New(ev, "analytics", marshalData(ev))

IntegrationEncode(ev) ==
    IF ev.name = "TaskPerformanceRecorded"
    THEN New(ev, "events", integrationData(ev))
    ELSE {}

\* OutboxPublisher.Publish of an encodable event: the rows it inserts, in order.
OutboxMessages(ev) == SetToSeq(AnalyticsEncode(ev)) \o SetToSeq(IntegrationEncode(ev))

-----------------------------------------------------------------------------

\* analyticsData before decoding.
ZeroData == [task_type |-> "", expected_seconds |-> 0, effective_from |-> {},
             task_id |-> "", associate_id |-> "", actual_seconds |-> 0,
             efficiency_pct |-> {}, completed_at |-> {}]

\* evt.DataAs: a field that is absent keeps its zero value, one that analyticsData
\* lacks is dropped.
DataAs(msg) ==
    [f \in DOMAIN ZeroData |-> IF f \in DOMAIN msg.data THEN msg.data[f] ELSE ZeroData[f]]

=============================================================================

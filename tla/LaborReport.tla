----------------------------- MODULE LaborReport -----------------------------
(***************************************************************************)
(* The labor-performance data product: the rollup of projected events by   *)
(* task type and hour, and the report built from it.  Rows hold raw        *)
(* counters; means are derived when a report is built, as a sum over a     *)
(* count, {} when the count is zero (nil, never 0).                        *)
(***************************************************************************)
EXTENDS Integers, FiniteSetsExt

CONSTANT TicksPerHour

ASSUME HourAssumption == TicksPerHour \in Nat \ {0}

UnclassifiedTaskType == "UNCLASSIFIED"

\* This service emits its three upper-case task types and the empty one, on
\* which trimming and upper-casing change nothing.
NormalizeTaskType(taskType) ==
    IF taskType = "" THEN UnclassifiedTaskType ELSE taskType

\* The first instant of the hour of t.
HourBucket(t) == (t \div TicksPerHour) * TicksPerHour

RowKey(taskType, at) == [taskType |-> NormalizeTaskType(taskType), hour |-> HourBucket(at)]

Counters == {"tasksRecorded", "tasksScored", "efficiencyPctSum", "tasksMeasured",
             "actualSecondsSum", "standardsDefined", "standardsRevised"}

ZeroRow == [c \in Counters |-> 0]

\* Mutant: a nil efficiency is read as zero per cent.
TaskDeltaNilIsZero(efficiencyPct, actualSeconds) ==
    [ZeroRow EXCEPT !["tasksRecorded"] = 1,
                    !["tasksScored"] = 1,
                    !["efficiencyPctSum"] = SumSet(efficiencyPct),
                    !["tasksMeasured"] = IF actualSeconds > 0 THEN 1 ELSE 0,
                    !["actualSecondsSum"] = IF actualSeconds > 0 THEN actualSeconds ELSE 0]

\* A task counts as scored and as measured only when it is; efficiencyPct is
\* {} for nil.
TaskDelta(efficiencyPct, actualSeconds) ==
    [ZeroRow EXCEPT !["tasksRecorded"] = 1,
                    !["tasksScored"] = Cardinality(efficiencyPct),
                    !["efficiencyPctSum"] = SumSet(efficiencyPct),
                    !["tasksMeasured"] = IF actualSeconds > 0 THEN 1 ELSE 0,
                    !["actualSecondsSum"] = IF actualSeconds > 0 THEN actualSeconds ELSE 0]

StandardDefinedDelta == [ZeroRow EXCEPT !["standardsDefined"] = 1]

StandardRevisedDelta == [ZeroRow EXCEPT !["standardsRevised"] = 1]

\* INSERT ... ON CONFLICT (task_type, hour_bucket) DO UPDATE: a new row starts
\* as the delta, an existing one is incremented.
Upsert(rollup, key, delta) ==
    [k \in DOMAIN rollup \cup {key} |->
        [c \in Counters |-> (IF k \in DOMAIN rollup THEN rollup[k][c] ELSE 0)
                            + (IF k = key THEN delta[c] ELSE 0)]]

-----------------------------------------------------------------------------

\* sum / n, kept as the pair; nil when there is nothing to divide by.
Mean(sum, n) == IF n <= 0 THEN {} ELSE {<<sum, n>>}

TasksUnscored(row) ==
    LET n == row["tasksRecorded"] - row["tasksScored"]
    IN  IF n > 0 THEN n ELSE 0

\* The rows of the rollup under keys, added up counter by counter.
Merge(rollup, keys) ==
    [c \in Counters |-> SumFunction([k \in keys |-> rollup[k][c]])]

\* What a bar or the headline shows of merged rows.
Summary(row) ==
    [recorded |-> row["tasksRecorded"],
     scored   |-> row["tasksScored"],
     unscored |-> TasksUnscored(row),
     meanEfficiencyPct |-> Mean(row["efficiencyPctSum"], row["tasksScored"]),
     meanActualSeconds |-> Mean(row["actualSecondsSum"], row["tasksMeasured"]),
     defined  |-> row["standardsDefined"],
     revised  |-> row["standardsRevised"]]

\* Query: hour_bucket in [from, to), any task type when the filter is empty.
Select(rollup, from, to, taskType) ==
    {k \in DOMAIN rollup : /\ from <= k.hour /\ k.hour < to
                           /\ taskType = "" \/ k.taskType = taskType}

\* Build: the rows in the window, a bar for every task type among them, and the
\* totals (of which the report shows the task counters only).
Report(rollup, from, to, taskType) ==
    LET keys == Select(rollup, from, to, taskType)
        types == {k.taskType : k \in keys}
    IN  [rows |-> [k \in keys |-> Summary(rollup[k])],
         byTaskType |-> [t \in types |->
                           Summary(Merge(rollup, {k \in keys : k.taskType = t}))],
         totals |-> Summary(Merge(rollup, keys))]

\* GET /reports/performance: {} for a 400.  q.from and q.to are {} when missing
\* or not RFC 3339; the task type filter is passed on as it came.
GetPerformanceReport(rollup, q) ==
    {Report(rollup, w[1], w[2], q.taskType) :
        w \in {v \in q.from \X q.to : v[1] < v[2] /\ q.granularity \in {"", "hour"}}}

=============================================================================

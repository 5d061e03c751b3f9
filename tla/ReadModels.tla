----------------------------- MODULE ReadModels ------------------------------
(***************************************************************************)
(* The read side of cmd/labor next to its write side: the scorecard and    *)
(* the utilization of an associate and the utilization of a task type,     *)
(* asked for while consumers commit performance rows and idle gaps.        *)
(*                                                                         *)
(* A request runs several statements outside any transaction, so each one  *)
(* sees the tables as they are when it runs.  The model keeps, for every   *)
(* statement, what it saw; the answer is computed from that.  Rows never   *)
(* change once committed, so a seen row can be evaluated later.            *)
(***************************************************************************)
EXTENDS Recording, FiniteSetsExt

CONSTANTS
    Associate,                 \* the associate asked about
    AskedTaskType,             \* the task type asked about
    Instants,                  \* what Clock.Now() may answer
    WindowParams,              \* windows asked for, in seconds, see windowParam
    DefaultUtilizationWindow,  \* defaultUtilizationWindow, in seconds
    RecentWindowSize,          \* recentWindowSize (10)
    MinScoredForTrend,         \* minScoredForTrend (3)
    TrendThresholdPct,         \* trendThresholdPct (5)
    CoachingThreshold,         \* coachingConsecutiveThreshold (3)
    CoachingFloor              \* coachingEfficiencyFloor (85)

\* A scorecard of the empty associate id is refused before any statement, so
\* Associate is another one.  Percentages of the instance are whole numbers,
\* and completions of an associate do not coincide (the order of ties is the
\* database's choice).
ASSUME ReadAssumption ==
    /\ Associate # NoAssociate
    /\ Instants \subseteq Int /\ WindowParams \subseteq Int
    /\ DefaultUtilizationWindow \in Nat
    /\ RecentWindowSize \in Nat /\ CoachingThreshold \in Nat
    /\ MinScoredForTrend \in Nat \ {0} /\ TrendThresholdPct \in Nat \ {0}
    /\ \A m \in Messages : ActualSeconds[m] > 0 =>
          \A s \in StandardSeconds : (100 * s) % ActualSeconds[m] = 0
    /\ \A m, n \in Messages :
          /\ Kind[m] = "completed" /\ Kind[n] = "completed"
          /\ AssociateId[m] = AssociateId[n]
          /\ CompletedAt[m] = CompletedAt[n]
          => m = n

VARIABLES
    query,   \* request being served, "none" before it arrives
    askedAt, \* its Clock.Now()
    window,  \* the window it asks for, 0 when absent or malformed
    saw,     \* what each of its statements saw, in the order they ran
    outcome  \* "pending", "answered", "notFound" or "failed"

reader == <<query, askedAt, window, saw, outcome>>

-----------------------------------------------------------------------------
(***************************************************************************)
(* The statements of each request, in order.                               *)
(***************************************************************************)

\* Mutant: the breakdown is queried before the totals.
ScorecardPlanSwapped == <<"exists", "byTaskType", "totals", "recent">>

\* ExistsByAssociateID, the two queries of ScorecardFor, RecentByAssociateID.
ScorecardPlan == <<"exists", "totals", "byTaskType", "recent">>

\* Mutant: the last activity is looked up before the sums.
AssociatePlanActivityFirst ==
    <<"lastCompleted", "lastIdleEnd", "taskSeconds", "idleSeconds">>

\* GetUtilization.ForAssociate.
AssociatePlan == <<"taskSeconds", "idleSeconds", "lastCompleted", "lastIdleEnd">>

\* Mutant: the idle gaps are summed before the tasks that ended them.
TaskTypePlanIdleFirst == <<"idleSeconds", "taskSeconds", "associates">>

\* Mutant: the associates are counted before their idle seconds.
TaskTypePlanCountFirst == <<"taskSeconds", "associates", "idleSeconds">>

\* GetUtilization.ForTaskType.
TaskTypePlan == <<"taskSeconds", "idleSeconds", "associates">>

\* The requests and their statements.
Plan == [scorecard           |-> ScorecardPlan,
         utilization         |-> AssociatePlan,
         taskTypeUtilization |-> TaskTypePlan]

Queries == DOMAIN Plan

Recorded == {m \in Messages : rows[m] # NoRow}

\* What a statement running now sees.
Snapshot == [rows |-> Recorded, gaps |-> {gaps[i] : i \in DOMAIN gaps}]

ReadInit ==
    /\ Init
    /\ query = "none"
    /\ askedAt = 0
    /\ window = 0
    /\ saw = <<>>
    /\ outcome = "pending"

\* The handler takes the window of a utilization from the query string.
Ask(q, t, w) ==
    /\ query = "none"
    /\ query' = q
    /\ askedAt' = t
    /\ q = "scorecard" => w = 0
    /\ window' = w
    /\ UNCHANGED <<vars, saw, outcome>>

Own(ms) == {m \in ms : AssociateId[m] = Associate}

\* The next statement.  A scorecard stops at once for an associate without a
\* row.
RunStatement ==
    /\ query # "none"
    /\ outcome = "pending"
    /\ saw' = Append(saw, Snapshot)
    /\ outcome' = CASE query = "scorecard" /\ saw = <<>> /\ Own(Recorded) = {} -> "notFound"
                    [] Len(saw) + 1 = Len(Plan[query]) -> "answered"
                    [] OTHER -> "pending"
    /\ UNCHANGED <<vars, query, askedAt, window>>

\* A statement returns an error: the request ends with it, writing nothing.
ReadFails ==
    /\ query # "none"
    /\ outcome = "pending"
    /\ outcome' = "failed"
    /\ UNCHANGED <<vars, query, askedAt, window, saw>>

ReadNext ==
    \/ Next /\ UNCHANGED reader
    \/ \E q \in Queries, t \in Instants, w \in WindowParams \cup {0} : Ask(q, t, w)
    \/ RunStatement
    \/ ReadFails

ReadSpec == ReadInit /\ [][ReadNext]_<<vars, reader>>

\* What the statement named s of the request saw.
Seen(s) == saw[CHOOSE i \in DOMAIN Plan[query] : Plan[query][i] = s]

-----------------------------------------------------------------------------
(***************************************************************************)
(* The scorecard.                                                          *)
(***************************************************************************)

\* computeEfficiencyPct of a recorded task, {} for nil.
EfficiencyPct(m) ==
    {(100 * rows[m]) \div ActualSeconds[m] :
        once \in {n \in {m} : rows[n] > 0 /\ ActualSeconds[n] > 0}}

Scored(ms) == {m \in ms : EfficiencyPct(m) # {}}

\* AVG(efficiency_pct) as a sum and a count: rows without one do not count.
MeanEfficiencyPct(ms) ==
    {<<SumFunction([m \in Scored(ms) |-> SumSet(EfficiencyPct(m))]), n>> :
        n \in {Cardinality(Scored(ms))} \ {0}}

TaskCount == Cardinality(Own(Seen("totals").rows))

ByTaskType ==
    LET own == Own(Seen("byTaskType").rows)
    IN  [t \in {TaskType(m) : m \in own} |->
            LET ofType == {m \in own : TaskType(m) = t}
            IN  [count |-> Cardinality(ofType), mean |-> MeanEfficiencyPct(ofType)]]

\* The n tasks of ms completed last.
Latest(ms, n) ==
    {m \in ms : Cardinality({o \in ms : CompletedAt[o] > CompletedAt[m]}) < n}

\* The scored tasks of the recent window, in which unscored ones take places.
RecentScored == Scored(Latest(Own(Seen("recent").rows), RecentWindowSize))

\* Mutant: the difference is taken the other way round.
ClassifyTrendReversed(recentMean, baselineMean, recentScoredCount) ==
    IF recentMean = {} \/ baselineMean = {} \/ recentScoredCount < MinScoredForTrend
    THEN "INSUFFICIENT_DATA"
    ELSE LET r == CHOOSE x \in recentMean : TRUE
             b == CHOOSE x \in baselineMean : TRUE
             diff == b[1] * r[2] - r[1] * b[2]
             threshold == TrendThresholdPct * r[2] * b[2]
         IN  CASE diff >= threshold   -> "IMPROVING"
               [] diff <= - threshold -> "DECLINING"
               [] OTHER               -> "STABLE"

\* ClassifyTrend, over means given as {<<sum, count>>}.
ClassifyTrend(recentMean, baselineMean, recentScoredCount) ==
    IF recentMean = {} \/ baselineMean = {} \/ recentScoredCount < MinScoredForTrend
    THEN "INSUFFICIENT_DATA"
    ELSE LET r == CHOOSE x \in recentMean : TRUE
             b == CHOOSE x \in baselineMean : TRUE
             diff == r[1] * b[2] - b[1] * r[2]
             threshold == TrendThresholdPct * r[2] * b[2]
         IN  CASE diff >= threshold   -> "IMPROVING"
               [] diff <= - threshold -> "DECLINING"
               [] OTHER               -> "STABLE"

Trend == ClassifyTrend(MeanEfficiencyPct(RecentScored),
                       MeanEfficiencyPct(Own(Seen("totals").rows)),
                       Cardinality(RecentScored))

\* Mutant: the oldest scored tasks of the window are looked at.
DetectCoachingFlagOldest(scored) ==
    /\ Cardinality(scored) >= CoachingThreshold
    /\ \A m \in scored \ Latest(scored, Cardinality(scored) - CoachingThreshold) :
          \A pct \in EfficiencyPct(m) : pct < CoachingFloor

\* DetectCoachingFlag: the last CoachingThreshold scored tasks are all below
\* the floor.
DetectCoachingFlag(scored) ==
    /\ Cardinality(scored) >= CoachingThreshold
    /\ \A m \in Latest(scored, CoachingThreshold) :
          \A pct \in EfficiencyPct(m) : pct < CoachingFloor

CoachingFlag == DetectCoachingFlag(RecentScored)

-----------------------------------------------------------------------------
(***************************************************************************)
(* Utilization.                                                            *)
(***************************************************************************)

\* since := now - window, with the default for a window that is not positive.
Since == askedAt - TicksPerSecond * (IF window <= 0 THEN DefaultUtilizationWindow
                                                    ELSE window)

\* Rows and gaps of the subject; a gap carries the type of the task ending it.
AboutTask(m) == IF query = "utilization" THEN AssociateId[m] = Associate
                                         ELSE TaskType(m) = AskedTaskType
AboutGap(g) == IF query = "utilization" THEN g.associate = Associate
                                        ELSE TaskType(g.event) = AskedTaskType

\* The rows whose actual_seconds, and the gaps whose seconds, are summed.
CountedTasks ==
    {m \in Seen("taskSeconds").rows : AboutTask(m) /\ CompletedAt[m] >= Since}

CountedGaps ==
    {g \in Seen("idleSeconds").gaps : AboutGap(g) /\ g.endedAt >= Since}

TaskSeconds == SumFunctionOnSet(ActualSeconds, CountedTasks)
IdleSeconds == SumFunction([g \in CountedGaps |-> g.seconds])

\* Associates of a task type's answer: those with a gap in the window.
Associates ==
    Cardinality({g.associate : g \in {h \in Seen("associates").gaps :
                                          AboutGap(h) /\ h.endedAt >= Since}})

\* lastActivity: the last completion or the last gap's end, whichever is later,
\* {} when there is neither.
LastActivity ==
    LET ends == {CompletedAt[m] : m \in Own(Seen("lastCompleted").rows)}
                \cup {g.endedAt : g \in {h \in Seen("lastIdleEnd").gaps :
                                            h.associate = Associate}}
    IN  {t \in ends : \A u \in ends : u <= t}

\* Mutant: the open gap starts with the window, whatever was done in it.
OpenGapFromWindow ==
    LET start == {Since : t \in {u \in LastActivity : u < askedAt}}
    IN  SumSet({(askedAt - t) \div TicksPerSecond : t \in start})

\* openGapSeconds: idle right now, clamped to the window.
OpenGapSeconds ==
    LET start == {Max({t, Since}) : t \in {u \in LastActivity : u < askedAt}}
    IN  SumSet({(askedAt - t) \div TicksPerSecond : t \in start})

\* UtilizationPct as task seconds over all seconds, {} for nil.
UtilizationPct ==
    LET total == TaskSeconds + IdleSeconds + OpenGapSeconds
    IN  {<<TaskSeconds, t>> : t \in {total} \ {0}}

-----------------------------------------------------------------------------
(***************************************************************************)
(* Properties.                                                             *)
(***************************************************************************)

Answered(q) == query = q /\ outcome = "answered"

\* A scorecard is coherent however many tasks are recorded while it is read:
\* it exists only for an associate with tasks, every task in the headline
\* count is in the breakdown, and the two differ by no more than what was
\* recorded between the two queries.
ScorecardCoherent ==
    Answered("scorecard") =>
        LET broken == SumFunction([t \in DOMAIN ByTaskType |-> ByTaskType[t].count])
        IN  /\ 0 < TaskCount /\ TaskCount <= broken
            /\ broken = TaskCount + Cardinality(Own(Seen("byTaskType").rows
                                                    \ Seen("totals").rows))

\* A trend is never called without enough scored tasks, nor in a direction that
\* no scored task of the recent window supports (ClassifyTrend: "never a
\* fabricated direction from a missing number").
TrendSupported ==
    Answered("scorecard") /\ Trend \in {"IMPROVING", "DECLINING"} =>
        /\ Cardinality(Scored(Own(Seen("recent").rows))) >= MinScoredForTrend
        /\ \E m \in RecentScored, o \in Scored(Own(Seen("totals").rows)) :
              \E p \in EfficiencyPct(m), q \in EfficiencyPct(o) :
                  IF Trend = "IMPROVING" THEN p > q ELSE p < q

\* The coaching flag is raised only for an associate whose latest scored tasks
\* are all below the floor, whatever unscored tasks lie between them and in
\* whatever order the completions were delivered.
CoachingJustified ==
    Answered("scorecard") /\ CoachingFlag =>
        LET scored == Scored(Own(Seen("recent").rows))
        IN  \E low \in kSubset(CoachingThreshold, scored) :
              /\ \A m \in low : \A p \in EfficiencyPct(m) : p < CoachingFloor
              /\ \A m \in low, o \in scored \ low : CompletedAt[o] < CompletedAt[m]

\* No second is counted both as work or recorded idleness and as the gap that
\* is still open, even when a completion is recorded while the answer is
\* being put together.
OpenGapAfterCounted ==
    Answered("utilization") /\ OpenGapSeconds > 0 =>
        \A t \in LastActivity :
            /\ \A m \in CountedTasks : CompletedAt[m] <= t
            /\ \A g \in CountedGaps : g.endedAt <= t

\* Idle time is never hidden, of an associate or of a task type: when a task
\* counts as work, the gap it ended counts as idleness if it ended in the
\* window, however many tasks are recorded while the sums are taken
\* (GetUtilization: "never diverges from what was actually recorded").
IdlenessNotHidden ==
    query # "scorecard" /\ outcome = "answered" =>
        \A m \in CountedTasks : \A i \in DOMAIN gaps :
            gaps[i].event = m /\ gaps[i].endedAt >= Since => gaps[i] \in CountedGaps

\* The idle seconds of a task type are some associate's: the count of
\* associates, queried apart, never leaves them without one.
IdlenessAttributed ==
    Answered("taskTypeUtilization") =>
        Associates >= Cardinality({g.associate : g \in CountedGaps})

\* The ticks of the clock that passed during the counted tasks, and during the
\* counted gaps.
TaskTicks == UNION {ClaimedAt(m) + 1 .. CompletedAt[m] : m \in CountedTasks}
GapTicks == UNION {g.startedAt + 1 .. g.endedAt : g \in CountedGaps}

\* The associate did the counted tasks one after another.
OneTaskAtATime ==
    \A m, n \in CountedTasks :
        m # n => CompletedAt[m] <= ClaimedAt(n) \/ CompletedAt[n] <= ClaimedAt(m)

\* Unless tasks overlap, the answer accounts for no more time than went by
\* between the first counted instant and now, or the last counted one when the
\* warehouse's clock is ahead of this service's.  The one surplus is the work of
\* a task delivered after a gap was recorded across it: it counts as work and as
\* idleness, and no other time counts twice.
UtilizationWithinElapsed ==
    Answered("utilization") /\ OneTaskAtATime =>
        \A pct \in UtilizationPct :
            LET starts == {ClaimedAt(m) : m \in CountedTasks}
                          \cup {g.startedAt : g \in CountedGaps} \cup {askedAt}
                          \cup {Max({t, Since}) : t \in LastActivity}
                ends   == {CompletedAt[m] : m \in CountedTasks}
                          \cup {g.endedAt : g \in CountedGaps} \cup {askedAt}
            IN  pct[2] * TicksPerSecond
                    <= Max(ends) - Min(starts) + Cardinality(TaskTicks \cap GapTicks)

=============================================================================

-------------------------- MODULE ReadModelsProofs ---------------------------
(***************************************************************************)
(* Proofs about the answers of the read side, for every set of consumers,  *)
(* messages and requests.  They rest on one fact about what the statements *)
(* of a request see: whatever is committed in between, a later statement   *)
(* sees all an earlier one saw, and a statement that sees a row sees the   *)
(* gap recorded with it.                                                   *)
(***************************************************************************)
EXTENDS ReadModels, RecordingProofs, SumTheorems

Snapshots == [rows : SUBSET Messages, gaps : SUBSET IdlePeriods]

\* A request that was answered ran all of its statements.
ReadTypeOK ==
    /\ saw \in Seq(Snapshots)
    /\ query # "none" => query \in Queries
    /\ outcome = "answered" => query # "none" /\ Len(saw) = Len(Plan[query])

\* A gap belongs to the associate of the task that ended it.
GapsOwned == \A i \in DOMAIN gaps : gaps[i].associate = AssociateId[gaps[i].event]

\* Whatever a statement saw is still in the tables.
SeenStays ==
    \A k \in DOMAIN saw : /\ saw[k].rows \subseteq Recorded
                          /\ \A g \in saw[k].gaps : \E i \in DOMAIN gaps : gaps[i] = g

\* A later statement sees what an earlier one saw.
SeenGrows ==
    \A k, l \in DOMAIN saw : k <= l => /\ saw[k].rows \subseteq saw[l].rows
                                       /\ saw[k].gaps \subseteq saw[l].gaps

\* A statement that sees a row sees the gap that its task ended.
SeenWhole ==
    \A k \in DOMAIN saw : \A i \in DOMAIN gaps :
        gaps[i].event \in saw[k].rows => gaps[i] \in saw[k].gaps

\* A scorecard gets past its first statement for an associate with a row only.
ScorecardFounded ==
    /\ query = "none" => saw = <<>>
    /\ query = "scorecard" /\ outcome \in {"pending", "answered"} /\ saw # <<>> =>
          Own(saw[1].rows) # {}

ReadInv == ReadTypeOK /\ GapsOwned /\ SeenStays /\ SeenGrows /\ SeenWhole /\ ScorecardFounded

\* Nothing was asked and nothing seen.
LEMMA ReadStart == ReadInit => ReadInv
BY DEF ReadInit, Init, ReadInv, ReadTypeOK, GapsOwned, SeenStays, SeenGrows, SeenWhole, Snapshots,
       ScorecardFounded

\* A step of the write side: a request is left alone, rows and gaps stay, and a
\* gap that is added is that of a row that was not there.
LEMMA WriteStep ==
    ASSUME TypeOK, InHand, OnceInv, ReadInv, [Next]_vars, UNCHANGED reader
    PROVE  ReadInv'
<1>1. CASE UNCHANGED database
  BY <1>1 DEF database, reader, ReadInv, ReadTypeOK, GapsOwned, SeenStays, SeenGrows, SeenWhole,
              ScorecardFounded, Own, Recorded
<1>2. ASSUME NEW c \in Consumers, Installs(c)
      PROVE  ReadInv'
  <2> DEFINE m == Msg(c)
             n == Len(gaps)
  <2>1. m \in Messages /\ rows[m] = NoRow
    BY <1>2, FreshEvent DEF Installs, TxSteps
  <2>2. Recorded \subseteq Recorded' /\ m \notin Recorded
    <3>1. rows' = [rows EXCEPT ![m] = standard[c]]
      BY <1>2, <2>1 DEF Installs, InstallWrites
    <3>2. \A x \in Messages : x # m => rows'[x] = rows[x]
      BY <3>1 DEF TypeOK, TablesTypeOK
    <3> HIDE DEF m
    <3>3. m \notin Recorded
      BY <2>1 DEF Recorded
    <3>4. ASSUME NEW x \in Recorded
          PROVE  x \in Recorded'
      <4>1. x \in Messages /\ rows[x] # NoRow /\ x # m
        BY <3>3 DEF Recorded
      <4>2. rows'[x] # NoRow
        BY <3>2, <4>1
      <4> QED
        BY <4>1, <4>2 DEF Recorded
    <3> QED
      BY <3>3, <3>4
  <2>3. /\ n \in Nat /\ DOMAIN gaps = 1 .. n /\ \A i \in 1 .. n : gaps'[i] = gaps[i]
        /\ \/ gaps' = gaps
           \/ /\ DOMAIN gaps' = 1 .. n + 1
              /\ gaps'[n + 1].event = m /\ gaps'[n + 1].associate = AssociateId[m]
    <3>1. \A t : IdlePeriod(m, t).event = m /\ IdlePeriod(m, t).associate = AssociateId[m]
      BY DEF IdlePeriod
    <3> HIDE DEF IdlePeriod
    <3> QED
      BY <1>2, <2>1, <3>1, GapsGrow DEF Installs, OnceInv
  <2> HIDE DEF m, n
  <2>4. /\ \A i \in DOMAIN gaps : i \in DOMAIN gaps' /\ gaps'[i] = gaps[i]
        /\ \A i \in DOMAIN gaps' \ DOMAIN gaps :
              gaps'[i].event = m /\ gaps'[i].associate = AssociateId[m]
    BY <2>3
  <2>5. saw' = saw /\ ReadTypeOK' /\ SeenGrows' /\ ScorecardFounded'
    BY DEF ReadInv, reader, ReadTypeOK, SeenGrows, ScorecardFounded, Own
  <2>6. GapsOwned'
    BY <2>4 DEF ReadInv, GapsOwned
  <2>7. SeenStays'
    <3> SUFFICES ASSUME NEW k \in DOMAIN saw
                 PROVE  /\ saw[k].rows \subseteq Recorded'
                        /\ \A g \in saw[k].gaps : \E i \in DOMAIN gaps' : gaps'[i] = g
      BY <2>5 DEF SeenStays
    <3> QED
      BY <2>2, <2>4 DEF ReadInv, SeenStays
  <2>8. SeenWhole'
    <3> SUFFICES ASSUME NEW k \in DOMAIN saw, NEW i \in DOMAIN gaps',
                        gaps'[i].event \in saw[k].rows
                 PROVE  gaps'[i] \in saw[k].gaps
      BY <2>5 DEF SeenWhole
    <3>1. i \in DOMAIN gaps
      BY <2>2, <2>4 DEF ReadInv, SeenStays
    <3> QED
      BY <2>4, <3>1 DEF ReadInv, SeenWhole
  <2> QED
    BY <2>5, <2>6, <2>7, <2>8 DEF ReadInv
<1>3. Elsewhere \/ (\E c \in Consumers : Quiet(c)) => UNCHANGED database
  BY DEF Elsewhere, Quiet, database
<1> QED
  BY <1>1, <1>2, <1>3, StepShape DEF OnceInv

\* The next statement sees the tables as they are: all an earlier one saw.
LEMMA StatementStep ==
    ASSUME TypeOK, ReadInv, RunStatement
    PROVE  ReadInv'
<1> DEFINE n == Len(saw)
<1>1. Snapshot \in Snapshots
  BY DEF Snapshot, Snapshots, Recorded, TypeOK, TablesTypeOK
<1>2. /\ UNCHANGED <<rows, gaps, query>> /\ saw' = Append(saw, Snapshot)
      /\ outcome = "pending"
      /\ outcome' = "answered" => n + 1 = Len(Plan[query])
      /\ query # "none"
  BY DEF RunStatement, vars, database
<1>3. saw \in Seq(Snapshots)
  BY DEF ReadInv, ReadTypeOK
<1>4. Snapshot.rows = Recorded /\ Snapshot.gaps = {gaps[i] : i \in DOMAIN gaps}
  BY DEF Snapshot
<1>5. /\ n \in Nat /\ DOMAIN saw = 1 .. n /\ DOMAIN saw' = 1 .. n + 1 /\ Len(saw') = n + 1
      /\ \A k \in 1 .. n : saw'[k] = saw[k]
      /\ saw'[n + 1] = Snapshot
      /\ saw' \in Seq(Snapshots)
  <2> HIDE DEF Snapshot, Snapshots
  <2> QED
    BY <1>1, <1>2, <1>3
<1> HIDE DEF n
<1>6. ReadTypeOK' /\ GapsOwned'
  BY <1>2, <1>5 DEF ReadInv, ReadTypeOK, GapsOwned
<1>7. SeenStays'
  <2> SUFFICES ASSUME NEW k \in DOMAIN saw'
               PROVE  /\ saw'[k].rows \subseteq Recorded'
                      /\ \A g \in saw'[k].gaps : \E i \in DOMAIN gaps' : gaps'[i] = g
    BY DEF SeenStays
  <2>1. Recorded' = Recorded /\ gaps' = gaps
    BY <1>2 DEF Recorded
  <2>2. CASE k \in DOMAIN saw
    BY <1>5, <2>1, <2>2 DEF ReadInv, SeenStays
  <2>3. CASE k = n + 1
    BY <1>4, <1>5, <2>1, <2>3
  <2> QED
    BY <1>5, <2>2, <2>3
<1>8. SeenGrows'
  <2> SUFFICES ASSUME NEW k \in DOMAIN saw', NEW l \in DOMAIN saw', k <= l
               PROVE  /\ saw'[k].rows \subseteq saw'[l].rows
                      /\ saw'[k].gaps \subseteq saw'[l].gaps
    BY DEF SeenGrows
  <2>1. CASE l \in DOMAIN saw
    BY <1>5, <2>1 DEF ReadInv, SeenGrows
  <2>2. CASE l = n + 1 /\ k \in DOMAIN saw
    BY <1>4, <1>5, <2>2 DEF ReadInv, SeenStays
  <2>3. CASE l = n + 1 /\ k = n + 1
    BY <2>3
  <2> QED
    BY <1>5, <2>1, <2>2, <2>3
<1>9. SeenWhole'
  <2> SUFFICES ASSUME NEW k \in DOMAIN saw', NEW i \in DOMAIN gaps,
                      gaps[i].event \in saw'[k].rows
               PROVE  gaps[i] \in saw'[k].gaps
    BY <1>2 DEF SeenWhole
  <2>1. CASE k \in DOMAIN saw
    BY <1>5, <2>1 DEF ReadInv, SeenWhole
  <2>2. CASE k = n + 1
    BY <1>4, <1>5, <2>2
  <2> QED
    BY <1>5, <2>1, <2>2
<1>10. ScorecardFounded'
  <2>1. CASE n = 0
    <3>1. saw = <<>> /\ Len(saw) = 0
      BY <1>3, <2>1 DEF n
    <3>2. query = "scorecard" /\ Own(Recorded) = {} => outcome' = "notFound"
      <4>1. query = "scorecard" => Len(Plan[query]) = 4
        BY DEF Plan, ScorecardPlan
      <4> HIDE DEF Plan
      <4> QED
        BY <3>1, <4>1 DEF RunStatement
    <3>3. saw'[1].rows = Recorded
      BY <1>4, <1>5, <2>1
    <3> QED
      BY <1>2, <3>1, <3>2, <3>3 DEF ScorecardFounded, Own
  <2>2. CASE n # 0
    <3>1. 1 \in 1 .. n
      BY <1>5, <2>2
    <3>2. saw # <<>> /\ saw'[1] = saw[1]
      BY <1>5, <3>1
    <3> QED
      BY <1>2, <3>2 DEF ReadInv, ScorecardFounded, Own
  <2> QED
    BY <2>1, <2>2
<1> QED
  BY <1>6, <1>7, <1>8, <1>9, <1>10 DEF ReadInv

\* Reading and writing steps keep what statements saw in order.
LEMMA ReadStep ==
    ASSUME TypeOK, InHand, OnceInv, ReadInv, [ReadNext]_<<vars, reader>>
    PROVE  ReadInv'
<1>1. CASE Next /\ UNCHANGED reader
  BY <1>1, WriteStep
<1>2. CASE RunStatement
  BY <1>2, StatementStep
<1>3. ASSUME NEW q \in Queries, NEW t \in Instants, NEW w \in WindowParams \cup {0},
             Ask(q, t, w)
      PROVE  ReadInv'
  <2>1. UNCHANGED <<rows, gaps, saw>> /\ query = "none" /\ query' \in Queries
        /\ outcome' = outcome
    BY <1>3 DEF Ask, vars, database
  <2>2. query' # "none"
    BY <2>1 DEF Queries, Plan
  <2>3. ScorecardFounded'
    BY <2>1, <2>2 DEF ReadInv, ScorecardFounded
  <2> QED
    BY <2>1, <2>3 DEF ReadInv, ReadTypeOK, GapsOwned, SeenStays, SeenGrows, SeenWhole, Recorded
<1>4. CASE ReadFails
  <2>1. UNCHANGED <<rows, gaps, saw, query>> /\ outcome' = "failed"
    BY <1>4 DEF ReadFails, vars, database
  <2> QED
    BY <2>1 DEF ReadInv, ReadTypeOK, GapsOwned, SeenStays, SeenGrows, SeenWhole, Recorded,
                ScorecardFounded
<1>5. CASE UNCHANGED <<vars, reader>>
  BY <1>5, WriteStep
<1> QED
  BY <1>1, <1>2, <1>3, <1>4, <1>5 DEF ReadNext

\* The read side changes no table, so what is true of the write side stays so.
LEMMA ReadsWriteNothing == ReadSpec => Spec
<1>1. ReadInit => Init
  BY DEF ReadInit
<1>2. [ReadNext]_<<vars, reader>> => [Next]_vars
  BY DEF ReadNext, Ask, RunStatement, ReadFails
<1> QED
  BY <1>1, <1>2, PTL DEF ReadSpec, Spec

\* Hence it holds in every reachable state, with what Recording keeps.
LEMMA ReadAlways == ReadSpec => [](TypeOK /\ OnceInv /\ ReadInv)
<1>1. TypeOK /\ InHand /\ OnceInv /\ ReadInv /\ [ReadNext]_<<vars, reader>> => ReadInv'
  BY ReadStep
<1> QED
  BY <1>1, ReadStart, ReadsWriteNothing, TypeCorrect, OnceAlways, PTL DEF ReadSpec

-----------------------------------------------------------------------------
(***************************************************************************)
(* Only well-formed completions are recorded.                              *)
(***************************************************************************)

OnlyCompleted ==
    /\ \A m \in Recorded : Kind[m] = "completed"
    /\ \A c \in Consumers : pc[c] \in TxSteps \ {"marked"} => Kind[Msg(c)] = "completed"

\* A transaction goes on past its marker only for a completion.
LEMMA CompletedStep ==
    ASSUME TypeOK, InHand, OnceInv, OnlyCompleted, [Next]_vars
    PROVE  OnlyCompleted'
<1> USE DEF kafka, database, consumer, Transition
<1> DEFINE Scoring == TxSteps \ {"marked"}
<1>1. ASSUME NEW c \in Consumers,
             \/ ResolveStandard(c) \/ ResolvePrevious(c) \/ SavePerformance(c)
             \/ RecordIdleGap(c) \/ Publish(c)
      PROVE  OnlyCompleted'
  <2>1. UNCHANGED <<log, rows, part, off>> /\ \E to \in Scoring : pc' = [pc EXCEPT ![c] = to]
    BY <1>1 DEF ResolveStandard, ResolvePrevious, SavePerformance, RecordIdleGap, Publish, TxSteps
  <2>2. Kind[Msg(c)] = "completed"
    BY <1>1 DEF ResolveStandard, ResolvePrevious, SavePerformance, RecordIdleGap, Publish,
                OnlyCompleted, TxSteps
  <2>3. /\ \A d \in Consumers : Msg(d)' = Msg(d)
        /\ \A d \in Consumers \ {c} : pc'[d] = pc[d]
        /\ Recorded' = Recorded
    BY <2>1 DEF Msg, Recorded, TypeOK, ConsumerTypeOK
  <2> HIDE DEF Scoring
  <2> QED
    BY <2>2, <2>3 DEF OnlyCompleted
<1>2. ASSUME NEW c \in Consumers,
             \/ (\E p \in Partitions : Fetch(c, p)) \/ SkipOtherType(c) \/ RejectData(c)
             \/ MarkProcessed(c) \/ SkipProcessed(c) \/ RejectTask(c) \/ DeadLetter(c)
             \/ Acknowledge(c) \/ Fenced(c) \/ Restart(c) \/ StatementFails(c)
             \/ StopHandling(c) \/ DeadLetterFails(c) \/ AcknowledgeFails(c) \/ Crash(c)
      PROVE  OnlyCompleted'
  <2>1. /\ log' = log /\ rows' = rows
        /\ \E to \in PcValues \ Scoring : pc' = [pc EXCEPT ![c] = to]
        /\ \A d \in Consumers \ {c} : part'[d] = part[d] /\ off'[d] = off[d]
    BY <1>2 DEF Fetch, SkipOtherType, RejectData, MarkProcessed, SkipProcessed, RejectTask,
                DeadLetter, Acknowledge, Fenced, Restart, StatementFails, StopHandling,
                DeadLetterFails, AcknowledgeFails, Crash, FailAttempt, StopRetrying, PcValues,
                TxSteps, TypeOK, ConsumerTypeOK
  <2>2. /\ \A d \in Consumers \ {c} : Msg(d)' = Msg(d) /\ pc'[d] = pc[d]
        /\ pc'[c] \notin Scoring
        /\ Recorded' = Recorded
    BY <2>1 DEF Msg, Recorded, TypeOK, ConsumerTypeOK
  <2> QED
    BY <2>2 DEF OnlyCompleted
<1>3. ASSUME NEW c \in Consumers, Commit(c) \/ CommitUnknown(c)
      PROVE  OnlyCompleted'
  <2>1. /\ UNCHANGED <<log, part, off>> /\ pc[c] = "published" /\ InstallWrites(c)
        /\ \E to \in {"handle", "dlq", "ack"} : pc' = [pc EXCEPT ![c] = to]
    BY <1>3 DEF Commit, CommitUnknown, FailAttempt, StopRetrying
  <2>2. Kind[Msg(c)] = "completed"
    BY <2>1 DEF OnlyCompleted, TxSteps
  <2>3. Recorded' \subseteq Recorded \cup {Msg(c)}
    <3>1. \A m \in Messages : m # Msg(c) => rows'[m] = rows[m]
      BY <2>1 DEF InstallWrites, TypeOK, TablesTypeOK
    <3> QED
      BY <3>1 DEF Recorded
  <2>4. /\ \A d \in Consumers : Msg(d)' = Msg(d)
        /\ \A d \in Consumers \ {c} : pc'[d] = pc[d]
        /\ pc'[c] \notin Scoring
    BY <2>1 DEF Msg, TypeOK, ConsumerTypeOK, TxSteps
  <2> QED
    BY <2>2, <2>3, <2>4 DEF OnlyCompleted
<1>4. (\E c \in Consumers, p \in Partitions : Rebalance(c, p)) \/ UNCHANGED vars =>
          UNCHANGED <<log, rows, pc, part, off>>
  BY DEF Rebalance, vars
<1>5. UNCHANGED <<log, rows, pc, part, off>> => OnlyCompleted'
  BY DEF OnlyCompleted, Recorded, Msg
<1> QED
  BY <1>1, <1>2, <1>3, <1>4, <1>5 DEF Next, Progress, Failure, AwaitMessages

\* Hence it holds in every reachable state.
LEMMA CompletedAlways == Spec => []OnlyCompleted
<1>1. Init => OnlyCompleted
  BY DEF Init, OnlyCompleted, Recorded, TxSteps
<1>2. TypeOK /\ InHand /\ OnceInv /\ OnlyCompleted /\ [Next]_vars => OnlyCompleted'
  BY CompletedStep
<1> QED
  BY <1>1, <1>2, TypeCorrect, OnceAlways, PTL DEF Spec

-----------------------------------------------------------------------------
(***************************************************************************)
(* What the statements of an answered request saw.                         *)
(***************************************************************************)

\* A statement is found by its place in the plan.
LEMMA SeenAt ==
    ASSUME NEW s, NEW k \in DOMAIN Plan[query], Plan[query][k] = s,
           \A i \in DOMAIN Plan[query] : Plan[query][i] = s => i = k
    PROVE  Seen(s) = saw[k]
BY DEF Seen

\* The sums of an associate's utilization, and the last activity read after them.
LEMMA AssociateAnswer ==
    ASSUME ReadTypeOK, Answered("utilization")
    PROVE  /\ DOMAIN saw = 1 .. 4
           /\ Seen("taskSeconds") = saw[1] /\ Seen("idleSeconds") = saw[2]
           /\ Seen("lastCompleted") = saw[3] /\ Seen("lastIdleEnd") = saw[4]
<1>1. Plan[query] = AssociatePlan /\ Len(saw) = Len(Plan[query])
  BY DEF ReadTypeOK, Answered, Plan
<1>2. Len(AssociatePlan) = 4 /\ DOMAIN AssociatePlan = 1 .. 4
  BY DEF AssociatePlan
<1>3. DOMAIN saw = 1 .. 4
  BY <1>1, <1>2 DEF ReadTypeOK
<1>4. /\ AssociatePlan[1] = "taskSeconds" /\ AssociatePlan[2] = "idleSeconds"
      /\ AssociatePlan[3] = "lastCompleted" /\ AssociatePlan[4] = "lastIdleEnd"
  BY DEF AssociatePlan
<1>5. \A i \in 1 .. 4 : i = 1 \/ i = 2 \/ i = 3 \/ i = 4
  OBVIOUS
<1>6. Seen("taskSeconds") = saw[1]
  BY <1>1, <1>2, <1>4, <1>5, SeenAt
<1>7. Seen("idleSeconds") = saw[2]
  BY <1>1, <1>2, <1>4, <1>5, SeenAt
<1>8. Seen("lastCompleted") = saw[3]
  BY <1>1, <1>2, <1>4, <1>5, SeenAt
<1>9. Seen("lastIdleEnd") = saw[4]
  BY <1>1, <1>2, <1>4, <1>5, SeenAt
<1> QED
  BY <1>3, <1>6, <1>7, <1>8, <1>9

\* The sums of a task type's utilization, and the count of associates after them.
LEMMA TaskTypeAnswer ==
    ASSUME ReadTypeOK, Answered("taskTypeUtilization")
    PROVE  /\ DOMAIN saw = 1 .. 3
           /\ Seen("taskSeconds") = saw[1] /\ Seen("idleSeconds") = saw[2]
           /\ Seen("associates") = saw[3]
<1>1. Plan[query] = TaskTypePlan /\ Len(saw) = Len(Plan[query])
  BY DEF ReadTypeOK, Answered, Plan
<1>2. Len(TaskTypePlan) = 3 /\ DOMAIN TaskTypePlan = 1 .. 3
  BY DEF TaskTypePlan
<1>3. DOMAIN saw = 1 .. 3
  BY <1>1, <1>2 DEF ReadTypeOK
<1>4. /\ TaskTypePlan[1] = "taskSeconds" /\ TaskTypePlan[2] = "idleSeconds"
      /\ TaskTypePlan[3] = "associates"
  BY DEF TaskTypePlan
<1>5. \A i \in 1 .. 3 : i = 1 \/ i = 2 \/ i = 3
  OBVIOUS
<1>6. Seen("taskSeconds") = saw[1]
  BY <1>1, <1>2, <1>4, <1>5, SeenAt
<1>7. Seen("idleSeconds") = saw[2]
  BY <1>1, <1>2, <1>4, <1>5, SeenAt
<1>8. Seen("associates") = saw[3]
  BY <1>1, <1>2, <1>4, <1>5, SeenAt
<1> QED
  BY <1>3, <1>6, <1>7, <1>8

-----------------------------------------------------------------------------
(***************************************************************************)
(* Utilization.                                                            *)
(***************************************************************************)

\* The last activity is no earlier than anything counted: no second is counted
\* both as work or recorded idleness and as the gap that is still open,
\* whatever is recorded while the answer is being put together.
THEOREM OpenGapComesLast == ReadSpec => []OpenGapAfterCounted
<1>1. ReadInv => OpenGapAfterCounted
  <2> SUFFICES ASSUME ReadInv, Answered("utilization"), NEW t \in LastActivity
               PROVE  /\ \A m \in CountedTasks : CompletedAt[m] <= t
                      /\ \A g \in CountedGaps : g.endedAt <= t
    BY DEF OpenGapAfterCounted
  <2>1. /\ DOMAIN saw = 1 .. 4
        /\ Seen("taskSeconds") = saw[1] /\ Seen("idleSeconds") = saw[2]
        /\ Seen("lastCompleted") = saw[3] /\ Seen("lastIdleEnd") = saw[4]
    BY AssociateAnswer DEF ReadInv
  <2>2. saw[1].rows \subseteq saw[3].rows /\ saw[2].gaps \subseteq saw[4].gaps
    BY <2>1 DEF ReadInv, SeenGrows
  <2>3. query = "utilization"
    BY DEF Answered
  <2>4. ASSUME NEW m \in CountedTasks
        PROVE  CompletedAt[m] <= t
    <3>1. m \in Own(Seen("lastCompleted").rows)
      BY <2>1, <2>2, <2>3 DEF CountedTasks, AboutTask, Own
    <3> QED
      BY <3>1 DEF LastActivity
  <2>5. ASSUME NEW g \in CountedGaps
        PROVE  g.endedAt <= t
    <3>1. g \in {h \in Seen("lastIdleEnd").gaps : h.associate = Associate}
      BY <2>1, <2>2, <2>3 DEF CountedGaps, AboutGap
    <3> QED
      BY <3>1 DEF LastActivity
  <2> QED
    BY <2>4, <2>5
<1> QED
  BY <1>1, ReadAlways, PTL

\* When a task counts as work, the gap it ended counts as idleness if it ended
\* in the window, of an associate and of a task type, whatever is recorded
\* between the two sums.
THEOREM IdlenessCounted == ReadSpec => []IdlenessNotHidden
<1>1. ReadInv => IdlenessNotHidden
  <2> SUFFICES ASSUME ReadInv, query # "scorecard", outcome = "answered",
                      NEW m \in CountedTasks, NEW i \in DOMAIN gaps,
                      gaps[i].event = m, gaps[i].endedAt >= Since
               PROVE  gaps[i] \in CountedGaps
    BY DEF IdlenessNotHidden
  <2>1. query = "utilization" \/ query = "taskTypeUtilization"
    BY DEF ReadInv, ReadTypeOK, Queries, Plan
  <2>2. /\ 1 \in DOMAIN saw /\ 2 \in DOMAIN saw
        /\ Seen("taskSeconds") = saw[1] /\ Seen("idleSeconds") = saw[2]
    BY <2>1, AssociateAnswer, TaskTypeAnswer DEF ReadInv, Answered
  <2>3. m \in saw[1].rows /\ AboutTask(m)
    BY <2>2 DEF CountedTasks
  <2>4. gaps[i] \in saw[2].gaps
    BY <2>2, <2>3 DEF ReadInv, SeenWhole, SeenGrows
  <2>5. AboutGap(gaps[i])
    BY <2>3 DEF ReadInv, GapsOwned, AboutTask, AboutGap
  <2> QED
    BY <2>2, <2>4, <2>5 DEF CountedGaps
<1> QED
  BY <1>1, ReadAlways, PTL

\* The gaps a statement saw are finitely many.
LEMMA SeenGapsFinite ==
    ASSUME TypeOK, ReadInv, NEW k \in DOMAIN saw
    PROVE  IsFiniteSet(saw[k].gaps)
<1> DEFINE S == {i \in DOMAIN gaps : gaps[i] \in saw[k].gaps}
           f == [i \in S |-> gaps[i]]
<1>1. IsFiniteSet(S)
  <2>1. DOMAIN gaps = 1 .. Len(gaps) /\ Len(gaps) \in Nat
    BY DEF TypeOK, TablesTypeOK
  <2>2. IsFiniteSet(1 .. Len(gaps))
    BY <2>1, FS_Interval
  <2> QED
    BY <2>1, <2>2, FS_Subset
<1>2. f \in Surjection(S, saw[k].gaps)
  <2>1. \A g \in saw[k].gaps : \E i \in S : gaps[i] = g
    BY DEF ReadInv, SeenStays
  <2> QED
    BY <2>1 DEF Surjection
<1> QED
  BY <1>1, <1>2, FS_Surjection

\* A gap's seconds do not exceed the time between its ends.
GapsMeasured ==
    \A i \in DOMAIN gaps :
        /\ gaps[i].seconds \in Nat
        /\ gaps[i].seconds * TicksPerSecond <= gaps[i].endedAt - gaps[i].startedAt

\* Truncation to whole seconds loses time and never adds any.
LEMMA WholeSeconds ==
    ASSUME NEW x \in Nat
    PROVE  x \div TicksPerSecond \in Nat /\ (x \div TicksPerSecond) * TicksPerSecond <= x
<1>1. TicksPerSecond \in Nat /\ TicksPerSecond > 0
  BY TicksAssumption
<1> QED
  BY <1>1

\* So does clipping a gap at the cap.
LEMMA GapMeasured ==
    ASSUME NEW m \in Messages, NEW t \in Int, GapIsPositive(t, ClaimedAt(m))
    PROVE  LET g == IdlePeriod(m, t)
           IN  g.seconds \in Nat /\ g.seconds * TicksPerSecond <= g.endedAt - g.startedAt
<1> DEFINE x == ClaimedAt(m) - t
           raw == RawGapSeconds(t, ClaimedAt(m))
           cap == EffectiveCap(IdleGapCapSeconds)
           seconds == GapSeconds(t, ClaimedAt(m), cap)
<1>1. x \in Nat
  BY ClaimBeforeCompletion DEF GapIsPositive
<1>2. raw \in Nat /\ raw * TicksPerSecond <= x
  BY <1>1, WholeSeconds DEF RawGapSeconds
<1>3. cap \in Nat
  BY BoundAssumption DEF EffectiveCap, DefaultIdleGapCapSeconds
<1>4. seconds \in Nat /\ seconds <= raw
  BY <1>2, <1>3 DEF GapSeconds, GapCapped
<1> HIDE DEF x, raw, cap, seconds
<1>5. TicksPerSecond \in Nat
  BY TicksAssumption
<1>6. seconds * TicksPerSecond <= raw * TicksPerSecond
  BY <1>2, <1>4, <1>5
<1>7. seconds * TicksPerSecond \in Nat /\ raw * TicksPerSecond \in Nat
  BY <1>2, <1>4, <1>5
<1>8. seconds * TicksPerSecond <= x
  BY <1>1, <1>2, <1>6, <1>7
<1> QED
  BY <1>4, <1>8 DEF IdlePeriod, seconds, cap, x

\* Every recorded gap is measured.
LEMMA MeasuredAlways == Spec => []GapsMeasured
<1>1. Init => GapsMeasured
  BY DEF Init, GapsMeasured
<1>2. TypeOK /\ InHand /\ OnceInv /\ GapsMeasured /\ [Next]_vars => GapsMeasured'
  <2> SUFFICES ASSUME TypeOK, InHand, OnceInv, GapsMeasured, [Next]_vars
               PROVE  GapsMeasured'
    OBVIOUS
  <2>1. CASE UNCHANGED database
    BY <2>1 DEF database, GapsMeasured
  <2>2. ASSUME NEW c \in Consumers, Installs(c)
        PROVE  GapsMeasured'
    <3> DEFINE m == Msg(c)
               n == Len(gaps)
    <3>1. m \in Messages
      BY <2>2, FreshEvent DEF Installs, TxSteps
    <3>2. /\ n \in Nat /\ DOMAIN gaps = 1 .. n
          /\ \A i \in 1 .. n : gaps'[i] = gaps[i]
          /\ \/ gaps' = gaps
             \/ \E t \in previous[c] : /\ GapIsPositive(t, ClaimedAt(m))
                                       /\ DOMAIN gaps' = 1 .. n + 1
                                       /\ gaps'[n + 1] = IdlePeriod(m, t)
      BY <2>2, <3>1, GapsGrow DEF Installs, OnceInv
    <3> HIDE DEF m, n
    <3>3. CASE gaps' = gaps
      BY <3>3 DEF GapsMeasured
    <3>4. ASSUME NEW t \in previous[c], GapIsPositive(t, ClaimedAt(m)),
                 DOMAIN gaps' = 1 .. n + 1, gaps'[n + 1] = IdlePeriod(m, t)
          PROVE  GapsMeasured'
      <4>1. t \in Int
        BY DEF TypeOK, ConsumerTypeOK
      <4>2. ASSUME NEW i \in 1 .. n + 1
            PROVE  /\ gaps'[i].seconds \in Nat
                   /\ gaps'[i].seconds * TicksPerSecond
                      <= gaps'[i].endedAt - gaps'[i].startedAt
        <5>1. CASE i \in 1 .. n
          BY <3>2, <5>1 DEF GapsMeasured
        <5>2. CASE i = n + 1
          BY <3>1, <3>4, <4>1, <5>2, GapMeasured
        <5> QED
          BY <3>2, <5>1, <5>2
      <4> QED
        BY <3>4, <4>2 DEF GapsMeasured
    <3> QED
      BY <3>2, <3>3, <3>4
  <2>3. Elsewhere \/ (\E c \in Consumers : Quiet(c)) => UNCHANGED database
    BY DEF Elsewhere, Quiet, database
  <2> QED
    BY <2>1, <2>2, <2>3, StepShape DEF OnceInv, database, GapsMeasured
<1> QED
  BY <1>1, <1>2, TypeCorrect, OnceAlways, PTL DEF Spec

\* The instant and the window of a request are numbers.
AskedInTime == askedAt \in Int /\ window \in Int

\* They are set once, by the request.
LEMMA AskedAlways == ReadSpec => []AskedInTime
<1>1. ReadInit => AskedInTime
  BY DEF ReadInit, AskedInTime
<1>2. AskedInTime /\ [ReadNext]_<<vars, reader>> => AskedInTime'
  <2> SUFFICES ASSUME AskedInTime, [ReadNext]_<<vars, reader>>
               PROVE  AskedInTime'
    OBVIOUS
  <2>1. ASSUME NEW q \in Queries, NEW t \in Instants, NEW w \in WindowParams \cup {0}, Ask(q, t, w)
        PROVE  AskedInTime'
    BY <2>1, ReadAssumption DEF Ask, AskedInTime
  <2>2. UNCHANGED <<askedAt, window>> => AskedInTime'
    BY DEF AskedInTime
  <2> QED
    BY <2>1, <2>2 DEF ReadNext, RunStatement, ReadFails, reader
<1> QED
  BY <1>1, <1>2, PTL DEF ReadSpec

\* The associates of the gaps a statement saw are finitely many.
LEMMA AssociatesFinite ==
    ASSUME TypeOK, ReadInv, NEW k \in DOMAIN saw
    PROVE  IsFiniteSet({g.associate : g \in saw[k].gaps})
<1> DEFINE S == {i \in DOMAIN gaps : gaps[i] \in saw[k].gaps}
           T == {g.associate : g \in saw[k].gaps}
           f == [i \in S |-> gaps[i].associate]
<1>1. IsFiniteSet(S)
  <2>1. DOMAIN gaps = 1 .. Len(gaps) /\ Len(gaps) \in Nat
    BY DEF TypeOK, TablesTypeOK
  <2>2. IsFiniteSet(1 .. Len(gaps))
    BY <2>1, FS_Interval
  <2> QED
    BY <2>1, <2>2, FS_Subset
<1>2. f \in Surjection(S, T)
  <2>1. \A g \in saw[k].gaps : \E i \in S : gaps[i] = g
    BY DEF ReadInv, SeenStays
  <2> QED
    BY <2>1 DEF Surjection
<1> QED
  BY <1>1, <1>2, FS_Surjection

\* The count of associates of a task type's answer, queried apart, covers every
\* associate whose idle seconds were summed.
THEOREM IdlenessHasOwners == ReadSpec => []IdlenessAttributed
<1>1. TypeOK /\ ReadInv => IdlenessAttributed
  <2> SUFFICES ASSUME TypeOK, ReadInv, Answered("taskTypeUtilization")
               PROVE  Associates >= Cardinality({g.associate : g \in CountedGaps})
    BY DEF IdlenessAttributed
  <2> DEFINE Late == {h \in Seen("associates").gaps : AboutGap(h) /\ h.endedAt >= Since}
             A == {g.associate : g \in Late}
             B == {g.associate : g \in CountedGaps}
  <2>1. /\ 2 \in DOMAIN saw /\ 3 \in DOMAIN saw
        /\ Seen("idleSeconds") = saw[2] /\ Seen("associates") = saw[3]
    BY TaskTypeAnswer
    DEF ReadInv
  <2>2. CountedGaps \subseteq Late
    <3>1. saw[2].gaps \subseteq saw[3].gaps
      BY <2>1 DEF ReadInv, SeenGrows
    <3> QED
      BY <2>1, <3>1 DEF CountedGaps
  <2>3. B \subseteq A
    BY <2>2
  <2>4. IsFiniteSet(A)
    <3>1. IsFiniteSet({g.associate : g \in saw[3].gaps})
      BY <2>1, AssociatesFinite
    <3>2. A \subseteq {g.associate : g \in saw[3].gaps}
      BY <2>1
    <3> QED
      BY <3>1, <3>2, FS_Subset
  <2>5. Cardinality(B) <= Cardinality(A)
    BY <2>3, <2>4, FS_Subset
  <2>6. Cardinality(A) \in Nat /\ Cardinality(B) \in Nat
    BY <2>3, <2>4, FS_Subset, FS_CardinalityType
  <2>7. Associates = Cardinality(A)
    BY DEF Associates
  <2> HIDE DEF A, B
  <2>8. Associates >= Cardinality(B)
    BY <2>5, <2>6, <2>7
  <2> QED
    BY <2>8 DEF B
<1> QED
  BY <1>1, ReadAlways, PTL


-----------------------------------------------------------------------------
(***************************************************************************)
(* The scorecard.                                                          *)
(***************************************************************************)

\* The four statements of a scorecard; the first found a row of the associate.
LEMMA ScorecardAnswer ==
    ASSUME ReadInv, Answered("scorecard")
    PROVE  /\ DOMAIN saw = 1 .. 4 /\ Own(saw[1].rows) # {}
           /\ Seen("totals") = saw[2] /\ Seen("byTaskType") = saw[3]
           /\ Seen("recent") = saw[4]
<1>1. Plan[query] = ScorecardPlan /\ Len(saw) = Len(Plan[query])
  BY DEF ReadInv, ReadTypeOK, Answered, Plan
<1>2. Len(ScorecardPlan) = 4 /\ DOMAIN ScorecardPlan = 1 .. 4
  BY DEF ScorecardPlan
<1>3. DOMAIN saw = 1 .. 4
  BY <1>1, <1>2 DEF ReadInv, ReadTypeOK
<1>4. /\ ScorecardPlan[1] = "exists" /\ ScorecardPlan[2] = "totals"
      /\ ScorecardPlan[3] = "byTaskType" /\ ScorecardPlan[4] = "recent"
  BY DEF ScorecardPlan
<1>5. \A i \in 1 .. 4 : i = 1 \/ i = 2 \/ i = 3 \/ i = 4
  OBVIOUS
<1>6. Seen("totals") = saw[2]
  BY <1>1, <1>2, <1>4, <1>5, SeenAt
<1>7. Seen("byTaskType") = saw[3]
  BY <1>1, <1>2, <1>4, <1>5, SeenAt
<1>8. Seen("recent") = saw[4]
  BY <1>1, <1>2, <1>4, <1>5, SeenAt
<1>9. Own(saw[1].rows) # {}
  <2>1. saw # <<>>
    BY <1>3
  <2> QED
    BY <2>1 DEF ReadInv, ScorecardFounded, Answered
<1> QED
  BY <1>3, <1>6, <1>7, <1>8, <1>9

\* Only finitely many tasks are ever recorded: each was announced.
LEMMA RecordedFinite ==
    ASSUME TypeOK, OnceInv
    PROVE  IsFiniteSet(Recorded)
<1> DEFINE S == {i \in DOMAIN outbox : outbox[i].event \in Recorded}
           f == [i \in S |-> outbox[i].event]
<1>1. IsFiniteSet(S)
  <2>1. DOMAIN outbox = 1 .. Len(outbox) /\ Len(outbox) \in Nat
    BY DEF TypeOK, TablesTypeOK
  <2>2. IsFiniteSet(1 .. Len(outbox))
    BY <2>1, FS_Interval
  <2> QED
    BY <2>1, <2>2, FS_Subset
<1>2. f \in Surjection(S, Recorded)
  <2>1. ASSUME NEW m \in Recorded
        PROVE  \E i \in S : outbox[i].event = m
    <3>1. m \in Messages /\ "analytics" \in Topics /\ rows[m] # NoRow
      BY DEF Recorded, Topics
    <3>2. \E i \in DOMAIN outbox : outbox[i].event = m
      BY <3>1 DEF OnceInv, RecordedTogether
    <3> QED
      BY <3>2
  <2> QED
    BY <2>1 DEF Surjection
<1> QED
  BY <1>1, <1>2, FS_Surjection

\* The tasks of the associate a statement saw are finitely many.
LEMMA OwnSeenFinite ==
    ASSUME TypeOK, OnceInv, ReadInv, NEW k \in DOMAIN saw
    PROVE  IsFiniteSet(Own(saw[k].rows))
<1>1. Own(saw[k].rows) \subseteq Recorded
  BY DEF ReadInv, SeenStays, Own
<1> QED
  BY <1>1, RecordedFinite, FS_Subset

\* However many tasks are recorded while a scorecard is read, it exists only
\* for an associate with tasks, the breakdown covers every task of the headline
\* count, and what it has more was recorded between the two queries.
THEOREM ScorecardHoldsTogether == ReadSpec => []ScorecardCoherent
<1>1. TypeOK /\ OnceInv /\ ReadInv => ScorecardCoherent
  <2> SUFFICES ASSUME TypeOK, OnceInv, ReadInv, Answered("scorecard")
               PROVE  LET broken == SumFunction([t \in DOMAIN ByTaskType |-> ByTaskType[t].count])
                      IN  /\ 0 < TaskCount /\ TaskCount <= broken
                          /\ broken = TaskCount + Cardinality(Own(Seen("byTaskType").rows
                                                                  \ Seen("totals").rows))
    BY DEF ScorecardCoherent
  <2> DEFINE one == Own(saw[2].rows)
             two == Own(saw[3].rows)
             new == Own(saw[3].rows \ saw[2].rows)
             K == {TaskType(m) : m \in two}
             key == [m \in two |-> TaskType(m)]
             h == [t \in DOMAIN ByTaskType |-> ByTaskType[t].count]
  <2>1. /\ DOMAIN saw = 1 .. 4 /\ Own(saw[1].rows) # {}
        /\ Seen("totals") = saw[2] /\ Seen("byTaskType") = saw[3]
    BY ScorecardAnswer
  <2>2. Own(saw[1].rows) \subseteq one /\ one \subseteq two /\ two = one \cup new
        /\ one \cap new = {}
    <3>1. saw[1].rows \subseteq saw[2].rows /\ saw[2].rows \subseteq saw[3].rows
      BY <2>1 DEF ReadInv, SeenGrows
    <3> QED
      BY <3>1 DEF Own
  <2>3. IsFiniteSet(one) /\ IsFiniteSet(two) /\ IsFiniteSet(new)
    <3>1. IsFiniteSet(one) /\ IsFiniteSet(two)
      BY <2>1, OwnSeenFinite
    <3> QED
      BY <2>2, <3>1, FS_Subset
  <2>4. TaskCount = Cardinality(one)
    BY <2>1 DEF TaskCount
  <2>5. SumFunction(h) = Cardinality(two)
    <3>1. DOMAIN h = K /\ key \in [two -> K]
      BY <2>1 DEF ByTaskType
    <3>2. IsFiniteSet(K)
      <4>1. key \in Surjection(two, K)
        BY DEF Surjection
      <4> QED
        BY <2>3, <4>1, FS_Surjection
    <3>3. \A t \in K : h[t] = Cardinality({m \in two : key[m] = t})
      <4> SUFFICES ASSUME NEW t \in K
                   PROVE  h[t] = Cardinality({m \in two : key[m] = t})
        OBVIOUS
      <4>1. {m \in two : TaskType(m) = t} = {m \in two : key[m] = t}
        OBVIOUS
      <4>2. t \in DOMAIN ByTaskType /\ h[t] = ByTaskType[t].count
        BY <3>1
      <4>3. ByTaskType[t].count = Cardinality({m \in two : TaskType(m) = t})
        BY <2>1 DEF ByTaskType
      <4> QED
        BY <4>1, <4>2, <4>3
    <3> HIDE DEF h, key, K, two
    <3>4. SumFunctionOnSet(h, K) = Cardinality(two)
      BY <2>3, <3>1, <3>2, <3>3, CountOfGroups
    <3> QED
      BY <3>1, <3>4 DEF SumFunction
  <2>6. Cardinality(two) = Cardinality(one) + Cardinality(new)
    <3>1. Cardinality(two) = Cardinality(one) + Cardinality(new) - Cardinality(one \cap new)
      BY <2>2, <2>3, FS_Union
    <3>2. Cardinality(one \cap new) = 0
      BY <2>2, FS_EmptySet
    <3> QED
      BY <2>3, <3>1, <3>2, FS_CardinalityType
  <2>7. Cardinality(one) \in Nat /\ Cardinality(new) \in Nat /\ Cardinality(one) # 0
    BY <2>1, <2>2, <2>3, FS_CardinalityType, FS_EmptySet
  <2> HIDE DEF h, one, two, new
  <2>8. 0 < Cardinality(one) /\ Cardinality(one) <= Cardinality(two)
    BY <2>6, <2>7
  <2> QED
    BY <2>1, <2>4, <2>5, <2>6, <2>8 DEF h, new
<1> QED
  BY <1>1, ReadAlways, PTL


\* What the tasks completed last are: none of the others was completed later.
LEMMA LatestAreLatest ==
    ASSUME NEW S \in SUBSET Messages, IsFiniteSet(S), NEW k \in Nat,
           NEW m \in Latest(S, k), NEW o \in S \ Latest(S, k)
    PROVE  CompletedAt[o] < CompletedAt[m]
<1> DEFINE Later(n) == {x \in S : CompletedAt[x] > CompletedAt[n]}
<1>1. m \in S /\ Cardinality(Later(m)) < k /\ ~(Cardinality(Later(o)) < k)
  BY DEF Latest
<1>2. CompletedAt[m] \in Int /\ CompletedAt[o] \in Int /\ \A x \in S : CompletedAt[x] \in Int
  BY <1>1, MessageAssumption
<1>3. ASSUME CompletedAt[o] >= CompletedAt[m]
      PROVE  FALSE
  <2>1. Later(o) \subseteq Later(m)
    BY <1>2, <1>3
  <2>2. IsFiniteSet(Later(m)) /\ IsFiniteSet(Later(o))
    BY FS_Subset
  <2> HIDE DEF Later
  <2>3. Cardinality(Later(o)) <= Cardinality(Later(m))
    BY <2>1, <2>2, FS_Subset
  <2>4. Cardinality(Later(o)) \in Nat /\ Cardinality(Later(m)) \in Nat
    BY <2>2, FS_CardinalityType
  <2> QED
    BY <1>1, <2>3, <2>4
<1> QED
  BY <1>2, <1>3

\* And how many: as many as asked for, if there are, unless some coincide.
LEMMA LatestCount ==
    ASSUME NEW S \in SUBSET Messages, IsFiniteSet(S),
           \A m, n \in S : CompletedAt[m] = CompletedAt[n] => m = n,
           NEW k \in Nat, k <= Cardinality(S)
    PROVE  Cardinality(Latest(S, k)) = k
<1> DEFINE Later(n) == {x \in S : CompletedAt[x] > CompletedAt[n]}
           N == Cardinality(S)
           rank == [m \in S |-> Cardinality(Later(m))]
<1>1. \A m \in S : CompletedAt[m] \in Int
  BY MessageAssumption
<1>2. N \in Nat /\ \A m \in S : IsFiniteSet(Later(m)) /\ Cardinality(Later(m)) \in Nat
  <2>1. \A m \in S : IsFiniteSet(Later(m))
    BY FS_Subset
  <2> HIDE DEF Later
  <2> QED
    BY <2>1, FS_CardinalityType
<1>3. ASSUME NEW m \in S, NEW n \in S, CompletedAt[n] < CompletedAt[m]
      PROVE  Cardinality(Later(m)) < Cardinality(Later(n))
  <2>1. Later(m) \subseteq Later(n) /\ m \in Later(n) /\ m \notin Later(m)
    BY <1>1, <1>3
  <2> HIDE DEF Later
  <2>2. /\ Cardinality(Later(m)) <= Cardinality(Later(n))
        /\ Cardinality(Later(n)) = Cardinality(Later(m)) => Later(n) = Later(m)
    BY <1>2, <2>1, FS_Subset
  <2> QED
    BY <1>2, <2>1, <2>2
<1>4. rank \in [S -> 0 .. N - 1]
  <2> SUFFICES ASSUME NEW m \in S
               PROVE  Cardinality(Later(m)) \in 0 .. N - 1
    OBVIOUS
  <2>1. Later(m) \subseteq S /\ m \notin Later(m)
    BY <1>1
  <2> HIDE DEF Later
  <2>2. /\ Cardinality(Later(m)) <= N
        /\ N = Cardinality(Later(m)) => S = Later(m)
    BY <2>1, FS_Subset
  <2> QED
    BY <1>2, <2>1, <2>2
<1>5. \A m, n \in S : rank[m] = rank[n] => m = n
  <2> SUFFICES ASSUME NEW m \in S, NEW n \in S, rank[m] = rank[n]
               PROVE  m = n
    OBVIOUS
  <2>1. ~(CompletedAt[n] < CompletedAt[m]) /\ ~(CompletedAt[m] < CompletedAt[n])
    BY <1>2, <1>3
  <2> QED
    BY <1>1, <2>1
<1>6. Latest(S, k) = {m \in S : rank[m] < k}
  BY DEF Latest
<1> HIDE DEF rank, N
<1>7. \A i \in 0 .. N - 1 : \E m \in S : rank[m] = i
  <2>1. rank \in Injection(S, 0 .. N - 1)
    BY <1>4, <1>5 DEF Injection, IsInjective
  <2>2. IsFiniteSet(0 .. N - 1) /\ Cardinality(0 .. N - 1) = N
    BY <1>2, FS_Interval
  <2>3. rank \in Surjection(S, 0 .. N - 1)
    BY <2>1, <2>2, FS_Injection DEF N
  <2> QED
    BY <2>3 DEF Surjection
<1>8. Cardinality(Latest(S, k)) = Cardinality(0 .. k - 1)
  <2> DEFINE f == [m \in Latest(S, k) |-> rank[m]]
  <2>1. f \in [Latest(S, k) -> 0 .. k - 1]
    BY <1>2, <1>4, <1>6
  <2>2. f \in Injection(Latest(S, k), 0 .. k - 1)
    BY <1>5, <1>6, <2>1 DEF Injection, IsInjective
  <2>3. f \in Surjection(Latest(S, k), 0 .. k - 1)
    <3> SUFFICES ASSUME NEW i \in 0 .. k - 1
                 PROVE  \E m \in Latest(S, k) : f[m] = i
      BY <2>1 DEF Surjection
    <3>1. i \in 0 .. N - 1
      BY <1>2 DEF N
    <3> QED
      BY <1>6, <1>7, <3>1
  <2>4. IsFiniteSet(Latest(S, k))
    BY <1>6, FS_Subset
  <2> HIDE DEF f
  <2> QED
    BY <2>2, <2>3, <2>4, FS_Surjection
<1> QED
  BY <1>8, FS_Interval


\* The flag is raised only for an associate whose latest scored tasks, as many
\* as the threshold says, are all below the floor: unscored tasks between them,
\* a recent window cut short and the order of delivery make no difference.
THEOREM CoachingFlagJustified == ReadSpec => []CoachingJustified
<1>1. TypeOK /\ OnceInv /\ OnlyCompleted /\ ReadInv => CoachingJustified
  <2> DEFINE own == Own(Seen("recent").rows)
             scored == Scored(own)
             recent == Latest(own, RecentWindowSize)
             low == Latest(RecentScored, CoachingThreshold)
  <2> SUFFICES ASSUME TypeOK, OnceInv, OnlyCompleted, ReadInv, Answered("scorecard"), CoachingFlag
               PROVE  \E s \in kSubset(CoachingThreshold, scored) :
                         /\ \A m \in s : \A p \in EfficiencyPct(m) : p < CoachingFloor
                         /\ \A m \in s, o \in scored \ s : CompletedAt[o] < CompletedAt[m]
    BY DEF CoachingJustified
  <2>1. /\ IsFiniteSet(own) /\ own \in SUBSET Messages
        /\ \A m \in own : AssociateId[m] = Associate /\ Kind[m] = "completed"
    <3>1. 4 \in DOMAIN saw /\ Seen("recent") = saw[4]
      BY ScorecardAnswer
    <3>2. own \subseteq Recorded
      BY <3>1 DEF ReadInv, SeenStays, Own
    <3>3. \A m \in own : AssociateId[m] = Associate
      BY DEF Own
    <3> QED
      BY <3>1, <3>2, <3>3, OwnSeenFinite DEF OnlyCompleted, Recorded
  <2> HIDE DEF own
  <2>2. RecentScored = {m \in recent : EfficiencyPct(m) # {}}
    BY DEF RecentScored, Scored, own
  <2>3. /\ recent \subseteq own /\ RecentScored \subseteq scored /\ RecentScored \subseteq own
        /\ scored \ RecentScored \subseteq own \ recent
    BY <2>2 DEF Latest, Scored
  <2>4. IsFiniteSet(RecentScored) /\ RecentScored \in SUBSET Messages
    BY <2>1, <2>3, FS_Subset
  <2>5. /\ Cardinality(RecentScored) >= CoachingThreshold
        /\ \A m \in low : \A p \in EfficiencyPct(m) : p < CoachingFloor
    BY DEF CoachingFlag, DetectCoachingFlag
  <2>6. \A m, n \in RecentScored : CompletedAt[m] = CompletedAt[n] => m = n
    BY <2>1, <2>3, ReadAssumption
  <2>7. CoachingThreshold \in Nat /\ RecentWindowSize \in Nat
    BY ReadAssumption
  <2>8. Cardinality(low) = CoachingThreshold
    <3>1. CoachingThreshold <= Cardinality(RecentScored)
      BY <2>4, <2>5, <2>7, FS_CardinalityType
    <3> QED
      BY <2>4, <2>6, <2>7, <3>1, LatestCount
  <2>9. low \subseteq RecentScored
    BY DEF Latest
  <2>10. ASSUME NEW m \in low, NEW o \in scored \ low
         PROVE  CompletedAt[o] < CompletedAt[m]
    <3>1. CASE o \in RecentScored
      BY <2>4, <2>7, <2>10, <3>1, LatestAreLatest
    <3>2. CASE o \notin RecentScored
      <4>1. o \in own \ recent /\ m \in recent
        BY <2>2, <2>3, <2>9, <2>10, <3>2
      <4> QED
        BY <2>1, <2>7, <4>1, LatestAreLatest
    <3> QED
      BY <3>1, <3>2
  <2>11. low \in kSubset(CoachingThreshold, scored)
    BY <2>3, <2>8, <2>9 DEF kSubset
  <2> QED
    BY <2>5, <2>10, <2>11
<1>2. ReadSpec => []OnlyCompleted
  BY ReadsWriteNothing, CompletedAlways
<1> QED
  BY <1>1, <1>2, ReadAlways, PTL


\* The efficiency of a recorded task is one natural number, or nil.
LEMMA EfficiencyIsOne ==
    ASSUME TypeOK, NEW m \in Recorded
    PROVE  EfficiencyPct(m) = {} \/ \E p \in Nat : EfficiencyPct(m) = {p}
<1> DEFINE p == (100 * rows[m]) \div ActualSeconds[m]
<1>1. rows[m] \in Nat /\ ActualSeconds[m] \in Nat
  BY BoundAssumption, MessageAssumption DEF Recorded, TypeOK, TablesTypeOK
<1>2. CASE rows[m] > 0 /\ ActualSeconds[m] > 0
  <2>1. p \in Nat
    BY <1>1, <1>2
  <2>2. EfficiencyPct(m) = {p}
    BY <1>2 DEF EfficiencyPct
  <2> QED
    BY <2>1, <2>2
<1>3. CASE ~(rows[m] > 0 /\ ActualSeconds[m] > 0)
  BY <1>3 DEF EfficiencyPct
<1> QED
  BY <1>2, <1>3

\* A direction is called only for a difference of the threshold at least.
LEMMA DirectionCalled ==
    ASSUME NEW sr \in Nat, NEW a \in Nat, NEW sb \in Nat, NEW b \in Nat, NEW n,
           ~(n < MinScoredForTrend)
    PROVE  LET trend == ClassifyTrend({<<sr, a>>}, {<<sb, b>>}, n)
           IN  /\ trend = "IMPROVING" => sr * b - sb * a >= TrendThresholdPct * a * b
               /\ trend = "DECLINING" => sr * b - sb * a <= - (TrendThresholdPct * a * b)
<1> DEFINE r == CHOOSE x \in {<<sr, a>>} : TRUE
           s == CHOOSE x \in {<<sb, b>>} : TRUE
           diff == r[1] * s[2] - s[1] * r[2]
           threshold == TrendThresholdPct * r[2] * s[2]
<1>1. r = <<sr, a>> /\ s = <<sb, b>>
  OBVIOUS
<1>2. diff = sr * b - sb * a /\ threshold = TrendThresholdPct * a * b
  BY <1>1
<1>3. ClassifyTrend({<<sr, a>>}, {<<sb, b>>}, n) =
          CASE diff >= threshold   -> "IMPROVING"
            [] diff <= - threshold -> "DECLINING"
            [] OTHER               -> "STABLE"
  BY DEF ClassifyTrend
<1> HIDE DEF diff, threshold
<1> QED
  BY <1>2, <1>3

\* A trend is called only with enough scored tasks in the recent window, and in
\* a direction that some of them took: no direction is fabricated.
THEOREM TrendIsSupported == ReadSpec => []TrendSupported
<1>1. TypeOK /\ OnceInv /\ ReadInv => TrendSupported
  <2> DEFINE R == RecentScored
             B == Scored(Own(Seen("totals").rows))
             f == [m \in Recorded |-> SumSet(EfficiencyPct(m))]
             sr == SumFunctionOnSet(f, R)
             sb == SumFunctionOnSet(f, B)
             a == Cardinality(R)
             b == Cardinality(B)
  <2> SUFFICES ASSUME TypeOK, OnceInv, ReadInv, Answered("scorecard"),
                      Trend \in {"IMPROVING", "DECLINING"}
               PROVE  /\ Cardinality(Scored(Own(Seen("recent").rows))) >= MinScoredForTrend
                      /\ \E m \in R, o \in B :
                            \E p \in EfficiencyPct(m), q \in EfficiencyPct(o) :
                                IF Trend = "IMPROVING" THEN p > q ELSE p < q
    BY DEF TrendSupported
  <2>1. /\ Own(Seen("recent").rows) \subseteq Recorded
        /\ Own(Seen("totals").rows) \subseteq Recorded
    <3>1. 2 \in DOMAIN saw /\ 4 \in DOMAIN saw /\ Seen("recent") = saw[4] /\ Seen("totals") = saw[2]
      BY ScorecardAnswer
    <3> QED
      BY <3>1 DEF ReadInv, SeenStays, Own
  <2>2. /\ R \subseteq Scored(Own(Seen("recent").rows)) /\ Scored(R) = R
        /\ R \subseteq Recorded /\ B \subseteq Recorded
        /\ Scored(Own(Seen("recent").rows)) \subseteq Recorded
    BY <2>1 DEF RecentScored, Scored, Latest
  <2>3. IsFiniteSet(R) /\ IsFiniteSet(B) /\ IsFiniteSet(Scored(Own(Seen("recent").rows)))
    BY <2>2, RecordedFinite, FS_Subset
  <2>4. \A m \in R \cup B : f[m] \in Nat /\ EfficiencyPct(m) = {f[m]}
    <3> SUFFICES ASSUME NEW m \in R \cup B
                 PROVE  f[m] \in Nat /\ EfficiencyPct(m) = {f[m]}
      OBVIOUS
    <3>1. m \in Recorded /\ EfficiencyPct(m) # {}
      BY <2>2 DEF Scored, RecentScored
    <3>2. PICK p \in Nat : EfficiencyPct(m) = {p}
      BY <3>1, EfficiencyIsOne
    <3>3. f[m] = p
      BY <3>1, <3>2, SumOfOne
    <3> QED
      BY <3>2, <3>3
  <2>5. Natural(f, R) /\ Natural(f, B)
    BY <2>4 DEF Natural
  <2>6. ASSUME NEW ms \in SUBSET Recorded, IsFiniteSet(Scored(ms)), Natural(f, Scored(ms))
        PROVE  MeanEfficiencyPct(ms) =
                  {<<SumFunctionOnSet(f, Scored(ms)), n>> : n \in {Cardinality(Scored(ms))} \ {0}}
    <3> DEFINE g == [m \in Scored(ms) |-> SumSet(EfficiencyPct(m))]
    <3>1. \A m \in Scored(ms) : g[m] = f[m]
      BY <2>6 DEF Scored
    <3>2. SumFunction(g) = SumFunctionOnSet(g, Scored(ms))
      BY DEF SumFunction
    <3> HIDE DEF f
    <3>3. SumFunctionOnSet(g, Scored(ms)) = SumFunctionOnSet(f, Scored(ms))
      <4> HIDE DEF g
      <4> QED
        BY <2>6, <3>1, SumAgrees
    <3>4. SumFunction(g) = SumFunctionOnSet(f, Scored(ms))
      BY <3>2, <3>3
    <3> QED
      BY <3>4 DEF MeanEfficiencyPct
  <2>7. /\ MeanEfficiencyPct(R) = {<<sr, n>> : n \in {a} \ {0}}
        /\ MeanEfficiencyPct(Own(Seen("totals").rows)) = {<<sb, n>> : n \in {b} \ {0}}
    <3>1. B = Scored(Own(Seen("totals").rows))
      OBVIOUS
    <3> HIDE DEF R, B, f
    <3>2. MeanEfficiencyPct(R) = {<<sr, n>> : n \in {a} \ {0}}
      BY <2>2, <2>3, <2>5, <2>6
    <3>3. MeanEfficiencyPct(Own(Seen("totals").rows)) = {<<sb, n>> : n \in {b} \ {0}}
      BY <2>1, <2>3, <2>5, <2>6, <3>1
    <3> QED
      BY <3>2, <3>3
  <2>8. sr \in Nat /\ sb \in Nat /\ a \in Nat /\ b \in Nat
    BY <2>3, <2>5, SumSteps, FS_CardinalityType
  <2>9. Trend = ClassifyTrend(MeanEfficiencyPct(R), MeanEfficiencyPct(Own(Seen("totals").rows)), a)
    BY DEF Trend
  <2> HIDE DEF R, B, f, sr, sb, a, b
  <2>10. /\ ~(a < MinScoredForTrend) /\ a # 0 /\ b # 0
         /\ Trend = "IMPROVING" => sr * b - sb * a >= TrendThresholdPct * a * b
         /\ Trend = "DECLINING" => sr * b - sb * a <= - (TrendThresholdPct * a * b)
    <3>1. ~(\/ MeanEfficiencyPct(R) = {} \/ MeanEfficiencyPct(Own(Seen("totals").rows)) = {}
            \/ a < MinScoredForTrend)
      BY <2>9 DEF ClassifyTrend
    <3>2. a # 0 /\ b # 0
      BY <2>7, <3>1
    <3>3. Trend = ClassifyTrend({<<sr, a>>}, {<<sb, b>>}, a)
      <4>1. /\ MeanEfficiencyPct(R) = {<<sr, a>>}
            /\ MeanEfficiencyPct(Own(Seen("totals").rows)) = {<<sb, b>>}
        BY <2>7, <3>2
      <4> QED
        BY <2>9, <4>1
    <3> QED
      BY <2>8, <3>1, <3>2, <3>3, DirectionCalled
  <2>11. Cardinality(Scored(Own(Seen("recent").rows))) >= MinScoredForTrend
    <3>1. a <= Cardinality(Scored(Own(Seen("recent").rows)))
      BY <2>2, <2>3, FS_Subset DEF a
    <3> QED
      BY <2>3, <2>8, <2>10, <3>1, FS_CardinalityType, ReadAssumption
  <2>12. TrendThresholdPct * a * b > 0
    <3>1. TrendThresholdPct * a \in Nat \ {0}
      BY <2>8, <2>10, ReadAssumption
    <3> QED
      BY <2>8, <2>10, <3>1
  <2>13. TrendThresholdPct * a * b \in Nat /\ sr * b \in Nat /\ sb * a \in Nat
    BY <2>8, ReadAssumption
  <2>14. R # {} /\ B # {}
    BY <2>3, <2>10, FS_EmptySet DEF a, b
  <2>15. CASE Trend = "IMPROVING"
    <3>1. sr * b > sb * a
      BY <2>10, <2>12, <2>13, <2>15
    <3>2. \E m \in R, o \in B : ~(f[m] <= f[o])
      BY <2>3, <2>5, <2>8, <2>13, <2>14, <3>1, MeansCompare DEF sr, sb, a, b
    <3>3. PICK m \in R, o \in B : f[m] > f[o]
      BY <2>4, <3>2
    <3>4. f[m] \in EfficiencyPct(m) /\ f[o] \in EfficiencyPct(o)
      BY <2>4
    <3> QED
      BY <2>11, <2>15, <3>3, <3>4
  <2>16. CASE Trend = "DECLINING"
    <3>1. sr * b < sb * a
      BY <2>10, <2>12, <2>13, <2>16
    <3>2. \E m \in R, o \in B : ~(f[o] <= f[m])
      BY <2>3, <2>5, <2>8, <2>13, <2>14, <3>1, MeansCompare DEF sr, sb, a, b
    <3>3. PICK m \in R, o \in B : f[m] < f[o]
      BY <2>4, <3>2
    <3>4. f[m] \in EfficiencyPct(m) /\ f[o] \in EfficiencyPct(o)
      BY <2>4
    <3> QED
      BY <2>11, <2>16, <3>3, <3>4
  <2> QED
    BY <2>15, <2>16
<1> QED
  BY <1>1, ReadAlways, PTL

-----------------------------------------------------------------------------
(***************************************************************************)
(* Utilization accounts for no more time than there was.                   *)
(***************************************************************************)

\* Where two works or gaps may not overlap.
Apart(a, b, x, y) == b <= x \/ y <= a

\* The tasks counted for an associate.
LEMMA TasksCounted ==
    ASSUME TypeOK, OnceInv, ReadInv, Answered("utilization")
    PROVE  /\ IsFiniteSet(CountedTasks) /\ CountedTasks \subseteq Messages
           /\ \A m \in CountedTasks : AssociateId[m] = Associate
<1>1. 1 \in DOMAIN saw /\ Seen("taskSeconds") = saw[1] /\ query = "utilization"
  BY AssociateAnswer DEF ReadInv, Answered
<1>2. /\ CountedTasks \subseteq Recorded
      /\ \A m \in CountedTasks : AssociateId[m] = Associate
  BY <1>1 DEF CountedTasks, AboutTask, ReadInv, SeenStays
<1> QED
  BY <1>2, RecordedFinite, FS_Subset DEF Recorded

\* The gaps counted for an associate lie apart, with a single consumer.
LEMMA GapsCounted ==
    ASSUME TypeOK, ReadInv, GapBeforeCompletion, GapsDisjoint, GapsMeasured,
           Answered("utilization")
    PROVE  /\ IsFiniteSet(CountedGaps)
           /\ \A g \in CountedGaps :
                 /\ g.startedAt \in Int /\ g.endedAt \in Int /\ g.startedAt <= g.endedAt
                 /\ g.seconds \in Nat
                 /\ g.seconds * TicksPerSecond <= g.endedAt - g.startedAt
           /\ \A g, h \in CountedGaps :
                 g # h => Apart(g.startedAt, g.endedAt, h.startedAt, h.endedAt)
<1>1. 2 \in DOMAIN saw /\ Seen("idleSeconds") = saw[2] /\ query = "utilization"
  BY AssociateAnswer DEF ReadInv, Answered
<1>2. CountedGaps \in SUBSET saw[2].gaps /\ IsFiniteSet(saw[2].gaps)
  BY <1>1, SeenGapsFinite DEF CountedGaps
<1>3. \A g \in CountedGaps : \E i \in DOMAIN gaps : gaps[i] = g
  BY <1>1, <1>2 DEF ReadInv, SeenStays
<1>4. \A g \in CountedGaps : g.associate = Associate
  BY <1>1 DEF CountedGaps, AboutGap
<1>5. ASSUME NEW g \in CountedGaps
      PROVE  /\ g.startedAt \in Int /\ g.endedAt \in Int /\ g.startedAt <= g.endedAt
             /\ g.seconds \in Nat
             /\ g.seconds * TicksPerSecond <= g.endedAt - g.startedAt
  <2>1. PICK i \in DOMAIN gaps : gaps[i] = g
    BY <1>3
  <2>2. g \in IdlePeriods
    BY <2>1 DEF TypeOK, TablesTypeOK
  <2>3. g.startedAt \in Int /\ g.endedAt \in Int
    BY <2>2 DEF IdlePeriods
  <2>4. g.startedAt < g.endedAt
    BY <2>1 DEF GapBeforeCompletion
  <2> QED
    BY <2>1, <2>3, <2>4 DEF GapsMeasured
<1>6. ASSUME NEW g \in CountedGaps, NEW h \in CountedGaps, g # h
      PROVE  Apart(g.startedAt, g.endedAt, h.startedAt, h.endedAt)
  <2>1. PICK i \in DOMAIN gaps : gaps[i] = g
    BY <1>3
  <2>2. PICK j \in DOMAIN gaps : gaps[j] = h
    BY <1>3
  <2>3. i # j /\ gaps[i].associate = gaps[j].associate
    BY <1>4, <1>6, <2>1, <2>2
  <2> QED
    BY <2>1, <2>2, <2>3 DEF GapsDisjoint, Apart
<1> QED
  BY <1>2, <1>5, <1>6, FS_Subset

\* There is one last activity at most, and it is an instant.
LEMMA LastActivityIsOne ==
    ASSUME TypeOK, ReadInv, Answered("utilization")
    PROVE  LastActivity \subseteq Int /\ \A t, u \in LastActivity : t = u
<1> DEFINE ends == {CompletedAt[m] : m \in Own(Seen("lastCompleted").rows)}
                   \cup {g.endedAt : g \in {h \in Seen("lastIdleEnd").gaps :
                                               h.associate = Associate}}
<1>1. /\ 3 \in DOMAIN saw /\ 4 \in DOMAIN saw
      /\ Seen("lastCompleted") = saw[3] /\ Seen("lastIdleEnd") = saw[4]
  BY AssociateAnswer DEF ReadInv
<1>2. \A m \in saw[3].rows : m \in Messages
  BY <1>1 DEF ReadInv, SeenStays, Recorded
<1>3. \A g \in saw[4].gaps : g.endedAt \in Int
  <2>1. ASSUME NEW g \in saw[4].gaps
        PROVE  g.endedAt \in Int
    <3>1. PICK i \in DOMAIN gaps : gaps[i] = g
      BY <1>1 DEF ReadInv, SeenStays
    <3>2. g \in IdlePeriods
      BY <3>1 DEF TypeOK, TablesTypeOK
    <3> QED
      BY <3>2 DEF IdlePeriods
  <2> QED
    BY <2>1
<1>4. ends \subseteq Int
  BY <1>1, <1>2, <1>3, MessageAssumption DEF Own
<1>5. LastActivity = {t \in ends : \A u \in ends : u <= t}
  BY DEF LastActivity
<1> HIDE DEF ends
<1>6. LastActivity \subseteq Int
  BY <1>4, <1>5
<1>7. ASSUME NEW t \in LastActivity, NEW u \in LastActivity
      PROVE  t = u
  <2>1. t \in Int /\ u \in Int
    BY <1>6
  <2>2. t <= u /\ u <= t
    BY <1>5
  <2> QED
    BY <2>1, <2>2
<1> QED
  BY <1>6, <1>7

\* A window begins no later than now.
LEMMA SinceIsPast ==
    ASSUME AskedInTime
    PROVE  Since \in Int /\ Since <= askedAt
<1> DEFINE w == IF window <= 0 THEN DefaultUtilizationWindow ELSE window
<1>1. w \in Nat /\ TicksPerSecond \in Nat /\ askedAt \in Int
  BY ReadAssumption, TicksAssumption DEF AskedInTime
<1>2. Since = askedAt - TicksPerSecond * w
  BY DEF Since
<1> HIDE DEF w
<1>3. TicksPerSecond * w \in Nat
  BY <1>1
<1> QED
  BY <1>1, <1>2, <1>3

\* The later of two instants.
LEMMA LaterOfTwo ==
    ASSUME NEW t \in Int, NEW u \in Int
    PROVE  Max({t, u}) \in {t, u} /\ t <= Max({t, u}) /\ u <= Max({t, u})
<1>1. IsFiniteSet({t})
  BY FS_Singleton
<1>2. IsFiniteSet({t} \cup {u})
  BY <1>1, FS_AddElement
<1>3. {t, u} = {t} \cup {u} /\ {t, u} \in SUBSET Int /\ {t, u} # {}
  OBVIOUS
<1> QED
  BY <1>2, <1>3, Extremes

\* The open gap is time between the last activity, or the start of the window,
\* and now.
LEMMA OpenGapIsOpen ==
    ASSUME TypeOK, ReadInv, AskedInTime, Answered("utilization")
    PROVE  \/ OpenGapSeconds = 0
           \/ \E t \in LastActivity : LET u == Max({t, Since}) IN
                 /\ u \in Int /\ t \in Int /\ t <= u /\ u <= askedAt
                 /\ OpenGapSeconds \in Nat
                 /\ OpenGapSeconds * TicksPerSecond <= askedAt - u
<1> DEFINE before == {u \in LastActivity : u < askedAt}
           start == {Max({t, Since}) : t \in before}
<1>1. OpenGapSeconds = SumSet({(askedAt - t) \div TicksPerSecond : t \in start})
  BY DEF OpenGapSeconds
<1>2. CASE before = {}
  <2>1. {(askedAt - t) \div TicksPerSecond : t \in start} = {}
    BY <1>2
  <2> QED
    BY <1>1, <2>1, SumOfOne
<1>3. ASSUME NEW t \in LastActivity, t < askedAt
      PROVE  LET u == Max({t, Since}) IN
                 /\ u \in Int /\ t \in Int /\ t <= u /\ u <= askedAt
                 /\ OpenGapSeconds \in Nat
                 /\ OpenGapSeconds * TicksPerSecond <= askedAt - u
  <2> DEFINE u == Max({t, Since})
             x == askedAt - u
  <2>1. t \in Int /\ Since \in Int /\ askedAt \in Int /\ Since <= askedAt
    BY LastActivityIsOne, SinceIsPast DEF AskedInTime
  <2>2. u \in {t, Since} /\ t <= u
    BY <2>1, LaterOfTwo
  <2>3. before = {t}
    BY <1>3, LastActivityIsOne
  <2>4. {(askedAt - v) \div TicksPerSecond : v \in start} = {x \div TicksPerSecond}
    BY <2>3
  <2> HIDE DEF u, start, before
  <2>5. u \in Int /\ u <= askedAt /\ x \in Nat
    BY <1>3, <2>1, <2>2
  <2> HIDE DEF x
  <2>6. x \div TicksPerSecond \in Nat /\ (x \div TicksPerSecond) * TicksPerSecond <= x
    BY <2>5, WholeSeconds
  <2>7. OpenGapSeconds = x \div TicksPerSecond
    BY <1>1, <2>4, <2>6, SumOfOne
  <2> QED
    BY <2>1, <2>2, <2>5, <2>6, <2>7 DEF u, x
<1> QED
  BY <1>2, <1>3

\* Counted tasks done one after another take at least the time they add up to.
LEMMA TasksTakeTime ==
    ASSUME TypeOK, OnceInv, ReadInv, Answered("utilization"), OneTaskAtATime
    PROVE  /\ IsFiniteSet(TaskTicks) /\ TaskSeconds \in Nat
           /\ TaskSeconds * TicksPerSecond <= Cardinality(TaskTicks)
<1> DEFINE lo == [m \in CountedTasks |-> ClaimedAt(m)]
           hi == [m \in CountedTasks |-> CompletedAt[m]]
           h == [m \in CountedTasks |-> CompletedAt[m] - ClaimedAt(m)]
<1>1. /\ IsFiniteSet(CountedTasks) /\ TicksPerSecond \in Nat
      /\ \A m \in CountedTasks : /\ m \in Messages /\ ActualSeconds[m] \in Nat
                                 /\ CompletedAt[m] \in Int
  BY TasksCounted, MessageAssumption, TicksAssumption
<1>2. \A m \in CountedTasks : ClaimedAt(m) \in Int /\ ClaimedAt(m) <= CompletedAt[m]
  BY <1>1, ClaimBeforeCompletion
<1>3. ASSUME NEW m \in CountedTasks
      PROVE  /\ ActualSeconds[m] * TicksPerSecond = CompletedAt[m] - ClaimedAt(m)
             /\ CompletedAt[m] - ClaimedAt(m) \in Nat
  <2>1. ActualSeconds[m] * TicksPerSecond \in Nat
    BY <1>1
  <2> QED
    BY <1>1, <2>1 DEF ClaimedAt
<1>4. /\ \A m \in CountedTasks : /\ lo[m] \in Int /\ hi[m] \in Int /\ lo[m] <= hi[m]
                                 /\ h[m] = hi[m] - lo[m]
      /\ \A m, n \in CountedTasks : m # n => hi[m] <= lo[n] \/ hi[n] <= lo[m]
  BY <1>1, <1>2 DEF OneTaskAtATime
<1>5. TaskTicks = UNION {lo[m] + 1 .. hi[m] : m \in CountedTasks}
  BY DEF TaskTicks
<1>6. Natural(ActualSeconds, CountedTasks) /\ Natural(h, CountedTasks)
  BY <1>1, <1>3 DEF Natural
<1>7. \A m \in CountedTasks : ActualSeconds[m] * TicksPerSecond <= h[m]
  BY <1>3
<1> HIDE DEF lo, hi, h
<1>8. IsFiniteSet(TaskTicks) /\ SumFunctionOnSet(h, CountedTasks) = Cardinality(TaskTicks)
  BY <1>1, <1>4, <1>5, LengthsOfApart
<1>9. TaskSeconds * TicksPerSecond <= SumFunctionOnSet(h, CountedTasks)
  BY <1>1, <1>6, <1>7, SumScaled DEF TaskSeconds
<1>10. TaskSeconds \in Nat
  BY <1>1, <1>6, SumSteps DEF TaskSeconds
<1> QED
  BY <1>8, <1>9, <1>10

\* The counted gaps take at least the time they add up to.
LEMMA GapsTakeTime ==
    ASSUME TypeOK, ReadInv, GapBeforeCompletion, GapsDisjoint, GapsMeasured,
           Answered("utilization")
    PROVE  /\ IsFiniteSet(GapTicks) /\ IdleSeconds \in Nat
           /\ IdleSeconds * TicksPerSecond <= Cardinality(GapTicks)
<1> DEFINE lo == [g \in CountedGaps |-> g.startedAt]
           hi == [g \in CountedGaps |-> g.endedAt]
           h == [g \in CountedGaps |-> g.endedAt - g.startedAt]
           f == [g \in CountedGaps |-> g.seconds]
<1>1. IsFiniteSet(CountedGaps) /\ TicksPerSecond \in Nat
  BY GapsCounted, TicksAssumption
<1>2. /\ \A g \in CountedGaps : /\ lo[g] \in Int /\ hi[g] \in Int /\ lo[g] <= hi[g]
                                /\ h[g] = hi[g] - lo[g]
      /\ \A g, k \in CountedGaps : g # k => hi[g] <= lo[k] \/ hi[k] <= lo[g]
  BY GapsCounted DEF Apart
<1>3. GapTicks = UNION {lo[g] + 1 .. hi[g] : g \in CountedGaps}
  BY DEF GapTicks
<1>4. Natural(f, CountedGaps) /\ Natural(h, CountedGaps)
  BY GapsCounted DEF Natural
<1>5. \A g \in CountedGaps : f[g] * TicksPerSecond <= h[g]
  BY GapsCounted
<1>6. DOMAIN f = CountedGaps /\ IdleSeconds = SumFunction(f)
  BY DEF IdleSeconds
<1> HIDE DEF lo, hi, h, f
<1>7. IsFiniteSet(GapTicks) /\ SumFunctionOnSet(h, CountedGaps) = Cardinality(GapTicks)
  BY <1>1, <1>2, <1>3, LengthsOfApart
<1>8. IdleSeconds = SumFunctionOnSet(f, CountedGaps)
  BY <1>6 DEF SumFunction
<1>9. IdleSeconds * TicksPerSecond <= SumFunctionOnSet(h, CountedGaps)
  BY <1>1, <1>4, <1>5, <1>8, SumScaled
<1>10. IdleSeconds \in Nat
  BY <1>1, <1>4, <1>8, SumSteps
<1> QED
  BY <1>7, <1>9, <1>10

\* What lies in an interval takes no more than its length and what is shared.
LEMMA FitTogether ==
    ASSUME NEW lo \in Int, NEW hi \in Int, lo <= hi,
           NEW A \in SUBSET (lo + 1 .. hi), NEW B \in SUBSET (lo + 1 .. hi),
           NEW C \in SUBSET (lo + 1 .. hi),
           A \cap C = {}, B \cap C = {}
    PROVE  /\ Cardinality(A) + Cardinality(B) + Cardinality(C)
                  <= hi - lo + Cardinality(A \cap B)
           /\ Cardinality(A \cap B) \in Nat
<1>1. IsFiniteSet(lo + 1 .. hi) /\ Cardinality(lo + 1 .. hi) = hi - lo
  <2>1. lo + 1 \in Int
    OBVIOUS
  <2>2. /\ IsFiniteSet(lo + 1 .. hi)
        /\ Cardinality(lo + 1 .. hi) = IF lo + 1 > hi THEN 0 ELSE hi - (lo + 1) + 1
    BY <2>1, FS_Interval
  <2> QED
    BY <2>2
<1>2. IsFiniteSet(A) /\ IsFiniteSet(B) /\ IsFiniteSet(C) /\ IsFiniteSet(A \cap B)
  BY <1>1, FS_Subset
<1>3. /\ IsFiniteSet(A \cup B)
      /\ Cardinality(A \cup B) = Cardinality(A) + Cardinality(B) - Cardinality(A \cap B)
  BY <1>2, FS_Union
<1>4. (A \cup B) \cap C = {}
  OBVIOUS
<1>5. Cardinality((A \cup B) \cup C) = Cardinality(A \cup B) + Cardinality(C) - Cardinality({})
  <2> DEFINE AB == A \cup B
  <2>1. IsFiniteSet(AB) /\ AB \cap C = {}
    BY <1>3, <1>4
  <2> HIDE DEF AB
  <2>2. Cardinality(AB \cup C) = Cardinality(AB) + Cardinality(C) - Cardinality({})
    BY <1>2, <2>1, FS_Union
  <2> QED
    BY <2>2 DEF AB
<1>6. (A \cup B) \cup C \in SUBSET (lo + 1 .. hi)
  OBVIOUS
<1>7. Cardinality((A \cup B) \cup C) <= Cardinality(lo + 1 .. hi)
  BY <1>1, <1>6, FS_Subset
<1>8. /\ Cardinality(A) \in Nat /\ Cardinality(B) \in Nat /\ Cardinality(C) \in Nat
      /\ Cardinality(A \cap B) \in Nat
  BY <1>2, FS_CardinalityType
<1>9. Cardinality({}) = 0
  BY FS_EmptySet
<1> DEFINE a == Cardinality(A)
           b == Cardinality(B)
           c == Cardinality(C)
           both == Cardinality(A \cap B)
           ab == Cardinality(A \cup B)
           abc == Cardinality((A \cup B) \cup C)
<1>10. /\ a \in Nat /\ b \in Nat /\ c \in Nat /\ both \in Nat
       /\ ab = a + b - both /\ abc = ab + c - 0 /\ abc <= hi - lo
  BY <1>1, <1>3, <1>5, <1>7, <1>8, <1>9
<1> HIDE DEF a, b, c, both, ab, abc
<1>11. a + b + c <= hi - lo + both
  BY <1>10
<1> QED
  BY <1>8, <1>11 DEF a, b, c, both

\* The values of a function on a finite set are finitely many.
LEMMA ImageFinite ==
    ASSUME NEW S, IsFiniteSet(S), NEW f
    PROVE  IsFiniteSet({f[x] : x \in S})
<1> DEFINE g == [x \in S |-> f[x]]
<1>1. g \in Surjection(S, {f[x] : x \in S})
  BY DEF Surjection
<1> QED
  BY <1>1, FS_Surjection

\* The instants that bound an answer, see UtilizationWithinElapsed.
Starts == {ClaimedAt(m) : m \in CountedTasks}
          \cup {g.startedAt : g \in CountedGaps} \cup {askedAt}
          \cup {Max({t, Since}) : t \in LastActivity}
Ends == {CompletedAt[m] : m \in CountedTasks}
        \cup {g.endedAt : g \in CountedGaps} \cup {askedAt}

\* They are finitely many, so there are a first and a last one.
LEMMA BoundsExist ==
    ASSUME TypeOK, OnceInv, ReadInv, GapBeforeCompletion, GapsDisjoint, GapsMeasured,
           AskedInTime, Answered("utilization")
    PROVE  /\ Min(Starts) \in Int /\ \A t \in Starts : t \in Int /\ Min(Starts) <= t
           /\ Max(Ends) \in Int /\ \A t \in Ends : t \in Int /\ t <= Max(Ends)
<1> DEFINE claims == {ClaimedAt(m) : m \in CountedTasks}
           begins == {g.startedAt : g \in CountedGaps}
           opens == {Max({t, Since}) : t \in LastActivity}
           dones == {CompletedAt[m] : m \in CountedTasks}
           closes == {g.endedAt : g \in CountedGaps}
<1>1. /\ IsFiniteSet(CountedTasks) /\ IsFiniteSet(CountedGaps) /\ askedAt \in Int
      /\ \A m \in CountedTasks : ClaimedAt(m) \in Int /\ CompletedAt[m] \in Int
      /\ \A g \in CountedGaps : g.startedAt \in Int /\ g.endedAt \in Int
  BY TasksCounted, GapsCounted, ClaimBeforeCompletion, MessageAssumption DEF AskedInTime
<1>2. IsFiniteSet(claims) /\ IsFiniteSet(dones)
  <2> DEFINE c == [m \in CountedTasks |-> ClaimedAt(m)]
             d == [m \in CountedTasks |-> CompletedAt[m]]
  <2>1. claims = {c[m] : m \in CountedTasks} /\ dones = {d[m] : m \in CountedTasks}
    OBVIOUS
  <2> HIDE DEF c, d, claims, dones
  <2> QED
    BY <1>1, <2>1, ImageFinite
<1>3. IsFiniteSet(begins) /\ IsFiniteSet(closes)
  <2> DEFINE c == [g \in CountedGaps |-> g.startedAt]
             d == [g \in CountedGaps |-> g.endedAt]
  <2>1. begins = {c[g] : g \in CountedGaps} /\ closes = {d[g] : g \in CountedGaps}
    OBVIOUS
  <2> HIDE DEF c, d, begins, closes
  <2> QED
    BY <1>1, <2>1, ImageFinite
<1>4. IsFiniteSet(opens) /\ opens \subseteq Int
  <2>1. CASE LastActivity = {}
    BY <2>1, FS_EmptySet
  <2>2. ASSUME NEW t \in LastActivity
        PROVE  IsFiniteSet(opens) /\ opens \subseteq Int
    <3>1. LastActivity = {t} /\ t \in Int
      BY LastActivityIsOne
    <3>2. Max({t, Since}) \in Int
      BY <3>1, SinceIsPast, LaterOfTwo
    <3>3. opens = {Max({t, Since})}
      BY <3>1
    <3> HIDE DEF opens
    <3>4. IsFiniteSet({Max({t, Since})})
      BY FS_Singleton
    <3> QED
      BY <3>2, <3>3, <3>4
  <2> QED
    BY <2>1, <2>2
<1>5. /\ claims \subseteq Int /\ begins \subseteq Int /\ dones \subseteq Int
      /\ closes \subseteq Int /\ {askedAt} \subseteq Int /\ IsFiniteSet({askedAt})
  BY <1>1, FS_Singleton
<1>6. /\ Starts = ((claims \cup begins) \cup {askedAt}) \cup opens
      /\ Ends = (dones \cup closes) \cup {askedAt}
  BY DEF Starts, Ends
<1> HIDE DEF claims, begins, opens, dones, closes
<1>7. IsFiniteSet(claims \cup begins) /\ IsFiniteSet(dones \cup closes)
  BY <1>2, <1>3, FS_Union
<1>8. IsFiniteSet((claims \cup begins) \cup {askedAt}) /\ IsFiniteSet(Ends)
  BY <1>5, <1>6, <1>7, FS_Union
<1>9. IsFiniteSet(Starts)
  BY <1>4, <1>6, <1>8, FS_Union
<1>10. /\ Starts \in SUBSET Int /\ Ends \in SUBSET Int
       /\ askedAt \in Starts /\ askedAt \in Ends
  BY <1>4, <1>5, <1>6
<1> QED
  BY <1>8, <1>9, <1>10, Extremes

\* With one consumer, an answer accounts for no more time than went by.
LEMMA AnswerFits ==
    ASSUME TypeOK, OnceInv, ReadInv, GapBeforeCompletion, GapsDisjoint, GapsMeasured,
           AskedInTime, OpenGapAfterCounted
    PROVE  UtilizationWithinElapsed
<1> SUFFICES ASSUME Answered("utilization"), OneTaskAtATime
             PROVE  (TaskSeconds + IdleSeconds + OpenGapSeconds) * TicksPerSecond
                        <= Max(Ends) - Min(Starts) + Cardinality(TaskTicks \cap GapTicks)
  <2>1. ASSUME NEW pct \in UtilizationPct
        PROVE  pct[2] = TaskSeconds + IdleSeconds + OpenGapSeconds
    BY <2>1 DEF UtilizationPct
  <2> QED
    BY <2>1 DEF UtilizationWithinElapsed, Starts, Ends
<1> DEFINE lo == Min(Starts)
           hi == Max(Ends)
           all == lo + 1 .. hi
<1>1. lo \in Int /\ hi \in Int /\ lo <= askedAt /\ askedAt <= hi /\ askedAt \in Int
  BY BoundsExist DEF Starts, Ends, AskedInTime
<1>2. TaskTicks \in SUBSET all
  <2>1. ASSUME NEW m \in CountedTasks
        PROVE  ClaimedAt(m) + 1 .. CompletedAt[m] \subseteq all
    <3>1. ClaimedAt(m) \in Starts /\ CompletedAt[m] \in Ends
      BY DEF Starts, Ends
    <3>2. /\ ClaimedAt(m) \in Int /\ CompletedAt[m] \in Int
          /\ lo <= ClaimedAt(m) /\ CompletedAt[m] <= hi
      BY <3>1, BoundsExist
    <3> HIDE DEF lo, hi
    <3> QED
      BY <1>1, <3>2
  <2> QED
    BY <2>1 DEF TaskTicks
<1>3. GapTicks \in SUBSET all
  <2>1. ASSUME NEW g \in CountedGaps
        PROVE  g.startedAt + 1 .. g.endedAt \subseteq all
    <3>1. g.startedAt \in Starts /\ g.endedAt \in Ends
      BY DEF Starts, Ends
    <3>2. /\ g.startedAt \in Int /\ g.endedAt \in Int
          /\ lo <= g.startedAt /\ g.endedAt <= hi
      BY <3>1, BoundsExist
    <3> HIDE DEF lo, hi
    <3> QED
      BY <1>1, <3>2
  <2> QED
    BY <2>1 DEF GapTicks
<1>4. /\ TaskSeconds \in Nat /\ IdleSeconds \in Nat /\ TicksPerSecond \in Nat
      /\ TaskSeconds * TicksPerSecond <= Cardinality(TaskTicks)
      /\ IdleSeconds * TicksPerSecond <= Cardinality(GapTicks)
      /\ Cardinality(TaskTicks) \in Nat /\ Cardinality(GapTicks) \in Nat
  BY TasksTakeTime, GapsTakeTime, TicksAssumption, FS_CardinalityType
<1>5. \E C \in SUBSET all :
          /\ OpenGapSeconds \in Nat /\ Cardinality(C) \in Nat
          /\ OpenGapSeconds * TicksPerSecond <= Cardinality(C)
          /\ TaskTicks \cap C = {} /\ GapTicks \cap C = {}
  <2>1. CASE OpenGapSeconds = 0
    <3>1. Cardinality({}) = 0 /\ 0 * TicksPerSecond = 0
      BY <1>4, FS_EmptySet
    <3> QED
      BY <2>1, <3>1
  <2>2. ASSUME NEW t \in LastActivity, OpenGapSeconds # 0,
               NEW u, u = Max({t, Since}),
               u \in Int, t \in Int, t <= u, u <= askedAt, OpenGapSeconds \in Nat,
               OpenGapSeconds * TicksPerSecond <= askedAt - u
        PROVE  /\ u + 1 .. askedAt \in SUBSET all
               /\ Cardinality(u + 1 .. askedAt) = askedAt - u
               /\ TaskTicks \cap (u + 1 .. askedAt) = {}
               /\ GapTicks \cap (u + 1 .. askedAt) = {}
    <3>1. lo <= u
      BY <2>2, BoundsExist DEF Starts
    <3>2. u + 1 .. askedAt \in SUBSET all
      <4> HIDE DEF lo, hi
      <4> QED
        BY <1>1, <2>2, <3>1
    <3>3. Cardinality(u + 1 .. askedAt) = askedAt - u
      <4>1. u + 1 \in Int
        BY <2>2
      <4>2. Cardinality(u + 1 .. askedAt)
                = IF u + 1 > askedAt THEN 0 ELSE askedAt - (u + 1) + 1
        BY <1>1, <4>1, FS_Interval
      <4> QED
        BY <1>1, <2>2, <4>2
    <3>4. /\ \A m \in CountedTasks : CompletedAt[m] \in Int /\ CompletedAt[m] <= t
          /\ \A g \in CountedGaps : g.endedAt \in Int /\ g.endedAt <= t
      BY <2>2, TasksCounted, GapsCounted, MessageAssumption DEF OpenGapAfterCounted
    <3>5. \A m \in CountedTasks : (ClaimedAt(m) + 1 .. CompletedAt[m]) \cap (u + 1 .. askedAt) = {}
      <4>1. ASSUME NEW m \in CountedTasks, NEW x \in ClaimedAt(m) + 1 .. CompletedAt[m],
                   x \in u + 1 .. askedAt
            PROVE  FALSE
        BY <2>2, <3>4, <4>1
      <4> QED
        BY <4>1
    <3>6. \A g \in CountedGaps : (g.startedAt + 1 .. g.endedAt) \cap (u + 1 .. askedAt) = {}
      <4>1. ASSUME NEW g \in CountedGaps, NEW x \in g.startedAt + 1 .. g.endedAt,
                   x \in u + 1 .. askedAt
            PROVE  FALSE
        BY <2>2, <3>4, <4>1
      <4> QED
        BY <4>1
    <3> QED
      BY <3>2, <3>3, <3>5, <3>6 DEF TaskTicks, GapTicks
  <2>3. ASSUME OpenGapSeconds # 0
        PROVE  \E t \in LastActivity : LET u == Max({t, Since}) IN
                 /\ u \in Int /\ t \in Int /\ t <= u /\ u <= askedAt
                 /\ OpenGapSeconds \in Nat
                 /\ OpenGapSeconds * TicksPerSecond <= askedAt - u
    BY <2>3, OpenGapIsOpen
  <2>4. ASSUME OpenGapSeconds # 0
        PROVE  \E t \in LastActivity, u \in Int :
                 /\ u = Max({t, Since}) /\ t \in Int /\ t <= u /\ u <= askedAt
                 /\ OpenGapSeconds \in Nat
                 /\ OpenGapSeconds * TicksPerSecond <= askedAt - u
    BY <2>3, <2>4
  <2>5. ASSUME OpenGapSeconds # 0
        PROVE  \E C \in SUBSET all :
                 /\ OpenGapSeconds \in Nat /\ Cardinality(C) \in Nat
                 /\ OpenGapSeconds * TicksPerSecond <= Cardinality(C)
                 /\ TaskTicks \cap C = {} /\ GapTicks \cap C = {}
    <3>1. PICK t \in LastActivity, u \in Int :
                 /\ u = Max({t, Since}) /\ t \in Int /\ t <= u /\ u <= askedAt
                 /\ OpenGapSeconds \in Nat
                 /\ OpenGapSeconds * TicksPerSecond <= askedAt - u
      BY <2>4, <2>5
    <3> DEFINE C == u + 1 .. askedAt
    <3>2. /\ C \in SUBSET all /\ Cardinality(C) = askedAt - u
          /\ TaskTicks \cap C = {} /\ GapTicks \cap C = {}
      BY <2>2, <2>5, <3>1
    <3>3. askedAt - u \in Nat
      BY <1>1, <3>1
    <3> HIDE DEF C
    <3> QED
      BY <3>1, <3>2, <3>3
  <2> QED
    BY <2>1, <2>5
<1>6. PICK C \in SUBSET all :
          /\ OpenGapSeconds \in Nat /\ Cardinality(C) \in Nat
          /\ OpenGapSeconds * TicksPerSecond <= Cardinality(C)
          /\ TaskTicks \cap C = {} /\ GapTicks \cap C = {}
  BY <1>5
<1> HIDE DEF lo, hi
<1>7. lo <= hi
  BY <1>1
<1> DEFINE twice == Cardinality(TaskTicks \cap GapTicks)
<1>8. /\ Cardinality(TaskTicks) + Cardinality(GapTicks) + Cardinality(C) <= hi - lo + twice
      /\ twice \in Nat
  BY <1>1, <1>2, <1>3, <1>6, <1>7, FitTogether
<1>9. (TaskSeconds + IdleSeconds + OpenGapSeconds) * TicksPerSecond
           = TaskSeconds * TicksPerSecond + IdleSeconds * TicksPerSecond
             + OpenGapSeconds * TicksPerSecond
  BY <1>4, <1>6
<1> DEFINE a == TaskSeconds * TicksPerSecond
           b == IdleSeconds * TicksPerSecond
           c == OpenGapSeconds * TicksPerSecond
<1>10. a \in Nat /\ b \in Nat /\ c \in Nat
  BY <1>4, <1>6
<1>11. (TaskSeconds + IdleSeconds + OpenGapSeconds) * TicksPerSecond = a + b + c
  BY <1>9
<1>12. a <= Cardinality(TaskTicks) /\ b <= Cardinality(GapTicks) /\ c <= Cardinality(C)
  BY <1>4, <1>6
<1> HIDE DEF a, b, c, twice
<1>13. a + b + c <= hi - lo + twice
  BY <1>1, <1>4, <1>6, <1>8, <1>10, <1>12
<1> QED
  BY <1>11, <1>13 DEF lo, hi, twice

\* Unless tasks overlap, the answer for an associate accounts for no more time than
\* went by and the work of late tasks inside recorded gaps, when one consumer
\* records: with several, gaps themselves may overlap.
THEOREM UtilizationFits ==
    ASSUME \A c, d \in Consumers : c = d
    PROVE  ReadSpec => []UtilizationWithinElapsed
<1>1. /\ TypeOK /\ OnceInv /\ ReadInv /\ GapBeforeCompletion /\ GapsDisjoint
      /\ GapsMeasured /\ AskedInTime /\ OpenGapAfterCounted
      => UtilizationWithinElapsed
  BY AnswerFits
<1>2. Spec => [](GapBeforeCompletion /\ GapsDisjoint)
  BY SoleConsumerAlways
<1> QED
  BY <1>1, <1>2, ReadAlways, ReadsWriteNothing, MeasuredAlways, AskedAlways,
     OpenGapComesLast, PTL

=============================================================================

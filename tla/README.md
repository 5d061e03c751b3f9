# Verification of labor-performance

TLA+ models of the labor-performance service, checked with TLC on small
instances. Every safety property the passing runs check, and both refinements,
are also proved with TLAPS for every instance, under the conditions the theorems
name.

## The system

`labor-performance` keeps engineered labor standards ("a PICK takes 45 s") and
scores every completed warehouse task against the standard that was in force
when it was completed. Three processes share its logic:

| Part | State it keeps | Operations | Talks to |
|---|---|---|---|
| **Task recording** (`cmd/labor`: `inbound/kafka/consumer.go`, `usecases/record_task_performance.go`) | `processed_events`, `task_performances`, `idle_periods`, `outbox_events`; committed offsets; dead-letter topic | consume a `TaskCompleted`: mark, look up standard and previous completion, save row and idle gap, publish, commit, acknowledge; retry; dead-letter | Kafka topic `warehouse.fulfillment.events`, Postgres |
| **Standards** (`cmd/labor`: `inbound/http/idempotency.go`, `usecases/define_standard.go`) | `labor_standards`, `idempotency_keys`, `outbox_events` | `POST /standards`: insert the key, close the active standard, open the next, publish, store the outcome, commit, answer; replay | HTTP clients, Postgres |
| **Outbox relay** (`cmd/labor`: `postgres/outbox_relay.go`) | `outbox_events.published_at` | claim a batch, send each row, mark it, commit | Postgres, Kafka analytics and integration topics |
| **Projector** (`cmd/labor-projector`: `inbound/kafka/analytics_consumer.go`, `analyticsstore`) | `analytics_consumed_events`, `analytics_processed_events`, `labor_performance_rollup` | read (and commit) a message, mark it, claim and fold it | analytics topic, analytics Postgres |
| **Report** (`analytics/report`, `cmd/labor-reports`) | none | query the rollup, build rows, bars and totals | analytics Postgres |
| **Event encoders** (`outbound/kafka/*_publisher.go`, `kafka/cloudevents`) | none | turn a domain event into one message per topic, and back into what a consumer decodes | the outbox, the projector |
| **Process** (`cmd/labor/main.go`) | phase of `serve`, readiness, contexts, pool | boot, serve, stop gracefully within ten seconds, stop on an error | all of the above |
| **Read side** (`usecases/get_associate_scorecard.go`, `get_utilization.go`, REST and MCP) | none | scorecard, utilization, task-type performance, standard | Postgres |

The recording and the standards path meet in `labor_standards` (the scorer reads
what the endpoint writes) and in the outbox, which the relay drains into the
analytics topic that the projector folds. Every replica of `cmd/labor` runs a
consumer, an HTTP server and a relay; replicas share only Postgres and Kafka.

What is hard about it: Kafka redelivers, reorders and rebalances; Postgres runs
`READ COMMITTED`, so a transaction acts on readings that may be stale when it
commits; a process can stop between any two effects; a commit can succeed with
its answer lost; two replicas run the same code at once. `PROJECT.json` lists
each such hazard at its line with the properties that watch it.

## Modules

| Module | Models | Builds on |
|---|---|---|
| `LaborDomain` | domain rules shared by the machines: lenient task types, idle gaps (truncation, cap), half-open effective ranges | |
| `Recording` | consume loop and `RecordTaskPerformance`, one action per statement of the transaction | `LaborDomain` |
| `ScoreOnce` | abstract: each task is scored at most once, for ever, and announced in the same step | implemented by `Recording` |
| `Standards` | the idempotency middleware around `DefineStandard` | `LaborDomain` |
| `StandardTimeline` | abstract: a revision is one atomic change of the timeline from its stamp on | implemented by `Standards` |
| `Scoring` | revisions beside the scoring of tasks that are recorded late | composes `Standards` with the lookup of a recording |
| `OutboxRelay` | writers and relays over the outbox | |
| `Serve` | the process: requests, consumer and relay, shutdown, crash, boot | composes `OutboxRelay` with its lifecycle |
| `EventEncoders` | domain events, both encoders, the envelope, decoding | |
| `LaborReport` | rollup and report as operators | |
| `Projector` | the analytics consumers | composes `EventEncoders` and `LaborReport` |
| `ReadModels` | scorecard and both utilizations, one action per query | composes requests with `Recording` |
| `RecordingProofs` | theorems about `Recording` | |
| `StandardsProofs`, `ScoringProofs` | theorems about `Standards` for any callers, and about `Standards` and `Scoring` for one caller at a time | `ScoringProofs` on `StandardsProofs` |
| `OutboxRelayProofs`, `ServeProofs` | theorems about `OutboxRelay` and, through its steps, `Serve` | `ServeProofs` on `OutboxRelayProofs` |
| `SumTheorems` | lemmas about the folds: sums, counts, extremes, lengths of intervals | |
| `ProjectorProofs` | theorems about `EventEncoders`, `LaborReport` and `Projector` | `SumTheorems` |
| `ReadModelsProofs` | theorems about `ReadModels` | `RecordingProofs`, `SumTheorems` |
| `MC*` | message sets, keys and logs of the instances | |

### Recording

A consumer's `pc` is the position of `Consumer.Run`: `idle`, `handle`, the steps
of the transaction (`marked`, `scored`, `resolved`, `saved`, `gapped`,
`published`), `dlq`, `ack`, `down`. Statements that read take their reading when
they run; statements that write are staged and become visible in `Commit`
(`InstallWrites`). The marker's `INSERT` is the one write whose lock matters to
others: `HoldsMarker` makes a second transaction for the same event wait. A
message is identified with its CloudEvents id, so a producer's duplicate is a
second occurrence in the log. `Kind` is what decoding yields. The standard that
`FindActiveAsOf` answers is any member of `StandardSeconds` (0: none). Failures
are separate actions counted against `MaxFaults`: a statement fails, a commit,
dead-letter write or offset commit succeeds with its answer lost, the process
dies, a partition moves while its owner holds a message. kafka-go and the group
coordinator are external; `Acknowledge`/`Fenced` allow the broker either answer
to a stale owner.

A graceful stop cancels the context the message in hand runs on. `StopRetrying`
is `handleWithRetry` giving up at once, whatever the attempt count;
`StopHandling` is `Run` returning with the offset uncommitted. A cancelled
commit may still have taken effect (`CommitUnknown`).

### Standards

A request's transaction is opened by the middleware and joined by the use case.
The standard a request creates is named after the request. `EncodeFails` is an
event refused before it reaches the database: the joined unit of work rolls
nothing back, and the middleware commits the 500 with what was saved. A failed
SQL statement aborts the Postgres transaction, so nothing can be committed
after it; a panic ends the same way (`StatementFails`). A body that is not
JSON answers 400 inside the same transaction as an unknown task type does, and
is not a separate case. Three constants describe
the environment of a run: `OneAtATime` (callers do not revise one task type
concurrently), `Unencodable` (requests whose event an encoder refuses) and
`MaxSkew` (how far the clock of the replica that serves a request lags the
fastest one).

`StandardTimeline` is what a reader may rely on. `Begin` reads a clock,
`Commit` puts the new standard in force from that stamp on. The refinement
mapping makes the timeline from `labor_standards` with `IsActiveAt`
(`InForce`), so a standard closed without its successor, a successor beside an
open predecessor, or a rewritten past would be a step the abstract
specification does not have. With lagging clocks a standard can be closed
before it began; the abstract `Commit` then allows others in force beside the
new one, for at most `MaxSkew` after its stamp.

### Scoring

A task is completed at an instant of the warehouse's clock and recorded at any
later time, after any number of failed attempts, each of which looks the
standard up again. The rest of a recording does not touch standards and is left
to `Recording`; that its outcome is stored once is `ImplementsScoreOnce` there.
`unsettled` notes the instants between the stamp and the commit of a revision,
the only ones for which `ScoreMatchesHistory` makes an exception.

### OutboxRelay

A row gets its id when it is inserted and becomes visible when its transaction
commits, so ids become visible in any order, also those of one key: in one pod the
consumer and `POST /standards` insert rows of a task type side by side. `before`
is a history variable, read by no action: it holds, for each committed row, the
lower ids of its key that had been committed when it was. `OrderPreserved` is
about those, so it demands order of every two rows except a pair whose lower id
committed second, which no relay that drains what it sees could put right. A
`Send` that fails may have stored the message, and the writer may repeat one
internally. The columns `attempts` and `last_error` are left out.

### Serve

`phase` is how far `serve` has come: `serving` is its `select`, then one phase
per step of the shutdown, `closing` its return with the deferred calls,
`exited`. A request and a consumed message are the outbox row their transaction
inserts, open while the handler works. Which goroutine may still begin
something follows from the phase: requests until the listener closes, the
consumer until `cancelConsumer`, the relay until `stopRelay`. A cancelled relay
does not finish its pass (`RelayReturns`): the statement or the send under way
fails, though Kafka may have stored the message. `DeadlinePasses` lets every
wait of the shutdown go on unfinished. After an error (`ComponentFails`) none
of the steps is taken, and the listener stays open until the process ends.
`Exit` is `pool.Close`, which waits for connections in use.

### EventEncoders

A pointer is the empty set or a singleton, and JSON carries the empty set as
null; a time may be the zero instant. `New` is the empty set when the envelope
refuses the subject, so an encoding is a set of at most one message.
`DataAs` keeps the zero value of a field the message lacks and drops a field
`analyticsData` lacks, which is what makes the three payloads one record.
`MCServe` takes its rows from `OutboxMessages` and checks, as an assumption,
that their keys are the ones its relay orders by.

### Projector and LaborReport

`ReadMessage` commits the offset before it returns the message
(`CommitOffset`, external), the consumed marker commits by itself, and claim and
upsert share a transaction (`Project`). Means are kept as sum and count, so
"nil" and zero differ. Hours have `TicksPerHour` ticks. `Published` gives the
domain event behind each message: `Increment` is what the projector makes of its
encoded and decoded form, `Reference` what a report should say of it with no
encoding in between. `GetPerformanceReport` is the REST handler, with its
refusals. It passes the filter on as it came; the requests of the instance
carry it normalised, as `ReportQuery` documents. The freshness watermark is not
modelled.

### ReadModels

A request records what each of its queries saw; the answer is computed from
those snapshots. This is sound because committed rows never change, which
`ImplementsScoreOnce` shows. `Plan` lists the queries of each request in the
order the code runs them, and the window comes from the query string. A query
that fails ends the request. The
associate's latest completion for the scorecard's ties is the database's choice,
so `ReadAssumption` excludes ties. `UtilizationWithinElapsed` says that an
answer accounts for no more time than went by; it does not hold of tasks that
claim overlapping work (`OneTaskAtATime`), which the service cannot tell from
honest ones and counts in full. The work of a task delivered after a gap was
recorded across it counts twice: the property allows for that overlap, tick by
tick (`TaskTicks \cap GapTicks`), and for nothing else.

## Runs

| Run | Shows | Instance |
|---|---|---|
| `recording_group` | nothing lost, nothing recorded in part or announced twice, `Recording` implements `ScoreOnce`, every message is settled | 2 consumers, 2 partitions, every kind of poison message, a redelivery, a capped, an uncapped and a sub-second gap, 2 failures, crashes, graceful stops or rebalances |
| `recording_overlap` (violation) | two consumers without a failure record overlapping gaps | 2 consumers, 3 tasks of one associate |
| `standards_retry` | a key takes effect once, definite answers agree, only a refused event leaves a standard unannounced and its client is told 500 | 5 requests: retry, reuse with invalid bodies, no key, an unencodable event; 2 failures |
| `scoring` | `Standards` implements `StandardTimeline`; one standard in force but for clock skew; announced chain equals recorded chain; the past is not rewritten; a late task is scored against the standard of its completion | 3 revisions, a task, lagging clocks, 1 failure, one caller at a time |
| `standards_race` (violation) | concurrent revisions leave two standards in force | 2 requests |
| `standards_encode` (violation) | an encoder failure commits a standard without its event | 1 request |
| `serve` | through graceful stops, errors, crashes and failing sends: nothing lost or invented, republication bounded by a batch per failure, rows of a key committed in id order published in it, the pool closed last, everything committed is published | one pod at a time, 3 rows of 2 events, 2 keys, writers that race on a key, batches of 2, 3 stops or failures |
| `serve_stranded` (violation) | a graceful shutdown within its deadline leaves a committed event to the next pod | the same, 1 stop |
| `relay_two` (violation) | two relays break per-key order, also of rows committed in order | 2 relays, 3 rows |
| `projector` | a report equals what its domain events say, through encoding, decoding and rollup; a failure loses at most one event; the topic is read to its end | 2 projectors, 4 logs, late, repeated and unreadable events, 12 requests, 2 failures |
| `projector_loss` (violation) | one failure drops an event for good | 1 projector, 2 events |
| `reads` | gaps never overlap; answers stay coherent while rows are committed between queries | 4 logs of up to 4 tasks: in order, with a late delivery, with a robot's task, of two associates; one request of each kind and window |

Bounds. Two actors are enough for every race of the code: each conflict is
between the holder of a reading (or a lock) and one other committer. Two
failures allow one during the recovery from another (a lost commit, then a crash
before the acknowledgement; a graceful stop, then a crash of the next pod).
`MaxHandlerAttempts` is 2 instead of 3, so that a first, a last and a non-last
attempt exist. Tasks are scored without a standard or against one that may differ
between two attempts. The logs of `reads` hold a late task between two recorded
ones; that gaps are disjoint in every order, with every cap, is proved
(`SoleConsumerGaps`). Ticks are half seconds in the recording runs; the
logs of `recording_group` end in a gap above the cap, one below it or one of less
than a second, so `AnnouncedOnce` compares clipped and truncated seconds too. A
recent window of three and thresholds of two instead of three keep the
distinctions of the code's 10 and 3. Three revisions contain a middle standard
that is both opened and closed by a revision; a lag of one tick lets a revision
be stamped before the standard it closes began. Of three rows in batches
of two the first and the last share a key: they race, one waits behind the other's
failed send in a batch (when the second aborts or was published) or behind the
whole batch. No symmetry is used: messages differ in time and order.

Fairness. `FairSpec` has weak fairness of a consumer's, relay's or projector's
own next step, which a running goroutine that is not blocked for ever provides;
it includes `Restart`, which Kubernetes provides. A step waits for nothing but a
marker held by another transaction, and that transaction's own steps are fair.
Failures are never fair, and there are finitely many. Writers of the outbox owe
nothing.

In `Serve` a transaction ends because the pool sets a `statement_timeout` and the
handlers' contexts end, the relay loops while its context lives, a shutdown once
begun goes on (every wait in it is bounded by `shutdownCtx`, and the relay and
the consumer return when cancelled), and Kubernetes boots the next pod. Neither
signals nor the deadline nor requests are fair.

Deadlock is checked in every run; `AwaitMessages`, `Quiescent` and `Sleep` are the
states in which the system legitimately waits.

## What the code does otherwise than it says

The six violation runs are described under `findings`: concurrent revisions
(`define_standard.go`), the joined transaction (`unit_of_work.go`), concurrent
replicas and idle gaps (`record_task_performance.go`), two relays
(`outbox_relay.go`), the projector's early commit (`analytics_consumer.go`) and
the shutdown's order (`cmd/labor/main.go`).
The same properties hold in the passing runs under the condition that the run
names: one caller, no encoder failure, one consumer, one relay. Where none can
be named, a weaker property says what remains true: `LossBounded` of the
projector, `OnlyRefusedUnannounced` of a refused event, `EventuallyPublished` of
an event left behind by a shutdown.

Seen while reading, without a run: `GetUtilization.ForTaskType` counts as
"Associates" only those with an idle gap; `SumByAssociate` has no upper bound
although the port says `[since, now)`; the shutdown comment promises a final
offset commit for the message in hand, whose context `cancelConsumer` has just
cancelled (harmless: it is redelivered, and `AnnouncedOnce` holds through
`StopHandling`); a revision takes effect at its stamp, so a completion between
stamp and commit may be scored against the standard being replaced (`unsettled`
in `Scoring` delimits this case); a late task inside a recorded gap counts as work
and as idleness (`UtilizationWithinElapsed` bounds the surplus by the overlap); one
relay, too, publishes a row late whose transaction commits after a higher id of
its key was drained, although `outbox_relay.go` and ADR 0010 promise the order
without that condition (`before` in `OutboxRelay` delimits this case); the report
handler does not normalise its task type filter.

## Proofs

A theorem holds for every value of the constants that satisfies the named
assumptions. Most are types: `MessageAssumption`, `BoundAssumption`,
`TicksAssumption` (durations are not negative), `RequestAssumption`,
`TaskAssumption`, `RelayAssumption`, and `EventAssumption` (published events have
the fields their constructors give them). `ReadAssumption` also restricts what is
read: efficiencies are whole percentages and an associate's completions do not
coincide, so rounding and the order of ties are left out of the scorecard's
theorems. Numbers of consumers, relays, projectors, pods, rows, keys, failures
and stops are arbitrary. Where a property needs one
consumer, one relay or one caller at a time, the theorem assumes
it, and the violation runs show that it is needed.

`RecordingProofs`

- `TypeCorrect`: `Spec => []TypeOK`. `InHand` (the message in hand exists) is proved
  with it, because `Msg(c)` is typed only then.
- `NothingLost`: `Spec => []NoMessageLost`. The property alone is not inductive: a
  commit is safe because everything before the message in hand is settled
  (`InHandSettled`), which a fetch inherits from what the live owner fetched before
  (`FetchedSettled`); after a restart or rebalance the owner starts at the committed
  offset, where `NoMessageLost` itself provides it. The three form `SettledInv`.
- `StepShape` reduces every step to one of three: it touches no table and no
  transaction, it moves one transaction, or it installs one transaction's writes.
- `Atomic` and `NeverTwice`: `RecordedTogether` and `AnnouncedOnce`, from `OnceInv`.
  Its core is `MarkerExclusive`: an open transaction's event has no committed
  marker and no other open transaction; so the event it installs is fresh in every
  table (`FreshEvent`), and appending keeps uniqueness.
- `Refinement`: `Spec => ImplementsScoreOnce`. Installing steps map to `Score`, all
  others to stuttering; `OutboxPaired` makes every second outbox row the ledger.
- `SoleConsumerGaps`: with one consumer, `Spec => []GapsDisjoint`.
  `PreviousIsLatest` says that the previous completion a transaction read is
  still the latest when it commits, which is exactly what a second consumer
  breaks (`recording_overlap`); `GapBeforeCompletion` then puts every earlier gap
  before it.

`StandardsProofs`, for any number of concurrent callers

- `KeysApplyOnce` (`AppliedOnce`): an open transaction that holds its key is the
  only one to hold it and the key's row is not committed (`KeyExclusive`), so
  what a commit installs is the first effect of that key (`InstallsFresh`).
- `AnswersDoAgree` (`AnswersAgree`): every definite answer is the outcome in the
  key's committed row, or the refusal of a missing key (`Told`), and that row never
  changes.
- `OnlyRefusedIsUnannounced`: the outcome stored for a key is what its transaction
  did (`HandledOutcome`, `HeldOutcome`), also when it joined a unit of work that
  rolled nothing back.

`ScoringProofs`, for `OneAtATime`: no two requests revise a task type at once.
Without it, `standards_race` violates `OneStandardInForce`.

- `HistInv` carries the argument: at most one open transaction of a type revises it
  (`TurnExclusive`), what it read is still the type's one open standard
  (`PriorIsOpen`, `OneOpen`), and every closed standard was closed at the stamp of
  the one after it (`ClosedBySuccessor`), no further back than a clock lags
  (`SkewBounded`).
- `StandardsFollowOneAnother` (`OneStandardInForce`), `HistoryIsFrozen`
  (`HistoryFrozen`, an action property) and `AnnouncementsChain` (`RevisionsChain`)
  follow from it.
- `TimelineImplemented`: `Spec => ImplementsTimeline`. Reading the clock maps to
  `Begin`, installing the two rows to `Commit`, giving up to `Abandon`; retries,
  replays, failed statements and lost answers are invisible.
- `ScoringTypeCorrect`, `ScoringKeepsHistory` (scoring takes nothing from the above),
  and `ScoresMatchHistory` (`ScoreMatchesHistory`): once a lookup has answered, no
  revision moves what was in force at that instant, unless its stamp lay before
  the instant when the lookup ran; `Settled` says that these instants are the ones
  noted in `unsettled`.

`OutboxRelayProofs`

- `OutboxStep` is the disjunction of the shapes a step can have (`Sending`, `Ending`,
  ...), which the steps of `OutboxRelay` (`NextIsOutboxStep`) and of `Serve`
  (`ServeIsOutboxStep`) all have, so the invariants are proved once for both.
- `Faithful`: `Spec => []OutboxFaithful`, from `FaithInv`: what a pass has staged or is
  about to stage was sent before (`MarkedSent`), copies stay where they are
  (`CopiesStay`), and only committed rows are locked (`OnlyCommitted`).
- `Ordered`: `Spec => []OrderPreserved` for one relay and writers that race as they
  like. With one relay a batch leaves no row behind that was committed before one
  of its rows (`BatchUnbroken`, from `ClaimIsPrefix`); history speaks of committed
  rows (`BeforeCommitted`) and is written once (`BeforeKept`), so a row that
  commits later asks nothing of what is already on the topic. A second relay
  breaks `BatchUnbroken` (`relay_two`).
- `Republished`: `Spec => []RepublishBounded`. The argument is a debt (`ResendInv` in
  `OutboxRelay`): a row is paid once it is published or an open pass has sent it.
  A first copy pays its row; a pass that ends without its marks unpays at most
  its batch, for which the failure pays. Passes lock disjoint rows (`PassesApart`),
  so nothing is paid or unpaid twice.

`ServeProofs`

- `FaithfulThroughStops`, `OrderedThroughStops`: the same two promises for `ServeSpec`,
  through signals, component errors, the deadline and crashes.
- `RepublishedThroughStops`: the debt again, where a pod that is stopping has been
  paid for by its signal or error before its relay is cancelled (`StopDebtInv`).
- `ClosedLast`: `ServeSpec => []PoolClosedLast`, for any number of pods, from
  `StopInv`: each step of a stop waited for what the next relies on, and nothing
  begins again behind it.
- `ServeTypeCorrect`: `ServeSpec => []ServeTypeOK`, from `OwnInv`: each open
  transaction belongs to one handler of one pod (`RowsApart`).

`SumTheorems`

- The sums of the models are folds, defined by recursion over finite sets. No
  induction theorem with an operator parameter can be used, so `FiniteInduction`
  takes a set of sets instead and is proved from the well-founded ordering of
  subsets; `SumIs` and `SumSteps` give the fold's recursion equation for
  natural-valued functions. From these: sums over unions and over groups
  (`SumOfGroups`), bounds, comparison of means (`MeansCompare`), extremes, and that
  intervals which lie apart are together as long as their lengths
  (`LengthsOfApart`).

`ProjectorProofs`

- `ReportsMatchEvents`: `Spec => []ReportMatchesEvents` for every log, every request and
  any number of projectors. Three parts: encoding and decoding keep what is
  counted (`DeltaIs`, from the encoders' definitions); every row of the rollup is
  the sum over the claimed events of its key, however often and in whatever order
  they came (`RollupInv`); and the report's merging of rows by type and in total is
  a sum over groups.
- `LossIsBounded`: `Spec => []LossBounded`. `LossInv` charges every failure with the
  event in hand when it struck; everything else behind a committed offset, before
  a message in hand or marked consumed is in the rollup or in someone's hands.
- `ProjectorTypeCorrect`: `Spec => []TypeOK`; that no counter is negative needs
  `RollupInv`.

`ReadModelsProofs`

- `ReadInv` relates what successive statements of one request saw: nothing seen is
  unwritten (`SeenStays`), a later statement sees at least as much (`SeenGrows`), and
  a row is seen with the gap it ended (`SeenWhole`, from the atomicity of
  recording).
- `ScorecardHoldsTogether`, `OpenGapComesLast`, `IdlenessCounted` and
  `IdlenessHasOwners` follow from the order of the statements and `ReadInv`.
- `CoachingFlagJustified` and `TrendIsSupported` are about the answer's arithmetic, for
  every window size and threshold: cutting a recent window short does not change
  which tasks came last, and a mean above another needs a member above one.
- `UtilizationFits`: with one consumer, `ReadSpec => []UtilizationWithinElapsed`. Counted
  tasks are disjoint intervals of the clock, and so are counted gaps
  (`GapsDisjoint`); the open gap comes after both (`OpenGapAfterCounted`). Whole
  seconds are never longer than the interval they were truncated from
  (`GapsMeasured`), and intervals between the first and the last instant add up to
  its length and what tasks and gaps share (`FitTogether`).

Only model-checked: liveness (`EventuallySettled`, `EventuallyPublished`,
`NeverWedged`), which is out of the prover's reach, and the six violations.

## Not modelled

- In-memory adapters and direct publishers: development only, each operation one
  step under a mutex.
- MCP server: stateless translation to the read use cases.
- Telemetry and logging: observe and change nothing.
- Boot retries, pools and migrations: nothing is served before they succeed.
- `FreshnessLag`: one `max` over a table, subtracted from the wall clock.
- `GetStandard`, `GetTaskTypePerformance`: one statement each, so nothing can come
  between.
- JSON text and trace headers, the web console, the charts.

## Plan

1. `Recording`, `OutboxRelay` and `Projector` composed end to end, over the abstract
   specifications where the detailed state is too large: a recorded task reaches
   the report once, or is charged to a projector's failure.
2. An abstract specification of the outbox (a row is sent some number of times,
   then published) with `OutboxRelay` and `Serve` shown to implement it.
3. The safety part of the liveness arguments: that a state in which nothing can
   step is one in which everything is settled.

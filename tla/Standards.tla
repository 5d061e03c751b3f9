------------------------------ MODULE Standards ------------------------------
(***************************************************************************)
(* POST /standards: the idempotency-key middleware around DefineStandard,  *)
(* which closes the standard in force for a task type and opens the next   *)
(* one.  A request is served inside one READ COMMITTED transaction that    *)
(* the middleware begins and the use case joins, so its writes are staged  *)
(* until Commit; statements that only stage writes share a step with the   *)
(* one that follows them.                                                  *)
(*                                                                         *)
(* A standard is named by the request that defines it: NextID mints a      *)
(* fresh id for each.  A request attempt is never repeated by the server;  *)
(* a client's retry is another member of Requests with the same Key.       *)
(***************************************************************************)
EXTENDS LaborDomain, Sequences, FiniteSets

CONSTANTS
    Requests,         \* POST /standards requests, retries included
    Key,              \* request |-> Idempotency-Key header, or NoKey
    NoKey,            \* the header is absent
    WireTaskType,     \* request |-> taskType of its body
    ExpectedSeconds,  \* request |-> expectedSeconds of its body
    TravelSeconds,    \* request |-> travelComponentSeconds, {} when absent
    None,             \* no request, no standard
    OneAtATime,       \* callers revise a task type one request at a time
    Unencodable,      \* requests whose event an outbox encoder refuses
    MaxSkew,          \* how far a replica's clock may lag the fastest one
    MaxClock,         \* bound on the clock
    MaxFaults         \* bound on failed statements, lost answers and crashes

ASSUME RequestAssumption ==
    /\ None \notin Requests
    /\ ExpectedSeconds \in [Requests -> Int]
    /\ TravelSeconds \in [Requests -> SUBSET Int]
    /\ Unencodable \subseteq Requests
    /\ OneAtATime \in BOOLEAN
    /\ MaxClock \in Nat /\ MaxSkew \in Nat /\ MaxFaults \in Nat

VARIABLES
    clock,        \* ports.Clock of the replica whose clock is fastest
    created,      \* Postgres: ids in labor_standards
    effectiveTo,  \* Postgres: standard |-> {closing instant}, {} while open
    keys,         \* Postgres: idempotency_keys, key |-> request that holds it
    outbox,       \* Postgres: LaborStandardDefined and -Revised, oldest first
    pc,           \* request: how far it has come
    now,          \* request: Clock.Now(), the standard's effectiveFrom
    prior,        \* request: standard FindCurrentlyActive returned
    response,     \* request: what the handler wrote to the recorder
    answer,       \* request: what the client received
    faults        \* failures so far, bounded by MaxFaults

database == <<created, effectiveTo, keys, outbox>>
request  == <<pc, now, prior, response, answer>>
vars     == <<clock, database, request, faults>>

-----------------------------------------------------------------------------

Body(r) == <<WireTaskType[r], ExpectedSeconds[r], TravelSeconds[r]>>

\* standard.New's conditions on the body.
Valid(r) ==
    /\ ExpectedSeconds[r] > 0
    /\ \A t \in TravelSeconds[r] : 0 <= t /\ t <= ExpectedSeconds[r]

\* The row of standard s.
Row(s) == [effectiveFrom |-> now[s], effectiveTo |-> effectiveTo[s]]

\* Committed standards of a task type, the open ones, those in force at t.
StandardsOf(type) == {s \in created : WireTaskType[s] = type}
Open(type)        == {s \in StandardsOf(type) : effectiveTo[s] = {}}
InForce(type, t)  == {s \in StandardsOf(type) : IsActiveAt(Row(s), t)}

\* Responses: an HTTP status and the standard a 201 describes.
Response(status, s) == [status |-> status, standard |-> s]
NoAnswer == Response(0, None)

\* A transaction is open in TxSteps.
TxSteps  == {"inserted", "timed", "found", "handled"}
Ended    == {"answered", "lost"}
PcValues == {"new", "committed"} \cup TxSteps \cup Ended

InTx(r) == pc[r] \in TxSteps

\* r has updated the row of standard s and not ended its transaction.
HoldsRow(r, s) == prior[r] = s /\ pc[r] = "handled"

EventTypes == {"LaborStandardDefined", "LaborStandardRevised"}

TypeOK ==
    /\ clock \in 0 .. MaxClock
    /\ created \subseteq Requests
    /\ effectiveTo \in [Requests -> SUBSET Nat]
    /\ keys \in [{Key[r] : r \in Requests} -> Requests \cup {None}]
    /\ outbox \in Seq([type : EventTypes, standard : Requests, previous : SUBSET Int])
    /\ pc \in [Requests -> PcValues]
    /\ now \in [Requests -> Nat]
    /\ prior \in [Requests -> Requests \cup {None}]
    /\ response \in [Requests -> [status : Nat, standard : Requests \cup {None}]]
    /\ answer \in [Requests -> [status : Nat, standard : Requests \cup {None}]]
    /\ faults \in 0 .. MaxFaults

Init ==
    /\ clock = 0
    /\ created = {}
    /\ effectiveTo = [r \in Requests |-> {}]
    /\ keys = [k \in {Key[r] : r \in Requests} |-> None]
    /\ outbox = <<>>
    /\ pc = [r \in Requests |-> "new"]
    /\ now = [r \in Requests |-> 0]
    /\ prior = [r \in Requests |-> None]
    /\ response = [r \in Requests |-> NoAnswer]
    /\ answer = [r \in Requests |-> NoAnswer]
    /\ faults = 0

-----------------------------------------------------------------------------
(***************************************************************************)
(* RequireIdempotencyKey.                                                  *)
(***************************************************************************)

Goto(r, from, to) == pc[r] = from /\ pc' = [pc EXCEPT ![r] = to]

Reply(r, a) == answer' = [answer EXCEPT ![r] = a]

\* No Idempotency-Key header: 400 before any transaction.
RefuseMissingKey(r) ==
    /\ Key[r] = NoKey
    /\ Goto(r, "new", "answered")
    /\ Reply(r, Response(400, None))
    /\ UNCHANGED <<clock, database, now, prior, response, faults>>

\* Mutant: the key is looked up and inserted without the row lock.
KeyNeverLocks(k) == FALSE

\* The INSERT of a key waits for an uncommitted row of the same key.
KeyIsLocked(k) == \E s \in Requests : InTx(s) /\ Key[s] = k

\* What OneAtATime asks of the callers: no other revision of the type, under
\* another key, is being served.
TurnOf(r) ==
    OneAtATime => \A s \in Requests : /\ InTx(s)
                                      /\ WireTaskType[s] = WireTaskType[r]
                                      => Key[s] = Key[r]

\* The key is new: the transaction goes on to the handler.
InsertKey(r) ==
    /\ Key[r] # NoKey
    /\ ~KeyIsLocked(Key[r])
    /\ keys[Key[r]] = None
    /\ TurnOf(r)
    /\ Goto(r, "new", "inserted")
    /\ UNCHANGED <<clock, database, now, prior, response, answer, faults>>

\* replayCachedResponse: the key exists, so the stored response is replayed, or
\* refused when it was stored for another body.
ReplayCachedResponse(r) ==
    LET held == keys[Key[r]]
    IN  /\ Key[r] # NoKey
        /\ ~KeyIsLocked(Key[r])
        /\ held # None
        /\ Goto(r, "new", "answered")
        /\ Reply(r, IF Body(held) = Body(r) THEN response[held] ELSE Response(422, None))
        /\ UNCHANGED <<clock, database, now, prior, response, faults>>

-----------------------------------------------------------------------------
(***************************************************************************)
(* handleDefineStandard and DefineStandard.Execute.                        *)
(***************************************************************************)

\* The handler wrote its response to the recorder.
Handled(r, from, status, s) ==
    /\ Goto(r, from, "handled")
    /\ response' = [response EXCEPT ![r] = Response(status, s)]

\* NewTaskType refuses the task type.
RefuseTaskType(r) ==
    /\ WireTaskType[r] \notin TaskTypes
    /\ Handled(r, "inserted", 400, None)
    /\ UNCHANGED <<clock, database, now, prior, answer, faults>>

\* now := Clock.Now() of the replica that serves r, before the prior standard
\* is looked up.
ReadClock(r) ==
    /\ WireTaskType[r] \in TaskTypes
    /\ Goto(r, "inserted", "timed")
    /\ \E lag \in 0 .. MaxSkew :
          /\ lag <= clock
          /\ now' = [now EXCEPT ![r] = clock - lag]
    /\ UNCHANGED <<clock, database, prior, response, answer, faults>>

\* Mutant: the query forgets effective_to IS NULL.
FindAnyStandard(r) ==
    LET all == StandardsOf(WireTaskType[r])
    IN  /\ Goto(r, "timed", "found")
        /\ \E s \in IF all = {} THEN {None} ELSE all :
              prior' = [prior EXCEPT ![r] = s]
        /\ UNCHANGED <<clock, database, now, response, answer, faults>>

\* Any open row may be the first the query returns; None when there is none.
FindCurrentlyActive(r) ==
    LET open == Open(WireTaskType[r])
    IN  /\ Goto(r, "timed", "found")
        /\ \E s \in IF open = {} THEN {None} ELSE open :
              prior' = [prior EXCEPT ![r] = s]
        /\ UNCHANGED <<clock, database, now, response, answer, faults>>

\* standard.New refuses the body: nothing is written, prior is not closed.
RejectStandard(r) ==
    /\ ~Valid(r)
    /\ Handled(r, "found", 422, None)
    /\ prior' = [prior EXCEPT ![r] = None]
    /\ UNCHANGED <<clock, database, now, answer, faults>>

\* Mutant: Save(prior) goes through the pool and commits by itself.
CloseOutsideTx(r) ==
    /\ Valid(r)
    /\ Handled(r, "found", 201, r)
    /\ effectiveTo' = [s \in Requests |-> IF s = prior[r] THEN {now[r]} ELSE effectiveTo[s]]
    /\ UNCHANGED <<clock, created, keys, outbox, now, prior, answer, faults>>

\* prior.Close(now), Save(prior), Save(next) and Events.Publish, staged; the
\* handler answers 201.  The UPDATE of prior waits for another transaction that
\* has updated the same row, and then overwrites what that one wrote.
CloseAndSave(r) ==
    /\ Valid(r)
    /\ r \notin Unencodable
    /\ \A s \in Requests : prior[r] # None => ~HoldsRow(s, prior[r])
    /\ Handled(r, "found", 201, r)
    /\ UNCHANGED <<clock, database, now, prior, answer, faults>>

\* Events.Publish fails before it reaches the database, after both standards
\* were saved.  UnitOfWork.Execute joined the middleware's transaction, so it
\* rolls nothing back: the error becomes a 500 response like any other.
EncodeFails(r) ==
    /\ Valid(r)
    /\ r \in Unencodable
    /\ \A s \in Requests : prior[r] # None => ~HoldsRow(s, prior[r])
    /\ Handled(r, "found", 500, None)
    /\ UNCHANGED <<clock, database, now, prior, answer, faults>>

-----------------------------------------------------------------------------
(***************************************************************************)
(* runFreshRequest, after the handler.                                     *)
(***************************************************************************)

\* Mutant: a revision names its own seconds as the previous ones.
StandardEventSelf(r) ==
    [type |-> IF prior[r] = None THEN "LaborStandardDefined" ELSE "LaborStandardRevised",
     standard |-> r,
     previous |-> IF prior[r] = None THEN {} ELSE {ExpectedSeconds[r]}]

\* The event DefineStandard publishes: a revision names the prior seconds.
StandardEvent(r) ==
    IF prior[r] = None
    THEN [type |-> "LaborStandardDefined", standard |-> r, previous |-> {}]
    ELSE [type |-> "LaborStandardRevised", standard |-> r,
          previous |-> {ExpectedSeconds[prior[r]]}]

\* A revision that closes its prior at an instant of the caller's choosing.
InstallClosingAt(r, closing) ==
    /\ keys' = [keys EXCEPT ![Key[r]] = r]
    /\ created' = created \cup {r}
    /\ effectiveTo' = [s \in Requests |-> IF s = prior[r] THEN {closing}
                                                          ELSE effectiveTo[s]]
    /\ outbox' = Append(outbox, StandardEvent(r))

\* Mutant: the prior standard ends one tick before the next begins.
InstallTickEarly(r) == InstallClosingAt(r, now[r] - 1)

\* Mutant: the prior standard is closed at the instant it began.
InstallErasing(r) ==
    InstallClosingAt(r, IF prior[r] = None THEN 0 ELSE now[prior[r]])

\* Mutant: only a first definition is announced.
InstallUnannounced(r) ==
    /\ keys' = [keys EXCEPT ![Key[r]] = r]
    /\ created' = created \cup {r}
    /\ effectiveTo' = [s \in Requests |-> IF s = prior[r] THEN {now[r]} ELSE effectiveTo[s]]
    /\ outbox' = IF prior[r] = None THEN Append(outbox, StandardEvent(r)) ELSE outbox

\* What the commit makes visible: the key's row with its outcome, and what
\* DefineStandard staged.
InstallWrites(r) ==
    /\ keys' = [keys EXCEPT ![Key[r]] = r]
    /\ IF response[r].status \in {201, 500}
       THEN /\ created' = created \cup {r}
            /\ effectiveTo' = [s \in Requests |-> IF s = prior[r] THEN {now[r]}
                                                                  ELSE effectiveTo[s]]
       ELSE UNCHANGED <<created, effectiveTo>>
    /\ outbox' = IF response[r].status = 201 THEN Append(outbox, StandardEvent(r))
                                             ELSE outbox

\* The outcome is stored in the key's row and the transaction commits.
Commit(r) ==
    /\ Goto(r, "handled", "committed")
    /\ InstallWrites(r)
    /\ UNCHANGED <<clock, now, prior, response, answer, faults>>

\* Mutant: the recorded response is sent before the transaction commits.
AnswerEarly(r) ==
    /\ Goto(r, "handled", "answered")
    /\ Reply(r, response[r])
    /\ UNCHANGED <<clock, database, now, prior, response, faults>>

\* Only after the commit does the client see anything.
Answer(r) ==
    /\ Goto(r, "committed", "answered")
    /\ Reply(r, response[r])
    /\ UNCHANGED <<clock, database, now, prior, response, faults>>

-----------------------------------------------------------------------------
(***************************************************************************)
(* Failures and time.                                                      *)
(***************************************************************************)

Fault == faults < MaxFaults /\ faults' = faults + 1

\* An aborted transaction leaves nothing of its request.
Forget(r) ==
    /\ now' = [now EXCEPT ![r] = 0]
    /\ prior' = [prior EXCEPT ![r] = None]
    /\ response' = [response EXCEPT ![r] = NoAnswer]

\* A statement or the commit fails: the transaction is rolled back whatever
\* the handler wrote, and the client gets an uncached 500.
StatementFails(r) ==
    /\ Fault
    /\ InTx(r) \/ (pc[r] = "new" /\ Key[r] # NoKey)
    /\ pc' = [pc EXCEPT ![r] = "answered"]
    /\ Reply(r, Response(500, None))
    /\ Forget(r)
    /\ UNCHANGED <<clock, database>>

\* The commit took effect, its answer was lost: a 500 all the same.
CommitUnknown(r) ==
    /\ Fault
    /\ Goto(r, "handled", "answered")
    /\ InstallWrites(r)
    /\ Reply(r, Response(500, None))
    /\ UNCHANGED <<clock, now, prior, response>>

\* The process dies or the connection drops: an open transaction is aborted, a
\* committed one stays, and the client hears nothing.
Abandon(r) ==
    /\ Fault
    /\ pc' = [pc EXCEPT ![r] = "lost"]
    /\ \/ InTx(r) /\ Forget(r)
       \/ pc[r] = "committed" /\ UNCHANGED <<now, prior, response>>
    /\ UNCHANGED <<clock, database, answer>>

Tick ==
    /\ clock < MaxClock
    /\ clock' = clock + 1
    /\ UNCHANGED <<database, request, faults>>

\* Every request has ended.
Quiescent ==
    /\ \A r \in Requests : pc[r] \in Ended
    /\ UNCHANGED vars

-----------------------------------------------------------------------------

Serve(r) ==
    \/ RefuseMissingKey(r)
    \/ InsertKey(r)
    \/ ReplayCachedResponse(r)
    \/ RefuseTaskType(r)
    \/ ReadClock(r)
    \/ FindCurrentlyActive(r)
    \/ RejectStandard(r)
    \/ CloseAndSave(r)
    \/ EncodeFails(r)
    \/ Commit(r)
    \/ Answer(r)

Failure(r) == StatementFails(r) \/ CommitUnknown(r) \/ Abandon(r)

Next ==
    \/ \E r \in Requests : Serve(r) \/ Failure(r)
    \/ Tick
    \/ Quiescent

Spec == Init /\ [][Next]_vars

-----------------------------------------------------------------------------
(***************************************************************************)
(* Properties.                                                             *)
(***************************************************************************)

\* A key takes effect once: however a request is retried, raced or cut short,
\* at most one standard and one event come of it (ADR 0016's "silent
\* double-write" is ruled out).
AppliedOnce ==
    /\ \A r, s \in created : Key[r] = Key[s] => r = s
    /\ \A i, j \in DOMAIN outbox : outbox[i].standard = outbox[j].standard => i = j
    /\ \A i \in DOMAIN outbox : outbox[i].standard \in created

\* Every standard was announced by the transaction that created it (ADR 0010:
\* no code path "persists a standard ... without also persisting its analytics
\* event").  An encoder that refuses the event breaks it.
EveryStandardAnnounced ==
    \A s \in created : \E i \in DOMAIN outbox : outbox[i].standard = s

\* What is left of it then: only a standard whose own event was refused goes
\* unannounced, and its client is told 500 and keeps being told so.
OnlyRefusedUnannounced ==
    \A s \in created :
        \/ \E i \in DOMAIN outbox : outbox[i].standard = s
        \/ /\ s \in Unencodable
           /\ \A r \in Requests : /\ Key[r] = Key[s]
                                   /\ Body(r) = Body(s)
                                   => answer[r].status \in {0, 500}

\* What clients are told is true and stable: a 201 describes a standard that
\* is committed, and two definite answers to the same key and body are equal.
AnswersAgree ==
    \A r \in Requests : answer[r].status \in {201, 400, 422} =>
        /\ answer[r].status = 201 => answer[r].standard \in created
        /\ \A s \in Requests :
              /\ Key[s] = Key[r]
              /\ Body(s) = Body(r)
              /\ answer[s].status \in {201, 400, 422}
              => answer[s] = answer[r]

\* From the first definition on, exactly one standard of a task type is in
\* force at every instant: a revision leaves neither a gap nor an overlap
\* (LaborStandard: "the currently active one for its TaskType").  Where the
\* clocks of replicas differ there is still no gap, and an overlap reaches no
\* further than MaxSkew past the stamp of a standard in force.
OneStandardInForce ==
    \A type \in TaskTypes : \A s \in StandardsOf(type) : \A t \in now[s] .. MaxClock :
        \E q \in InForce(type, t) :
            \/ InForce(type, t) = {q}
            \/ now[q] <= t /\ t < now[q] + MaxSkew

\* The announced history is the recorded one: a task type is defined once,
\* before anything else is announced of it, and every revision names the
\* seconds of the standard that ended when it began.
RevisionsChain ==
    \A j \in DOMAIN outbox :
        LET s       == outbox[j].standard
            earlier == {i \in 1 .. j - 1 :
                           WireTaskType[outbox[i].standard] = WireTaskType[s]}
        IN  IF outbox[j].type = "LaborStandardDefined"
            THEN earlier = {}
            ELSE \E q \in StandardsOf(WireTaskType[s]) \ {s} :
                    /\ effectiveTo[q] = {now[s]}
                    /\ outbox[j].previous = {ExpectedSeconds[q]}
                    /\ \A i \in DOMAIN outbox : outbox[i].standard = q => i < j

\* The task types requests are about: no other ever has a standard.
RequestedTypes == {WireTaskType[r] : r \in Requests} \cap TaskTypes

\* A revision never changes which standard was in force before the instant it
\* takes effect (ADR 0004).
HistoryFrozen ==
    [][\A type \in RequestedTypes : \A t \in 0 .. MaxClock :
          (\A s \in created' \ created : t < now'[s])
          => InForce(type, t)' = InForce(type, t)]_vars

\* Requests of a type that have read their clock and may still commit.
Revising(type) == {r \in Requests : /\ WireTaskType[r] = type
                                    /\ pc[r] \in {"timed", "found", "handled"}}

Timeline == INSTANCE StandardTimeline WITH
    Types <- RequestedTypes,
    Standards <- Requests,
    Instants <- 0 .. MaxClock,
    timeline <- [type \in RequestedTypes |-> [t \in 0 .. MaxClock |-> InForce(type, t)]],
    revising <- [type \in RequestedTypes |-> {now[r] : r \in Revising(type)}]

\* The two rows a revision writes, the key's row and the middleware's commit
\* amount to one atomic change of the timeline: whatever is retried, refused,
\* fails or is cut short, nobody sees a standard half revised.
ImplementsTimeline == Timeline!Spec

=============================================================================

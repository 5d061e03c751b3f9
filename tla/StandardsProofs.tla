---------------------------- MODULE StandardsProofs ----------------------------
(***************************************************************************)
(* Proofs about Standards that hold for any callers: an idempotency key    *)
(* takes effect once, what clients are told agrees, and only a standard    *)
(* whose event was refused goes unannounced.                               *)
(***************************************************************************)
EXTENDS Standards, TLAPS

Keys == {Key[r] : r \in Requests}

\* A composition may count a failure of its own beside Standards.
FailureBeside == Fault /\ UNCHANGED <<clock, database, request>>

\* A step of Standards, alone or composed.
Moves == [Next]_vars \/ FailureBeside

-----------------------------------------------------------------------------
(***************************************************************************)
(* Type correctness.                                                       *)
(***************************************************************************)

\* What a transaction installs is well typed.
LEMMA InstallTyped ==
    ASSUME TypeOK, NEW r \in Requests, InstallWrites(r)
    PROVE  /\ created' \subseteq Requests
           /\ effectiveTo' \in [Requests -> SUBSET Nat]
           /\ keys' \in [Keys -> Requests \cup {None}]
           /\ outbox' \in Seq([type : EventTypes, standard : Requests,
                               previous : SUBSET Int])
<1>1. Key[r] \in Keys /\ now[r] \in Nat /\ prior[r] \in Requests \cup {None}
  BY DEF Keys, TypeOK
<1>2. StandardEvent(r) \in [type : EventTypes, standard : Requests, previous : SUBSET Int]
  BY <1>1, RequestAssumption DEF StandardEvent, EventTypes
<1>3. keys' \in [Keys -> Requests \cup {None}]
  BY <1>1 DEF InstallWrites, TypeOK, Keys
<1>4. outbox' \in Seq([type : EventTypes, standard : Requests, previous : SUBSET Int])
  <2> DEFINE Events == [type : EventTypes, standard : Requests, previous : SUBSET Int]
  <2>1. outbox \in Seq(Events) /\ StandardEvent(r) \in Events
    BY <1>2 DEF TypeOK
  <2>2. outbox' = Append(outbox, StandardEvent(r)) \/ outbox' = outbox
    BY DEF InstallWrites
  <2> HIDE DEF Events
  <2>3. outbox' \in Seq(Events)
    BY <2>1, <2>2
  <2> QED
    BY <2>3 DEF Events
<1>5. created' \subseteq Requests /\ effectiveTo' \in [Requests -> SUBSET Nat]
  <2>1. created \subseteq Requests /\ effectiveTo \in [Requests -> SUBSET Nat]
    BY DEF TypeOK
  <2>2. \/ UNCHANGED <<created, effectiveTo>>
        \/ /\ created' = created \cup {r}
           /\ effectiveTo' = [s \in Requests |-> IF s = prior[r] THEN {now[r]}
                                                              ELSE effectiveTo[s]]
    BY DEF InstallWrites
  <2> QED
    BY <1>1, <2>1, <2>2
<1> QED
  BY <1>3, <1>4, <1>5

\* Every response is one of a few.
LEMMA ResponseTyped ==
    ASSUME NEW status \in Nat, NEW s \in Requests \cup {None}
    PROVE  Response(status, s) \in [status : Nat, standard : Requests \cup {None}]
BY DEF Response

\* A step keeps the types.
LEMMA TypeStep ==
    ASSUME TypeOK, Moves
    PROVE  TypeOK'
<1> USE DEF PcValues, TxSteps, Ended, Goto, Reply, Handled
<1>0. /\ MaxFaults \in Nat /\ MaxClock \in Nat
      /\ \A n \in {0, 201, 400, 422, 500} : \A s \in Requests \cup {None} :
            Response(n, s) \in [status : Nat, standard : Requests \cup {None}]
      /\ NoAnswer \in [status : Nat, standard : Requests \cup {None}]
  BY RequestAssumption, ResponseTyped DEF NoAnswer
<1>1. ASSUME NEW r \in Requests, Serve(r)
      PROVE  TypeOK'
  <2>1. CASE RefuseMissingKey(r)
    BY <1>0, <2>1 DEF RefuseMissingKey, TypeOK, database
  <2>2. CASE InsertKey(r)
    BY <2>2 DEF InsertKey, TypeOK, database
  <2>3. CASE ReplayCachedResponse(r)
    <3>1. keys[Key[r]] \in Requests
      BY <2>3 DEF ReplayCachedResponse, TypeOK
    <3>2. /\ response[keys[Key[r]]] \in [status : Nat, standard : Requests \cup {None}]
          /\ Response(422, None) \in [status : Nat, standard : Requests \cup {None}]
      BY <1>0, <3>1 DEF TypeOK
    <3>3. answer' \in [Requests -> [status : Nat, standard : Requests \cup {None}]]
      BY <2>3, <3>2 DEF ReplayCachedResponse, TypeOK
    <3> QED
      BY <2>3, <3>3 DEF ReplayCachedResponse, TypeOK, database
  <2>4. CASE RefuseTaskType(r)
    BY <1>0, <2>4 DEF RefuseTaskType, TypeOK, database
  <2>5. CASE ReadClock(r)
    <3>1. now' \in [Requests -> Nat]
      BY <2>5, RequestAssumption DEF ReadClock, TypeOK
    <3> QED
      BY <2>5, <3>1 DEF ReadClock, TypeOK, database
  <2>6. CASE FindCurrentlyActive(r)
    <3>1. prior' \in [Requests -> Requests \cup {None}]
      BY <2>6 DEF FindCurrentlyActive, Open, StandardsOf, TypeOK
    <3> QED
      BY <2>6, <3>1 DEF FindCurrentlyActive, TypeOK, database
  <2>7. CASE RejectStandard(r)
    BY <1>0, <2>7 DEF RejectStandard, TypeOK, database
  <2>8. CASE CloseAndSave(r)
    BY <1>0, <2>8 DEF CloseAndSave, TypeOK, database
  <2>9. CASE EncodeFails(r)
    BY <1>0, <2>9 DEF EncodeFails, TypeOK, database
  <2>10. CASE Commit(r)
    BY <2>10, InstallTyped DEF Commit, TypeOK, Keys
  <2>11. CASE Answer(r)
    BY <2>11 DEF Answer, TypeOK, database
  <2> QED
    BY <1>1, <2>1, <2>2, <2>3, <2>4, <2>5, <2>6, <2>7, <2>8, <2>9, <2>10, <2>11 DEF Serve
<1>2. ASSUME NEW r \in Requests, Failure(r)
      PROVE  TypeOK'
  <2>0. faults' \in 0 .. MaxFaults
    BY <1>0, <1>2 DEF Failure, StatementFails, CommitUnknown, Abandon, Fault, TypeOK
  <2>1. CASE StatementFails(r)
    BY <1>0, <2>0, <2>1 DEF StatementFails, Forget, TypeOK, database
  <2>2. CASE CommitUnknown(r)
    <3>1. answer' \in [Requests -> [status : Nat, standard : Requests \cup {None}]]
      BY <1>0, <2>2 DEF CommitUnknown, TypeOK
    <3>2. pc' \in [Requests -> PcValues]
      BY <2>2 DEF CommitUnknown, TypeOK
    <3> QED
      BY <2>0, <2>2, <3>1, <3>2, InstallTyped DEF CommitUnknown, TypeOK, Keys
  <2>3. CASE Abandon(r)
    <3>1. /\ now' \in [Requests -> Nat] /\ prior' \in [Requests -> Requests \cup {None}]
          /\ response' \in [Requests -> [status : Nat, standard : Requests \cup {None}]]
      <4>1. CASE Forget(r)
        BY <1>0, <4>1 DEF Forget, TypeOK
      <4>2. CASE UNCHANGED <<now, prior, response>>
        BY <4>2 DEF TypeOK
      <4> QED
        BY <2>3, <4>1, <4>2 DEF Abandon
    <3>2. pc' \in [Requests -> PcValues]
      BY <2>3 DEF Abandon, TypeOK
    <3>3. UNCHANGED <<clock, database, answer>>
      BY <2>3 DEF Abandon
    <3> QED
      BY <2>0, <3>1, <3>2, <3>3 DEF TypeOK, database
  <2> QED
    BY <1>2, <2>1, <2>2, <2>3 DEF Failure
<1>3. CASE Tick
  BY <1>0, <1>3 DEF Tick, TypeOK, database, request
<1>4. CASE Quiescent \/ UNCHANGED vars
  BY <1>4 DEF Quiescent, vars, TypeOK, database, request
<1>5. CASE FailureBeside
  <2>1. faults' \in 0 .. MaxFaults
    BY <1>0, <1>5 DEF FailureBeside, Fault, TypeOK
  <2> QED
    BY <1>5, <2>1 DEF FailureBeside, TypeOK, database, request
<1> QED
  BY <1>1, <1>2, <1>3, <1>4, <1>5 DEF Next, Moves

\* The types hold before the first request.
LEMMA TypeInit ==
    ASSUME Init
    PROVE  TypeOK
<1>1. 0 \in 0 .. MaxClock /\ 0 \in 0 .. MaxFaults
  BY RequestAssumption
<1>2. NoAnswer \in [status : Nat, standard : Requests \cup {None}]
  BY ResponseTyped DEF NoAnswer
<1> QED
  BY <1>1, <1>2 DEF Init, TypeOK, PcValues

\* The specification is type correct.
THEOREM StandardsTypeCorrect == Spec => []TypeOK
<1>1. TypeOK /\ [Next]_vars => TypeOK'
  BY TypeStep DEF Moves
<1> QED
  BY <1>1, TypeInit, PTL DEF Spec

-----------------------------------------------------------------------------
(***************************************************************************)
(* The shapes a step can have.                                             *)
(***************************************************************************)

\* Of the requests, only r changes.
OnlyRequest(r) ==
    \A s \in Requests \ {r} :
        /\ now'[s] = now[s] /\ prior'[s] = prior[s]
        /\ response'[s] = response[s] /\ answer'[s] = answer[s]

\* The handler of r works inside its transaction.
Working(r) ==
    /\ InTx(r)
    /\ \E to \in TxSteps \ {"inserted"} : pc' = [pc EXCEPT ![r] = to]
    /\ OnlyRequest(r)
    /\ UNCHANGED <<clock, database, answer>>

\* The transaction of r is rolled back, or was never begun.
Aborting(r) ==
    /\ InTx(r) \/ pc[r] = "new"
    /\ \E to \in Ended : pc' = [pc EXCEPT ![r] = to]
    /\ Forget(r)
    /\ answer' \in {answer, [answer EXCEPT ![r] = Response(500, None)]}
    /\ UNCHANGED <<clock, database>>

\* The writes of r become visible.
Installing(r) ==
    /\ pc[r] = "handled"
    /\ \E to \in {"committed", "answered"} : pc' = [pc EXCEPT ![r] = to]
    /\ InstallWrites(r)
    /\ answer' \in {answer, [answer EXCEPT ![r] = Response(500, None)]}
    /\ UNCHANGED <<clock, now, prior, response>>

\* The client of r is told something, or nothing.
Telling(r) ==
    /\ \E to \in Ended : pc' = [pc EXCEPT ![r] = to]
    /\ \/ RefuseMissingKey(r)
       \/ ReplayCachedResponse(r)
       \/ Answer(r)
       \/ pc[r] = "committed" /\ answer' = answer
    /\ UNCHANGED <<clock, database, now, prior, response>>

\* The handler's statements.
Handle(r) ==
    \/ RefuseTaskType(r) \/ ReadClock(r) \/ FindCurrentlyActive(r)
    \/ RejectStandard(r) \/ CloseAndSave(r) \/ EncodeFails(r)

\* Each statement of the handler works inside the transaction.
LEMMA HandleIsWorking ==
    ASSUME TypeOK, NEW r \in Requests, Handle(r)
    PROVE  Working(r)
<1> USE DEF TypeOK, Goto, Handled, InTx, TxSteps, Working, OnlyRequest
<1>1. CASE RefuseTaskType(r)
  BY <1>1 DEF RefuseTaskType
<1>2. CASE ReadClock(r)
  BY <1>2 DEF ReadClock
<1>3. CASE FindCurrentlyActive(r)
  BY <1>3 DEF FindCurrentlyActive
<1>4. CASE RejectStandard(r)
  BY <1>4 DEF RejectStandard
<1>5. CASE CloseAndSave(r)
  BY <1>5 DEF CloseAndSave
<1>6. CASE EncodeFails(r)
  BY <1>6 DEF EncodeFails
<1> QED
  BY <1>1, <1>2, <1>3, <1>4, <1>5, <1>6 DEF Handle

\* Every step has one of the shapes, or is the clock's.
LEMMA StepShape ==
    ASSUME TypeOK, Moves
    PROVE  \/ \E r \in Requests : \/ InsertKey(r) \/ Handle(r) \/ Aborting(r)
                                  \/ Installing(r) \/ Telling(r)
           \/ UNCHANGED <<database, request>> /\ (Tick \/ clock' = clock)
<1> USE DEF Goto, Reply
<1>1. ASSUME NEW r \in Requests, Serve(r)
      PROVE  InsertKey(r) \/ Handle(r) \/ Installing(r) \/ Telling(r)
  <2>1. CASE RefuseMissingKey(r) \/ ReplayCachedResponse(r)
    <3>1. pc' = [pc EXCEPT ![r] = "answered"]
          /\ UNCHANGED <<clock, database, now, prior, response>>
      BY <2>1 DEF RefuseMissingKey, ReplayCachedResponse
    <3> QED
      BY <2>1, <3>1 DEF Telling, Ended
  <2>2. CASE Commit(r)
    BY <2>2 DEF Commit, Installing
  <2>3. CASE Answer(r)
    <3>1. pc' = [pc EXCEPT ![r] = "answered"]
          /\ UNCHANGED <<clock, database, now, prior, response>>
      BY <2>3 DEF Answer
    <3> QED
      BY <2>3, <3>1 DEF Telling, Ended
  <2> QED
    BY <1>1, <2>1, <2>2, <2>3 DEF Serve, Handle
<1>2. ASSUME NEW r \in Requests, Failure(r)
      PROVE  Aborting(r) \/ Installing(r) \/ Telling(r)
  <2>1. CASE StatementFails(r)
    BY <2>1 DEF StatementFails, Aborting, Ended
  <2>2. CASE CommitUnknown(r)
    BY <2>2 DEF CommitUnknown, Installing
  <2>3. CASE Abandon(r)
    <3>0. pc' = [pc EXCEPT ![r] = "lost"] /\ UNCHANGED <<clock, database, answer>>
      BY <2>3 DEF Abandon
    <3>1. CASE InTx(r) /\ Forget(r)
      BY <3>0, <3>1 DEF Aborting, Ended
    <3>2. CASE pc[r] = "committed" /\ UNCHANGED <<now, prior, response>>
      BY <3>0, <3>2 DEF Telling, Ended
    <3> QED
      BY <2>3, <3>1, <3>2 DEF Abandon
  <2> QED
    BY <1>2, <2>1, <2>2, <2>3 DEF Failure
<1>3. CASE Tick \/ Quiescent \/ UNCHANGED vars \/ FailureBeside
  BY <1>3 DEF Tick, Quiescent, FailureBeside, vars
<1> QED
  BY <1>1, <1>2, <1>3 DEF Next, Moves

-----------------------------------------------------------------------------
(***************************************************************************)
(* A key takes effect once.                                                *)
(***************************************************************************)

\* A transaction is open only for a key nobody holds, and it alone for the key.
KeyExclusive ==
    \A r \in Requests : InTx(r) =>
        /\ Key[r] # NoKey /\ keys[Key[r]] = None
        /\ \A s \in Requests : InTx(s) /\ Key[s] = Key[r] => s = r

\* The holder of a key is one of its requests, and past its transaction.
KeyHeld ==
    \A r \in Requests : keys[Key[r]] # None =>
        /\ Key[keys[Key[r]]] = Key[r]
        /\ pc[keys[Key[r]]] \in {"committed"} \cup Ended

\* What committed holds its key.
CommittedHolds ==
    /\ \A s \in created : keys[Key[s]] = s
    /\ \A r \in Requests : pc[r] = "committed" => keys[Key[r]] = r

\* An event is of a standard that was created, and the only one of it.
AnnouncedOnce ==
    /\ \A i, j \in DOMAIN outbox : outbox[i].standard = outbox[j].standard => i = j
    /\ \A i \in DOMAIN outbox : outbox[i].standard \in created

OnceInv == TypeOK /\ KeyExclusive /\ KeyHeld /\ CommittedHolds /\ AnnouncedOnce

\* The request whose writes become visible is fresh in every table.
LEMMA InstallsFresh ==
    ASSUME OnceInv, NEW r \in Requests, Installing(r)
    PROVE  /\ r \notin created /\ keys[Key[r]] = None /\ Key[r] # NoKey
           /\ \A i \in DOMAIN outbox : outbox[i].standard # r
           /\ \A s \in Requests : s # r /\ InTx(s) => Key[s] # Key[r]
<1>1. InTx(r)
  BY DEF Installing, InTx, TxSteps
<1>2. None \notin Requests
  BY RequestAssumption
<1> QED
  BY <1>1, <1>2 DEF OnceInv, KeyExclusive, CommittedHolds, AnnouncedOnce

\* A step keeps the exclusion of transactions by key.
LEMMA KeyExclusiveStep ==
    ASSUME OnceInv, Moves
    PROVE  KeyExclusive'
<1> USE DEF InTx, TxSteps, Ended
<1>0. TypeOK /\ KeyExclusive /\ \A r \in Requests : Key[r] \in Keys
  BY DEF OnceInv, Keys
<1>1. ASSUME NEW r \in Requests, InsertKey(r)
      PROVE  KeyExclusive'
  <2>1. /\ pc' = [pc EXCEPT ![r] = "inserted"] /\ keys' = keys
        /\ Key[r] # NoKey /\ keys[Key[r]] = None
        /\ \A s \in Requests : InTx(s) => Key[s] # Key[r]
    BY <1>1 DEF InsertKey, Goto, database, KeyIsLocked
  <2> QED
    BY <1>0, <2>1 DEF KeyExclusive, TypeOK
<1>2. ASSUME NEW r \in Requests, Handle(r)
      PROVE  KeyExclusive'
  <2>1. Working(r)
    BY <1>0, <1>2, HandleIsWorking
  <2> QED
    BY <1>0, <2>1 DEF Working, KeyExclusive, TypeOK, database
<1>3. ASSUME NEW r \in Requests, Aborting(r) \/ Telling(r)
      PROVE  KeyExclusive'
  <2>1. keys' = keys /\ \A s \in Requests : InTx(s)' => InTx(s)
    BY <1>0, <1>3 DEF Aborting, Telling, TypeOK, database
  <2> QED
    BY <1>0, <2>1 DEF KeyExclusive
<1>4. ASSUME NEW r \in Requests, Installing(r)
      PROVE  KeyExclusive'
  <2>1. /\ \A s \in Requests : s # r /\ InTx(s) => Key[s] # Key[r]
        /\ \A s \in Requests : InTx(s)' => InTx(s) /\ s # r
    BY <1>0, <1>4, InstallsFresh DEF Installing, TypeOK
  <2>2. keys' = [keys EXCEPT ![Key[r]] = r]
    BY <1>4 DEF Installing, InstallWrites
  <2> QED
    BY <1>0, <2>1, <2>2 DEF KeyExclusive, TypeOK
<1>5. CASE UNCHANGED <<database, request>>
  BY <1>0, <1>5 DEF KeyExclusive, database, request
<1> QED
  BY <1>0, <1>1, <1>2, <1>3, <1>4, <1>5, StepShape

\* A step keeps who holds a key, and what committed holds its own.
LEMMA HoldersStep ==
    ASSUME OnceInv, Moves
    PROVE  KeyHeld' /\ CommittedHolds'
<1> USE DEF InTx, TxSteps, Ended
<1>0. /\ TypeOK /\ KeyExclusive /\ KeyHeld /\ CommittedHolds
      /\ \A r \in Requests : Key[r] \in Keys
      /\ None \notin Requests /\ created \subseteq Requests
  BY RequestAssumption DEF OnceInv, Keys, TypeOK
<1>k. keys \in [Keys -> Requests \cup {None}]
  BY <1>0 DEF TypeOK, Keys
<1>1. ASSUME UNCHANGED <<keys, created>>,
             \A s \in Requests : pc[s] \in {"committed", "answered", "lost"} =>
                                     pc'[s] \in {"committed", "answered", "lost"},
             \A s \in Requests : pc'[s] = "committed" => pc[s] = "committed"
      PROVE  KeyHeld' /\ CommittedHolds'
  <2>1. KeyHeld'
    BY <1>0, <1>k, <1>1 DEF KeyHeld
  <2>2. CommittedHolds'
    BY <1>0, <1>1 DEF CommittedHolds
  <2> QED
    BY <2>1, <2>2
<1>2. ASSUME NEW r \in Requests, InsertKey(r)
      PROVE  KeyHeld' /\ CommittedHolds'
  BY <1>0, <1>1, <1>2 DEF InsertKey, Goto, database, TypeOK
<1>3. ASSUME NEW r \in Requests, Handle(r)
      PROVE  KeyHeld' /\ CommittedHolds'
  <2>1. Working(r)
    BY <1>0, <1>3, HandleIsWorking
  <2> QED
    BY <1>0, <1>1, <2>1 DEF Working, database, TypeOK
<1>4. ASSUME NEW r \in Requests, Aborting(r) \/ Telling(r)
      PROVE  KeyHeld' /\ CommittedHolds'
  BY <1>0, <1>1, <1>4 DEF Aborting, Telling, database, TypeOK
<1>5. ASSUME NEW r \in Requests, Installing(r)
      PROVE  KeyHeld' /\ CommittedHolds'
  <2>1. /\ r \notin created /\ keys[Key[r]] = None
        /\ \A s \in created : s \in Requests /\ keys[Key[s]] = s
    BY <1>0, <1>5, InstallsFresh DEF CommittedHolds
  <2>2. /\ keys' = [keys EXCEPT ![Key[r]] = r]
        /\ created' \subseteq created \cup {r}
    BY <1>5 DEF Installing, InstallWrites
  <2>3. /\ pc'[r] \in {"committed", "answered"}
        /\ \A s \in Requests \ {r} : pc'[s] = pc[s]
    BY <1>0, <1>5 DEF Installing, TypeOK
  <2>4. KeyHeld'
    BY <1>0, <1>k, <2>2, <2>3 DEF KeyHeld
  <2>5. CommittedHolds'
    BY <1>0, <1>k, <2>1, <2>2, <2>3 DEF CommittedHolds
  <2> QED
    BY <2>4, <2>5
<1>6. CASE UNCHANGED <<database, request>>
  BY <1>1, <1>6 DEF database, request
<1> QED
  BY <1>0, <1>2, <1>3, <1>4, <1>5, <1>6, StepShape

\* A step announces nothing twice, and nothing that was not created.
LEMMA AnnouncedOnceStep ==
    ASSUME OnceInv, Moves
    PROVE  AnnouncedOnce'
<1>0. TypeOK /\ AnnouncedOnce
  BY DEF OnceInv
<1>1. ASSUME UNCHANGED <<created, outbox>>
      PROVE  AnnouncedOnce'
  BY <1>0, <1>1 DEF AnnouncedOnce
<1>2. ASSUME NEW r \in Requests, Installing(r)
      PROVE  AnnouncedOnce'
  <2> DEFINE Events == [type : EventTypes, standard : Requests, previous : SUBSET Int]
  <2>1. /\ \A i \in DOMAIN outbox : outbox[i].standard # r
        /\ created \subseteq created'
    <3>1. InstallWrites(r)
      BY <1>2 DEF Installing
    <3>2. created' = created \/ created' = created \cup {r}
      BY <3>1 DEF InstallWrites
    <3>3. \A i \in DOMAIN outbox : outbox[i].standard # r
      BY <1>2, InstallsFresh
    <3> QED
      BY <3>2, <3>3
  <2>2. \/ outbox' = outbox
        \/ outbox' = Append(outbox, StandardEvent(r)) /\ r \in created'
    BY <1>2 DEF Installing, InstallWrites
  <2>3. outbox \in Seq(Events) /\ StandardEvent(r).standard = r
    BY <1>0 DEF TypeOK, StandardEvent
  <2> HIDE DEF Events
  <2>4. CASE outbox' = outbox
    BY <1>0, <2>1, <2>4 DEF AnnouncedOnce
  <2>5. CASE outbox' = Append(outbox, StandardEvent(r)) /\ r \in created'
    <3>1. /\ Len(outbox') = Len(outbox) + 1
          /\ outbox'[Len(outbox) + 1] = StandardEvent(r)
          /\ \A i \in 1 .. Len(outbox) : outbox'[i] = outbox[i]
          /\ DOMAIN outbox' = 1 .. Len(outbox) + 1 /\ DOMAIN outbox = 1 .. Len(outbox)
          /\ Len(outbox) \in Nat
      BY <2>3, <2>5
    <3>2. \A i \in DOMAIN outbox' : outbox'[i].standard \in created'
      BY <1>0, <2>1, <2>3, <2>5, <3>1 DEF AnnouncedOnce
    <3>3. ASSUME NEW i \in DOMAIN outbox', NEW j \in DOMAIN outbox',
                 outbox'[i].standard = outbox'[j].standard
          PROVE  i = j
      BY <1>0, <2>1, <2>3, <3>1, <3>3 DEF AnnouncedOnce
    <3> QED
      BY <3>2, <3>3 DEF AnnouncedOnce
  <2> QED
    BY <2>2, <2>4, <2>5
<1>3. ASSUME NEW r \in Requests, InsertKey(r) \/ Handle(r) \/ Aborting(r) \/ Telling(r)
      PROVE  UNCHANGED <<created, outbox>>
  BY <1>0, <1>3, HandleIsWorking DEF InsertKey, Working, Aborting, Telling, database
<1> QED
  BY <1>0, <1>1, <1>2, <1>3, StepShape DEF database

\* OnceInv is inductive.
LEMMA OnceStep ==
    ASSUME OnceInv, Moves
    PROVE  OnceInv'
BY TypeStep, KeyExclusiveStep, HoldersStep, AnnouncedOnceStep DEF OnceInv

\* OnceInv holds before the first request.
LEMMA OnceInit ==
    ASSUME Init
    PROVE  OnceInv
<1>1. TypeOK
  BY TypeInit
<1>2. \A r \in Requests : keys[Key[r]] = None
  BY DEF Init
<1> QED
  BY <1>1, <1>2 DEF Init, OnceInv, KeyExclusive, KeyHeld, CommittedHolds, AnnouncedOnce,
                    InTx, TxSteps

\* An idempotency key takes effect once: of the requests that carry it, however
\* they are retried, raced or cut short, at most one creates a standard, and
\* that standard is announced at most once.  The core is KeyExclusive, the lock
\* the INSERT of the key takes, which makes what commits fresh (InstallsFresh).
THEOREM KeysApplyOnce == Spec => []AppliedOnce
<1>1. OnceInv => AppliedOnce
  <2>1. OnceInv => \A r, s \in created : Key[r] = Key[s] => r = s
    BY DEF OnceInv, CommittedHolds
  <2> QED
    BY <2>1 DEF OnceInv, AnnouncedOnce, AppliedOnce
<1>2. [Next]_vars => Moves
  BY DEF Moves
<1> QED
  BY <1>1, <1>2, OnceInit, OnceStep, PTL DEF Spec

-----------------------------------------------------------------------------
(***************************************************************************)
(* Answers agree, and only what was refused goes unannounced.              *)
(***************************************************************************)

\* What the handler of r may have answered.
Outcomes(r) ==
    {Response(400, None), Response(422, None), Response(500, None), Response(201, r)}

Announced(s) == \E i \in DOMAIN outbox : outbox[i].standard = s

\* A handler that is done has an outcome.
HandledOutcome ==
    \A r \in Requests : pc[r] = "handled" =>
        /\ response[r] \in Outcomes(r)
        /\ response[r].status = 500 => r \in Unencodable

\* The outcome stored for a key is what its transaction did.
HeldOutcome ==
    \A h \in Requests : keys[Key[h]] = h =>
        /\ Key[h] # NoKey
        /\ response[h] \in Outcomes(h)
        /\ response[h].status = 201 => h \in created /\ Announced(h)
        /\ response[h].status = 500 => h \in Unencodable
        /\ h \in created => response[h].status \in {201, 500}

\* The answer a stored outcome gives to request r.
Cached(r) == IF Body(keys[Key[r]]) = Body(r) THEN response[keys[Key[r]]]
                                             ELSE Response(422, None)

\* A definite answer is the stored outcome, or the refusal of a missing key.
Told ==
    \A r \in Requests : answer[r].status \notin {0, 500} =>
        \/ Key[r] = NoKey /\ answer[r] = Response(400, None)
        \/ Key[r] # NoKey /\ keys[Key[r]] # None /\ answer[r] = Cached(r)

AgreeInv == OnceInv /\ HandledOutcome /\ HeldOutcome /\ Told

\* The stored outcomes and the answers given stay what they are, for every
\* request but the one that steps.
LEMMA OutcomesStay ==
    ASSUME OnceInv, NEW r \in Requests,
           InsertKey(r) \/ Handle(r) \/ Aborting(r) \/ Telling(r)
    PROVE  /\ UNCHANGED database
           /\ \A s \in Requests \ {r} : answer'[s] = answer[s] /\ pc'[s] = pc[s]
                                        /\ response'[s] = response[s]
           /\ \A s \in Requests : keys[Key[s]] # None =>
                                      response'[keys[Key[s]]] = response[keys[Key[s]]]
<1>0. TypeOK /\ KeyHeld /\ keys \in [Keys -> Requests \cup {None}]
  BY DEF OnceInv, TypeOK, Keys
<1>1. /\ UNCHANGED database
      /\ \A s \in Requests \ {r} : answer'[s] = answer[s] /\ pc'[s] = pc[s]
                                   /\ response'[s] = response[s]
      /\ response'[r] # response[r] => InTx(r) \/ pc[r] = "new"
  <2>1. CASE InsertKey(r)
    BY <1>0, <2>1 DEF InsertKey, Goto, TypeOK
  <2>2. CASE Handle(r)
    <3>1. Working(r)
      BY <1>0, <2>2, HandleIsWorking
    <3> QED
      BY <1>0, <3>1 DEF Working, OnlyRequest, TypeOK
  <2>3. CASE Aborting(r)
    BY <1>0, <2>3 DEF Aborting, Forget, TypeOK
  <2>4. CASE Telling(r)
    <3>1. /\ UNCHANGED <<database, response>>
          /\ \A s \in Requests \ {r} : pc'[s] = pc[s]
      BY <1>0, <2>4 DEF Telling, TypeOK
    <3>2. \A s \in Requests \ {r} : answer'[s] = answer[s]
      BY <1>0, <2>4 DEF Telling, RefuseMissingKey, ReplayCachedResponse, Answer, Reply, TypeOK
    <3> QED
      BY <3>1, <3>2
  <2> QED
    BY <2>1, <2>2, <2>3, <2>4
<1>2. ASSUME NEW s \in Requests, keys[Key[s]] # None
      PROVE  response'[keys[Key[s]]] = response[keys[Key[s]]]
  <2>1. /\ keys[Key[s]] \in Requests
        /\ pc[keys[Key[s]]] \in {"committed", "answered", "lost"}
    BY <1>0, <1>2 DEF KeyHeld, Keys, Ended
  <2> QED
    BY <1>1, <2>1 DEF InTx, TxSteps
<1> QED
  BY <1>1, <1>2

\* A handler ends with an outcome.
LEMMA HandledOutcomeStep ==
    ASSUME AgreeInv, Moves
    PROVE  HandledOutcome'
<1>0. OnceInv /\ TypeOK /\ HandledOutcome
  BY DEF AgreeInv, OnceInv
<1>1. ASSUME NEW r \in Requests, Handle(r)
      PROVE  HandledOutcome'
  <2>1. \A s \in Requests \ {r} : pc'[s] = pc[s] /\ response'[s] = response[s]
    BY <1>0, <1>1, OutcomesStay
  <2>2. pc'[r] = "handled" => /\ response'[r] \in Outcomes(r)
                              /\ response'[r].status = 500 => r \in Unencodable
    BY <1>0, <1>1 DEF Handle, RefuseTaskType, ReadClock, FindCurrentlyActive,
          RejectStandard, CloseAndSave, EncodeFails, Handled, Goto, Outcomes, Response,
          TypeOK
  <2> QED
    BY <1>0, <2>1, <2>2 DEF HandledOutcome
<1>2. ASSUME NEW r \in Requests, InsertKey(r) \/ Aborting(r) \/ Telling(r)
      PROVE  HandledOutcome'
  <2>1. \A s \in Requests \ {r} : pc'[s] = pc[s] /\ response'[s] = response[s]
    BY <1>0, <1>2, OutcomesStay
  <2>2. pc'[r] # "handled"
    BY <1>0, <1>2 DEF InsertKey, Aborting, Telling, Goto, Ended, TypeOK
  <2> QED
    BY <1>0, <2>1, <2>2 DEF HandledOutcome
<1>3. ASSUME NEW r \in Requests, Installing(r)
      PROVE  HandledOutcome'
  BY <1>0, <1>3 DEF Installing, HandledOutcome, TypeOK
<1>4. CASE UNCHANGED <<database, request>>
  BY <1>0, <1>4 DEF request, HandledOutcome
<1> QED
  BY <1>0, <1>1, <1>2, <1>3, <1>4, StepShape

\* What is stored for a key is what was done.
LEMMA HeldOutcomeStep ==
    ASSUME AgreeInv, Moves
    PROVE  HeldOutcome'
<1>0. /\ OnceInv /\ TypeOK /\ HeldOutcome /\ HandledOutcome
      /\ \A h \in Requests : Key[h] \in Keys
      /\ keys \in [Keys -> Requests \cup {None}] /\ None \notin Requests
  BY RequestAssumption DEF AgreeInv, OnceInv, TypeOK, Keys
<1>1. ASSUME NEW r \in Requests, InsertKey(r) \/ Handle(r) \/ Aborting(r) \/ Telling(r)
      PROVE  HeldOutcome'
  <2>1. /\ UNCHANGED <<keys, created, outbox>>
        /\ \A h \in Requests : keys[Key[h]] = h => response'[h] = response[h]
    BY <1>0, <1>1, OutcomesStay DEF database
  <2> QED
    BY <1>0, <2>1 DEF HeldOutcome, Announced
<1>2. ASSUME NEW r \in Requests, Installing(r)
      PROVE  HeldOutcome'
  <2> DEFINE Events == [type : EventTypes, standard : Requests, previous : SUBSET Int]
  <2>1. r \notin created /\ Key[r] # NoKey
    BY <1>0, <1>2, InstallsFresh
  <2>2. /\ InstallWrites(r) /\ response' = response /\ pc[r] = "handled"
        /\ response[r] \in Outcomes(r)
        /\ response[r].status = 500 => r \in Unencodable
    BY <1>0, <1>2 DEF Installing, HandledOutcome
  <2>3. /\ keys' = [keys EXCEPT ![Key[r]] = r]
        /\ response[r].status \in {201, 500} => created' = created \cup {r}
        /\ response[r].status \notin {201, 500} => created' = created
    BY <2>2 DEF InstallWrites
  <2>4. \/ outbox' = Append(outbox, StandardEvent(r))
        \/ outbox' = outbox /\ response[r].status # 201
    BY <2>2 DEF InstallWrites
  <2>5. outbox \in Seq(Events) /\ StandardEvent(r).standard = r
    BY <1>0 DEF TypeOK, StandardEvent
  <2> HIDE DEF Events
  <2>6. outbox' = Append(outbox, StandardEvent(r)) =>
          /\ \A i \in DOMAIN outbox : i \in DOMAIN outbox' /\ outbox'[i] = outbox[i]
          /\ Len(outbox) + 1 \in DOMAIN outbox'
          /\ outbox'[Len(outbox) + 1] = StandardEvent(r)
    BY <2>5
  <2>7. /\ \A h \in Requests : Announced(h) => Announced(h)'
        /\ response[r].status = 201 => Announced(r)'
    BY <2>4, <2>5, <2>6 DEF Announced
  <2>8. ASSUME NEW h \in Requests, keys'[Key[h]] = h, h # r
        PROVE  /\ keys[Key[h]] = h
               /\ h \in created' <=> h \in created
    BY <1>0, <2>3, <2>8
  <2>9. ASSUME NEW h \in Requests, keys'[Key[h]] = h
        PROVE  /\ Key[h] # NoKey
               /\ response'[h] \in Outcomes(h)
               /\ response'[h].status = 201 => h \in created' /\ Announced(h)'
               /\ response'[h].status = 500 => h \in Unencodable
               /\ h \in created' => response'[h].status \in {201, 500}
    <3>1. CASE h = r
      BY <2>1, <2>2, <2>3, <2>7, <3>1
    <3>2. CASE h # r
      <4>1. keys[Key[h]] = h /\ (h \in created' <=> h \in created)
        BY <2>8, <2>9, <3>2
      <4> QED
        BY <1>0, <2>2, <2>7, <4>1 DEF HeldOutcome
    <3> QED
      BY <3>1, <3>2
  <2> QED
    BY <2>9 DEF HeldOutcome
<1>3. CASE UNCHANGED <<database, request>>
  BY <1>0, <1>3 DEF database, request, HeldOutcome, Announced
<1> QED
  BY <1>0, <1>1, <1>2, <1>3, StepShape

\* Nobody is told anything but what is stored.
LEMMA ToldStep ==
    ASSUME AgreeInv, Moves
    PROVE  Told'
<1>0. /\ OnceInv /\ TypeOK /\ KeyHeld /\ HeldOutcome /\ Told
      /\ \A h \in Requests : Key[h] \in Keys
      /\ keys \in [Keys -> Requests \cup {None}] /\ None \notin Requests
      /\ \A s \in Requests : keys[Key[s]] # None => keys[Key[s]] \in Requests
  BY RequestAssumption DEF AgreeInv, OnceInv, TypeOK, Keys
<1>1. ASSUME NEW r \in Requests, InsertKey(r) \/ Handle(r) \/ Aborting(r) \/ Telling(r)
      PROVE  Told'
  <2>1. /\ keys' = keys
        /\ \A s \in Requests \ {r} : answer'[s] = answer[s]
        /\ \A s \in Requests : keys[Key[s]] # None =>
                                   Cached(s)' = Cached(s)
    BY <1>0, <1>1, OutcomesStay DEF database, Cached, Body
  <2>2. CASE InsertKey(r) \/ Handle(r) \/ Aborting(r)
    <3>1. answer'[r] = answer[r] \/ answer'[r] = Response(500, None)
      BY <1>0, <2>2, HandleIsWorking DEF InsertKey, Working, Aborting, TypeOK
    <3>2. Response(500, None).status = 500
      BY DEF Response
    <3> QED
      BY <1>0, <2>1, <3>1, <3>2 DEF Told
  <2>3. CASE Telling(r)
    <3>1. CASE RefuseMissingKey(r)
      <4>1. Key[r] = NoKey /\ answer'[r] = Response(400, None)
        BY <1>0, <3>1 DEF RefuseMissingKey, Reply, TypeOK
      <4> QED
        BY <1>0, <2>1, <4>1 DEF Told
    <3>2. CASE ReplayCachedResponse(r)
      <4>1. Key[r] # NoKey /\ keys[Key[r]] # None /\ answer'[r] = Cached(r)
        BY <1>0, <3>2 DEF ReplayCachedResponse, Reply, Cached, TypeOK
      <4> QED
        BY <1>0, <2>1, <4>1 DEF Told
    <3>3. CASE Answer(r)
      <4>1. keys[Key[r]] = r /\ answer'[r] = response[r]
        BY <1>0, <3>3 DEF Answer, Goto, Reply, TypeOK, OnceInv, CommittedHolds
      <4>2. Key[r] # NoKey /\ keys[Key[r]] # None /\ Cached(r) = response[r]
        BY <1>0, <4>1 DEF HeldOutcome, Cached
      <4> QED
        BY <1>0, <2>1, <4>1, <4>2 DEF Told
    <3>4. CASE answer' = answer
      BY <1>0, <2>1, <3>4 DEF Told
    <3> QED
      BY <2>3, <3>1, <3>2, <3>3, <3>4 DEF Telling
  <2> QED
    BY <1>1, <2>2, <2>3
<1>2. ASSUME NEW r \in Requests, Installing(r)
      PROVE  Told'
  <2>1. keys[Key[r]] = None /\ Key[r] # NoKey
    BY <1>0, <1>2, InstallsFresh
  <2>2. /\ response' = response
        /\ answer' = answer \/ answer' = [answer EXCEPT ![r] = Response(500, None)]
        /\ InstallWrites(r)
    BY <1>2 DEF Installing
  <2>3. keys' = [keys EXCEPT ![Key[r]] = r]
    BY <2>2 DEF InstallWrites
  <2>4. ASSUME NEW s \in Requests, answer'[s].status \notin {0, 500}
        PROVE  \/ Key[s] = NoKey /\ answer'[s] = Response(400, None)
               \/ Key[s] # NoKey /\ keys'[Key[s]] # None /\ answer'[s] = Cached(s)'
    <3>1. answer'[s] = answer[s]
      <4>1. Response(500, None).status = 500
        BY DEF Response
      <4> QED
        BY <1>0, <2>2, <2>4, <4>1 DEF TypeOK
    <3>2. CASE Key[s] = NoKey
      BY <1>0, <2>4, <3>1, <3>2 DEF Told
    <3>3. CASE Key[s] # NoKey
      <4>1. keys[Key[s]] # None /\ answer[s] = Cached(s)
        BY <1>0, <2>4, <3>1, <3>3 DEF Told
      <4>2. keys'[Key[s]] = keys[Key[s]]
        BY <1>0, <2>1, <2>3, <4>1
      <4>3. Cached(s)' = Cached(s)
        BY <2>2, <4>2 DEF Cached, Body
      <4> QED
        BY <3>1, <3>3, <4>1, <4>2, <4>3
    <3> QED
      BY <3>2, <3>3
  <2> QED
    BY <2>4 DEF Told
<1>3. CASE UNCHANGED <<database, request>>
  BY <1>0, <1>3 DEF database, request, Told, Cached, Body
<1> QED
  BY <1>0, <1>1, <1>2, <1>3, StepShape

\* AgreeInv is inductive.
LEMMA AgreeStep ==
    ASSUME AgreeInv, Moves
    PROVE  AgreeInv'
BY OnceStep, HandledOutcomeStep, HeldOutcomeStep, ToldStep DEF AgreeInv

\* AgreeInv holds before the first request.
LEMMA AgreeInit ==
    ASSUME Init
    PROVE  AgreeInv
<1>1. OnceInv
  BY OnceInit
<1>2. HandledOutcome
  BY DEF Init, HandledOutcome
<1>3. HeldOutcome
  BY RequestAssumption DEF Init, HeldOutcome
<1>4. Told
  BY DEF Init, Told, NoAnswer, Response
<1> QED
  BY <1>1, <1>2, <1>3, <1>4 DEF AgreeInv

\* What clients are told is true and stable: a 201 names a committed standard,
\* and definite answers to the same key and body are equal, because each is the
\* outcome stored with the key, which no later request can change.
THEOREM AnswersDoAgree == Spec => []AnswersAgree
<1>1. AgreeInv => AnswersAgree
  <2> SUFFICES ASSUME AgreeInv,
                      NEW r \in Requests, answer[r].status \in {201, 400, 422}
               PROVE  /\ answer[r].status = 201 => answer[r].standard \in created
                      /\ \A s \in Requests :
                            /\ Key[s] = Key[r] /\ Body(s) = Body(r)
                            /\ answer[s].status \in {201, 400, 422}
                            => answer[s] = answer[r]
    BY DEF AnswersAgree
  <2>0. Told /\ HeldOutcome /\ KeyHeld /\ TypeOK
    BY DEF AgreeInv, OnceInv
  <2>1. ASSUME answer[r].status = 201
        PROVE  answer[r].standard \in created
    <3>1. /\ Key[r] # NoKey /\ keys[Key[r]] # None
          /\ answer[r] = response[keys[Key[r]]]
      BY <2>0, <2>1 DEF Told, Cached, Response
    <3>2. keys[Key[r]] \in Requests /\ keys[Key[keys[Key[r]]]] = keys[Key[r]]
      BY <2>0, <3>1 DEF KeyHeld, TypeOK
    <3>3. /\ response[keys[Key[r]]] \in Outcomes(keys[Key[r]])
          /\ keys[Key[r]] \in created
      BY <2>0, <2>1, <3>1, <3>2 DEF HeldOutcome
    <3> QED
      BY <2>1, <3>1, <3>3 DEF Outcomes, Response
  <2>2. ASSUME NEW s \in Requests, Key[s] = Key[r], Body(s) = Body(r),
               answer[s].status \in {201, 400, 422}
        PROVE  answer[s] = answer[r]
    BY <2>0, <2>2 DEF Told, Cached
  <2> QED
    BY <2>1, <2>2
<1>2. [Next]_vars => Moves
  BY DEF Moves
<1> QED
  BY <1>1, <1>2, AgreeInit, AgreeStep, PTL DEF Spec

\* A standard goes unannounced only when an encoder refused its own event, and
\* then nobody who sends its key and body is ever told anything but 500.
THEOREM OnlyRefusedIsUnannounced == Spec => []OnlyRefusedUnannounced
<1>1. AgreeInv => OnlyRefusedUnannounced
  <2> SUFFICES ASSUME AgreeInv, NEW s \in created, ~Announced(s)
               PROVE  /\ s \in Unencodable
                      /\ \A r \in Requests : Key[r] = Key[s] /\ Body(r) = Body(s)
                                             => answer[r].status \in {0, 500}
    BY DEF OnlyRefusedUnannounced, Announced
  <2>0. s \in Requests /\ keys[Key[s]] = s /\ Told /\ HeldOutcome
    BY DEF AgreeInv, OnceInv, TypeOK, CommittedHolds
  <2>1. Key[s] # NoKey /\ s \in Unencodable /\ response[s].status = 500
    BY <2>0 DEF HeldOutcome
  <2>2. ASSUME NEW r \in Requests, Key[r] = Key[s], Body(r) = Body(s)
        PROVE  answer[r].status \in {0, 500}
    BY <2>0, <2>1, <2>2 DEF Told, Cached
  <2> QED
    BY <2>1, <2>2
<1>2. [Next]_vars => Moves
  BY DEF Moves
<1> QED
  BY <1>1, <1>2, AgreeInit, AgreeStep, PTL DEF Spec

=============================================================================

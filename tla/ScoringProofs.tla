----------------------------- MODULE ScoringProofs -----------------------------
(***************************************************************************)
(* Proofs about the history of standards, for callers that revise a task   *)
(* type one request at a time (OneAtATime): the standards of a type follow *)
(* one another without a gap, what was in force never changes, POST        *)
(* /standards implements StandardTimeline, and a task is scored against    *)
(* the standard its history shows.                                         *)
(***************************************************************************)
EXTENDS Scoring, StandardsProofs

-----------------------------------------------------------------------------
(***************************************************************************)
(* The inductive invariant.                                                *)
(***************************************************************************)

\* One transaction at a time works on a task type.
TurnExclusive ==
    \A r, s \in Requests :
        InTx(r) /\ InTx(s) /\ WireTaskType[r] = WireTaskType[s] => r = s

\* The transaction of r has closed its prior and saved its standard.
Writes(r) == pc[r] = "handled" /\ response[r].status \in {201, 500}

\* Stamps are in the past, and only a known task type is written to.
Stamped ==
    /\ \A r \in Requests : now[r] <= clock
    /\ \A r \in Requests : \/ r \in created
                           \/ pc[r] \in {"timed", "found"}
                           \/ Writes(r)
                           => WireTaskType[r] \in TaskTypes

\* No committed standard is stamped more than MaxSkew after one under way.
SkewBounded ==
    \A r \in Requests : pc[r] \in {"timed", "found", "handled"} =>
        \A q \in StandardsOf(WireTaskType[r]) : now[q] <= now[r] + MaxSkew

\* The prior a transaction found is still the open standard of its type.
PriorIsOpen ==
    \A r \in Requests : pc[r] = "found" \/ Writes(r) =>
        Open(WireTaskType[r]) = {prior[r]} \ {None}

\* A type with standards has one open standard.
OneOpen == \A s \in created : \E q \in Requests : Open(WireTaskType[s]) = {q}

\* A standard is closed at the stamp of another of its type.
ClosedBySuccessor ==
    \A s \in Requests : effectiveTo[s] # {} =>
        /\ s \in created
        /\ \E q \in StandardsOf(WireTaskType[s]) : effectiveTo[s] = {now[q]}

HistInv ==
    /\ OnceInv
    /\ TurnExclusive
    /\ Stamped
    /\ SkewBounded
    /\ PriorIsOpen
    /\ OneOpen
    /\ ClosedBySuccessor

\* Outside the unsettled instants at most one standard is in force.
Settled ==
    \A type \in TaskTypes : \A t \in (0 .. MaxClock) \ unsettled[type] :
        \A p, q \in InForce(type, t) : p = q

\* What a task is scored against is what its history shows.
LookedUp ==
    \A k \in Tasks : /\ completedAt[k] <= clock
                     /\ /\ step[k] \in {"looked", "recorded"}
                        /\ completedAt[k] \notin unsettled[TypeOf[k]]
                        => InForce(TypeOf[k], completedAt[k]) = frozen[k]

ScoreInv == HistInv /\ ScoringTypeOK /\ Settled /\ LookedUp

-----------------------------------------------------------------------------
(***************************************************************************)
(* What a step does to the history.                                        *)
(***************************************************************************)

\* A committed standard's request is past its transaction.
LEMMA CreatedIsPast ==
    ASSUME OnceInv, NEW s \in created
    PROVE  s \in Requests /\ pc[s] \in {"committed", "answered", "lost"}
<1>1. s \in Requests /\ keys[Key[s]] = s /\ s # None
  BY RequestAssumption DEF OnceInv, CommittedHolds, TypeOK
<1> QED
  BY <1>1 DEF OnceInv, KeyHeld, Ended

\* While no row of labor_standards changes, the history stays.
LEMMA HistoryStays ==
    ASSUME UNCHANGED <<created, effectiveTo>>, \A s \in created : now'[s] = now[s]
    PROVE  \A type : /\ StandardsOf(type)' = StandardsOf(type)
                     /\ Open(type)' = Open(type)
                     /\ \A t : InForce(type, t)' = InForce(type, t)
<1>1. \A s \in created : Row(s)' = Row(s)
  BY DEF Row
<1>2. \A type : StandardsOf(type)' = StandardsOf(type)
  BY DEF StandardsOf
<1>3. \A type : Open(type)' = Open(type)
  BY <1>2 DEF Open
<1>4. ASSUME NEW type, NEW t
      PROVE  InForce(type, t)' = InForce(type, t)
  <2>1. \A s \in StandardsOf(type) : IsActiveAt(Row(s), t)' <=> IsActiveAt(Row(s), t)
    BY <1>1 DEF StandardsOf, IsActiveAt
  <2> QED
    BY <1>2, <2>1 DEF InForce
<1> QED
  BY <1>2, <1>3, <1>4

\* The step of a request that installs nothing: the rows and the stamps of
\* what committed stay, and so does every other request.
LEMMA QuietStep ==
    ASSUME OnceInv, NEW r \in Requests,
           InsertKey(r) \/ Handle(r) \/ Aborting(r) \/ Telling(r)
    PROVE  /\ UNCHANGED <<clock, created, effectiveTo, outbox>>
           /\ \A s \in created : now'[s] = now[s]
           /\ \A s \in Requests \ {r} : /\ pc'[s] = pc[s] /\ now'[s] = now[s]
                                        /\ prior'[s] = prior[s]
                                        /\ response'[s] = response[s]
<1>0. TypeOK /\ \A s \in created : s \in Requests /\ pc[s] \in {"committed", "answered", "lost"}
  BY CreatedIsPast DEF OnceInv
<1> USE DEF InTx, TxSteps
<1>1. CASE InsertKey(r)
  BY <1>0, <1>1 DEF InsertKey, Goto, TypeOK, database
<1>2. CASE Handle(r)
  <2>1. Working(r)
    BY <1>0, <1>2, HandleIsWorking
  <2> QED
    BY <1>0, <2>1 DEF Working, OnlyRequest, TypeOK, database
<1>3. CASE Aborting(r)
  <2>1. /\ UNCHANGED <<clock, created, effectiveTo, outbox>>
        /\ pc[r] \notin {"committed", "answered", "lost"}
        /\ \A s \in Requests \ {r} : pc'[s] = pc[s]
    BY <1>0, <1>3 DEF Aborting, TypeOK, database
  <2>2. \A s \in Requests \ {r} : /\ now'[s] = now[s] /\ prior'[s] = prior[s]
                                /\ response'[s] = response[s]
    BY <1>0, <1>3 DEF Aborting, Forget, TypeOK
  <2> QED
    BY <1>0, <2>1, <2>2
<1>4. CASE Telling(r)
  <2>1. /\ UNCHANGED <<clock, database, now, prior, response>>
        /\ \E to \in Ended : pc' = [pc EXCEPT ![r] = to]
    BY <1>4 DEF Telling
  <2> QED
    BY <1>0, <2>1 DEF TypeOK, database
<1> QED
  BY <1>1, <1>2, <1>3, <1>4

\* The step that commits a revision.
Revises(r) == Installing(r) /\ Writes(r)

\* A commit that revises nothing leaves the history alone.
LEMMA RefusalInstalls ==
    ASSUME NEW r, Installing(r), ~Writes(r)
    PROVE  UNCHANGED <<clock, created, effectiveTo, outbox, now, prior, response>>
BY DEF Installing, InstallWrites, Writes

\* A revision adds the new standard, open, and closes the one it found.
LEMMA RevisionRows ==
    ASSUME HistInv, NEW r \in Requests, Revises(r)
    PROVE  /\ UNCHANGED <<clock, now, prior, response>>
           /\ WireTaskType[r] \in TaskTypes
           /\ r \notin created /\ created' = created \cup {r}
           /\ Open(WireTaskType[r]) = {prior[r]} \ {None}
           /\ prior[r] # r
           /\ effectiveTo'[r] = {}
           /\ prior[r] # None => prior[r] \in created /\ effectiveTo'[prior[r]] = {now[r]}
           /\ \A s \in Requests \ {prior[r]} : effectiveTo'[s] = effectiveTo[s]
<1>0. /\ OnceInv /\ TypeOK /\ None \notin Requests
      /\ effectiveTo \in [Requests -> SUBSET Nat]
      /\ prior[r] \in Requests \cup {None}
  BY RequestAssumption DEF HistInv, OnceInv, TypeOK
<1>1. r \notin created
  BY <1>0, InstallsFresh DEF Revises
<1>2. InstallWrites(r) /\ UNCHANGED <<clock, now, prior, response>>
  BY DEF Revises, Installing
<1>3. /\ created' = created \cup {r}
      /\ effectiveTo' = [s \in Requests |-> IF s = prior[r] THEN {now[r]}
                                                         ELSE effectiveTo[s]]
  BY <1>2 DEF InstallWrites, Revises, Writes
<1>4. Open(WireTaskType[r]) = {prior[r]} \ {None}
  BY DEF HistInv, PriorIsOpen, Revises
<1>5. prior[r] # None => prior[r] \in created
  BY <1>4 DEF Open, StandardsOf
<1>6. WireTaskType[r] \in TaskTypes /\ effectiveTo[r] = {}
  BY <1>1 DEF HistInv, Stamped, ClosedBySuccessor, Revises
<1>7. prior[r] # r
  BY <1>0, <1>1, <1>5
<1> QED
  BY <1>0, <1>1, <1>2, <1>3, <1>4, <1>5, <1>6, <1>7

\* What a revision makes of the history: nothing changes for other types, nor
\* before its stamp; from there on its own standard is in force, and its prior
\* no longer is.
LEMMA RevisionHistory ==
    ASSUME HistInv, NEW r \in Requests, Revises(r)
    PROVE  /\ StandardsOf(WireTaskType[r])' = StandardsOf(WireTaskType[r]) \cup {r}
           /\ Open(WireTaskType[r])' = {r}
           /\ \A t \in Int :
                 InForce(WireTaskType[r], t)' =
                     IF t < now[r] THEN InForce(WireTaskType[r], t)
                     ELSE {r} \cup (InForce(WireTaskType[r], t) \ {prior[r]})
           /\ \A type : type # WireTaskType[r] =>
                 /\ StandardsOf(type)' = StandardsOf(type)
                 /\ Open(type)' = Open(type)
                 /\ \A t \in Int : InForce(type, t)' = InForce(type, t)
<1> DEFINE T == WireTaskType[r]
           Active(s, t) == IsActiveAt(Row(s), t)
<1>0. /\ now' = now /\ None \notin Requests /\ created \subseteq Requests
      /\ \A s \in Requests : now[s] \in Int
  BY RevisionRows, RequestAssumption DEF HistInv, OnceInv, TypeOK
<1>1. /\ r \notin created /\ created' = created \cup {r}
      /\ Open(T) = {prior[r]} \ {None}
      /\ prior[r] # r
      /\ effectiveTo'[r] = {}
      /\ prior[r] # None => prior[r] \in created /\ effectiveTo'[prior[r]] = {now[r]}
      /\ \A s \in Requests \ {prior[r]} : effectiveTo'[s] = effectiveTo[s]
  BY RevisionRows
<1>2. \A type : StandardsOf(type)' = IF type = T THEN StandardsOf(type) \cup {r}
                                              ELSE StandardsOf(type)
  BY <1>1 DEF StandardsOf
<1>3. prior[r] # None => WireTaskType[prior[r]] = T /\ effectiveTo[prior[r]] = {}
  BY <1>1 DEF Open, StandardsOf
<1>4. Open(T)' = {r}
  <2>1. \A s \in Requests : s \in Open(T) <=> (s = prior[r] /\ s # None)
    BY <1>1
  <2>2. ASSUME NEW s \in StandardsOf(T), s # prior[r]
        PROVE  effectiveTo'[s] # {}
    BY <1>0, <1>1, <2>1, <2>2 DEF Open, StandardsOf
  <2>3. prior[r] # None => effectiveTo'[prior[r]] # {}
    BY <1>1
  <2>4. \A s \in StandardsOf(T) : s # None
    BY <1>0 DEF StandardsOf
  <2>5. Open(T)' = {s \in StandardsOf(T)' : effectiveTo'[s] = {}}
    BY DEF Open
  <2> QED
    BY <1>1, <1>2, <2>2, <2>3, <2>4, <2>5
<1>5. ASSUME NEW type, type # T
      PROVE  Open(type)' = Open(type)
  BY <1>0, <1>1, <1>2, <1>3, <1>5 DEF Open, StandardsOf
<1>6. ASSUME NEW s \in created, NEW t \in Int, s # prior[r]
      PROVE  Active(s, t)' <=> Active(s, t)
  BY <1>0, <1>1, <1>6 DEF IsActiveAt, Row
<1>7. ASSUME NEW s \in created, NEW t \in Int, s = prior[r]
      PROVE  Active(s, t)' <=> t < now[r] /\ Active(s, t)
  <2>1. effectiveTo'[s] = {now[r]} /\ effectiveTo[s] = {} /\ now'[s] = now[s]
    BY <1>0, <1>1, <1>3, <1>7
  <2> QED
    BY <2>1 DEF IsActiveAt, Row
<1>8. ASSUME NEW t \in Int
      PROVE  Active(r, t)' <=> now[r] <= t
  BY <1>0, <1>1 DEF IsActiveAt, Row
<1>9. \A type, t : /\ InForce(type, t) = {s \in StandardsOf(type) : Active(s, t)}
                   /\ InForce(type, t)' = {s \in StandardsOf(type)' : Active(s, t)'}
  BY DEF InForce
<1>10. \A type : StandardsOf(type) \subseteq created
                 /\ \A s \in StandardsOf(type) : WireTaskType[s] = type /\ s # None
  BY <1>0 DEF StandardsOf
<1> HIDE DEF Active, T
<1>11. ASSUME NEW t \in Int
       PROVE  InForce(T, t)' = IF t < now[r] THEN InForce(T, t)
                               ELSE {r} \cup (InForce(T, t) \ {prior[r]})
  <2>1. CASE t < now[r]
    <3>1. ~Active(r, t)'
      BY <1>0, <1>8, <2>1
    <3>2. \A s \in StandardsOf(T) : Active(s, t)' <=> Active(s, t)
      BY <1>6, <1>7, <1>10, <2>1
    <3> QED
      BY <1>2, <1>9, <2>1, <3>1, <3>2
  <2>2. CASE ~(t < now[r])
    <3>1. Active(r, t)'
      BY <1>0, <1>8, <2>2
    <3>2. \A s \in StandardsOf(T) : Active(s, t)' <=> s # prior[r] /\ Active(s, t)
      BY <1>6, <1>7, <1>10, <2>2
    <3> QED
      BY <1>2, <1>9, <2>2, <3>1, <3>2
  <2> QED
    BY <2>1, <2>2
<1>12. ASSUME NEW type, type # T, NEW t \in Int
       PROVE  InForce(type, t)' = InForce(type, t)
  <2>1. \A s \in StandardsOf(type) : s # prior[r]
    BY <1>3, <1>10, <1>12 DEF T
  <2>2. \A s \in StandardsOf(type) : Active(s, t)' <=> Active(s, t)
    BY <1>6, <1>10, <2>1
  <2> QED
    BY <1>2, <1>9, <1>12, <2>2
<1> QED
  BY <1>2, <1>4, <1>5, <1>11, <1>12 DEF T

\* The standards a revision leaves in force beside its own end soon after its
\* stamp: their successors were stamped by clocks at most MaxSkew ahead, and in
\* the past.
LEMMA OthersEndSoon ==
    ASSUME HistInv, NEW r \in Requests, Revises(r), NEW t \in Int, now[r] <= t,
           NEW q \in InForce(WireTaskType[r], t), q # prior[r]
    PROVE  t < now[r] + MaxSkew /\ t < clock
<1>1. /\ q \in StandardsOf(WireTaskType[r]) /\ q \in created
      /\ q \in Requests /\ q # None
      /\ \A closed \in effectiveTo[q] : t < closed
  BY RequestAssumption DEF InForce, StandardsOf, IsActiveAt, Row, HistInv, OnceInv, TypeOK
<1>2. effectiveTo[q] # {}
  BY <1>1, RevisionRows DEF Open
<1>3. PICK p \in StandardsOf(WireTaskType[q]) : effectiveTo[q] = {now[p]}
  BY <1>1, <1>2 DEF HistInv, ClosedBySuccessor
<1>4. WireTaskType[q] = WireTaskType[r] /\ p \in Requests
  BY <1>1, <1>3 DEF StandardsOf, HistInv, OnceInv, TypeOK
<1>5. now[p] <= now[r] + MaxSkew
  BY <1>3, <1>4 DEF HistInv, SkewBounded, Revises, Writes
<1>6. now[p] \in Int /\ now[r] \in Int /\ MaxSkew \in Int /\ clock \in Int
  BY <1>4, RequestAssumption DEF HistInv, OnceInv, TypeOK
<1>7. now[p] <= clock
  BY <1>4 DEF HistInv, Stamped
<1> QED
  BY <1>1, <1>3, <1>5, <1>6, <1>7

-----------------------------------------------------------------------------
(***************************************************************************)
(* The invariant is inductive.                                             *)
(***************************************************************************)

\* A transaction begins only when none works on its task type.
LEMMA TurnStep ==
    ASSUME OneAtATime, OnceInv, TurnExclusive, Moves
    PROVE  TurnExclusive'
<1>0. TypeOK
  BY DEF OnceInv
<1>1. ASSUME NEW r \in Requests, InsertKey(r)
      PROVE  TurnExclusive'
  <2>1. \A s \in Requests : InTx(s) => WireTaskType[s] # WireTaskType[r]
    BY <1>1 DEF InsertKey, TurnOf, KeyIsLocked
  <2>2. \A s \in Requests \ {r} : InTx(s)' <=> InTx(s)
    BY <1>0, <1>1 DEF InsertKey, Goto, TypeOK, InTx
  <2> QED
    BY <2>1, <2>2 DEF TurnExclusive
<1>2. ASSUME \A s \in Requests : InTx(s)' => InTx(s)
      PROVE  TurnExclusive'
  BY <1>2 DEF TurnExclusive
<1>3. ASSUME NEW r \in Requests, Handle(r)
      PROVE  \A s \in Requests : InTx(s)' => InTx(s)
  <2>1. Working(r)
    BY <1>0, <1>3, HandleIsWorking
  <2> QED
    BY <1>0, <2>1 DEF Working, InTx, TypeOK
<1>4. ASSUME NEW r \in Requests, Aborting(r) \/ Telling(r) \/ Installing(r)
      PROVE  \A s \in Requests : InTx(s)' => InTx(s)
  <2>1. \E to \in {"committed", "answered", "lost"} : pc' = [pc EXCEPT ![r] = to]
    BY <1>4 DEF Aborting, Telling, Installing, Ended
  <2> QED
    BY <1>0, <2>1 DEF InTx, TxSteps, TypeOK
<1>5. CASE UNCHANGED <<database, request>>
  BY <1>2, <1>5 DEF InTx, request
<1> QED
  BY <1>0, <1>1, <1>2, <1>3, <1>4, <1>5, StepShape

\* While r is under way no standard is its own, and no other request of its
\* type is.
LEMMA UnderWay ==
    ASSUME HistInv, NEW r \in Requests, InTx(r)
    PROVE  /\ r \notin created
           /\ \A s \in Requests \ {r} : InTx(s) => WireTaskType[s] # WireTaskType[r]
BY CreatedIsPast DEF HistInv, InTx, TxSteps, TurnExclusive

\* What a handler's statement leaves true of its own request.
LEMMA HandlePreserves ==
    ASSUME HistInv, NEW r \in Requests, Handle(r)
    PROVE  /\ now'[r] \in Nat /\ now'[r] <= clock
           /\ pc'[r] \in {"timed", "found"} \/ Writes(r)' => WireTaskType[r] \in TaskTypes
           /\ pc'[r] \in {"timed", "found", "handled"}
           /\ \A q \in StandardsOf(WireTaskType[r]) : now[q] <= now'[r] + MaxSkew
           /\ pc'[r] = "found" \/ Writes(r)' =>
                  Open(WireTaskType[r]) = {prior'[r]} \ {None}
<1>0. /\ TypeOK /\ MaxSkew \in Nat /\ None \notin Requests
      /\ clock \in Nat /\ \A s \in Requests : now[s] \in Nat /\ now[s] <= clock
      /\ \A s \in created : s \in Requests /\ WireTaskType[s] \in TaskTypes
  BY RequestAssumption DEF HistInv, OnceInv, TypeOK, Stamped
<1>1. pc[r] \in {"timed", "found"} =>
          /\ WireTaskType[r] \in TaskTypes
          /\ \A q \in StandardsOf(WireTaskType[r]) : now[q] <= now[r] + MaxSkew
  BY DEF HistInv, Stamped, SkewBounded
<1>2. pc[r] = "found" => Open(WireTaskType[r]) = {prior[r]} \ {None}
  BY DEF HistInv, PriorIsOpen
<1>3. CASE RefuseTaskType(r)
  <2>1. /\ WireTaskType[r] \notin TaskTypes /\ now' = now
        /\ pc'[r] = "handled" /\ response'[r] = Response(400, None)
    BY <1>0, <1>3 DEF RefuseTaskType, Handled, Goto, TypeOK
  <2>2. StandardsOf(WireTaskType[r]) = {} /\ ~Writes(r)'
    BY <1>0, <2>1 DEF StandardsOf, Writes, Response
  <2> QED
    BY <1>0, <2>1, <2>2
<1>4. CASE ReadClock(r)
  <2>1. /\ WireTaskType[r] \in TaskTypes /\ pc'[r] = "timed"
        /\ \E lag \in 0 .. MaxSkew : lag <= clock /\ now'[r] = clock - lag
    BY <1>0, <1>4 DEF ReadClock, Goto, TypeOK
  <2>2. /\ now'[r] \in Nat /\ now'[r] <= clock /\ clock <= now'[r] + MaxSkew
    BY <1>0, <2>1
  <2>3. \A q \in StandardsOf(WireTaskType[r]) : now[q] <= now'[r] + MaxSkew
    BY <1>0, <2>2 DEF StandardsOf
  <2> QED
    BY <2>1, <2>2, <2>3 DEF Writes
<1>5. CASE FindCurrentlyActive(r)
  <2> DEFINE T == WireTaskType[r]
  <2>1. /\ pc[r] = "timed" /\ pc'[r] = "found" /\ now' = now
        /\ IF Open(T) = {} THEN prior'[r] = None ELSE prior'[r] \in Open(T)
    BY <1>0, <1>5 DEF FindCurrentlyActive, Goto, TypeOK
  <2>2. ASSUME Open(T) # {}
        PROVE  \E q \in Requests : Open(T) = {q}
    <3>1. \E s \in created : WireTaskType[s] = T
      BY <2>2 DEF Open, StandardsOf
    <3> QED
      BY <3>1 DEF HistInv, OneOpen
  <2>3. Open(T) = {prior'[r]} \ {None}
    BY <1>0, <2>1, <2>2
  <2> QED
    BY <1>0, <1>1, <2>1, <2>3
<1>6. CASE RejectStandard(r)
  <2>1. /\ pc[r] = "found" /\ pc'[r] = "handled" /\ now' = now
        /\ response'[r] = Response(422, None)
    BY <1>0, <1>6 DEF RejectStandard, Handled, Goto, TypeOK
  <2> QED
    BY <1>0, <1>1, <2>1 DEF Writes, Response
<1>7. CASE CloseAndSave(r) \/ EncodeFails(r)
  <2>1. pc[r] = "found" /\ pc'[r] = "handled" /\ now' = now /\ prior' = prior
    BY <1>0, <1>7 DEF CloseAndSave, EncodeFails, Handled, Goto, TypeOK
  <2> QED
    BY <1>0, <1>1, <1>2, <2>1
<1> QED
  BY <1>3, <1>4, <1>5, <1>6, <1>7 DEF Handle

\* A request that begins, ends or is cut short has nothing under way.
LEMMA EndsPreserve ==
    ASSUME HistInv, NEW r \in Requests, InsertKey(r) \/ Aborting(r) \/ Telling(r)
    PROVE  /\ now'[r] \in Nat /\ now'[r] <= clock
           /\ pc'[r] \in {"inserted", "answered", "lost"} /\ ~Writes(r)'
<1>0. TypeOK /\ clock \in Nat /\ now[r] \in Nat /\ now[r] <= clock
  BY RequestAssumption DEF HistInv, OnceInv, TypeOK, Stamped
<1>1. CASE InsertKey(r)
  BY <1>0, <1>1 DEF InsertKey, Goto, TypeOK, Writes
<1>2. CASE Aborting(r)
  <2>1. now'[r] = 0
    BY <1>0, <1>2 DEF Aborting, Forget, TypeOK
  <2>2. pc'[r] \in {"answered", "lost"}
    BY <1>0, <1>2 DEF Aborting, Ended, TypeOK
  <2> QED
    BY <1>0, <2>1, <2>2 DEF Writes
<1>3. CASE Telling(r)
  <2>1. now' = now /\ \E to \in Ended : pc' = [pc EXCEPT ![r] = to]
    BY <1>3 DEF Telling
  <2> QED
    BY <1>0, <2>1 DEF Ended, TypeOK, Writes
<1> QED
  BY <1>1, <1>2, <1>3

\* A step of a request that installs nothing keeps the history's invariant.
LEMMA QuietKeeps ==
    ASSUME HistInv, NEW r \in Requests,
           InsertKey(r) \/ Handle(r) \/ Aborting(r) \/ Telling(r)
    PROVE  Stamped' /\ SkewBounded' /\ PriorIsOpen' /\ OneOpen' /\ ClosedBySuccessor'
<1>0. /\ Stamped /\ SkewBounded /\ PriorIsOpen /\ OneOpen /\ ClosedBySuccessor
      /\ created \subseteq Requests
  BY DEF HistInv, OnceInv, TypeOK
<1>1. /\ UNCHANGED <<clock, created, effectiveTo>>
      /\ \A s \in created : now'[s] = now[s]
      /\ \A s \in Requests \ {r} : /\ pc'[s] = pc[s] /\ now'[s] = now[s]
                                   /\ prior'[s] = prior[s] /\ response'[s] = response[s]
  BY QuietStep DEF HistInv
<1>2. \A type : StandardsOf(type)' = StandardsOf(type) /\ Open(type)' = Open(type)
  BY <1>1, HistoryStays
<1>3. /\ now'[r] <= clock
      /\ pc'[r] \in {"timed", "found"} \/ Writes(r)' => WireTaskType[r] \in TaskTypes
      /\ pc'[r] \in {"timed", "found", "handled"} =>
            \A q \in StandardsOf(WireTaskType[r]) : now[q] <= now'[r] + MaxSkew
      /\ pc'[r] = "found" \/ Writes(r)' =>
            Open(WireTaskType[r]) = {prior'[r]} \ {None}
  <2>1. CASE Handle(r)
    BY <2>1, HandlePreserves
  <2>2. CASE InsertKey(r) \/ Aborting(r) \/ Telling(r)
    BY <2>2, EndsPreserve
  <2> QED
    BY <2>1, <2>2
<1>4. \A s \in Requests \ {r} : Writes(s)' <=> Writes(s)
  BY <1>1 DEF Writes
<1>5. Stamped'
  BY <1>0, <1>1, <1>3, <1>4 DEF Stamped
<1>6. SkewBounded'
  BY <1>0, <1>1, <1>2, <1>3 DEF SkewBounded, StandardsOf
<1>7. PriorIsOpen'
  BY <1>0, <1>1, <1>2, <1>3, <1>4 DEF PriorIsOpen
<1>8. OneOpen'
  BY <1>0, <1>1, <1>2 DEF OneOpen
<1>9. ClosedBySuccessor'
  BY <1>0, <1>1, <1>2 DEF ClosedBySuccessor, StandardsOf
<1> QED
  BY <1>5, <1>6, <1>7, <1>8, <1>9

\* A revision keeps the history's invariant.
LEMMA RevisionKeeps ==
    ASSUME HistInv, NEW r \in Requests, Revises(r)
    PROVE  Stamped' /\ SkewBounded' /\ PriorIsOpen' /\ OneOpen' /\ ClosedBySuccessor'
<1> DEFINE T == WireTaskType[r]
<1>0. /\ Stamped /\ SkewBounded /\ PriorIsOpen /\ OneOpen /\ ClosedBySuccessor
      /\ TypeOK /\ created \subseteq Requests /\ None \notin Requests
  BY RequestAssumption DEF HistInv, OnceInv, TypeOK
<1>1. /\ UNCHANGED <<clock, now, prior, response>>
      /\ T \in TaskTypes /\ r \notin created /\ created' = created \cup {r}
      /\ Open(T) = {prior[r]} \ {None} /\ prior[r] # r /\ effectiveTo'[r] = {}
      /\ prior[r] # None => prior[r] \in created /\ effectiveTo'[prior[r]] = {now[r]}
      /\ \A s \in Requests \ {prior[r]} : effectiveTo'[s] = effectiveTo[s]
  BY RevisionRows
<1>2. /\ StandardsOf(T)' = StandardsOf(T) \cup {r} /\ Open(T)' = {r}
      /\ \A type : type # T => /\ StandardsOf(type)' = StandardsOf(type)
                               /\ Open(type)' = Open(type)
  BY RevisionHistory
<1>3. /\ pc[r] = "handled" /\ pc'[r] \in {"committed", "answered"}
      /\ \A s \in Requests \ {r} : pc'[s] = pc[s]
  BY <1>0 DEF Revises, Installing, TypeOK
<1>4. \A s \in Requests \ {r} : InTx(s) => WireTaskType[s] # T
  BY <1>3, UnderWay DEF InTx, TxSteps
<1>5. /\ \A s \in Requests \ {r} : Writes(s)' <=> Writes(s)
      /\ ~Writes(r)'
  BY <1>1, <1>3 DEF Writes
<1> HIDE DEF T
<1>6. Stamped'
  BY <1>0, <1>1, <1>3, <1>5 DEF Stamped, T
<1>7. SkewBounded'
  BY <1>0, <1>1, <1>2, <1>3, <1>4 DEF SkewBounded, InTx, TxSteps
<1>8. PriorIsOpen'
  BY <1>0, <1>1, <1>2, <1>3, <1>4, <1>5 DEF PriorIsOpen, InTx, TxSteps, Writes
<1>9. OneOpen'
  BY <1>0, <1>1, <1>2 DEF OneOpen, T
<1>10. ASSUME NEW s \in Requests, effectiveTo'[s] # {}
       PROVE  /\ s \in created'
              /\ \E q \in StandardsOf(WireTaskType[s])' : effectiveTo'[s] = {now'[q]}
  <2>1. CASE s = prior[r]
    <3>1. WireTaskType[s] = T
      BY <1>0, <1>1, <2>1 DEF Open, StandardsOf
    <3> QED
      BY <1>0, <1>1, <1>2, <2>1, <3>1
  <2>2. CASE s # prior[r]
    BY <1>0, <1>1, <1>2, <1>10, <2>2 DEF ClosedBySuccessor
  <2> QED
    BY <2>1, <2>2
<1>11. ClosedBySuccessor'
  BY <1>10 DEF ClosedBySuccessor
<1> QED
  BY <1>6, <1>7, <1>8, <1>9, <1>11

\* A commit that revises nothing, and the clock, keep the history's invariant.
LEMMA OthersKeep ==
    ASSUME HistInv, clock <= clock', clock' \in Nat,
           UNCHANGED <<created, effectiveTo, now, prior, response>>,
           \A s \in Requests : pc'[s] = pc[s] \/ pc'[s] \in {"committed", "answered"}
    PROVE  Stamped' /\ SkewBounded' /\ PriorIsOpen' /\ OneOpen' /\ ClosedBySuccessor'
<1>0. /\ Stamped /\ SkewBounded /\ PriorIsOpen /\ OneOpen /\ ClosedBySuccessor
      /\ clock \in Nat /\ \A s \in Requests : now[s] \in Nat
  BY RequestAssumption DEF HistInv, OnceInv, TypeOK
<1>1. \A type : StandardsOf(type)' = StandardsOf(type) /\ Open(type)' = Open(type)
  BY HistoryStays
<1>2. \A s \in Requests : Writes(s)' => Writes(s)
  BY DEF Writes
<1>3. Stamped'
  BY <1>0, <1>2 DEF Stamped
<1>4. SkewBounded'
  BY <1>0, <1>1 DEF SkewBounded
<1>5. PriorIsOpen'
  BY <1>0, <1>1, <1>2 DEF PriorIsOpen
<1>6. OneOpen' /\ ClosedBySuccessor'
  BY <1>0, <1>1 DEF OneOpen, ClosedBySuccessor
<1> QED
  BY <1>3, <1>4, <1>5, <1>6

\* The shapes a step has as far as the history is concerned.
LEMMA HistoryShape ==
    ASSUME HistInv, Moves
    PROVE  \/ \E r \in Requests :
                 \/ InsertKey(r) \/ Handle(r) \/ Aborting(r) \/ Telling(r)
                 \/ Revises(r)
                 \/ Installing(r) /\ ~Writes(r)
           \/ UNCHANGED <<database, request>> /\ (Tick \/ clock' = clock)
BY StepShape DEF HistInv, OnceInv, Revises

\* HistInv is inductive.
LEMMA HistStep ==
    ASSUME OneAtATime, HistInv, Moves
    PROVE  HistInv'
<1>1. OnceInv' /\ TurnExclusive'
  BY OnceStep, TurnStep DEF HistInv
<1> DEFINE Kept == Stamped /\ SkewBounded /\ PriorIsOpen /\ OneOpen /\ ClosedBySuccessor
<1>0. TypeOK /\ TypeOK' /\ clock \in Nat /\ clock' \in Nat
  BY <1>1, RequestAssumption DEF HistInv, OnceInv, TypeOK
<1>2. ASSUME NEW r \in Requests, InsertKey(r) \/ Handle(r) \/ Aborting(r) \/ Telling(r)
      PROVE  Kept'
  BY <1>2, QuietKeeps
<1>3. ASSUME NEW r \in Requests, Revises(r)
      PROVE  Kept'
  BY <1>3, RevisionKeeps
<1>4. ASSUME NEW r \in Requests, Installing(r) /\ ~Writes(r)
      PROVE  Kept'
  <2>1. UNCHANGED <<clock, created, effectiveTo, now, prior, response>>
    BY <1>4, RefusalInstalls
  <2>2. \A s \in Requests : pc'[s] = pc[s] \/ pc'[s] \in {"committed", "answered"}
    BY <1>0, <1>4 DEF Installing, TypeOK
  <2> QED
    BY <1>0, <2>1, <2>2, OthersKeep
<1>5. ASSUME UNCHANGED <<database, request>> /\ (Tick \/ clock' = clock)
      PROVE  Kept'
  <2>1. clock <= clock'
    BY <1>0, <1>5 DEF Tick
  <2>2. UNCHANGED <<created, effectiveTo, now, prior, response, pc>>
    BY <1>5 DEF database, request
  <2> QED
    BY <1>0, <2>1, <2>2, OthersKeep
<1>6. Kept'
  BY <1>2, <1>3, <1>4, <1>5, HistoryShape
<1> QED
  BY <1>1, <1>6 DEF HistInv

\* HistInv holds before the first request.
LEMMA HistInit ==
    ASSUME Init
    PROVE  HistInv
<1>1. OnceInv
  BY OnceInit
<1> QED
  BY <1>1 DEF Init, HistInv, TurnExclusive, Stamped, SkewBounded, PriorIsOpen, OneOpen,
              ClosedBySuccessor, StandardsOf, Writes, InTx, TxSteps

-----------------------------------------------------------------------------
(***************************************************************************)
(* The timeline.                                                           *)
(***************************************************************************)

\* Every step's effect on what was in force.
LEMMA TimelineStep ==
    ASSUME HistInv, Moves
    PROVE  \/ /\ created' = created /\ outbox' = outbox
              /\ \A s \in created : now'[s] = now[s]
              /\ \A s \in created : effectiveTo'[s] = effectiveTo[s]
              /\ \A type : /\ StandardsOf(type)' = StandardsOf(type)
                           /\ \A t : InForce(type, t)' = InForce(type, t)
           \/ \E r \in Requests : Revises(r)
<1>1. ASSUME UNCHANGED <<created, effectiveTo, outbox>>,
             \A s \in created : now'[s] = now[s]
      PROVE  /\ created' = created /\ outbox' = outbox
             /\ \A s \in created : now'[s] = now[s]
             /\ \A s \in created : effectiveTo'[s] = effectiveTo[s]
             /\ \A type : /\ StandardsOf(type)' = StandardsOf(type)
                          /\ \A t : InForce(type, t)' = InForce(type, t)
  BY <1>1, HistoryStays
<1>2. ASSUME NEW r \in Requests, InsertKey(r) \/ Handle(r) \/ Aborting(r) \/ Telling(r)
      PROVE  UNCHANGED <<created, effectiveTo, outbox>>
             /\ \A s \in created : now'[s] = now[s]
  BY <1>2, QuietStep DEF HistInv
<1>3. ASSUME NEW r \in Requests, Installing(r), ~Writes(r)
      PROVE  UNCHANGED <<created, effectiveTo, outbox, now>>
  BY <1>3, RefusalInstalls
<1>4. CASE UNCHANGED <<database, request>>
  BY <1>1, <1>4 DEF database, request
<1> QED
  BY <1>1, <1>2, <1>3, <1>4, HistoryShape

\* A step keeps the timeline whole.
LEMMA InForceStep ==
    ASSUME HistInv, OneStandardInForce, Moves
    PROVE  OneStandardInForce'
<1>0. /\ MaxClock \in Nat /\ MaxSkew \in Nat /\ created \subseteq Requests
      /\ \A s \in Requests : now[s] \in Nat
  BY RequestAssumption DEF HistInv, OnceInv, TypeOK
<1>1. ASSUME /\ \A s \in created : now'[s] = now[s]
             /\ \A type : /\ StandardsOf(type)' = StandardsOf(type)
                          /\ \A t : InForce(type, t)' = InForce(type, t)
      PROVE  OneStandardInForce'
  <2>1. \A type, t : /\ StandardsOf(type) \subseteq created
                     /\ InForce(type, t) \subseteq created
    BY DEF StandardsOf, InForce
  <2> QED
    BY <1>1, <2>1 DEF OneStandardInForce
<1>2. ASSUME NEW r \in Requests, Revises(r)
      PROVE  OneStandardInForce'
  <2> DEFINE T == WireTaskType[r]
  <2>1. /\ now' = now /\ r \notin created
        /\ StandardsOf(T)' = StandardsOf(T) \cup {r}
        /\ \A t \in Int : InForce(T, t)' =
                              IF t < now[r] THEN InForce(T, t)
                              ELSE {r} \cup (InForce(T, t) \ {prior[r]})
        /\ \A type : type # T =>
              /\ StandardsOf(type)' = StandardsOf(type)
              /\ \A t \in Int : InForce(type, t)' = InForce(type, t)
    <3>1. now' = now /\ r \notin created
      BY <1>2, RevisionRows
    <3>2. /\ StandardsOf(T)' = StandardsOf(T) \cup {r}
          /\ \A t \in Int : InForce(T, t)' =
                                IF t < now[r] THEN InForce(T, t)
                                ELSE {r} \cup (InForce(T, t) \ {prior[r]})
      BY <1>2, RevisionHistory
    <3>3. \A type : type # T =>
              /\ StandardsOf(type)' = StandardsOf(type)
              /\ \A t \in Int : InForce(type, t)' = InForce(type, t)
      BY <1>2, RevisionHistory
    <3> QED
      BY <3>1, <3>2, <3>3
  <2> SUFFICES ASSUME NEW type \in TaskTypes, NEW s \in StandardsOf(type)',
                      NEW t \in now[s] .. MaxClock
               PROVE  \E q \in InForce(type, t)' :
                          \/ InForce(type, t)' = {q}
                          \/ now[q] <= t /\ t < now[q] + MaxSkew
    BY <2>1 DEF OneStandardInForce
  <2>0. s \in Requests /\ t \in Int /\ now[s] <= t /\ now[r] \in Int
    <3>1. s \in Requests
      BY <1>0, <2>1 DEF StandardsOf
    <3> QED
      BY <1>0, <3>1
  <2>2. ASSUME s \in StandardsOf(type), InForce(type, t)' = InForce(type, t)
        PROVE  \E q \in InForce(type, t)' :
                   \/ InForce(type, t)' = {q}
                   \/ now[q] <= t /\ t < now[q] + MaxSkew
    BY <2>2 DEF OneStandardInForce
  <2>3. CASE type # T
    BY <2>0, <2>1, <2>2, <2>3
  <2>4. CASE type = T /\ t < now[r]
    <3>1. s # r
      BY <2>0, <2>4
    <3> QED
      BY <2>0, <2>1, <2>2, <2>4, <3>1
  <2>5. CASE type = T /\ now[r] <= t
    <3>0. t \in Int /\ ~(t < now[r])
      BY <2>0, <2>5
    <3>1. InForce(T, t)' = {r} \cup (InForce(T, t) \ {prior[r]})
      BY <2>1, <3>0
    <3>2. CASE InForce(T, t) \ {prior[r]} = {}
      BY <2>5, <3>1, <3>2
    <3>3. CASE InForce(T, t) \ {prior[r]} # {}
      <4>1. t < now[r] + MaxSkew
        BY <1>2, <2>0, <2>5, <3>3, OthersEndSoon
      <4> QED
        BY <2>5, <3>1, <4>1
    <3> QED
      BY <3>2, <3>3
  <2> QED
    BY <2>0, <2>3, <2>4, <2>5
<1> QED
  BY <1>1, <1>2, TimelineStep

\* From the first definition on a standard of the type is in force at every
\* instant, and it is the only one where the clocks of replicas agree: a
\* revision leaves neither a gap nor an overlap.  Callers revise a type one
\* request at a time; the run with two at once shows what happens otherwise.
THEOREM StandardsFollowOneAnother ==
    ASSUME OneAtATime
    PROVE  Spec => []OneStandardInForce
<1>1. Init => HistInv /\ OneStandardInForce
  BY HistInit DEF Init, OneStandardInForce, StandardsOf
<1>2. HistInv /\ OneStandardInForce /\ [Next]_vars => HistInv' /\ OneStandardInForce'
  BY HistStep, InForceStep DEF Moves
<1> QED
  BY <1>1, <1>2, PTL DEF Spec

\* What is in force at an instant before a revision's stamp stays in force.
LEMMA FrozenStep ==
    ASSUME HistInv, Moves, NEW type, NEW t \in Int,
           \A s \in created' \ created : t < now'[s]
    PROVE  InForce(type, t)' = InForce(type, t)
<1>1. ASSUME NEW r \in Requests, Revises(r)
      PROVE  InForce(type, t)' = InForce(type, t)
  <2>1. now' = now /\ r \in created' \ created
    BY <1>1, RevisionRows
  <2>2. t < now[r]
    BY <2>1
  <2>3. CASE type = WireTaskType[r]
    BY <1>1, <2>2, <2>3, RevisionHistory
  <2>4. CASE type # WireTaskType[r]
    BY <1>1, <2>4, RevisionHistory
  <2> QED
    BY <2>3, <2>4
<1> QED
  BY <1>1, TimelineStep

\* No revision changes which standard was in force before the instant it takes
\* effect, so a report about the past never changes.
THEOREM HistoryIsFrozen ==
    ASSUME OneAtATime
    PROVE  Spec => HistoryFrozen
<1> DEFINE Frozen == \A type \in RequestedTypes : \A t \in 0 .. MaxClock :
                         (\A s \in created' \ created : t < now'[s])
                         => InForce(type, t)' = InForce(type, t)
<1>1. HistInv /\ [Next]_vars => HistInv'
  BY HistStep DEF Moves
<1>2. HistInv /\ [Next]_vars => Frozen
  <2> SUFFICES ASSUME HistInv, [Next]_vars, NEW type \in RequestedTypes,
                      NEW t \in 0 .. MaxClock,
                      \A s \in created' \ created : t < now'[s]
               PROVE  InForce(type, t)' = InForce(type, t)
    OBVIOUS
  <2> QED
    BY FrozenStep DEF Moves
<1>3. Init => HistInv
  BY HistInit
<1>4. Frozen => [Frozen]_vars
  OBVIOUS
<1>5. Spec => [][Frozen]_vars
  BY <1>1, <1>2, <1>3, PTL DEF Spec
<1> QED
  BY <1>5 DEF HistoryFrozen

\* Event j announces a first definition, and nothing of its type came before.
OpensChain(j) ==
    /\ outbox[j].type = "LaborStandardDefined"
    /\ \A i \in 1 .. j - 1 :
          WireTaskType[outbox[i].standard] # WireTaskType[outbox[j].standard]

\* Event j announces the standard that ended q.
Succeeds(j, q) ==
    /\ outbox[j].type # "LaborStandardDefined"
    /\ q \in StandardsOf(WireTaskType[outbox[j].standard])
    /\ q # outbox[j].standard
    /\ effectiveTo[q] = {now[outbox[j].standard]}
    /\ outbox[j].previous = {ExpectedSeconds[q]}
    /\ \A i \in DOMAIN outbox : outbox[i].standard = q => i < j

ChainLinked == \A j \in DOMAIN outbox : OpensChain(j) \/ \E q \in created : Succeeds(j, q)

\* While no row and no event is added, the links hold.
LEMMA LinksStay ==
    ASSUME HistInv, ChainLinked,
           created' = created, outbox' = outbox, \A s \in created : now'[s] = now[s],
           \A s \in created : effectiveTo'[s] = effectiveTo[s],
           \A type : StandardsOf(type)' = StandardsOf(type)
    PROVE  ChainLinked'
<1>1. \A j \in DOMAIN outbox : outbox[j].standard \in created
  BY DEF HistInv, OnceInv, AnnouncedOnce
<1>2. \A j \in DOMAIN outbox : OpensChain(j)' <=> OpensChain(j)
  BY DEF OpensChain
<1>3. \A j \in DOMAIN outbox : \A q \in created : Succeeds(j, q)' <=> Succeeds(j, q)
  BY <1>1 DEF Succeeds
<1> QED
  BY <1>2, <1>3 DEF ChainLinked

\* A revision keeps the links, and its own event is the next one.
LEMMA RevisionLinks ==
    ASSUME HistInv, ChainLinked, NEW r \in Requests, Revises(r)
    PROVE  ChainLinked'
<1> DEFINE T == WireTaskType[r]
           Events == [type : EventTypes, standard : Requests, previous : SUBSET Int]
           n == Len(outbox)
<1>0. TypeOK /\ AnnouncedOnce /\ None \notin Requests /\ created \subseteq Requests
  BY RequestAssumption DEF HistInv, OnceInv, TypeOK
<1>1. /\ now' = now /\ r \notin created /\ created' = created \cup {r}
      /\ Open(T) = {prior[r]} \ {None} /\ prior[r] # r
      /\ prior[r] # None => prior[r] \in created /\ effectiveTo'[prior[r]] = {now[r]}
      /\ \A s \in Requests \ {prior[r]} : effectiveTo'[s] = effectiveTo[s]
  BY RevisionRows
<1>2. outbox' = Append(outbox, StandardEvent(r)) \/ outbox' = outbox
  BY DEF Revises, Installing, InstallWrites
<1>3. outbox \in Seq(Events) /\ StandardEvent(r).standard = r
  BY <1>0 DEF TypeOK, StandardEvent
<1> HIDE DEF Events
<1>4. /\ n \in Nat /\ DOMAIN outbox = 1 .. n
      /\ \A i \in 1 .. n : outbox'[i] = outbox[i]
      /\ \/ DOMAIN outbox' = 1 .. n
         \/ DOMAIN outbox' = 1 .. n + 1 /\ outbox'[n + 1] = StandardEvent(r)
  BY <1>2, <1>3
<1>5. \A i \in 1 .. n : outbox[i].standard \in created /\ outbox[i].standard # r
  BY <1>0, <1>1, <1>4 DEF AnnouncedOnce
<1> HIDE DEF n
<1>6. \A i \in DOMAIN outbox' : \/ i \in 1 .. n /\ outbox'[i] = outbox[i]
                                \/ i = n + 1 /\ outbox'[i].standard = r
  BY <1>3, <1>4
<1>7. ASSUME NEW j \in 1 .. n, OpensChain(j)
      PROVE  OpensChain(j)'
  <2>1. \A i \in 1 .. j - 1 : i \in 1 .. n
    BY <1>4, <1>7
  <2> QED
    BY <1>4, <1>7, <2>1 DEF OpensChain
<1>8. ASSUME NEW j \in 1 .. n, NEW q \in created, Succeeds(j, q)
      PROVE  Succeeds(j, q)'
  <2>1. /\ outbox'[j] = outbox[j] /\ q # r /\ q \in Requests
        /\ outbox[j].type # "LaborStandardDefined" /\ q # outbox[j].standard
        /\ outbox[j].previous = {ExpectedSeconds[q]}
        /\ effectiveTo[q] = {now[outbox[j].standard]}
    BY <1>0, <1>1, <1>4, <1>8 DEF Succeeds
  <2>2. q \in StandardsOf(WireTaskType[outbox[j].standard])'
    BY <1>1, <1>8, <2>1 DEF Succeeds, StandardsOf
  <2>3. q # prior[r]
    BY <1>0, <1>1, <1>8, <2>1 DEF Open
  <2>4. \A i \in DOMAIN outbox' : outbox'[i].standard = q => i < j
    BY <1>4, <1>6, <1>8, <2>1 DEF Succeeds
  <2> QED
    BY <1>1, <2>1, <2>2, <2>3, <2>4 DEF Succeeds
<1>9. ASSUME NEW j \in {n + 1}, DOMAIN outbox' = 1 .. n + 1,
             outbox'[j] = StandardEvent(r), prior[r] = None
      PROVE  OpensChain(j)'
  <2>1. StandardsOf(T) = {}
    <3>1. Open(T) = {}
      BY <1>1, <1>9
    <3>2. \A s \in StandardsOf(T) : s \in created /\ WireTaskType[s] = T
      BY DEF StandardsOf
    <3> QED
      BY <3>1, <3>2 DEF HistInv, OneOpen
  <2>2. \A i \in 1 .. n : WireTaskType[outbox'[i].standard] # T
    BY <1>4, <1>5, <2>1 DEF StandardsOf
  <2>3. outbox'[j].type = "LaborStandardDefined" /\ outbox'[j].standard = r
    BY <1>3, <1>9 DEF StandardEvent
  <2>4. 1 .. j - 1 = 1 .. n
    BY <1>4, <1>9
  <2> QED
    BY <2>2, <2>3, <2>4 DEF OpensChain
<1>10. ASSUME NEW j \in {n + 1}, DOMAIN outbox' = 1 .. n + 1,
              outbox'[j] = StandardEvent(r), NEW q \in created, q = prior[r]
       PROVE  Succeeds(j, q)'
  <2>1. /\ outbox'[j].type # "LaborStandardDefined" /\ outbox'[j].standard = r
        /\ outbox'[j].previous = {ExpectedSeconds[q]}
    BY <1>0, <1>3, <1>10 DEF StandardEvent
  <2>2. /\ q \in StandardsOf(T)' /\ q # r
        /\ effectiveTo'[q] = {now'[r]}
    BY <1>0, <1>1, <1>10 DEF Open, StandardsOf
  <2>3. \A i \in DOMAIN outbox' : outbox'[i].standard = q => i < j
    BY <1>4, <1>6, <1>10, <2>2
  <2> QED
    BY <2>1, <2>2, <2>3 DEF Succeeds
<1>11. ASSUME NEW j \in DOMAIN outbox'
       PROVE  OpensChain(j)' \/ \E q \in created' : Succeeds(j, q)'
  <2>1. CASE j \in 1 .. n
    BY <1>1, <1>4, <1>7, <1>8, <2>1 DEF ChainLinked
  <2>2. CASE j \notin 1 .. n
    <3>1. j = n + 1 /\ DOMAIN outbox' = 1 .. n + 1 /\ outbox'[j] = StandardEvent(r)
      BY <1>4, <1>6, <2>2
    <3> QED
      BY <1>1, <1>9, <1>10, <3>1
  <2> QED
    BY <2>1, <2>2
<1> QED
  BY <1>11 DEF ChainLinked

\* A step keeps the links.
LEMMA ChainStep ==
    ASSUME HistInv, ChainLinked, Moves
    PROVE  ChainLinked'
BY TimelineStep, LinksStay, RevisionLinks

\* Linked events chain.
LEMMA LinkedIsChain ==
    ASSUME ChainLinked
    PROVE  RevisionsChain
<1> SUFFICES ASSUME NEW j \in DOMAIN outbox
             PROVE  LET s       == outbox[j].standard
                        earlier == {i \in 1 .. j - 1 :
                                       WireTaskType[outbox[i].standard] = WireTaskType[s]}
                    IN  IF outbox[j].type = "LaborStandardDefined"
                        THEN earlier = {}
                        ELSE \E q \in StandardsOf(WireTaskType[s]) \ {s} :
                                /\ effectiveTo[q] = {now[s]}
                                /\ outbox[j].previous = {ExpectedSeconds[q]}
                                /\ \A i \in DOMAIN outbox :
                                      outbox[i].standard = q => i < j
  BY DEF RevisionsChain
<1>1. CASE OpensChain(j)
  BY <1>1 DEF OpensChain
<1>2. ASSUME NEW q \in created, Succeeds(j, q)
      PROVE  /\ outbox[j].type # "LaborStandardDefined"
             /\ q \in StandardsOf(WireTaskType[outbox[j].standard]) \ {outbox[j].standard}
             /\ effectiveTo[q] = {now[outbox[j].standard]}
             /\ outbox[j].previous = {ExpectedSeconds[q]}
             /\ \A i \in DOMAIN outbox : outbox[i].standard = q => i < j
  BY <1>2 DEF Succeeds
<1> QED
  BY <1>1, <1>2 DEF ChainLinked

\* The announced history is the recorded one: a task type is defined once, and
\* every revision names the seconds of the standard that ended when it began.
THEOREM AnnouncementsChain ==
    ASSUME OneAtATime
    PROVE  Spec => []RevisionsChain
<1>1. Init => HistInv /\ ChainLinked
  BY HistInit DEF Init, ChainLinked
<1>2. HistInv /\ ChainLinked /\ [Next]_vars => HistInv' /\ ChainLinked'
  BY HistStep, ChainStep DEF Moves
<1>3. ChainLinked => RevisionsChain
  BY LinkedIsChain
<1> QED
  BY <1>1, <1>2, <1>3, PTL DEF Spec

-----------------------------------------------------------------------------
(***************************************************************************)
(* POST /standards implements StandardTimeline.                            *)
(***************************************************************************)

\* The stamps of the requests that revise a type.
Stamping(type) == {now[r] : r \in Revising(type)}

SameTimeline == \A type \in RequestedTypes : \A t \in 0 .. MaxClock :
                    InForce(type, t)' = InForce(type, t)

SameStamps == \A type \in RequestedTypes : Stamping(type)' = Stamping(type)

\* Of the types, only T may gain or lose a stamp.
OnlyStamps(T) == \A type \in RequestedTypes \ {T} : Stamping(type)' = Stamping(type)

\* A step that moves no request of a type into or out of its revision keeps
\* the type's stamps.
LEMMA StampsStay ==
    ASSUME NEW type,
           \A s \in Requests : WireTaskType[s] = type =>
               /\ s \in Revising(type)' <=> s \in Revising(type)
               /\ s \in Revising(type) => now'[s] = now[s]
    PROVE  Stamping(type)' = Stamping(type)
<1>1. Revising(type)' = Revising(type)
  BY DEF Revising
<1>2. \A s \in Revising(type) : now'[s] = now[s]
  BY DEF Revising
<1> QED
  BY <1>1, <1>2 DEF Stamping

\* One request at a time revises a type.
LEMMA OneStamp ==
    ASSUME TurnExclusive, NEW r \in Requests, pc[r] \in {"timed", "found", "handled"}
    PROVE  Stamping(WireTaskType[r]) = {now[r]}
<1>1. Revising(WireTaskType[r]) = {r}
  BY DEF TurnExclusive, Revising, InTx, TxSteps
<1> QED
  BY <1>1 DEF Stamping

\* A request that is not revising, in a type where none else is.
LEMMA NoStamp ==
    ASSUME NEW r \in Requests, pc[r] \notin {"timed", "found", "handled"},
           \A s \in Requests \ {r} : InTx(s) => WireTaskType[s] # WireTaskType[r]
    PROVE  Stamping(WireTaskType[r]) = {}
<1>1. Revising(WireTaskType[r]) = {}
  BY DEF Revising, InTx, TxSteps
<1> QED
  BY <1>1 DEF Stamping

\* Where only r moves, other types keep their stamps.
LEMMA OtherStamps ==
    ASSUME NEW r \in Requests,
           \A s \in Requests \ {r} : pc'[s] = pc[s] /\ now'[s] = now[s]
    PROVE  OnlyStamps(WireTaskType[r])
<1> SUFFICES ASSUME NEW type \in RequestedTypes, type # WireTaskType[r]
             PROVE  Stamping(type)' = Stamping(type)
  BY DEF OnlyStamps
<1>1. \A s \in Requests : WireTaskType[s] = type =>
          /\ s \in Revising(type)' <=> s \in Revising(type)
          /\ s \in Revising(type) => now'[s] = now[s]
  BY DEF Revising
<1> QED
  BY <1>1, StampsStay

\* A step that shows in no timeline and no stamp is invisible.
LEMMA Stutters ==
    ASSUME UNCHANGED clock, SameTimeline, SameStamps
    PROVE  UNCHANGED Timeline!vars
BY DEF Timeline!vars, SameTimeline, SameStamps, Stamping

\* A clock read by the first request revising a type begins its revision.
LEMMA Begins ==
    ASSUME UNCHANGED clock, clock \in 0 .. MaxClock, SameTimeline,
           NEW T \in RequestedTypes, OnlyStamps(T),
           Stamping(T) = {}, NEW at \in Nat, Stamping(T)' = {at},
           clock - MaxSkew <= at, at <= clock
    PROVE  Timeline!Begin(T)
<1> DEFINE line == [type \in RequestedTypes |-> [t \in 0 .. MaxClock |-> InForce(type, t)]]
           stamps == [type \in RequestedTypes |-> {now[r] : r \in Revising(type)}]
<1>1. at \in Timeline!Stamps
  BY RequestAssumption DEF Timeline!Stamps
<1>2. stamps[T] = {} /\ stamps' = [stamps EXCEPT ![T] = {at}]
  BY DEF OnlyStamps, Stamping
<1>3. line' = line
  BY DEF SameTimeline
<1> QED
  BY <1>1, <1>2, <1>3 DEF Timeline!Begin

\* A request that gives up takes its stamp with it.
LEMMA Abandons ==
    ASSUME UNCHANGED clock, SameTimeline, NEW T \in RequestedTypes, OnlyStamps(T),
           Stamping(T) # {}, Stamping(T)' = {}
    PROVE  Timeline!Abandon(T)
BY DEF Timeline!Abandon, SameTimeline, OnlyStamps, Stamping

\* A revision rewrites the timeline of its type from its stamp on.
LEMMA Commits ==
    ASSUME HistInv, NEW r \in Requests, Revises(r), NEW T \in RequestedTypes,
           T = WireTaskType[r], OnlyStamps(T), Stamping(T) = {now[r]}, Stamping(T)' = {}
    PROVE  Timeline!Commit(T)
<1> DEFINE line == [type \in RequestedTypes |-> [t \in 0 .. MaxClock |-> InForce(type, t)]]
           stamps == [type \in RequestedTypes |-> {now[q] : q \in Revising(type)}]
           near == {t \in 0 .. MaxClock : now[r] <= t /\ t < now[r] + MaxSkew}
           kept == (UNION {line[T][t] : t \in near}) \ {prior[r]}
<1>0. /\ MaxClock \in Nat /\ MaxSkew \in Nat /\ now[r] \in Nat
      /\ UNCHANGED clock
  BY RequestAssumption, RevisionRows DEF HistInv, OnceInv, TypeOK
<1>1. stamps[T] = {now[r]} /\ stamps' = [stamps EXCEPT ![T] = {}]
  BY DEF OnlyStamps, Stamping
<1>2. near = Timeline!Ambiguous(now[r])
  BY DEF Timeline!Ambiguous
<1>3. kept \in SUBSET UNION {line[T][t] : t \in Timeline!Ambiguous(now[r])}
  BY <1>2
<1>4. ASSUME NEW t \in 0 .. MaxClock
      PROVE  InForce(T, t)' = IF t < now[r] THEN line[T][t]
                              ELSE IF t \in near THEN {r} \cup (line[T][t] \cap kept)
                              ELSE {r}
  <2>1. t \in Int /\ line[T][t] = InForce(T, t)
    BY <1>0
  <2>2. InForce(T, t)' = IF t < now[r] THEN InForce(T, t)
                         ELSE {r} \cup (InForce(T, t) \ {prior[r]})
    BY <2>1, RevisionHistory
  <2>3. CASE t < now[r]
    BY <2>1, <2>2, <2>3
  <2>4. CASE t \in near
    <3>1. line[T][t] \cap kept = InForce(T, t) \ {prior[r]}
      BY <2>1, <2>4
    <3>2. ~(t < now[r])
      BY <1>0, <2>1, <2>4
    <3> QED
      BY <2>2, <2>4, <3>1, <3>2
  <2>5. CASE ~(t < now[r]) /\ t \notin near
    <3>1. now[r] <= t /\ ~(t < now[r] + MaxSkew)
      BY <1>0, <2>1, <2>5
    <3>2. \A q \in InForce(T, t) : q = prior[r]
      BY <2>1, <3>1, OthersEndSoon
    <3> QED
      BY <2>2, <2>5, <3>2
  <2> QED
    BY <2>3, <2>4, <2>5
<1>5. ASSUME NEW type \in RequestedTypes, type # T, NEW t \in 0 .. MaxClock
      PROVE  InForce(type, t)' = InForce(type, t)
  BY <1>5, RevisionHistory
<1>6. line' = [line EXCEPT ![T] = Timeline!Revised(line[T], r, now[r], kept)]
  <2>1. Timeline!Revised(line[T], r, now[r], kept) =
            [t \in 0 .. MaxClock |-> IF t < now[r] THEN line[T][t]
                                     ELSE IF t \in near THEN {r} \cup (line[T][t] \cap kept)
                                     ELSE {r}]
    BY <1>2 DEF Timeline!Revised
  <2> HIDE DEF kept, near
  <2>2. line'[T] = Timeline!Revised(line[T], r, now[r], kept)
    <3>1. line'[T] = [t \in 0 .. MaxClock |-> IF t < now[r] THEN line[T][t]
                                     ELSE IF t \in near THEN {r} \cup (line[T][t] \cap kept)
                                     ELSE {r}]
      BY <1>4
    <3> QED
      BY <2>1, <3>1
  <2>3. \A type \in RequestedTypes : type # T => line'[type] = line[type]
    BY <1>5
  <2> QED
    BY <2>2, <2>3
<1> QED
  <2> HIDE DEF kept, near
  <2>1. stamps[T] = {now[r]}
    BY <1>1
  <2> QED
    BY <1>0, <1>1, <1>3, <1>6, <2>1 DEF Timeline!Commit

\* The clock advances.
LEMMA Ticks ==
    ASSUME TypeOK, Tick, SameTimeline, SameStamps
    PROVE  Timeline!Tick
<1>1. /\ MaxClock \in Nat /\ clock \in Nat /\ clock < MaxClock /\ clock' = clock + 1
  BY RequestAssumption DEF TypeOK, Tick
<1>2. /\ \E t \in 0 .. MaxClock : t > clock
      /\ clock' \in {t \in 0 .. MaxClock : t > clock /\ \A u \in 0 .. MaxClock :
                                                             u > clock => t <= u}
  <2>1. clock + 1 \in 0 .. MaxClock /\ clock + 1 > clock
    BY <1>1
  <2> QED
    BY <1>1, <2>1
<1> QED
  BY <1>2 DEF Timeline!Tick, SameTimeline, SameStamps, Stamping

\* The step that ends the revision of r.
LEMMA RevisionEnds ==
    ASSUME HistInv, NEW r \in Requests, UNCHANGED clock,
           \A s \in Requests \ {r} : pc'[s] = pc[s] /\ now'[s] = now[s],
           pc[r] \in {"timed", "found", "handled"},
           pc'[r] \notin {"timed", "found", "handled"}
    PROVE  /\ OnlyStamps(WireTaskType[r])
           /\ Stamping(WireTaskType[r]) = {now[r]} /\ Stamping(WireTaskType[r])' = {}
<1>1. Stamping(WireTaskType[r]) = {now[r]}
  BY OneStamp DEF HistInv
<1>2. \A s \in Requests \ {r} : InTx(s) => WireTaskType[s] # WireTaskType[r]
  BY UnderWay DEF InTx, TxSteps
<1>3. Revising(WireTaskType[r])' = {}
  BY <1>2 DEF Revising, InTx, TxSteps
<1>4. Stamping(WireTaskType[r])' = {}
  BY <1>3 DEF Stamping
<1> QED
  BY <1>1, <1>4, OtherStamps

\* A step of r that neither begins nor ends its revision.
LEMMA RevisionGoesOn ==
    ASSUME NEW r \in Requests,
           \A s \in Requests \ {r} : pc'[s] = pc[s] /\ now'[s] = now[s],
           \/ pc[r] \notin {"timed", "found", "handled"}
              /\ pc'[r] \notin {"timed", "found", "handled"}
           \/ /\ pc[r] \in {"timed", "found", "handled"}
              /\ pc'[r] \in {"timed", "found", "handled"}
              /\ now'[r] = now[r]
    PROVE  SameStamps
<1>1. \A type : \A s \in Requests : WireTaskType[s] = type =>
          /\ s \in Revising(type)' <=> s \in Revising(type)
          /\ s \in Revising(type) => now'[s] = now[s]
  BY DEF Revising
<1> QED
  BY <1>1, StampsStay DEF SameStamps

\* The handler's statements: reading the clock begins a revision.
LEMMA HandleRefines ==
    ASSUME HistInv, NEW r \in Requests, Handle(r), UNCHANGED clock, SameTimeline
    PROVE  Timeline!Next \/ UNCHANGED Timeline!vars
<1> DEFINE T == WireTaskType[r]
<1>0. /\ TypeOK
      /\ T \in TaskTypes => T \in RequestedTypes
      /\ \A s \in Requests \ {r} : pc'[s] = pc[s] /\ now'[s] = now[s]
  BY QuietStep DEF HistInv, OnceInv, RequestedTypes
<1>1. CASE RefuseTaskType(r)
  <2>1. T \notin RequestedTypes
    BY <1>1 DEF RefuseTaskType, RequestedTypes
  <2>2. SameStamps
    BY <1>0, <2>1, OtherStamps DEF OnlyStamps, SameStamps
  <2> QED
    BY <2>2, Stutters
<1>2. CASE ReadClock(r)
  <2>1. /\ T \in TaskTypes /\ pc[r] = "inserted" /\ pc'[r] = "timed"
        /\ \E lag \in 0 .. MaxSkew : lag <= clock /\ now'[r] = clock - lag
    BY <1>0, <1>2 DEF ReadClock, Goto, TypeOK
  <2>2. \A s \in Requests \ {r} : InTx(s) => WireTaskType[s] # T
    BY <2>1, UnderWay DEF InTx, TxSteps
  <2>3. Stamping(T) = {}
    BY <2>1, <2>2, NoStamp
  <2>4. Stamping(T)' = {now'[r]}
    <3>1. Revising(T)' = {r}
      BY <1>0, <2>1, <2>2 DEF Revising, InTx, TxSteps
    <3> QED
      BY <3>1 DEF Stamping
  <2>5. now'[r] \in Nat /\ clock - MaxSkew <= now'[r] /\ now'[r] <= clock
        /\ clock \in 0 .. MaxClock
    <3>1. clock \in 0 .. MaxClock /\ clock \in Nat /\ MaxSkew \in Nat
      BY <1>0, RequestAssumption DEF TypeOK
    <3> QED
      BY <2>1, <3>1
  <2>6. OnlyStamps(T)
    BY <1>0, OtherStamps
  <2>7. Timeline!Begin(T)
    BY <1>0, <2>1, <2>3, <2>4, <2>5, <2>6, Begins
  <2> QED
    BY <1>0, <2>1, <2>7 DEF Timeline!Next
<1>3. ASSUME FindCurrentlyActive(r) \/ RejectStandard(r) \/ CloseAndSave(r) \/ EncodeFails(r)
      PROVE  SameStamps
  <2>1. /\ pc[r] \in {"timed", "found"} /\ pc'[r] \in {"found", "handled"}
        /\ now' = now
    BY <1>0, <1>3 DEF FindCurrentlyActive, RejectStandard, CloseAndSave, EncodeFails,
          Handled, Goto, TypeOK
  <2> QED
    BY <1>0, <2>1, RevisionGoesOn
<1> QED
  BY <1>1, <1>2, <1>3, Stutters DEF Handle

\* The rest of what a request does without installing anything: giving up a
\* revision is the only step the timeline sees.
LEMMA EndsRefine ==
    ASSUME HistInv, NEW r \in Requests, InsertKey(r) \/ Aborting(r) \/ Telling(r),
           UNCHANGED clock, SameTimeline
    PROVE  Timeline!Next \/ UNCHANGED Timeline!vars
<1> DEFINE T == WireTaskType[r]
<1>0. /\ TypeOK
      /\ \A s \in Requests \ {r} : pc'[s] = pc[s] /\ now'[s] = now[s]
      /\ pc'[r] \notin {"timed", "found", "handled"}
  BY QuietStep, EndsPreserve DEF HistInv, OnceInv
<1>1. CASE pc[r] \in {"timed", "found", "handled"} /\ T \in RequestedTypes
  <2>1. OnlyStamps(T) /\ Stamping(T) = {now[r]} /\ Stamping(T)' = {}
    BY <1>0, <1>1, RevisionEnds
  <2>2. Timeline!Abandon(T)
    BY <1>1, <2>1, Abandons
  <2> QED
    BY <1>1, <2>2 DEF Timeline!Next
<1>2. CASE T \notin RequestedTypes
  <2>1. SameStamps
    BY <1>0, <1>2, OtherStamps DEF OnlyStamps, SameStamps
  <2> QED
    BY <2>1, Stutters
<1>3. CASE pc[r] \notin {"timed", "found", "handled"}
  BY <1>0, <1>3, RevisionGoesOn, Stutters
<1> QED
  BY <1>1, <1>2, <1>3

\* A commit revises the timeline or gives the revision up.
LEMMA InstallRefines ==
    ASSUME HistInv, NEW r \in Requests, Installing(r)
    PROVE  Timeline!Next \/ UNCHANGED Timeline!vars
<1> DEFINE T == WireTaskType[r]
<1>0. /\ TypeOK /\ UNCHANGED <<clock, now>>
      /\ \A s \in Requests \ {r} : pc'[s] = pc[s] /\ now'[s] = now[s]
      /\ pc[r] = "handled" /\ pc'[r] \in {"committed", "answered"}
  BY DEF Installing, HistInv, OnceInv, TypeOK
<1>1. OnlyStamps(T) /\ Stamping(T) = {now[r]} /\ Stamping(T)' = {}
  BY <1>0, RevisionEnds
<1>2. CASE Writes(r)
  <2>1. T \in RequestedTypes
    BY <1>2, RevisionRows DEF RequestedTypes, Revises
  <2>2. Timeline!Commit(T)
    BY <1>1, <1>2, <2>1, Commits DEF Revises
  <2> QED
    BY <2>1, <2>2 DEF Timeline!Next
<1>3. CASE ~Writes(r)
  <2>1. SameTimeline
    BY <1>3, RefusalInstalls, HistoryStays DEF SameTimeline
  <2>2. CASE T \in RequestedTypes
    <3>1. Timeline!Abandon(T)
      BY <1>0, <1>1, <2>1, <2>2, Abandons
    <3> QED
      BY <2>2, <3>1 DEF Timeline!Next
  <2>3. CASE T \notin RequestedTypes
    <3>1. SameStamps
      BY <1>1, <2>3 DEF OnlyStamps, SameStamps
    <3> QED
      BY <1>0, <2>1, <3>1, Stutters
  <2> QED
    BY <2>2, <2>3
<1> QED
  BY <1>2, <1>3

\* POST /standards implements the timeline: the two rows a revision writes, the
\* key's row and the commit amount to one atomic change of what is in force,
\* and nothing else a request, a retry or a failure does is seen in it.
THEOREM TimelineImplemented ==
    ASSUME OneAtATime
    PROVE  Spec => ImplementsTimeline
<1>1. Init => Timeline!Init
  <2> SUFFICES ASSUME Init
               PROVE  Timeline!Init
    OBVIOUS
  <2>1. clock \in 0 .. MaxClock /\ \A t \in 0 .. MaxClock : clock <= t
    BY RequestAssumption DEF Init
  <2>2. \A type, t : InForce(type, t) = {} /\ Revising(type) = {}
    BY DEF Init, InForce, StandardsOf, Revising
  <2> QED
    BY <2>1, <2>2 DEF Timeline!Init
<1>2. HistInv /\ [Next]_vars => Timeline!Next \/ UNCHANGED Timeline!vars
  <2> SUFFICES ASSUME HistInv, [Next]_vars
               PROVE  Timeline!Next \/ UNCHANGED Timeline!vars
    OBVIOUS
  <2>0. Moves /\ TypeOK
    BY DEF Moves, HistInv, OnceInv
  <2>1. ASSUME NEW r \in Requests, InsertKey(r) \/ Handle(r) \/ Aborting(r) \/ Telling(r)
        PROVE  Timeline!Next \/ UNCHANGED Timeline!vars
    <3>1. /\ UNCHANGED <<clock, created, effectiveTo>>
          /\ \A s \in created : now'[s] = now[s]
      BY <2>1, QuietStep DEF HistInv
    <3>2. SameTimeline
      BY <3>1, HistoryStays DEF SameTimeline
    <3> QED
      BY <2>1, <3>1, <3>2, HandleRefines, EndsRefine
  <2>2. ASSUME NEW r \in Requests, Installing(r)
        PROVE  Timeline!Next \/ UNCHANGED Timeline!vars
    BY <2>2, InstallRefines
  <2>3. CASE UNCHANGED <<database, request>> /\ (Tick \/ clock' = clock)
    <3>1. UNCHANGED <<created, effectiveTo, now, pc>>
      BY <2>3 DEF database, request
    <3>2. SameTimeline
      BY <3>1, HistoryStays DEF SameTimeline
    <3>3. SameStamps
      <4>1. \A type : \A s \in Requests : WireTaskType[s] = type =>
                /\ s \in Revising(type)' <=> s \in Revising(type)
                /\ s \in Revising(type) => now'[s] = now[s]
        BY <3>1 DEF Revising
      <4> QED
        BY <4>1, StampsStay DEF SameStamps
    <3>4. CASE clock' = clock
      BY <3>2, <3>3, <3>4, Stutters
    <3>5. CASE Tick
      BY <2>0, <3>2, <3>3, <3>5, Ticks DEF Timeline!Next
    <3> QED
      BY <2>3, <3>4, <3>5
  <2> QED
    BY <2>0, <2>1, <2>2, <2>3, StepShape
<1>3. HistInv /\ [Next]_vars => HistInv'
  BY HistStep DEF Moves
<1>4. Init => HistInv
  BY HistInit
<1>5. Spec => Timeline!Spec
  BY <1>1, <1>2, <1>3, <1>4, PTL DEF Spec, Timeline!Spec
<1> QED
  BY <1>5 DEF ImplementsTimeline

-----------------------------------------------------------------------------
(***************************************************************************)
(* Scoring.                                                                *)
(***************************************************************************)

\* Every step of the composition is one of Standards, a failure beside it or
\* none of its business.
LEMMA ScoringMoves ==
    ASSUME [ScoringNext]_<<vars, scoring>>
    PROVE  Moves
<1>1. ASSUME NEW k \in Tasks, CompleteTask(k) \/ LookUp(k) \/ RecordTask(k)
      PROVE  Moves
  BY <1>1 DEF CompleteTask, LookUp, RecordTask, Moves
<1>2. ASSUME NEW k \in Tasks, RetryTask(k)
      PROVE  Moves
  BY <1>2 DEF RetryTask, FailureBeside, Moves
<1>3. ASSUME ReviseStandard
      PROVE  Moves
  BY <1>3 DEF ReviseStandard, Moves
<1>4. ASSUME UNCHANGED <<vars, scoring>>
      PROVE  Moves
  BY <1>4 DEF Moves
<1> QED
  BY <1>1, <1>2, <1>3, <1>4 DEF ScoringNext

\* A committed standard stays, and a new one is a request of its own.
LEMMA CreatedGrows ==
    ASSUME OnceInv, Moves
    PROVE  created \subseteq created' /\ created' \subseteq Requests
<1>1. ASSUME NEW r \in Requests, InsertKey(r) \/ Handle(r) \/ Aborting(r) \/ Telling(r)
      PROVE  created' = created
  BY <1>1, OutcomesStay DEF database
<1>2. ASSUME NEW r \in Requests, Installing(r)
      PROVE  created \subseteq created'
  <2>1. InstallWrites(r)
    BY <1>2 DEF Installing
  <2>2. created' = created \/ created' = created \cup {r}
    BY <2>1 DEF InstallWrites
  <2> QED
    BY <2>2
<1>3. CASE UNCHANGED <<database, request>>
  BY <1>3, TypeStep DEF OnceInv, database, TypeOK
<1>4. created' \subseteq Requests
  BY TypeStep DEF OnceInv, TypeOK
<1> QED
  BY <1>1, <1>2, <1>3, <1>4, StepShape DEF OnceInv

\* The instants a commit adds to the unsettled ones are instants.
LEMMA UnsettledTyped ==
    ASSUME OnceInv, ScoringTypeOK, ReviseStandard
    PROVE  unsettled' \in [TaskTypes -> SUBSET (0 .. MaxClock)]
<1>1. created' \subseteq Requests
  BY CreatedGrows DEF ReviseStandard, Moves
<1>2. /\ clock \in 0 .. MaxClock /\ clock \in Nat /\ MaxClock \in Nat
      /\ \A s \in Requests : now[s] \in Nat
      /\ unsettled \in [TaskTypes -> SUBSET (0 .. MaxClock)]
  BY RequestAssumption DEF ScoringTypeOK, TypeOK
<1>3. \A s \in created' : now[s] .. clock \subseteq 0 .. MaxClock
  BY <1>1, <1>2
<1> DEFINE Reached(type) == UNION {now[s] .. clock : s \in {r \in created' \ created :
                                                               WireTaskType[r] = type}}
<1>4. \A type \in TaskTypes : Reached(type) \subseteq 0 .. MaxClock
  BY <1>3
<1>5. unsettled' = [type \in TaskTypes |-> unsettled[type] \cup Reached(type)]
  BY DEF ReviseStandard
<1> HIDE DEF Reached
<1> QED
  BY <1>2, <1>4, <1>5

\* A step keeps the types of the composition.
LEMMA ScoringTypeStep ==
    ASSUME OnceInv, ScoringTypeOK, [ScoringNext]_<<vars, scoring>>
    PROVE  ScoringTypeOK'
<1>0. /\ TypeOK' /\ created \subseteq created'
      /\ clock \in 0 .. MaxClock
  BY ScoringMoves, TypeStep, CreatedGrows DEF OnceInv, TypeOK
<1> DEFINE Steps == {"working", "completed", "looked", "recorded"}
<1>1. /\ step \in [Tasks -> Steps] /\ completedAt \in [Tasks -> 0 .. MaxClock]
      /\ frozen \in [Tasks -> SUBSET created]
      /\ frozen \in [Tasks -> SUBSET created']
      /\ unsettled \in [TaskTypes -> SUBSET (0 .. MaxClock)]
  BY <1>0 DEF ScoringTypeOK
<1>2. ASSUME NEW k \in Tasks, CompleteTask(k)
      PROVE  ScoringTypeOK'
  <2>1. /\ step' = [step EXCEPT ![k] = "completed"]
        /\ completedAt' = [completedAt EXCEPT ![k] = clock]
        /\ UNCHANGED <<frozen, unsettled>>
    BY <1>2 DEF CompleteTask
  <2> QED
    BY <1>0, <1>1, <2>1 DEF ScoringTypeOK
<1>3. ASSUME NEW k \in Tasks, LookUp(k)
      PROVE  ScoringTypeOK'
  <2>1. /\ step' = [step EXCEPT ![k] = "looked"]
        /\ UNCHANGED <<completedAt, unsettled>>
        /\ \E found \in FindActiveAsOf(TypeOf[k], completedAt[k]) :
              frozen' = [frozen EXCEPT ![k] = found]
    BY <1>3 DEF LookUp
  <2>2. \A found \in FindActiveAsOf(TypeOf[k], completedAt[k]) : found \subseteq created
    BY DEF FindActiveAsOf, InForce, StandardsOf
  <2>3. frozen' \in [Tasks -> SUBSET created']
    BY <1>0, <1>1, <2>1, <2>2
  <2> QED
    BY <1>0, <1>1, <2>1, <2>3 DEF ScoringTypeOK
<1>4. ASSUME NEW k \in Tasks, RecordTask(k)
      PROVE  ScoringTypeOK'
  <2>1. step' = [step EXCEPT ![k] = "recorded"] /\ UNCHANGED <<completedAt, frozen, unsettled>>
    BY <1>4 DEF RecordTask
  <2> QED
    BY <1>0, <1>1, <2>1 DEF ScoringTypeOK
<1>5. ASSUME NEW k \in Tasks, RetryTask(k)
      PROVE  ScoringTypeOK'
  <2>1. /\ step' = [step EXCEPT ![k] = "completed"]
        /\ frozen' = [frozen EXCEPT ![k] = {}]
        /\ UNCHANGED <<completedAt, unsettled>>
    BY <1>5 DEF RetryTask
  <2> QED
    BY <1>0, <1>1, <2>1 DEF ScoringTypeOK
<1>6. ASSUME ReviseStandard
      PROVE  ScoringTypeOK'
  <2>1. UNCHANGED <<step, completedAt, frozen>>
    BY <1>6 DEF ReviseStandard
  <2> QED
    BY <1>0, <1>1, <1>6, <2>1, UnsettledTyped DEF ScoringTypeOK
<1>7. ASSUME UNCHANGED <<vars, scoring>>
      PROVE  ScoringTypeOK'
  BY <1>0, <1>1, <1>7 DEF scoring, ScoringTypeOK
<1> QED
  BY <1>2, <1>3, <1>4, <1>5, <1>6, <1>7 DEF ScoringNext

\* The types hold before the first request and the first task.
LEMMA ScoringTypeInit ==
    ASSUME ScoringInit
    PROVE  ScoringTypeOK
<1>1. TypeOK
  BY TypeInit DEF ScoringInit
<1>2. 0 \in 0 .. MaxClock
  BY RequestAssumption
<1> QED
  BY <1>1, <1>2 DEF ScoringInit, ScoringTypeOK

\* The composition is type correct; with it, a row is only ever scored against
\* a standard that was committed.
THEOREM ScoringTypeCorrect == ScoringSpec => []ScoringTypeOK
<1>1. ScoringInit => OnceInv /\ ScoringTypeOK
  BY OnceInit, ScoringTypeInit DEF ScoringInit
<1>2. OnceInv /\ ScoringTypeOK /\ [ScoringNext]_<<vars, scoring>>
      => OnceInv' /\ ScoringTypeOK'
  BY ScoringMoves, OnceStep, ScoringTypeStep
<1> QED
  BY <1>1, <1>2, PTL DEF ScoringSpec

\* History notes the instants a commit reached back to.
Noted ==
    /\ \A type \in TaskTypes : unsettled[type] \subseteq unsettled'[type]
    /\ \A r \in created' \ created : now[r] .. clock \subseteq unsettled'[WireTaskType[r]]

\* Every step of the composition notes them.
LEMMA StepsNote ==
    ASSUME HistInv, ScoringTypeOK, [ScoringNext]_<<vars, scoring>>
    PROVE  Noted
<1>1. CASE created' = created /\ unsettled' = unsettled
  BY <1>1 DEF Noted
<1>2. ASSUME NEW k \in Tasks,
             CompleteTask(k) \/ LookUp(k) \/ RecordTask(k) \/ RetryTask(k)
      PROVE  created' = created /\ unsettled' = unsettled
  BY <1>2 DEF CompleteTask, LookUp, RecordTask, RetryTask, vars, database
<1>3. ASSUME ReviseStandard
      PROVE  Noted
  <2>1. \A r \in created' \ created : WireTaskType[r] \in TaskTypes
    BY <1>3, TimelineStep, RevisionRows DEF ReviseStandard, Moves
  <2>2. unsettled' = [type \in TaskTypes |-> unsettled[type] \cup
                         UNION {now[s] .. clock : s \in {r \in created' \ created :
                                                            WireTaskType[r] = type}}]
    BY <1>3 DEF ReviseStandard
  <2> QED
    BY <2>1, <2>2 DEF Noted
<1>4. CASE UNCHANGED <<vars, scoring>>
  BY <1>1, <1>4 DEF vars, database, scoring
<1> QED
  BY <1>1, <1>2, <1>3, <1>4 DEF ScoringNext

\* What was in force at an instant in the past stays in force, unless the
\* instant became unsettled.
LEMMA PastStays ==
    ASSUME HistInv, Moves, Noted, NEW type \in TaskTypes, NEW t \in Int, t <= clock,
           t \notin unsettled'[type]
    PROVE  InForce(type, t)' = InForce(type, t)
<1>1. ASSUME NEW r \in Requests, Revises(r)
      PROVE  InForce(type, t)' = InForce(type, t)
  <2>1. r \in created' \ created /\ now[r] \in Int /\ clock \in Int
    BY <1>1, RevisionRows, RequestAssumption DEF HistInv, OnceInv, TypeOK
  <2>2. CASE type = WireTaskType[r]
    <3>1. t < now[r]
      BY <2>1, <2>2 DEF Noted
    <3> QED
      BY <1>1, <2>2, <3>1, RevisionHistory
  <2>3. CASE type # WireTaskType[r]
    BY <1>1, <2>3, RevisionHistory
  <2> QED
    BY <2>2, <2>3
<1> QED
  BY <1>1, TimelineStep

\* At most one standard stays in force at every settled instant.
LEMMA SettledStep ==
    ASSUME HistInv, Settled, Moves, Noted
    PROVE  Settled'
<1> SUFFICES ASSUME NEW type \in TaskTypes,
                    NEW t \in (0 .. MaxClock) \ unsettled'[type],
                    NEW p \in InForce(type, t)', NEW q \in InForce(type, t)'
             PROVE  p = q
  BY DEF Settled
<1>0. /\ t \in Int /\ t \in (0 .. MaxClock) \ unsettled[type]
      /\ clock \in Int /\ \A s \in Requests : now[s] \in Int
  <2>1. MaxClock \in Int
    BY RequestAssumption
  <2> QED
    BY <2>1 DEF Noted, HistInv, OnceInv, TypeOK
<1>1. ASSUME InForce(type, t)' = InForce(type, t)
      PROVE  p = q
  BY <1>0, <1>1 DEF Settled
<1>2. ASSUME t <= clock
      PROVE  p = q
  BY <1>0, <1>1, <1>2, PastStays
<1>3. ASSUME t > clock, NEW r \in Requests, Revises(r)
      PROVE  p = q
  <2>1. CASE type # WireTaskType[r]
    BY <1>0, <1>1, <1>3, <2>1, RevisionHistory
  <2>2. CASE type = WireTaskType[r]
    <3>1. now[r] <= clock
      BY DEF HistInv, Stamped
    <3>2. now[r] <= t /\ ~(t < now[r]) /\ ~(t < clock)
      BY <1>0, <1>3, <3>1
    <3>3. InForce(type, t)' = {r} \cup (InForce(type, t) \ {prior[r]})
      BY <1>0, <1>3, <2>2, <3>2, RevisionHistory
    <3>4. InForce(type, t) \ {prior[r]} = {}
      BY <1>0, <1>3, <2>2, <3>2, OthersEndSoon
    <3> QED
      BY <3>3, <3>4
  <2> QED
    BY <2>1, <2>2
<1> QED
  BY <1>0, <1>1, <1>2, <1>3, TimelineStep

\* What the lookup of k finds is what is in force: at a settled instant there
\* is at most one standard to find.
LEMMA LookupIsHistory ==
    ASSUME ScoringTypeOK, Settled, NEW k \in Tasks, LookUp(k),
           completedAt[k] \notin unsettled[TypeOf[k]]
    PROVE  frozen'[k] = InForce(TypeOf[k], completedAt[k])
<1> DEFINE active == InForce(TypeOf[k], completedAt[k])
<1>1. /\ TypeOf[k] \in TaskTypes
      /\ completedAt[k] \in (0 .. MaxClock) \ unsettled[TypeOf[k]]
  BY TaskAssumption DEF ScoringTypeOK
<1>2. \A p, q \in active : p = q
  BY <1>1 DEF Settled
<1>3. PICK found \in FindActiveAsOf(TypeOf[k], completedAt[k]) :
           frozen' = [frozen EXCEPT ![k] = found]
  BY DEF LookUp
<1>4. frozen'[k] = found
  BY <1>3 DEF ScoringTypeOK
<1>5. \/ active = {} /\ found = {}
      \/ \E s \in active : found = {s}
  BY <1>3 DEF FindActiveAsOf
<1> QED
  BY <1>2, <1>4, <1>5

\* The clock stays or ticks.
LEMMA ClockStep ==
    ASSUME HistInv, Moves
    PROVE  /\ clock \in Nat /\ clock' \in Nat
           /\ clock <= clock'
<1>1. clock \in Nat /\ clock' \in Nat
  BY TypeStep, RequestAssumption DEF HistInv, OnceInv, TypeOK
<1>2. ASSUME NEW r \in Requests, InsertKey(r) \/ Handle(r) \/ Aborting(r) \/ Telling(r)
      PROVE  clock' = clock
  BY <1>2, QuietStep DEF HistInv
<1>3. ASSUME NEW r \in Requests, Installing(r)
      PROVE  clock' = clock
  BY <1>3 DEF Installing
<1>4. clock' = clock \/ Tick
  BY <1>2, <1>3, StepShape DEF HistInv, OnceInv
<1> QED
  BY <1>1, <1>4 DEF Tick

\* Task k is scored against what its history shows.
ScoredRight(k) ==
    /\ completedAt[k] <= clock
    /\ /\ step[k] \in {"looked", "recorded"}
       /\ completedAt[k] \notin unsettled[TypeOf[k]]
       => InForce(TypeOf[k], completedAt[k]) = frozen[k]

\* A task whose row or lookup a step leaves alone stays scored right.
LEMMA ScoreStays ==
    ASSUME ScoreInv, Moves, Noted, NEW k \in Tasks, completedAt'[k] = completedAt[k],
           \/ step'[k] \notin {"looked", "recorded"}
           \/ step[k] \in {"looked", "recorded"} /\ frozen'[k] = frozen[k]
    PROVE  ScoredRight(k)'
<1>1. /\ HistInv /\ TypeOf[k] \in TaskTypes /\ completedAt[k] \in Int
      /\ completedAt[k] <= clock
      /\ clock \in Nat /\ clock' \in Nat /\ clock <= clock'
  BY TaskAssumption, RequestAssumption, ClockStep DEF ScoreInv, ScoringTypeOK, LookedUp
<1>2. completedAt'[k] <= clock'
  BY <1>1
<1>3. ASSUME step'[k] \in {"looked", "recorded"},
             completedAt'[k] \notin unsettled'[TypeOf[k]]
      PROVE  InForce(TypeOf[k], completedAt[k])' = frozen'[k]
  <2>1. PICK t \in Int : t = completedAt[k]
    BY <1>1
  <2>2. InForce(TypeOf[k], t)' = InForce(TypeOf[k], t)
    BY <1>1, <1>3, <2>1, PastStays
  <2>3. InForce(TypeOf[k], t) = frozen[k]
    BY <1>1, <1>3, <2>1 DEF ScoreInv, LookedUp, Noted
  <2> QED
    BY <1>3, <2>1, <2>2, <2>3
<1> QED
  BY <1>2, <1>3 DEF ScoredRight

\* A step keeps what tasks are scored against.
LEMMA LookedUpStep ==
    ASSUME ScoreInv, [ScoringNext]_<<vars, scoring>>
    PROVE  LookedUp'
<1>0. /\ HistInv /\ ScoringTypeOK /\ Settled /\ Moves /\ Noted
  BY ScoringMoves, StepsNote DEF ScoreInv
<1>1. /\ step \in [Tasks -> {"working", "completed", "looked", "recorded"}]
      /\ completedAt \in [Tasks -> 0 .. MaxClock]
      /\ frozen \in [Tasks -> SUBSET created]
  BY <1>0 DEF ScoringTypeOK
<1> SUFFICES ASSUME NEW k \in Tasks
             PROVE  ScoredRight(k)'
  BY DEF LookedUp, ScoredRight
<1>2. CASE /\ completedAt'[k] = completedAt[k] /\ step'[k] = step[k]
           /\ frozen'[k] = frozen[k]
  BY <1>0, <1>2, ScoreStays
<1>3. ASSUME NEW j \in Tasks, CompleteTask(j)
      PROVE  ScoredRight(k)'
  <2>1. /\ step' = [step EXCEPT ![j] = "completed"]
        /\ completedAt' = [completedAt EXCEPT ![j] = clock]
        /\ UNCHANGED <<vars, frozen>>
    BY <1>3 DEF CompleteTask
  <2>2. clock' = clock /\ clock \in Nat
    BY <1>0, <2>1, ClockStep DEF vars
  <2>3. CASE k = j
    BY <1>1, <2>1, <2>2, <2>3 DEF ScoredRight
  <2> QED
    BY <1>1, <1>2, <2>1, <2>3
<1>4. ASSUME NEW j \in Tasks, LookUp(j)
      PROVE  ScoredRight(k)'
  <2>1. /\ step[j] = "completed" /\ step' = [step EXCEPT ![j] = "looked"]
        /\ UNCHANGED <<vars, completedAt, unsettled>>
    BY <1>4 DEF LookUp
  <2>2. \A i \in Tasks : i # j => frozen'[i] = frozen[i]
    BY <1>1, <1>4 DEF LookUp
  <2>3. CASE k = j
    <3>1. completedAt[k] <= clock /\ clock' = clock
      BY <2>1 DEF ScoreInv, LookedUp, vars
    <3>2. PICK t : t = completedAt[k]
      OBVIOUS
    <3>3. InForce(TypeOf[k], t)' = InForce(TypeOf[k], t)
      <4>1. UNCHANGED <<created, effectiveTo, now>>
        BY <2>1 DEF vars, database, request
      <4> QED
        BY <4>1, HistoryStays
    <3>4. completedAt[k] \notin unsettled[TypeOf[k]]
          => frozen'[k] = InForce(TypeOf[k], t)
      BY <1>0, <1>4, <2>3, <3>2, LookupIsHistory
    <3>5. completedAt'[k] = t /\ unsettled' = unsettled
      BY <2>1, <3>2
    <3> QED
      BY <3>1, <3>2, <3>3, <3>4, <3>5 DEF ScoredRight
  <2> QED
    BY <1>1, <1>2, <2>1, <2>2, <2>3
<1>5. ASSUME NEW j \in Tasks, RecordTask(j)
      PROVE  ScoredRight(k)'
  <2>1. /\ step[j] = "looked" /\ step' = [step EXCEPT ![j] = "recorded"]
        /\ UNCHANGED <<completedAt, frozen>>
    BY <1>5 DEF RecordTask
  <2> QED
    BY <1>0, <1>1, <2>1, ScoreStays
<1>6. ASSUME NEW j \in Tasks, RetryTask(j)
      PROVE  ScoredRight(k)'
  <2>1. /\ step' = [step EXCEPT ![j] = "completed"]
        /\ frozen' = [frozen EXCEPT ![j] = {}]
        /\ UNCHANGED completedAt
    BY <1>6 DEF RetryTask
  <2>2. \/ step'[k] \notin {"looked", "recorded"}
        \/ step'[k] = step[k] /\ frozen'[k] = frozen[k]
    BY <1>1, <2>1
  <2> QED
    BY <1>0, <1>1, <2>1, <2>2, ScoreStays
<1>7. CASE ReviseStandard \/ UNCHANGED <<vars, scoring>>
  BY <1>2, <1>7 DEF ReviseStandard, scoring
<1> QED
  BY <1>3, <1>4, <1>5, <1>6, <1>7 DEF ScoringNext

\* ScoreInv is inductive.
LEMMA ScoreStep ==
    ASSUME OneAtATime, ScoreInv, [ScoringNext]_<<vars, scoring>>
    PROVE  ScoreInv'
<1>1. HistInv /\ OnceInv /\ ScoringTypeOK /\ Settled /\ Moves
  BY ScoringMoves DEF ScoreInv, HistInv
<1>2. Noted
  BY <1>1, StepsNote
<1> QED
  BY <1>1, <1>2, HistStep, ScoringTypeStep, SettledStep, LookedUpStep DEF ScoreInv

\* ScoreInv holds before the first request and the first task.
LEMMA ScoreInit ==
    ASSUME ScoringInit
    PROVE  ScoreInv
<1>1. HistInv /\ ScoringTypeOK
  BY HistInit, ScoringTypeInit DEF ScoringInit
<1>2. Settled
  BY DEF ScoringInit, Init, Settled, InForce, StandardsOf
<1>3. LookedUp
  BY DEF ScoringInit, Init, LookedUp
<1> QED
  BY <1>1, <1>2, <1>3 DEF ScoreInv

\* A task's row is scored against the standard the history shows in force when
\* the task was completed, however late it is recorded, however often the
\* recording is retried and whatever is revised in between; only a completion
\* between the stamp of a revision and its commit is excepted.
THEOREM ScoresMatchHistory ==
    ASSUME OneAtATime
    PROVE  ScoringSpec => []ScoreMatchesHistory
<1>1. ScoreInv => ScoreMatchesHistory
  BY DEF ScoreInv, LookedUp, ScoreMatchesHistory
<1> QED
  BY <1>1, ScoreInit, ScoreStep, PTL DEF ScoringSpec

\* Scoring beside it takes nothing from POST /standards.
THEOREM ScoringKeepsHistory ==
    ASSUME OneAtATime
    PROVE  ScoringSpec => [](OneStandardInForce /\ RevisionsChain)
<1>1. ScoringInit => HistInv /\ OneStandardInForce /\ ChainLinked
  BY HistInit DEF ScoringInit, Init, OneStandardInForce, StandardsOf, ChainLinked
<1>2. HistInv /\ OneStandardInForce /\ ChainLinked /\ [ScoringNext]_<<vars, scoring>>
      => HistInv' /\ OneStandardInForce' /\ ChainLinked'
  BY ScoringMoves, HistStep, InForceStep, ChainStep
<1>3. ChainLinked => RevisionsChain
  BY LinkedIsChain
<1> QED
  BY <1>1, <1>2, <1>3, PTL DEF ScoringSpec

=============================================================================

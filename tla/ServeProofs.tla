----------------------------- MODULE ServeProofs -----------------------------
(***************************************************************************)
(* Proofs about Serve: what OutboxRelayProofs shows of the outbox holds    *)
(* through every stop, and a graceful stop ends in order.                  *)
(***************************************************************************)
EXTENDS Serve, OutboxRelayProofs

\* The relay a pod runs takes the steps of OutboxRelay.
LEMMA RunsOutboxRelay ==
    ASSUME NEW p \in Relays, TypeOK, RunRelay(p) \/ RelayFails(p) \/ Boot(p)
    PROVE  OutboxStep
<1>1. Pass(p) \/ Failure(p)
  BY DEF RunRelay, RelayFails, Boot, Pass, Failure
<1> QED
  BY <1>1, NextIsOutboxStep DEF Next

\* The handlers take the steps of its writers.
LEMMA HandlersWrite ==
    ASSUME NEW p \in Relays, TypeOK,
           \/ AcceptRequest(p) \/ FetchMessage(p)
           \/ \E i \in Ids : FinishRequest(p, i) \/ FinishMessage(p, i)
    PROVE  OutboxStep
<1>1. \A i \in Ids : CommitRow(i) \/ AbortRow(i) => i \in open
  BY DEF CommitRow, AbortRow
<1>2. Write
  BY <1>1 DEF AcceptRequest, FetchMessage, FinishRequest, FinishMessage, Write
<1> QED
  BY <1>2, NextIsOutboxStep DEF Next

\* Whatever the pods do, the outbox takes one of OutboxRelay's steps: a stop
\* ends a pass, aborts transactions or leaves it alone.
LEMMA ServeIsOutboxStep ==
    ASSUME TypeOK, [ServeNext]_<<vars, process>>
    PROVE  OutboxStep
<1>0. faults \in 0 .. MaxFaults /\ (Fault => faults' \in 0 .. MaxFaults)
  BY RelayAssumption DEF TypeOK, Fault
<1>1. ASSUME UNCHANGED vars
      PROVE  OutboxStep
  BY <1>1, NextIsOutboxStep
<1>2. ASSUME NEW p \in Relays, UNCHANGED <<writers, published, topic, relay>>, Fault
      PROVE  OutboxStep
  <2>1. Aborting
    BY <1>2 DEF Aborting, writers
  <2> QED
    BY <1>0, <1>2, <2>1 DEF OutboxStep
<1>3. ASSUME NEW p \in Relays, Exited(p), faults' \in 0 .. MaxFaults
      PROVE  OutboxStep
  <2>1. Ending(p)
    BY <1>3 DEF Exited, Ending
  <2> QED
    BY <1>3, <2>1 DEF OutboxStep
<1>4. ASSUME NEW p \in Relays, RelayReturns(p)
      PROVE  OutboxStep
  <2>1. Ending(p)
    BY <1>4 DEF RelayReturns, Ending, writers
  <2> QED
    BY <1>0, <1>4, <2>1 DEF OutboxStep, RelayReturns
<1>5. ASSUME NEW p \in Relays, Work(p) \/ AcceptRequest(p) \/ FetchMessage(p) \/ RelayFails(p)
      PROVE  OutboxStep
  BY <1>5, RunsOutboxRelay, HandlersWrite DEF Work
<1>6. ASSUME NEW p \in Relays, Stop(p)
      PROVE  OutboxStep
  <2>1. CASE RelayReturns(p)
    BY <1>4, <2>1
  <2>2. CASE Exit(p)
    BY <1>0, <1>3, <2>2 DEF Exit
  <2>3. CASE Boot(p)
    BY <2>3, RunsOutboxRelay
  <2>4. CASE CloseListener(p) \/ StopRelay(p) \/ StopConsumer(p) \/ ConsumerReturns(p) \/ Return(p)
    BY <1>1, <2>4 DEF CloseListener, StopRelay, StopConsumer, ConsumerReturns, Return
  <2> QED
    BY <1>6, <2>1, <2>2, <2>3, <2>4 DEF Stop
<1>7. ASSUME NEW p \in Relays, Signal(p) \/ ComponentFails(p)
      PROVE  OutboxStep
  BY <1>2, <1>7 DEF Signal, ComponentFails
<1>8. ASSUME NEW p \in Relays, DeadlinePasses(p)
      PROVE  OutboxStep
  BY <1>1, <1>8 DEF DeadlinePasses
<1>9. ASSUME NEW p \in Relays, Crash(p)
      PROVE  OutboxStep
  BY <1>0, <1>3, <1>9 DEF Crash
<1>10. CASE Rest \/ UNCHANGED <<vars, process>>
  BY <1>1, <1>10 DEF Rest, Sleep
<1> QED
  BY <1>5, <1>6, <1>7, <1>8, <1>9, <1>10 DEF ServeNext

\* No event is lost and none is invented, whatever stops the pods and whenever.
THEOREM FaithfulThroughStops == ServeSpec => []OutboxFaithful
<1>1. ServeInit => FaithInv
  BY FaithInit DEF ServeInit
<1>2. FaithInv /\ [ServeNext]_<<vars, process>> => FaithInv'
  <2>1. FaithInv /\ [ServeNext]_<<vars, process>> => OutboxStep
    BY ServeIsOutboxStep DEF FaithInv
  <2> QED
    BY <2>1, FaithStep
<1>3. FaithInv => OutboxFaithful
  BY FaithImplies
<1> QED
  BY <1>1, <1>2, <1>3, PTL DEF ServeSpec

\* While requests and the consumer race on a key: the events whose transactions
\* committed in id order keep that order through every stop and boot of the one pod.
THEOREM OrderedThroughStops ==
    ASSUME \A q, r \in Relays : q = r
    PROVE  ServeSpec => []OrderPreserved
<1>1. ServeInit => OrderInv
  BY OrderInit DEF ServeInit
<1>2. OrderInv /\ [ServeNext]_<<vars, process>> => OrderInv'
  <2>1. OrderInv /\ [ServeNext]_<<vars, process>> => OutboxStep
    BY ServeIsOutboxStep DEF OrderInv, FaithInv
  <2> QED
    BY <2>1, OrderStep
<1>3. OrderInv => OrderPreserved
  BY DEF OrderInv
<1> QED
  BY <1>1, <1>2, <1>3, PTL DEF ServeSpec

-----------------------------------------------------------------------------
(***************************************************************************)
(* A graceful stop leaves nobody in the pool.                              *)
(***************************************************************************)

\* The state of the pods is well typed.
PodTyped ==
    /\ phase \in [Relays -> Phases]
    /\ requests \in [Relays -> SUBSET Ids]
    /\ message \in [Relays -> SUBSET Ids]
    /\ consuming \in [Relays -> BOOLEAN]
    /\ expired \in [Relays -> BOOLEAN]
    /\ graceful \in [Relays -> BOOLEAN]

\* What each step of the stop of pod p may rely on, unless the deadline passed.
Stopped(p) ==
    /\ phase[p] = "serving" => ~graceful[p]
    /\ ~consuming[p] => message[p] = {}
    /\ ~expired[p] =>
          /\ phase[p] \in {"relayStopping", "consumerStopping"} => requests[p] = {}
          /\ phase[p] = "consumerStopping" => pc[p] = "down"
          /\ phase[p] = "closing" /\ graceful[p] =>
                requests[p] = {} /\ pc[p] = "down" /\ ~consuming[p]

\* What makes PoolClosedLast inductive.
StopInv == TypeOK /\ IdleUnlocked /\ PodTyped /\ \A p \in Relays : Stopped(p)

\* All a step may change of the stop of pod p.
PodState(p) ==
    <<phase[p], requests[p], message[p], consuming[p], expired[p], graceful[p], pc[p]>>

\* A handler's row is inserted, or its transaction ends.
LEMMA HandlerKeepsStop ==
    ASSUME StopInv, NEW p \in Relays,
           \/ AcceptRequest(p) \/ FetchMessage(p)
           \/ \E i \in Ids : FinishRequest(p, i) \/ FinishMessage(p, i)
    PROVE  PodTyped' /\ \A q \in Relays : Stopped(q)'
<1>0. TypeOK /\ PodTyped /\ \A q \in Relays : Stopped(q)
  BY DEF StopInv
<1>1. UNCHANGED <<phase, consuming, expired, graceful, pc>>
  BY DEF AcceptRequest, FetchMessage, FinishRequest, FinishMessage, InsertRow,
         CommitRow, AbortRow, relay
<1>2. CASE AcceptRequest(p)
  <2>1. lastId' \in Ids
    BY <1>0, <1>2, RelayAssumption DEF AcceptRequest, InsertRow, TypeOK, Ids
  <2>2. /\ requests' = [requests EXCEPT ![p] = @ \cup {lastId'}] /\ message' = message
        /\ \/ phase[p] \in {"serving", "notReady"}
           \/ phase[p] = "closing" /\ ~graceful[p]
    BY <1>2 DEF AcceptRequest, ListenerOpen
  <2>3. PodTyped'
    BY <1>0, <1>1, <2>1, <2>2 DEF PodTyped
  <2>4. ASSUME NEW q \in Relays
        PROVE  Stopped(q)'
    BY <1>0, <1>1, <2>2 DEF PodTyped, Stopped
  <2> QED
    BY <2>3, <2>4
<1>3. CASE FetchMessage(p)
  <2>1. lastId' \in Ids
    BY <1>0, <1>3, RelayAssumption DEF FetchMessage, InsertRow, TypeOK, Ids
  <2>2. /\ message' = [message EXCEPT ![p] = {lastId'}] /\ requests' = requests
        /\ consuming[p]
    BY <1>3 DEF FetchMessage
  <2>3. PodTyped'
    BY <1>0, <1>1, <2>1, <2>2 DEF PodTyped
  <2>4. ASSUME NEW q \in Relays
        PROVE  Stopped(q)'
    BY <1>0, <1>1, <2>2 DEF PodTyped, Stopped
  <2> QED
    BY <2>3, <2>4
<1>4. ASSUME NEW i \in Ids, FinishRequest(p, i) \/ FinishMessage(p, i)
      PROVE  PodTyped' /\ \A q \in Relays : Stopped(q)'
  <2>1. \A q \in Relays : requests'[q] \subseteq requests[q] /\ message'[q] \subseteq message[q]
    BY <1>0, <1>4 DEF FinishRequest, FinishMessage, PodTyped
  <2>2. PodTyped'
    BY <1>0, <1>1, <1>4 DEF FinishRequest, FinishMessage, PodTyped
  <2>3. ASSUME NEW q \in Relays
        PROVE  Stopped(q)'
    BY <1>0, <1>1, <2>1 DEF Stopped
  <2> QED
    BY <2>2, <2>3
<1> QED
  BY <1>2, <1>3, <1>4

\* A relay that is down stays down until its pod boots.
LEMMA RelayKeepsStop ==
    ASSUME StopInv, NEW p \in Relays, RunRelay(p) \/ RelayFails(p) \/ RelayReturns(p)
    PROVE  PodTyped' /\ \A q \in Relays : Stopped(q)'
<1>0. TypeOK /\ PodTyped /\ \A q \in Relays : Stopped(q)
  BY DEF StopInv
<1>1. UNCHANGED process
  BY DEF RunRelay, RelayFails, RelayReturns
<1>2. ASSUME NEW q \in Relays
      PROVE  pc'[q] = pc[q] \/ pc'[q] = "down" \/ (q = p /\ ~RelayCancelled(p))
  BY <1>0 DEF RunRelay, Claim, Send, MarkPublished, CommitPass, RelayFails, SendFails,
              SendRepeated, PassFails, RelayReturns, EndPass, TypeOK
<1>3. ASSUME NEW q \in Relays
      PROVE  Stopped(q)'
  BY <1>0, <1>1, <1>2 DEF process, Stopped, RelayCancelled
<1> QED
  BY <1>0, <1>1, <1>3 DEF process, PodTyped

\* Each step of a stop waits for what the next one relies on.
LEMMA ServeKeepsStop ==
    ASSUME StopInv, NEW p \in Relays,
           \/ Signal(p) \/ CloseListener(p) \/ DeadlinePasses(p) \/ StopRelay(p)
           \/ StopConsumer(p) \/ ConsumerReturns(p) \/ Return(p) \/ ComponentFails(p)
           \/ Exit(p) \/ Crash(p) \/ Boot(p)
    PROVE  PodTyped' /\ \A q \in Relays : Stopped(q)'
<1>0. TypeOK /\ PodTyped /\ \A q \in Relays : Stopped(q)
  BY DEF StopInv
<1>1. ASSUME NEW q \in Relays, q # p
      PROVE  Stopped(q)'
  <2>1. UNCHANGED PodState(q)
    BY <1>0, <1>1 DEF Signal, CloseListener, DeadlinePasses, StopRelay, StopConsumer,
          ConsumerReturns, Return, ComponentFails, Exit, Crash, Exited, Boot, Restart,
          Advance, EndPass, vars, relay, PodTyped, TypeOK, PodState
  <2> QED
    BY <1>0, <2>1 DEF PodState, Stopped
<1>2. PodTyped' /\ Stopped(p)'
  <2>1. CASE Signal(p)
    BY <1>0, <2>1 DEF Signal, Advance, relay, PodTyped, Phases, Stopped
  <2>2. CASE CloseListener(p)
    BY <1>0, <2>2 DEF CloseListener, Advance, vars, relay, PodTyped, Phases, Stopped
  <2>3. CASE DeadlinePasses(p)
    BY <1>0, <2>3 DEF DeadlinePasses, vars, relay, PodTyped, Phases, Stopped
  <2>4. CASE StopRelay(p)
    BY <1>0, <2>4 DEF StopRelay, Advance, vars, relay, PodTyped, Phases, Stopped
  <2>5. CASE StopConsumer(p)
    BY <1>0, <2>5 DEF StopConsumer, Advance, vars, relay, PodTyped, Phases, Stopped
  <2>6. CASE ConsumerReturns(p)
    BY <1>0, <2>6 DEF ConsumerReturns, vars, relay, PodTyped, Phases, Stopped
  <2>7. CASE Return(p)
    BY <1>0, <2>7 DEF Return, Advance, vars, relay, PodTyped, Phases, Stopped
  <2>8. CASE ComponentFails(p)
    BY <1>0, <2>8 DEF ComponentFails, Advance, relay, PodTyped, Phases, Stopped
  <2>9. CASE Exit(p) \/ Crash(p)
    BY <1>0, <2>9 DEF Exit, Crash, Exited, PodTyped, Phases, Stopped
  <2>10. CASE Boot(p)
    BY <1>0, <2>10 DEF Boot, Restart, Advance, PodTyped, Phases, Stopped
  <2> QED
    BY <2>1, <2>2, <2>3, <2>4, <2>5, <2>6, <2>7, <2>8, <2>9, <2>10
<1> QED
  BY <1>1, <1>2

\* StopInv is inductive.
LEMMA StopStep ==
    ASSUME StopInv, \A r \in Relays : pc[r] = "mark" => batch[r] # {},
           [ServeNext]_<<vars, process>>
    PROVE  StopInv'
<1>0. TypeOK /\ IdleUnlocked /\ PodTyped /\ \A q \in Relays : Stopped(q)
  BY DEF StopInv
<1>1. TypeOK' /\ IdleUnlocked'
  BY <1>0, ServeIsOutboxStep, TypeStep, IdleUnlockedStep
<1>2. PodTyped' /\ \A q \in Relays : Stopped(q)'
  <2>1. CASE Rest \/ UNCHANGED <<vars, process>>
    <3>1. UNCHANGED <<vars, process>>
      BY <2>1 DEF Rest, Sleep
    <3> QED
      BY <1>0, <3>1 DEF vars, relay, process, PodTyped, Stopped
  <2>2. ASSUME NEW p \in Relays,
               \/ AcceptRequest(p) \/ FetchMessage(p) \/ Work(p) \/ Stop(p)
               \/ RelayFails(p) \/ Signal(p) \/ DeadlinePasses(p) \/ ComponentFails(p)
               \/ Crash(p)
        PROVE  PodTyped' /\ \A q \in Relays : Stopped(q)'
    BY <2>2, HandlerKeepsStop, RelayKeepsStop, ServeKeepsStop DEF Work, Stop
  <2> QED
    BY <2>1, <2>2 DEF ServeNext
<1> QED
  BY <1>1, <1>2 DEF StopInv

\* On a signal, and within the deadline, the pool is closed when no request, no
\* message and no pass uses it and neither loop can begin another, however many
\* pods run and whatever else fails.
THEOREM ClosedLast == ServeSpec => []PoolClosedLast
<1> DEFINE Inv == FaithInv /\ StopInv
<1>1. ServeInit => Inv
  <2>1. ASSUME ServeInit
        PROVE  StopInv
    <3>1. TypeOK /\ IdleUnlocked
      BY <2>1, OrderInit DEF ServeInit, OrderInv, FaithInv
    <3>2. PodTyped /\ \A p \in Relays : Stopped(p)
      BY <2>1 DEF ServeInit, PodTyped, Phases, Stopped
    <3> QED
      BY <3>1, <3>2 DEF StopInv
  <2> QED
    BY <2>1, FaithInit DEF ServeInit
<1>2. Inv /\ [ServeNext]_<<vars, process>> => Inv'
  <2>1. ASSUME Inv, [ServeNext]_<<vars, process>>
        PROVE  FaithInv'
    BY <2>1, ServeIsOutboxStep, FaithStep DEF FaithInv
  <2>2. ASSUME Inv, [ServeNext]_<<vars, process>>
        PROVE  StopInv'
    BY <2>2, StopStep DEF FaithInv, MarkedSent
  <2> QED
    BY <2>1, <2>2
<1>3. Inv => PoolClosedLast
  BY DEF StopInv, Stopped, IdleUnlocked, PodTyped, PoolClosedLast
<1> QED
  BY <1>1, <1>2, <1>3, PTL DEF ServeSpec

-----------------------------------------------------------------------------
(***************************************************************************)
(* A stop costs at most a batch of repeated copies.                        *)
(***************************************************************************)

\* Pods that are being stopped and whose pass may still be cut off: the failure
\* that stopped them is counted, the batch it may cost is not owed yet.
Stopping == {p \in Relays : phase[p] \notin {"serving", "exited"} /\ pc[p] # "down"}

\* Every stop of a pod costs a batch once, when its pass is cut off.
StopDebtInv ==
    /\ FaithInv
    /\ StopInv
    /\ PassesApart
    /\ IsFiniteSet(Stopping) /\ Cardinality(Stopping) <= faults
    /\ Owes(faults - Cardinality(Stopping))

\* A pod that is gone takes its pass with it: nothing is sent, and what its
\* pass had locked is unlocked.
LEMMA ExitedOwes ==
    ASSUME NEW e \in Nat, Owes(e), FaithInv, PassesApart, TypeOK', NEW p \in Relays,
           Exited(p), Locked(p) = {}
    PROVE  Owes(e)'
<1>0. TypeOK
  BY DEF FaithInv
<1>1. /\ UNCHANGED <<topic, published>>
      /\ pc' = [pc EXCEPT ![p] = "down"]
      /\ batch' = [batch EXCEPT ![p] = {}] /\ marked' = [marked EXCEPT ![p] = {}]
  BY DEF Exited, EndPass
<1>2. SentBy(p) = {}
  BY DEF SentBy, Locked
<1>3. ASSUME NEW q \in Relays, q # p
      PROVE  SentBy(q)' = SentBy(q)
  <2>1. UNCHANGED <<pc[q], batch[q], marked[q]>>
    BY <1>0, <1>1, <1>3 DEF TypeOK
  <2> QED
    BY <2>1 DEF SentBy, NextRow
<1> QED
  BY <1>0, <1>1, <1>2, <1>3, QuietOwes

\* Who is being stopped, before and after a step, in numbers.
LEMMA StoppingCounts ==
    ASSUME IsFiniteSet(Stopping), NEW p \in Relays
    PROVE  /\ Cardinality(Stopping) \in Nat
           /\ Stopping' = Stopping \/ Stopping' = Stopping \ {p} \/ Stopping' = Stopping \cup {p}
              => IsFiniteSet(Stopping') /\ Cardinality(Stopping') \in Nat
           /\ Stopping' = Stopping \cup {p} => Cardinality(Stopping') <= Cardinality(Stopping) + 1
           /\ Stopping' = Stopping \ {p} => Cardinality(Stopping') <= Cardinality(Stopping)
           /\ Stopping' = Stopping \ {p} /\ p \in Stopping
              => Cardinality(Stopping') = Cardinality(Stopping) - 1
<1>1. /\ IsFiniteSet(Stopping \ {p}) /\ IsFiniteSet(Stopping \cup {p})
      /\ Cardinality(Stopping) \in Nat
      /\ Cardinality(Stopping \ {p}) \in Nat /\ Cardinality(Stopping \cup {p}) \in Nat
  BY FS_AddElement, FS_RemoveElement, FS_CardinalityType
<1>2. /\ Cardinality(Stopping \cup {p}) <= Cardinality(Stopping) + 1
      /\ Cardinality(Stopping \ {p}) <= Cardinality(Stopping)
      /\ p \in Stopping => Cardinality(Stopping \ {p}) = Cardinality(Stopping) - 1
  BY <1>1, FS_AddElement, FS_RemoveElement
<1> QED
  BY <1>1, <1>2

\* The kinds of step there are, by what they cost: nothing; nothing, at a
\* failure's price; a batch, at a failure's price; a batch that the signal paid for.
LEMMA StepCosts ==
    ASSUME StopDebtInv, TypeOK', [ServeNext]_<<vars, process>>, NEW e \in Nat, Owes(e)
    PROVE  \/ /\ faults' = faults /\ Owes(e)'
              /\ Stopping' = Stopping \/ \E p \in Relays : Stopping' = Stopping \ {p}
           \/ /\ faults' = faults + 1 /\ Owes(e)'
              /\ \E p \in Relays : Stopping' = Stopping \/ Stopping' = Stopping \cup {p}
           \/ /\ faults' = faults + 1 /\ Owes(e + 1)'
              /\ \E p \in Relays : Stopping' = Stopping \/ Stopping' = Stopping \ {p}
           \/ /\ faults' = faults /\ Owes(e + 1)'
              /\ \E p \in Stopping : Stopping' = Stopping \ {p}
<1>0. /\ FaithInv /\ TypeOK /\ StopInv /\ IdleUnlocked /\ PodTyped /\ PassesApart
  BY DEF StopDebtInv, StopInv
<1>1. ASSUME UNCHANGED <<phase, pc>>
      PROVE  Stopping' = Stopping
  BY <1>1 DEF Stopping
<1>2. ASSUME UNCHANGED <<published, topic, relay>>
      PROVE  Owes(e)'
  BY <1>2 DEF relay, Owes, Paid, SentBy, NextRow
<1>3. CASE Rest \/ UNCHANGED <<vars, process>>
  <2>1. UNCHANGED <<published, topic, relay, faults, phase, pc>>
    BY <1>3 DEF Rest, Sleep, vars, relay, process
  <2> QED
    BY <1>1, <1>2, <2>1
<1>4. ASSUME NEW p \in Relays,
             \/ AcceptRequest(p) \/ FetchMessage(p)
             \/ \E i \in Ids : FinishRequest(p, i) \/ FinishMessage(p, i)
      PROVE  faults' = faults /\ Owes(e)' /\ Stopping' = Stopping
  <2>1. UNCHANGED <<published, topic, relay, faults, phase>>
    BY <1>4 DEF AcceptRequest, FetchMessage, FinishRequest, FinishMessage, InsertRow,
                CommitRow, AbortRow
  <2> QED
    BY <1>1, <1>2, <2>1 DEF relay
<1>5. ASSUME NEW p \in Relays, NEW to \in {"idle", "send", "mark"},
             pc[p] # "down", pc' = [pc EXCEPT ![p] = to], phase' = phase
      PROVE  Stopping' = Stopping
  BY <1>0, <1>5 DEF Stopping, TypeOK
<1>6. ASSUME NEW p \in Relays, RunRelay(p)
      PROVE  faults' = faults /\ Owes(e)' /\ Stopping' = Stopping
  <2>1. Claim(p) \/ Send(p) \/ MarkPublished(p) \/ CommitPass(p)
    BY <1>6 DEF RunRelay
  <2>2. phase' = phase
    BY <1>6 DEF RunRelay, process
  <2>3. faults' = faults /\ pc[p] # "down"
        /\ \E to \in {"idle", "send", "mark"} : pc' = [pc EXCEPT ![p] = to]
    BY <2>1 DEF Claim, Send, MarkPublished, CommitPass, EndPass
  <2>4. Stopping' = Stopping
    BY <1>5, <2>2, <2>3
  <2>5. Owes(e)'
    BY <1>0, <2>1, WorkOwes
  <2> QED
    BY <2>3, <2>4, <2>5
<1>7. ASSUME NEW p \in Relays, RelayFails(p)
      PROVE  faults' = faults + 1 /\ Owes(e + 1)' /\ Stopping' = Stopping
  <2>1. Failure(p) /\ phase' = phase
    BY <1>7 DEF RelayFails, Failure, process
  <2>2. Owes(e + 1)'
    BY <1>0, <2>1, FailureOwes
  <2>3. faults' = faults + 1
    BY <2>1 DEF Failure, SendFails, SendRepeated, PassFails, Fault
  <2>4. pc[p] # "down" /\ \E to \in {"idle", "send", "mark"} : pc' = [pc EXCEPT ![p] = to]
    BY <1>0, <1>7 DEF RelayFails, SendFails, SendRepeated, PassFails, EndPass, TypeOK
  <2> QED
    BY <1>5, <2>1, <2>2, <2>3, <2>4
<1>8. ASSUME NEW p \in Relays, RelayReturns(p)
      PROVE  /\ faults' = faults /\ Owes(e + 1)'
             /\ p \in Stopping /\ Stopping' = Stopping \ {p}
  <2>1. Ending(p)
    BY <1>8 DEF RelayReturns, Ending, writers
  <2>2. Owes(e + 1)'
    BY <1>0, <2>1, EndingOwes
  <2>3. /\ faults' = faults /\ phase' = phase /\ pc' = [pc EXCEPT ![p] = "down"]
        /\ pc[p] # "down" /\ phase[p] \in {"relayStopping", "consumerStopping", "closing"}
    BY <1>8 DEF RelayReturns, RelayCancelled, EndPass, process
  <2>4. p \in Stopping /\ Stopping' = Stopping \ {p}
    BY <1>0, <2>3 DEF Stopping, TypeOK
  <2> QED
    BY <2>2, <2>3, <2>4
<1>9. ASSUME NEW p \in Relays,
             CloseListener(p) \/ StopRelay(p) \/ StopConsumer(p) \/ ConsumerReturns(p) \/ Return(p)
             \/ DeadlinePasses(p)
      PROVE  faults' = faults /\ Owes(e)' /\ Stopping' = Stopping
  <2>1. UNCHANGED <<published, topic, relay, faults, pc>>
    BY <1>9 DEF CloseListener, StopRelay, StopConsumer, ConsumerReturns, Return,
                DeadlinePasses, vars, relay
  <2>2. \/ phase' = phase
        \/ \E to \in {"draining", "relayStopping", "consumerStopping", "closing"} :
              phase[p] \notin {"serving", "exited"} /\ phase' = [phase EXCEPT ![p] = to]
    BY <1>9 DEF CloseListener, StopRelay, StopConsumer, ConsumerReturns, Return,
                DeadlinePasses, Advance
  <2>3. Stopping' = Stopping
    BY <1>0, <2>1, <2>2 DEF Stopping, PodTyped
  <2> QED
    BY <1>2, <2>1, <2>3
<1>10. ASSUME NEW p \in Relays, Signal(p) \/ ComponentFails(p)
       PROVE  /\ faults' = faults + 1 /\ Owes(e)'
              /\ Stopping' = Stopping \/ Stopping' = Stopping \cup {p}
  <2>1. /\ faults' = faults + 1 /\ UNCHANGED <<published, topic, relay, pc>>
        /\ \E to \in {"notReady", "closing"} : phase' = [phase EXCEPT ![p] = to]
        /\ phase[p] = "serving"
    BY <1>10 DEF Signal, ComponentFails, Fault, Advance, relay
  <2>2. CASE pc[p] = "down"
    BY <1>0, <1>2, <2>1, <2>2 DEF Stopping, PodTyped
  <2>3. CASE pc[p] # "down"
    <3>1. Stopping' = Stopping \cup {p}
      BY <1>0, <2>1, <2>3 DEF Stopping, PodTyped
    <3> QED
      BY <1>2, <2>1, <3>1
  <2> QED
    BY <2>2, <2>3
<1>11. ASSUME NEW p \in Relays, Exited(p)
       PROVE  Stopping' = Stopping \ {p}
  <2>1. phase' = [phase EXCEPT ![p] = "exited"] /\ pc' = [pc EXCEPT ![p] = "down"]
    BY <1>11 DEF Exited, EndPass
  <2> QED
    BY <1>0, <2>1 DEF Stopping, PodTyped, TypeOK
<1>12. ASSUME NEW p \in Relays, Exit(p)
       PROVE  faults' = faults /\ Owes(e)' /\ Stopping' = Stopping \ {p}
  BY <1>0, <1>11, <1>12, ExitedOwes DEF Exit
<1>13. ASSUME NEW p \in Relays, Crash(p)
       PROVE  faults' = faults + 1 /\ Owes(e + 1)' /\ Stopping' = Stopping \ {p}
  <2>1. Ending(p)
    BY <1>13 DEF Crash, Exited, Ending
  <2> QED
    BY <1>0, <1>11, <1>13, <2>1, EndingOwes DEF Crash, Fault
<1>14. ASSUME NEW p \in Relays, Boot(p)
       PROVE  faults' = faults /\ Owes(e)' /\ Stopping' = Stopping
  <2>1. Resuming(p) /\ faults' = faults
    BY <1>14 DEF Boot, Restart, Resuming
  <2>2. Owes(e)'
    BY <1>0, <2>1, WorkOwes
  <2>3. /\ phase[p] = "exited" /\ phase' = [phase EXCEPT ![p] = "serving"]
        /\ pc' = [pc EXCEPT ![p] = "idle"]
    BY <1>14 DEF Boot, Restart, Advance
  <2>4. Stopping' = Stopping
    BY <1>0, <2>3 DEF Stopping, PodTyped, TypeOK
  <2> QED
    BY <2>1, <2>2, <2>4
<1>15. ASSUME NEW p \in Relays, Work(p) \/ Stop(p)
       PROVE  \/ faults' = faults /\ Owes(e)'
                 /\ (Stopping' = Stopping \/ Stopping' = Stopping \ {p})
              \/ faults' = faults /\ Owes(e + 1)' /\ p \in Stopping /\ Stopping' = Stopping \ {p}
  BY <1>4, <1>6, <1>8, <1>9, <1>12, <1>14, <1>15 DEF Work, Stop
<1> QED
  BY <1>3, <1>4, <1>7, <1>9, <1>10, <1>13, <1>15 DEF ServeNext

\* StopDebtInv is inductive.
LEMMA StopDebtStep ==
    ASSUME StopDebtInv, [ServeNext]_<<vars, process>>
    PROVE  StopDebtInv'
<1>0. /\ FaithInv /\ TypeOK /\ StopInv /\ IdleUnlocked /\ PassesApart /\ faults \in Nat
      /\ \A r \in Relays : pc[r] = "mark" => batch[r] # {}
  BY RelayAssumption DEF StopDebtInv, StopInv, FaithInv, MarkedSent, TypeOK
<1>1. FaithInv' /\ StopInv' /\ PassesApart' /\ TypeOK'
  BY <1>0, ServeIsOutboxStep, FaithStep, StopStep, PassesApartStep DEF FaithInv
<1>2. ASSUME NEW e \in Nat, NEW s \in Nat, s = Cardinality(Stopping), e = faults - s
      PROVE  /\ IsFiniteSet(Stopping)' /\ Cardinality(Stopping)' <= faults'
             /\ Owes(faults - Cardinality(Stopping))'
  <2>0. IsFiniteSet(Stopping) /\ Owes(e) /\ faults = e + s
    BY <1>0, <1>2 DEF StopDebtInv
  <2>1. ASSUME NEW t \in Nat, t = Cardinality(Stopping'), NEW d \in Nat,
               d <= faults' - t, t <= faults', faults' \in Nat, Owes(d)'
        PROVE  Owes(faults - Cardinality(Stopping))'
    <3>1. faults' - t \in Nat
      BY <2>1
    <3>2. ASSUME NEW f \in Nat, f = faults' - t
          PROVE  Owes(f)'
      <4>1. d <= f
        BY <2>1, <3>2
      <4>2. d * BatchSize \in Nat /\ f * BatchSize \in Nat /\ d * BatchSize <= f * BatchSize
        <5>1. BatchSize \in Nat
          BY RelayAssumption
        <5> QED
          BY <4>1, <5>1
      <4>3. ASSUME NEW k \in Keys
            PROVE  Len(topic'[k]) <= Cardinality(Paid(k)') + f * BatchSize
        <5>1. Len(topic'[k]) \in Nat /\ Cardinality(Paid(k)') \in Nat
          BY <1>1, PaidFinite DEF TypeOK
        <5>2. Len(topic'[k]) <= Cardinality(Paid(k)') + d * BatchSize
          BY <2>1 DEF Owes
        <5> QED
          BY <4>2, <5>1, <5>2
      <4> QED
        BY <4>3 DEF Owes
    <3> QED
      BY <2>1, <3>1, <3>2 DEF Owes
  <2>2. ASSUME faults' = faults, Owes(e)', Stopping' = Stopping
        PROVE  /\ IsFiniteSet(Stopping') /\ Cardinality(Stopping') <= faults'
               /\ Owes(faults - Cardinality(Stopping))'
    BY <1>0, <1>2, <2>0, <2>1, <2>2
  <2>3. ASSUME faults' = faults, Owes(e)', NEW p \in Relays, Stopping' = Stopping \ {p}
        PROVE  /\ IsFiniteSet(Stopping') /\ Cardinality(Stopping') <= faults'
               /\ Owes(faults - Cardinality(Stopping))'
    <3>1. /\ IsFiniteSet(Stopping') /\ Cardinality(Stopping') \in Nat
          /\ Cardinality(Stopping') <= s
      BY <1>2, <2>0, <2>3, StoppingCounts
    <3>2. Cardinality(Stopping') <= faults' /\ e <= faults' - Cardinality(Stopping')
      BY <1>0, <2>0, <2>3, <3>1
    <3> QED
      BY <1>0, <2>1, <2>3, <3>1, <3>2
  <2>4. ASSUME faults' = faults + 1, Owes(e)', NEW p \in Relays,
               Stopping' = Stopping \/ Stopping' = Stopping \cup {p}
        PROVE  /\ IsFiniteSet(Stopping') /\ Cardinality(Stopping') <= faults'
               /\ Owes(faults - Cardinality(Stopping))'
    <3>1. /\ IsFiniteSet(Stopping') /\ Cardinality(Stopping') \in Nat
          /\ Cardinality(Stopping') <= s + 1
      BY <1>2, <2>0, <2>4, StoppingCounts
    <3>2. Cardinality(Stopping') <= faults' /\ e <= faults' - Cardinality(Stopping')
      BY <1>0, <2>0, <2>4, <3>1
    <3> QED
      BY <1>0, <2>1, <2>4, <3>1, <3>2
  <2>5. ASSUME faults' = faults + 1, Owes(e + 1)', NEW p \in Relays,
               Stopping' = Stopping \/ Stopping' = Stopping \ {p}
        PROVE  /\ IsFiniteSet(Stopping') /\ Cardinality(Stopping') <= faults'
               /\ Owes(faults - Cardinality(Stopping))'
    <3>1. /\ IsFiniteSet(Stopping') /\ Cardinality(Stopping') \in Nat
          /\ Cardinality(Stopping') <= s
      BY <1>2, <2>0, <2>5, StoppingCounts
    <3>2. Cardinality(Stopping') <= faults' /\ e + 1 <= faults' - Cardinality(Stopping')
      BY <1>0, <2>0, <2>5, <3>1
    <3> QED
      BY <1>0, <2>1, <2>5, <3>1, <3>2
  <2>6. ASSUME faults' = faults, Owes(e + 1)', NEW p \in Stopping, Stopping' = Stopping \ {p}
        PROVE  /\ IsFiniteSet(Stopping') /\ Cardinality(Stopping') <= faults'
               /\ Owes(faults - Cardinality(Stopping))'
    <3>0. p \in Relays
      BY DEF Stopping
    <3>1. /\ IsFiniteSet(Stopping') /\ Cardinality(Stopping') \in Nat
          /\ Cardinality(Stopping') = s - 1
      BY <1>2, <2>0, <2>6, <3>0, StoppingCounts
    <3>2. Cardinality(Stopping') <= faults' /\ e + 1 <= faults' - Cardinality(Stopping')
      BY <1>0, <2>0, <2>6, <3>1
    <3> QED
      BY <1>0, <2>1, <2>6, <3>1, <3>2
  <2>7. \/ /\ faults' = faults /\ Owes(e)'
           /\ Stopping' = Stopping \/ \E p \in Relays : Stopping' = Stopping \ {p}
        \/ /\ faults' = faults + 1 /\ Owes(e)'
           /\ \E p \in Relays : Stopping' = Stopping \/ Stopping' = Stopping \cup {p}
        \/ /\ faults' = faults + 1 /\ Owes(e + 1)'
           /\ \E p \in Relays : Stopping' = Stopping \/ Stopping' = Stopping \ {p}
        \/ /\ faults' = faults /\ Owes(e + 1)'
           /\ \E p \in Stopping : Stopping' = Stopping \ {p}
    BY <1>1, <2>0, StepCosts
  <2> QED
    BY <2>2, <2>3, <2>4, <2>5, <2>6, <2>7
<1>3. Cardinality(Stopping) \in Nat /\ faults - Cardinality(Stopping) \in Nat
  <2>1. Cardinality(Stopping) \in Nat
    BY FS_CardinalityType DEF StopDebtInv
  <2> QED
    BY <1>0, <2>1 DEF StopDebtInv
<1> QED
  BY <1>1, <1>2, <1>3 DEF StopDebtInv

\* A stop republishes at most a batch, whether it is graceful, an error's or a
\* crash, and however many pods run: the cancelled relay's pass is the batch the
\* signal or the error has paid for.
THEOREM RepublishedThroughStops == ServeSpec => []RepublishBounded
<1>1. ServeInit => StopDebtInv
  <2>1. ASSUME ServeInit
        PROVE  StopDebtInv
    <3>1. /\ FaithInv /\ TypeOK /\ IdleUnlocked /\ PassesApart /\ Owes(0) /\ faults = 0
      BY <2>1, ResendInit DEF ServeInit, Init, FaithInv
    <3>2. StopInv
      BY <2>1, <3>1 DEF ServeInit, StopInv, PodTyped, Phases, Stopped
    <3>3. Stopping = {}
      BY <2>1 DEF ServeInit, Stopping
    <3>4. IsFiniteSet(Stopping) /\ Cardinality(Stopping) = 0
      BY <3>3, FS_EmptySet
    <3>5. faults - Cardinality(Stopping) = 0
      BY <3>1, <3>4
    <3> QED
      BY <3>1, <3>2, <3>4, <3>5 DEF StopDebtInv
  <2> QED
    BY <2>1
<1>2. StopDebtInv /\ [ServeNext]_<<vars, process>> => StopDebtInv'
  BY StopDebtStep
<1>3. StopDebtInv => RepublishBounded
  <2>1. ASSUME StopDebtInv
        PROVE  RepublishBounded
    <3>1. faults \in Nat /\ Cardinality(Stopping) \in Nat
      BY <2>1, RelayAssumption, FS_CardinalityType DEF StopDebtInv, FaithInv, TypeOK
    <3>2. faults - Cardinality(Stopping) \in Nat /\ faults - Cardinality(Stopping) <= faults
      BY <2>1, <3>1 DEF StopDebtInv
    <3>3. FaithInv /\ Owes(faults - Cardinality(Stopping))
      BY <2>1 DEF StopDebtInv
    <3> QED
      BY <3>2, <3>3, OwesBounds
  <2> QED
    BY <2>1
<1> QED
  BY <1>1, <1>2, <1>3, PTL DEF ServeSpec

-----------------------------------------------------------------------------
(***************************************************************************)
(* Every open handler keeps its transaction.                               *)
(***************************************************************************)

Owned(p) == requests[p] \cup message[p]

\* A handler's transaction is open, and nobody else's.
RowsApart ==
    /\ \A p \in Relays : Owned(p) \subseteq open /\ requests[p] \cap message[p] = {}
    /\ \A p, q \in Relays : p # q => Owned(p) \cap Owned(q) = {}

OwnInv ==
    /\ FaithInv
    /\ StopInv
    /\ RowsApart
    /\ due \in [Relays -> SUBSET visible]

\* A new row belongs to the handler that inserted it alone.
LEMMA InsertKeepsRows ==
    ASSUME OwnInv, NEW p \in Relays, AcceptRequest(p) \/ FetchMessage(p)
    PROVE  RowsApart'
<1>0. TypeOK /\ PodTyped /\ RowsApart /\ IdsDrawn
  BY DEF OwnInv, FaithInv, StopInv
<1> DEFINE new == lastId + 1
<1>1. /\ lastId' = new /\ open' = open \cup {new}
      /\ new \notin open
  <2>1. lastId' = new /\ open' = open \cup {new}
    BY DEF AcceptRequest, FetchMessage, InsertRow
  <2>2. lastId \in Nat /\ open \subseteq 1 .. lastId
    BY <1>0, RelayAssumption DEF TypeOK, IdsDrawn
  <2> QED
    BY <2>1, <2>2
<1> HIDE DEF new
<1>2. \/ requests' = [requests EXCEPT ![p] = @ \cup {new}] /\ message' = message
      \/ requests' = requests /\ message' = [message EXCEPT ![p] = {new}] /\ message[p] = {}
  BY <1>1 DEF AcceptRequest, FetchMessage
<1>3. ASSUME NEW q \in Relays, q # p
      PROVE  requests'[q] = requests[q] /\ message'[q] = message[q]
  BY <1>0, <1>2, <1>3 DEF PodTyped
<1>4. Owned(p)' = Owned(p) \cup {new} /\ requests'[p] \cap message'[p] = {}
  <2>1. new \notin requests[p] /\ new \notin message[p] /\ requests[p] \cap message[p] = {}
    BY <1>0, <1>1 DEF RowsApart, Owned
  <2>2. \/ requests'[p] = requests[p] \cup {new} /\ message'[p] = message[p]
        \/ requests'[p] = requests[p] /\ message'[p] = {new} /\ message[p] = {}
    BY <1>0, <1>2 DEF PodTyped
  <2> QED
    BY <2>1, <2>2 DEF Owned
<1>5. \A q \in Relays : q # p => Owned(q)' = Owned(q)
  BY <1>3 DEF Owned
<1>6. \A q \in Relays : new \notin Owned(q)
  BY <1>0, <1>1 DEF RowsApart
<1>7. ASSUME NEW q \in Relays
      PROVE  Owned(q)' \subseteq open' /\ requests'[q] \cap message'[q] = {}
  BY <1>0, <1>1, <1>3, <1>4, <1>5 DEF RowsApart
<1>8. ASSUME NEW q \in Relays, NEW h \in Relays, q # h
      PROVE  Owned(q)' \cap Owned(h)' = {}
  BY <1>0, <1>4, <1>5, <1>6, <1>8 DEF RowsApart
<1> QED
  BY <1>7, <1>8 DEF RowsApart

\* A transaction that ends is its handler's, and the handler lets go of it.
LEMMA FinishKeepsRows ==
    ASSUME OwnInv, NEW p \in Relays, NEW i \in Ids, FinishRequest(p, i) \/ FinishMessage(p, i)
    PROVE  RowsApart'
<1>0. TypeOK /\ PodTyped /\ RowsApart
  BY DEF OwnInv, FaithInv, StopInv
<1>1. open' = open \ {i} /\ i \in Owned(p)
  BY DEF FinishRequest, FinishMessage, CommitRow, AbortRow, Owned
<1>2. \/ /\ requests' = [requests EXCEPT ![p] = @ \ {i}] /\ message' = message
         /\ i \in requests[p]
      \/ requests' = requests /\ message' = [message EXCEPT ![p] = {}] /\ i \in message[p]
  BY DEF FinishRequest, FinishMessage
<1>3. /\ requests'[p] \subseteq requests[p] /\ message'[p] \subseteq message[p]
      /\ i \notin requests'[p] /\ i \notin message'[p]
  <2>1. requests[p] \cap message[p] = {}
    BY <1>0 DEF RowsApart
  <2>2. \/ requests'[p] = requests[p] \ {i} /\ message'[p] = message[p] /\ i \in requests[p]
        \/ requests'[p] = requests[p] /\ message'[p] = {} /\ i \in message[p]
    BY <1>0, <1>2 DEF PodTyped
  <2> QED
    BY <2>1, <2>2
<1>4. ASSUME NEW q \in Relays, q # p
      PROVE  requests'[q] = requests[q] /\ message'[q] = message[q] /\ i \notin Owned(q)
  <2>1. requests'[q] = requests[q] /\ message'[q] = message[q]
    BY <1>0, <1>2, <1>4 DEF PodTyped
  <2>2. i \notin Owned(q)
    BY <1>0, <1>1, <1>4 DEF RowsApart
  <2> QED
    BY <2>1, <2>2
<1>5. ASSUME NEW q \in Relays
      PROVE  /\ requests'[q] \subseteq requests[q] /\ message'[q] \subseteq message[q]
             /\ i \notin requests'[q] /\ i \notin message'[q]
  BY <1>3, <1>4 DEF Owned
<1> QED
  BY <1>0, <1>1, <1>5 DEF RowsApart, Owned

\* A pod that is gone takes its own transactions with it and no other's.
LEMMA ExitedKeepsRows ==
    ASSUME OwnInv, NEW p \in Relays, Exited(p)
    PROVE  RowsApart'
<1>0. PodTyped /\ RowsApart
  BY DEF OwnInv, StopInv
<1>1. /\ open' = open \ Owned(p)
      /\ requests' = [requests EXCEPT ![p] = {}] /\ message' = [message EXCEPT ![p] = {}]
  BY DEF Exited, Owned
<1>2. Owned(p)' = {} /\ requests'[p] = {}
  BY <1>0, <1>1 DEF PodTyped, Owned
<1>3. ASSUME NEW q \in Relays, q # p
      PROVE  requests'[q] = requests[q] /\ message'[q] = message[q] /\ Owned(q)' = Owned(q)
  BY <1>0, <1>1, <1>3 DEF PodTyped, Owned
<1>4. ASSUME NEW q \in Relays
      PROVE  Owned(q)' \subseteq open' /\ requests'[q] \cap message'[q] = {}
  <2>1. CASE q = p
    BY <1>2, <2>1
  <2>2. CASE q # p
    BY <1>0, <1>1, <1>3, <2>2 DEF RowsApart
  <2> QED
    BY <2>1, <2>2
<1>5. ASSUME NEW q \in Relays, NEW h \in Relays, q # h
      PROVE  Owned(q)' \cap Owned(h)' = {}
  BY <1>0, <1>2, <1>3, <1>5 DEF RowsApart
<1> QED
  BY <1>4, <1>5 DEF RowsApart

\* OwnInv is inductive.
LEMMA OwnStep ==
    ASSUME OwnInv, [ServeNext]_<<vars, process>>
    PROVE  OwnInv'
<1>0. /\ FaithInv /\ TypeOK /\ StopInv /\ PodTyped /\ RowsApart
      /\ due \in [Relays -> SUBSET visible]
      /\ \A r \in Relays : pc[r] = "mark" => batch[r] # {}
  BY DEF OwnInv, StopInv, FaithInv, MarkedSent
<1>1. FaithInv' /\ StopInv' /\ visible \subseteq visible'
  <2>1. OutboxStep
    BY <1>0, ServeIsOutboxStep
  <2> QED
    BY <1>0, <2>1, FaithStep, StopStep, IdsDrawnStep DEF FaithInv
<1>2. ASSUME due' = due
      PROVE  due' \in [Relays -> SUBSET visible']
  BY <1>0, <1>1, <1>2
<1>3. ASSUME UNCHANGED <<open, requests, message>>
      PROVE  RowsApart'
  BY <1>0, <1>3 DEF RowsApart, Owned
<1>4. CASE Rest \/ UNCHANGED <<vars, process>>
  <2>1. UNCHANGED <<open, requests, message, due>>
    BY <1>4 DEF Rest, Sleep, vars, writers, process
  <2> QED
    BY <1>1, <1>2, <1>3, <2>1 DEF OwnInv
<1>5. ASSUME NEW p \in Relays, AcceptRequest(p) \/ FetchMessage(p)
      PROVE  OwnInv'
  <2>1. due' = due
    BY <1>5 DEF AcceptRequest, FetchMessage
  <2> QED
    BY <1>1, <1>2, <1>5, <2>1, InsertKeepsRows DEF OwnInv
<1>6. ASSUME NEW p \in Relays, NEW i \in Ids, FinishRequest(p, i) \/ FinishMessage(p, i)
      PROVE  OwnInv'
  <2>1. due' = due
    BY <1>6 DEF FinishRequest, FinishMessage
  <2> QED
    BY <1>1, <1>2, <1>6, <2>1, FinishKeepsRows DEF OwnInv
<1>7. ASSUME NEW p \in Relays, RunRelay(p) \/ RelayFails(p) \/ RelayReturns(p)
      PROVE  OwnInv'
  <2>1. UNCHANGED process
    BY <1>7 DEF RunRelay, RelayFails, RelayReturns
  <2>2. open' = open
    BY <1>7 DEF RunRelay, Claim, Send, MarkPublished, CommitPass, RelayFails, SendFails,
                SendRepeated, PassFails, RelayReturns, writers
  <2>3. UNCHANGED <<open, requests, message, due>>
    BY <2>1, <2>2 DEF process
  <2> QED
    BY <1>1, <1>2, <1>3, <2>3 DEF OwnInv
<1>8. ASSUME NEW p \in Relays,
             \/ CloseListener(p) \/ StopRelay(p) \/ StopConsumer(p) \/ ConsumerReturns(p)
             \/ Return(p) \/ DeadlinePasses(p) \/ ComponentFails(p)
      PROVE  OwnInv'
  <2>1. UNCHANGED <<open, requests, message, due>>
    BY <1>8 DEF CloseListener, StopRelay, StopConsumer, ConsumerReturns, Return,
                DeadlinePasses, ComponentFails, vars, writers
  <2> QED
    BY <1>1, <1>2, <1>3, <2>1 DEF OwnInv
<1>9. ASSUME NEW p \in Relays, Signal(p)
      PROVE  OwnInv'
  <2>1. /\ UNCHANGED <<open, visible, requests, message>>
        /\ due' = [due EXCEPT ![p] = visible]
    BY <1>9 DEF Signal, writers
  <2>2. due' \in [Relays -> SUBSET visible']
    BY <1>0, <2>1
  <2> QED
    BY <1>1, <1>3, <2>1, <2>2 DEF OwnInv
<1>10. ASSUME NEW p \in Relays, Exit(p) \/ Crash(p)
       PROVE  OwnInv'
  <2>1. Exited(p) /\ due' = due
    BY <1>10 DEF Exit, Crash, Exited
  <2> QED
    BY <1>1, <1>2, <2>1, ExitedKeepsRows DEF OwnInv
<1>11. ASSUME NEW p \in Relays, Boot(p)
       PROVE  OwnInv'
  <2>1. /\ UNCHANGED <<open, visible, requests, message>>
        /\ due' = [due EXCEPT ![p] = {}]
    BY <1>11 DEF Boot, Restart, writers
  <2>2. due' \in [Relays -> SUBSET visible']
    BY <1>0, <2>1
  <2> QED
    BY <1>1, <1>3, <2>1, <2>2 DEF OwnInv
<1> QED
  BY <1>4, <1>5, <1>6, <1>7, <1>8, <1>9, <1>10, <1>11 DEF ServeNext, Work, Stop

\* The types of the process: every request being served and every message in
\* hand has a transaction that is still open, whichever pods stop or crash, so
\* no handler's row is ever ended by another's commit or exit.
THEOREM ServeTypeCorrect == ServeSpec => []ServeTypeOK
<1>1. ServeInit => OwnInv
  <2>1. ASSUME ServeInit
        PROVE  OwnInv
    <3>1. FaithInv /\ TypeOK /\ IdleUnlocked
      BY <2>1, OrderInit DEF ServeInit, OrderInv, FaithInv
    <3>2. StopInv
      BY <2>1, <3>1 DEF ServeInit, StopInv, PodTyped, Phases, Stopped
    <3>3. RowsApart /\ due \in [Relays -> SUBSET visible]
      BY <2>1 DEF ServeInit, RowsApart, Owned
    <3> QED
      BY <3>1, <3>2, <3>3 DEF OwnInv
  <2> QED
    BY <2>1
<1>2. OwnInv /\ [ServeNext]_<<vars, process>> => OwnInv'
  BY OwnStep
<1>3. OwnInv => ServeTypeOK
  BY DEF OwnInv, StopInv, PodTyped, RowsApart, Owned, ServeTypeOK
<1> QED
  BY <1>1, <1>2, <1>3, PTL DEF ServeSpec

=============================================================================

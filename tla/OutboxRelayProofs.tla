-------------------------- MODULE OutboxRelayProofs --------------------------
(***************************************************************************)
(* Proofs about OutboxRelay: the outbox loses and invents no event, and    *)
(* one relay keeps the order of a key.  They are about steps of a shape    *)
(* (OutboxStep), so that they serve every module that composes the relay.  *)
(***************************************************************************)
EXTENDS OutboxRelay, FiniteSetTheorems, WellFoundedInduction, TLAPS

\* The oldest row of a batch exists.
LEMMA OldestExists ==
    ASSUME NEW S \in SUBSET Ids, S # {}
    PROVE  Oldest(S) \in S /\ \A j \in S : Oldest(S) <= j
<1>1. S \subseteq Nat
  BY RelayAssumption DEF Ids
<1>2. PICK i \in S : \A j \in S : ~(<<j, i>> \in OpToRel(<, Nat))
  BY <1>1, NatLessThanWellFounded, WFMin, Zenon
<1>3. ASSUME NEW j \in S
      PROVE  ~(j < i)
  <2>1. <<j, i>> \in Nat \X Nat /\ <<j, i>>[1] = j /\ <<j, i>>[2] = i
    BY <1>1
  <2>2. j < i => <<j, i>> \in OpToRel(<, Nat)
    BY <2>1 DEF OpToRel
  <2> QED
    BY <1>2, <2>2
<1>4. \A j \in S : i <= j
  BY <1>1, <1>3
<1> QED
  BY <1>4 DEF Oldest

\* What a Send adds to the topic: n copies at the end of the row's partition.
LEMMA DeliveredAtEnd ==
    ASSUME TypeOK, NEW i \in Ids, NEW n \in 0 .. 2, topic' = Delivered(i, n)
    PROVE  /\ topic' \in [Keys -> Seq(Ids)]
           /\ \A k \in Keys : KeyOf[i] # k => topic'[k] = topic[k]
           /\ Len(topic'[KeyOf[i]]) = Len(topic[KeyOf[i]]) + n
           /\ \A m \in 1 .. Len(topic[KeyOf[i]]) :
                 topic'[KeyOf[i]][m] = topic[KeyOf[i]][m]
           /\ \A m \in Len(topic[KeyOf[i]]) + 1 .. Len(topic[KeyOf[i]]) + n :
                 topic'[KeyOf[i]][m] = i
<1> DEFINE more == [k \in 1 .. n |-> i]
           old  == topic[KeyOf[i]]
<1>1. KeyOf[i] \in Keys /\ topic \in [Keys -> Seq(Ids)] /\ old \in Seq(Ids)
  BY RelayAssumption DEF TypeOK
<1>2. more \in Seq(Ids) /\ Len(more) = n
  OBVIOUS
<1>3. topic' = [topic EXCEPT ![KeyOf[i]] = old \o more]
  BY <1>1 DEF Delivered
<1>4. old \o more \in Seq(Ids) /\ Len(old \o more) = Len(old) + n
  BY <1>1, <1>2
<1>5. \A m \in 1 .. Len(old) : (old \o more)[m] = old[m]
  BY <1>1, <1>2
<1>6. \A m \in Len(old) + 1 .. Len(old) + n : (old \o more)[m] = i
  BY <1>1, <1>2
<1> HIDE DEF more, old
<1> QED
  BY <1>1, <1>3, <1>4, <1>5, <1>6 DEF old

-----------------------------------------------------------------------------
(***************************************************************************)
(* The shapes a step can have, whoever takes it.                           *)
(***************************************************************************)

\* Transactions of writers are aborted, or nothing happens.
Aborting ==
    /\ open' \subseteq open
    /\ UNCHANGED <<lastId, visible, before, published, topic, relay>>

\* A row reaches Kafka, once or twice, and is to be marked.
Sending(r) ==
    /\ pc[r] = "send"
    /\ batch[r] # {}
    /\ \E n \in 1 .. 2 : topic' = Delivered(NextRow(r), n)
    /\ pc' = [pc EXCEPT ![r] = "mark"]
    /\ UNCHANGED <<writers, published, batch, marked>>

\* A pass ends, with or without its marks, perhaps amid a Send.
Ending(r) ==
    /\ \/ topic' = topic
       \/ /\ pc[r] = "send" /\ batch[r] # {}
          /\ \E n \in 0 .. 1 : topic' = Delivered(NextRow(r), n)
    /\ published' \in {published, published \cup marked[r]}
    /\ \E to \in {"idle", "down"} : EndPass(r, to)
    /\ open' \subseteq open
    /\ UNCHANGED <<lastId, visible, before>>

Resuming(r) ==
    /\ pc[r] = "down"
    /\ pc' = [pc EXCEPT ![r] = "idle"]
    /\ UNCHANGED <<writers, published, topic, batch, marked>>

OutboxStep ==
    /\ faults' \in 0 .. MaxFaults
    /\ \/ InsertRow
       \/ \E i \in open : CommitRow(i)
       \/ Aborting
       \/ \E r \in Relays : \/ Claim(r) \/ Sending(r) \/ MarkPublished(r)
                           \/ Ending(r) \/ Resuming(r)

\* Every step of OutboxRelay has one of the shapes.
LEMMA NextIsOutboxStep ==
    ASSUME TypeOK, [Next]_vars
    PROVE  OutboxStep
<1>f. faults \in 0 .. MaxFaults /\ (Fault => faults' \in 0 .. MaxFaults)
  BY RelayAssumption DEF TypeOK, Fault
<1>1. ASSUME NEW r \in Relays, Pass(r)
      PROVE  OutboxStep
  <2>1. CASE Claim(r)
    BY <1>f, <2>1 DEF OutboxStep, Claim
  <2>2. CASE Send(r)
    <3>1. Sending(r)
      BY <2>2 DEF Send, Sending
    <3> QED
      BY <1>f, <2>2, <3>1 DEF OutboxStep, Send
  <2>3. CASE MarkPublished(r)
    BY <1>f, <2>3 DEF OutboxStep, MarkPublished
  <2>4. CASE CommitPass(r)
    <3>1. Ending(r)
      BY <2>4 DEF CommitPass, Ending, writers
    <3> QED
      BY <1>f, <2>4, <3>1 DEF OutboxStep, CommitPass
  <2>5. CASE Restart(r)
    <3>1. Resuming(r)
      BY <2>5 DEF Restart, Resuming
    <3> QED
      BY <1>f, <2>5, <3>1 DEF OutboxStep, Restart
  <2> QED
    BY <1>1, <2>1, <2>2, <2>3, <2>4, <2>5 DEF Pass
<1>2. ASSUME NEW r \in Relays, Failure(r)
      PROVE  OutboxStep
  <2>0. faults' \in 0 .. MaxFaults
    BY <1>f, <1>2 DEF Failure, SendFails, SendRepeated, PassFails
  <2>1. CASE SendFails(r)
    <3>1. Ending(r)
      BY <2>1 DEF SendFails, Ending, writers
    <3> QED
      BY <2>0, <3>1 DEF OutboxStep
  <2>2. CASE SendRepeated(r)
    <3>1. Sending(r)
      BY <2>2 DEF SendRepeated, Sending
    <3> QED
      BY <2>0, <3>1 DEF OutboxStep
  <2>3. CASE PassFails(r)
    <3>1. Ending(r)
      BY <2>3 DEF PassFails, Ending, writers
    <3> QED
      BY <2>0, <3>1 DEF OutboxStep
  <2> QED
    BY <1>2, <2>1, <2>2, <2>3 DEF Failure
<1>3. CASE Write
  <2>1. CASE InsertRow
    BY <1>f, <2>1 DEF OutboxStep, InsertRow
  <2>2. ASSUME NEW i \in open, CommitRow(i)
        PROVE  OutboxStep
    BY <1>f, <2>2 DEF OutboxStep, CommitRow
  <2>3. ASSUME NEW i \in open, AbortRow(i)
        PROVE  OutboxStep
    <3>1. Aborting
      BY <2>3 DEF AbortRow, Aborting
    <3> QED
      BY <1>f, <2>3, <3>1 DEF OutboxStep, AbortRow
  <2> QED
    BY <1>3, <2>1, <2>2, <2>3 DEF Write
<1>4. CASE Sleep \/ UNCHANGED vars
  <2>1. UNCHANGED vars
    BY <1>4 DEF Sleep
  <2>2. Aborting
    BY <2>1 DEF Aborting, vars, writers
  <2> QED
    BY <1>f, <2>1, <2>2 DEF OutboxStep, vars
<1> QED
  BY <1>1, <1>2, <1>3, <1>4 DEF Next

-----------------------------------------------------------------------------
(***************************************************************************)
(* Type correctness.                                                       *)
(***************************************************************************)

\* The next row of a batch is a row of it.
LEMMA NextRowInBatch ==
    ASSUME TypeOK, NEW r \in Relays, batch[r] # {}
    PROVE  /\ NextRow(r) \in batch[r] /\ NextRow(r) \in Ids
           /\ \A j \in batch[r] : NextRow(r) <= j
<1>1. batch[r] \in SUBSET Ids
  BY DEF TypeOK
<1> QED
  BY <1>1, OldestExists DEF NextRow

\* The end of a pass adds nothing to the topic, or copies of its next row.
LEMMA EndingTopic ==
    ASSUME TypeOK, NEW r \in Relays, Ending(r)
    PROVE  \/ topic' = topic
           \/ batch[r] # {} /\ \E n \in 0 .. 2 : topic' = Delivered(NextRow(r), n)
BY DEF Ending

\* A step of any shape keeps the types.  A pass that is to mark a row has one.
LEMMA TypeStep ==
    ASSUME TypeOK, OutboxStep, \A r \in Relays : pc[r] = "mark" => batch[r] # {}
    PROVE  TypeOK'
<1>0. faults' \in 0 .. MaxFaults /\ MaxRows \in Nat
  BY RelayAssumption DEF OutboxStep
<1>1. CASE InsertRow
  <2>1. lastId + 1 \in Ids /\ lastId + 1 \in 0 .. MaxRows
    BY <1>0, <1>1 DEF InsertRow, Ids, TypeOK
  <2> QED
    BY <1>0, <1>1, <2>1 DEF InsertRow, TypeOK, relay
<1>2. ASSUME NEW i \in open, CommitRow(i)
      PROVE  TypeOK'
  <2>1. {j \in visible : KeyOf[j] = KeyOf[i] /\ j < i} \in SUBSET Ids
    BY DEF TypeOK
  <2>2. before' \in [Ids -> SUBSET Ids]
    BY <1>2, <2>1 DEF CommitRow, TypeOK
  <2> QED
    BY <1>0, <1>2, <2>2 DEF CommitRow, TypeOK, relay
<1>3. CASE Aborting
  BY <1>0, <1>3 DEF Aborting, TypeOK, relay
<1>4. ASSUME NEW r \in Relays, Claim(r)
      PROVE  TypeOK'
  <2>1. {i \in Free : Cardinality({j \in Free : j < i}) < BatchSize} \in SUBSET Ids
    BY DEF Free, TypeOK
  <2>2. batch' \in [Relays -> SUBSET Ids] /\ pc' \in [Relays -> PcValues]
    BY <1>4, <2>1 DEF Claim, TypeOK, PcValues
  <2> QED
    BY <1>0, <1>4, <2>2 DEF Claim, TypeOK, writers
<1>5. ASSUME NEW r \in Relays, Sending(r)
      PROVE  TypeOK'
  <2>1. PICK n \in 1 .. 2 : topic' = Delivered(NextRow(r), n)
    BY <1>5 DEF Sending
  <2>2. topic' \in [Keys -> Seq(Ids)]
    BY <1>5, <2>1, NextRowInBatch, DeliveredAtEnd DEF Sending
  <2> QED
    BY <1>0, <1>5, <2>2 DEF Sending, TypeOK, writers, PcValues
<1>6. ASSUME NEW r \in Relays, MarkPublished(r)
      PROVE  TypeOK'
  <2>0. batch[r] \in SUBSET Ids /\ marked[r] \in SUBSET Ids
    BY DEF TypeOK
  <2>1. batch[r] \ {NextRow(r)} \in SUBSET Ids
    BY <2>0
  <2>2. marked[r] \cup {NextRow(r)} \in SUBSET Ids
    BY <1>6, <2>0, NextRowInBatch DEF MarkPublished
  <2> QED
    BY <1>0, <1>6, <2>1, <2>2 DEF MarkPublished, TypeOK, writers, PcValues
<1>7. ASSUME NEW r \in Relays, Ending(r)
      PROVE  TypeOK'
  <2>1. topic' \in [Keys -> Seq(Ids)]
    <3>1. CASE topic' = topic
      BY <3>1 DEF TypeOK
    <3>2. ASSUME batch[r] # {}, NEW n \in 0 .. 2, topic' = Delivered(NextRow(r), n)
          PROVE  topic' \in [Keys -> Seq(Ids)]
      BY <3>2, NextRowInBatch, DeliveredAtEnd
    <3> QED
      BY <1>7, <3>1, <3>2, EndingTopic
  <2>2. published' \subseteq Ids
    BY <1>7 DEF Ending, TypeOK
  <2> QED
    BY <1>0, <1>7, <2>1, <2>2 DEF Ending, EndPass, TypeOK, PcValues
<1>8. ASSUME NEW r \in Relays, Resuming(r)
      PROVE  TypeOK'
  BY <1>0, <1>8 DEF Resuming, TypeOK, writers, PcValues
<1> QED
  BY <1>1, <1>2, <1>3, <1>4, <1>5, <1>6, <1>7, <1>8 DEF OutboxStep

-----------------------------------------------------------------------------
(***************************************************************************)
(* No event is lost and none is invented.                                  *)
(***************************************************************************)

\* The topic only grows, by copies of a row some pass has locked.
LEMMA TopicGrows ==
    ASSUME TypeOK, OutboxStep
    PROVE  \/ topic' = topic
           \/ \E r \in Relays : \E n \in 0 .. 2 :
                 batch[r] # {} /\ topic' = Delivered(NextRow(r), n)
<1>1. ASSUME NEW r \in Relays, Sending(r)
      PROVE  batch[r] # {} /\ \E n \in 0 .. 2 : topic' = Delivered(NextRow(r), n)
  BY <1>1 DEF Sending
<1>2. ASSUME NEW r \in Relays, Ending(r)
      PROVE  \/ topic' = topic
             \/ batch[r] # {} /\ \E n \in 0 .. 2 : topic' = Delivered(NextRow(r), n)
  BY <1>2, EndingTopic
<1> QED
  BY <1>1, <1>2 DEF OutboxStep, InsertRow, CommitRow, Aborting, Claim,
                    MarkPublished, Resuming

\* A copy, once on the topic, stays where it is.
LEMMA CopiesStay ==
    ASSUME TypeOK, OutboxStep
    PROVE  \A k \in Keys : \A m \in DOMAIN topic[k] :
              m \in DOMAIN topic'[k] /\ topic'[k][m] = topic[k][m]
<1>1. ASSUME NEW r \in Relays, NEW n \in 0 .. 2, batch[r] # {},
             topic' = Delivered(NextRow(r), n),
             NEW k \in Keys, NEW m \in DOMAIN topic[k]
      PROVE  m \in DOMAIN topic'[k] /\ topic'[k][m] = topic[k][m]
  <2>1. NextRow(r) \in Ids
    BY <1>1, NextRowInBatch
  <2>2. /\ topic' \in [Keys -> Seq(Ids)]
        /\ KeyOf[NextRow(r)] # k => topic'[k] = topic[k]
        /\ KeyOf[NextRow(r)] = k =>
              /\ Len(topic'[k]) = Len(topic[k]) + n
              /\ \A j \in 1 .. Len(topic[k]) : topic'[k][j] = topic[k][j]
    BY <1>1, <2>1, DeliveredAtEnd
  <2>3. topic[k] \in Seq(Ids) /\ topic'[k] \in Seq(Ids) /\ m \in 1 .. Len(topic[k])
    BY <1>1, <2>2 DEF TypeOK
  <2> QED
    BY <2>2, <2>3
<1> QED
  BY <1>1, TopicGrows

\* A row that is on the topic stays on it.
LEMMA CopiesKept ==
    ASSUME TypeOK, OutboxStep, NEW i \in Ids, Copies(i) # {}
    PROVE  Copies(i)' # {}
<1>1. KeyOf[i] \in Keys
  BY RelayAssumption
<1> QED
  BY <1>1, CopiesStay DEF Copies

\* What the topic holds after a step it held before, or a pass has just sent it.
LEMMA TopicHolds ==
    ASSUME TypeOK, OutboxStep, NEW k \in Keys, NEW m \in DOMAIN topic'[k]
    PROVE  \/ m \in DOMAIN topic[k] /\ topic'[k][m] = topic[k][m]
           \/ \E r \in Relays :
                 /\ batch[r] # {} /\ m > Len(topic[k])
                 /\ topic'[k][m] = NextRow(r) /\ KeyOf[NextRow(r)] = k
<1>1. ASSUME NEW r \in Relays, NEW n \in 0 .. 2, batch[r] # {},
             topic' = Delivered(NextRow(r), n)
      PROVE  \/ m \in DOMAIN topic[k] /\ topic'[k][m] = topic[k][m]
             \/ /\ m > Len(topic[k])
                /\ topic'[k][m] = NextRow(r) /\ KeyOf[NextRow(r)] = k
  <2>1. NextRow(r) \in Ids
    BY <1>1, NextRowInBatch
  <2>2. /\ topic' \in [Keys -> Seq(Ids)]
        /\ KeyOf[NextRow(r)] # k => topic'[k] = topic[k]
        /\ KeyOf[NextRow(r)] = k =>
              /\ Len(topic'[k]) = Len(topic[k]) + n
              /\ \A j \in 1 .. Len(topic[k]) : topic'[k][j] = topic[k][j]
              /\ \A j \in Len(topic[k]) + 1 .. Len(topic[k]) + n :
                    topic'[k][j] = NextRow(r)
    <3> DEFINE i == NextRow(r)
    <3>2. /\ topic' \in [Keys -> Seq(Ids)]
          /\ \A q \in Keys : KeyOf[i] # q => topic'[q] = topic[q]
          /\ Len(topic'[KeyOf[i]]) = Len(topic[KeyOf[i]]) + n
          /\ \A j \in 1 .. Len(topic[KeyOf[i]]) :
                topic'[KeyOf[i]][j] = topic[KeyOf[i]][j]
          /\ \A j \in Len(topic[KeyOf[i]]) + 1 .. Len(topic[KeyOf[i]]) + n :
                topic'[KeyOf[i]][j] = i
      BY <1>1, <2>1, DeliveredAtEnd
    <3> QED
      BY <3>2
  <2>3. topic[k] \in Seq(Ids) /\ topic'[k] \in Seq(Ids) /\ m \in 1 .. Len(topic'[k])
    BY <2>2 DEF TypeOK
  <2>4. CASE KeyOf[NextRow(r)] = k
    BY <2>2, <2>3, <2>4
  <2>5. CASE KeyOf[NextRow(r)] # k
    BY <2>2, <2>3, <2>5
  <2> QED
    BY <2>4, <2>5
<1> QED
  BY <1>1, TopicGrows

\* A row that is sent is on the topic.
LEMMA SentIsThere ==
    ASSUME TypeOK, NEW i \in Ids, NEW n \in 1 .. 2, topic' = Delivered(i, n)
    PROVE  Copies(i)' # {}
<1>1. /\ topic' \in [Keys -> Seq(Ids)] /\ KeyOf[i] \in Keys
      /\ Len(topic'[KeyOf[i]]) = Len(topic[KeyOf[i]]) + n
      /\ \A m \in Len(topic[KeyOf[i]]) + 1 .. Len(topic[KeyOf[i]]) + n :
            topic'[KeyOf[i]][m] = i
  BY DeliveredAtEnd, RelayAssumption
<1>2. topic[KeyOf[i]] \in Seq(Ids) /\ topic'[KeyOf[i]] \in Seq(Ids)
  BY <1>1 DEF TypeOK
<1>3. Len(topic'[KeyOf[i]]) \in DOMAIN topic'[KeyOf[i]]
  BY <1>1, <1>2
<1>4. topic'[KeyOf[i]][Len(topic'[KeyOf[i]])] = i
  BY <1>1, <1>2
<1> QED
  BY <1>3, <1>4 DEF Copies

\* Ids are drawn once, and a row is not undone once it is committed.
LEMMA IdsDrawnStep ==
    ASSUME TypeOK, IdsDrawn, OutboxStep
    PROVE  IdsDrawn' /\ visible \subseteq visible'
<1>0. lastId \in Nat /\ open \subseteq Nat /\ visible \subseteq Nat
  BY RelayAssumption DEF TypeOK, Ids
<1>1. CASE InsertRow
  BY <1>0, <1>1 DEF InsertRow, IdsDrawn
<1>2. ASSUME NEW i \in open, CommitRow(i)
      PROVE  IdsDrawn' /\ visible \subseteq visible'
  BY <1>0, <1>2 DEF CommitRow, IdsDrawn
<1>3. CASE Aborting
  BY <1>3 DEF Aborting, IdsDrawn
<1>4. ASSUME NEW r \in Relays,
             Claim(r) \/ Sending(r) \/ MarkPublished(r) \/ Ending(r) \/ Resuming(r)
      PROVE  open' \subseteq open /\ lastId' = lastId /\ visible' = visible
  BY <1>4 DEF Claim, Sending, MarkPublished, Ending, Resuming, writers
<1> QED
  BY <1>1, <1>2, <1>3, <1>4 DEF OutboxStep, IdsDrawn

\* Only committed rows are locked, sent and marked.
LEMMA OnlyCommittedStep ==
    ASSUME FaithInv, OutboxStep
    PROVE  OnlyCommitted'
<1>0. TypeOK /\ visible \subseteq visible'
  BY IdsDrawnStep DEF FaithInv
<1>1. published' \subseteq visible /\ \A q \in Relays : Locked(q)' \subseteq visible
  <2>0. /\ published \subseteq visible
        /\ \A q \in Relays : batch[q] \subseteq visible /\ marked[q] \subseteq visible
    BY DEF FaithInv, OnlyCommitted, Locked
  <2>1. CASE InsertRow \/ Aborting \/ \E i \in open : CommitRow(i)
    BY <2>0, <2>1 DEF InsertRow, Aborting, CommitRow, relay, Locked
  <2>2. ASSUME NEW r \in Relays, Claim(r)
        PROVE  published' \subseteq visible /\ \A q \in Relays : Locked(q)' \subseteq visible
    <3>1. {i \in Free : Cardinality({j \in Free : j < i}) < BatchSize} \subseteq visible
      BY DEF Free
    <3> QED
      BY <1>0, <2>0, <2>2, <3>1 DEF Claim, Locked, TypeOK
  <2>3. ASSUME NEW r \in Relays, Sending(r) \/ Resuming(r)
        PROVE  published' \subseteq visible /\ \A q \in Relays : Locked(q)' \subseteq visible
    BY <2>0, <2>3 DEF Sending, Resuming, Locked
  <2>4. ASSUME NEW r \in Relays, MarkPublished(r)
        PROVE  published' \subseteq visible /\ \A q \in Relays : Locked(q)' \subseteq visible
    <3>1. NextRow(r) \in batch[r]
      BY <1>0, <2>4, NextRowInBatch DEF FaithInv, MarkedSent, MarkPublished
    <3> QED
      BY <1>0, <2>0, <2>4, <3>1 DEF MarkPublished, Locked, TypeOK
  <2>5. ASSUME NEW r \in Relays, Ending(r)
        PROVE  published' \subseteq visible /\ \A q \in Relays : Locked(q)' \subseteq visible
    BY <1>0, <2>0, <2>5 DEF Ending, EndPass, Locked, TypeOK
  <2> QED
    BY <2>1, <2>2, <2>3, <2>4, <2>5 DEF OutboxStep
<1>2. ASSUME NEW k \in Keys, NEW m \in DOMAIN topic'[k]
      PROVE  topic'[k][m] \in visible /\ KeyOf[topic'[k][m]] = k
  <2>1. ASSUME m \in DOMAIN topic[k], topic'[k][m] = topic[k][m]
        PROVE  topic'[k][m] \in visible /\ KeyOf[topic'[k][m]] = k
    BY <2>1 DEF FaithInv, OnlyCommitted
  <2>2. ASSUME NEW r \in Relays, batch[r] # {},
               topic'[k][m] = NextRow(r), KeyOf[NextRow(r)] = k
        PROVE  topic'[k][m] \in visible /\ KeyOf[topic'[k][m]] = k
    <3>1. NextRow(r) \in batch[r]
      BY <1>0, <2>2, NextRowInBatch
    <3> QED
      BY <2>2, <3>1 DEF FaithInv, OnlyCommitted, Locked
  <2> QED
    BY <1>0, <2>1, <2>2, TopicHolds
<1> QED
  BY <1>0, <1>1, <1>2 DEF OnlyCommitted

\* What is marked, or about to be, was sent before.
LEMMA MarkedSentStep ==
    ASSUME FaithInv, OutboxStep
    PROVE  MarkedSent'
<1>0. TypeOK /\ MarkedSent /\ \A q \in Relays : marked[q] \subseteq Ids
  BY DEF FaithInv, TypeOK
<1>1. \A i \in Ids : Copies(i) # {} => Copies(i)' # {}
  BY <1>0, CopiesKept
<1>2. \A q \in Relays : batch[q] # {} => NextRow(q) \in Ids
  BY <1>0, NextRowInBatch
<1>3. ASSUME NEW q \in Relays, pc'[q] = pc[q] \/ pc'[q] # "mark",
             marked'[q] = marked[q] \/ marked'[q] = {}, batch'[q] = batch[q] \/ pc'[q] # "mark"
      PROVE  /\ \A i \in marked'[q] : Copies(i)' # {}
             /\ pc'[q] = "mark" => batch'[q] # {} /\ Copies(NextRow(q))' # {}
  BY <1>0, <1>1, <1>2, <1>3 DEF MarkedSent, NextRow, Copies
<1>4. CASE InsertRow \/ Aborting \/ \E i \in open : CommitRow(i)
  BY <1>3, <1>4 DEF InsertRow, Aborting, CommitRow, relay, MarkedSent
<1>5. ASSUME NEW r \in Relays, Claim(r) \/ Ending(r) \/ Resuming(r)
      PROVE  MarkedSent'
  <2>1. ASSUME NEW q \in Relays
        PROVE  /\ pc'[q] = pc[q] \/ pc'[q] # "mark"
               /\ marked'[q] = marked[q] \/ marked'[q] = {}
               /\ batch'[q] = batch[q] \/ pc'[q] # "mark"
    BY <1>0, <1>5 DEF Claim, Ending, EndPass, Resuming, TypeOK
  <2> QED
    BY <1>3, <2>1 DEF MarkedSent
<1>6. ASSUME NEW r \in Relays, Sending(r)
      PROVE  MarkedSent'
  <2>1. PICK n \in 1 .. 2 : topic' = Delivered(NextRow(r), n)
    BY <1>6 DEF Sending
  <2>2. \A i \in Ids : i = NextRow(r) => Copies(i)' # {}
    BY <1>0, <2>1, SentIsThere
  <2>3. ASSUME NEW q \in Relays
        PROVE  /\ \A i \in marked'[q] : Copies(i)' # {}
               /\ pc'[q] = "mark" => batch'[q] # {} /\ Copies(NextRow(q))' # {}
    <3>1. CASE q = r
      <4>1. marked'[q] = marked[q] /\ batch'[q] = batch[q] /\ batch[q] # {}
        BY <1>6, <3>1 DEF Sending
      <4>2. NextRow(q)' = NextRow(q) /\ NextRow(q) \in Ids
        BY <1>2, <4>1 DEF NextRow
      <4>3. Copies(NextRow(q))' # {}
        BY <2>2, <3>1, <4>2 DEF Copies
      <4> QED
        BY <1>0, <1>1, <4>1, <4>3 DEF MarkedSent
    <3>2. CASE q # r
      BY <1>0, <1>3, <1>6, <3>2 DEF Sending, TypeOK
    <3> QED
      BY <3>1, <3>2
  <2> QED
    BY <2>3 DEF MarkedSent
<1>7. ASSUME NEW r \in Relays, MarkPublished(r)
      PROVE  MarkedSent'
  <2>1. Copies(NextRow(r)) # {} /\ NextRow(r) \in Ids
    BY <1>0, <1>2, <1>7 DEF MarkPublished, MarkedSent
  <2>2. ASSUME NEW q \in Relays
        PROVE  /\ \A i \in marked'[q] : Copies(i)' # {}
               /\ pc'[q] = "mark" => batch'[q] # {} /\ Copies(NextRow(q))' # {}
    <3>1. CASE q = r
      <4>1. marked'[q] = marked[q] \cup {NextRow(r)} /\ pc'[q] = "send"
        BY <1>0, <1>7, <3>1 DEF MarkPublished, TypeOK
      <4>2. \A i \in marked[q] \cup {NextRow(r)} : i \in Ids /\ Copies(i) # {}
        BY <1>0, <2>1 DEF MarkedSent
      <4>3. \A i \in marked'[q] : Copies(i)' # {}
        BY <1>1, <4>1, <4>2
      <4> QED
        BY <4>1, <4>3
    <3>2. CASE q # r
      BY <1>0, <1>3, <1>7, <3>2 DEF MarkPublished, TypeOK
    <3> QED
      BY <3>1, <3>2
  <2> QED
    BY <2>2 DEF MarkedSent
<1> QED
  BY <1>4, <1>5, <1>6, <1>7 DEF OutboxStep

\* FaithInv is inductive for a step of any shape.
LEMMA FaithStep ==
    ASSUME FaithInv, OutboxStep
    PROVE  FaithInv'
<1>0. TypeOK /\ published \subseteq Ids /\ \A q \in Relays : marked[q] \subseteq Ids
  BY DEF FaithInv, TypeOK
<1>1. TypeOK'
  BY TypeStep DEF FaithInv, MarkedSent
<1>2. IdsDrawn' /\ OnlyCommitted' /\ MarkedSent'
  BY IdsDrawnStep, OnlyCommittedStep, MarkedSentStep DEF FaithInv
<1>3. \A i \in Ids : Copies(i) # {} => Copies(i)' # {}
  BY <1>0, CopiesKept
<1>4. \A i \in published' : Copies(i)' # {}
  <2>1. \A i \in published : Copies(i)' # {}
    BY <1>0, <1>3 DEF FaithInv
  <2>2. ASSUME NEW r \in Relays, Ending(r)
        PROVE  \A i \in published' : Copies(i)' # {}
    <3>1. \A i \in marked[r] : Copies(i)' # {}
      BY <1>0, <1>3 DEF FaithInv, MarkedSent
    <3> QED
      BY <2>1, <2>2, <3>1 DEF Ending
  <2>3. published' = published \/ \E r \in Relays : Ending(r)
    BY DEF OutboxStep, InsertRow, CommitRow, Aborting, Claim, Sending,
           MarkPublished, Resuming
  <2> QED
    BY <2>1, <2>2, <2>3
<1> QED
  BY <1>1, <1>2, <1>4 DEF FaithInv

\* FaithInv holds before anything is written.
LEMMA FaithInit ==
    ASSUME Init
    PROVE  FaithInv
<1>1. TypeOK
  BY RelayAssumption DEF Init, TypeOK, PcValues
<1>2. IdsDrawn
  BY DEF Init, IdsDrawn
<1>3. OnlyCommitted /\ MarkedSent
  BY DEF Init, OnlyCommitted, MarkedSent, Locked
<1> QED
  BY <1>1, <1>2, <1>3 DEF FaithInv, Init

\* FaithInv keeps the promise.
LEMMA FaithImplies ==
    ASSUME FaithInv
    PROVE  OutboxFaithful
<1>1. ASSUME NEW i \in Ids \ visible
      PROVE  Copies(i) = {}
  <2>1. KeyOf[i] \in Keys
    BY RelayAssumption
  <2> QED
    BY <1>1, <2>1 DEF FaithInv, OnlyCommitted, Copies
<1> QED
  BY <1>1 DEF FaithInv, OutboxFaithful

\* However many replicas drain the outbox, whatever fails: a row is marked
\* published only once Kafka holds it, and Kafka holds committed rows only.
\* The argument is FaithInv: what a pass has staged, and what it is about to
\* stage, was sent before, and copies stay.
THEOREM Faithful == Spec => []OutboxFaithful
<1>1. Init => FaithInv
  BY FaithInit
<1>2. FaithInv /\ [Next]_vars => FaithInv'
  <2>1. FaithInv /\ [Next]_vars => OutboxStep
    BY NextIsOutboxStep DEF FaithInv
  <2> QED
    BY <2>1, FaithStep
<1>3. FaithInv => OutboxFaithful
  BY FaithImplies
<1> QED
  BY <1>1, <1>2, <1>3, PTL DEF Spec

-----------------------------------------------------------------------------
(***************************************************************************)
(* One relay keeps the order in which the rows of a key were committed.    *)
(***************************************************************************)

\* Between passes nothing is locked.
LEMMA IdleUnlockedStep ==
    ASSUME TypeOK, IdleUnlocked, OutboxStep
    PROVE  IdleUnlocked'
<1>1. CASE InsertRow \/ Aborting \/ \E i \in open : CommitRow(i)
  BY <1>1 DEF InsertRow, Aborting, CommitRow, relay, IdleUnlocked, Locked
<1>2. ASSUME NEW r \in Relays,
             Claim(r) \/ Sending(r) \/ MarkPublished(r) \/ Ending(r) \/ Resuming(r)
      PROVE  IdleUnlocked'
  <2>1. ASSUME NEW q \in Relays, pc'[q] \in {"idle", "down"}
        PROVE  batch'[q] = {} /\ marked'[q] = {}
    <3>1. CASE q = r
      BY <1>2, <2>1, <3>1 DEF Claim, Sending, MarkPublished, Ending, EndPass,
                              Resuming, TypeOK, IdleUnlocked, Locked
    <3>2. CASE q # r
      BY <1>2, <2>1, <3>2 DEF Claim, Sending, MarkPublished, Ending, EndPass,
                              Resuming, TypeOK, IdleUnlocked, Locked
    <3> QED
      BY <3>1, <3>2
  <2> QED
    BY <2>1 DEF IdleUnlocked, Locked
<1> QED
  BY <1>1, <1>2 DEF OutboxStep

\* A committed row keeps its history: only its own commit writes it.
LEMMA BeforeKept ==
    ASSUME TypeOK, IdsDrawn, OutboxStep, NEW i \in visible
    PROVE  before'[i] = before[i]
<1>1. ASSUME NEW h \in open, CommitRow(h)
      PROVE  before'[i] = before[i]
  <2>1. h # i /\ i \in Ids
    BY DEF IdsDrawn, TypeOK
  <2> QED
    BY <1>1, <2>1 DEF CommitRow, TypeOK
<1> QED
  BY <1>1 DEF OutboxStep, InsertRow, Aborting, Claim, Sending, MarkPublished, Ending,
              Resuming, writers

\* History is written from the committed rows, and they stay committed.
LEMMA BeforeCommittedStep ==
    ASSUME TypeOK, IdsDrawn, BeforeCommitted, OutboxStep
    PROVE  BeforeCommitted'
<1>0. visible \subseteq visible'
  BY IdsDrawnStep
<1>1. ASSUME before' = before
      PROVE  BeforeCommitted'
  BY <1>0, <1>1 DEF BeforeCommitted
<1>2. ASSUME NEW h \in open, CommitRow(h)
      PROVE  BeforeCommitted'
  <2>1. ASSUME NEW i \in Ids, NEW j \in before'[i]
        PROVE  j \in visible' /\ KeyOf[j] = KeyOf[i] /\ j < i
    <3>1. CASE i = h
      BY <1>0, <1>2, <2>1, <3>1 DEF CommitRow, TypeOK
    <3>2. CASE i # h
      <4>1. before'[i] = before[i]
        BY <1>2, <3>2 DEF CommitRow, TypeOK
      <4> QED
        BY <1>0, <2>1, <4>1 DEF BeforeCommitted
    <3> QED
      BY <3>1, <3>2
  <2> QED
    BY <2>1 DEF BeforeCommitted
<1> QED
  BY <1>1, <1>2 DEF OutboxStep, InsertRow, Aborting, Claim, Sending, MarkPublished,
                    Ending, Resuming, writers

\* The oldest free rows leave no older free row behind.
LEMMA ClaimIsPrefix ==
    ASSUME TypeOK, NEW i \in Free, NEW j \in Free, j < i,
           Cardinality({h \in Free : h < i}) < BatchSize
    PROVE  Cardinality({h \in Free : h < j}) < BatchSize
<1>1. Free \subseteq Ids /\ MaxRows \in Nat /\ BatchSize \in Nat
  BY RelayAssumption DEF Free, TypeOK
<1>2. IsFiniteSet(Ids)
  BY <1>1, FS_Interval DEF Ids
<1>3. IsFiniteSet({h \in Free : h < i}) /\ IsFiniteSet({h \in Free : h < j})
  BY <1>1, <1>2, FS_Subset
<1>4. {h \in Free : h < j} \subseteq {h \in Free : h < i}
  <2>1. i \in Int /\ j \in Int /\ \A h \in Free : h \in Int
    BY <1>1 DEF Ids
  <2>2. ASSUME NEW h \in Free, h < j
        PROVE  h < i
    BY <2>1, <2>2
  <2> QED
    BY <2>2
<1>5. Cardinality({h \in Free : h < j}) <= Cardinality({h \in Free : h < i})
  BY <1>3, <1>4, FS_Subset
<1>6. /\ Cardinality({h \in Free : h < i}) \in Nat
      /\ Cardinality({h \in Free : h < j}) \in Nat
  BY <1>3, FS_CardinalityType
<1> QED
  BY <1>1, <1>5, <1>6

\* With one relay no pass skips rows another has locked, so a batch leaves no
\* row behind that was committed before one of its rows.
LEMMA BatchUnbrokenStep ==
    ASSUME OrderInv, OutboxStep, \A q, r \in Relays : q = r
    PROVE  BatchUnbroken'
<1>0. /\ TypeOK /\ IdsDrawn /\ BatchUnbroken /\ BeforeCommitted /\ IdleUnlocked
      /\ visible \subseteq Ids
      /\ \A q \in Relays : batch[q] \subseteq visible
  BY DEF OrderInv, FaithInv, TypeOK, OnlyCommitted, Locked
<1>1. CASE InsertRow \/ Aborting
  BY <1>0, <1>1 DEF InsertRow, Aborting, relay, BatchUnbroken, Locked
<1>2. ASSUME NEW i \in open, CommitRow(i)
      PROVE  BatchUnbroken'
  <2>1. UNCHANGED <<batch, marked, published>>
    BY <1>2 DEF CommitRow, relay
  <2>2. \A q \in Relays : \A h \in batch[q] : before'[h] = before[h]
    BY <1>0, BeforeKept
  <2> QED
    BY <1>0, <2>1, <2>2 DEF BatchUnbroken, Locked
<1>3. ASSUME NEW r \in Relays, Claim(r)
      PROVE  BatchUnbroken'
  <2>1. /\ batch'[r] = {i \in Free : Cardinality({j \in Free : j < i}) < BatchSize}
        /\ before' = before /\ published' = published
    BY <1>0, <1>3 DEF Claim, writers, TypeOK
  <2>2. Free = visible \ published
    BY <1>0, <1>3 DEF Claim, IdleUnlocked, Free
  <2>3. ASSUME NEW i \in batch'[r], NEW j \in visible, j < i
        PROVE  j \in batch'[r] \cup published
    <3>1. i \in Free /\ Cardinality({h \in Free : h < i}) < BatchSize
      BY <2>1
    <3>2. CASE j \in Free
      <4>1. Cardinality({h \in Free : h < j}) < BatchSize
        BY <1>0, <2>3, <3>1, <3>2, ClaimIsPrefix
      <4> QED
        BY <2>1, <3>2, <4>1
    <3> QED
      BY <2>2, <3>2
  <2>4. ASSUME NEW q \in Relays, NEW i \in batch'[q], NEW j \in before'[i]
        PROVE  j \in Locked(q)' \cup published'
    <3>1. q = r
      OBVIOUS
    <3>2. i \in Ids /\ j \in before[i]
      BY <1>0, <2>1, <2>4, <3>1 DEF Free
    <3>3. j \in visible /\ j < i
      BY <1>0, <3>2 DEF BeforeCommitted
    <3> QED
      BY <2>1, <2>3, <2>4, <3>1, <3>3 DEF Locked
  <2> QED
    BY <2>4 DEF BatchUnbroken
<1>4. ASSUME NEW r \in Relays, Sending(r) \/ Resuming(r)
      PROVE  BatchUnbroken'
  BY <1>0, <1>4 DEF Sending, Resuming, writers, BatchUnbroken, Locked
<1>5. ASSUME NEW r \in Relays, MarkPublished(r)
      PROVE  BatchUnbroken'
  <2>1. /\ batch'[r] \subseteq batch[r] /\ Locked(r) \subseteq Locked(r)'
        /\ before' = before /\ published' = published
    BY <1>0, <1>5 DEF MarkPublished, writers, TypeOK, Locked
  <2>2. ASSUME NEW q \in Relays
        PROVE  q = r
    OBVIOUS
  <2> QED
    BY <1>0, <2>1, <2>2 DEF BatchUnbroken
<1>6. ASSUME NEW r \in Relays, Ending(r)
      PROVE  BatchUnbroken'
  <2>1. batch'[r] = {}
    BY <1>0, <1>6 DEF Ending, EndPass, TypeOK
  <2> QED
    BY <2>1 DEF BatchUnbroken
<1> QED
  BY <1>1, <1>2, <1>3, <1>4, <1>5, <1>6 DEF OutboxStep

\* The row a pass sends is preceded on its partition by those committed before it.
LEMMA OrderPreservedStep ==
    ASSUME OrderInv, OutboxStep
    PROVE  OrderPreserved'
<1>0. TypeOK /\ FaithInv /\ IdsDrawn /\ BeforeCommitted /\ BatchUnbroken /\ OrderPreserved
  BY DEF OrderInv, FaithInv
<1>t. TypeOK'
  BY <1>0, FaithStep DEF FaithInv
<1>k. \A h \in visible : before'[h] = before[h]
  BY <1>0, BeforeKept
<1>1. ASSUME NEW k \in Keys, NEW n \in DOMAIN topic'[k], NEW i \in before'[topic'[k][n]]
      PROVE  \E m \in 1 .. n - 1 : topic'[k][m] = i
  <2>0. /\ topic[k] \in Seq(Ids) /\ topic'[k] \in Seq(Ids) /\ n \in 1 .. Len(topic'[k])
        /\ \A m \in DOMAIN topic[k] : topic'[k][m] = topic[k][m]
    BY <1>0, <1>t, CopiesStay DEF TypeOK
  <2>1. CASE n \in DOMAIN topic[k] /\ topic'[k][n] = topic[k][n]
    <3>1. i \in before[topic[k][n]]
      <4>1. topic[k][n] \in visible
        BY <1>0, <2>1 DEF FaithInv, OnlyCommitted
      <4> QED
        BY <1>1, <1>k, <2>1, <4>1
    <3>2. PICK m \in 1 .. n - 1 : topic[k][m] = i
      BY <1>0, <2>1, <3>1 DEF OrderPreserved
    <3>3. m \in DOMAIN topic[k]
      BY <2>0, <2>1
    <3> QED
      BY <2>0, <3>2, <3>3
  <2>2. ASSUME NEW r \in Relays, batch[r] # {}, n > Len(topic[k]),
               topic'[k][n] = NextRow(r), KeyOf[NextRow(r)] = k
        PROVE  \E m \in 1 .. n - 1 : topic'[k][m] = i
    <3>1. /\ NextRow(r) \in batch[r] /\ NextRow(r) \in Ids
          /\ \A j \in batch[r] : NextRow(r) <= j
      BY <1>0, <2>2, NextRowInBatch
    <3>2. i \in before[NextRow(r)]
      <4>1. NextRow(r) \in visible
        BY <1>0, <3>1 DEF FaithInv, OnlyCommitted, Locked
      <4> QED
        BY <1>1, <1>k, <2>2, <4>1
    <3>3. /\ i \in Ids /\ KeyOf[i] = k /\ i < NextRow(r)
          /\ batch[r] \subseteq Ids
      BY <1>0, <2>2, <3>1, <3>2 DEF BeforeCommitted, TypeOK
    <3>4. i \in Locked(r) \cup published
      BY <1>0, <3>1, <3>2 DEF BatchUnbroken
    <3>5. i \notin batch[r]
      <4>1. i \in Int /\ NextRow(r) \in Int
        BY <3>1, <3>3 DEF Ids
      <4> QED
        BY <3>1, <3>3, <4>1
    <3>6. Copies(i) # {}
      BY <1>0, <3>4, <3>5 DEF Locked, FaithInv, MarkedSent
    <3>7. PICK m \in DOMAIN topic[k] : topic[k][m] = i
      BY <3>3, <3>6 DEF Copies
    <3>8. m \in 1 .. n - 1
      BY <2>0, <2>2
    <3> QED
      BY <2>0, <3>7, <3>8
  <2> QED
    BY <1>0, <2>1, <2>2, TopicHolds
<1> QED
  BY <1>1 DEF OrderPreserved

\* OrderInv is inductive with one relay.
LEMMA OrderStep ==
    ASSUME \A q, r \in Relays : q = r, OrderInv, OutboxStep
    PROVE  OrderInv'
<1>1. FaithInv'
  BY FaithStep DEF OrderInv
<1>2. IdleUnlocked' /\ BeforeCommitted'
  BY IdleUnlockedStep, BeforeCommittedStep DEF OrderInv, FaithInv
<1>3. BatchUnbroken' /\ OrderPreserved'
  BY BatchUnbrokenStep, OrderPreservedStep
<1> QED
  BY <1>1, <1>2, <1>3 DEF OrderInv

\* OrderInv holds before anything is written.
LEMMA OrderInit ==
    ASSUME Init
    PROVE  OrderInv
<1>1. FaithInv
  BY FaithInit
<1>2. IdleUnlocked /\ BeforeCommitted /\ BatchUnbroken /\ OrderPreserved
  BY DEF Init, IdleUnlocked, BeforeCommitted, BatchUnbroken, OrderPreserved, Locked
<1> QED
  BY <1>1, <1>2 DEF OrderInv

\* Whatever races among the writers: events of a key whose transactions committed
\* in id order reach the partition in that order, through failed sends, retries,
\* rolled back passes and restarts, when one relay drains the outbox.  SKIP LOCKED
\* lets a second relay overtake the first.
THEOREM Ordered ==
    ASSUME \A q, r \in Relays : q = r
    PROVE  Spec => []OrderPreserved
<1>1. Init => OrderInv
  BY OrderInit
<1>2. OrderInv /\ [Next]_vars => OrderInv'
  <2>1. OrderInv /\ [Next]_vars => OutboxStep
    BY NextIsOutboxStep DEF OrderInv, FaithInv
  <2> QED
    BY <2>1, OrderStep
<1>3. OrderInv => OrderPreserved
  BY DEF OrderInv
<1> QED
  BY <1>1, <1>2, <1>3, PTL DEF Spec

-----------------------------------------------------------------------------
(***************************************************************************)
(* A failure costs at most a batch of repeated copies.                     *)
(***************************************************************************)

\* Sets of rows are finite.
LEMMA RowsFinite ==
    ASSUME NEW S \in SUBSET Ids
    PROVE  IsFiniteSet(S) /\ Cardinality(S) \in Nat
<1>1. IsFiniteSet(Ids)
  BY RelayAssumption, FS_Interval DEF Ids
<1> QED
  BY <1>1, FS_Subset, FS_CardinalityType

\* Of any rows, those preceded by fewer than a batch are at most a batch.
LEMMA ClaimIsBatch ==
    ASSUME NEW S \in SUBSET Ids
    PROVE  Cardinality({i \in S : Cardinality({j \in S : j < i}) < BatchSize}) <= BatchSize
<1> DEFINE Rank(i) == Cardinality({j \in S : j < i})
           first   == {i \in S : Rank(i) < BatchSize}
           rank    == [i \in first |-> Rank(i)]
           ranks   == 0 .. BatchSize - 1
<1>1. BatchSize \in Nat \ {0} /\ S \subseteq Int
  BY RelayAssumption DEF Ids
<1>2. \A i \in S : IsFiniteSet({j \in S : j < i}) /\ Rank(i) \in Nat
  BY RowsFinite
<1>3. ASSUME NEW i \in S, NEW h \in S, h < i
      PROVE  Rank(h) < Rank(i)
  <2> DEFINE L == {j \in S : j < h}
             M == {j \in S : j < i}
  <2>1. IsFiniteSet(L) /\ IsFiniteSet(M) /\ Cardinality(L) \in Nat /\ Cardinality(M) \in Nat
    BY <1>2
  <2>2. L \in SUBSET M /\ h \in M /\ h \notin L
    <3>1. i \in Int /\ h \in Int /\ \A j \in S : j \in Int
      BY <1>1
    <3>2. ASSUME NEW j \in L
          PROVE  j \in M
      <4>1. j \in S /\ j < h /\ j \in Int
        BY <3>1
      <4> QED
        BY <1>3, <3>1, <4>1
    <3>3. h \in M
      BY <1>3
    <3>4. h \notin L
      BY <3>1
    <3> QED
      BY <3>2, <3>3, <3>4
  <2> HIDE DEF L, M
  <2>3. Cardinality(L) <= Cardinality(M) /\ Cardinality(L) # Cardinality(M)
    BY <2>1, <2>2, FS_Subset
  <2>4. Cardinality(L) < Cardinality(M)
    BY <2>1, <2>3
  <2> QED
    BY <2>4 DEF L, M
<1> HIDE DEF Rank
<1>4. rank \in [first -> ranks]
  <2>1. ASSUME NEW i \in first
        PROVE  Rank(i) \in ranks
    <3>1. Rank(i) \in Nat /\ Rank(i) < BatchSize
      BY <1>2
    <3> QED
      BY <1>1, <3>1
  <2> QED
    BY <2>1
<1>5. ASSUME NEW i \in first, NEW h \in first, rank[i] = rank[h]
      PROVE  i = h
  <2>1. i \in S /\ h \in S /\ Rank(i) = Rank(h) /\ Rank(i) \in Nat /\ Rank(h) \in Nat
    BY <1>2, <1>5
  <2>2. ~(h < i) /\ ~(i < h)
    BY <1>3, <2>1
  <2> QED
    BY <1>1, <2>1, <2>2
<1>6. IsFiniteSet(ranks) /\ Cardinality(ranks) = BatchSize
  BY <1>1, FS_Interval
<1> HIDE DEF first, rank, ranks
<1>7. rank \in Injection(first, ranks)
  BY <1>4, <1>5 DEF Injection, IsInjective
<1>8. Cardinality(first) <= BatchSize
  BY <1>6, <1>7, FS_Injection
<1> QED
  BY <1>8 DEF first, Rank

\* Passes stay apart: SKIP LOCKED gives each its own rows, at most a batch.
LEMMA PassesApartStep ==
    ASSUME FaithInv, IdleUnlocked, PassesApart, OutboxStep
    PROVE  PassesApart'
<1>0. TypeOK
  BY DEF FaithInv
<1>1. CASE InsertRow \/ Aborting \/ \E i \in open : CommitRow(i)
  BY <1>1 DEF InsertRow, Aborting, CommitRow, relay, PassesApart, Locked
<1>2. ASSUME NEW r \in Relays, Claim(r)
      PROVE  PassesApart'
  <2> DEFINE claimed == {i \in Free : Cardinality({j \in Free : j < i}) < BatchSize}
  <2>1. /\ batch' = [batch EXCEPT ![r] = claimed] /\ batch'[r] = claimed
        /\ marked' = marked /\ published' = published
    BY <1>0, <1>2 DEF Claim, TypeOK
  <2>2. batch[r] = {} /\ marked[r] = {}
    BY <1>2 DEF Claim, IdleUnlocked, Locked
  <2>3. claimed \cap published = {} /\ \A q \in Relays : claimed \cap Locked(q) = {}
    BY DEF Free
  <2>4. Cardinality(claimed) <= BatchSize
    BY <1>0, ClaimIsBatch DEF Free, TypeOK
  <2> HIDE DEF claimed
  <2>5. Locked(r)' = claimed /\ \A q \in Relays : q # r => Locked(q)' = Locked(q)
    BY <1>0, <2>1, <2>2 DEF Locked, TypeOK
  <2>6. ASSUME NEW q \in Relays
        PROVE  /\ batch'[q] \cap marked'[q] = {}
               /\ Locked(q)' \cap published' = {}
               /\ Cardinality(Locked(q)') <= BatchSize
    <3>1. CASE q = r
      BY <2>1, <2>2, <2>3, <2>4, <2>5, <3>1
    <3>2. CASE q # r
      <4>1. batch'[q] = batch[q] /\ marked'[q] = marked[q] /\ Locked(q)' = Locked(q)
        BY <1>0, <2>1, <2>5, <3>2 DEF TypeOK
      <4> QED
        BY <2>1, <4>1 DEF PassesApart
    <3> QED
      BY <3>1, <3>2
  <2>7. ASSUME NEW p \in Relays, NEW q \in Relays, p # q
        PROVE  Locked(p)' \cap Locked(q)' = {}
    BY <2>3, <2>5, <2>7 DEF PassesApart
  <2> QED
    BY <2>6, <2>7 DEF PassesApart
<1>3. ASSUME NEW r \in Relays, Sending(r) \/ Resuming(r)
      PROVE  PassesApart'
  BY <1>3 DEF Sending, Resuming, PassesApart, Locked
<1>4. ASSUME NEW r \in Relays, MarkPublished(r)
      PROVE  PassesApart'
  <2>1. NextRow(r) \in batch[r]
    BY <1>0, <1>4, NextRowInBatch DEF FaithInv, MarkedSent, MarkPublished
  <2>2. /\ published' = published
        /\ batch' = [batch EXCEPT ![r] = @ \ {NextRow(r)}]
        /\ marked' = [marked EXCEPT ![r] = @ \cup {NextRow(r)}]
    BY <1>4 DEF MarkPublished
  <2>3. ASSUME NEW q \in Relays
        PROVE  Locked(q)' = Locked(q)
    BY <1>0, <2>1, <2>2 DEF Locked, TypeOK
  <2>4. ASSUME NEW q \in Relays
        PROVE  batch'[q] \cap marked'[q] = {}
    BY <1>0, <2>2 DEF PassesApart, TypeOK
  <2> QED
    BY <2>2, <2>3, <2>4 DEF PassesApart
<1>5. ASSUME NEW r \in Relays, Ending(r)
      PROVE  PassesApart'
  <2>1. /\ batch' = [batch EXCEPT ![r] = {}] /\ marked' = [marked EXCEPT ![r] = {}]
        /\ published' \subseteq published \cup marked[r]
    BY <1>5 DEF Ending, EndPass
  <2>2. Locked(r)' = {} /\ \A q \in Relays : q # r => Locked(q)' = Locked(q)
    BY <1>0, <2>1 DEF Locked, TypeOK
  <2>3. Cardinality({}) = 0 /\ BatchSize \in Nat
    BY FS_EmptySet, RelayAssumption
  <2>4. ASSUME NEW q \in Relays
        PROVE  /\ batch'[q] \cap marked'[q] = {}
               /\ Locked(q)' \cap published' = {}
               /\ Cardinality(Locked(q)') <= BatchSize
    <3>1. CASE q = r
      <4>1. batch'[q] = {} /\ Locked(q)' = {}
        BY <1>0, <2>1, <2>2, <3>1 DEF TypeOK
      <4> QED
        BY <2>3, <4>1
    <3>2. CASE q # r
      <4>1. batch'[q] = batch[q] /\ marked'[q] = marked[q] /\ Locked(q)' = Locked(q)
        BY <1>0, <2>1, <2>2, <3>2 DEF TypeOK
      <4>2. Locked(q) \cap Locked(r) = {} /\ Locked(q) \cap published = {}
        BY <3>2 DEF PassesApart
      <4>3. Locked(q) \cap published' = {}
        BY <2>1, <4>2 DEF Locked
      <4> QED
        BY <4>1, <4>3 DEF PassesApart
    <3> QED
      BY <3>1, <3>2
  <2>5. ASSUME NEW p \in Relays, NEW q \in Relays, p # q
        PROVE  Locked(p)' \cap Locked(q)' = {}
    BY <2>2, <2>5 DEF PassesApart
  <2> QED
    BY <2>4, <2>5 DEF PassesApart
<1> QED
  BY <1>1, <1>2, <1>3, <1>4, <1>5 DEF OutboxStep

\* Paid rows are finitely many rows.
LEMMA PaidFinite ==
    ASSUME NEW k \in Keys
    PROVE  /\ IsFiniteSet(Paid(k)) /\ Cardinality(Paid(k)) \in Nat
           /\ IsFiniteSet(Paid(k)') /\ Cardinality(Paid(k)') \in Nat
<1>1. Paid(k) \in SUBSET Ids /\ Paid(k)' \in SUBSET Ids
  BY DEF Paid
<1> QED
  BY <1>1, RowsFinite

\* What is owed grows by the copies sent and by the rows no longer paid.
LEMMA OwesGrows ==
    ASSUME NEW e \in Nat, Owes(e), NEW f \in Nat, NEW k \in Keys,
           TypeOK, TypeOK', NEW n \in Nat, NEW m \in Nat,
           Len(topic'[k]) <= Len(topic[k]) + n,
           Cardinality(Paid(k)) <= Cardinality(Paid(k)') + m,
           e * BatchSize + n + m <= f * BatchSize
    PROVE  Len(topic'[k]) <= Cardinality(Paid(k)') + f * BatchSize
<1>1. Len(topic[k]) <= Cardinality(Paid(k)) + e * BatchSize
  BY DEF Owes
<1>2. /\ Len(topic[k]) \in Nat /\ Len(topic'[k]) \in Nat
      /\ Cardinality(Paid(k)) \in Nat /\ Cardinality(Paid(k)') \in Nat
  BY PaidFinite DEF TypeOK
<1>3. e * BatchSize \in Nat /\ f * BatchSize \in Nat
  BY RelayAssumption
<1> DEFINE t == Len(topic[k])
           u == Len(topic'[k])
           p == Cardinality(Paid(k))
           q == Cardinality(Paid(k)')
           x == e * BatchSize
           y == f * BatchSize
<1>4. /\ t \in Nat /\ u \in Nat /\ p \in Nat /\ q \in Nat /\ x \in Nat /\ y \in Nat
      /\ t <= p + x /\ u <= t + n /\ p <= q + m /\ x + n + m <= y
  BY <1>1, <1>2, <1>3
<1> HIDE DEF t, u, p, q, x, y
<1>5. u <= q + y
  BY <1>4
<1> QED
  BY <1>5 DEF u, q, y

\* A step that sends nothing and gives up nothing it sent owes no more.
LEMMA QuietOwes ==
    ASSUME NEW e \in Nat, Owes(e), TypeOK, TypeOK', topic' = topic,
           published \subseteq published',
           \A r \in Relays : SentBy(r) \subseteq SentBy(r)' \cup published'
    PROVE  Owes(e)'
<1>1. ASSUME NEW k \in Keys
      PROVE  Len(topic'[k]) <= Cardinality(Paid(k)') + e * BatchSize
  <2>1. Paid(k) \in SUBSET (Paid(k)')
    BY DEF Paid
  <2>2. Cardinality(Paid(k)) <= Cardinality(Paid(k)')
    BY <2>1, PaidFinite, FS_Subset
  <2>3. /\ Len(topic[k]) \in Nat
        /\ Cardinality(Paid(k)) \in Nat /\ Cardinality(Paid(k)') \in Nat
    BY PaidFinite DEF TypeOK
  <2>4. e * BatchSize \in Nat
    BY RelayAssumption
  <2>5. Len(topic[k]) <= Cardinality(Paid(k)) + e * BatchSize
    BY DEF Owes
  <2> QED
    BY <2>2, <2>3, <2>4, <2>5
<1> QED
  BY <1>1 DEF Owes

\* A row that is sent becomes paid: its first copy adds nothing to the debt, the
\* repeated one costs less than a batch.
LEMMA SendingOwes ==
    ASSUME NEW e \in Nat, Owes(e), FaithInv, PassesApart, TypeOK', NEW r \in Relays,
           Sending(r), NEW n \in 1 .. 2, topic' = Delivered(NextRow(r), n)
    PROVE  Owes(e + n - 1)'
<1>0. TypeOK
  BY DEF FaithInv
<1> DEFINE i == NextRow(r)
<1>1. /\ pc[r] = "send" /\ pc' = [pc EXCEPT ![r] = "mark"] /\ pc'[r] = "mark"
      /\ UNCHANGED <<published, batch, marked>>
  BY <1>0 DEF Sending, TypeOK
<1>2. i \in batch[r] /\ i \in Ids /\ NextRow(r)' = NextRow(r)
  BY <1>0, <1>1, NextRowInBatch DEF Sending, NextRow
<1>3. i \notin published /\ \A q \in Relays : i \notin SentBy(q)
  <2>1. i \in Locked(r)
    BY <1>2 DEF Locked
  <2>2. i \notin published /\ i \notin marked[r]
    BY <1>2, <2>1 DEF PassesApart
  <2>3. i \notin SentBy(r)
    BY <1>1, <2>2 DEF SentBy
  <2>4. ASSUME NEW q \in Relays, q # r
        PROVE  i \notin SentBy(q)
    BY <2>1, <2>4 DEF PassesApart, SentBy, Locked
  <2> QED
    BY <2>2, <2>3, <2>4
<1>4. SentBy(r)' = SentBy(r) \cup {i}
  BY <1>1, <1>2 DEF SentBy
<1>5. ASSUME NEW q \in Relays, q # r
      PROVE  SentBy(q)' = SentBy(q)
  <2>1. pc'[q] = pc[q] /\ batch'[q] = batch[q] /\ marked'[q] = marked[q]
    BY <1>0, <1>1, <1>5 DEF TypeOK
  <2> QED
    BY <2>1 DEF SentBy, NextRow
<1> HIDE DEF i
<1>6. /\ \A k \in Keys : KeyOf[i] # k => topic'[k] = topic[k]
      /\ Len(topic'[KeyOf[i]]) = Len(topic[KeyOf[i]]) + n
  <2>1. i \in Ids /\ topic' = Delivered(i, n) /\ n \in 0 .. 2
    BY <1>2 DEF i
  <2> QED
    BY <1>0, <2>1, DeliveredAtEnd
<1>7. ASSUME NEW k \in Keys
      PROVE  Len(topic'[k]) <= Cardinality(Paid(k)') + (e + n - 1) * BatchSize
  <2>0. /\ Len(topic[k]) \in Nat /\ Len(topic'[k]) \in Nat /\ BatchSize \in Nat \ {0}
        /\ Cardinality(Paid(k)) \in Nat /\ Cardinality(Paid(k)') \in Nat
    BY <1>0, PaidFinite, RelayAssumption DEF TypeOK
  <2>1. Len(topic[k]) <= Cardinality(Paid(k)) + e * BatchSize
    BY DEF Owes
  <2>2. e * BatchSize \in Nat /\ e * BatchSize + n - 1 <= (e + n - 1) * BatchSize
    <3>1. CASE n = 1
      BY <2>0, <3>1
    <3>2. CASE n = 2
      <4>1. (e + 1) * BatchSize = e * BatchSize + BatchSize /\ e * BatchSize \in Nat
        BY <2>0
      <4> QED
        BY <2>0, <3>2, <4>1
    <3> QED
      BY <3>1, <3>2
  <2>3. (e + n - 1) * BatchSize \in Nat
    BY <2>0
  <2>4. CASE KeyOf[i] = k
    <3>1. i \notin Paid(k) /\ Paid(k)' = Paid(k) \cup {i}
      BY <1>1, <1>2, <1>3, <1>4, <1>5, <2>4 DEF Paid
    <3>2. Cardinality(Paid(k)') = Cardinality(Paid(k)) + 1
      BY <3>1, PaidFinite, FS_AddElement
    <3> QED
      BY <1>6, <2>0, <2>1, <2>2, <2>3, <2>4, <3>2
  <2>5. CASE KeyOf[i] # k
    <3>1. Paid(k)' = Paid(k)
      BY <1>1, <1>4, <1>5, <2>5 DEF Paid
    <3>2. topic'[k] = topic[k]
      BY <1>6, <2>5
    <3>3. e * BatchSize <= (e + n - 1) * BatchSize
      BY <2>2, <2>3
    <3> QED
      BY <2>0, <2>1, <2>2, <2>3, <3>1, <3>2, <3>3
  <2> QED
    BY <2>4, <2>5
<1> QED
  BY <1>7 DEF Owes

\* A pass that ends has at most a batch of rows to send again, the one amid
\* its Send included.
LEMMA EndingOwes ==
    ASSUME NEW e \in Nat, Owes(e), FaithInv, PassesApart, TypeOK', NEW r \in Relays,
           Ending(r)
    PROVE  Owes(e + 1)'
<1>0. TypeOK /\ BatchSize \in Nat \ {0} /\ batch[r] \subseteq Ids /\ marked[r] \subseteq Ids
  BY RelayAssumption DEF FaithInv, TypeOK
<1>1. SentBy(r) \in SUBSET Locked(r) /\ Locked(r) \in SUBSET Ids
  BY <1>0 DEF SentBy, Locked
<1>2. /\ IsFiniteSet(SentBy(r)) /\ Cardinality(SentBy(r)) \in Nat
      /\ IsFiniteSet(Locked(r)) /\ Cardinality(Locked(r)) \in Nat
      /\ Cardinality(Locked(r)) <= BatchSize
  BY <1>1, RowsFinite DEF PassesApart
<1>3. PICK n \in 0 .. 1 :
          /\ n + Cardinality(SentBy(r)) <= BatchSize
          /\ \A k \in Keys : Len(topic'[k]) <= Len(topic[k]) + n
  <2>1. CASE topic' = topic
    <3>1. Cardinality(SentBy(r)) <= Cardinality(Locked(r))
      BY <1>1, <1>2, FS_Subset
    <3>2. 0 + Cardinality(SentBy(r)) <= BatchSize
      BY <1>0, <1>2, <3>1
    <3>3. \A k \in Keys : Len(topic'[k]) <= Len(topic[k]) + 0
      BY <1>0, <2>1 DEF TypeOK
    <3> QED
      BY <3>2, <3>3
  <2>2. ASSUME pc[r] = "send", batch[r] # {}, NEW n \in 0 .. 1,
               topic' = Delivered(NextRow(r), n)
        PROVE  /\ n + Cardinality(SentBy(r)) <= BatchSize
               /\ \A k \in Keys : Len(topic'[k]) <= Len(topic[k]) + n
    <3> DEFINE i == NextRow(r)
    <3>1. i \in Ids /\ i \in batch[r] /\ topic' = Delivered(i, n) /\ n \in 0 .. 2
      BY <1>0, <2>2, NextRowInBatch
    <3> HIDE DEF i
    <3>2. SentBy(r) \in SUBSET (Locked(r) \ {i}) /\ i \in Locked(r)
      BY <2>2, <3>1 DEF SentBy, Locked, PassesApart
    <3>3. /\ IsFiniteSet(Locked(r) \ {i})
          /\ Cardinality(Locked(r) \ {i}) = Cardinality(Locked(r)) - 1
      BY <1>2, <3>2, FS_RemoveElement
    <3>4. Cardinality(SentBy(r)) <= Cardinality(Locked(r)) - 1
      BY <3>2, <3>3, FS_Subset
    <3>5. /\ \A k \in Keys : KeyOf[i] # k => topic'[k] = topic[k]
          /\ Len(topic'[KeyOf[i]]) = Len(topic[KeyOf[i]]) + n
      BY <1>0, <3>1, DeliveredAtEnd
    <3>6. ASSUME NEW k \in Keys
          PROVE  Len(topic'[k]) <= Len(topic[k]) + n
      <4>1. Len(topic[k]) \in Nat
        BY <1>0 DEF TypeOK
      <4>2. CASE KeyOf[i] = k
        BY <3>5, <4>1, <4>2
      <4>3. CASE KeyOf[i] # k
        BY <3>5, <4>1, <4>3
      <4> QED
        BY <4>2, <4>3
    <3> QED
      BY <1>0, <1>2, <3>4, <3>6
  <2> QED
    BY <2>1, <2>2 DEF Ending
<1>4. published \subseteq published'
  BY DEF Ending
<1>5. ASSUME NEW q \in Relays, q # r
      PROVE  SentBy(q)' = SentBy(q)
  <2>1. pc'[q] = pc[q] /\ batch'[q] = batch[q] /\ marked'[q] = marked[q]
    BY <1>0, <1>5 DEF Ending, EndPass, TypeOK
  <2> QED
    BY <2>1 DEF SentBy, NextRow
<1>6. ASSUME NEW k \in Keys
      PROVE  Len(topic'[k]) <= Cardinality(Paid(k)') + (e + 1) * BatchSize
  <2> DEFINE kept == Paid(k) \ SentBy(r)
  <2>1. kept \in SUBSET (Paid(k)')
    BY <1>4, <1>5 DEF Paid
  <2>2. Cardinality(kept) = Cardinality(Paid(k)) - Cardinality(Paid(k) \cap SentBy(r))
    BY PaidFinite, FS_Difference
  <2>3. Paid(k) \cap SentBy(r) \in SUBSET SentBy(r)
    OBVIOUS
  <2>4. /\ Cardinality(Paid(k) \cap SentBy(r)) <= Cardinality(SentBy(r))
        /\ Cardinality(Paid(k) \cap SentBy(r)) \in Nat
    BY <1>2, <2>3, FS_Subset, FS_CardinalityType
  <2> HIDE DEF kept
  <2>5. Cardinality(kept) <= Cardinality(Paid(k)')
    BY <2>1, PaidFinite, FS_Subset
  <2>6. Cardinality(Paid(k)) \in Nat /\ Cardinality(Paid(k)') \in Nat
    BY PaidFinite
  <2>7. Cardinality(Paid(k)) <= Cardinality(Paid(k)') + Cardinality(SentBy(r))
    BY <1>2, <2>2, <2>4, <2>5, <2>6
  <2>8. e * BatchSize + n + Cardinality(SentBy(r)) <= (e + 1) * BatchSize
    <3>1. (e + 1) * BatchSize = e * BatchSize + BatchSize /\ e * BatchSize \in Nat
      BY <1>0
    <3> QED
      BY <1>0, <1>2, <1>3, <3>1
  <2>9. n \in Nat /\ e + 1 \in Nat /\ Len(topic'[k]) <= Len(topic[k]) + n
    BY <1>3
  <2> QED
    BY <1>0, <1>2, <2>7, <2>8, <2>9, OwesGrows
<1> QED
  BY <1>6 DEF Owes

\* Everything a relay and its writers do without a failure is free.
LEMMA WorkOwes ==
    ASSUME NEW e \in Nat, Owes(e), FaithInv, IdleUnlocked, PassesApart, TypeOK',
           \/ InsertRow \/ Aborting \/ \E i \in open : CommitRow(i)
           \/ \E r \in Relays : \/ Claim(r) \/ Send(r) \/ MarkPublished(r)
                               \/ CommitPass(r) \/ Resuming(r)
    PROVE  Owes(e)'
<1>0. TypeOK
  BY DEF FaithInv
<1>1. ASSUME NEW q \in Relays, UNCHANGED <<pc[q], batch[q], marked[q]>>
      PROVE  SentBy(q)' = SentBy(q)
  BY <1>1 DEF SentBy, NextRow
<1>2. CASE InsertRow \/ Aborting \/ \E i \in open : CommitRow(i)
  <2>1. UNCHANGED <<published, topic, pc, batch, marked>>
    BY <1>2 DEF InsertRow, Aborting, CommitRow, relay
  <2>2. \A q \in Relays : SentBy(q)' = SentBy(q)
    BY <1>1, <2>1
  <2> QED
    BY <1>0, <2>1, <2>2, QuietOwes
<1>3. ASSUME NEW r \in Relays, Claim(r) \/ MarkPublished(r) \/ CommitPass(r) \/ Resuming(r)
      PROVE  Owes(e)'
  <2>1. topic' = topic /\ published \subseteq published'
    BY <1>3 DEF Claim, MarkPublished, CommitPass, Resuming
  <2>2. ASSUME NEW q \in Relays, q # r
        PROVE  SentBy(q)' = SentBy(q)
    <3>1. UNCHANGED <<pc[q], batch[q], marked[q]>>
      BY <1>0, <1>3, <2>2 DEF Claim, MarkPublished, CommitPass, EndPass, Resuming, TypeOK
    <3> QED
      BY <1>1, <3>1
  <2>3. SentBy(r) \subseteq SentBy(r)' \cup published'
    <3>1. CASE Claim(r) \/ Resuming(r)
      BY <3>1 DEF Claim, Resuming, IdleUnlocked, Locked, SentBy
    <3>2. CASE MarkPublished(r)
      <4>1. marked'[r] = marked[r] \cup {NextRow(r)}
        BY <1>0, <3>2 DEF MarkPublished, TypeOK
      <4> QED
        BY <4>1 DEF SentBy
    <3>3. CASE CommitPass(r)
      BY <3>3 DEF CommitPass, SentBy
    <3> QED
      BY <1>3, <3>1, <3>2, <3>3
  <2> QED
    BY <1>0, <2>1, <2>2, <2>3, QuietOwes
<1>4. ASSUME NEW r \in Relays, Send(r)
      PROVE  Owes(e)'
  <2>1. Sending(r) /\ topic' = Delivered(NextRow(r), 1) /\ 1 \in 1 .. 2
    BY <1>4 DEF Send, Sending
  <2>2. Owes(e + 1 - 1)' /\ e + 1 - 1 = e
    BY <2>1, SendingOwes
  <2> QED
    BY <2>2
<1> QED
  BY <1>2, <1>3, <1>4

\* A failed send, a repeated one and a failed pass each cost a batch at most.
LEMMA FailureOwes ==
    ASSUME NEW e \in Nat, Owes(e), FaithInv, PassesApart, TypeOK',
           NEW r \in Relays, Failure(r)
    PROVE  Owes(e + 1)'
<1>1. CASE SendFails(r) \/ PassFails(r)
  <2>1. Ending(r)
    BY <1>1 DEF SendFails, PassFails, Ending, writers
  <2> QED
    BY <2>1, EndingOwes
<1>2. CASE SendRepeated(r)
  <2>1. Sending(r) /\ topic' = Delivered(NextRow(r), 2) /\ 2 \in 1 .. 2
    BY <1>2 DEF SendRepeated, Sending
  <2>2. Owes(e + 2 - 1)' /\ e + 2 - 1 = e + 1
    BY <2>1, SendingOwes
  <2> QED
    BY <2>2
<1> QED
  BY <1>1, <1>2 DEF Failure

\* ResendInv is inductive.
LEMMA ResendStep ==
    ASSUME ResendInv, [Next]_vars
    PROVE  ResendInv'
<1>0. FaithInv /\ IdleUnlocked /\ PassesApart /\ TypeOK /\ Owes(faults) /\ faults \in Nat
  BY RelayAssumption DEF ResendInv, FaithInv, TypeOK
<1>1. OutboxStep
  BY <1>0, NextIsOutboxStep
<1>2. FaithInv' /\ TypeOK' /\ IdleUnlocked' /\ PassesApart'
  BY <1>0, <1>1, FaithStep, IdleUnlockedStep, PassesApartStep DEF FaithInv
<1>3. ASSUME NEW e \in Nat, e = faults
      PROVE  Owes(faults)'
  <2>0. Owes(e)
    BY <1>0, <1>3
  <2>1. ASSUME NEW r \in Relays, Failure(r)
        PROVE  Owes(faults)'
    <3>1. faults' = e + 1
      BY <1>3, <2>1 DEF Failure, SendFails, SendRepeated, PassFails, Fault
    <3>2. Owes(e + 1)'
      BY <1>0, <1>2, <2>0, <2>1, FailureOwes
    <3> QED
      BY <3>1, <3>2 DEF Owes
  <2>2. ASSUME faults' = faults,
               \/ InsertRow \/ Aborting \/ \E i \in open : CommitRow(i)
               \/ \E r \in Relays : \/ Claim(r) \/ Send(r) \/ MarkPublished(r)
                                   \/ CommitPass(r) \/ Resuming(r)
        PROVE  Owes(faults)'
    <3>1. Owes(e)'
      BY <1>0, <1>2, <2>0, <2>2, WorkOwes
    <3> QED
      BY <1>3, <2>2, <3>1 DEF Owes
  <2>3. CASE Write
    <3>1. ASSUME NEW i \in open, AbortRow(i)
          PROVE  Aborting /\ faults' = faults
      BY <3>1 DEF AbortRow, Aborting
    <3>2. (InsertRow \/ \E i \in open : CommitRow(i)) => faults' = faults
      BY DEF InsertRow, CommitRow
    <3> QED
      BY <2>2, <2>3, <3>1, <3>2 DEF Write
  <2>4. CASE Sleep \/ UNCHANGED vars
    <3>1. Aborting /\ faults' = faults
      BY <2>4 DEF Sleep, vars, writers, Aborting
    <3> QED
      BY <2>2, <3>1
  <2>5. ASSUME NEW r \in Relays, Pass(r)
        PROVE  Owes(faults)'
    <3>1. Restart(r) => Resuming(r)
      BY DEF Restart, Resuming
    <3>2. faults' = faults
      BY <2>5 DEF Pass, Claim, Send, MarkPublished, CommitPass, Restart
    <3> QED
      BY <2>2, <2>5, <3>1, <3>2 DEF Pass
  <2> QED
    BY <2>1, <2>3, <2>4, <2>5 DEF Next
<1> QED
  BY <1>0, <1>2, <1>3 DEF ResendInv

\* Before anything is written nothing is owed.
LEMMA ResendInit ==
    ASSUME Init
    PROVE  FaithInv /\ IdleUnlocked /\ PassesApart /\ Owes(0)
<1>1. FaithInv /\ IdleUnlocked
  BY OrderInit DEF OrderInv
<1>2. Cardinality({}) = 0 /\ BatchSize \in Nat
  BY FS_EmptySet, RelayAssumption
<1>3. \A r \in Relays : batch[r] = {} /\ marked[r] = {} /\ Locked(r) = {}
  BY DEF Init, Locked
<1>4. PassesApart
  BY <1>2, <1>3 DEF PassesApart
<1>5. ASSUME NEW k \in Keys
      PROVE  Len(topic[k]) <= Cardinality(Paid(k)) + 0 * BatchSize
  <2>1. Len(topic[k]) = 0
    BY DEF Init
  <2> QED
    BY <1>2, <2>1, PaidFinite
<1> QED
  BY <1>1, <1>4, <1>5 DEF Owes

\* Paid rows are on the topic, so what is owed bounds the surplus copies.
LEMMA OwesBounds ==
    ASSUME FaithInv, NEW e \in Nat, Owes(e), e <= faults
    PROVE  RepublishBounded
<1>0. TypeOK /\ faults \in Nat /\ BatchSize \in Nat
  BY RelayAssumption DEF FaithInv, TypeOK
<1>1. ASSUME NEW k \in Keys
      PROVE  Len(topic[k]) <= Cardinality({i \in Ids : KeyOf[i] = k /\ Copies(i) # {}})
                              + faults * BatchSize
  <2> DEFINE sent == {i \in Ids : KeyOf[i] = k /\ Copies(i) # {}}
  <2>1. Paid(k) \in SUBSET sent
    BY DEF Paid, SentBy, FaithInv, MarkedSent
  <2>2. IsFiniteSet(sent) /\ Cardinality(sent) \in Nat
    BY RowsFinite
  <2> HIDE DEF sent
  <2>3. Cardinality(Paid(k)) <= Cardinality(sent) /\ Cardinality(Paid(k)) \in Nat
    BY <2>1, <2>2, PaidFinite, FS_Subset
  <2>4. Len(topic[k]) <= Cardinality(Paid(k)) + e * BatchSize /\ Len(topic[k]) \in Nat
    BY <1>0 DEF Owes, TypeOK
  <2>5. e * BatchSize <= faults * BatchSize /\ e * BatchSize \in Nat /\ faults * BatchSize \in Nat
    BY <1>0
  <2>6. Len(topic[k]) <= Cardinality(sent) + faults * BatchSize
    BY <2>2, <2>3, <2>4, <2>5
  <2> QED
    BY <2>6 DEF sent
<1> QED
  BY <1>1 DEF RepublishBounded

\* However many relays drain the outbox, a failure republishes at most a batch.
\* The argument is a debt: a row is paid once it is published or an open pass
\* has sent it; a first copy pays its row, and a pass that ends without its
\* marks unpays at most the rows it had locked, which no other pass has.
THEOREM Republished == Spec => []RepublishBounded
<1>1. Init => ResendInv
  <2>1. Init => Owes(0) /\ faults = 0
    BY ResendInit DEF Init
  <2> QED
    BY <2>1, ResendInit DEF ResendInv
<1>2. ResendInv /\ [Next]_vars => ResendInv'
  BY ResendStep
<1>3. ResendInv => RepublishBounded
  <2>1. ASSUME ResendInv
        PROVE  RepublishBounded
    <3>1. faults \in Nat /\ faults <= faults
      BY <2>1, RelayAssumption DEF ResendInv, FaithInv, TypeOK
    <3>2. FaithInv /\ Owes(faults)
      BY <2>1 DEF ResendInv
    <3> QED
      BY <3>1, <3>2, OwesBounds
  <2> QED
    BY <2>1
<1> QED
  BY <1>1, <1>2, <1>3, PTL DEF Spec

=============================================================================

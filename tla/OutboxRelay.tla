----------------------------- MODULE OutboxRelay -----------------------------
(***************************************************************************)
(* The transactional outbox: writers insert rows in the transactions that  *)
(* record a fact, and the OutboxRelay of every replica drains committed,   *)
(* unpublished rows onto Kafka, oldest id first.                           *)
(*                                                                         *)
(* A row's id comes from a sequence when it is inserted; the row becomes   *)
(* visible when its transaction commits, so ids become visible in any      *)
(* order.  A pass of a relay is one transaction that locks its batch       *)
(* (FOR UPDATE SKIP LOCKED), sends row by row, stages published_at marks   *)
(* and commits them; a rolled back pass leaves its rows unpublished.       *)
(***************************************************************************)
EXTENDS Integers, Sequences, FiniteSets

CONSTANTS
    Relays,     \* replicas running OutboxRelay.Run
    Keys,       \* Kafka message keys; a key is on one partition
    KeyOf,      \* row id |-> key
    MaxRows,    \* bound on rows inserted
    BatchSize,  \* WithBatchSize
    MaxFaults   \* bound on failures

Ids == 1 .. MaxRows

ASSUME RelayAssumption ==
    /\ MaxRows \in Nat /\ MaxFaults \in Nat
    /\ BatchSize \in Nat \ {0}
    /\ KeyOf \in [Ids -> Keys]

VARIABLES
    lastId,     \* outbox_events_id_seq
    open,       \* rows inserted by transactions still open
    visible,    \* rows committed
    before,     \* history: row |-> lower ids of its key committed before it was
    published,  \* rows whose published_at is committed
    topic,      \* Kafka: key |-> row ids in the order the partition holds them
    pc,         \* relay: "idle" between passes, "send" and "mark" in one, "down"
    batch,      \* relay: rows claimed and not sent yet
    marked,     \* relay: rows whose published_at it has staged, or is staging
    faults

writers == <<lastId, open, visible, before>>
relay   == <<pc, batch, marked>>
vars    == <<writers, published, topic, relay, faults>>

PcValues == {"idle", "send", "mark", "down"}

\* Rows locked by the open pass of a relay.
Locked(r) == batch[r] \cup marked[r]

\* The first id of a set.
Oldest(ids) == CHOOSE i \in ids : \A j \in ids : i <= j

TypeOK ==
    /\ lastId \in 0 .. MaxRows
    /\ open \subseteq Ids /\ visible \subseteq Ids /\ published \subseteq Ids
    /\ before \in [Ids -> SUBSET Ids]
    /\ topic \in [Keys -> Seq(Ids)]
    /\ pc \in [Relays -> PcValues]
    /\ batch \in [Relays -> SUBSET Ids]
    /\ marked \in [Relays -> SUBSET Ids]
    /\ faults \in 0 .. MaxFaults

Init ==
    /\ lastId = 0
    /\ open = {} /\ visible = {} /\ published = {}
    /\ before = [i \in Ids |-> {}]
    /\ topic = [k \in Keys |-> <<>>]
    /\ pc = [r \in Relays |-> "idle"]
    /\ batch = [r \in Relays |-> {}]
    /\ marked = [r \in Relays |-> {}]
    /\ faults = 0

-----------------------------------------------------------------------------
(***************************************************************************)
(* Writers: OutboxPublisher.Publish inside a unit of work.                 *)
(***************************************************************************)

\* Mutant: the row takes the sequence's value before it advances.
InsertRowStale ==
    /\ lastId < MaxRows
    /\ lastId' = lastId + 1
    /\ open' = open \cup {lastId}
    /\ UNCHANGED <<visible, before, published, topic, relay, faults>>

InsertRow ==
    /\ lastId < MaxRows
    /\ lastId' = lastId + 1
    /\ open' = open \cup {lastId + 1}
    /\ UNCHANGED <<visible, before, published, topic, relay, faults>>

CommitRow(i) ==
    /\ i \in open
    /\ open' = open \ {i}
    /\ visible' = visible \cup {i}
    /\ before' = [before EXCEPT ![i] = {j \in visible : KeyOf[j] = KeyOf[i] /\ j < i}]
    /\ UNCHANGED <<lastId, published, topic, relay, faults>>

\* The unit of work rolls back: its id is never used.
AbortRow(i) ==
    /\ i \in open
    /\ open' = open \ {i}
    /\ UNCHANGED <<lastId, visible, before, published, topic, relay, faults>>

-----------------------------------------------------------------------------
(***************************************************************************)
(* One pass of a relay: RelayOnce, claimOutboxRows, publishBatch.          *)
(***************************************************************************)

\* Unpublished committed rows that no other pass has locked.
Free == {i \in visible \ published : \A r \in Relays : i \notin Locked(r)}

\* Mutant: the relay keeps a cursor and never looks behind a published id.
ClaimAfterCursor(r) ==
    LET ahead == {i \in Free : \A j \in published : j < i}
    IN  /\ pc[r] = "idle"
        /\ ahead # {}
        /\ batch' = [batch EXCEPT ![r] =
                        {i \in ahead : Cardinality({j \in ahead : j < i}) < BatchSize}]
        /\ pc' = [pc EXCEPT ![r] = "send"]
        /\ UNCHANGED <<writers, published, topic, marked, faults>>

\* ORDER BY id LIMIT BatchSize FOR UPDATE SKIP LOCKED.  An empty batch commits
\* at once and the relay sleeps.
Claim(r) ==
    /\ pc[r] = "idle"
    /\ Free # {}
    /\ batch' = [batch EXCEPT ![r] =
                    {i \in Free : Cardinality({j \in Free : j < i}) < BatchSize}]
    /\ pc' = [pc EXCEPT ![r] = "send"]
    /\ UNCHANGED <<writers, published, topic, marked, faults>>

\* The next row of the batch, and the topic once it has n more copies of it.
NextRow(r) == Oldest(batch[r])

Delivered(i, n) ==
    [topic EXCEPT ![KeyOf[i]] = @ \o [k \in 1 .. n |-> i]]

\* sink.Send returns nil: all replicas acknowledged the message.
Send(r) ==
    /\ pc[r] = "send"
    /\ batch[r] # {}
    /\ topic' = Delivered(NextRow(r), 1)
    /\ pc' = [pc EXCEPT ![r] = "mark"]
    /\ UNCHANGED <<writers, published, batch, marked, faults>>

\* markPublished: published_at is staged in the pass's transaction.
MarkPublished(r) ==
    /\ pc[r] = "mark"
    /\ marked' = [marked EXCEPT ![r] = @ \cup {NextRow(r)}]
    /\ batch' = [batch EXCEPT ![r] = @ \ {NextRow(r)}]
    /\ pc' = [pc EXCEPT ![r] = "send"]
    /\ UNCHANGED <<writers, published, topic, faults>>

\* The pass is over: its locks are released.
EndPass(r, to) ==
    /\ pc' = [pc EXCEPT ![r] = to]
    /\ batch' = [batch EXCEPT ![r] = {}]
    /\ marked' = [marked EXCEPT ![r] = {}]

\* Mutant: the pass ends without committing its marks.
CommitPassForgets(r) ==
    /\ pc[r] = "send"
    /\ batch[r] = {}
    /\ EndPass(r, "idle")
    /\ UNCHANGED <<writers, published, topic, faults>>

\* Every row was sent: the pass commits its marks.
CommitPass(r) ==
    /\ pc[r] = "send"
    /\ batch[r] = {}
    /\ published' = published \cup marked[r]
    /\ EndPass(r, "idle")
    /\ UNCHANGED <<writers, topic, faults>>

-----------------------------------------------------------------------------
(***************************************************************************)
(* Failures.                                                               *)
(***************************************************************************)

Fault == faults < MaxFaults /\ faults' = faults + 1

\* Mutant: the row whose send failed is marked with the others.
SendFailsMarks(r) ==
    /\ Fault
    /\ pc[r] = "send"
    /\ batch[r] # {}
    /\ published' = published \cup marked[r] \cup {NextRow(r)}
    /\ EndPass(r, "idle")
    /\ UNCHANGED <<writers, topic>>

\* Mutant: the pass skips the row whose send failed and goes on.
SendFailsContinues(r) ==
    /\ Fault
    /\ pc[r] = "send"
    /\ batch[r] # {}
    /\ batch' = [batch EXCEPT ![r] = @ \ {NextRow(r)}]
    /\ UNCHANGED <<writers, published, topic, pc, marked>>

\* Send returns an error, the message stored or not.  recordSendFailure stops
\* the pass at this row and commits the marks of the rows before it.
SendFails(r) ==
    /\ Fault
    /\ pc[r] = "send"
    /\ batch[r] # {}
    /\ \E n \in 0 .. 1 : topic' = Delivered(NextRow(r), n)
    /\ published' = published \cup marked[r]
    /\ EndPass(r, "idle")
    /\ UNCHANGED writers

\* The writer retries inside Send after a lost acknowledgement.
SendRepeated(r) ==
    /\ Fault
    /\ pc[r] = "send"
    /\ batch[r] # {}
    /\ topic' = Delivered(NextRow(r), 2)
    /\ pc' = [pc EXCEPT ![r] = "mark"]
    /\ UNCHANGED <<writers, published, batch, marked>>

\* The UPDATE or the commit fails, the context is cancelled at shutdown, or
\* the process dies: the pass is rolled back.
PassFails(r) ==
    /\ Fault
    /\ pc[r] \in {"send", "mark"}
    /\ \E to \in {"idle", "down"} : EndPass(r, to)
    /\ UNCHANGED <<writers, published, topic>>

Restart(r) ==
    /\ pc[r] = "down"
    /\ pc' = [pc EXCEPT ![r] = "idle"]
    /\ UNCHANGED <<writers, published, topic, batch, marked, faults>>

\* Nothing to drain: the relay sleeps, the writers are done.
Sleep ==
    /\ \A r \in Relays : pc[r] = "idle"
    /\ Free = {} /\ open = {} /\ lastId = MaxRows
    /\ UNCHANGED vars

-----------------------------------------------------------------------------

Pass(r) ==
    \/ Claim(r)
    \/ Send(r)
    \/ MarkPublished(r)
    \/ CommitPass(r)
    \/ Restart(r)

Failure(r) == SendFails(r) \/ SendRepeated(r) \/ PassFails(r)

Write == InsertRow \/ \E i \in open : CommitRow(i) \/ AbortRow(i)

Next ==
    \/ \E r \in Relays : Pass(r) \/ Failure(r)
    \/ Write
    \/ Sleep

Spec == Init /\ [][Next]_vars

\* Run loops for ever and a dead replica is restarted; writers owe nothing.
FairSpec == Spec /\ \A r \in Relays : WF_vars(Pass(r))

-----------------------------------------------------------------------------
(***************************************************************************)
(* Properties.                                                             *)
(***************************************************************************)

Copies(i) == {n \in DOMAIN topic[KeyOf[i]] : topic[KeyOf[i]][n] = i}

\* A row is marked published only once Kafka holds it, and Kafka holds nothing
\* whose transaction did not commit: no event is lost and none invented.
OutboxFaithful ==
    /\ \A i \in published : Copies(i) # {}
    /\ \A i \in Ids \ visible : Copies(i) = {}

\* A failure republishes at most one batch (RelayOnce's at-least-once: "a crash
\* between a successful Send and the row's UPDATE republishes that row").
\* Surplus copies are those beyond the first.
RepublishBounded ==
    \A k \in Keys :
        Len(topic[k]) <= Cardinality({i \in Ids : KeyOf[i] = k /\ Copies(i) # {}})
                         + faults * BatchSize

\* Events of a key whose transactions committed in id order reach its partition
\* in that order: no failed send, rolled back pass or crash lets a row overtake an
\* earlier one of its key ("a later event for the same key must not overtake a
\* failed earlier one").  Only an id that commits after a higher one, its writers
\* racing, may come late.
OrderPreserved ==
    \A k \in Keys : \A n \in DOMAIN topic[k] :
        \A i \in before[topic[k][n]] : \E m \in 1 .. n - 1 : topic[k][m] = i

\* Every committed row is eventually delivered and marked.
EventuallyPublished == \A i \in Ids : i \in visible ~> i \in published

-----------------------------------------------------------------------------
(***************************************************************************)
(* What makes OutboxFaithful and OrderPreserved inductive.                 *)
(***************************************************************************)

\* A row is open or committed, not both, and the sequence is past its id.
IdsDrawn == open \cap visible = {} /\ open \cup visible \subseteq 1 .. lastId

\* Passes lock, the topic holds and published_at marks committed rows only.
OnlyCommitted ==
    /\ published \subseteq visible
    /\ \A r \in Relays : Locked(r) \subseteq visible
    /\ \A k \in Keys : \A n \in DOMAIN topic[k] :
          topic[k][n] \in visible /\ KeyOf[topic[k][n]] = k

\* What a pass has marked, or is about to mark, Kafka holds.
MarkedSent ==
    \A r \in Relays :
        /\ \A i \in marked[r] : Copies(i) # {}
        /\ pc[r] = "mark" => batch[r] # {} /\ Copies(NextRow(r)) # {}

FaithInv ==
    /\ TypeOK
    /\ IdsDrawn
    /\ OnlyCommitted
    /\ MarkedSent
    /\ \A i \in published : Copies(i) # {}

\* Between passes a relay locks nothing.
IdleUnlocked == \A r \in Relays : pc[r] \in {"idle", "down"} => Locked(r) = {}

\* History names committed rows of the key with lower ids.
BeforeCommitted ==
    \A i \in Ids : \A j \in before[i] : j \in visible /\ KeyOf[j] = KeyOf[i] /\ j < i

\* No row is left behind a batch: one committed before it, of its key, is in the
\* same pass or published already.
BatchUnbroken ==
    \A r \in Relays : \A i \in batch[r] : before[i] \subseteq Locked(r) \cup published

OrderInv ==
    /\ FaithInv
    /\ IdleUnlocked
    /\ BeforeCommitted
    /\ BatchUnbroken
    /\ OrderPreserved

-----------------------------------------------------------------------------
(***************************************************************************)
(* What makes RepublishBounded inductive.                                  *)
(***************************************************************************)

\* A pass locks at most a batch of unpublished rows, and no other pass has them.
PassesApart ==
    /\ \A r \in Relays : /\ batch[r] \cap marked[r] = {}
                         /\ Locked(r) \cap published = {}
                         /\ Cardinality(Locked(r)) <= BatchSize
    /\ \A q, r \in Relays : q # r => Locked(q) \cap Locked(r) = {}

\* What a pass has sent and not committed.
SentBy(r) == marked[r] \cup {i \in batch[r] : pc[r] = "mark" /\ i = NextRow(r)}

\* The rows of a key that will not be sent again, unless something fails.
Paid(k) ==
    {i \in Ids : KeyOf[i] = k /\ (i \in published \/ \E r \in Relays : i \in SentBy(r))}

\* After e failures all copies but a batch per failure are of paid rows.
Owes(e) == \A k \in Keys : Len(topic[k]) <= Cardinality(Paid(k)) + e * BatchSize

ResendInv ==
    /\ FaithInv
    /\ IdleUnlocked
    /\ PassesApart
    /\ Owes(faults)

=============================================================================

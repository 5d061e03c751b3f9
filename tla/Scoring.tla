------------------------------- MODULE Scoring -------------------------------
(***************************************************************************)
(* Scoring beside revisions: Standards composed with the one step of a     *)
(* recording that depends on it, the lookup of the standard in force when  *)
(* a task was completed.  What else a recording does, and that its outcome *)
(* is stored once however often the message is delivered, is the subject   *)
(* of Recording; here an attempt reads the standard and then commits it    *)
(* into the task's row or fails and is tried again, at any later time.     *)
(***************************************************************************)
EXTENDS Standards

CONSTANTS
    Tasks,   \* tasks of a type that carries standards, one message each
    TypeOf   \* task |-> its task type

ASSUME TaskAssumption == TypeOf \in [Tasks -> TaskTypes]

VARIABLES
    step,        \* task: "working", "completed", "looked" in an open
                 \* transaction, "recorded"
    completedAt, \* task: evt.Time() of its message
    frozen,      \* task: the standard its row is scored against, {} for none
    unsettled    \* history: type |-> instants that lay between the stamp and
                 \* the commit of a revision

scoring == <<step, completedAt, frozen, unsettled>>

ScoringTypeOK ==
    /\ TypeOK
    /\ step \in [Tasks -> {"working", "completed", "looked", "recorded"}]
    /\ completedAt \in [Tasks -> 0 .. MaxClock]
    /\ frozen \in [Tasks -> SUBSET created]
    /\ unsettled \in [TaskTypes -> SUBSET (0 .. MaxClock)]

ScoringInit ==
    /\ Init
    /\ step = [k \in Tasks |-> "working"]
    /\ completedAt = [k \in Tasks |-> 0]
    /\ frozen = [k \in Tasks |-> {}]
    /\ unsettled = [type \in TaskTypes |-> {}]

-----------------------------------------------------------------------------

\* fulfillment-execution stamps the completion; its clock is not ahead of every
\* replica's, and a lag is a completion an earlier instant.
CompleteTask(k) ==
    /\ step[k] = "working"
    /\ step' = [step EXCEPT ![k] = "completed"]
    /\ completedAt' = [completedAt EXCEPT ![k] = clock]
    /\ UNCHANGED <<vars, frozen, unsettled>>

\* FindActiveAsOf: some committed row in force at t, or no row.
FindActiveAsOf(type, t) ==
    LET active == InForce(type, t)
    IN  IF active = {} THEN {{}} ELSE {{s} : s \in active}

\* Mutant: the task is scored against the standard active right now.
LookUpCurrent(k) ==
    /\ step[k] = "completed"
    /\ step' = [step EXCEPT ![k] = "looked"]
    /\ \E found \in FindActiveAsOf(TypeOf[k], clock) :
          frozen' = [frozen EXCEPT ![k] = found]
    /\ UNCHANGED <<vars, completedAt, unsettled>>

\* standardSecondsAtCompletion, for a task that is not unclassified.
LookUp(k) ==
    /\ step[k] = "completed"
    /\ step' = [step EXCEPT ![k] = "looked"]
    /\ \E found \in FindActiveAsOf(TypeOf[k], completedAt[k]) :
          frozen' = [frozen EXCEPT ![k] = found]
    /\ UNCHANGED <<vars, completedAt, unsettled>>

\* performance.New and Save, committed with the rest of the recording.
RecordTask(k) ==
    /\ step[k] = "looked"
    /\ step' = [step EXCEPT ![k] = "recorded"]
    /\ UNCHANGED <<vars, completedAt, frozen, unsettled>>

\* The attempt fails and is rolled back; the next one looks again.
RetryTask(k) ==
    /\ Fault
    /\ step[k] = "looked"
    /\ step' = [step EXCEPT ![k] = "completed"]
    /\ frozen' = [frozen EXCEPT ![k] = {}]
    /\ UNCHANGED <<clock, database, request, completedAt, unsettled>>

\* POST /standards beside it; history notes the instants a commit reached back
\* to.
ReviseStandard ==
    /\ Next
    /\ unsettled' = [type \in TaskTypes |-> unsettled[type] \cup
                        UNION {now[s] .. clock : s \in {r \in created' \ created :
                                                           WireTaskType[r] = type}}]
    /\ UNCHANGED <<step, completedAt, frozen>>

ScoringNext ==
    \/ \E k \in Tasks : CompleteTask(k) \/ LookUp(k) \/ RecordTask(k) \/ RetryTask(k)
    \/ ReviseStandard

ScoringSpec == ScoringInit /\ [][ScoringNext]_<<vars, scoring>>

-----------------------------------------------------------------------------
(***************************************************************************)
(* Properties.                                                             *)
(***************************************************************************)

\* A row's frozen standard is the one the history shows in force when the task
\* was completed, however late it is recorded and whatever is revised later
\* (ADR 0004: "the correct answer whether a message arrives in order, late, or
\* is redelivered").  The exception is a completion at an instant between the
\* stamp of a revision and its commit: the revision then takes effect at an
\* instant already looked up.
ScoreMatchesHistory ==
    \A k \in Tasks :
        /\ step[k] = "recorded"
        /\ completedAt[k] \notin unsettled[TypeOf[k]]
        => InForce(TypeOf[k], completedAt[k]) = frozen[k]

=============================================================================

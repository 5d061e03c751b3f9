------------------------------ MODULE ScoreOnce ------------------------------
(***************************************************************************)
(* What the write path promises, without consumers, offsets, transactions  *)
(* or failures: a completed task is scored at most once, its score never   *)
(* changes afterwards, and the step that scores it also enters it in the   *)
(* ledger of TaskPerformanceRecorded events, so the ledger lists every     *)
(* scored task exactly once, in the order the scores became visible.       *)
(***************************************************************************)
EXTENDS Integers, Sequences

CONSTANTS
    Messages,          \* completed tasks, by CloudEvents id
    StandardSeconds,   \* standards a task may be scored against
    NoScore            \* the task has no performance row

VARIABLES
    score,    \* task |-> frozen standard, or NoScore
    ledger    \* tasks announced, oldest first

vars == <<score, ledger>>

Init ==
    /\ score = [m \in Messages |-> NoScore]
    /\ ledger = <<>>

Score(m, s) ==
    /\ score[m] = NoScore
    /\ score' = [score EXCEPT ![m] = s]
    /\ ledger' = Append(ledger, m)

Next == \E m \in Messages, s \in StandardSeconds : Score(m, s)

Spec == Init /\ [][Next]_vars

=============================================================================

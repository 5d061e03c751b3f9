----------------------------- MODULE MCRecording -----------------------------
(***************************************************************************)
(* Small instances of Recording.                                           *)
(*                                                                         *)
(* Ann completes t1 at tick 10.  After it, the claim of t2 leaves a gap of *)
(* three seconds, t3's one of seven and a half, longer than the cap, and   *)
(* t4's one of half a second.  r1 is a robot task, x1 .. x4 are the        *)
(* messages that are skipped or refused.                                   *)
(***************************************************************************)
EXTENDS Recording

MCMessages == {"t1", "t2", "t3", "t4", "r1", "x1", "x2", "x3", "x4"}

MCKind ==
    [m \in MCMessages |->
        CASE m = "x1" -> "undecodable"
          [] m = "x2" -> "malformed"
          [] m = "x3" -> "noTaskId"
          [] m = "x4" -> "other"
          [] OTHER    -> "completed"]

MCAssociateId ==
    [m \in MCMessages |-> IF m = "r1" THEN "" ELSE "ann"]

MCWireTaskType ==
    [m \in MCMessages |-> CASE m = "t1" -> "PICK"
                            [] m = "t2" -> "REBIN"
                            [] OTHER    -> "PACK"]

MCCompletedAt ==
    [m \in MCMessages |-> CASE m = "t1" -> 10
                            [] m = "t2" -> 20
                            [] m = "t3" -> 31
                            [] m = "t4" -> 15
                            [] OTHER    -> 40]

MCActualSeconds ==
    [m \in MCMessages |-> CASE m = "t1" -> 2
                            [] m = "t2" -> 2
                            [] m = "t3" -> 3
                            [] m = "t4" -> 2
                            [] OTHER    -> 0]

\* One partition holding a message of each kind the loop refuses or skips, the
\* other a redelivery of t1 and a task after it.
PoisonLogs ==
    {[p1 |-> <<"x1", "t1">>, p2 |-> <<"t1", "t2">>],
     [p1 |-> <<"x2", "t1">>, p2 |-> <<"t1", "t3">>],
     [p1 |-> <<"x3", "t1">>, p2 |-> <<"t1", "t4">>],
     [p1 |-> <<"x4", "t1">>, p2 |-> <<"t1", "t2">>]}

\* Two partitions with tasks of the same associate.
SplitLogs == {[p1 |-> <<"t1", "t2">>, p2 |-> <<"t3">>]}

=============================================================================

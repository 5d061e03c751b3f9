---------------------------- MODULE MCReadModels -----------------------------
(***************************************************************************)
(* Ann completes four tasks of ten seconds, scored against a standard of   *)
(* eight or twelve seconds (80 or 120 per cent) or not at all; the third   *)
(* may be delivered after the fourth.  "r1" is a robot's task, "b1" and     *)
(* "b2" are Bob's.                                                         *)
(***************************************************************************)
EXTENDS ReadModels

MCMessages == {"t1", "t2", "t3", "t4", "r1", "b1", "b2"}

MCKind == [m \in MCMessages |-> "completed"]

MCAssociateId == [m \in MCMessages |-> CASE m = "r1" -> ""
                                         [] m \in {"b1", "b2"} -> "bob"
                                         [] OTHER -> "ann"]

MCWireTaskType == [m \in MCMessages |-> IF m = "t2" THEN "PACK" ELSE "PICK"]

MCCompletedAt == [m \in MCMessages |-> CASE m = "t1" -> 10
                                         [] m = "t2" -> 25
                                         [] m = "t3" -> 40
                                         [] m = "t4" -> 52
                                         [] m = "r1" -> 45
                                         [] m = "b1" -> 12
                                         [] m = "b2" -> 35]

MCActualSeconds == [m \in MCMessages |-> 10]

MCLogs == {[p \in {"p1"} |-> s] : s \in {<<"t1", "t2", "t3", "t4">>,
                                         <<"t1", "t2", "t4", "t3">>,
                                         <<"r1", "t1", "t3">>,
                                         <<"t1", "b1", "t3", "b2">>}}

=============================================================================

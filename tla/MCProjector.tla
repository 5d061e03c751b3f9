----------------------------- MODULE MCProjector -----------------------------
(***************************************************************************)
(* Small instances of Projector, with hours of ten ticks.  Of the tasks,   *)
(* "t1" and "t2" are PICK in different hours, "t2" is not scored, "u1" is  *)
(* a robot's, unclassified, without a business time or a duration; "d1"    *)
(* and "v1" define and revise the PICK standard; "x1" .. "x3" move no      *)
(* counter.                                                                *)
(***************************************************************************)
EXTENDS Projector

MCEvents == {"t1", "t2", "u1", "d1", "v1", "x1", "x2", "x3"}

MCKind == [e \in MCEvents |-> CASE e = "x1" -> "malformed"
                                [] e = "x2" -> "other"
                                [] e = "x3" -> "undecodable"
                                [] OTHER -> "encoded"]

MCPublished ==
    [t1 |-> TaskPerformanceRecorded("t1", "ann", "PICK", 5, {80}, {}, {9}, 21),
     t2 |-> TaskPerformanceRecorded("t2", "ann", "PICK", 7, {}, {1}, {10}, 21),
     u1 |-> TaskPerformanceRecorded("u1", "", "", 0, {}, {}, {}, 12),
     d1 |-> LaborStandardDefined("d1", "PICK", 4, {9}, 9),
     v1 |-> LaborStandardRevised("v1", "PICK", 4, 6, {10}, 10)]

\* PICK events on one partition, late or redelivered; the other task type and a
\* message that moves no counter on the other.
MCLogs ==
    {[p1 |-> <<"t2", "t1">>, p2 |-> <<"x1", "u1">>],
     [p1 |-> <<"d1", "t1">>, p2 |-> <<"x2", "u1">>],
     [p1 |-> <<"v1", "t2">>, p2 |-> <<"u1", "x3">>],
     [p1 |-> <<"t1", "t1">>, p2 |-> <<"u1", "u1">>]}

Request(from, to, type, granularity) ==
    [from |-> from, to |-> to, taskType |-> type, granularity |-> granularity]

\* The two hours apart and together, windows that cut an hour, an empty window
\* and one without a bound.
MCRequests ==
    {Request({w[1]}, {w[2]}, t, "hour") :
        w \in {<<0, 10>>, <<0, 20>>, <<1, 20>>, <<10, 10>>}, t \in {"", "PICK"}}
    \cup {Request({0}, {11}, "UNCLASSIFIED", ""), Request({}, {10}, "", ""),
          Request({20}, {0}, "", "hour"), Request({0}, {20}, "", "day")}

LossLogs == {[p1 |-> <<"t1">>, p2 |-> <<"u1">>]}

=============================================================================

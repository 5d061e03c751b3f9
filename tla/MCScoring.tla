------------------------------ MODULE MCScoring ------------------------------
(***************************************************************************)
(* Three revisions of PICK beside a PICK task.                             *)
(***************************************************************************)
EXTENDS Scoring

MCKey == [r \in Requests |-> r]

MCWireTaskType == [r \in Requests |-> "PICK"]

MCExpectedSeconds == [r \in Requests |-> CASE r = "a" -> 30
                                           [] r = "b" -> 50
                                           [] OTHER -> 60]

MCTravelSeconds == [r \in Requests |-> {}]

MCTypeOf == [k \in Tasks |-> "PICK"]

=============================================================================

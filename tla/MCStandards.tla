----------------------------- MODULE MCStandards -----------------------------
(***************************************************************************)
(* Small instances of Standards: "a", "b" and "c" define PICK and "a2" is  *)
(* a client's retry of "a".  "x" and "z" reuse its key, for an unknown     *)
(* task type and for a travel component above the whole; "n" has no key.   *)
(* Whichever request of a key comes first decides its outcome.             *)
(***************************************************************************)
EXTENDS Standards

MCKey == [r \in Requests |-> CASE r \in {"a", "a2", "x", "z"} -> "k1"
                               [] r = "n" -> ""
                               [] OTHER -> r]

MCWireTaskType == [r \in Requests |-> IF r = "x" THEN "REBIN" ELSE "PICK"]

MCExpectedSeconds == [r \in Requests |-> CASE r \in {"a", "a2"} -> 30
                                           [] r = "b" -> 50
                                           [] OTHER -> 60]

MCTravelSeconds == [r \in Requests |-> IF r = "z" THEN {61} ELSE {}]

=============================================================================

---------------------------- MODULE MCOutboxRelay ----------------------------
(***************************************************************************)
(* Rows on two keys: only the second row is not on "k1".                   *)
(***************************************************************************)
EXTENDS OutboxRelay

MCKeyOf == [i \in Ids |-> IF i = 2 THEN "k2" ELSE "k1"]

=============================================================================

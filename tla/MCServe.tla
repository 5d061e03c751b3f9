------------------------------- MODULE MCServe -------------------------------
(***************************************************************************)
(* The rows are those of two events, a task of Ann's and the definition of *)
(* a PICK standard: of three rows the second is on the integration topic,  *)
(* so that a batch of two mixes keys, and the others share a key.          *)
(***************************************************************************)
EXTENDS Serve, EventEncoders

MCRows ==
    OutboxMessages(TaskPerformanceRecorded("t1", "ann", "PICK", 5, {80}, {}, {9}, 21))
    \o OutboxMessages(LaborStandardDefined("d1", "PICK", 4, {9}, 9))

MCKeyOf ==
    [i \in Ids |-> IF i = 2 THEN <<"events", "ann">> ELSE <<"analytics", "PICK">>]

MCKeys == {<<"events", "ann">>, <<"analytics", "PICK">>}

\* The keys are the ones the encoders give those rows.
ASSUME EncodedKeys == \A i \in Ids : MCKeyOf[i] = <<MCRows[i].stream, MCRows[i].key>>

=============================================================================

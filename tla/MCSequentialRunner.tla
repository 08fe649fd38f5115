------------------------- MODULE MCSequentialRunner -------------------------
(***************************************************************************)
(* Instances of SequentialRunner: two tasks in a row, one retry, the       *)
(* process that runs and up to two that resume.                            *)
(***************************************************************************)
EXTENDS LegacyEvidence

SecondAfterFirst == [t \in Tasks |-> IF t = 2 THEN {1} ELSE {}]

=============================================================================

------------------------- MODULE MCSelectiveResume -------------------------
(***************************************************************************)
(* Instances of SelectiveResume: tasks in a row, a run, its resumes and    *)
(* the resumes of those, over both stores.                                 *)
(***************************************************************************)
EXTENDS SelectiveResume

Chain == [t \in Tasks |-> IF t = 1 THEN {} ELSE {t - 1}]
NothingOrOneForced == {{}} \cup {{t} : t \in Tasks}

=============================================================================

--------------------------- MODULE MCChildProcess ---------------------------
(***************************************************************************)
(* Instances of a call of run_cargo for TLC.                               *)
(***************************************************************************)
EXTENDS ChildProcess

CONSTANTS cargo, t1, t2

TwoTests == {t1, t2}

=============================================================================

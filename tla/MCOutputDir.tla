----------------------------- MODULE MCOutputDir -----------------------------
(***************************************************************************)
(* Instances of the output directory for TLC.                              *)
(***************************************************************************)
EXTENDS OutputDir

CONSTANTS r1, r2, r3

TwoRuns == {r1, r2}
ThreeRuns == {r1, r2, r3}

=============================================================================

----------------------------- MODULE MCSessions -----------------------------
(***************************************************************************)
(* Instances for TLC: three invocations, of which two may wait for the     *)
(* first, two mutants and two workers.                                     *)
(***************************************************************************)
EXTENDS Sessions, TLC

CONSTANTS r1, r2, r3, m1, m2

ThreeRuns == {r1, r2, r3}
TwoMutants == {m1, m2}

Alike == Permutations(ThreeRuns) \cup Permutations(TwoMutants)

=============================================================================

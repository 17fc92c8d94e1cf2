----------------------------- MODULE MCArtifacts -----------------------------
(* A workspace of two packages: a has two mutants and two test executables,  *)
(* its unit tests and an integration test; b has a mutant and one executable, *)
(* and may depend on a.                                                       *)
EXTENDS Artifacts, TLC

CONSTANTS a, b, unit, integration, other, m1, m2, m3, d0, d1

MCPackageOf == (m1 :> a) @@ (m2 :> a) @@ (m3 :> b)
MCOwnerOf == (unit :> a) @@ (integration :> a) @@ (other :> b)

LinkedWith(packages) == (unit :> {a}) @@ (integration :> {a}) @@ (other :> packages)
\* b's executable has a's code in it; the compiler may make nothing of that.
MCLinked == {LinkedWith({a, b})}

\* The default with every baseline, and --test-workspace and --test-package=b without
\* coverage.
MCSettings ==
    {s \in AllSettings :
        /\ s.test_package.named = IF s.test_package.kind = "Explicit" THEN {b} ELSE {}
        /\ s.skip_uncovered => s.test_package.kind = "Mutated"
        /\ s.test_package.kind = "Explicit" => s.baseline = "Run"}

\* None, or those of a run that ended with a mutant of package a in the tree.
MCLeftovers == {<<>>, [f \in Executables \X {"plain"} |-> IF f[1] = unit THEN d1 ELSE d0]}

MCFaulty == {<<other, "plain">>}

MutantSymmetry == Permutations({m1, m2})
=============================================================================

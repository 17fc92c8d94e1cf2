------------------------------ MODULE Artifacts ------------------------------
(***************************************************************************)
(* What --detect-equivalent-mutants compares (src/artifacts.rs, and        *)
(* equivalent_build in src/lab.rs): the test executables that lie in the   *)
(* deps directory of a build directory, which are those that the last      *)
(* build wrote and whatever earlier builds there have left.                *)
(*                                                                         *)
(* The lab chooses any fingerprint after a build; here it is the one that  *)
(* the files have.  Digests stand for contents: two contents that differ   *)
(* have different digests.  A build directory starts with the executables  *)
(* of earlier runs, if --in-place or --copy-target has it keep them, and   *)
(* worker 1 is the one that takes the baseline's.                          *)
(***************************************************************************)
EXTENDS Naturals, FiniteSets, Functions

CONSTANTS Mutants,
          Baseline,      \* the tree without a mutation
          None,
          Packages,
          PackageOf,     \* the package each mutant is in
          Executables,   \* the test executables of the workspace
          OwnerOf,       \* the package each executable tests
          Linked,        \* the sets of packages each executable may be built from
          Digests,       \* contents of an executable
          Unmutated,     \* the digest of what the unmutated tree builds
          Instrumented,  \* the digest of what it builds with -Cinstrument-coverage
          Leftovers,     \* the files a build directory may start with
          Faulty,        \* bound on the files over which I/O may go wrong
          NWorkers,
          Settings,      \* the combinations of options to explore
          MaxFailures    \* bound on the builds that fail

Selections == [kind : {"Workspace", "Mutated", "Explicit"}, named : SUBSET Packages]

\* coverage_tools refuses --skip-uncovered without a baseline.
AllSettings ==
    {s \in [test_package : Selections, baseline : {"Run", "Skip"}, skip_uncovered : BOOLEAN] :
        s.skip_uncovered => s.baseline = "Run"}

Files == Executables \X {"plain", "instrumented"}
Contents == Digests \cup {Instrumented}

ASSUME ArtifactsAssumption ==
    /\ PackageOf \in [Mutants -> Packages]
    /\ OwnerOf \in [Executables -> Packages]
    /\ Linked \subseteq [Executables -> SUBSET Packages]
    /\ Unmutated \in Digests /\ Instrumented \notin Digests
    /\ Baseline \notin Mutants /\ None \notin Mutants /\ None # Baseline
    /\ Leftovers \subseteq UNION {[fs -> Contents] : fs \in SUBSET Files}
    /\ NWorkers \in Nat \ {0}
    /\ Settings \subseteq AllSettings
    /\ MaxFailures \in Nat

Workers == 1 .. NWorkers

VARIABLES
    settings,      \* the options of this run
    compiled,      \* what the compiler makes of each executable in each tree
    separate,      \* whether cargo names files by the RUSTFLAGS too
    left,          \* the executables that earlier runs have left
    baselined,     \* the baseline has been built and tested, or skipped
    deps,          \* the executables in each worker's deps directory
    holds,         \* the mutant each worker has taken, or None
    progress,      \* how far each mutant is
    baselinePrint, \* baseline_fingerprint : OnceLock
    prints,        \* mutant_fingerprints
    broken,        \* mutants whose build failed
    blind          \* (history) mutants skipped without a look at all that tests them

given == <<settings, compiled, separate, left>>
vars == <<given, baselined, deps, holds, progress, baselinePrint, prints, broken, blind>>

TypeOK ==
    /\ settings \in Settings
    /\ compiled \in [Executables -> [Mutants \cup {Baseline} -> Digests]]
    /\ left \in Leftovers
    /\ deps \in [Workers -> UNION {[fs -> Contents] : fs \in SUBSET Files}]
    /\ holds \in [Workers -> Mutants \cup {None}]
    /\ progress \in [Mutants ->
          {"queued", "build", "compare", "test", "tested", "equivalent", "failed"}]
    /\ Range(prints) \subseteq Mutants
    /\ broken \subseteq Mutants /\ blind \subseteq Mutants

-----------------------------------------------------------------------------
(* Building *)

\* TestsForMutant: the packages a mutant's cargo is told to build and test.
PackagesToTest(m) ==
    CASE settings.test_package.kind = "Workspace" -> Packages
      [] settings.test_package.kind = "Mutated"   -> {PackageOf[m]}
      [] settings.test_package.kind = "Explicit"  -> settings.test_package.named

\* run_baseline: all the packages that have mutants.
MutatedPackages == {PackageOf[m] : m \in Mutants}

TestsOf(packages) == {x \in Executables : OwnerOf[x] \in packages}
TestsFor(m) == TestsOf(PackagesToTest(m))

\* A mutation is seen only by the executables that its package is linked into,
\* and -Cdebuginfo=0 makes what the compiler writes depend on nothing else.
Compilers(linked) ==
    {c \in [Executables -> [Mutants \cup {Baseline} -> Digests]] :
        \A x \in Executables :
            /\ c[x][Baseline] = Unmutated
            /\ \A m \in Mutants : PackageOf[m] \notin linked[x] => c[x][m] = Unmutated}

\* The executables xs of the tree that holds m, as cargo writes them.
Built(xs, m) == [f \in xs \X {"plain"} |-> compiled[f[1]][m]]

\* The baseline's, which instrumented_env may have had instrumented.
BuiltForCoverage(xs) ==
    IF settings.skip_uncovered
    THEN [f \in xs \X {IF separate THEN "instrumented" ELSE "plain"} |-> Instrumented]
    ELSE Built(xs, Baseline)

\* Cargo replaces the files it builds and removes none.
Written(files, new) ==
    [f \in DOMAIN files \cup DOMAIN new |-> IF f \in DOMAIN new THEN new[f] ELSE files[f]]

-----------------------------------------------------------------------------
(* Comparing *)

\* test_executables: all that can be listed; an entry, or the mode of a file, that
\* cannot be read is passed over.
TestExecutables(files, missed) == Restrict(files, DOMAIN files \ missed)

\* Variant of Fingerprint: a file that cannot be read is passed over.
FingerprintOfReadable(files, unreadable) ==
    IF DOMAIN files \subseteq unreadable THEN {} ELSE {Restrict(files, DOMAIN files \ unreadable)}

\* fingerprint_build_artifacts, as a set of one or none: the names and contents
\* of all the executables listed, if there are any and all of them can be read.
Fingerprint(files, unreadable) ==
    IF files = <<>> \/ unreadable # {} THEN {} ELSE {files}

\* I/O goes well, or wrong for some of the files.
Missing(files) == SUBSET (DOMAIN files \cap Faulty)

\* What may be found of these files, and made of it.
Prints(files, missed) ==
    LET found == TestExecutables(files, missed) IN
    {Fingerprint(found, unreadable) : unreadable \in Missing(found)}

-----------------------------------------------------------------------------

Init ==
    /\ settings \in Settings
    /\ \E linked \in Linked : compiled \in Compilers(linked)
    /\ separate \in IF settings.skip_uncovered THEN BOOLEAN ELSE {FALSE}
    /\ baselined = FALSE
    /\ left \in Leftovers
    /\ deps = [w \in Workers |-> left]
    /\ holds = [w \in Workers |-> None]
    /\ progress = [m \in Mutants |-> "queued"]
    /\ baselinePrint = {}
    /\ prints = <<>>
    /\ broken = {}
    /\ blind = {}

RunBaseline ==
    /\ ~baselined
    /\ settings.baseline = "Run"
    /\ deps' = [deps EXCEPT ![1] = Written(@, BuiltForCoverage(TestsOf(MutatedPackages)))]
    /\ \E missed \in Missing(deps'[1]) : baselinePrint' \in Prints(deps'[1], missed)
    /\ baselined' = TRUE
    /\ UNCHANGED <<given, holds, progress, prints, broken, blind>>

SkipBaseline ==
    /\ ~baselined
    /\ settings.baseline = "Skip"
    /\ baselined' = TRUE
    /\ UNCHANGED <<given, deps, holds, progress, baselinePrint, prints, broken, blind>>

Take(w) ==
    /\ baselined
    /\ holds[w] = None
    /\ \E m \in Mutants :
          /\ progress[m] = "queued"
          /\ holds' = [holds EXCEPT ![w] = m]
          /\ progress' = [progress EXCEPT ![m] = "build"]
    /\ UNCHANGED <<given, baselined, deps, baselinePrint, prints, broken, blind>>

\* The mutant w holds is at this point.
At(w, point) == holds[w] # None /\ progress[holds[w]] = point

Advance(w, point) == progress' = [progress EXCEPT ![holds[w]] = point]

\* The scenario is over, and its file reverted.
Finish(w, point) == Advance(w, point) /\ holds' = [holds EXCEPT ![w] = None]

Build(w) ==
    /\ At(w, "build")
    /\ deps' = [deps EXCEPT ![w] = Written(@, Built(TestsFor(holds[w]), holds[w]))]
    /\ Advance(w, "compare")
    /\ UNCHANGED <<given, baselined, holds, baselinePrint, prints, broken, blind>>

\* The build does not compile or is ended by its timeout, after it has written
\* some of the executables.
BuildFails(w) ==
    /\ At(w, "build")
    /\ Cardinality(broken) < MaxFailures
    /\ broken' = broken \cup {holds[w]}
    /\ \E xs \in SUBSET TestsFor(holds[w]) :
          deps' = [deps EXCEPT ![w] = Written(@, Built(xs, holds[w]))]
    /\ Finish(w, "failed")
    /\ UNCHANGED <<given, baselined, baselinePrint, prints, blind>>

\* equivalent_build: what has this fingerprint already.
KnownAs(print) ==
    IF print # {} /\ print = baselinePrint THEN {Baseline}
    ELSE {prints[p] : p \in print \cap DOMAIN prints}

\* The build is the first with its fingerprint, or has none.
CompareNew(w) ==
    /\ At(w, "compare")
    /\ \E missed \in Missing(deps[w]) : \E print \in Prints(deps[w], missed) :
          /\ KnownAs(print) = {}
          /\ prints' = Written(prints, [p \in print |-> holds[w]])
    /\ Advance(w, "test")
    /\ UNCHANGED <<given, baselined, deps, holds, baselinePrint, broken, blind>>

\* The build is identical to the baseline's or an earlier mutant's, in what is found.
CompareEqual(w) ==
    /\ At(w, "compare")
    /\ \E missed \in Missing(deps[w]) :
          /\ \E print \in Prints(deps[w], missed) : KnownAs(print) # {}
          /\ blind' = IF \E x \in TestsFor(holds[w]) : <<x, "plain">> \in missed
                      THEN blind \cup {holds[w]} ELSE blind
    /\ Finish(w, "equivalent")
    /\ UNCHANGED <<given, baselined, deps, baselinePrint, prints, broken>>

Test(w) ==
    /\ At(w, "test")
    /\ Finish(w, "tested")
    /\ UNCHANGED <<given, baselined, deps, baselinePrint, prints, broken, blind>>

Done ==
    /\ baselined
    /\ \A m \in Mutants : progress[m] \in {"tested", "equivalent", "failed"}
    /\ UNCHANGED vars

Next ==
    \/ RunBaseline \/ SkipBaseline
    \/ \E w \in Workers :
          Take(w) \/ Build(w) \/ BuildFails(w) \/ CompareNew(w) \/ CompareEqual(w) \/ Test(w)
    \/ Done

Spec == Init /\ [][Next]_vars

-----------------------------------------------------------------------------

\* The tests that m runs cannot tell it from other.
SameTests(m, other) ==
    \A x \in TestsFor(m) : compiled[x][m] = compiled[x][other]

\* A file that no test of this run has seen: an earlier run left it, or a build did
\* that then failed, or that was skipped for what it has in common with another.
Unseen(x, digest) ==
    \/ <<x, "plain">> \in DOMAIN left /\ left[<<x, "plain">>] = digest
    \/ \E r \in broken \cup blind : x \in TestsFor(r) /\ compiled[x][r] = digest

\* What the tests of executable x do with this code is on the record.
Seen(x, digest) ==
    \/ digest = Unmutated
    \/ \E r \in Mutants : /\ progress[r] \in {"test", "tested"}
                          /\ x \in TestsFor(r) /\ compiled[x][r] = digest

\* The exception: m's executables are such files, or a mixture with ones on the record,
\* that lay next to those of another mutant when it was compared, or are m's own.
IsLeftover(m) ==
    /\ \E x \in TestsFor(m) : Unseen(x, compiled[x][m])
    /\ \A x \in TestsFor(m) : Seen(x, compiled[x][m]) \/ Unseen(x, compiled[x][m])

Repeats(m) ==
    \/ SameTests(m, Baseline)
    \/ \E r \in Mutants : /\ progress[r] \in {"test", "tested"}
                          /\ TestsFor(m) \subseteq TestsFor(r)
                          /\ SameTests(m, r)

\* A mutant is skipped only if the executables that test it are those of the
\* unmutated tree, or those of a mutant that is tested with all of them, so that
\* its outcome is already on the record.  Stale executables in deps, instrumented
\* baselines, files that cannot be read and two workers that build the same code at
\* once do not change that (fingerprint_build_artifacts and equivalent_build).  Two
\* things do: what an earlier run, a failed build or a skipped one left in deps, and
\* an executable of its own that test_executables could not list.
SkipsRepeatATest ==
    \A m \in Mutants : progress[m] = "equivalent" => Repeats(m) \/ IsLeftover(m)

=============================================================================

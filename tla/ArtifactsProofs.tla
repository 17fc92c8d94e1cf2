--------------------------- MODULE ArtifactsProofs ---------------------------
(***************************************************************************)
(* Proofs about --detect-equivalent-mutants, for every workspace, number   *)
(* of workers and way in which mutants compile: whatever lies in a build   *)
(* directory, a mutant that is skipped repeats a test.                     *)
(***************************************************************************)
EXTENDS Artifacts, TLAPS

\* What a mutant has to be that is skipped, and a file that lies in deps.
Accounted(m) == Repeats(m) \/ IsLeftover(m)
Known(x, digest) == Seen(x, digest) \/ Unseen(x, digest)

\* The files hold what m's build writes.
Fits(files, m) ==
    \A x \in TestsFor(m) :
        <<x, "plain">> \in DOMAIN files /\ files[<<x, "plain">>] = compiled[x][m]

\* Where each file comes from: a baseline, a mutant that is tested, a build that
\* failed, or the one that has just been built.
FilesSeen(files, current) ==
    \A x \in Executables : <<x, "plain">> \in DOMAIN files =>
        \/ files[<<x, "plain">>] = Instrumented
        \/ Known(x, files[<<x, "plain">>])
        \/ \E r \in current : x \in TestsFor(r) /\ files[<<x, "plain">>] = compiled[x][r]

\* Whatever mutant would build these very files again repeats a test.
Explained(files, current) ==
    \A m \in Mutants : Fits(files, m) =>
        \/ Accounted(m)
        \/ \E r \in current : TestsFor(m) \subseteq TestsFor(r) /\ SameTests(m, r)

\* The mutant whose build w has not compared yet.
Current(w) == IF At(w, "compare") THEN {holds[w]} ELSE {}

HoldersDiffer ==
    /\ \A w \in Workers : holds[w] # None =>
          baselined /\ progress[holds[w]] \in {"build", "compare", "test"}
    /\ \A w, v \in Workers : w # v /\ holds[w] # None => holds[w] # holds[v]

DirExplained(w) ==
    /\ At(w, "compare") => Fits(deps[w], holds[w])
    /\ FilesSeen(deps[w], Current(w))
    /\ Explained(deps[w], Current(w))

DirsExplained == \A w \in Workers : DirExplained(w)

PrintsExplained ==
    \A files \in baselinePrint \cup DOMAIN prints : Explained(files, {})

BaselineCompiles == \A x \in Executables : compiled[x][Baseline] = Unmutated

\* Until there is a baseline nothing has been built.
Unbuilt == ~baselined => \A w \in Workers : deps[w] = left

ArtifactsInv ==
    /\ TypeOK /\ BaselineCompiles /\ Unbuilt
    /\ HoldersDiffer /\ DirsExplained /\ PrintsExplained
    /\ SkipsRepeatATest

-----------------------------------------------------------------------------

\* Two mutants are tested by the same executables or by different ones.
LEMMA TestsMeet ==
    ASSUME settings \in Settings, NEW m \in Mutants, NEW r \in Mutants,
           NEW x, x \in TestsFor(m), x \in TestsFor(r)
    PROVE  TestsFor(m) = TestsFor(r)
<1>1. settings.test_package.kind \in {"Workspace", "Mutated", "Explicit"}
  BY ArtifactsAssumption DEF AllSettings, Selections
<1>2. CASE settings.test_package.kind = "Mutated"
  BY <1>2 DEF TestsFor, TestsOf, PackagesToTest
<1>3. CASE settings.test_package.kind = "Workspace"
  BY <1>3 DEF TestsFor, PackagesToTest
<1>4. CASE settings.test_package.kind = "Explicit"
  BY <1>4 DEF TestsFor, PackagesToTest
<1> QED BY <1>1, <1>2, <1>3, <1>4

\* The record only grows: what has been seen stays seen, and what repeats a test
\* goes on repeating it.
RecordGrows ==
    /\ UNCHANGED <<settings, compiled, left>>
    /\ broken \subseteq broken' /\ blind \subseteq blind'
    /\ \A r \in Mutants : progress[r] \in {"test", "tested"} => progress'[r] \in {"test", "tested"}

\* What tests have seen stays seen.
LEMMA SeenKept ==
    ASSUME RecordGrows
    PROVE  /\ \A m : TestsFor(m)' = TestsFor(m)
           /\ \A m, r : SameTests(m, r)' <=> SameTests(m, r)
           /\ \A x, digest : Known(x, digest) => Known(x, digest)'
           /\ \A m \in Mutants : Accounted(m) => Accounted(m)'
<1>1. \A m : TestsFor(m)' = TestsFor(m)
  BY DEF RecordGrows, TestsFor, TestsOf, PackagesToTest
<1>2. \A m, r : SameTests(m, r)' <=> SameTests(m, r)
  BY <1>1 DEF RecordGrows, SameTests
<1>3. \A x, digest : Known(x, digest) => Known(x, digest)'
  <2>1. \A x, digest : Seen(x, digest) => Seen(x, digest)'
    BY <1>1 DEF RecordGrows, Seen
  <2>2. \A x, digest : Unseen(x, digest) => Unseen(x, digest)'
    BY <1>1 DEF RecordGrows, Unseen
  <2> QED BY <2>1, <2>2 DEF Known
<1>4. \A m \in Mutants : IsLeftover(m) => IsLeftover(m)'
  <2>1. \A x, digest : Unseen(x, digest) => Unseen(x, digest)'
    BY <1>1 DEF RecordGrows, Unseen
  <2> QED BY <1>1, <1>3, <2>1 DEF RecordGrows, IsLeftover, Known
<1>5. \A m \in Mutants : Accounted(m) => Accounted(m)'
  BY <1>1, <1>2, <1>4 DEF RecordGrows, Repeats, Accounted
<1> QED BY <1>1, <1>2, <1>3, <1>5

\* What m repeats, a mutant with the same executables repeats too.
LEMMA RepeatsAlike ==
    ASSUME settings \in Settings, NEW m \in Mutants, NEW r \in Mutants, Accounted(r),
           TestsFor(m) \subseteq TestsFor(r), SameTests(m, r)
    PROVE  Accounted(m)
<1>1. CASE TestsFor(m) = {}
  BY <1>1 DEF Repeats, Accounted, SameTests
<1>2. CASE TestsFor(m) # {}
  <2>1. TestsFor(m) = TestsFor(r)
    BY <1>2, TestsMeet
  <2>2. \A x \in TestsFor(m) : compiled[x][m] = compiled[x][r]
    BY DEF SameTests
  <2> QED BY <2>1, <2>2 DEF Repeats, Accounted, SameTests, IsLeftover
<1> QED BY <1>1, <1>2

\* Files no test has seen make a mutant a leftover, whatever lies next to them.
LEMMA LeftoverAccounted ==
    ASSUME NEW m \in Mutants, NEW x \in TestsFor(m), Unseen(x, compiled[x][m]),
           \A y \in TestsFor(m) : Known(y, compiled[y][m])
    PROVE  Accounted(m)
BY DEF Accounted, IsLeftover, Known

\* The executables of a mutant that repeats a test have been seen.
LEMMA RepeatsSeen ==
    ASSUME BaselineCompiles, NEW m \in Mutants, Accounted(m), NEW x \in TestsFor(m)
    PROVE  Known(x, compiled[x][m])
<1>1. x \in Executables
  BY DEF TestsFor, TestsOf
<1> QED BY <1>1 DEF Accounted, Repeats, SameTests, IsLeftover, Known, Seen, BaselineCompiles

\* A build directory that a step leaves alone stays explained by the same mutant.
LEMMA ExplainedKept ==
    ASSUME RecordGrows
    PROVE  /\ \A files, m : Fits(files, m)' <=> Fits(files, m)
           /\ \A files, S : FilesSeen(files, S) => FilesSeen(files, S)'
           /\ \A files, S : Explained(files, S) => Explained(files, S)'
<1>1. \A files, m : Fits(files, m)' <=> Fits(files, m)
  BY SeenKept DEF Fits, RecordGrows
<1>2. \A files, S : FilesSeen(files, S) => FilesSeen(files, S)'
  BY SeenKept DEF FilesSeen, RecordGrows
<1>3. \A files, S : Explained(files, S) => Explained(files, S)'
  BY <1>1, SeenKept DEF Explained, RecordGrows
<1> QED BY <1>1, <1>2, <1>3

\* A directory in which nothing is mutated but what earlier runs have left.
LEMMA UntestedDir ==
    ASSUME TypeOK, BaselineCompiles, NEW files,
           \A x \in Executables : <<x, "plain">> \in DOMAIN files =>
               \/ files[<<x, "plain">>] \in {Unmutated, Instrumented}
               \/ Unseen(x, files[<<x, "plain">>])
    PROVE  FilesSeen(files, {}) /\ Explained(files, {})
<1>1. FilesSeen(files, {})
  BY DEF FilesSeen, Known, Seen
<1>2. Explained(files, {})
  <2> SUFFICES ASSUME NEW m \in Mutants, Fits(files, m) PROVE Accounted(m)
    BY DEF Explained
  <2>1. \A x \in TestsFor(m) : compiled[x][m] = Unmutated \/ Unseen(x, compiled[x][m])
    <3> SUFFICES ASSUME NEW x \in TestsFor(m)
                 PROVE  compiled[x][m] = Unmutated \/ Unseen(x, compiled[x][m])
      OBVIOUS
    <3>1. /\ x \in Executables /\ <<x, "plain">> \in DOMAIN files
          /\ files[<<x, "plain">>] = compiled[x][m]
      BY DEF Fits, TestsFor, TestsOf
    <3>2. compiled[x][m] # Instrumented
      BY <3>1, ArtifactsAssumption DEF TypeOK
    <3> QED BY <3>1, <3>2
  <2>2. CASE \E x \in TestsFor(m) : Unseen(x, compiled[x][m])
    <3>1. \A y \in TestsFor(m) : Known(y, compiled[y][m])
      BY <2>1 DEF Known, Seen
    <3> QED BY <2>2, <3>1, LeftoverAccounted
  <2>3. CASE ~ \E x \in TestsFor(m) : Unseen(x, compiled[x][m])
    <3>1. \A x \in TestsFor(m) : x \in Executables /\ compiled[x][m] = Unmutated
      BY <2>1, <2>3 DEF TestsFor, TestsOf
    <3> QED BY <3>1 DEF Accounted, Repeats, SameTests, BaselineCompiles
  <2> QED BY <2>2, <2>3
<1> QED BY <1>1, <1>2

\* Nothing has been built.
LEMMA ArtifactsInit == Init => ArtifactsInv
<1> SUFFICES ASSUME Init PROVE ArtifactsInv
  OBVIOUS
<1>1. /\ compiled \in [Executables -> [Mutants \cup {Baseline} -> Digests]]
      /\ BaselineCompiles
  BY DEF Init, Compilers, BaselineCompiles
<1>2. TypeOK
  <2>1. left \in Leftovers /\ left \in UNION {[fs -> Contents] : fs \in SUBSET Files}
    BY ArtifactsAssumption DEF Init
  <2>2. deps \in [Workers -> UNION {[fs -> Contents] : fs \in SUBSET Files}]
    BY <2>1 DEF Init
  <2>3. Range(prints) = {}
    BY DEF Init, Range
  <2>4. holds \in [Workers -> Mutants \cup {None}] /\ broken \subseteq Mutants /\ blind \subseteq Mutants
    BY DEF Init
  <2> QED BY <1>1, <2>1, <2>2, <2>3, <2>4 DEF Init, TypeOK
<1>3. \A w \in Workers : ~At(w, "compare") /\ deps[w] = left /\ holds[w] = None /\ Current(w) = {}
  BY DEF Init, At, Current
<1>4. HoldersDiffer /\ Unbuilt
  BY <1>3 DEF HoldersDiffer, Unbuilt
<1>5. DirsExplained
  <2>1. FilesSeen(left, {}) /\ Explained(left, {})
    BY <1>1, <1>2, UntestedDir DEF Unseen
  <2> QED BY <1>3, <2>1 DEF DirsExplained, DirExplained
<1>6. PrintsExplained /\ SkipsRepeatATest
  BY DEF Init, PrintsExplained, SkipsRepeatATest
<1> QED BY <1>1, <1>2, <1>4, <1>5, <1>6 DEF ArtifactsInv

-----------------------------------------------------------------------------

\* What worker w does with the mutant it holds, or takes, leaves the other workers'
\* directories and mutants alone.
OwnStep(w) ==
    /\ baselined
    /\ UNCHANGED <<given, baselined, baselinePrint>>
    /\ \A v \in Workers : v # w => deps'[v] = deps[v] /\ holds'[v] = holds[v]
    /\ \A m \in Mutants : progress'[m] # progress[m] =>
          \/ m = holds[w]
          \/ progress[m] = "queued" /\ progress'[m] = "build"

\* A step of one worker leaves the other directories explained.
LEMMA OthersExplained ==
    ASSUME ArtifactsInv, RecordGrows, NEW w \in Workers, OwnStep(w)
    PROVE  \A v \in Workers : v # w => DirExplained(v)'
<1> SUFFICES ASSUME NEW v \in Workers, v # w PROVE DirExplained(v)'
  OBVIOUS
<1> USE DEF ArtifactsInv
<1>1. deps'[v] = deps[v] /\ holds'[v] = holds[v]
  BY DEF OwnStep
<1>2. At(v, "compare")' <=> At(v, "compare")
  <2>1. CASE holds[v] = None
    BY <1>1, <2>1 DEF At
  <2>2. CASE holds[v] # None
    <3>1. holds[v] \in Mutants /\ holds[v] # holds[w] /\ progress[holds[v]] # "queued"
      BY <2>2 DEF TypeOK, HoldersDiffer
    <3>2. progress'[holds[v]] = progress[holds[v]]
      BY <3>1 DEF OwnStep
    <3> QED BY <1>1, <3>2 DEF At
  <2> QED BY <2>1, <2>2
<1>3. Current(v)' = Current(v)
  BY <1>1, <1>2 DEF Current
<1>4. DirExplained(v)
  BY DEF DirsExplained, DirExplained
<1>5. /\ Fits(deps[v], holds[v]) => Fits(deps[v], holds[v])'
      /\ FilesSeen(deps[v], Current(v)) => FilesSeen(deps[v], Current(v))'
      /\ Explained(deps[v], Current(v)) => Explained(deps[v], Current(v))'
  <2> DEFINE files == deps[v]
             S == Current(v)
             m == holds[v]
  <2>1. files' = files /\ S' = S /\ m' = m
    BY <1>1, <1>3
  <2> HIDE DEF files, S, m
  <2>2. (Fits(files, m) => Fits(files, m)') /\ (FilesSeen(files, S) => FilesSeen(files, S)')
    BY <2>1, SeenKept DEF RecordGrows, Fits, FilesSeen
  <2>3. Explained(files, S) => Explained(files, S)'
    BY <2>1, SeenKept DEF RecordGrows, Fits, Explained
  <2> QED BY <2>2, <2>3 DEF files, S, m
<1> QED BY <1>2, <1>4, <1>5 DEF DirExplained

\* It is enough to look at the worker's own directory and at what it adds to the record.
LEMMA OwnStepInv ==
    ASSUME ArtifactsInv, RecordGrows, NEW w \in Workers, OwnStep(w), TypeOK',
           holds'[w] # None =>
              /\ baselined /\ progress'[holds'[w]] \in {"build", "compare", "test"}
              /\ holds'[w] = holds[w] \/ progress[holds'[w]] = "queued",
           DirExplained(w)',
           \A files \in DOMAIN prints' : files \in DOMAIN prints \/ Explained(files, {})',
           \A m \in Mutants : progress'[m] = "equivalent" =>
              progress[m] = "equivalent" \/ Accounted(m)'
    PROVE  ArtifactsInv'
<1> USE DEF ArtifactsInv
<1>1. BaselineCompiles'
  BY DEF BaselineCompiles, RecordGrows
<1>2. HoldersDiffer'
  <2>1. \A v \in Workers : v # w => holds'[v] = holds[v]
    BY DEF OwnStep
  <2>2. ASSUME NEW v \in Workers, v # w, holds[v] # None
        PROVE  /\ baselined' /\ progress'[holds[v]] \in {"build", "compare", "test"}
               /\ holds'[w] # holds[v]
    <3>1. holds[v] \in Mutants /\ holds[v] # holds[w] /\ baselined
          /\ progress[holds[v]] \in {"build", "compare", "test"}
      BY <2>2 DEF TypeOK, HoldersDiffer
    <3>2. progress'[holds[v]] = progress[holds[v]] /\ UNCHANGED baselined
      BY <3>1 DEF OwnStep
    <3> QED BY <2>2, <3>1, <3>2
  <2>3. UNCHANGED baselined
    BY DEF OwnStep
  <2>4. \A v \in Workers : holds'[v] # None =>
            baselined' /\ progress'[holds'[v]] \in {"build", "compare", "test"}
    BY <2>1, <2>2, <2>3
  <2>5. \A u, v \in Workers : u # v /\ holds'[u] # None => holds'[u] # holds'[v]
    BY <2>1, <2>2 DEF HoldersDiffer
  <2> QED BY <2>4, <2>5 DEF HoldersDiffer
<1>3. DirsExplained'
  BY OthersExplained DEF DirsExplained, DirExplained
<1>4. PrintsExplained'
  <2>1. baselinePrint' = baselinePrint
    BY DEF OwnStep
  <2> QED BY <2>1, ExplainedKept DEF PrintsExplained
<1>5. SkipsRepeatATest' /\ Unbuilt'
  <2>1. \A m \in Mutants : progress'[m] = "equivalent" => Accounted(m)'
    BY SeenKept DEF SkipsRepeatATest, Accounted
  <2> QED BY <2>1 DEF SkipsRepeatATest, Accounted, OwnStep, Unbuilt
<1> QED BY <1>1, <1>2, <1>3, <1>4, <1>5

\* A mutant is taken from the queue, which leaves the directory as it was.
LEMMA TakeStep ==
    ASSUME ArtifactsInv, NEW w \in Workers, Take(w)
    PROVE  ArtifactsInv'
<1> USE DEF ArtifactsInv
<1> PICK m \in Mutants : /\ progress[m] = "queued"
                         /\ holds' = [holds EXCEPT ![w] = m]
                         /\ progress' = [progress EXCEPT ![m] = "build"]
  BY DEF Take
<1>1. UNCHANGED <<given, baselined, deps, baselinePrint, prints, broken, blind>> /\ holds[w] = None
      /\ baselined
  BY DEF Take
<1>2. TypeOK'
  BY <1>1 DEF TypeOK, given
<1>3. RecordGrows
  BY <1>1 DEF RecordGrows, TypeOK, given
<1>4. OwnStep(w)
  BY <1>1 DEF OwnStep, TypeOK
<1>5. holds'[w] = m /\ progress'[m] = "build"
  BY DEF TypeOK
<1>6. DirExplained(w)'
  <2>1. ~At(w, "compare")' /\ ~At(w, "compare")
    BY <1>1, <1>5 DEF At
  <2>2. Current(w)' = {} /\ Current(w) = {}
    BY <2>1 DEF Current
  <2>3. FilesSeen(deps[w], {}) /\ Explained(deps[w], {})
    BY <2>2 DEF DirsExplained, DirExplained
  <2>4. FilesSeen(deps[w], {})' /\ Explained(deps[w], {})'
    BY <1>1, <1>3, <2>3, SeenKept DEF RecordGrows, FilesSeen, Explained, Fits
  <2> QED BY <2>1, <2>2, <2>4 DEF DirExplained
<1>7. \A r \in Mutants : progress'[r] = "equivalent" => progress[r] = "equivalent"
  BY DEF TypeOK
<1> QED BY <1>1, <1>2, <1>3, <1>4, <1>5, <1>6, <1>7, OwnStepInv

\* What a build writes to, and what it leaves, in a directory.
LEMMA WrittenFiles ==
    ASSUME ArtifactsInv, NEW w \in Workers, NEW m \in Mutants, NEW xs \in SUBSET TestsFor(m),
           NEW files, files = Written(deps[w], Built(xs, m))
    PROVE  /\ files \in UNION {[fs -> Contents] : fs \in SUBSET Files}
           /\ \A x \in xs : <<x, "plain">> \in DOMAIN files /\ files[<<x, "plain">>] = compiled[x][m]
           /\ \A x : x \notin xs =>
                 /\ <<x, "plain">> \in DOMAIN files <=> <<x, "plain">> \in DOMAIN deps[w]
                 /\ <<x, "plain">> \in DOMAIN files =>
                       files[<<x, "plain">>] = deps[w][<<x, "plain">>]
<1> USE DEF ArtifactsInv
<1> DEFINE new == Built(xs, m)
<1>1. /\ DOMAIN new = xs \X {"plain"} /\ \A x \in xs : new[<<x, "plain">>] = compiled[x][m]
      /\ xs \subseteq Executables
  BY DEF Built, TestsFor, TestsOf
<1>2. PICK fs \in SUBSET Files : deps[w] \in [fs -> Contents]
  BY DEF TypeOK
<1>3. \A f \in DOMAIN new : new[f] \in Contents
  BY <1>1 DEF TypeOK, Contents
<1> HIDE DEF new
<1>4. files = [f \in DOMAIN deps[w] \cup DOMAIN new |->
                  IF f \in DOMAIN new THEN new[f] ELSE deps[w][f]]
  BY DEF new, Written
<1>5. fs \cup DOMAIN new \in SUBSET Files
  BY <1>1 DEF Files
<1>6. files \in [fs \cup DOMAIN new -> Contents]
  BY <1>2, <1>3, <1>4
<1>7. files \in UNION {[gs -> Contents] : gs \in SUBSET Files}
  BY <1>5, <1>6
<1>8. \A x \in xs : <<x, "plain">> \in DOMAIN files /\ files[<<x, "plain">>] = compiled[x][m]
  BY <1>1, <1>4
<1>9. \A x : x \notin xs => <<x, "plain">> \notin DOMAIN new
  BY <1>1
<1>10. \A x : x \notin xs =>
                 /\ <<x, "plain">> \in DOMAIN files <=> <<x, "plain">> \in DOMAIN deps[w]
                 /\ <<x, "plain">> \in DOMAIN files =>
                       files[<<x, "plain">>] = deps[w][<<x, "plain">>]
  BY <1>4, <1>9
<1> QED BY <1>7, <1>8, <1>10

\* A build that succeeds writes every executable that tests its mutant.
LEMMA BuildStep ==
    ASSUME ArtifactsInv, NEW w \in Workers, Build(w)
    PROVE  ArtifactsInv'
<1> USE DEF ArtifactsInv
<1> DEFINE q == holds[w]
<1>1. /\ q \in Mutants /\ q # None /\ progress[q] = "build"
      /\ progress' = [progress EXCEPT ![q] = "compare"]
      /\ deps' = [deps EXCEPT ![w] = Written(@, Built(TestsFor(q), q))]
      /\ UNCHANGED <<given, baselined, holds, baselinePrint, prints, broken, blind>>
  BY DEF Build, At, Advance, TypeOK
<1> HIDE DEF q
<1>2. /\ deps'[w] = Written(deps[w], Built(TestsFor(q), q))
      /\ \A v \in Workers : v # w => deps'[v] = deps[v]
  BY <1>1 DEF TypeOK
<1>3. /\ deps'[w] \in UNION {[fs -> Contents] : fs \in SUBSET Files}
      /\ \A x \in TestsFor(q) : /\ <<x, "plain">> \in DOMAIN deps'[w]
                                /\ deps'[w][<<x, "plain">>] = compiled[x][q]
      /\ \A x : x \notin TestsFor(q) =>
            /\ <<x, "plain">> \in DOMAIN deps'[w] <=> <<x, "plain">> \in DOMAIN deps[w]
            /\ <<x, "plain">> \in DOMAIN deps'[w] =>
                  deps'[w][<<x, "plain">>] = deps[w][<<x, "plain">>]
  <2>1. TestsFor(q) \in SUBSET TestsFor(q)
    OBVIOUS
  <2> QED BY ONLY <1>1, <1>2, <2>1, WrittenFiles, ArtifactsInv, w \in Workers
<1>4. TypeOK'
  BY <1>1, <1>3 DEF TypeOK, given
<1>5. RecordGrows /\ OwnStep(w)
  BY <1>1, <1>2 DEF RecordGrows, OwnStep, TypeOK, HoldersDiffer, given, q
<1>6. At(w, "compare")' /\ holds'[w] = q /\ progress'[q] = "compare" /\ Current(w) = {}
      /\ Current(w)' = {q}
  BY <1>1 DEF At, TypeOK, Current, q
<1>7. DirExplained(w)'
  <2>1. Fits(deps[w], holds[w])'
    BY <1>3, <1>5, <1>6, SeenKept DEF Fits, RecordGrows
  <2>2. FilesSeen(deps[w], Current(w))'
    <3> SUFFICES ASSUME NEW x \in Executables, (<<x, "plain">> \in DOMAIN deps[w])'
                 PROVE  (\/ deps[w][<<x, "plain">>] = Instrumented
                         \/ Known(x, deps[w][<<x, "plain">>])
                         \/ \E r \in Current(w) :
                               x \in TestsFor(r) /\ deps[w][<<x, "plain">>] = compiled[x][r])'
      BY DEF FilesSeen
    <3>1. CASE x \in TestsFor(q)
      BY <1>3, <1>5, <1>6, <3>1, SeenKept DEF RecordGrows
    <3>2. CASE x \notin TestsFor(q)
      <4>1. /\ deps'[w][<<x, "plain">>] = deps[w][<<x, "plain">>]
            /\ \/ deps[w][<<x, "plain">>] = Instrumented
               \/ Known(x, deps[w][<<x, "plain">>])
        BY <1>3, <1>6, <3>2 DEF DirsExplained, DirExplained, FilesSeen
      <4> QED BY <1>5, <4>1, SeenKept
    <3> QED BY <3>1, <3>2
  <2>3. Explained(deps[w], Current(w))'
    <3> SUFFICES ASSUME NEW m \in Mutants, Fits(deps[w], m)'
                 PROVE  (\/ Accounted(m)
                         \/ \E r \in Current(w) :
                               TestsFor(m) \subseteq TestsFor(r) /\ SameTests(m, r))'
      BY DEF Explained
    <3>1. \A x \in TestsFor(m) : /\ <<x, "plain">> \in DOMAIN deps'[w]
                                 /\ deps'[w][<<x, "plain">>] = compiled[x][m]
      BY <1>5, SeenKept DEF Fits, RecordGrows
    <3>2. CASE \E x \in TestsFor(m) : x \in TestsFor(q)
      <4>1. TestsFor(m) = TestsFor(q)
        BY <1>1, <3>2, TestsMeet DEF TypeOK
      <4>2. SameTests(m, q)
        BY <1>3, <3>1, <4>1 DEF SameTests
      <4> QED BY <1>5, <1>6, <4>1, <4>2, SeenKept
    <3>3. CASE \A x \in TestsFor(m) : x \notin TestsFor(q)
      <4>1. Fits(deps[w], m)
        BY <1>3, <3>1, <3>3 DEF Fits
      <4>2. Accounted(m)
        BY <1>6, <4>1 DEF DirsExplained, DirExplained, Explained
      <4> QED BY <1>5, <4>2, SeenKept
    <3> QED BY <3>2, <3>3
  <2> QED BY <1>6, <2>1, <2>2, <2>3 DEF DirExplained
<1>8. \A r \in Mutants : progress'[r] = "equivalent" => progress[r] = "equivalent"
  BY <1>1 DEF TypeOK
<1>9. baselined
  BY <1>1 DEF HoldersDiffer, q
<1> QED BY <1>1, <1>4, <1>5, <1>6, <1>7, <1>8, <1>9, OwnStepInv DEF q

\* A build that fails has written some of them, and its mutant is among the broken.
LEMMA BuildFailsStep ==
    ASSUME ArtifactsInv, NEW w \in Workers, BuildFails(w)
    PROVE  ArtifactsInv'
<1> USE DEF ArtifactsInv
<1> PICK q : q = holds[w]
  OBVIOUS
<1> PICK xs \in SUBSET TestsFor(q) :
        deps' = [deps EXCEPT ![w] = Written(@, Built(xs, q))]
  BY DEF BuildFails
<1>1. /\ q \in Mutants /\ q # None /\ progress[q] = "build"
      /\ progress' = [progress EXCEPT ![q] = "failed"]
      /\ holds' = [holds EXCEPT ![w] = None]
      /\ broken' = broken \cup {q}
      /\ UNCHANGED <<given, baselined, baselinePrint, prints, blind>>
  BY DEF BuildFails, At, Finish, Advance, TypeOK
<1>2. /\ deps'[w] = Written(deps[w], Built(xs, q))
      /\ \A v \in Workers : v # w => deps'[v] = deps[v]
  BY DEF TypeOK
<1>3. /\ deps'[w] \in UNION {[fs -> Contents] : fs \in SUBSET Files}
      /\ \A x \in xs : /\ <<x, "plain">> \in DOMAIN deps'[w]
                       /\ deps'[w][<<x, "plain">>] = compiled[x][q]
      /\ \A x : x \notin xs =>
            /\ <<x, "plain">> \in DOMAIN deps'[w] <=> <<x, "plain">> \in DOMAIN deps[w]
            /\ <<x, "plain">> \in DOMAIN deps'[w] =>
                  deps'[w][<<x, "plain">>] = deps[w][<<x, "plain">>]
  BY ONLY <1>1, <1>2, WrittenFiles, ArtifactsInv, w \in Workers, xs \in SUBSET TestsFor(q)
<1>4. TypeOK'
  BY <1>1, <1>3 DEF TypeOK, given
<1>5. RecordGrows /\ OwnStep(w)
  BY <1>1, <1>2 DEF RecordGrows, OwnStep, TypeOK, HoldersDiffer, given
<1>6. /\ ~At(w, "compare") /\ ~At(w, "compare")' /\ holds'[w] = None
      /\ Current(w) = {} /\ Current(w)' = {}
  BY <1>1 DEF At, TypeOK, Current
<1>7. \A x \in TestsFor(q) : Unseen(x, compiled[x][q])'
  BY <1>1, <1>5, SeenKept DEF Unseen, RecordGrows
<1>8. FilesSeen(deps[w], Current(w))'
  <2> SUFFICES ASSUME NEW x \in Executables, (<<x, "plain">> \in DOMAIN deps[w])'
               PROVE  (\/ deps[w][<<x, "plain">>] = Instrumented
                       \/ Known(x, deps[w][<<x, "plain">>]))'
    BY DEF FilesSeen
  <2>1. CASE x \in xs
    <3>1. deps'[w][<<x, "plain">>] = compiled[x][q] /\ compiled'[x] = compiled[x]
      BY <1>3, <1>5, <2>1 DEF RecordGrows
    <3>2. Unseen(x, compiled[x][q])'
      BY <1>7, <2>1
    <3>3. (deps[w][<<x, "plain">>] = compiled[x][q])'
      BY <3>1
    <3> QED BY <3>2, <3>3 DEF Known
  <2>2. CASE x \notin xs
    <3>1. /\ deps'[w][<<x, "plain">>] = deps[w][<<x, "plain">>]
          /\ \/ deps[w][<<x, "plain">>] = Instrumented
             \/ Known(x, deps[w][<<x, "plain">>])
      BY <1>3, <1>6, <2>2 DEF DirsExplained, DirExplained, FilesSeen
    <3> QED BY <1>5, <3>1, SeenKept
  <2> QED BY <2>1, <2>2
<1>9. Explained(deps[w], Current(w))'
  <2> SUFFICES ASSUME NEW m \in Mutants, Fits(deps[w], m)' PROVE Accounted(m)'
    BY DEF Explained
  <2>1. \A x \in TestsFor(m) : /\ <<x, "plain">> \in DOMAIN deps'[w]
                               /\ deps'[w][<<x, "plain">>] = compiled[x][m]
    BY <1>5, SeenKept DEF Fits, RecordGrows
  <2>2. CASE TestsFor(m) \cap xs = {}
    <3>1. Fits(deps[w], m)
      BY <1>3, <2>1, <2>2 DEF Fits
    <3>2. Accounted(m)
      BY <1>6, <3>1 DEF DirsExplained, DirExplained, Explained
    <3> QED BY <1>5, <3>2, SeenKept
  <2>3. ASSUME NEW x \in TestsFor(m) \cap xs
        PROVE  Accounted(m)'
    <3>1. x \in TestsFor(m)' /\ Unseen(x, compiled[x][m])'
      <4>1. x \in TestsFor(q) /\ x \in TestsFor(m) /\ x \in xs
        BY <2>3
      <4>2. compiled[x][m] = compiled[x][q] /\ UNCHANGED compiled
        BY <1>3, <1>5, <2>1, <4>1 DEF RecordGrows
      <4>3. (compiled[x][m] = compiled[x][q])' /\ Unseen(x, compiled[x][q])'
        BY <1>7, <4>1, <4>2
      <4>4. TestsFor(m)' = TestsFor(m)
        BY <1>5, SeenKept
      <4> QED BY <4>1, <4>3, <4>4
    <3>2. \A y \in TestsFor(m) : Known(y, compiled[y][m])'
      <4> SUFFICES ASSUME NEW y \in TestsFor(m) PROVE Known(y, compiled[y][m])'
        OBVIOUS
      <4>1. /\ y \in Executables /\ <<y, "plain">> \in DOMAIN deps'[w]
            /\ deps'[w][<<y, "plain">>] = compiled'[y][m]
        BY <1>5, <2>1 DEF TestsFor, TestsOf, RecordGrows
      <4>2. compiled'[y][m] # Instrumented
        BY <1>5, <4>1, ArtifactsAssumption DEF RecordGrows, TypeOK
      <4>3. Known(y, deps[w][<<y, "plain">>])'
        BY <1>6, <1>8, <4>1, <4>2 DEF FilesSeen
      <4> QED BY <4>1, <4>3
    <3>3. \A y \in TestsFor(m)' : Known(y, compiled[y][m])'
      BY <1>5, <3>2, SeenKept
    <3>4. IsLeftover(m)'
      BY <3>1, <3>3 DEF IsLeftover, Known
    <3> QED BY <3>4 DEF Accounted
  <2> QED BY <2>2, <2>3
<1>10. DirExplained(w)'
  BY <1>6, <1>8, <1>9 DEF DirExplained
<1>11. \A r \in Mutants : progress'[r] = "equivalent" => progress[r] = "equivalent"
  BY <1>1 DEF TypeOK
<1> QED BY <1>1, <1>4, <1>5, <1>6, <1>10, <1>11, OwnStepInv

\* The directory of a worker whose mutant now is tested, or repeats a test, is
\* explained without it.
LEMMA ComparedDir ==
    ASSUME ArtifactsInv, RecordGrows, NEW w \in Workers, At(w, "compare"), UNCHANGED deps,
           ~At(w, "compare")',
           \/ Accounted(holds[w]) \/ progress'[holds[w]] = "test"
           \/ holds[w] \in blind'
    PROVE  DirExplained(w)'
<1> USE DEF ArtifactsInv
<1> PICK q : q = holds[w]
  OBVIOUS
<1>1. q \in Mutants /\ Current(w) = {q} /\ Current(w)' = {}
  BY DEF At, Current, TypeOK
<1>2. Accounted(q) \/ progress'[q] = "test" \/ q \in blind'
  OBVIOUS
<1>3. \A m \in Mutants : TestsFor(m) \subseteq TestsFor(q) /\ SameTests(m, q) => Accounted(m)'
  <2> SUFFICES ASSUME NEW m \in Mutants, TestsFor(m) \subseteq TestsFor(q), SameTests(m, q)
               PROVE  Accounted(m)'
    OBVIOUS
  <2>1. CASE Accounted(q)
    <3>1. Accounted(m)
      BY <1>1, <2>1, RepeatsAlike DEF TypeOK
    <3> QED BY <3>1, SeenKept
  <2>2. CASE progress'[q] = "test"
    BY <1>1, <2>2, SeenKept DEF Accounted, Repeats
  <2>3. CASE q \in blind' /\ TestsFor(m) = {}
    BY <2>3, SeenKept DEF Accounted, Repeats, SameTests
  <2>4. CASE q \in blind' /\ TestsFor(m) # {}
    <3>1. TestsFor(m) = TestsFor(q)
      BY <1>1, <2>4, TestsMeet DEF TypeOK
    <3>2. \A x \in TestsFor(m) : compiled[x][m] = compiled[x][q]
      BY DEF SameTests
    <3>3. TestsFor(m)' = TestsFor(m) /\ TestsFor(q)' = TestsFor(q) /\ UNCHANGED compiled
      BY SeenKept DEF RecordGrows
    <3>4. \A x \in TestsFor(m)' : Unseen(x, compiled[x][m])'
      BY <2>4, <3>1, <3>2, <3>3 DEF Unseen
    <3> QED BY <2>4, <3>3, <3>4 DEF Accounted, IsLeftover
  <2> QED BY <1>2, <2>1, <2>2, <2>3, <2>4
<1>4. \A x \in TestsFor(q) : Known(x, compiled[x][q])'
  <2> SUFFICES ASSUME NEW x \in TestsFor(q) PROVE Known(x, compiled[x][q])'
    OBVIOUS
  <2>1. compiled'[x][q] = compiled[x][q] /\ x \in TestsFor(q)'
    BY SeenKept DEF RecordGrows
  <2>2. CASE Accounted(q)
    <3>1. Known(x, compiled[x][q])
      BY <1>1, <2>2, RepeatsSeen
    <3> QED BY <2>1, <3>1, SeenKept
  <2>3. CASE progress'[q] = "test"
    BY <1>1, <2>1, <2>3 DEF Known, Seen
  <2>4. CASE q \in blind'
    BY <2>1, <2>4 DEF Known, Unseen
  <2> QED BY <1>2, <2>2, <2>3, <2>4
<1>5. FilesSeen(deps[w], Current(w))'
  <2> SUFFICES ASSUME NEW x \in Executables, (<<x, "plain">> \in DOMAIN deps[w])'
               PROVE  (\/ deps[w][<<x, "plain">>] = Instrumented
                       \/ Known(x, deps[w][<<x, "plain">>]))'
    BY DEF FilesSeen
  <2>1. \/ deps[w][<<x, "plain">>] = Instrumented
        \/ Known(x, deps[w][<<x, "plain">>])
        \/ x \in TestsFor(q) /\ deps[w][<<x, "plain">>] = compiled[x][q]
    BY <1>1 DEF DirsExplained, DirExplained, FilesSeen
  <2>2. CASE Known(x, deps[w][<<x, "plain">>])
    BY <2>2, SeenKept
  <2>3. CASE x \in TestsFor(q) /\ deps[w][<<x, "plain">>] = compiled[x][q]
    <3>1. (deps[w][<<x, "plain">>] = compiled[x][q])'
      BY <2>3 DEF RecordGrows
    <3> QED BY <1>4, <2>3, <3>1
  <2> QED BY <2>1, <2>2, <2>3
<1>6. Explained(deps[w], Current(w))'
  <2> SUFFICES ASSUME NEW m \in Mutants, Fits(deps[w], m)' PROVE Accounted(m)'
    BY DEF Explained
  <2>1. Fits(deps[w], m)
    BY SeenKept DEF Fits, RecordGrows
  <2>2. Accounted(m) \/ (TestsFor(m) \subseteq TestsFor(q) /\ SameTests(m, q))
    <3>1. Explained(deps[w], {q})
      BY <1>1 DEF DirsExplained, DirExplained
    <3> QED BY <2>1, <3>1 DEF Explained
  <2> QED BY <1>3, <2>2, SeenKept
<1> QED BY <1>5, <1>6 DEF DirExplained

\* A fingerprint is of the files that are found, and they explain no less than all.
LEMMA FoundExplained ==
    ASSUME NEW files, NEW missed, NEW print \in Prints(files, missed), NEW p \in print
    PROVE  /\ p = TestExecutables(files, missed)
           /\ \A m : Fits(p, m) => Fits(files, m)
           /\ \A S : Explained(files, S) => Explained(p, S)
           /\ \A m : Fits(files, m) /\ (\A x \in TestsFor(m) : <<x, "plain">> \notin missed)
                   => Fits(p, m)
<1>1. p = TestExecutables(files, missed)
  BY DEF Prints, Fingerprint
<1>2. /\ DOMAIN p \subseteq DOMAIN files
      /\ \A f : f \in DOMAIN p <=> f \in DOMAIN files /\ f \notin missed
      /\ \A f \in DOMAIN p : p[f] = files[f]
  BY <1>1 DEF TestExecutables, Restrict
<1>3. \A m : Fits(p, m) => Fits(files, m)
  BY <1>2 DEF Fits
<1>4. \A S : Explained(files, S) => Explained(p, S)
  BY <1>3 DEF Explained
<1>5. ASSUME NEW m, Fits(files, m), \A x \in TestsFor(m) : <<x, "plain">> \notin missed
      PROVE  Fits(p, m)
  BY <1>2, <1>5 DEF Fits
<1> QED BY <1>1, <1>3, <1>4, <1>5

\* The fingerprint is new: it is entered for this mutant, which goes on to its
\* tests.
LEMMA CompareNewStep ==
    ASSUME ArtifactsInv, NEW w \in Workers, CompareNew(w)
    PROVE  ArtifactsInv'
<1> USE DEF ArtifactsInv
<1> DEFINE q == holds[w]
<1> PICK missed \in Missing(deps[w]) : \E print \in Prints(deps[w], missed) :
        prints' = Written(prints, [p \in print |-> q])
  BY DEF CompareNew
<1> PICK print \in Prints(deps[w], missed) :
        prints' = Written(prints, [p \in print |-> q])
  OBVIOUS
<1>1. /\ q \in Mutants /\ q # None /\ progress[q] = "compare" /\ At(w, "compare")
      /\ progress' = [progress EXCEPT ![q] = "test"]
      /\ UNCHANGED <<given, baselined, deps, holds, baselinePrint, broken, blind>>
  BY DEF CompareNew, At, Advance, TypeOK
<1>2. Range(prints') \subseteq Range(prints) \cup {q}
  BY DEF Written, Range
<1>3. TypeOK'
  BY <1>1, <1>2 DEF TypeOK, given
<1>4. progress'[q] = "test" /\ holds'[w] = q /\ ~At(w, "compare")'
  BY <1>1 DEF TypeOK, At
<1>5. RecordGrows /\ OwnStep(w)
  BY <1>1 DEF RecordGrows, OwnStep, TypeOK, HoldersDiffer, given
<1>6. DirExplained(w)'
  BY <1>1, <1>4, <1>5, ComparedDir
<1>7. \A files \in DOMAIN prints' : files \in DOMAIN prints \/ files \in print
  BY DEF Written
<1>8. Explained(deps[w], {})'
  <2>1. Current(w)' = {}
    BY <1>4 DEF Current
  <2> QED BY <1>6, <2>1 DEF DirExplained
<1>9. \A files \in DOMAIN prints' : files \in DOMAIN prints \/ Explained(files, {})'
  <2> SUFFICES ASSUME NEW files \in print PROVE Explained(files, {})'
    BY <1>7
  <2>1. \A m : Fits(files, m) => Fits(deps[w], m)
    BY FoundExplained
  <2>2. \A f, m : Fits(f, m)' <=> Fits(f, m)
    BY <1>5, ExplainedKept
  <2>3. \A m : Fits(deps[w], m)' <=> Fits(deps[w], m)
    <3> PICK d : d = deps[w]
      OBVIOUS
    <3>1. d = deps'[w] /\ \A m : Fits(d, m)' <=> Fits(d, m)
      BY <1>1, <2>2
    <3> QED BY <3>1 DEF Fits
  <2> QED BY <1>8, <2>1, <2>2, <2>3 DEF Explained
<1>10. \A r \in Mutants : progress'[r] = "equivalent" => progress[r] = "equivalent"
  BY <1>1 DEF TypeOK
<1>11. baselined
  BY <1>1 DEF HoldersDiffer
<1> QED BY <1>1, <1>3, <1>4, <1>5, <1>6, <1>9, <1>10, <1>11, OwnStepInv

\* The fingerprint is known: the mutant's executables are all those of another.
LEMMA CompareEqualStep ==
    ASSUME ArtifactsInv, NEW w \in Workers, CompareEqual(w)
    PROVE  ArtifactsInv'
<1> USE DEF ArtifactsInv
<1> PICK q : q = holds[w]
  OBVIOUS
<1> DEFINE unfound(missed) == \E x \in TestsFor(q) : <<x, "plain">> \in missed
<1> PICK missed \in Missing(deps[w]) :
        /\ \E print \in Prints(deps[w], missed) : KnownAs(print) # {}
        /\ blind' = IF unfound(missed) THEN blind \cup {q} ELSE blind
  BY DEF CompareEqual
<1> PICK print \in Prints(deps[w], missed) : KnownAs(print) # {}
  OBVIOUS
<1>1. /\ q \in Mutants /\ q # None /\ progress[q] = "compare" /\ At(w, "compare")
      /\ progress' = [progress EXCEPT ![q] = "equivalent"]
      /\ holds' = [holds EXCEPT ![w] = None]
      /\ UNCHANGED <<given, baselined, deps, baselinePrint, prints, broken>>
  BY DEF CompareEqual, At, Finish, Advance, TypeOK
<1>2. TypeOK'
  BY <1>1 DEF TypeOK, given
<1>3. holds'[w] = None /\ ~At(w, "compare")'
  BY <1>1 DEF TypeOK, At
<1>4. RecordGrows /\ OwnStep(w)
  BY <1>1 DEF RecordGrows, OwnStep, TypeOK, HoldersDiffer, given
<1>5. Fits(deps[w], q)
  BY <1>1 DEF DirsExplained, DirExplained
<1>6. PICK p \in print : p \in baselinePrint \cup DOMAIN prints
  BY DEF KnownAs
<1>7. Accounted(q) \/ unfound(missed)
  <2> SUFFICES ASSUME ~unfound(missed) PROVE Accounted(q)
    OBVIOUS
  <2>1. Fits(p, q)
    <3>1. \A m : Fits(deps[w], m) /\ (\A x \in TestsFor(m) : <<x, "plain">> \notin missed)
                => Fits(p, m)
      BY FoundExplained
    <3> QED BY <1>5, <3>1
  <2>2. Explained(p, {})
    BY <1>6 DEF PrintsExplained
  <2> QED BY <1>1, <2>1, <2>2 DEF Explained
<1>8. DirExplained(w)'
  <2>1. Accounted(q) \/ q \in blind'
    BY <1>7
  <2> QED BY <1>1, <1>3, <1>4, <2>1, ComparedDir
<1>9. Accounted(q)'
  <2>1. CASE Accounted(q)
    BY <1>1, <1>4, <2>1, SeenKept
  <2>2. CASE unfound(missed)
    <3>1. q \in blind' /\ TestsFor(q)' = TestsFor(q)
      BY <1>4, <2>2, SeenKept
    <3>2. PICK x \in TestsFor(q)' : TRUE
      BY <2>2, <3>1
    <3>3. \A y \in TestsFor(q)' : Unseen(y, compiled[y][q])'
      BY <3>1 DEF Unseen
    <3>4. IsLeftover(q)'
      BY <3>2, <3>3 DEF IsLeftover
    <3> QED BY <3>4 DEF Accounted
  <2> QED BY <1>7, <2>1, <2>2
<1>10. \A r \in Mutants : progress'[r] = "equivalent" =>
           progress[r] = "equivalent" \/ Accounted(r)'
  <2> SUFFICES ASSUME NEW r \in Mutants, progress'[r] = "equivalent", progress[r] # "equivalent"
               PROVE  Accounted(r)'
    OBVIOUS
  <2>1. r = q
    BY <1>1 DEF TypeOK
  <2> QED BY <1>9, <2>1
<1> QED BY <1>1, <1>2, <1>3, <1>4, <1>8, <1>10, OwnStepInv

\* Tests change no executable.
LEMMA TestStep ==
    ASSUME ArtifactsInv, NEW w \in Workers, Test(w)
    PROVE  ArtifactsInv'
<1> USE DEF ArtifactsInv
<1> DEFINE q == holds[w]
<1>1. /\ q \in Mutants /\ q # None /\ progress[q] = "test"
      /\ progress' = [progress EXCEPT ![q] = "tested"]
      /\ holds' = [holds EXCEPT ![w] = None]
      /\ UNCHANGED <<given, baselined, deps, baselinePrint, prints, broken, blind>>
  BY DEF Test, At, Finish, Advance, TypeOK
<1>2. TypeOK'
  BY <1>1 DEF TypeOK, given
<1>3. /\ holds'[w] = None /\ ~At(w, "compare") /\ ~At(w, "compare")'
      /\ Current(w) = {} /\ Current(w)' = {}
  BY <1>1 DEF TypeOK, At, Current
<1>4. RecordGrows /\ OwnStep(w)
  BY <1>1 DEF RecordGrows, OwnStep, TypeOK, HoldersDiffer, given
<1>5. DirExplained(w)'
  <2>1. FilesSeen(deps[w], {}) /\ Explained(deps[w], {})
    BY <1>3 DEF DirsExplained, DirExplained
  <2>2. FilesSeen(deps[w], {})' /\ Explained(deps[w], {})'
    BY <1>1, <1>4, <2>1, SeenKept DEF RecordGrows, FilesSeen, Explained, Fits
  <2> QED BY <1>3, <2>2 DEF DirExplained
<1>6. \A r \in Mutants : progress'[r] = "equivalent" => progress[r] = "equivalent"
  BY <1>1 DEF TypeOK
<1> QED BY <1>1, <1>2, <1>3, <1>4, <1>5, <1>6, OwnStepInv

\* The baseline comes before any worker has a mutant, and is the only one whose
\* executables need no explanation but that they are not mutated.
LEMMA BaselineStep ==
    ASSUME ArtifactsInv, RunBaseline \/ SkipBaseline
    PROVE  ArtifactsInv'
<1> USE DEF ArtifactsInv
<1>1. /\ ~baselined /\ UNCHANGED <<given, holds, progress, prints, broken, blind>>
      /\ \A w \in Workers : holds[w] = None
  BY DEF RunBaseline, SkipBaseline, HoldersDiffer
<1>2. RecordGrows /\ BaselineCompiles' /\ HoldersDiffer' /\ SkipsRepeatATest'
  <2>1. RecordGrows
    BY <1>1 DEF RecordGrows, given
  <2> QED BY <1>1, <2>1, SeenKept DEF BaselineCompiles, HoldersDiffer, SkipsRepeatATest, Accounted, given
<1>3. \A w \in Workers : /\ Current(w) = {} /\ Current(w)' = {}
                         /\ ~At(w, "compare")'
  BY <1>1 DEF Current, At
<1>4. \A files \in DOMAIN prints' : Explained(files, {})'
  BY <1>1, <1>2, ExplainedKept DEF PrintsExplained
<1>5. baselined' /\ \A w \in Workers : deps[w] = left
  BY <1>1 DEF RunBaseline, SkipBaseline, Unbuilt
<1>6. CASE SkipBaseline
  <2>1. UNCHANGED <<deps, baselinePrint>>
    BY <1>6 DEF SkipBaseline
  <2>2. TypeOK'
    BY <1>1, <2>1 DEF TypeOK, given
  <2>3. DirsExplained'
    <3> SUFFICES ASSUME NEW w \in Workers PROVE DirExplained(w)'
      BY DEF DirsExplained, DirExplained
    <3>1. FilesSeen(deps[w], {}) /\ Explained(deps[w], {})
      BY <1>3 DEF DirsExplained, DirExplained
    <3>2. FilesSeen(deps[w], {})' /\ Explained(deps[w], {})'
      BY <1>2, <2>1, <3>1, SeenKept DEF RecordGrows, FilesSeen, Explained, Fits
    <3> QED BY <1>3, <3>2 DEF DirExplained
  <2>4. \A files \in baselinePrint' : Explained(files, {})'
    BY <1>2, <2>1, ExplainedKept DEF PrintsExplained
  <2> QED BY <1>2, <1>4, <1>5, <2>2, <2>3, <2>4 DEF PrintsExplained, Unbuilt
<1>7. CASE RunBaseline
  <2> DEFINE new == BuiltForCoverage(TestsOf(MutatedPackages))
             files == Written(left, new)
  <2>1. /\ deps' = [deps EXCEPT ![1] = files]
        /\ 1 \in Workers
    <3>1. 1 \in Workers
      BY ArtifactsAssumption DEF Workers
    <3>2. deps[1] = left
      BY <1>5, <3>1
    <3> QED BY <1>7, <3>1, <3>2 DEF RunBaseline
  <2>2. deps'[1] = files /\ \A w \in Workers : w # 1 => deps'[w] = deps[w]
    BY <2>1 DEF TypeOK
  <2>3. PICK missed \in Missing(files) : baselinePrint' \in Prints(files, missed)
    BY <1>7, <2>2 DEF RunBaseline
  <2>4. /\ \A f \in DOMAIN new : new[f] \in {Unmutated, Instrumented}
        /\ DOMAIN new \subseteq Files
    BY DEF BuiltForCoverage, Built, BaselineCompiles, TestsOf, Files
  <2>5. PICK fs \in SUBSET Files : left \in [fs -> Contents]
    BY ArtifactsAssumption DEF TypeOK
  <2>6. files = [f \in fs \cup DOMAIN new |-> IF f \in DOMAIN new THEN new[f] ELSE left[f]]
    BY <2>5 DEF Written
  <2> HIDE DEF new
  <2>7. files \in [fs \cup DOMAIN new -> Contents] /\ fs \cup DOMAIN new \in SUBSET Files
    BY <2>4, <2>5, <2>6, ArtifactsAssumption DEF Contents
  <2>8. \A x \in Executables : <<x, "plain">> \in DOMAIN files =>
            \/ files[<<x, "plain">>] \in {Unmutated, Instrumented}
            \/ Unseen(x, files[<<x, "plain">>])
    BY <2>4, <2>5, <2>6 DEF Unseen
  <2> HIDE DEF files
  <2>9. FilesSeen(files, {}) /\ Explained(files, {})
    BY <2>8, UntestedDir
  <2> PICK gs : gs = files
    OBVIOUS
  <2>10. FilesSeen(gs, {})' /\ Explained(gs, {})'
    BY <1>2, <2>9, ExplainedKept
  <2>11. files \in UNION {[s -> Contents] : s \in SUBSET Files}
    BY <2>7
  <2>12. TypeOK'
    BY <1>1, <2>1, <2>11 DEF TypeOK, given
  <2>13. DirsExplained'
    <3> SUFFICES ASSUME NEW w \in Workers PROVE DirExplained(w)'
      BY DEF DirsExplained, DirExplained
    <3>1. CASE w = 1
      <4>1. FilesSeen(deps[w], {})' /\ Explained(deps[w], {})'
        <5>1. deps'[w] = gs
          BY <2>2, <3>1
        <5> QED BY <2>10, <5>1 DEF FilesSeen, Explained, Fits
      <4> QED BY <1>3, <4>1 DEF DirExplained
    <3>2. CASE w # 1
      <4>1. FilesSeen(deps[w], {}) /\ Explained(deps[w], {}) /\ deps'[w] = deps[w]
        BY <1>3, <2>2, <3>2 DEF DirsExplained, DirExplained
      <4>2. FilesSeen(deps[w], {})' /\ Explained(deps[w], {})'
        BY <1>2, <4>1, SeenKept DEF RecordGrows, FilesSeen, Explained, Fits
      <4> QED BY <1>3, <4>2 DEF DirExplained
    <3> QED BY <3>1, <3>2
  <2>14. \A p \in baselinePrint' : Explained(p, {})'
    <3> SUFFICES ASSUME NEW p \in baselinePrint' PROVE Explained(p, {})'
      OBVIOUS
    <3>1. Explained(p, {})
      BY <2>3, <2>9, FoundExplained
    <3> QED BY <1>2, <3>1, ExplainedKept
  <2> QED BY <1>2, <1>4, <1>5, <2>12, <2>13, <2>14 DEF PrintsExplained, Unbuilt
<1> QED BY <1>6, <1>7

\* --detect-equivalent-mutants skips a mutant only if its tests have been run with
\* the very same executables, for every workspace, selection of packages, number of
\* workers and way in which mutants compile, whichever files cannot be listed or read;
\* the exceptions are what earlier runs and builds that failed have left, and mutants
\* one of whose own executables was not listed.
THEOREM SkippedIsTested == Spec => []SkipsRepeatATest
<1>1. ArtifactsInv /\ [Next]_vars => ArtifactsInv'
  <2> SUFFICES ASSUME ArtifactsInv, [Next]_vars PROVE ArtifactsInv'
    OBVIOUS
  <2>1. CASE UNCHANGED vars
    <3>1. UNCHANGED <<settings, compiled, separate, left, baselined, deps, holds, progress,
                      baselinePrint, prints, broken, blind>>
      BY <2>1 DEF vars, given
    <3>2. RecordGrows
      BY <3>1 DEF RecordGrows
    <3>3. TypeOK' /\ BaselineCompiles' /\ HoldersDiffer' /\ SkipsRepeatATest' /\ Unbuilt'
      BY <3>1, <3>2, SeenKept DEF ArtifactsInv, TypeOK, BaselineCompiles, HoldersDiffer,
                                  SkipsRepeatATest, Accounted, Unbuilt
    <3>4. DirsExplained'
      BY <3>1, <3>2, SeenKept DEF ArtifactsInv, DirsExplained, DirExplained, At, Current, Fits,
                                  FilesSeen, Explained
    <3>5. PrintsExplained'
      BY <3>1, <3>2, ExplainedKept DEF ArtifactsInv, PrintsExplained
    <3> QED BY <3>3, <3>4, <3>5 DEF ArtifactsInv
  <2> QED BY <2>1, BaselineStep, TakeStep, BuildStep, BuildFailsStep, CompareNewStep,
             CompareEqualStep, TestStep DEF Next, Done
<1>2. ArtifactsInv => SkipsRepeatATest
  BY DEF ArtifactsInv
<1> QED BY <1>1, <1>2, ArtifactsInit, PTL DEF Spec

=============================================================================

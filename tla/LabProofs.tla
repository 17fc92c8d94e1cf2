----------------------------- MODULE LabProofs -----------------------------
(***************************************************************************)
(* Proofs about the lab, for every set of mutants, number of jobs, set of  *)
(* options and bound on I/O errors: its trees and threads; then what it    *)
(* records and reports, the baseline first,                                *)
(* lists and counters that agree, success only of a complete run; that     *)
(* what a mutant is skipped for has been tested; that the lab implements   *)
(* LabSpec; and that the display follows the lab.                          *)
(***************************************************************************)
EXTENDS LabInvariant, LabRefinement, ConsoleLab, FiniteSetTheorems, TLAPS

-----------------------------------------------------------------------------
(* Outcomes *)

\* A phase result added to an outcome keeps it an outcome with the same
\* scenario, and makes it one longer.
LEMMA AddPhaseResultType ==
    ASSUME NEW o \in ScenarioOutcome, NEW phase \in Phase, NEW status \in Exit
    PROVE  /\ AddPhaseResult(o, phase, status) \in ScenarioOutcome
           /\ AddPhaseResult(o, phase, status).scenario = o.scenario
           /\ Len(AddPhaseResult(o, phase, status).results) = Len(o.results) + 1
<1> DEFINE pr == [phase |-> phase, status |-> status]
<1>1. pr \in PhaseResult /\ o.results \in Seq(PhaseResult)
  BY DEF PhaseResult, ScenarioOutcome
<1>2. /\ Append(o.results, pr) \in Seq(PhaseResult)
      /\ Len(Append(o.results, pr)) = Len(o.results) + 1
  BY <1>1
<1>3. AddPhaseResult(o, phase, status) = [o EXCEPT !.results = Append(o.results, pr)]
  BY DEF AddPhaseResult
<1> HIDE DEF pr
<1> QED BY <1>2, <1>3 DEF ScenarioOutcome

\* Setting the skip reason (set_skip_reason) keeps an outcome an outcome.
LEMMA SkipType ==
    ASSUME NEW o \in ScenarioOutcome, NEW reason \in SkipReason
    PROVE  /\ [o EXCEPT !.skip = reason] \in ScenarioOutcome
           /\ [o EXCEPT !.skip = reason].scenario = o.scenario
           /\ [o EXCEPT !.skip = reason].results = o.results
BY DEF ScenarioOutcome

\* ScenarioOutcome::new has no results.
LEMMA NewOutcomeType ==
    ASSUME NEW scenario \in Scenario
    PROVE  /\ NewOutcome(scenario) \in ScenarioOutcome
           /\ NewOutcome(scenario).scenario = scenario
           /\ NewOutcome(scenario).results = <<>>
BY DEF NewOutcome, ScenarioOutcome, NotSkipped

\* LabOutcome::add keeps the counters natural numbers and appends the outcome.
LEMMA AddType ==
    ASSUME NEW l \in LabOutcome, NEW o \in ScenarioOutcome
    PROVE  /\ Add(l, o) \in LabOutcome
           /\ Add(l, o).outcomes = Append(l.outcomes, o)
           /\ Snapshot(Add(l, o), FALSE) \in [upto : Nat, ended : BOOLEAN]
<1>1. Add(l, o).outcomes \in Seq(ScenarioOutcome)
  BY DEF Add, LabOutcome
<1>2. Add(l, o).total \in Nat
  BY DEF Add, LabOutcome
<1>3. Add(l, o).tally \in [Bucket -> Nat]
  BY DEF Add, LabOutcome
<1>4. Add(l, o) = [outcomes |-> Add(l, o).outcomes, total |-> Add(l, o).total,
                   tally |-> Add(l, o).tally]
  BY DEF Add
<1>5. Add(l, o) \in LabOutcome
  BY <1>1, <1>2, <1>3, <1>4 DEF LabOutcome
<1>6. Add(l, o).outcomes = Append(l.outcomes, o)
  BY DEF Add
<1>7. Snapshot(Add(l, o), FALSE) \in [upto : Nat, ended : BOOLEAN]
  BY <1>1 DEF Snapshot
<1> QED BY <1>5, <1>6, <1>7

-----------------------------------------------------------------------------
(* Facts about a thread in the middle of a scenario *)

\* Only a worker gets to the steps that touch a tree, and it has a mutant and a
\* build directory.
LEMMA HeldFacts ==
    ASSUME TypeOK, JobsFit, DirsOwned, NEW a \in Actors,
           pc[a] \in {"diff", "equiv", "revert", "revertErr"}
    PROVE  /\ a \in Workers
           /\ job[a] \in ScenarioOutcome
           /\ job[a].scenario \in Mutants
           /\ FileOf[job[a].scenario] \in SourceFiles
           /\ dir[a] \in BuildDirs
<1>1. a \in Workers
  BY DEF JobsFit, Actors
<1>2. job[a] \in ScenarioOutcome /\ job[a].scenario \in Mutants
  BY <1>1 DEF TypeOK, ThreadsTypeOK, JobsFit, InScenario, HasMutant, IsMutant,
              ScenarioOutcome, Scenario
<1>3. dir[a] \in BuildDirs
  BY <1>1 DEF TypeOK, ThreadsTypeOK, DirsOwned, InScenario
<1> QED BY <1>1, <1>2, <1>3, LabAssumption

\* run_one_scenario never asks for a phase beyond the last.
LEMMA PhaseFits ==
    ASSUME TypeOK, JobsFit, NEW a \in Actors, pc[a] = "cargo"
    PROVE  /\ CurrentPhase(a) \in Phase
           /\ Len(job[a].results) \in Nat
           /\ ~options.check_only /\ CurrentPhase(a) = "Build"
                => Len(job[a].results) = 0
<1>1. job[a].results \in Seq(PhaseResult)
  BY DEF TypeOK, ThreadsTypeOK, ScenarioOutcome
<1>2. Len(job[a].results) \in Nat /\ Len(job[a].results) < Len(Phases)
  BY <1>1 DEF JobsFit
<1> QED BY <1>2 DEF CurrentPhase, Phases, Phase

\* Writing to a build directory keeps every tree a tree.
LEMMA OverwrittenType ==
    ASSUME TypeOK, NEW d \in BuildDirs, NEW f \in SourceFiles, NEW c \in Code
    PROVE  Overwritten(d, f, c) \in [BuildDirs -> [SourceFiles -> Code]]
<1>1. [tree[d] EXCEPT ![f] = c] \in [SourceFiles -> Code]
  BY DEF TypeOK, ThreadsTypeOK
<1> QED BY <1>1 DEF TypeOK, ThreadsTypeOK, Overwritten

\* The map of fingerprints holds mutants, under the first that came.
LEMMA PrintTypes ==
    ASSUME TypeOK, NEW f \in Fingerprints, NEW m \in Mutants
    PROVE  /\ MatchOf(f) \in Scenario \cup {None}
           /\ Enter(f, m) \in [Fingerprints -> Mutants \cup {None}]
BY DEF TypeOK, PrintsTypeOK, MatchOf, Enter, Scenario

\* add_scenario_outcome writes a mutant's name to one list file or to none.
LEMMA ListedType ==
    ASSUME TypeOK, NEW o \in ScenarioOutcome
    PROVE  WithListed(o) \in [ListFile -> SUBSET Mutants]
<1>1. Listed(o) => o.scenario \in Mutants
  BY DEF Listed, IsMutant, ScenarioOutcome, Scenario
<1> QED BY <1>1 DEF WithListed, TypeOK, OutputTypeOK, Listed

\* What is written to outcomes.json is a snapshot, or what was there.
LEMMA ThrottledType ==
    ASSUME TypeOK, NEW l \in LabOutcome, WriteThrottled(l)
    PROVE  json' \in [upto : Nat, ended : BOOLEAN]
<1>1. Snapshot(l, FALSE) \in [upto : Nat, ended : BOOLEAN]
  BY DEF Snapshot, LabOutcome
<1> QED BY <1>1 DEF TypeOK, OutputTypeOK, WriteThrottled

\* A thread without a mutant has a job of no results.
LEMMA IdleType ==
    /\ Idle \in ScenarioOutcome
    /\ Idle.scenario = Baseline
    /\ Idle.results = <<>>
BY NewOutcomeType DEF Idle, Scenario

-----------------------------------------------------------------------------
(* Type correctness, one step for each action *)

\* The initial state has its types.
LEMMA TypeInit == Init => TypeOK
<1> SUFFICES ASSUME Init PROVE TypeOK
  OBVIOUS
<1>1. LabTypeOK
  <2>1. 0 \in 0 .. MaxFaults
    BY LabAssumption
  <2> QED BY <2>1 DEF Init, LabTypeOK
<1>2. ThreadsTypeOK
  BY LabAssumption, IdleType DEF Init, ThreadsTypeOK, Location, Pristine, Code, BuildDirs
<1>3. PrintsTypeOK
  BY DEF Init, PrintsTypeOK, Unmeasured
<1>4. EmptyLabOutcome \in LabOutcome
  BY DEF EmptyLabOutcome, LabOutcome
<1>5. OutputTypeOK
  BY <1>4 DEF Init, OutputTypeOK, Unreadable
<1> QED BY <1>1, <1>2, <1>3, <1>5 DEF TypeOK

\* The main thread moves the stage on and rewrites outcomes.json.
LEMMA MainTypes ==
    ASSUME TypeOK, MainStep
    PROVE  TypeOK'
<1> USE DEF lab, threads, measured, prints, output
<1>1. CASE RejectOptions
  BY <1>1 DEF RejectOptions, TypeOK, LabTypeOK, ThreadsTypeOK, PrintsTypeOK,
              OutputTypeOK, Ended
<1>2. CASE NoMutants
  BY <1>2 DEF NoMutants, TypeOK, LabTypeOK, ThreadsTypeOK, PrintsTypeOK,
              OutputTypeOK, Ended
<1>3. CASE Setup
  <2>1. LabTypeOK' /\ PrintsTypeOK' /\ OutputTypeOK'
    BY <1>3 DEF Setup, TypeOK, LabTypeOK, PrintsTypeOK, OutputTypeOK
  <2>2. ThreadsTypeOK'
    <3>1. "start" \in Location /\ 0 \in BuildDirs
      BY DEF Location, InScenario, BuildDirs
    <3> QED BY <1>3, <3>1 DEF Setup, TypeOK, ThreadsTypeOK
  <2> QED BY <2>1, <2>2 DEF TypeOK
<1>4. CASE SetupFails
  BY <1>4, LabAssumption DEF SetupFails, Fault, TypeOK, LabTypeOK, ThreadsTypeOK,
              PrintsTypeOK, OutputTypeOK, Ended
<1>5. CASE BaselinePasses
  BY <1>5 DEF BaselinePasses, TypeOK, LabTypeOK, ThreadsTypeOK, PrintsTypeOK, OutputTypeOK
<1>6. ASSUME NEW ended \in BOOLEAN
      PROVE  Snapshot(labOutcome, ended) \in [upto : Nat, ended : BOOLEAN]
  BY <1>6 DEF TypeOK, OutputTypeOK, LabOutcome, Snapshot
<1>7. CASE BaselineFails
  BY <1>6, <1>7 DEF BaselineFails, TypeOK, LabTypeOK, ThreadsTypeOK, PrintsTypeOK,
              OutputTypeOK, Ended
<1>8. Unreadable \in [upto : Nat, ended : BOOLEAN]
  BY DEF Unreadable
<1>9. CASE BaselineErrs
  <2>1. json' \in {json, Unreadable}
    BY <1>9 DEF BaselineErrs
  <2>2. LabTypeOK'
    BY <1>9, LabAssumption DEF BaselineErrs, Fault, TypeOK, LabTypeOK, Ended
  <2> QED
    BY <1>8, <1>9, <2>1, <2>2 DEF BaselineErrs, TypeOK, ThreadsTypeOK, PrintsTypeOK,
              OutputTypeOK
<1>10. CASE FinishLab
  BY <1>6, <1>10 DEF FinishLab, TypeOK, LabTypeOK, ThreadsTypeOK, PrintsTypeOK,
              OutputTypeOK, Ended
<1>11. CASE FailLab
  <2>1. json' \in {json, Unreadable}
    BY <1>11 DEF FailLab
  <2>2. LabTypeOK'
    BY <1>11, LabAssumption DEF FailLab, Fault, TypeOK, LabTypeOK, Ended
  <2> QED
    BY <1>8, <1>11, <2>1, <2>2 DEF FailLab, TypeOK, ThreadsTypeOK, PrintsTypeOK,
              OutputTypeOK
<1> QED
  BY <1>1, <1>2, <1>3, <1>4, <1>5, <1>7, <1>9, <1>10, <1>11 DEF MainStep

\* A worker between scenarios takes a directory or a mutant.
LEMMA WorkTypes ==
    ASSUME TypeOK, NEW w \in Workers, Work(w)
    PROVE  TypeOK'
<1> USE DEF lab, threads, measured, prints, output, Goto
<1>1. /\ {"queue", "copy", "start", "done", "failed"} \subseteq Location
      /\ {0, w} \subseteq BuildDirs
      /\ w \in Actors
  BY DEF Location, InScenario, BuildDirs, Actors
<1>2. CASE TakeBuildDir(w)
  BY <1>1, <1>2 DEF TakeBuildDir, TypeOK, LabTypeOK, ThreadsTypeOK, PrintsTypeOK, OutputTypeOK
<1>3. CASE CopyBuildDir(w)
  <2>1. Pristine \in [SourceFiles -> Code] /\ 0 \in BuildDirs
    BY DEF Pristine, Code, BuildDirs
  <2>2. ThreadsTypeOK'
    BY <1>1, <1>3, <2>1 DEF CopyBuildDir, TypeOK, ThreadsTypeOK
  <2> QED
    BY <1>3, <2>2 DEF CopyBuildDir, TypeOK, LabTypeOK, PrintsTypeOK, OutputTypeOK
<1>4. CASE CopyFails(w)
  BY <1>1, <1>4, LabAssumption DEF CopyFails, Fault, TypeOK, LabTypeOK, ThreadsTypeOK,
              PrintsTypeOK, OutputTypeOK
<1>5. CASE NextMutant(w)
  <2>1. PICK m \in queue : Take(m) /\ job' = [job EXCEPT ![w] = NewOutcome(m)]
    BY <1>5 DEF NextMutant
  <2>2. NewOutcome(m) \in ScenarioOutcome
    BY <2>1, NewOutcomeType DEF TypeOK, ThreadsTypeOK, Scenario
  <2>3. ThreadsTypeOK'
    BY <1>1, <1>5, <2>1, <2>2 DEF NextMutant, Take, TypeOK, ThreadsTypeOK
  <2> QED
    BY <1>5, <2>3 DEF NextMutant, TypeOK, LabTypeOK, PrintsTypeOK, OutputTypeOK
<1>6. CASE QueueEmpty(w)
  BY <1>1, <1>6 DEF QueueEmpty, TypeOK, LabTypeOK, ThreadsTypeOK, PrintsTypeOK, OutputTypeOK
<1> QED
  BY <1>2, <1>3, <1>4, <1>5, <1>6 DEF Work

\* The steps of a scenario keep the trees trees and the outcomes outcomes.
LEMMA ScenarioTypes ==
    ASSUME TypeOK, JobsFit, DirsOwned, NEW a \in Actors, RunScenario(a)
    PROVE  TypeOK'
<1> USE DEF lab, threads, measured, prints, output, Goto, FailsAt
<1>1. {"queue", "done", "failed"} \cup InScenario \subseteq Location
  BY DEF Location
<1> HIDE DEF Location
<1>2. LabTypeOK'
  <2>1. UNCHANGED lab /\ UNCHANGED interrupted /\ (UNCHANGED faults \/ Fault)
    BY DEF RunScenario, StartScenario, ScenarioFails, SkipUncovered, ApplyMutant,
           CargoEnds, CargoErrs, NewBuild, EquivalentBuild, EquivalentFails, Revert,
           RevertFails, FinishScenario, FinishFails
  <2> QED BY <2>1, LabAssumption DEF TypeOK, LabTypeOK, Fault
<1>3. CASE StartScenario(a)
  BY <1>1, <1>2, <1>3 DEF StartScenario, InScenario, TypeOK, ThreadsTypeOK, PrintsTypeOK,
              OutputTypeOK
<1>4. CASE ScenarioFails(a)
  <2>1. tree' \in [BuildDirs -> [SourceFiles -> Code]]
    <3>1. CASE UNCHANGED tree
      BY <3>1 DEF TypeOK, ThreadsTypeOK
    <3>2. CASE pc[a] = "diff" /\ tree' = Overwritten(dir[a], FileOf[job[a].scenario], Torn)
      BY <3>2, HeldFacts, OverwrittenType DEF Code
    <3> QED BY <1>4, <3>1, <3>2 DEF ScenarioFails
  <2> QED
    BY <1>1, <1>2, <1>4, <2>1 DEF ScenarioFails, TypeOK, ThreadsTypeOK, PrintsTypeOK,
              OutputTypeOK
<1>5. CASE SkipUncovered(a)
  <2>1. [job[a] EXCEPT !.skip = "Uncovered"] \in ScenarioOutcome
    BY SkipType DEF TypeOK, ThreadsTypeOK, SkipReason
  <2> QED
    BY <1>1, <1>2, <1>5, <2>1 DEF SkipUncovered, InScenario, TypeOK, ThreadsTypeOK,
              PrintsTypeOK, OutputTypeOK
<1>6. CASE ApplyMutant(a)
  <2>1. Overwritten(dir[a], FileOf[job[a].scenario], job[a].scenario)
            \in [BuildDirs -> [SourceFiles -> Code]]
    BY <1>6, HeldFacts, OverwrittenType DEF ApplyMutant, Code
  <2> QED
    BY <1>1, <1>2, <1>6, <2>1 DEF ApplyMutant, InScenario, TypeOK, ThreadsTypeOK,
              PrintsTypeOK, OutputTypeOK
<1>7. CASE CargoEnds(a)
  <2>1. PICK e \in CargoExits :
            /\ job' = [job EXCEPT ![a] = AddPhaseResult(@, CurrentPhase(a), e)]
            /\ pc' = [pc EXCEPT ![a] = AfterPhase(a, e)]
    BY <1>7 DEF CargoEnds
  <2>2. AddPhaseResult(job[a], CurrentPhase(a), e) \in ScenarioOutcome
    BY <1>7, PhaseFits, AddPhaseResultType, LabAssumption DEF CargoEnds, TypeOK, ThreadsTypeOK
  <2>3. AfterPhase(a, e) \in Location
    BY <1>1 DEF AfterPhase, InScenario
  <2> QED
    BY <1>2, <1>7, <2>1, <2>2, <2>3 DEF CargoEnds, TypeOK, ThreadsTypeOK, PrintsTypeOK,
              OutputTypeOK
<1>8. CASE CargoErrs(a)
  <2>1. AfterError(a) \in Location
    BY <1>1 DEF AfterError, InScenario
  <2> QED
    BY <1>2, <1>8, <2>1 DEF CargoErrs, TypeOK, ThreadsTypeOK, PrintsTypeOK, OutputTypeOK
<1>9. CASE NewBuild(a)
  <2>1. fingerprints' \in [Fingerprints -> Mutants \cup {None}]
    BY <1>9, HeldFacts, PrintTypes DEF NewBuild, TypeOK, PrintsTypeOK
  <2> QED
    BY <1>1, <1>2, <1>9, <2>1 DEF NewBuild, InScenario, TypeOK, ThreadsTypeOK,
              PrintsTypeOK, OutputTypeOK
<1>10. CASE EquivalentBuild(a)
  <2>1. /\ fingerprints' \in [Fingerprints -> Mutants \cup {None}]
        /\ equivalentTo' \in [Mutants -> Scenario \cup {None}]
    BY <1>10, HeldFacts, PrintTypes DEF EquivalentBuild, TypeOK, PrintsTypeOK
  <2>2. [job[a] EXCEPT !.skip = "Equivalent"] \in ScenarioOutcome
    BY SkipType DEF TypeOK, ThreadsTypeOK, SkipReason
  <2> QED
    BY <1>1, <1>2, <1>10, <2>1, <2>2 DEF EquivalentBuild, InScenario, TypeOK,
              ThreadsTypeOK, PrintsTypeOK, OutputTypeOK
<1>11. CASE EquivalentFails(a)
  BY <1>1, <1>2, <1>11 DEF EquivalentFails, TypeOK, ThreadsTypeOK, PrintsTypeOK, OutputTypeOK
<1>12. CASE Revert(a)
  <2>1. Overwritten(dir[a], FileOf[job[a].scenario], Original)
            \in [BuildDirs -> [SourceFiles -> Code]]
    BY <1>12, HeldFacts, OverwrittenType DEF Revert, Code
  <2> QED
    BY <1>1, <1>2, <1>12, <2>1 DEF Revert, InScenario, TypeOK, ThreadsTypeOK,
              PrintsTypeOK, OutputTypeOK
<1>13. CASE RevertFails(a)
  <2>1. tree' \in [BuildDirs -> [SourceFiles -> Code]]
    BY <1>13, HeldFacts, OverwrittenType DEF RevertFails, Code, TypeOK, ThreadsTypeOK
  <2> QED
    BY <1>1, <1>2, <1>13, <2>1 DEF RevertFails, TypeOK, ThreadsTypeOK, PrintsTypeOK,
              OutputTypeOK
<1>14. /\ job[a] \in ScenarioOutcome
       /\ labOutcome \in LabOutcome
       /\ Add(labOutcome, job[a]) \in LabOutcome
       /\ WithListed(job[a]) \in [ListFile -> SUBSET Mutants]
  BY AddType, ListedType DEF TypeOK, ThreadsTypeOK, OutputTypeOK
<1>15. Leave(a) => job' \in [Actors -> ScenarioOutcome]
  BY IdleType DEF Leave, TypeOK, ThreadsTypeOK
<1>16. CASE FinishScenario(a)
  <2>1. json' \in [upto : Nat, ended : BOOLEAN]
    BY <1>14, <1>16, ThrottledType DEF FinishScenario
  <2>2. OutputTypeOK'
    BY <1>14, <1>16, <2>1 DEF FinishScenario, OutputTypeOK
  <2>3. ThreadsTypeOK'
    BY <1>1, <1>15, <1>16 DEF FinishScenario, TypeOK, ThreadsTypeOK
  <2> QED
    BY <1>2, <1>16, <2>2, <2>3 DEF FinishScenario, TypeOK, PrintsTypeOK
<1>17. CASE FinishFails(a)
  <2>1. Unreadable \in [upto : Nat, ended : BOOLEAN]
    BY DEF Unreadable
  <2>2. json' \in [upto : Nat, ended : BOOLEAN]
    BY <1>14, <1>17, <2>1, ThrottledType
       DEF FinishFails, NotListed, LogUnreadable, TypeOK, OutputTypeOK
  <2>3. OutputTypeOK'
    BY <1>14, <1>17, <2>2 DEF FinishFails, NotListed, LogUnreadable, TypeOK, OutputTypeOK
  <2>4. ThreadsTypeOK'
    BY <1>1, <1>15, <1>17 DEF FinishFails, TypeOK, ThreadsTypeOK
  <2> QED
    BY <1>2, <1>17, <2>3, <2>4 DEF FinishFails, TypeOK, PrintsTypeOK
<1> QED
  BY <1>3, <1>4, <1>5, <1>6, <1>7, <1>8, <1>9, <1>10, <1>11, <1>12, <1>13, <1>16, <1>17
     DEF RunScenario

-----------------------------------------------------------------------------
(* The invariant IndInv: a thread's job fits its place, build directories   *)
(* have one owner, the main thread and the workers take turns.              *)

\* Every thread is new and has neither a job nor a directory.
LEMMA IndInit == Init => IndInv
<1> SUFFICES ASSUME Init PROVE IndInv
  OBVIOUS
<1> USE DEF Init, Actors, Workers, Main, InScenario
<1>1. JobsFit
  BY IdleType DEF JobsFit, AtRest, HasMutant, IsMutant
<1>2. DirsOwned
  BY DEF DirsOwned, NoDir
<1>3. StagesInOrder
  BY DEF StagesInOrder, EmptyLabOutcome
<1> QED BY <1>1, <1>2, <1>3, TypeInit DEF IndInv

\* JobsFit: the main thread only starts the baseline.
LEMMA MainJobs ==
    ASSUME IndInv, MainStep
    PROVE  JobsFit'
<1> USE DEF IndInv, TypeOK, LabTypeOK, ThreadsTypeOK, lab, threads, measured, prints, output, Goto,
            FailsAt, Location, InScenario, AtRest, Ended, Actors, Workers, Main, HasMutant, IsMutant,
            JobsFit, StagesInOrder, Phases
<1>1. CASE RejectOptions
  BY <1>1 DEF RejectOptions
<1>2. CASE NoMutants
  BY <1>2 DEF NoMutants
<1>3. CASE Setup
  BY <1>3 DEF Setup
<1>4. CASE SetupFails
  BY <1>4 DEF SetupFails
<1>5. CASE BaselinePasses
  BY <1>5 DEF BaselinePasses
<1>6. CASE BaselineFails
  BY <1>6 DEF BaselineFails
<1>7. CASE BaselineErrs
  BY <1>7 DEF BaselineErrs
<1>8. CASE FinishLab
  BY <1>8 DEF FinishLab
<1>9. CASE FailLab
  BY <1>9 DEF FailLab
<1> QED
  BY <1>1, <1>2, <1>3, <1>4, <1>5, <1>6, <1>7, <1>8, <1>9 DEF MainStep

\* JobsFit: a worker between scenarios takes a mutant or nothing.
LEMMA WorkJobs ==
    ASSUME IndInv, NEW w \in Workers, Work(w)
    PROVE  JobsFit'
<1> USE DEF IndInv, TypeOK, LabTypeOK, ThreadsTypeOK, lab, threads, measured, prints, output, Goto,
            FailsAt, Location, InScenario, AtRest, Ended, Actors, Workers, Main, HasMutant, IsMutant,
            JobsFit, StagesInOrder, Phases
<1>1. CASE TakeBuildDir(w)
  BY <1>1 DEF TakeBuildDir
<1>2. CASE CopyBuildDir(w)
  BY <1>2 DEF CopyBuildDir
<1>3. CASE CopyFails(w)
  BY <1>3 DEF CopyFails
<1>4. CASE NextMutant(w)
  <2>1. PICK m \in queue : Take(m) /\ job' = [job EXCEPT ![w] = NewOutcome(m)]
    BY <1>4 DEF NextMutant
  <2>2. /\ m \in Mutants /\ m # Baseline
        /\ NewOutcome(m).scenario = m /\ NewOutcome(m).results = <<>>
    BY <2>1, NewOutcomeType, BaselineAssumption DEF Scenario
  <2> QED BY <1>4, <2>1, <2>2 DEF NextMutant, Phases
<1>5. CASE QueueEmpty(w)
  BY <1>5 DEF QueueEmpty
<1> QED
  BY <1>1, <1>2, <1>3, <1>4, <1>5 DEF Work

\* JobsFit: phases follow one another, and the log of a phase comes before the
\* next phase starts.
LEMMA ScenarioJobs ==
    ASSUME IndInv, NEW a \in Actors, RunScenario(a)
    PROVE  JobsFit'
<1> USE DEF IndInv, TypeOK, LabTypeOK, ThreadsTypeOK, lab, threads, measured, prints, output, Goto,
            FailsAt, Location, InScenario, AtRest, Ended, Actors, Workers, Main, HasMutant, IsMutant,
            JobsFit, StagesInOrder, Phases
<1>1. CASE StartScenario(a)
  BY <1>1 DEF StartScenario
<1>2. CASE ScenarioFails(a)
  BY <1>2 DEF ScenarioFails
<1>3. CASE SkipUncovered(a)
  BY <1>3, SkipType DEF SkipUncovered, SkipReason
<1>4. CASE ApplyMutant(a)
  BY <1>4 DEF ApplyMutant
<1>5. CASE CargoEnds(a)
  <2>1. PICK e \in CargoExits :
            /\ job' = [job EXCEPT ![a] = AddPhaseResult(@, CurrentPhase(a), e)]
            /\ pc' = [pc EXCEPT ![a] = AfterPhase(a, e)]
    BY <1>5 DEF CargoEnds
  <2>2. /\ job'[a].scenario = job[a].scenario
        /\ Len(job'[a].results) = Len(job[a].results) + 1
    BY <1>5, <2>1, PhaseFits, AddPhaseResultType, LabAssumption DEF CargoEnds
  <2>3. /\ Len(job[a].results) \in Nat
        /\ Len(job[a].results) < Len(Phases)
        /\ Len(Phases) \in Nat
    BY <1>5, PhaseFits DEF CargoEnds, Phases
  <2>4. pc'[a] \in {"equiv", "cargo", "revert", "finish"}
    BY <2>1 DEF AfterPhase
  <2>5. pc'[a] = "cargo" => Len(job'[a].results) < Len(Phases)
    BY <2>1, <2>2, <2>3 DEF AfterPhase, IsLastPhase
  <2>6. pc'[a] = "equiv" => CurrentPhase(a) = "Build" /\ HasMutant(a)
    BY <2>1 DEF AfterPhase
  <2>7. pc'[a] = "revert" => HasMutant(a)
    BY <2>1 DEF AfterPhase
  <2>8. CurrentPhase(a) = "Build" => ~options.check_only
    BY <2>3 DEF CurrentPhase, Phases
  <2>9. pc'[a] = "equiv" => Len(job'[a].results) = 1 /\ ~options.check_only
    <3> SUFFICES ASSUME pc'[a] = "equiv"
                 PROVE  Len(job'[a].results) = 1 /\ ~options.check_only
      OBVIOUS
    <3>1. pc[a] = "cargo" /\ TypeOK /\ JobsFit
      BY <1>5 DEF CargoEnds
    <3>2. Len(job[a].results) = 0
      BY <3>1, <2>6, <2>8, PhaseFits
    <3> QED BY <3>2, <2>2, <2>6, <2>8
  <2> QED
    BY <1>5, <2>1, <2>2, <2>4, <2>5, <2>6, <2>7, <2>9 DEF CargoEnds, Phases
<1>6. CASE CargoErrs(a)
  BY <1>6 DEF CargoErrs, AfterError
<1>7. CASE NewBuild(a)
  <2>1. Len(job[a].results) = 1 /\ ~options.check_only
    BY <1>7 DEF NewBuild
  <2>2. Len(<<"Build", "Test">>) = 2
    OBVIOUS
  <2>3. Len(job[a].results) < Len(Phases)
    BY <2>1, <2>2
  <2> QED BY <1>7, <2>3 DEF NewBuild
<1>8. CASE EquivalentBuild(a)
  BY <1>8, SkipType DEF EquivalentBuild, SkipReason
<1>9. CASE EquivalentFails(a)
  BY <1>9 DEF EquivalentFails
<1>10. CASE Revert(a)
  BY <1>10 DEF Revert
<1>11. CASE RevertFails(a)
  BY <1>11 DEF RevertFails
<1>12. CASE FinishScenario(a)
  BY <1>12, IdleType DEF FinishScenario, Leave
<1>13. CASE FinishFails(a)
  BY <1>13, IdleType DEF FinishFails, Leave
<1> QED
  BY <1>1, <1>2, <1>3, <1>4, <1>5, <1>6, <1>7, <1>8, <1>9, <1>10, <1>11, <1>12, <1>13 DEF RunScenario

\* DirsOwned: the main thread uses the baseline's directory.
LEMMA MainDirs ==
    ASSUME IndInv, MainStep
    PROVE  DirsOwned'
<1> USE DEF IndInv, TypeOK, LabTypeOK, ThreadsTypeOK, lab, threads, measured, prints, output, Goto,
            FailsAt, Location, InScenario, AtRest, Ended, Actors, Workers, Main, HasMutant, IsMutant,
            DirsOwned, JobsFit, StagesInOrder
<1>1. CASE RejectOptions
  BY <1>1 DEF RejectOptions
<1>2. CASE NoMutants
  BY <1>2 DEF NoMutants
<1>3. CASE Setup
  BY <1>3 DEF Setup
<1>4. CASE SetupFails
  BY <1>4 DEF SetupFails
<1>5. CASE BaselinePasses
  BY <1>5 DEF BaselinePasses
<1>6. CASE BaselineFails
  BY <1>6 DEF BaselineFails
<1>7. CASE BaselineErrs
  BY <1>7 DEF BaselineErrs
<1>8. CASE FinishLab
  BY <1>8 DEF FinishLab
<1>9. CASE FailLab
  BY <1>9 DEF FailLab
<1> QED
  BY <1>1, <1>2, <1>3, <1>4, <1>5, <1>6, <1>7, <1>8, <1>9 DEF MainStep

\* DirsOwned: build_dir_0 is taken once, and a copy is its maker's own.
LEMMA WorkDirs ==
    ASSUME IndInv, NEW w \in Workers, Work(w)
    PROVE  DirsOwned'
<1> USE DEF IndInv, TypeOK, LabTypeOK, ThreadsTypeOK, lab, threads, measured, prints, output, Goto,
            FailsAt, Location, InScenario, AtRest, Ended, Actors, Workers, Main, HasMutant, IsMutant,
            DirsOwned, JobsFit, StagesInOrder
<1>1. CASE TakeBuildDir(w)
  <2>1. CASE Dir0Free
    BY <1>1, <2>1 DEF TakeBuildDir, Dir0Free, NoDir
  <2>2. CASE ~Dir0Free
    BY <1>1, <2>2 DEF TakeBuildDir, Dir0Free, NoDir
  <2> QED BY <2>1, <2>2
<1>2. CASE CopyBuildDir(w)
  BY <1>2 DEF CopyBuildDir, NoDir
<1>3. CASE CopyFails(w)
  BY <1>3 DEF CopyFails
<1>4. CASE NextMutant(w)
  BY <1>4 DEF NextMutant
<1>5. CASE QueueEmpty(w)
  BY <1>5 DEF QueueEmpty
<1> QED
  BY <1>1, <1>2, <1>3, <1>4, <1>5 DEF Work

\* DirsOwned: a scenario stays in its thread's directory.
LEMMA ScenarioDirs ==
    ASSUME IndInv, NEW a \in Actors, RunScenario(a)
    PROVE  DirsOwned'
<1> USE DEF IndInv, TypeOK, LabTypeOK, ThreadsTypeOK, lab, threads, measured, prints, output, Goto,
            FailsAt, Location, InScenario, AtRest, Ended, Actors, Workers, Main, HasMutant, IsMutant,
            DirsOwned, JobsFit, StagesInOrder
<1>1. CASE StartScenario(a)
  BY <1>1 DEF StartScenario
<1>2. CASE ScenarioFails(a)
  BY <1>2 DEF ScenarioFails
<1>3. CASE SkipUncovered(a)
  BY <1>3 DEF SkipUncovered
<1>4. CASE ApplyMutant(a)
  BY <1>4 DEF ApplyMutant
<1>5. CASE CargoEnds(a)
  BY <1>5 DEF CargoEnds, AfterPhase
<1>6. CASE CargoErrs(a)
  BY <1>6 DEF CargoErrs, AfterError
<1>7. CASE NewBuild(a)
  BY <1>7 DEF NewBuild
<1>8. CASE EquivalentBuild(a)
  BY <1>8 DEF EquivalentBuild
<1>9. CASE EquivalentFails(a)
  BY <1>9 DEF EquivalentFails
<1>10. CASE Revert(a)
  BY <1>10 DEF Revert
<1>11. CASE RevertFails(a)
  BY <1>11 DEF RevertFails
<1>12. CASE FinishScenario(a)
  BY <1>12 DEF FinishScenario
<1>13. CASE FinishFails(a)
  BY <1>13 DEF FinishFails
<1> QED
  BY <1>1, <1>2, <1>3, <1>4, <1>5, <1>6, <1>7, <1>8, <1>9, <1>10, <1>11, <1>12, <1>13 DEF RunScenario

\* StagesInOrder: the main thread waits for a scenario to end.
LEMMA MainStages ==
    ASSUME IndInv, MainStep
    PROVE  StagesInOrder'
<1> USE DEF IndInv, TypeOK, LabTypeOK, ThreadsTypeOK, lab, threads, measured, prints, output, Goto,
            FailsAt, Location, InScenario, AtRest, Ended, Actors, Workers, Main, HasMutant, IsMutant,
            StagesInOrder, JobsFit
<1>1. CASE RejectOptions
  BY <1>1 DEF RejectOptions
<1>2. CASE NoMutants
  BY <1>2 DEF NoMutants
<1>3. CASE Setup
  BY <1>3 DEF Setup
<1>4. CASE SetupFails
  BY <1>4 DEF SetupFails
<1>5. CASE BaselinePasses
  BY <1>5 DEF BaselinePasses
<1>6. CASE BaselineFails
  BY <1>6 DEF BaselineFails
<1>7. CASE BaselineErrs
  BY <1>7 DEF BaselineErrs
<1>8. CASE FinishLab
  BY <1>8 DEF FinishLab
<1>9. CASE FailLab
  BY <1>9 DEF FailLab
<1> QED
  BY <1>1, <1>2, <1>3, <1>4, <1>5, <1>6, <1>7, <1>8, <1>9 DEF MainStep

\* StagesInOrder: workers only run in the testing stage.
LEMMA WorkStages ==
    ASSUME IndInv, NEW w \in Workers, Work(w)
    PROVE  StagesInOrder'
<1> USE DEF IndInv, TypeOK, LabTypeOK, ThreadsTypeOK, lab, threads, measured, prints, output, Goto,
            FailsAt, Location, InScenario, AtRest, Ended, Actors, Workers, Main, HasMutant, IsMutant,
            StagesInOrder, JobsFit
<1>1. CASE TakeBuildDir(w)
  BY <1>1 DEF TakeBuildDir
<1>2. CASE CopyBuildDir(w)
  BY <1>2 DEF CopyBuildDir
<1>3. CASE CopyFails(w)
  BY <1>3 DEF CopyFails
<1>4. CASE NextMutant(w)
  BY <1>4 DEF NextMutant
<1>5. CASE QueueEmpty(w)
  BY <1>5 DEF QueueEmpty
<1> QED
  BY <1>1, <1>2, <1>3, <1>4, <1>5 DEF Work

\* StagesInOrder: until the baseline is recorded nothing else is.
LEMMA ScenarioStages ==
    ASSUME IndInv, NEW a \in Actors, RunScenario(a)
    PROVE  StagesInOrder'
<1> USE DEF IndInv, TypeOK, LabTypeOK, ThreadsTypeOK, lab, threads, measured, prints, output, Goto,
            FailsAt, Location, InScenario, AtRest, Ended, Actors, Workers, Main, HasMutant, IsMutant,
            StagesInOrder, JobsFit
<1>1. CASE StartScenario(a)
  BY <1>1 DEF StartScenario
<1>2. CASE ScenarioFails(a)
  BY <1>2 DEF ScenarioFails
<1>3. CASE SkipUncovered(a)
  BY <1>3 DEF SkipUncovered
<1>4. CASE ApplyMutant(a)
  BY <1>4 DEF ApplyMutant
<1>5. CASE CargoEnds(a)
  BY <1>5 DEF CargoEnds, AfterPhase
<1>6. CASE CargoErrs(a)
  BY <1>6 DEF CargoErrs, AfterError
<1>7. CASE NewBuild(a)
  BY <1>7 DEF NewBuild
<1>8. CASE EquivalentBuild(a)
  BY <1>8 DEF EquivalentBuild
<1>9. CASE EquivalentFails(a)
  BY <1>9 DEF EquivalentFails
<1>10. CASE Revert(a)
  BY <1>10 DEF Revert
<1>11. CASE RevertFails(a)
  BY <1>11 DEF RevertFails
<1>12. CASE FinishScenario(a)
  BY <1>12 DEF FinishScenario
<1>13. CASE FinishFails(a)
  BY <1>13 DEF FinishFails
<1> QED
  BY <1>1, <1>2, <1>3, <1>4, <1>5, <1>6, <1>7, <1>8, <1>9, <1>10, <1>11, <1>12, <1>13 DEF RunScenario

-----------------------------------------------------------------------------

\* A Ctrl-C only sets the flag, and a run that ended stays as it is.
LEMMA QuietIndInv ==
    ASSUME IndInv, Interrupt \/ UNCHANGED vars
    PROVE  IndInv'
<1>1. /\ UNCHANGED <<lab, threads, measured, prints, faults, output>>
      /\ interrupted' \in BOOLEAN
  BY DEF IndInv, TypeOK, LabTypeOK, Interrupt, vars
<1> USE DEF lab, threads, measured, prints, output
<1>2. TypeOK'
  BY <1>1 DEF IndInv, TypeOK, LabTypeOK, ThreadsTypeOK, PrintsTypeOK, OutputTypeOK
<1>3. JobsFit'
  BY <1>1 DEF IndInv, JobsFit, HasMutant, Phases
<1>4. DirsOwned'
  BY <1>1 DEF IndInv, DirsOwned
<1>5. StagesInOrder'
  BY <1>1 DEF IndInv, StagesInOrder
<1> QED BY <1>2, <1>3, <1>4, <1>5 DEF IndInv

\* Every step keeps the invariant, whichever thread makes it.
LEMMA IndStep == IndInv /\ [Next]_vars => IndInv'
<1> SUFFICES ASSUME IndInv, [Next]_vars PROVE IndInv'
  OBVIOUS
<1>1. CASE MainStep
  BY <1>1, MainTypes, MainJobs, MainDirs, MainStages DEF IndInv
<1>2. ASSUME NEW a \in Actors, RunScenario(a) PROVE IndInv'
  BY <1>2, ScenarioTypes, ScenarioJobs, ScenarioDirs, ScenarioStages DEF IndInv
<1>3. ASSUME NEW w \in Workers, Work(w) PROVE IndInv'
  BY <1>3, WorkTypes, WorkJobs, WorkDirs, WorkStages DEF IndInv
<1>4. CASE Interrupt \/ UNCHANGED vars
  BY <1>4, QuietIndInv
<1> QED BY <1>1, <1>2, <1>3, <1>4 DEF Next, Terminated

\* The lab's inductive invariant: a thread's job fits its place in
\* run_one_scenario, the baseline's build directory goes to one worker
\* (build_dir_0.lock().take()) and the others work in copies of their own, and
\* nothing is tested before the baseline is done.
THEOREM Inductive == Spec => []IndInv
BY IndInit, IndStep, PTL DEF Spec

\* The lab's state keeps its types: a phase that does not exist is never asked
\* for, and no thread writes to a build directory it was not given.
THEOREM TypeCorrect == Spec => []TypeOK
<1>1. IndInv => TypeOK
  BY DEF IndInv
<1> QED BY <1>1, Inductive, PTL

-----------------------------------------------------------------------------
(* Build directories: TreesFollow *)

\* apply replaces one file of a pristine tree, revert puts it back.
LEMMA Rewrites ==
    ASSUME NEW m \in Mutants
    PROVE  /\ Pristine \in [SourceFiles -> Code]
           /\ [Pristine EXCEPT ![FileOf[m]] = m] = Mutated(m)
           /\ [Mutated(m) EXCEPT ![FileOf[m]] = Original] = Pristine
BY LabAssumption DEF Pristine, Mutated, Code

\* A write to a directory leaves the others alone.
LEMMA WriteOne ==
    ASSUME TypeOK, NEW d \in BuildDirs, NEW f, NEW c
    PROVE  /\ Overwritten(d, f, c)[d] = [tree[d] EXCEPT ![f] = c]
           /\ \A e \in BuildDirs : e # d => Overwritten(d, f, c)[e] = tree[e]
BY DEF TypeOK, ThreadsTypeOK, Overwritten

\* Two workers never share a directory, nor does one have the other's copy.
LEMMA DirsDiffer ==
    ASSUME IndInv, NEW a \in Workers, dir[a] # NoDir, NEW w \in Workers, w # a
    PROVE  dir[w] # dir[a] /\ w # dir[a]
BY DEF IndInv, DirsOwned, Workers, NoDir

\* What a step of a scenario may touch: its own thread, and the tree of its own
\* directory, which only a worker writes to.
LEMMA Footprint ==
    ASSUME IndInv, NEW a \in Actors, RunScenario(a)
    PROVE  /\ UNCHANGED <<dir, queue, mutants, stage, options>>
           /\ \A b \in Actors : b # a => pc'[b] = pc[b] /\ job'[b] = job[b]
           /\ \A e \in BuildDirs : e # dir[a] => tree'[e] = tree[e]
           /\ a \notin Workers => tree' = tree
           /\ faults' = 0 => faults = 0
<1> USE DEF lab, Goto, FailsAt
<1>1. UNCHANGED <<dir, queue, mutants, stage, options>>
  BY DEF RunScenario, StartScenario, ScenarioFails, SkipUncovered, ApplyMutant,
         CargoEnds, CargoErrs, NewBuild, EquivalentBuild, EquivalentFails, Revert,
         RevertFails, FinishScenario, FinishFails
<1>2. \A b \in Actors : b # a => pc'[b] = pc[b]
  BY DEF RunScenario, StartScenario, ScenarioFails, SkipUncovered, ApplyMutant,
         CargoEnds, CargoErrs, NewBuild, EquivalentBuild, EquivalentFails, Revert,
         RevertFails, FinishScenario, FinishFails, IndInv, TypeOK, ThreadsTypeOK
<1>3. \A b \in Actors : b # a => job'[b] = job[b]
  BY DEF RunScenario, StartScenario, ScenarioFails, SkipUncovered, ApplyMutant,
         CargoEnds, CargoErrs, NewBuild, EquivalentBuild, EquivalentFails, Revert,
         RevertFails, FinishScenario, FinishFails, Leave, IndInv, TypeOK, ThreadsTypeOK
<1>4. \/ tree' = tree
      \/ /\ pc[a] \in {"diff", "revert", "revertErr"}
         /\ \E c : tree' = Overwritten(dir[a], FileOf[job[a].scenario], c)
  BY DEF RunScenario, StartScenario, ScenarioFails, SkipUncovered, ApplyMutant,
         CargoEnds, CargoErrs, NewBuild, EquivalentBuild, EquivalentFails, Revert,
         RevertFails, FinishScenario, FinishFails
<1>5. /\ \A e \in BuildDirs : e # dir[a] => tree'[e] = tree[e]
      /\ a \notin Workers => tree' = tree
  <2>1. CASE tree' = tree
    BY <2>1
  <2>2. ASSUME NEW c, pc[a] \in {"diff", "revert", "revertErr"},
               tree' = Overwritten(dir[a], FileOf[job[a].scenario], c)
        PROVE  a \in Workers /\ \A e \in BuildDirs : e # dir[a] => tree'[e] = tree[e]
    <3>1. TypeOK /\ a \in Workers /\ dir[a] \in BuildDirs
      BY <2>2, HeldFacts DEF IndInv
    <3> QED BY <2>2, <3>1 DEF Overwritten, TypeOK, ThreadsTypeOK
  <2> QED BY <1>4, <2>1, <2>2
<1>6. UNCHANGED faults \/ Fault
  BY DEF RunScenario, StartScenario, ScenarioFails, SkipUncovered, ApplyMutant,
         CargoEnds, CargoErrs, NewBuild, EquivalentBuild, EquivalentFails, Revert,
         RevertFails, FinishScenario, FinishFails
<1>7. faults' = 0 => faults = 0
  BY <1>6, LabAssumption DEF Fault, IndInv, TypeOK, LabTypeOK
<1> QED BY <1>1, <1>2, <1>3, <1>5, <1>7

\* A step of a scenario in one thread leaves what the others see alone.
LEMMA OtherTrees ==
    ASSUME IndInv, TreesFollow, NEW a \in Actors, RunScenario(a),
           NEW w \in Workers, w # a
    PROVE  Follows(w)'
<1>1. /\ dir' = dir /\ pc'[w] = pc[w] /\ job'[w] = job[w]
      /\ faults' = 0 => faults = 0
  BY Footprint DEF Actors
<1>2. tree'[w] = tree[w] /\ (dir[w] # NoDir => tree'[dir[w]] = tree[dir[w]])
  <2>1. w \in BuildDirs /\ (dir[w] # NoDir => dir[w] \in BuildDirs)
    BY DEF IndInv, DirsOwned, BuildDirs
  <2>2. CASE a \notin Workers
    BY <2>2, Footprint
  <2>3. CASE a \in Workers /\ dir[a] # NoDir
    BY <2>1, <2>3, DirsDiffer, Footprint
  <2>4. CASE a \in Workers /\ dir[a] = NoDir
    <3>1. NoDir \notin BuildDirs
      BY DEF NoDir, BuildDirs, Workers
    <3> QED BY <2>1, <2>4, <3>1, Footprint
  <2> QED BY <2>2, <2>3, <2>4
<1>3. Follows(w)
  BY DEF TreesFollow
<1>4. pc[w] \in {"cargo", "equiv", "revert", "revertErr",
                 "start", "diff", "finish", "queue", "done"} => dir[w] # NoDir
  BY DEF IndInv, DirsOwned, InScenario
<1> QED BY <1>1, <1>2, <1>3, <1>4 DEF Follows

\* The worker's own directory: mutated by apply, restored by revert.
LEMMA OwnTree ==
    ASSUME IndInv, TreesFollow, NEW a \in Workers, RunScenario(a)
    PROVE  Follows(a)'
<1> USE DEF Follows, Goto, FailsAt
<1>1. /\ Follows(a) /\ TypeOK /\ a \in Actors
      /\ pc[a] \in InScenario => dir[a] # NoDir
      /\ job[a] \in ScenarioOutcome
      /\ faults \in Nat
  BY LabAssumption DEF TreesFollow, IndInv, TypeOK, LabTypeOK, ThreadsTypeOK, Actors, DirsOwned
<1>2. /\ dir' = dir /\ pc \in [Actors -> Location] /\ job \in [Actors -> ScenarioOutcome]
      /\ dir[a] # a => tree'[a] = tree[a]
  BY <1>1, Footprint DEF TypeOK, ThreadsTypeOK, BuildDirs
<1>3. CASE StartScenario(a)
  BY <1>1, <1>2, <1>3 DEF StartScenario, IndInv, JobsFit, InScenario, HasMutant
<1>4. CASE ScenarioFails(a)
  BY <1>1, <1>2, <1>4 DEF ScenarioFails, Fault
<1>5. CASE SkipUncovered(a)
  BY <1>1, <1>2, <1>5 DEF SkipUncovered
<1>6. CASE ApplyMutant(a)
  <2>1. tree'[dir[a]] = Mutated(job[a].scenario)
    BY <1>1, <1>6, HeldFacts, WriteOne, Rewrites DEF ApplyMutant, IndInv
  <2> QED BY <1>1, <1>2, <1>6, <2>1 DEF ApplyMutant
<1>7. CASE CargoEnds(a)
  <2>1. PICK e \in CargoExits :
            /\ job' = [job EXCEPT ![a] = AddPhaseResult(@, CurrentPhase(a), e)]
            /\ pc' = [pc EXCEPT ![a] = AfterPhase(a, e)]
    BY <1>7 DEF CargoEnds
  <2>2. job'[a].scenario = job[a].scenario
    BY <1>1, <1>2, <1>7, <2>1, PhaseFits, AddPhaseResultType, LabAssumption
       DEF CargoEnds, IndInv
  <2>3. HasMutant(a) /\ pc'[a] \in {"equiv", "cargo", "revert"}
    BY <1>1, <1>2, <1>7, <2>1 DEF AfterPhase, CargoEnds, IndInv, JobsFit, InScenario
  <2> QED BY <1>1, <1>2, <1>7, <2>2, <2>3 DEF CargoEnds
<1>8. CASE CargoErrs(a)
  <2>1. pc'[a] = "revertErr"
    BY <1>1, <1>2, <1>8 DEF CargoErrs, AfterError, IndInv, JobsFit, InScenario
  <2> QED BY <1>1, <1>2, <1>8, <2>1 DEF CargoErrs
<1>9. CASE NewBuild(a)
  BY <1>1, <1>2, <1>9 DEF NewBuild
<1>10. CASE EquivalentBuild(a)
  BY <1>1, <1>2, <1>10, SkipType DEF EquivalentBuild, SkipReason
<1>11. CASE EquivalentFails(a)
  BY <1>1, <1>2, <1>11 DEF EquivalentFails, Fault
<1>12. CASE Revert(a)
  <2>1. tree'[dir[a]] = Pristine
    BY <1>1, <1>12, HeldFacts, WriteOne, Rewrites DEF Revert, IndInv
  <2> QED BY <1>1, <1>2, <1>12, <2>1 DEF Revert
<1>13. CASE RevertFails(a)
  BY <1>1, <1>2, <1>13 DEF RevertFails, Fault
<1>14. CASE FinishScenario(a)
  BY <1>1, <1>2, <1>14, LabAssumption DEF FinishScenario, Main, Workers
<1>15. CASE FinishFails(a)
  BY <1>1, <1>2, <1>15 DEF FinishFails, Fault
<1> QED
  BY <1>3, <1>4, <1>5, <1>6, <1>7, <1>8, <1>9, <1>10, <1>11, <1>12, <1>13, <1>14, <1>15
     DEF RunScenario

-----------------------------------------------------------------------------
(* The scope of the threads *)

\* No thread has moved.
LEMMA JoinedInit == Init => ThreadsJoined
BY DEF Init, ThreadsJoined, Actors, Ended

\* Only spawned threads move, and the lab ends after all of them.
LEMMA JoinedStep == IndInv /\ ThreadsJoined /\ [Next]_vars => ThreadsJoined'
<1> SUFFICES ASSUME IndInv, ThreadsJoined, [Next]_vars PROVE ThreadsJoined'
  OBVIOUS
<1> USE DEF ThreadsJoined, lab, threads, Goto
<1>1. ASSUME UNCHANGED <<options, mutants>> PROVE Spawned' = Spawned
  BY <1>1 DEF Spawned, NThreads, MaxJobs
<1>2. CASE Setup
  BY <1>1, <1>2 DEF Setup, IndInv, TypeOK, ThreadsTypeOK, Ended, Main, Workers, Actors
<1>3. CASE MainStep /\ ~Setup
  <2>1. UNCHANGED <<options, mutants, pc>>
    BY <1>3 DEF MainStep, RejectOptions, NoMutants, SetupFails, BaselinePasses,
                BaselineFails, BaselineErrs, FinishLab, FailLab
  <2>2. \/ stage \in {"setup", "baseline"}
        \/ stage = "testing" /\ AllEnded
    BY <1>3 DEF MainStep, RejectOptions, NoMutants, SetupFails, BaselinePasses,
                BaselineFails, BaselineErrs, FinishLab, FailLab
  <2> QED BY <1>1, <2>1, <2>2 DEF IndInv, StagesInOrder, AllEnded
<1>4. ASSUME NEW a \in Actors, RunScenario(a) PROVE ThreadsJoined'
  <2>1. /\ UNCHANGED <<options, mutants, stage>>
        /\ \A b \in Actors : b # a => pc'[b] = pc[b]
    BY <1>4, Footprint DEF RunScenario, StartScenario, ScenarioFails, SkipUncovered,
         ApplyMutant, CargoEnds, CargoErrs, NewBuild, EquivalentBuild, EquivalentFails,
         Revert, RevertFails, FinishScenario, FinishFails
  <2>2. pc[a] \in InScenario
    BY <1>4 DEF RunScenario, StartScenario, ScenarioFails, FailsAt, SkipUncovered,
         ApplyMutant, CargoEnds, CargoErrs, NewBuild, EquivalentBuild, EquivalentFails,
         Revert, RevertFails, FinishScenario, FinishFails, InScenario
  <2> QED BY <1>1, <2>1, <2>2 DEF InScenario, Actors
<1>5. ASSUME NEW w \in Workers, Work(w) PROVE ThreadsJoined'
  <2>1. /\ UNCHANGED <<options, mutants, stage>>
        /\ \A v \in Workers : v # w => pc'[v] = pc[v]
    BY <1>5 DEF Work, TakeBuildDir, CopyBuildDir, CopyFails, NextMutant, QueueEmpty,
                IndInv, TypeOK, ThreadsTypeOK, Actors
  <2>2. \/ pc[w] = "new" /\ w \in Spawned /\ stage = "testing"
        \/ pc[w] \in {"copy", "queue"}
    BY <1>5 DEF Work, TakeBuildDir, CopyBuildDir, CopyFails, NextMutant, QueueEmpty
  <2> QED BY <1>1, <2>1, <2>2 DEF Ended
<1>6. CASE Interrupt \/ UNCHANGED vars
  BY <1>1, <1>6 DEF Interrupt, vars
<1> QED BY <1>2, <1>3, <1>4, <1>5, <1>6 DEF Next, Terminated

\* --in-place leaves one worker, and it has the directory: none is copied.
LEMMA NoCopyInPlace ==
    ASSUME IndInv, ThreadsJoined, NEW a \in Workers, pc[a] = "copy"
    PROVE  ~options.in_place
<1> SUFFICES ASSUME options.in_place PROVE FALSE
  OBVIOUS
<1>1. Cardinality(mutants) \in Nat
  <2>1. mutants \in SUBSET Mutants
    BY LabAssumption DEF IndInv, TypeOK, LabTypeOK
  <2>2. IsFiniteSet(mutants)
    BY <2>1, MutantsFinite, FS_Subset
  <2> QED BY <2>2, FS_CardinalityType
<1>2. \A w \in Workers : w \in Spawned => w = 1
  BY <1>1 DEF Spawned, NThreads, MaxJobs, Workers
<1>3. PICK v \in Workers : dir[v] = 0 /\ v # a
  BY DEF IndInv, DirsOwned, NoDir
<1>4. pc[v] # "new"
  BY <1>3 DEF IndInv, DirsOwned, NoDir
<1> QED BY <1>2, <1>3, <1>4 DEF ThreadsJoined

-----------------------------------------------------------------------------
(* Trees *)

\* Every tree is pristine.
LEMMA TreesInit == Init => TreesFollow
BY DEF Init, TreesFollow, Follows, Actors, BuildDirs, NoDir

\* A step of a scenario keeps its own directory and those of the others right.
LEMMA ScenarioTrees ==
    ASSUME IndInv, TreesFollow, NEW a \in Actors, RunScenario(a)
    PROVE  TreesFollow'
<1>1. \A w \in Workers : Follows(w)'
  BY OtherTrees, OwnTree
<1>2. (\A w \in Workers : dir'[w] # 0) => tree'[0] = Pristine
  BY Footprint DEF TreesFollow, BuildDirs
<1> QED BY <1>1, <1>2 DEF TreesFollow

\* Taking the pristine directory, making a copy, taking a mutant.
LEMMA WorkTrees ==
    ASSUME IndInv, ThreadsJoined, TreesFollow, NEW a \in Workers, Work(a)
    PROVE  TreesFollow'
<1> USE DEF TreesFollow, Follows, Goto
<1>1. /\ pc \in [Actors -> Location] /\ job \in [Actors -> ScenarioOutcome]
      /\ dir \in [Actors -> BuildDirs \cup {NoDir}]
      /\ tree \in [BuildDirs -> [SourceFiles -> Code]]
      /\ Workers \subseteq Actors /\ BuildDirs = {0} \cup Workers /\ 0 \notin Workers
      /\ faults \in Nat /\ NoDir \notin BuildDirs
  BY LabAssumption DEF IndInv, TypeOK, LabTypeOK, ThreadsTypeOK, Actors, BuildDirs, Workers, NoDir
<1>2. \A w \in Workers : pc[w] \in {"queue", "done"} \cup InScenario => dir[w] # NoDir
  BY DEF IndInv, DirsOwned
<1>3. CASE TakeBuildDir(a)
  <2>1. CASE Dir0Free
    <3>1. /\ dir' = [dir EXCEPT ![a] = 0] /\ pc' = [pc EXCEPT ![a] = "queue"]
          /\ UNCHANGED <<job, tree, faults>>
      BY <1>3, <2>1 DEF TakeBuildDir, lab
    <3>2. tree[0] = Pristine /\ tree[a] = Pristine
      BY <1>3, <2>1 DEF Dir0Free, TakeBuildDir, IndInv, DirsOwned, Workers, NoDir
    <3>3. \A w \in Workers : Follows(w)'
      BY <1>1, <3>1, <3>2
    <3> QED BY <1>1, <3>1, <3>2, <3>3
  <2>2. CASE ~Dir0Free
    BY <1>1, <1>3, <2>2 DEF TakeBuildDir
  <2> QED BY <2>1, <2>2
<1>4. CASE CopyBuildDir(a)
  <2>1. ~options.in_place
    BY <1>4, NoCopyInPlace DEF CopyBuildDir
  <2>2. /\ dir' = [dir EXCEPT ![a] = a]
        /\ tree' = [tree EXCEPT ![a] = Pristine]
        /\ pc' = [pc EXCEPT ![a] = "queue"]
        /\ UNCHANGED <<job, faults>>
    BY <1>4, <2>1 DEF CopyBuildDir
  <2>3. dir[a] = NoDir /\ pc[a] = "copy"
    BY <1>4 DEF CopyBuildDir, IndInv, DirsOwned
  <2>4. \A w \in Workers : w # a => dir[w] # a
    BY <1>1 DEF IndInv, DirsOwned
  <2>5. \A w \in Workers : Follows(w)'
    <3> SUFFICES ASSUME NEW w \in Workers PROVE Follows(w)'
      OBVIOUS
    <3>1. CASE w = a
      BY <1>1, <2>2, <3>1
    <3>2. CASE w # a
      <4>1. dir'[w] = dir[w] /\ pc'[w] = pc[w] /\ job'[w] = job[w] /\ tree'[w] = tree[w]
        BY <1>1, <2>2, <3>2
      <4>2. dir[w] # NoDir => tree'[dir[w]] = tree[dir[w]]
        BY <1>1, <2>2, <2>4, <3>2
      <4> QED BY <1>2, <2>2, <4>1, <4>2 DEF InScenario
    <3> QED BY <3>1, <3>2
  <2>6. (\A w \in Workers : dir'[w] # 0) => tree'[0] = Pristine
    BY <1>1, <2>2, <2>3
  <2> QED BY <2>5, <2>6
<1>5. CASE CopyFails(a)
  BY <1>1, <1>5, LabAssumption DEF CopyFails, Fault, IndInv, DirsOwned
<1>6. CASE NextMutant(a)
  BY <1>1, <1>6 DEF NextMutant
<1>7. CASE QueueEmpty(a)
  BY <1>1, <1>7 DEF QueueEmpty
<1> QED BY <1>3, <1>4, <1>5, <1>6, <1>7 DEF Work

\* The main thread moves no worker and writes to no tree.
LEMMA MainTrees ==
    ASSUME IndInv, TreesFollow, MainStep \/ Interrupt \/ UNCHANGED vars
    PROVE  TreesFollow'
<1>1. /\ UNCHANGED <<tree, job>>
      /\ \A w \in Workers : pc'[w] = pc[w] /\ dir'[w] = dir[w]
      /\ UNCHANGED faults \/ Fault
  <2> USE DEF threads
  <2>1. CASE Setup
    BY <2>1 DEF Setup, Main, Workers, IndInv, TypeOK, ThreadsTypeOK, Actors
  <2>2. CASE MainStep /\ ~Setup
    BY <2>2 DEF MainStep, RejectOptions, NoMutants, SetupFails, BaselinePasses,
                BaselineFails, BaselineErrs, FinishLab, FailLab
  <2>3. CASE Interrupt \/ UNCHANGED vars
    BY <2>3 DEF Interrupt, vars
  <2> QED BY <2>1, <2>2, <2>3
<1>2. faults' = 0 => faults = 0
  BY <1>1, LabAssumption DEF Fault, IndInv, TypeOK, LabTypeOK
<1> QED BY <1>1, <1>2 DEF TreesFollow, Follows

\* Every step leaves each directory as its worker thinks it is.
LEMMA TreesStep == IndInv /\ ThreadsJoined /\ TreesFollow /\ [Next]_vars => TreesFollow'
<1> SUFFICES ASSUME IndInv, ThreadsJoined, TreesFollow, [Next]_vars PROVE TreesFollow'
  OBVIOUS
<1>1. CASE MainStep \/ Interrupt \/ UNCHANGED vars
  BY <1>1, MainTrees
<1>2. ASSUME NEW a \in Actors, RunScenario(a) PROVE TreesFollow'
  BY <1>2, ScenarioTrees
<1>3. ASSUME NEW w \in Workers, Work(w) PROVE TreesFollow'
  BY <1>3, WorkTrees
<1> QED BY <1>1, <1>2, <1>3 DEF Next, Terminated

\* Directories follow their workers throughout.
LEMMA TreesAlways == Spec => [](IndInv /\ ThreadsJoined /\ TreesFollow)
BY Inductive, JoinedInit, JoinedStep, TreesInit, TreesStep, PTL DEF Spec

\* Cargo only ever runs in a tree that holds the one mutation under test, or in
\* the unmutated tree for the baseline, whatever the other workers do.
THEOREM OneMutation == Spec => []BuildsOneMutation
<1>1. IndInv /\ TreesFollow => BuildsOneMutation
  <2> SUFFICES ASSUME IndInv, TreesFollow, NEW a \in Actors, pc[a] \in {"cargo", "equiv"}
               PROVE  tree[dir[a]] =
                        IF HasMutant(a)
                        THEN [Pristine EXCEPT ![FileOf[job[a].scenario]] = job[a].scenario]
                        ELSE Pristine
    BY DEF BuildsOneMutation
  <2>1. CASE a \in Workers
    BY <2>1 DEF TreesFollow, Follows, Mutated, IndInv, JobsFit, InScenario
  <2>2. CASE a = Main
    <3>1. dir[Main] = 0 /\ stage = "baseline" /\ ~HasMutant(Main)
      BY <2>2 DEF IndInv, DirsOwned, StagesInOrder, JobsFit, InScenario, HasMutant, IsMutant
    <3>2. \A w \in Workers : dir[w] # 0
      BY <3>1 DEF IndInv, StagesInOrder, DirsOwned, NoDir
    <3> QED BY <2>2, <3>1, <3>2 DEF TreesFollow
  <2> QED BY <2>1, <2>2 DEF Actors
<1> QED BY <1>1, TreesAlways, PTL

\* Ctrl-C, whenever it comes, leaves no mutation behind in any build directory,
\* the user's tree under --in-place included: only an I/O error can.
THEOREM Restored == Spec => []TreesRestored
<1>1. IndInv /\ TreesFollow /\ ThreadsJoined => TreesRestored
  <2> SUFFICES ASSUME IndInv, TreesFollow, ThreadsJoined,
                      stage \in Ended, faults = 0, NEW d \in BuildDirs
               PROVE  tree[d] = Pristine
    BY DEF TreesRestored
  <2>1. \A w \in Workers : dir[w] # NoDir => tree[dir[w]] = Pristine
    BY DEF TreesFollow, Follows, ThreadsJoined, IndInv, DirsOwned
  <2>2. CASE d = 0
    BY <2>1, <2>2 DEF TreesFollow, NoDir
  <2>3. CASE d \in Workers
    BY <2>1, <2>3 DEF TreesFollow, Follows, NoDir, Workers
  <2> QED BY <2>2, <2>3 DEF BuildDirs
<1> QED BY <1>1, TreesAlways, PTL

-----------------------------------------------------------------------------
(* The queue, the hands of the workers and the record *)

\* Nothing but the taking and the recording of a mutant moves one.
LEMMA OnceKept ==
    ASSUME EachMutantOnce, UNCHANGED <<mutants, queue>>,
           labOutcome'.outcomes = labOutcome.outcomes,
           \A w \in Workers : job'[w].scenario = job[w].scenario
    PROVE  EachMutantOnce'
<1>1. Recorded' = Recorded
  BY DEF Recorded
<1>2. Held' = Held
  BY DEF Held
<1>3. \A v, w \in Workers :
          HasMutant(v)' /\ job'[v].scenario = job'[w].scenario => v = w
  BY DEF EachMutantOnce, HasMutant, IsMutant
<1> QED BY <1>1, <1>2, <1>3 DEF EachMutantOnce

\* Taking a mutant: work_queue.lock().next().
LEMMA OnceTaken ==
    ASSUME IndInv, EachMutantOnce, NEW w \in Workers, NextMutant(w)
    PROVE  EachMutantOnce'
<1>1. PICK m \in queue : Take(m) /\ job' = [job EXCEPT ![w] = NewOutcome(m)]
  BY DEF NextMutant
<1>2. /\ m \in Mutants /\ m # Baseline /\ m \notin Held \cup Recorded
      /\ NewOutcome(m).scenario = m
  BY <1>1, NewOutcomeType, BaselineAssumption
     DEF IndInv, TypeOK, ThreadsTypeOK, Scenario, EachMutantOnce
<1>3. job[w].scenario = Baseline
  BY DEF NextMutant, IndInv, JobsFit, AtRest, HasMutant, IsMutant
<1>4. /\ w \in Actors /\ job \in [Actors -> ScenarioOutcome]
      /\ Workers \subseteq Actors
  BY DEF IndInv, TypeOK, ThreadsTypeOK, Actors
<1>5. job'[w].scenario = m /\ \A v \in Workers : v # w => job'[v] = job[v]
  BY <1>1, <1>2, <1>4
<1>6. Held' = Held \cup {m}
  BY <1>2, <1>3, <1>5 DEF Held
<1>7. labOutcome' = labOutcome /\ mutants' = mutants
  BY DEF NextMutant, output, lab
<1>8. Recorded' = Recorded
  BY <1>7 DEF Recorded
<1>9. queue' = queue \ {m}
  BY <1>1 DEF Take
<1>10. \A u, v \in Workers :
          HasMutant(u)' /\ job'[u].scenario = job'[v].scenario => u = v
  BY <1>2, <1>5 DEF EachMutantOnce, HasMutant, IsMutant, Held
<1> QED BY <1>1, <1>2, <1>6, <1>7, <1>8, <1>9, <1>10 DEF EachMutantOnce

\* add_scenario_outcome: LabOutcome::add appends what the thread was holding.
LEMMA OnceRecorded ==
    ASSUME IndInv, EachMutantOnce, NEW a \in Actors, pc[a] = "finish",
           labOutcome' = Add(labOutcome, job[a]), Leave(a),
           UNCHANGED <<mutants, queue>>
    PROVE  EachMutantOnce'
<1> DEFINE s == job[a].scenario
           n == Len(labOutcome.outcomes)
<1>1. /\ job[a] \in ScenarioOutcome /\ labOutcome \in LabOutcome
      /\ labOutcome.outcomes \in Seq(ScenarioOutcome) /\ n \in Nat
  BY DEF IndInv, TypeOK, ThreadsTypeOK, OutputTypeOK, LabOutcome
<1>2. labOutcome'.outcomes = Append(labOutcome.outcomes, job[a])
  BY <1>1, AddType
<1>3. /\ DOMAIN labOutcome.outcomes = 1 .. n
      /\ DOMAIN labOutcome'.outcomes = 1 .. n + 1
      /\ \A i \in 1 .. n : labOutcome'.outcomes[i] = labOutcome.outcomes[i]
      /\ labOutcome'.outcomes[n + 1] = job[a]
  BY <1>1, <1>2
<1>4. Recorded' = Recorded \cup ({s} \ {Baseline})
  <2>1. DOMAIN labOutcome'.outcomes = DOMAIN labOutcome.outcomes \cup {n + 1}
    BY <1>1, <1>3
  <2>2. /\ \A i \in DOMAIN labOutcome.outcomes : labOutcome'.outcomes[i] = labOutcome.outcomes[i]
        /\ labOutcome'.outcomes[n + 1].scenario = s
    BY <1>3
  <2> HIDE DEF n, s
  <2> QED BY ONLY <2>1, <2>2 DEF Recorded
<1>5. \A i \in 1 .. n : labOutcome.outcomes[i].scenario # s
  <2>1. CASE a = Main
    BY <1>1, <2>1 DEF IndInv, StagesInOrder, InScenario
  <2>2. CASE a \in Workers
    <3>1. s # Baseline /\ s \in Held
      BY <2>2 DEF IndInv, JobsFit, InScenario, HasMutant, IsMutant, Held
    <3> QED BY <1>3, <3>1 DEF EachMutantOnce, Recorded
  <2> QED BY <2>1, <2>2 DEF Actors
<1>6. \A i, j \in DOMAIN labOutcome'.outcomes :
          labOutcome'.outcomes[i].scenario = labOutcome'.outcomes[j].scenario => i = j
  <2> SUFFICES ASSUME NEW i \in 1 .. n + 1, NEW j \in 1 .. n + 1,
                      labOutcome'.outcomes[i].scenario = labOutcome'.outcomes[j].scenario
               PROVE  i = j
    BY <1>3
  <2>1. CASE i \in 1 .. n /\ j \in 1 .. n
    BY <1>3, <2>1 DEF EachMutantOnce
  <2>2. CASE i = n + 1 /\ j \in 1 .. n
    BY <1>3, <1>5, <2>2
  <2>3. CASE i \in 1 .. n /\ j = n + 1
    BY <1>3, <1>5, <2>3
  <2> QED BY <1>1, <2>1, <2>2, <2>3
<1>7. CASE a = Main
  <2>1. s = Baseline /\ job' = job
    BY <1>7 DEF IndInv, JobsFit, Leave
  <2>2. Recorded' = Recorded /\ Held' = Held
    BY <1>4, <2>1 DEF Held
  <2>3. \A v, w \in Workers :
          HasMutant(v)' /\ job'[v].scenario = job'[w].scenario => v = w
    BY <2>1 DEF EachMutantOnce, HasMutant
  <2> QED BY <1>6, <2>2, <2>3 DEF EachMutantOnce
<1>8. CASE a \in Workers
  <2>1. s # Baseline /\ s \in Held
    BY <1>8 DEF IndInv, JobsFit, InScenario, HasMutant, IsMutant, Held
  <2>2. /\ job'[a].scenario = Baseline
        /\ \A v \in Workers : v # a => job'[v] = job[v]
    BY <1>8, IdleType DEF Leave, Main, Workers, Actors, IndInv, TypeOK, ThreadsTypeOK
  <2>3. \A v \in Workers : v # a => job[v].scenario # s
    BY <1>8, <2>1 DEF EachMutantOnce, HasMutant, IsMutant
  <2>4. Held' = Held \ {s}
    BY <1>8, <2>2, <2>3 DEF Held
  <2>5. \A v, w \in Workers :
          HasMutant(v)' /\ job'[v].scenario = job'[w].scenario => v = w
    BY <2>2 DEF EachMutantOnce, HasMutant, IsMutant
  <2> QED BY <1>4, <1>6, <2>1, <2>4, <2>5 DEF EachMutantOnce
<1> QED BY <1>7, <1>8 DEF Actors

\* In a scenario a mutant stays in the hands it is in, until it is recorded.
LEMMA OnceInScenario ==
    ASSUME IndInv, EachMutantOnce, NEW a \in Actors, RunScenario(a)
    PROVE  EachMutantOnce'
<1>1. UNCHANGED <<mutants, queue>>
  BY Footprint
<1>2. CASE FinishScenario(a) \/ FinishFails(a)
  BY <1>1, <1>2, OnceRecorded DEF FinishScenario, FinishFails, FailsAt
<1>3. CASE CargoEnds(a)
  <2>1. PICK e \in CargoExits : job' = [job EXCEPT ![a] = AddPhaseResult(@, CurrentPhase(a), e)]
    BY <1>3 DEF CargoEnds
  <2>2. /\ job \in [Actors -> ScenarioOutcome]
        /\ AddPhaseResult(job[a], CurrentPhase(a), e).scenario = job[a].scenario
    BY <1>3, <2>1, PhaseFits, AddPhaseResultType, LabAssumption
       DEF CargoEnds, IndInv, TypeOK, ThreadsTypeOK
  <2>3. \A b \in Actors : job'[b].scenario = job[b].scenario
    BY <2>1, <2>2
  <2> QED BY <1>1, <1>3, <2>3, OnceKept DEF CargoEnds, output, Actors
<1>4. CASE SkipUncovered(a) \/ EquivalentBuild(a)
  <2>1. job \in [Actors -> ScenarioOutcome]
    BY DEF IndInv, TypeOK, ThreadsTypeOK
  <2>2. \E reason \in SkipReason : job' = [job EXCEPT ![a].skip = reason]
    BY <1>4 DEF SkipUncovered, EquivalentBuild, SkipReason
  <2>3. \A b \in Actors : job'[b].scenario = job[b].scenario
    BY <2>1, <2>2, SkipType
  <2> QED BY <1>1, <1>4, <2>3, OnceKept DEF SkipUncovered, EquivalentBuild, output, Actors
<1>5. CASE \/ StartScenario(a) \/ ScenarioFails(a) \/ ApplyMutant(a) \/ CargoErrs(a)
           \/ NewBuild(a) \/ EquivalentFails(a) \/ Revert(a) \/ RevertFails(a)
  BY <1>1, <1>5, OnceKept DEF StartScenario, ScenarioFails, ApplyMutant, CargoErrs,
         NewBuild, EquivalentFails, Revert, RevertFails, output
<1> QED BY <1>2, <1>3, <1>4, <1>5 DEF RunScenario

\* All mutants are in the queue.
LEMMA OnceInit == Init => EachMutantOnce
<1> SUFFICES ASSUME Init PROVE EachMutantOnce
  OBVIOUS
<1>1. Recorded = {}
  BY DEF Init, Recorded, EmptyLabOutcome
<1>2. \A w \in Workers : job[w].scenario = Baseline
  BY IdleType DEF Init, Actors
<1>3. Held = {}
  BY <1>2 DEF Held
<1>4. DOMAIN labOutcome.outcomes = {}
  BY DEF Init, EmptyLabOutcome
<1> QED BY <1>1, <1>2, <1>3, <1>4 DEF Init, EachMutantOnce, HasMutant, IsMutant

\* Every step keeps each mutant in one place.
LEMMA OnceStep == IndInv /\ EachMutantOnce /\ [Next]_vars => EachMutantOnce'
<1> SUFFICES ASSUME IndInv, EachMutantOnce, [Next]_vars PROVE EachMutantOnce'
  OBVIOUS
<1>1. CASE MainStep \/ Interrupt \/ UNCHANGED vars
  BY <1>1, OnceKept DEF MainStep, RejectOptions, NoMutants, Setup, SetupFails,
         BaselinePasses, BaselineFails, BaselineErrs, FinishLab, FailLab, Interrupt, vars,
         lab, threads, output
<1>2. ASSUME NEW a \in Actors, RunScenario(a) PROVE EachMutantOnce'
  BY <1>2, OnceInScenario
<1>3. ASSUME NEW w \in Workers, Work(w) PROVE EachMutantOnce'
  <2>1. CASE NextMutant(w)
    BY <2>1, OnceTaken
  <2>2. CASE TakeBuildDir(w) \/ CopyBuildDir(w) \/ CopyFails(w) \/ QueueEmpty(w)
    BY <2>2, OnceKept DEF TakeBuildDir, CopyBuildDir, CopyFails, QueueEmpty, lab, output
  <2> QED BY <1>3, <2>1, <2>2 DEF Work
<1> QED BY <1>1, <1>2, <1>3 DEF Next, Terminated

\* Every mutant is in the queue, in one worker's hands or in the record, and
\* never in two of these or there twice, for any number of workers: the queue's
\* lock and the output's lock together hand each mutant to one outcome.
THEOREM Once == Spec => []EachMutantOnce
BY Inductive, OnceInit, OnceStep, PTL DEF Spec

-----------------------------------------------------------------------------
(* What is recorded *)

\* What a step of a scenario may record: nothing, or, from "finish", what the
\* thread has in its hands, which it then lets go.
LEMMA RecordFootprint ==
    ASSUME IndInv, NEW a \in Actors, RunScenario(a)
    PROVE  \/ /\ UNCHANGED output
              /\ \A b \in Actors : job'[b].scenario = job[b].scenario
              /\ pc'[Main] = "done" => pc[Main] = "done"
              /\ pc'[a] # "done"
           \/ FinishScenario(a)
           \/ FinishFails(a)
<1> USE DEF Goto, FailsAt
<1>1. CASE CargoEnds(a)
  <2>1. PICK e \in CargoExits : /\ job' = [job EXCEPT ![a] = AddPhaseResult(@, CurrentPhase(a), e)]
                                /\ pc' = [pc EXCEPT ![a] = AfterPhase(a, e)]
    BY <1>1 DEF CargoEnds
  <2>2. /\ job \in [Actors -> ScenarioOutcome]
        /\ AddPhaseResult(job[a], CurrentPhase(a), e).scenario = job[a].scenario
    BY <1>1, <2>1, PhaseFits, AddPhaseResultType, LabAssumption
       DEF CargoEnds, IndInv, TypeOK, ThreadsTypeOK
  <2>3. \A b \in Actors : job'[b].scenario = job[b].scenario
    BY <2>1, <2>2
  <2>4. pc'[Main] = "done" => pc[Main] = "done"
    BY <2>1 DEF AfterPhase, IndInv, TypeOK, ThreadsTypeOK
  <2>5. pc'[a] # "done"
    BY <2>1 DEF AfterPhase, IndInv, TypeOK, ThreadsTypeOK
  <2> QED BY <1>1, <2>3, <2>4, <2>5 DEF CargoEnds
<1>2. CASE SkipUncovered(a) \/ EquivalentBuild(a)
  <2>1. job \in [Actors -> ScenarioOutcome] /\ pc \in [Actors -> Location]
    BY DEF IndInv, TypeOK, ThreadsTypeOK
  <2>2. \E reason \in SkipReason : job' = [job EXCEPT ![a].skip = reason]
    BY <1>2 DEF SkipUncovered, EquivalentBuild, SkipReason
  <2>3. \A b \in Actors : job'[b].scenario = job[b].scenario
    BY <2>1, <2>2, SkipType
  <2>4. UNCHANGED output
    BY <1>2 DEF SkipUncovered, EquivalentBuild, output
  <2>5. \E l \in {"finish", "revert"} : pc' = [pc EXCEPT ![a] = l]
    BY <1>2 DEF SkipUncovered, EquivalentBuild
  <2>6. (pc'[Main] = "done" => pc[Main] = "done") /\ pc'[a] # "done"
    BY <2>1, <2>5
  <2> QED BY <2>3, <2>4, <2>6
<1>3. CASE \/ StartScenario(a) \/ ScenarioFails(a) \/ ApplyMutant(a) \/ CargoErrs(a)
           \/ NewBuild(a) \/ EquivalentFails(a) \/ Revert(a) \/ RevertFails(a)
  <2>1. UNCHANGED <<job, output>> /\ pc \in [Actors -> Location]
    BY <1>3 DEF StartScenario, ScenarioFails, ApplyMutant, CargoErrs, NewBuild,
           EquivalentFails, Revert, RevertFails, IndInv, TypeOK, ThreadsTypeOK
  <2>2. \E l : l # "done" /\ pc' = [pc EXCEPT ![a] = l]
    BY <1>3 DEF StartScenario, ScenarioFails, ApplyMutant, CargoErrs, NewBuild,
           EquivalentFails, Revert, RevertFails, AfterError
  <2> QED BY <2>1, <2>2
<1> QED BY <1>1, <1>2, <1>3 DEF RunScenario

\* A step of the main thread records nothing and moves no worker.
LEMMA MainFootprint ==
    ASSUME IndInv, MainStep
    PROVE  /\ UNCHANGED <<options, mutants, queue, job, labOutcome, lists>>
           /\ \A w \in Workers : pc'[w] = pc[w]
           /\ UNCHANGED pc \/ Setup
<1>1. CASE Setup
  BY <1>1 DEF Setup, output, IndInv, TypeOK, ThreadsTypeOK, Actors, Main, Workers
<1>2. CASE MainStep /\ ~Setup
  BY <1>2 DEF MainStep, RejectOptions, NoMutants, SetupFails, BaselinePasses,
              BaselineFails, BaselineErrs, FinishLab, FailLab, threads, output
<1> QED BY <1>1, <1>2

\* A worker between scenarios records nothing; only one that takes a mutant
\* changes the queue or what it holds.
LEMMA WorkFootprint ==
    ASSUME IndInv, NEW w \in Workers, Work(w)
    PROVE  /\ UNCHANGED <<stage, options, mutants, output>>
           /\ \A a \in Actors : a # w => pc'[a] = pc[a] /\ job'[a] = job[a]
           /\ UNCHANGED <<queue, job>> \/ NextMutant(w)
           /\ pc'[w] = "done" => queue = {} /\ UNCHANGED queue
BY DEF Work, TakeBuildDir, CopyBuildDir, CopyFails, NextMutant, QueueEmpty, Goto, lab,
       IndInv, TypeOK, ThreadsTypeOK, Actors

\* A worker that moves does so in the testing stage.
LEMMA WorkersTest ==
    ASSUME IndInv, ThreadsJoined, NEW w \in Workers,
           pc[w] \in {"copy", "queue"} \cup InScenario
    PROVE  stage = "testing"
BY DEF IndInv, TypeOK, LabTypeOK, StagesInOrder, ThreadsJoined, InScenario

-----------------------------------------------------------------------------
(* The baseline *)

\* LabOutcome::add puts an outcome behind those that are there.
LEMMA RecordGrows ==
    ASSUME IndInv, NEW a \in Actors, labOutcome' = Add(labOutcome, job[a])
    PROVE  /\ labOutcome.outcomes \in Seq(ScenarioOutcome)
           /\ labOutcome'.outcomes = Append(labOutcome.outcomes, job[a])
           /\ Len(labOutcome.outcomes) \in Nat
           /\ DOMAIN labOutcome.outcomes = 1 .. Len(labOutcome.outcomes)
           /\ DOMAIN labOutcome'.outcomes = 1 .. Len(labOutcome.outcomes) + 1
           /\ \A i \in 1 .. Len(labOutcome.outcomes) :
                 labOutcome'.outcomes[i] = labOutcome.outcomes[i]
           /\ labOutcome'.outcomes[Len(labOutcome.outcomes) + 1] = job[a]
<1>1. /\ job[a] \in ScenarioOutcome /\ labOutcome \in LabOutcome
      /\ labOutcome.outcomes \in Seq(ScenarioOutcome)
  BY DEF IndInv, TypeOK, ThreadsTypeOK, OutputTypeOK, LabOutcome
<1>2. labOutcome'.outcomes = Append(labOutcome.outcomes, job[a])
  BY <1>1, AddType
<1> QED BY <1>1, <1>2

\* A step of a scenario records after the baseline's outcome, never before it.
LEMMA KeptInScenario ==
    ASSUME IndInv, BaselineKept, NEW a \in Actors, RunScenario(a)
    PROVE  BaselineKept'
<1>1. UNCHANGED <<queue, mutants, stage, options>>
  BY Footprint
<1>2. CASE UNCHANGED output /\ pc'[a] # "done"
  <2>1. UNCHANGED labOutcome
    BY <1>2 DEF output
  <2>2. pc'[Main] = "done" => pc[Main] = "done" /\ job'[Main] = job[Main]
    BY <1>2, Footprint DEF Actors
  <2> QED BY <1>1, <2>1, <2>2 DEF BaselineKept, BaselinePassed
<1>3. CASE FinishScenario(a) \/ FinishFails(a)
  <2>1. pc[a] = "finish" /\ labOutcome' = Add(labOutcome, job[a]) /\ Leave(a)
    BY <1>3 DEF FinishScenario, FinishFails, FailsAt
  <2>2. CASE a = Main
    <3>1. stage = "baseline" /\ labOutcome.outcomes = <<>>
      BY <2>1, <2>2 DEF IndInv, StagesInOrder, InScenario
    <3>2. labOutcome'.outcomes = <<job[Main]>> /\ job' = job
      BY <2>1, <2>2, <3>1, RecordGrows DEF Leave
    <3> QED BY <1>1, <3>1, <3>2 DEF BaselineKept, BaselinePassed
  <2>3. CASE a \in Workers
    <3>1. stage \notin {"setup", "baseline"}
      BY <2>1, <2>3 DEF IndInv, StagesInOrder
    <3>2. BaselinePassed => BaselinePassed'
      <4>1. labOutcome.outcomes # <<>> => 1 \in 1 .. Len(labOutcome.outcomes)
        BY <2>1, RecordGrows
      <4>2. labOutcome'.outcomes # <<>>
        BY <2>1, RecordGrows
      <4> QED BY <2>1, <4>1, <4>2, RecordGrows DEF BaselinePassed
    <3> QED BY <1>1, <3>1, <3>2 DEF BaselineKept
  <2> QED BY <2>2, <2>3 DEF Actors
<1> QED BY <1>2, <1>3, RecordFootprint

\* The main thread goes on to test only if the baseline has passed.
LEMMA KeptInMain ==
    ASSUME IndInv, BaselineKept, MainStep
    PROVE  BaselineKept'
<1>1. UNCHANGED <<options, mutants, queue, job, labOutcome>>
  BY MainFootprint
<1>2. CASE Setup
  <2>1. stage = "setup" /\ pc[Main] = "new" /\ queue = mutants
    BY <1>2 DEF Setup, IndInv, StagesInOrder
  <2>2. /\ options.baseline = "Run" => stage' = "baseline" /\ pc'[Main] = "start"
        /\ options.baseline # "Run" => stage' = "testing"
    BY <1>2 DEF Setup, IndInv, TypeOK, ThreadsTypeOK, Actors
  <2> QED BY <1>1, <2>1, <2>2 DEF BaselineKept
<1>3. CASE BaselinePasses
  <2>1. /\ options.baseline = "Run" => labOutcome.outcomes = <<job[Main]>>
        /\ job[Main].scenario = Baseline
        /\ LastIs(job[Main], "Success")
    BY <1>3 DEF BaselinePasses, BaselineKept, IndInv, JobsFit, Succeeded
  <2>2. options.baseline = "Run" => BaselinePassed
    BY <2>1 DEF BaselinePassed
  <2>3. stage' = "testing"
    BY <1>3 DEF BaselinePasses
  <2> QED BY <1>1, <2>2, <2>3 DEF BaselineKept, BaselinePassed
<1>4. CASE MainStep /\ ~Setup /\ ~BaselinePasses
  <2>1. stage' \in Ended
    BY <1>4 DEF MainStep, RejectOptions, NoMutants, SetupFails, BaselineFails,
                BaselineErrs, FinishLab, FailLab, Ended
  <2> QED BY <1>1, <2>1 DEF BaselineKept, BaselinePassed, Ended
<1> QED BY <1>2, <1>3, <1>4

\* Every step keeps what is known of the baseline.
LEMMA KeptStep ==
    IndInv /\ ThreadsJoined /\ BaselineKept /\ [Next]_vars => BaselineKept'
<1> SUFFICES ASSUME IndInv, ThreadsJoined, BaselineKept, [Next]_vars PROVE BaselineKept'
  OBVIOUS
<1>1. CASE Interrupt \/ UNCHANGED vars
  BY <1>1 DEF Interrupt, vars, lab, threads, output, BaselineKept, BaselinePassed
<1>2. ASSUME NEW w \in Workers, Work(w) PROVE BaselineKept'
  <2>1. UNCHANGED <<stage, options, mutants, labOutcome>>
    BY <1>2, WorkFootprint DEF output
  <2>2. pc'[Main] = pc[Main] /\ job'[Main] = job[Main]
    BY <1>2, WorkFootprint DEF Actors, Main, Workers
  <2>3. UNCHANGED queue \/ stage = "testing"
    BY <1>2, WorkFootprint, WorkersTest DEF NextMutant
  <2> QED BY <2>1, <2>2, <2>3 DEF BaselineKept, BaselinePassed
<1> QED BY <1>1, <1>2, KeptInMain, KeptInScenario DEF Next, Terminated

\* Whatever the number of workers and the results of cargo, no mutant leaves the
\* queue before a baseline is recorded that passed, unless --baseline=skip was
\* given.
THEOREM BaselineFirst == Spec => []BaselineComesFirst
<1>1. Init => BaselineKept
  BY DEF Init, BaselineKept
<1>2. BaselineKept => BaselineComesFirst
  BY DEF BaselineKept, BaselineComesFirst, BaselinePassed
<1> QED BY <1>1, <1>2, Inductive, JoinedInit, JoinedStep, KeptStep, PTL DEF Spec

-----------------------------------------------------------------------------
(* What success rests on *)

\* Once the run has ended nothing happens: its threads are joined.
LEMMA EndIsQuiet ==
    ASSUME IndInv, ThreadsJoined, stage \in Ended, [Next]_vars
    PROVE  UNCHANGED vars
<1>1. ~MainStep
  BY DEF MainStep, RejectOptions, NoMutants, Setup, SetupFails, BaselinePasses,
         BaselineFails, BaselineErrs, FinishLab, FailLab, Ended
<1>2. \A a \in Actors : pc[a] \notin InScenario \cup {"copy", "queue"}
  BY DEF Actors, IndInv, JobsFit, StagesInOrder, ThreadsJoined, Ended, InScenario
<1>3. ASSUME NEW a \in Actors PROVE ~RunScenario(a)
  BY <1>2 DEF RunScenario, StartScenario, ScenarioFails, SkipUncovered, ApplyMutant,
         CargoEnds, CargoErrs, NewBuild, EquivalentBuild, EquivalentFails, Revert,
         RevertFails, FinishScenario, FinishFails, FailsAt, InScenario
<1>4. ASSUME NEW w \in Workers PROVE ~Work(w)
  BY <1>2 DEF Work, TakeBuildDir, CopyBuildDir, CopyFails, NextMutant, QueueEmpty,
         Actors, Ended
<1> QED BY <1>1, <1>3, <1>4 DEF Next, Interrupt, Terminated

\* Only what a thread has in its hands is ever added to the record.
LEMMA OnlyRecorded ==
    ASSUME IndInv, [Next]_vars, labOutcome' # labOutcome
    PROVE  \E a \in Actors : /\ pc[a] = "finish"
                             /\ labOutcome' = Add(labOutcome, job[a])
                             /\ Leave(a)
                             /\ RunScenario(a)
<1>1. ~(Interrupt \/ UNCHANGED vars \/ MainStep)
  BY MainFootprint DEF Interrupt, vars, output
<1>2. ASSUME NEW w \in Workers PROVE ~Work(w)
  BY <1>2, WorkFootprint DEF output
<1>3. PICK a \in Actors : RunScenario(a)
  BY <1>1, <1>2 DEF Next, Terminated
<1>4. FinishScenario(a) \/ FinishFails(a)
  BY <1>3, RecordFootprint DEF output
<1> QED BY <1>3, <1>4 DEF FinishScenario, FinishFails, FailsAt

\* Every step that records a mutant counts it under its summary.
LEMMA TallyStep == IndInv /\ TallyTells /\ [Next]_vars => TallyTells'
<1> SUFFICES ASSUME IndInv, TallyTells, [Next]_vars PROVE TallyTells'
  OBVIOUS
<1>1. CASE UNCHANGED labOutcome
  BY <1>1 DEF TallyTells
<1>2. CASE labOutcome' # labOutcome
  <2>1. PICK a \in Actors : labOutcome' = Add(labOutcome, job[a])
    BY <1>2, OnlyRecorded
  <2> SUFFICES ASSUME NEW b \in Bucket, labOutcome'.tally[b] = 0,
                      NEW i \in DOMAIN labOutcome'.outcomes,
                      IsMutant(labOutcome'.outcomes[i].scenario)
               PROVE  Summary(labOutcome'.outcomes[i]) # b
    BY DEF TallyTells
  <2>2. labOutcome'.tally[b] = IF IsMutant(job[a].scenario) /\ Summary(job[a]) = b
                               THEN labOutcome.tally[b] + 1 ELSE labOutcome.tally[b]
    BY <2>1 DEF Add
  <2>3. labOutcome.tally[b] \in Nat
    BY DEF IndInv, TypeOK, OutputTypeOK, LabOutcome
  <2>4. labOutcome.tally[b] = 0 /\ ~(IsMutant(job[a].scenario) /\ Summary(job[a]) = b)
    BY <2>2, <2>3
  <2>5. CASE i \in 1 .. Len(labOutcome.outcomes)
    BY <2>1, <2>4, <2>5, RecordGrows DEF TallyTells
  <2>6. CASE i = Len(labOutcome.outcomes) + 1
    BY <2>1, <2>4, <2>6, RecordGrows
  <2> QED BY <2>1, <2>5, <2>6, RecordGrows
<1> QED BY <1>1, <1>2

\* The lab ends properly, whichever step ends it.
LEMMA EndsStep ==
    IndInv /\ ThreadsJoined /\ BaselineKept /\ EndsProperly /\ [Next]_vars => EndsProperly'
<1> SUFFICES ASSUME IndInv, ThreadsJoined, BaselineKept, EndsProperly, [Next]_vars
             PROVE  EndsProperly'
  OBVIOUS
<1>1. CASE stage \in Ended \/ UNCHANGED vars
  <2>1. UNCHANGED vars
    BY <1>1, EndIsQuiet
  <2> QED BY <2>1 DEF EndsProperly, vars, lab, threads, output, Spawned, NThreads,
                      MaxJobs, Snapshot
<1>2. CASE stage \notin Ended /\ UNCHANGED <<stage, mutants>>
  <2>1. \A w \in Workers : pc'[w] = "done" => queue' = {}
    <3>1. ASSUME NEW v \in Workers, Work(v)
          PROVE  \A w \in Workers : pc'[w] = "done" => queue' = {}
      <4>1. ASSUME NEW w \in Workers, w # v, pc'[w] = "done" PROVE queue' = {}
        <5>1. queue = {}
          BY <3>1, <4>1, WorkFootprint DEF EndsProperly, Actors
        <5> QED BY <3>1, <5>1, WorkFootprint DEF NextMutant
      <4> QED BY <3>1, <4>1, WorkFootprint
    <3>2. ASSUME NEW a \in Actors, RunScenario(a)
          PROVE  \A w \in Workers : pc'[w] = "done" => queue' = {}
      <4>1. a \in Workers => pc'[a] # "done"
        <5>1. (FinishScenario(a) \/ FinishFails(a)) /\ a \in Workers => pc'[a] # "done"
          BY DEF FinishScenario, FinishFails, FailsAt, Goto, IndInv, TypeOK, ThreadsTypeOK,
                 Main, Workers
        <5> QED BY <3>2, <5>1, RecordFootprint
      <4> QED BY <3>2, <4>1, Footprint DEF EndsProperly, Actors
    <3>3. CASE Interrupt \/ UNCHANGED vars \/ MainStep
      <4>1. UNCHANGED queue /\ \A w \in Workers : pc'[w] = pc[w]
        BY <3>3, MainFootprint DEF Interrupt, vars, threads
      <4> QED BY <4>1 DEF EndsProperly
    <3> QED BY <3>1, <3>2, <3>3 DEF Next, Terminated
  <2> QED BY <1>2, <2>1 DEF EndsProperly, Ended
<1>3. CASE stage \notin Ended /\ ~UNCHANGED <<stage, mutants>>
  <2>1. MainStep
    <3>1. \A w \in Workers : ~Work(w)
      BY <1>3, WorkFootprint
    <3>2. \A a \in Actors : ~RunScenario(a)
      BY <1>3, Footprint
    <3> QED BY <1>3, <3>1, <3>2 DEF Next, Interrupt, Terminated, vars, lab
  <2>2. /\ UNCHANGED <<options, mutants, queue, job, labOutcome>>
        /\ \A w \in Workers : pc'[w] = pc[w]
    BY <2>1, MainFootprint
  <2>3. stage' \in {"baseline", "testing", "finished"} => mutants # {}
    BY <2>1 DEF MainStep, RejectOptions, NoMutants, Setup, SetupFails, BaselinePasses,
           BaselineFails, BaselineErrs, FinishLab, FailLab, EndsProperly
  <2>4. stage' = "finished" => /\ \A w \in Spawned : pc'[w] = "done"
                               /\ json' = Snapshot(labOutcome, TRUE)
    <3> SUFFICES ASSUME stage' = "finished" PROVE /\ \A w \in Spawned : pc'[w] = "done"
                                                  /\ json' = Snapshot(labOutcome, TRUE)
      OBVIOUS
    <3>1. FinishLab
      BY <2>1 DEF MainStep, RejectOptions, NoMutants, Setup, SetupFails, BaselinePasses,
             BaselineFails, BaselineErrs, FailLab
    <3> QED BY <3>1 DEF FinishLab, AllEnded, AnyFailed, threads
  <2>5. stage' = "baselineFailed" => \E i \in DOMAIN labOutcome.outcomes :
              /\ ~IsMutant(labOutcome.outcomes[i].scenario)
              /\ ~Succeeded(labOutcome.outcomes[i])
    <3> SUFFICES ASSUME stage' = "baselineFailed"
                 PROVE  \E i \in DOMAIN labOutcome.outcomes :
                            /\ ~IsMutant(labOutcome.outcomes[i].scenario)
                            /\ ~Succeeded(labOutcome.outcomes[i])
      OBVIOUS
    <3>1. BaselineFails
      BY <2>1 DEF MainStep, RejectOptions, NoMutants, Setup, SetupFails, BaselinePasses,
             BaselineErrs, FinishLab, FailLab
    <3>2. labOutcome.outcomes = <<job[Main]>>
      BY <3>1 DEF BaselineFails, BaselineKept
    <3>3. ~IsMutant(job[Main].scenario) /\ ~Succeeded(job[Main])
      BY <3>1 DEF BaselineFails, IndInv, JobsFit, IsMutant
    <3>4. 1 \in DOMAIN labOutcome.outcomes
      BY <3>2
    <3> QED BY <3>2, <3>3, <3>4
  <2> QED BY <2>2, <2>3, <2>4, <2>5
          DEF EndsProperly, Spawned, NThreads, MaxJobs, Snapshot
<1> QED BY <1>1, <1>2, <1>3

\* A run with mutants has at least one worker.
LEMMA SomeWorker ==
    ASSUME IndInv, mutants # {}
    PROVE  1 \in Spawned /\ Spawned \subseteq Workers
<1>1. IsFiniteSet(mutants)
  BY LabAssumption, MutantsFinite, FS_Subset DEF IndInv, TypeOK, LabTypeOK
<1>2. Cardinality(mutants) \in Nat \ {0}
  BY <1>1, FS_CardinalityType, FS_EmptySet
<1>3. MaxJobs \in Nat \ {0} /\ MaxJobs <= Jobs
  BY LabAssumption DEF MaxJobs
<1>4. NThreads \in Nat \ {0} /\ NThreads <= Jobs
  BY <1>2, <1>3, LabAssumption DEF NThreads
<1> QED BY <1>4, LabAssumption DEF Spawned, Workers

\* Once all workers are done no one holds anything and nothing is queued.
LEMMA AllTested ==
    ASSUME IndInv, ThreadsJoined, EndsProperly, EachMutantOnce,
           mutants # {}, \A w \in Spawned : pc[w] = "done"
    PROVE  mutants = Recorded
<1>1. 1 \in Spawned /\ 1 \in Workers
  BY SomeWorker
<1>2. queue = {}
  BY <1>1 DEF EndsProperly
<1>3. \A w \in Workers : pc[w] \in {"new", "done"}
  BY DEF ThreadsJoined
<1>4. Held = {}
  BY <1>3 DEF Held, IndInv, JobsFit, AtRest, HasMutant, IsMutant
<1> QED BY <1>2, <1>4 DEF EachMutantOnce

\* What success rests on holds throughout.
LEMMA EndsAlways ==
    Spec => [](IndInv /\ ThreadsJoined /\ EndsProperly /\ EachMutantOnce)
<1>1. Init => EndsProperly
  <2>1. Init => \A w \in Workers : pc[w] = "new"
    BY DEF Init, Actors
  <2> QED BY <2>1 DEF Init, EndsProperly
<1>2. Init => BaselineKept
  BY DEF Init, BaselineKept
<1> QED BY <1>1, <1>2, Inductive, JoinedInit, JoinedStep, KeptStep, OnceInit, OnceStep,
           EndsStep, PTL DEF Spec

\* Exit status 0 of a lab that had mutants, with any number of workers, I/O
\* errors and a Ctrl-C at any moment: all of them were taken to an outcome, none
\* was missed, timed out or uncovered, and outcomes.json has it all.
THEOREM Complete == Spec => []SuccessIsComplete
<1>1. /\ IndInv /\ ThreadsJoined /\ EndsProperly /\ TallyTells /\ EachMutantOnce
      => SuccessIsComplete
  <2> SUFFICES ASSUME IndInv, ThreadsJoined, EndsProperly, TallyTells, EachMutantOnce,
                      stage \in Ended \ {"empty"}, ExitStatus = "Success"
               PROVE  /\ mutants = Recorded
                      /\ \A m \in mutants :
                            Summary(OutcomeOf(m)) \notin {"MissedMutant", "Timeout", "Uncovered"}
                      /\ json = Snapshot(labOutcome, TRUE)
    BY DEF SuccessIsComplete
  <2>1. stage \in {"finished", "baselineFailed"} /\ LabExitCode(labOutcome) = "Success"
    BY DEF ExitStatus, Ended
  <2>2. stage = "finished"
    BY <2>1 DEF LabExitCode, EndsProperly
  <2>3. mutants = Recorded
    BY <2>2, AllTested DEF EndsProperly
  <2>4. ASSUME NEW b \in {"MissedMutant", "Timeout", "Uncovered"}
        PROVE  labOutcome.tally[b] = 0
    <3>1. labOutcome.tally[b] \in Nat
      BY DEF IndInv, TypeOK, OutputTypeOK, LabOutcome, Bucket
    <3> QED BY <2>1, <3>1 DEF LabExitCode
  <2>5. ASSUME NEW m \in Recorded
        PROVE  Summary(OutcomeOf(m)) \notin {"MissedMutant", "Timeout", "Uncovered"}
    <3>1. PICK i \in DOMAIN labOutcome.outcomes : /\ OutcomeOf(m) = labOutcome.outcomes[i]
                                                  /\ labOutcome.outcomes[i].scenario = m
      BY DEF Recorded, OutcomeOf
    <3>2. IsMutant(OutcomeOf(m).scenario)
      BY <3>1 DEF IsMutant, Recorded
    <3> QED BY <2>4, <3>1, <3>2 DEF TallyTells, Bucket
  <2> QED BY <2>2, <2>3, <2>5 DEF EndsProperly
<1>2. Init => TallyTells
  BY DEF Init, TallyTells, EmptyLabOutcome
<1> QED BY <1>1, <1>2, EndsAlways, Inductive, TallyStep, PTL DEF Spec

-----------------------------------------------------------------------------
(* List files and counters *)

\* I/O errors are only ever added, and one is charged for an outcome not listed.
LEMMA FaultsGrow ==
    ASSUME IndInv, [Next]_vars
    PROVE  /\ faults \in Nat /\ faults' \in Nat /\ faults <= faults'
           /\ \A a \in Actors : FinishFails(a) => faults' = faults + 1
<1>1. faults \in Nat
  BY LabAssumption DEF IndInv, TypeOK, LabTypeOK
<1>2. UNCHANGED faults \/ Fault
  <2>1. MainStep => UNCHANGED faults \/ Fault
    BY DEF MainStep, RejectOptions, NoMutants, Setup, SetupFails, BaselinePasses,
           BaselineFails, BaselineErrs, FinishLab, FailLab
  <2>2. \A a \in Actors : RunScenario(a) => UNCHANGED faults \/ Fault
    BY DEF RunScenario, StartScenario, ScenarioFails, SkipUncovered, ApplyMutant,
           CargoEnds, CargoErrs, NewBuild, EquivalentBuild, EquivalentFails, Revert,
           RevertFails, FinishScenario, FinishFails, FailsAt
  <2>3. \A w \in Workers : Work(w) => UNCHANGED faults \/ Fault
    BY DEF Work, TakeBuildDir, CopyBuildDir, CopyFails, NextMutant, QueueEmpty
  <2> QED BY <2>1, <2>2, <2>3 DEF Next, Interrupt, Terminated, vars
<1>3. \A a \in Actors : FinishFails(a) => faults' = faults + 1
  BY DEF FinishFails, FailsAt, Fault
<1> QED BY <1>1, <1>2, <1>3 DEF Fault

\* The record only grows.
LEMMA RecordedGrows ==
    ASSUME IndInv, [Next]_vars
    PROVE  Recorded \subseteq Recorded'
<1>1. CASE UNCHANGED labOutcome
  BY <1>1 DEF Recorded
<1>2. CASE labOutcome' # labOutcome
  <2>1. PICK a \in Actors : labOutcome' = Add(labOutcome, job[a])
    BY <1>2, OnlyRecorded
  <2>2. \A i \in DOMAIN labOutcome.outcomes :
           /\ i \in DOMAIN labOutcome'.outcomes
           /\ labOutcome'.outcomes[i] = labOutcome.outcomes[i]
    BY <2>1, RecordGrows
  <2> QED BY <2>2 DEF Recorded
<1> QED BY <1>1, <1>2

\* A mutant has one outcome, which a CHOOSE cannot miss.
LEMMA OneOutcome ==
    ASSUME EachMutantOnce, NEW i \in DOMAIN labOutcome.outcomes
    PROVE  OutcomeOf(labOutcome.outcomes[i].scenario) = labOutcome.outcomes[i]
BY DEF EachMutantOnce, OutcomeOf

\* A recorded outcome is the only one of its mutant.
LEMMA OneOutcomeNext ==
    ASSUME EachMutantOnce', NEW i \in DOMAIN labOutcome'.outcomes,
           NEW m, labOutcome'.outcomes[i].scenario = m
    PROVE  OutcomeOf(m)' = labOutcome'.outcomes[i]
BY DEF EachMutantOnce, OutcomeOf

\* A recorded outcome stays what it is.
LEMMA OutcomesKept ==
    ASSUME IndInv, EachMutantOnce, [Next]_vars, NEW m \in Recorded
    PROVE  m \in Recorded' /\ OutcomeOf(m)' = OutcomeOf(m)
<1>1. PICK i \in DOMAIN labOutcome.outcomes :
          labOutcome.outcomes[i].scenario = m /\ m # Baseline
  BY DEF Recorded
<1>2. i \in DOMAIN labOutcome'.outcomes /\ labOutcome'.outcomes[i] = labOutcome.outcomes[i]
  <2>1. CASE labOutcome' # labOutcome
    <3>1. PICK a \in Actors : labOutcome' = Add(labOutcome, job[a])
      BY <2>1, OnlyRecorded
    <3> QED BY <3>1, RecordGrows
  <2> QED BY <2>1
<1>3. OutcomeOf(m) = labOutcome.outcomes[i]
  BY <1>1, OneOutcome
<1>4. OutcomeOf(m)' = labOutcome'.outcomes[i]
  BY <1>1, <1>2, OnceStep, OneOutcomeNext
<1> QED BY <1>1, <1>2, <1>3, <1>4 DEF Recorded

\* The list files change only where the counters do.
LEMMA OnlyListed ==
    ASSUME IndInv, [Next]_vars, labOutcome' = labOutcome
    PROVE  UNCHANGED lists
<1>1. MainStep \/ Interrupt \/ UNCHANGED vars => UNCHANGED lists
  BY MainFootprint DEF Interrupt, vars, output
<1>2. \A w \in Workers : Work(w) => UNCHANGED lists
  BY WorkFootprint DEF output
<1>3. ASSUME NEW a \in Actors, RunScenario(a) PROVE UNCHANGED lists
  <2>1. CASE FinishScenario(a) \/ FinishFails(a)
    <3>1. /\ labOutcome.outcomes \in Seq(ScenarioOutcome)
          /\ labOutcome'.outcomes = Append(labOutcome.outcomes, job[a])
          /\ Len(labOutcome'.outcomes) = Len(labOutcome.outcomes) + 1
          /\ Len(labOutcome.outcomes) \in Nat
      <4>1. labOutcome' = Add(labOutcome, job[a]) /\ job[a] \in ScenarioOutcome
        BY <2>1 DEF FinishScenario, FinishFails, IndInv, TypeOK, ThreadsTypeOK
      <4> QED BY <4>1, RecordGrows
    <3> QED BY <3>1
  <2> QED BY <1>3, <2>1, RecordFootprint DEF output
<1> QED BY <1>1, <1>2, <1>3 DEF Next, Terminated

\* The list of a summary grows with its counter, or an error has been counted.
LEMMA ListsStep ==
    IndInv /\ EachMutantOnce /\ ListsMatchCounters /\ [Next]_vars => ListsMatchCounters'
<1> SUFFICES ASSUME IndInv, EachMutantOnce, ListsMatchCounters, [Next]_vars
             PROVE  ListsMatchCounters'
  OBVIOUS
<1>1. CASE UNCHANGED labOutcome
  BY <1>1, OnlyListed, FaultsGrow, RecordedGrows DEF ListsMatchCounters
<1>2. CASE labOutcome' # labOutcome
  <2>1. PICK a \in Actors : /\ pc[a] = "finish" /\ labOutcome' = Add(labOutcome, job[a])
                            /\ RunScenario(a)
    BY <1>2, OnlyRecorded
  <2>2. FinishScenario(a) \/ FinishFails(a)
    BY <1>2, <2>1, RecordFootprint DEF output
  <2> DEFINE s == job[a].scenario
  <2> SUFFICES ASSUME NEW b \in ListFile
               PROVE  /\ lists'[b] \subseteq Recorded'
                      /\ \E lost \in 0 .. faults' :
                            labOutcome'.tally[b] = Cardinality(lists'[b]) + lost
    BY DEF ListsMatchCounters
  <2>3. PICK lost \in 0 .. faults : labOutcome.tally[b] = Cardinality(lists[b]) + lost
    BY DEF ListsMatchCounters
  <2>4. lists[b] \in SUBSET Mutants /\ lists[b] \subseteq Recorded /\ lists[b] \subseteq Recorded'
    BY RecordedGrows DEF IndInv, TypeOK, OutputTypeOK, ListsMatchCounters
  <2>5. IsFiniteSet(lists[b]) /\ Cardinality(lists[b]) \in Nat
    BY <2>4, MutantsFinite, FS_Subset, FS_CardinalityType
  <2>6. labOutcome'.tally[b] = IF IsMutant(s) /\ Summary(job[a]) = b
                               THEN labOutcome.tally[b] + 1 ELSE labOutcome.tally[b]
    BY <2>1 DEF Add, ListFile
  <2>7. CASE FinishFails(a) /\ NotListed(a)
    <3>1. lists' = lists /\ faults' = faults + 1 /\ faults \in Nat
      BY <2>7, FaultsGrow DEF NotListed
    <3>2. CASE IsMutant(s) /\ Summary(job[a]) = b
      <4>1. lost + 1 \in 0 .. faults'
        BY <2>3, <3>1
      <4>2. labOutcome'.tally[b] = Cardinality(lists'[b]) + (lost + 1)
        BY <2>3, <2>5, <2>6, <3>1, <3>2
      <4> QED BY <2>4, <3>1, <4>1, <4>2
    <3>3. CASE ~(IsMutant(s) /\ Summary(job[a]) = b)
      <4>1. lost \in 0 .. faults'
        BY <2>3, <3>1
      <4> QED BY <2>3, <2>4, <2>6, <3>1, <3>3, <4>1
    <3> QED BY <3>2, <3>3
  <2>8. CASE ~(FinishFails(a) /\ NotListed(a))
    <3>1. lists' = WithListed(job[a]) /\ lost \in 0 .. faults'
      <4>1. lists' = WithListed(job[a])
        BY <2>2, <2>8 DEF FinishScenario, FinishFails, LogUnreadable
      <4> QED BY <2>3, <4>1, FaultsGrow
    <3>2. lists \in [ListFile -> SUBSET Mutants]
      BY DEF IndInv, TypeOK, OutputTypeOK
    <3>3. CASE IsMutant(s) /\ Summary(job[a]) = b
      <4>1. lists'[b] = lists[b] \cup {s}
        BY <3>1, <3>2, <3>3 DEF WithListed, Listed
      <4>2. s \in Held
        BY <2>1, <3>3 DEF Held, Actors, IndInv, JobsFit, IsMutant
      <4>3. s \notin lists[b]
        BY <2>4, <4>2 DEF EachMutantOnce
      <4>4. Cardinality(lists'[b]) = Cardinality(lists[b]) + 1
        BY <2>5, <4>1, <4>3, FS_AddElement
      <4>5. s \in Recorded'
        <5>1. Len(labOutcome.outcomes) + 1 \in DOMAIN labOutcome'.outcomes
          BY <2>1, RecordGrows
        <5> QED BY <2>1, <3>3, <5>1, RecordGrows DEF Recorded, IsMutant
      <4>6. labOutcome'.tally[b] = Cardinality(lists'[b]) + lost
        BY <2>3, <2>5, <2>6, <3>3, <4>4
      <4> QED BY <2>3, <2>4, <3>1, <4>1, <4>5, <4>6
    <3>4. CASE ~(IsMutant(s) /\ Summary(job[a]) = b)
      <4>1. lists'[b] = lists[b]
        BY <3>1, <3>2, <3>4 DEF WithListed, Listed
      <4> QED BY <2>3, <2>4, <2>6, <3>1, <3>4, <4>1
    <3> QED BY <3>3, <3>4
  <2> QED BY <2>7, <2>8
<1> QED BY <1>1, <1>2

\* For any number of workers and I/O errors: a list file names only recorded
\* mutants, and lacks at most one for each I/O error that the counters have.
THEOREM ListsAgree == Spec => []ListsMatchCounters
<1>1. Init => ListsMatchCounters
  <2> SUFFICES ASSUME Init PROVE ListsMatchCounters
    OBVIOUS
  <2>1. \A b \in ListFile : lists[b] = {} /\ labOutcome.tally[b] = 0 /\ faults = 0
    BY DEF Init, EmptyLabOutcome, ListFile
  <2>2. Cardinality({}) = 0
    BY FS_EmptySet
  <2>3. \A b \in ListFile : labOutcome.tally[b] = Cardinality(lists[b]) + 0
    BY <2>1, <2>2
  <2>4. 0 \in 0 .. faults
    BY DEF Init
  <2> QED BY <2>1, <2>3, <2>4 DEF ListsMatchCounters
<1> QED BY <1>1, Inductive, OnceInit, OnceStep, ListsStep, PTL DEF Spec

-----------------------------------------------------------------------------
(* --detect-equivalent-mutants and --skip-uncovered *)

\* What a step of a scenario does besides moving its own thread.
LEMMA SkipFootprint ==
    ASSUME IndInv, NEW a \in Actors, RunScenario(a)
    PROVE  /\ UNCHANGED <<queue, stage, options, baselinePrint, coverage>>
           /\ \A b \in Actors : b # a => pc'[b] = pc[b] /\ job'[b] = job[b]
           /\ \/ NewBuild(a) \/ EquivalentBuild(a)
              \/ UNCHANGED <<fingerprints, equivalentTo>>
<1> USE DEF RunScenario, StartScenario, ScenarioFails, SkipUncovered, ApplyMutant,
       CargoEnds, CargoErrs, EquivalentFails, Revert, RevertFails, FinishScenario, FinishFails
<1>1. UNCHANGED measured
  BY DEF NewBuild, EquivalentBuild
<1>2. NewBuild(a) \/ EquivalentBuild(a) \/ UNCHANGED prints
  OBVIOUS
<1> QED BY ONLY <1>1, <1>2, Footprint, IndInv, RunScenario(a), a \in Actors DEF measured, prints

\* Where the mutant that a worker holds can go, once it will be tested.
LEMMA OwnTest ==
    ASSUME IndInv, EachMutantOnce, NEW a \in Workers, RunScenario(a), [Next]_vars,
           \/ pc[a] = "cargo" /\ Len(job[a].results) = 1 /\ ~options.check_only
           \/ pc[a] \in {"revert", "finish"} /\ RanTests(job[a])
           \/ pc[a] \in {"revertErr", "failed"},
           NEW r, r = job[a].scenario, r # Baseline
    PROVE  WillTest(r)'
<1> USE DEF FailsAt, Goto
<1>1. /\ pc \in [Actors -> Location] /\ job \in [Actors -> ScenarioOutcome] /\ a \in Actors
      /\ job[a].results \in Seq(PhaseResult) /\ a # Main
  BY DEF IndInv, TypeOK, ThreadsTypeOK, Actors, ScenarioOutcome, Main, Workers
<1>2. CASE CargoEnds(a)
  <2>1. pc[a] = "cargo" /\ Len(job[a].results) = 1 /\ ~options.check_only
    BY <1>2 DEF CargoEnds
  <2>2. CurrentPhase(a) = "Test" /\ IsLastPhase(a)
    BY <2>1 DEF CurrentPhase, IsLastPhase, Phases
  <2>3. PICK e \in CargoExits : /\ job' = [job EXCEPT ![a] = AddPhaseResult(@, "Test", e)]
                                /\ pc' = [pc EXCEPT ![a] = AfterPhase(a, e)]
    BY <1>2, <2>2 DEF CargoEnds
  <2>4. pc'[a] = "revert"
    BY <1>1, <2>2, <2>3 DEF AfterPhase, HasMutant, IsMutant
  <2>5. /\ job'[a].scenario = r
        /\ job'[a].results = Append(job[a].results, [phase |-> "Test", status |-> e])
    BY <1>1, <2>3 DEF AddPhaseResult, ScenarioOutcome
  <2>6. 2 \in DOMAIN job'[a].results /\ job'[a].results[2].phase = "Test"
    <3> DEFINE pr == [phase |-> "Test", status |-> e]
    <3>1. pr \in PhaseResult /\ pr.phase = "Test"
      <4>1. e \in Exit /\ "Test" \in Phase
        BY LabAssumption DEF Phase
      <4> QED BY <4>1 DEF PhaseResult
    <3> HIDE DEF pr
    <3>2. job'[a].results = Append(job[a].results, pr)
      BY <2>5 DEF pr
    <3> QED BY <1>1, <2>1, <3>1, <3>2
  <2>7. RanTests(job'[a])
    BY <2>6 DEF RanTests
  <2> QED BY <2>4, <2>5, <2>7 DEF WillTest
<1>3. CASE CargoErrs(a)
  BY <1>1, <1>3 DEF CargoErrs, AfterError, HasMutant, IsMutant, WillTest
<1>4. CASE Revert(a) \/ RevertFails(a)
  <2>1. UNCHANGED job /\ pc[a] \in {"revert", "revertErr"}
    BY <1>4 DEF Revert, RevertFails
  <2>2. pc'[a] = "failed" \/ (pc'[a] = "finish" /\ pc[a] = "revert")
    <3>1. \/ pc' = [pc EXCEPT ![a] = "failed"]
          \/ pc[a] = "revert" /\ pc' = [pc EXCEPT ![a] = "finish"]
      BY <1>4, <2>1 DEF Revert, RevertFails
    <3> QED BY <1>1, <3>1
  <2> QED BY <1>1, <2>1, <2>2 DEF WillTest
<1>5. CASE FinishScenario(a) \/ FinishFails(a)
  <2>1. pc[a] = "finish" /\ labOutcome' = Add(labOutcome, job[a]) /\ RanTests(job[a])
    BY <1>5 DEF FinishScenario, FinishFails
  <2> DEFINE n == Len(labOutcome.outcomes)
  <2>2. n + 1 \in DOMAIN labOutcome'.outcomes /\ labOutcome'.outcomes[n + 1] = job[a]
    BY <1>1, <2>1, RecordGrows
  <2>3. r \in Recorded' /\ OutcomeOf(r)' = job[a]
    BY <2>2, OnceStep, OneOutcomeNext DEF Recorded
  <2> QED BY <2>1, <2>3 DEF WillTest
<1>6. ~(\/ StartScenario(a) \/ ScenarioFails(a) \/ SkipUncovered(a) \/ ApplyMutant(a)
        \/ NewBuild(a) \/ EquivalentBuild(a) \/ EquivalentFails(a))
  BY DEF StartScenario, ScenarioFails, SkipUncovered, ApplyMutant, NewBuild,
         EquivalentBuild, EquivalentFails
<1> QED BY <1>2, <1>3, <1>4, <1>5, <1>6 DEF RunScenario

\* A mutant that will be tested, will be, whatever any thread does.
LEMMA WillTestKept ==
    ASSUME IndInv, ThreadsJoined, EachMutantOnce, [Next]_vars, NEW r \in Mutants, WillTest(r)
    PROVE  WillTest(r)'
<1>1. r # Baseline
  BY BaselineAssumption
<1>2. CASE r \in Recorded /\ RanTests(OutcomeOf(r))
  BY <1>2, OutcomesKept DEF WillTest
<1>3. ASSUME NEW w \in Workers, job[w].scenario = r,
             \/ pc[w] = "cargo" /\ Len(job[w].results) = 1 /\ ~options.check_only
             \/ pc[w] \in {"revert", "finish"} /\ RanTests(job[w])
             \/ pc[w] \in {"revertErr", "failed"}
      PROVE  WillTest(r)'
  <2>1. CASE pc'[w] = pc[w] /\ job'[w] = job[w] /\ options' = options
    BY <1>3, <2>1 DEF WillTest
  <2>2. ASSUME NEW a \in Actors, RunScenario(a) PROVE WillTest(r)'
    <3>1. CASE a = w
      BY <1>1, <1>3, <2>2, <3>1, OwnTest
    <3>2. CASE a # w
      BY <2>1, <2>2, <3>2, SkipFootprint DEF Actors
    <3> QED BY <3>1, <3>2
  <2>3. ASSUME NEW v \in Workers, Work(v) PROVE WillTest(r)'
    <3>1. v # w
      BY <1>3, <2>3 DEF Work, TakeBuildDir, CopyBuildDir, CopyFails, NextMutant, QueueEmpty
    <3> QED BY <2>1, <2>3, <3>1, WorkFootprint DEF Actors
  <2>4. CASE MainStep
    BY <2>1, <2>4, MainFootprint
  <2>5. CASE Interrupt \/ UNCHANGED vars
    BY <2>1, <2>5 DEF Interrupt, vars, lab, threads
  <2> QED BY <2>2, <2>3, <2>4, <2>5 DEF Next, Terminated
<1> QED BY <1>2, <1>3 DEF WillTest

-----------------------------------------------------------------------------
(* What a comparison finds *)

\* A new digest is entered for the mutant that built it; a known one is not.
LEMMA NewBuildPrints ==
    ASSUME IndInv, NEW a \in Actors, NewBuild(a)
    PROVE  /\ a \in Workers /\ job[a].scenario \in Mutants
           /\ UNCHANGED <<equivalentTo, job, labOutcome>>
           /\ pc'[a] = "cargo" /\ Len(job[a].results) = 1 /\ ~options.check_only
           /\ \A f \in Fingerprints :
                 \/ fingerprints'[f] = fingerprints[f]
                 \/ fingerprints[f] = None /\ fingerprints'[f] = job[a].scenario
<1>1. /\ fingerprints \in [Fingerprints -> Mutants \cup {None}] /\ pc \in [Actors -> Location]
      /\ pc[a] = "equiv"
  BY DEF IndInv, TypeOK, ThreadsTypeOK, PrintsTypeOK, NewBuild
<1>2. a \in Workers /\ job[a].scenario \in Mutants
  BY <1>1, HeldFacts DEF IndInv
<1>3. pc' = [pc EXCEPT ![a] = "cargo"] /\ UNCHANGED <<equivalentTo, job, labOutcome>>
  BY DEF NewBuild, Goto, output
<1>4. Len(job[a].results) = 1 /\ ~options.check_only
  BY <1>1 DEF IndInv, JobsFit
<1>5. \/ UNCHANGED fingerprints
      \/ \E g \in Fingerprints : fingerprints' = Enter(g, job[a].scenario)
  BY DEF NewBuild
<1> QED BY <1>1, <1>2, <1>3, <1>4, <1>5 DEF Enter

\* A build that is equal to an earlier one leaves the map as it was.
LEMMA EquivalentBuildPrints ==
    ASSUME IndInv, NEW a \in Actors, EquivalentBuild(a)
    PROVE  /\ a \in Workers /\ job[a].scenario \in Mutants /\ pc[a] = "equiv"
           /\ pc'[a] = "revert" /\ UNCHANGED <<fingerprints, labOutcome>>
           /\ job'[a].scenario = job[a].scenario /\ job'[a].skip = "Equivalent"
           /\ \E f \in Fingerprints :
                 /\ MatchOf(f) # None
                 /\ equivalentTo' = [equivalentTo EXCEPT ![job[a].scenario] = MatchOf(f)]
<1>1. /\ fingerprints \in [Fingerprints -> Mutants \cup {None}] /\ pc \in [Actors -> Location]
      /\ job \in [Actors -> ScenarioOutcome] /\ pc[a] = "equiv"
  BY DEF IndInv, TypeOK, ThreadsTypeOK, PrintsTypeOK, EquivalentBuild
<1>2. a \in Workers /\ job[a].scenario \in Mutants
  BY <1>1, HeldFacts DEF IndInv
<1>3. /\ pc' = [pc EXCEPT ![a] = "revert"] /\ UNCHANGED labOutcome
      /\ job' = [job EXCEPT ![a].skip = "Equivalent"]
  BY DEF EquivalentBuild, Goto, output
<1>4. job'[a].scenario = job[a].scenario /\ job'[a].skip = "Equivalent"
  BY <1>1, <1>3 DEF ScenarioOutcome
<1>5. PICK f \in Fingerprints :
          /\ MatchOf(f) # None
          /\ equivalentTo' = [equivalentTo EXCEPT ![job[a].scenario] = MatchOf(f)]
          /\ fingerprints' = IF f = baselinePrint THEN fingerprints
                             ELSE Enter(f, job[a].scenario)
  BY DEF EquivalentBuild
<1>6. UNCHANGED fingerprints
  <2>1. f # baselinePrint => fingerprints[f] # None
    BY <1>5 DEF MatchOf
  <2> QED BY <1>1, <1>5, <2>1 DEF Enter
<1> QED BY <1>1, <1>2, <1>3, <1>4, <1>5, <1>6

\* The comparison with an earlier build, under the lock of the map.
LEMMA SkipInCompare ==
    ASSUME IndInv, ThreadsJoined, EachMutantOnce, SkipInv, [Next]_vars,
           NEW a \in Actors, RunScenario(a), NewBuild(a) \/ EquivalentBuild(a)
    PROVE  PrintsAreTested' /\ MatchesArePrints' /\ NotYetCompared'
<1> USE DEF SkipInv
<1> PICK m : m = job[a].scenario
  OBVIOUS
<1>1. /\ a \in Workers /\ m \in Mutants /\ m # Baseline /\ pc[a] = "equiv"
      /\ UNCHANGED <<queue, baselinePrint>>
      /\ \A b \in Workers : b # a => pc'[b] = pc[b] /\ job'[b] = job[b]
  BY NewBuildPrints, EquivalentBuildPrints, SkipFootprint, BaselineAssumption
     DEF NewBuild, Actors
<1>2. equivalentTo[m] = None
  BY <1>1 DEF NotYetCompared, HasMutant, IsMutant
<1>3. \A w \in Workers : w # a => job[w].scenario # m
  BY <1>1 DEF EachMutantOnce, HasMutant, IsMutant
<1>4. m \notin queue /\ m \notin Recorded
  BY <1>1 DEF EachMutantOnce, Held
<1>5. ~WillTest(m)
  BY <1>1, <1>3, <1>4 DEF WillTest
<1>6. /\ equivalentTo \in [Mutants -> Scenario \cup {None}]
      /\ fingerprints \in [Fingerprints -> Mutants \cup {None}]
  BY DEF IndInv, TypeOK, PrintsTypeOK
<1>7. CASE NewBuild(a)
  <2>1. /\ UNCHANGED <<equivalentTo, job, labOutcome>> /\ UNCHANGED options
        /\ pc'[a] = "cargo" /\ Len(job[a].results) = 1 /\ ~options.check_only
        /\ \A f \in Fingerprints :
              \/ fingerprints'[f] = fingerprints[f]
              \/ fingerprints[f] = None /\ fingerprints'[f] = m
    BY <1>7, NewBuildPrints, SkipFootprint
  <2>2. WillTest(m)'
    BY <1>1, <2>1 DEF WillTest
  <2>3. PrintsAreTested'
    <3> SUFFICES ASSUME NEW f \in Fingerprints, NEW r, r = fingerprints'[f], r \in Mutants
                 PROVE  equivalentTo'[r] = None /\ WillTest(r)'
      BY DEF PrintsAreTested
    <3>1. CASE r = fingerprints[f]
      <4>1. equivalentTo[r] = None /\ WillTest(r)
        BY <3>1 DEF PrintsAreTested
      <4> QED BY <2>1, <4>1, WillTestKept
    <3>2. CASE r = m
      BY <1>2, <2>1, <2>2, <3>2
    <3> QED BY <2>1, <3>1, <3>2
  <2>4. MatchesArePrints'
    BY <1>1, <1>6, <2>1, LabAssumption DEF MatchesArePrints
  <2>5. NotYetCompared'
    BY <1>1, <1>2, <2>1 DEF NotYetCompared, HasMutant, IsMutant
  <2> QED BY <2>3, <2>4, <2>5
<1>8. CASE EquivalentBuild(a)
  <2>1. /\ pc'[a] = "revert" /\ UNCHANGED <<fingerprints, labOutcome>>
        /\ job'[a].scenario = m
    BY <1>8, EquivalentBuildPrints
  <2>2. PICK f \in Fingerprints : /\ MatchOf(f) # None
                                  /\ equivalentTo' = [equivalentTo EXCEPT ![m] = MatchOf(f)]
    BY <1>8, EquivalentBuildPrints
  <2>3. /\ equivalentTo'[m] = MatchOf(f)
        /\ \A n \in Mutants : n # m => equivalentTo'[n] = equivalentTo[n]
    BY <1>1, <1>6, <2>2
  <2>4. PrintsAreTested'
    <3> SUFFICES ASSUME NEW g \in Fingerprints, NEW r, r = fingerprints[g], r \in Mutants
                 PROVE  equivalentTo'[r] = None /\ WillTest(r)'
      BY <2>1 DEF PrintsAreTested
    <3>1. equivalentTo[r] = None /\ WillTest(r)
      BY DEF PrintsAreTested
    <3> QED BY <1>5, <2>3, <3>1, WillTestKept
  <2>5. MatchesArePrints'
    <3>1. MatchOf(f) = Baseline => baselinePrint # None
      BY <1>6, BaselineAssumption, LabAssumption DEF MatchOf
    <3>2. MatchOf(f) \in Mutants => MatchOf(f) = fingerprints[f] /\ MatchOf(f) # m
      BY <1>5, BaselineAssumption DEF MatchOf, PrintsAreTested
    <3> QED BY <1>1, <2>1, <2>3, <3>1, <3>2 DEF MatchesArePrints
  <2>6. NotYetCompared'
    <3>1. queue \subseteq Mutants /\ \A w \in Workers : HasMutant(w) => job[w].scenario \in Mutants
      BY DEF IndInv, TypeOK, ThreadsTypeOK, HasMutant, IsMutant, ScenarioOutcome, Scenario,
             Actors
    <3> QED BY <1>1, <1>3, <1>4, <2>1, <2>3, <3>1 DEF NotYetCompared, HasMutant, IsMutant
  <2> QED BY <2>4, <2>5, <2>6
<1> QED BY <1>7, <1>8

\* A step that compares nothing keeps what comparisons have found.
LEMMA SkipElsewhere ==
    ASSUME IndInv, ThreadsJoined, EachMutantOnce, SkipInv, [Next]_vars,
           UNCHANGED <<fingerprints, equivalentTo>>,
           \A m \in Mutants : equivalentTo[m] = Baseline => UNCHANGED baselinePrint
    PROVE  PrintsAreTested' /\ MatchesArePrints' /\ NotYetCompared'
<1> USE DEF SkipInv
<1>1. PrintsAreTested'
  <2> SUFFICES ASSUME NEW f \in Fingerprints, NEW r, r = fingerprints[f], r \in Mutants
               PROVE  equivalentTo[r] = None /\ WillTest(r)'
    BY DEF PrintsAreTested
  <2> QED BY WillTestKept DEF PrintsAreTested
<1>2. MatchesArePrints'
  BY DEF MatchesArePrints
<1>3. ASSUME UNCHANGED queue,
             \A w \in Workers : /\ job'[w].scenario = job[w].scenario \/ ~HasMutant(w)'
                                /\ \/ pc'[w] = pc[w]
                                   \/ pc'[w] \notin {"start", "diff", "cargo", "equiv"}
                                   \/ pc[w] \in {"start", "diff", "cargo", "equiv"}
      PROVE  NotYetCompared'
  BY <1>3 DEF NotYetCompared, HasMutant, IsMutant
<1>4. ASSUME NEW a \in Actors, RunScenario(a) PROVE NotYetCompared'
  <2>1. UNCHANGED queue /\ \A w \in Workers : w # a => pc'[w] = pc[w] /\ job'[w] = job[w]
    BY <1>4, SkipFootprint DEF Actors
  <2>2. CASE FinishScenario(a) \/ FinishFails(a)
    <3>1. /\ pc'[a] \notin {"start", "diff", "cargo", "equiv"}
          /\ a \in Workers => ~HasMutant(a)'
      BY <2>2, IdleType DEF FinishScenario, FinishFails, FailsAt, Goto, Leave, IndInv, TypeOK,
             ThreadsTypeOK, HasMutant, IsMutant, Main, Workers
    <3> QED BY <1>3, <2>1, <3>1
  <2>3. CASE UNCHANGED output /\ \A b \in Actors : job'[b].scenario = job[b].scenario
    <3>1. \/ pc'[a] \notin {"start", "diff", "cargo", "equiv"}
          \/ pc[a] \in {"start", "diff", "cargo", "equiv"}
      <4>1. CASE Revert(a) \/ RevertFails(a)
        BY <4>1 DEF Revert, RevertFails, FailsAt, Goto, IndInv, TypeOK, ThreadsTypeOK
      <4>2. CASE ~(Revert(a) \/ RevertFails(a) \/ FinishScenario(a) \/ FinishFails(a))
        BY <1>4, <4>2 DEF RunScenario, StartScenario, ScenarioFails, SkipUncovered,
               ApplyMutant, CargoEnds, CargoErrs, NewBuild, EquivalentBuild,
               EquivalentFails, FailsAt
      <4>3. CASE FinishScenario(a) \/ FinishFails(a)
        BY <4>3 DEF FinishScenario, FinishFails, FailsAt, Goto, IndInv, TypeOK, ThreadsTypeOK
      <4> QED BY <4>1, <4>2, <4>3
    <3> QED BY <1>3, <2>1, <2>3, <3>1 DEF Actors
  <2> QED BY <1>4, <2>2, <2>3, RecordFootprint
<1>5. ASSUME NEW w \in Workers, Work(w) PROVE NotYetCompared'
  <2>1. \A v \in Workers : v # w => pc'[v] = pc[v] /\ job'[v] = job[v]
    BY <1>5, WorkFootprint DEF Actors
  <2>2. CASE NextMutant(w)
    <3>1. PICK m \in queue : Take(m) /\ job' = [job EXCEPT ![w] = NewOutcome(m)]
      BY <2>2 DEF NextMutant
    <3>2. job'[w].scenario = m /\ queue' \subseteq queue /\ equivalentTo[m] = None
      BY <3>1, NewOutcomeType DEF Take, NotYetCompared, IndInv, TypeOK, ThreadsTypeOK,
             Scenario, Actors
    <3> QED BY <2>1, <3>2 DEF NotYetCompared, HasMutant, IsMutant
  <2>3. CASE UNCHANGED <<queue, job>>
    <3>1. pc[w] \in AtRest
      BY <1>5 DEF Work, TakeBuildDir, CopyBuildDir, CopyFails, NextMutant, QueueEmpty, AtRest
    <3>2. ~HasMutant(w)'
      BY <2>3, <3>1 DEF IndInv, JobsFit, HasMutant, IsMutant
    <3>3. \A v \in Workers : job'[v].scenario = job[v].scenario
      BY <2>3
    <3>4. UNCHANGED queue
      BY <2>3
    <3>5. pc'[w] \notin {"start", "diff", "cargo", "equiv"}
      <4>1. ~NextMutant(w)
        BY <2>3, <3>2 DEF NextMutant, Take
      <4>2. \/ pc'[w] \in {"copy", "queue", "done"}
            \/ CopyFails(w)
        BY <1>5, <4>1 DEF Work, TakeBuildDir, CopyBuildDir, QueueEmpty, Goto, IndInv, TypeOK,
               ThreadsTypeOK, Actors
      <4>3. CopyFails(w) => pc'[w] = "failed"
        BY DEF CopyFails, FailsAt, Goto, IndInv, TypeOK, ThreadsTypeOK, Actors
      <4> QED BY <4>2, <4>3
    <3> QED BY <1>3, <2>1, <3>2, <3>3, <3>4, <3>5
  <2> QED BY <1>5, <2>2, <2>3, WorkFootprint
<1>6. ASSUME MainStep \/ Interrupt \/ UNCHANGED vars PROVE NotYetCompared'
  <2>1. UNCHANGED <<queue, job>> /\ \A w \in Workers : pc'[w] = pc[w]
    BY <1>6, MainFootprint DEF Interrupt, vars, threads
  <2>2. \A w \in Workers : job'[w].scenario = job[w].scenario
    BY <2>1
  <2> QED BY <1>3, <2>1, <2>2
<1> QED BY <1>1, <1>2, <1>4, <1>5, <1>6 DEF Next, Terminated

-----------------------------------------------------------------------------
(* What was measured *)

\* Nothing is compared or measured before the workers start.
LEMMA MeasuredStep == IndInv /\ SkipInv /\ [Next]_vars => MeasuredFirst'
<1> SUFFICES ASSUME IndInv, SkipInv, [Next]_vars PROVE MeasuredFirst'
  OBVIOUS
<1> USE DEF SkipInv
<1>1. CASE MainStep
  BY <1>1 DEF MainStep, RejectOptions, NoMutants, Setup, SetupFails, BaselinePasses,
         BaselineFails, BaselineErrs, FinishLab, FailLab, MeasuredFirst, measured, prints
<1>2. ASSUME NEW a \in Actors, RunScenario(a) PROVE MeasuredFirst'
  <2>1. NewBuild(a) \/ EquivalentBuild(a) => stage \notin {"setup", "baseline"}
    BY NewBuildPrints, EquivalentBuildPrints DEF NewBuild, IndInv, StagesInOrder
  <2> QED BY <1>2, <2>1, SkipFootprint DEF MeasuredFirst
<1>3. ASSUME NEW w \in Workers, Work(w) PROVE MeasuredFirst'
  BY <1>3 DEF Work, TakeBuildDir, CopyBuildDir, CopyFails, NextMutant, QueueEmpty, lab,
         measured, prints, MeasuredFirst
<1> QED BY <1>1, <1>2, <1>3 DEF Next, Interrupt, Terminated, vars, lab, measured, prints,
           MeasuredFirst

\* Skipped as uncovered before anything was written or run.
LEMMA UncoveredInScenario ==
    ASSUME IndInv, SkipInv, NEW a \in Actors, RunScenario(a)
    PROVE  UncoveredNeverRan'
<1> USE DEF SkipInv
<1>1. /\ UNCHANGED coverage /\ pc \in [Actors -> Location]
      /\ \A b \in Actors : b # a => pc'[b] = pc[b] /\ job'[b] = job[b]
      /\ job \in [Actors -> ScenarioOutcome]
  BY SkipFootprint DEF IndInv, TypeOK, ThreadsTypeOK
<1>2. \A o : NeverRan(o) => NeverRan(o)'
  BY <1>1 DEF NeverRan
<1>3. ASSUME job'[a].skip = "Uncovered" => pc'[a] = "finish" /\ NeverRan(job'[a])
      PROVE  \A b \in Actors : job'[b].skip = "Uncovered" =>
                 pc'[b] = "finish" /\ NeverRan(job[b])'
  BY <1>1, <1>3 DEF UncoveredNeverRan, NeverRan
<1>4. ASSUME UNCHANGED output
      PROVE  \A i \in DOMAIN labOutcome'.outcomes :
                 labOutcome'.outcomes[i].skip = "Uncovered" => NeverRan(labOutcome.outcomes[i])'
  BY <1>1, <1>4 DEF UncoveredNeverRan, NeverRan, output
<1>5. CASE SkipUncovered(a)
  <2>1. /\ pc' = [pc EXCEPT ![a] = "finish"] /\ UNCHANGED output
        /\ job' = [job EXCEPT ![a].skip = "Uncovered"]
        /\ IsUncovered(job[a].scenario) /\ pc[a] = "diff"
    BY <1>5 DEF SkipUncovered, Goto
  <2>2. /\ job'[a].results = job[a].results /\ job'[a].scenario = job[a].scenario
    BY <1>1, <2>1 DEF ScenarioOutcome
  <2>3. job[a].results = <<>>
    BY <2>1 DEF IndInv, JobsFit
  <2>4. pc'[a] = "finish" /\ NeverRan(job'[a])
    BY <1>1, <2>1, <2>2, <2>3 DEF NeverRan, IsUncovered
  <2> QED BY <1>3, <1>4, <2>1, <2>4 DEF UncoveredNeverRan
<1>6. CASE FinishScenario(a) \/ FinishFails(a)
  <2>1. pc[a] = "finish" /\ labOutcome' = Add(labOutcome, job[a]) /\ Leave(a)
    BY <1>6 DEF FinishScenario, FinishFails, FailsAt
  <2>2. job'[a].skip # "Uncovered"
    <3>1. CASE a = Main
      <4>1. stage = "baseline" /\ job' = job
        BY <2>1, <3>1 DEF IndInv, StagesInOrder, InScenario, Leave
      <4> QED BY <3>1, <4>1 DEF MeasuredFirst, UncoveredNeverRan, NeverRan
    <3>2. CASE a # Main
      BY <1>1, <2>1, <3>2 DEF Leave, Idle, NewOutcome, NotSkipped
    <3> QED BY <3>1, <3>2
  <2>3. \A i \in DOMAIN labOutcome'.outcomes :
            labOutcome'.outcomes[i].skip = "Uncovered" => NeverRan(labOutcome'.outcomes[i])
    <3> SUFFICES ASSUME NEW i \in 1 .. Len(labOutcome.outcomes) + 1,
                        labOutcome'.outcomes[i].skip = "Uncovered"
                 PROVE  NeverRan(labOutcome'.outcomes[i])
      BY <2>1, RecordGrows
    <3>1. CASE i \in 1 .. Len(labOutcome.outcomes)
      BY <2>1, <3>1, RecordGrows DEF UncoveredNeverRan
    <3>2. CASE i = Len(labOutcome.outcomes) + 1
      BY <2>1, <3>2, RecordGrows DEF UncoveredNeverRan
    <3>3. Len(labOutcome.outcomes) \in Nat
      BY <2>1, RecordGrows
    <3> QED BY <3>1, <3>2, <3>3
  <2> QED BY <1>1, <1>3, <2>2, <2>3 DEF UncoveredNeverRan, NeverRan
<1>7. CASE CargoEnds(a)
  <2>1. pc[a] = "cargo" /\ UNCHANGED output
    BY <1>7 DEF CargoEnds
  <2>2. PICK e \in CargoExits : job' = [job EXCEPT ![a] = AddPhaseResult(@, CurrentPhase(a), e)]
    BY <1>7 DEF CargoEnds
  <2>3. job'[a].skip = job[a].skip
    BY <1>1, <2>2 DEF AddPhaseResult, ScenarioOutcome
  <2>4. job'[a].skip # "Uncovered"
    BY <2>1, <2>3 DEF UncoveredNeverRan
  <2> QED BY <1>3, <1>4, <2>1, <2>4 DEF UncoveredNeverRan
<1>8. CASE EquivalentBuild(a)
  <2>1. job'[a].skip # "Uncovered" /\ UNCHANGED output
    BY <1>8, EquivalentBuildPrints DEF EquivalentBuild
  <2> QED BY <1>3, <1>4, <2>1 DEF UncoveredNeverRan
<1>9. CASE \/ StartScenario(a) \/ ScenarioFails(a) \/ ApplyMutant(a) \/ CargoErrs(a)
           \/ NewBuild(a) \/ EquivalentFails(a) \/ Revert(a) \/ RevertFails(a)
  <2>1. UNCHANGED <<job, output>> /\ pc[a] # "finish"
    BY <1>9 DEF StartScenario, ScenarioFails, ApplyMutant, CargoErrs, NewBuild,
           EquivalentFails, Revert, RevertFails, FailsAt
  <2>2. job'[a].skip # "Uncovered"
    BY <2>1 DEF UncoveredNeverRan
  <2> QED BY <1>3, <1>4, <2>1, <2>2 DEF UncoveredNeverRan
<1> QED BY <1>5, <1>6, <1>7, <1>8, <1>9 DEF RunScenario

\* A mutant skipped as uncovered has run nothing.
LEMMA UncoveredStep == IndInv /\ SkipInv /\ [Next]_vars => UncoveredNeverRan'
<1> SUFFICES ASSUME IndInv, SkipInv, [Next]_vars PROVE UncoveredNeverRan'
  OBVIOUS
<1> USE DEF SkipInv
<1>1. CASE BaselinePasses
  <2>1. coverage = {} /\ UNCHANGED <<job, labOutcome>>
    BY <1>1 DEF BaselinePasses, MeasuredFirst, threads, output
  <2> QED BY <2>1 DEF UncoveredNeverRan, NeverRan
<1>2. CASE UNCHANGED <<coverage, job, labOutcome>> /\ \A a \in Actors :
              pc[a] = "finish" => pc'[a] = "finish"
  BY <1>2 DEF UncoveredNeverRan, NeverRan
<1>3. CASE MainStep /\ ~BaselinePasses
  <2>1. UNCHANGED coverage
    BY <1>3 DEF MainStep, RejectOptions, NoMutants, Setup, SetupFails, BaselineFails,
           BaselineErrs, FinishLab, FailLab, measured
  <2>2. Setup => pc[Main] # "finish"
    BY DEF Setup, IndInv, StagesInOrder
  <2> QED BY <1>2, <1>3, <2>1, <2>2, MainFootprint DEF Actors
<1>4. ASSUME NEW w \in Workers, Work(w) PROVE UncoveredNeverRan'
  <2>1. pc[w] # "finish" /\ UNCHANGED coverage /\ UNCHANGED labOutcome
    BY <1>4 DEF Work, TakeBuildDir, CopyBuildDir, CopyFails, NextMutant, QueueEmpty,
           measured, output
  <2>2. \A a \in Actors : a # w => pc'[a] = pc[a] /\ job'[a] = job[a]
    BY <1>4, WorkFootprint
  <2>3. job'[w].skip # "Uncovered"
    <3>1. CASE UNCHANGED job
      BY <2>1, <3>1 DEF UncoveredNeverRan, Actors
    <3>2. CASE NextMutant(w)
      BY <3>2 DEF NextMutant, NewOutcome, NotSkipped, IndInv, TypeOK, ThreadsTypeOK, Actors
    <3> QED BY <1>4, <3>1, <3>2, WorkFootprint
  <2> QED BY <2>1, <2>2, <2>3 DEF UncoveredNeverRan, NeverRan
<1>5. CASE Interrupt \/ UNCHANGED vars
  BY <1>2, <1>5 DEF Interrupt, vars, threads, measured, output
<1> QED BY <1>1, <1>3, <1>4, <1>5, UncoveredInScenario DEF Next, Terminated

-----------------------------------------------------------------------------

\* Nothing has been compared.
LEMMA SkipInit == Init => SkipInv
<1> SUFFICES ASSUME Init PROVE SkipInv
  OBVIOUS
<1>1. /\ \A m \in Mutants : equivalentTo[m] = None
      /\ \A f \in Fingerprints : fingerprints[f] = None
      /\ \A a \in Actors : pc[a] = "new" /\ job[a] = Idle
      /\ coverage = {} /\ labOutcome.outcomes = <<>> /\ queue \subseteq Mutants
  BY LabAssumption DEF Init, EmptyLabOutcome
<1>2. Idle.skip # "Uncovered"
  BY DEF Idle, NewOutcome, NotSkipped
<1> QED BY <1>1, <1>2, LabAssumption
        DEF SkipInv, MeasuredFirst, PrintsAreTested, MatchesArePrints, NotYetCompared,
            UncoveredNeverRan, Actors

\* Every step keeps what skips rest on.
LEMMA SkipStep ==
    IndInv /\ ThreadsJoined /\ EachMutantOnce /\ SkipInv /\ [Next]_vars => SkipInv'
<1> SUFFICES ASSUME IndInv, ThreadsJoined, EachMutantOnce, SkipInv, [Next]_vars PROVE SkipInv'
  OBVIOUS
<1>1. PrintsAreTested' /\ MatchesArePrints' /\ NotYetCompared'
  <2>1. CASE \E a \in Actors : RunScenario(a) /\ (NewBuild(a) \/ EquivalentBuild(a))
    BY <2>1, SkipInCompare
  <2>2. ASSUME NEW a \in Actors, RunScenario(a), ~NewBuild(a), ~EquivalentBuild(a)
        PROVE  UNCHANGED <<fingerprints, equivalentTo, baselinePrint>>
    BY <2>2, SkipFootprint
  <2>3. ASSUME NEW w \in Workers, Work(w)
        PROVE  UNCHANGED <<fingerprints, equivalentTo, baselinePrint>>
    BY <2>3 DEF Work, TakeBuildDir, CopyBuildDir, CopyFails, NextMutant, QueueEmpty,
           measured, prints
  <2>4. CASE MainStep
    <3>1. UNCHANGED <<fingerprints, equivalentTo>> /\ (BaselinePasses \/ UNCHANGED baselinePrint)
      BY <2>4 DEF MainStep, RejectOptions, NoMutants, Setup, SetupFails, BaselinePasses,
             BaselineFails, BaselineErrs, FinishLab, FailLab, measured, prints
    <3>2. BaselinePasses => \A m \in Mutants : equivalentTo[m] # Baseline
      BY LabAssumption DEF BaselinePasses, SkipInv, MeasuredFirst
    <3> QED BY <3>1, <3>2, SkipElsewhere
  <2>5. CASE Interrupt \/ UNCHANGED vars
    BY <2>5, SkipElsewhere DEF Interrupt, vars, measured, prints
  <2> QED BY <2>1, <2>2, <2>3, <2>4, <2>5, SkipElsewhere DEF Next, Terminated
<1> QED BY <1>1, MeasuredStep, UncoveredStep DEF SkipInv

\* For every number of workers, mutants and digests: a mutant skipped as equivalent
\* names one that is not skipped and whose tests have run by the end of the run, and
\* one skipped as uncovered was never run and is on a line no test starts.
THEOREM SkipsJustified == Spec => []SkipsAreJustified
<1>1. IndInv /\ ThreadsJoined /\ EndsProperly /\ EachMutantOnce /\ SkipInv => SkipsAreJustified
  <2> SUFFICES ASSUME IndInv, ThreadsJoined, EndsProperly, EachMutantOnce, SkipInv
               PROVE  SkipsAreJustified
    OBVIOUS
  <2> USE DEF SkipInv
  <2>1. \A m \in Mutants : equivalentTo[m] = Baseline => baselinePrint # None
    BY DEF MatchesArePrints
  <2>2. ASSUME NEW m \in Mutants, NEW r, r = equivalentTo[m], r \in Mutants
        PROVE  /\ r # m
               /\ equivalentTo[r] = None
               /\ stage = "finished" => r \in Recorded /\ RanTests(OutcomeOf(r))
    <3>1. r # m /\ equivalentTo[r] = None /\ WillTest(r)
      BY <2>2 DEF MatchesArePrints, PrintsAreTested
    <3>2. ASSUME stage = "finished" PROVE \A w \in Workers : job[w].scenario = Baseline
      <4>1. \A w \in Workers : pc[w] \in {"new", "done"}
        BY <3>2 DEF EndsProperly, ThreadsJoined
      <4> QED BY <4>1 DEF IndInv, JobsFit, AtRest, HasMutant, IsMutant
    <3> QED BY <2>2, <3>1, <3>2, BaselineAssumption DEF WillTest
  <2>3. ASSUME NEW m \in Recorded, OutcomeOf(m).skip = "Uncovered"
        PROVE  /\ OutcomeOf(m).results = <<>>
               /\ m \notin ConstEval
               /\ \E covered \in coverage : LineOf[m] \notin covered
    <3>1. PICK i \in DOMAIN labOutcome.outcomes : labOutcome.outcomes[i].scenario = m
      BY DEF Recorded
    <3>2. OutcomeOf(m) = labOutcome.outcomes[i]
      BY <3>1, OneOutcome
    <3> QED BY <2>3, <3>1, <3>2 DEF UncoveredNeverRan, NeverRan
  <2> QED BY <2>1, <2>2, <2>3 DEF SkipsAreJustified
<1> QED BY <1>1, EndsAlways, SkipInit, SkipStep, PTL DEF Spec

-----------------------------------------------------------------------------
(* The lab implements LabSpec: the initial states map to initial states, and *)
(* every step maps to a step of LabSpec or to a stutter.                     *)

\* An outcome with a scenario and results always has a summary.
LEMMA SummaryIsVerdict ==
    ASSUME NEW o \in ScenarioOutcome, IsMutant(o.scenario)
    PROVE  Summary(o) \in Verdicts
BY DEF Summary, MutantSummary, Verdicts, Bucket, ScenarioOutcome, SkipReason, NotSkipped

\* A step that takes and records no mutant changes no verdict.
LEMMA VerdictsKept ==
    ASSUME UNCHANGED <<mutants, queue, labOutcome>>, NEW m
    PROVE  VerdictOf(m)' = VerdictOf(m)
BY DEF VerdictOf, Recorded, OutcomeOf

\* The initial states map to initial states.
LEMMA RefinedInit == Init => Promise!Init
<1> SUFFICES ASSUME Init PROVE Promise!Init
  OBVIOUS
<1>1. \A m \in Mutants : VerdictOf(m) \in {"waiting", "excluded"}
  BY DEF Init, VerdictOf
<1>2. RunResult = "running"
  BY DEF Init, RunResult, Ended
<1> QED BY <1>1, <1>2 DEF Promise!Init

\* The main thread ends the run, or goes on without telling.
LEMMA RefinedMain ==
    ASSUME IndInv, ThreadsJoined, EndsProperly, EachMutantOnce, MainStep
    PROVE  Promise!Next \/ UNCHANGED Promise!vars
<1> USE DEF Promise!vars
<1>1. UNCHANGED <<mutants, queue, labOutcome>>
  BY MainFootprint
<1>2. \A m \in Mutants : VerdictOf(m)' = VerdictOf(m)
  BY <1>1, VerdictsKept
<1>3. RunResult = "running"
  BY DEF RunResult, Ended, MainStep, RejectOptions, NoMutants, Setup, SetupFails,
         BaselinePasses, BaselineFails, BaselineErrs, FinishLab, FailLab
<1>4. CASE FinishLab \/ NoMutants
  <2>1. mutants = Recorded \/ mutants = {}
    <3>1. FinishLab => mutants = Recorded
      BY AllTested DEF FinishLab, AllEnded, AnyFailed, EndsProperly
    <3> QED BY <1>4, <3>1 DEF NoMutants
  <2>2. \A m \in Mutants : VerdictOf(m) \in Verdicts \cup {"excluded"}
    <3> SUFFICES ASSUME NEW m \in mutants, mutants = Recorded PROVE VerdictOf(m) \in Verdicts
      BY <2>1 DEF VerdictOf
    <3>1. PICK i \in DOMAIN labOutcome.outcomes :
              labOutcome.outcomes[i].scenario = m /\ m # Baseline
      BY DEF Recorded
    <3>2. labOutcome.outcomes[i] \in ScenarioOutcome
      BY DEF IndInv, TypeOK, OutputTypeOK, LabOutcome
    <3>3. OutcomeOf(m) = labOutcome.outcomes[i]
      BY <3>1, OneOutcome
    <3>4. m \notin queue /\ m \in Recorded
      BY DEF EachMutantOnce
    <3> QED BY <3>1, <3>2, <3>3, <3>4, SummaryIsVerdict DEF VerdictOf, IsMutant
  <2>3. RunResult' = "complete"
    BY <1>4 DEF FinishLab, NoMutants, RunResult
  <2> QED BY <1>2, <1>3, <2>2, <2>3 DEF Promise!Next, Promise!Complete
<1>5. CASE ~FinishLab /\ ~NoMutants
  <2>1. stage' \in {"baseline", "testing", "baselineFailed", "error"}
    BY <1>5 DEF MainStep, RejectOptions, Setup, SetupFails, BaselinePasses, BaselineFails,
           BaselineErrs, FailLab
  <2>2. RunResult' \in {"running", "stopped"}
    BY <2>1 DEF RunResult, Ended
  <2> QED BY <1>2, <1>3, <2>2 DEF Promise!Next, Promise!GiveUp
<1> QED BY <1>4, <1>5

\* A worker that takes a mutant puts it under test.
LEMMA RefinedWork ==
    ASSUME IndInv, ThreadsJoined, EachMutantOnce, NEW w \in Workers, Work(w)
    PROVE  Promise!Next \/ UNCHANGED Promise!vars
<1> USE DEF Promise!vars
<1>1. UNCHANGED <<stage, mutants, labOutcome>> /\ RunResult' = RunResult
  BY WorkFootprint DEF output, RunResult
<1>2. CASE UNCHANGED queue
  BY <1>1, <1>2, VerdictsKept
<1>3. CASE NextMutant(w)
  <2>1. PICK m \in queue : queue' = queue \ {m}
    BY <1>3 DEF NextMutant, Take
  <2>2. stage = "testing"
    BY <1>3, WorkersTest DEF NextMutant
  <2>3. RunResult = "running"
    BY <2>2 DEF RunResult, Ended
  <2>4. m \in Mutants /\ m \in mutants /\ m \notin Recorded
    BY DEF IndInv, TypeOK, ThreadsTypeOK, EachMutantOnce
  <2>5. UNCHANGED Recorded /\ \A n : OutcomeOf(n)' = OutcomeOf(n)
    BY <1>1 DEF Recorded, OutcomeOf
  <2>6. VerdictOf(m) = "waiting" /\ VerdictOf(m)' = "testing"
    BY <1>1, <2>1, <2>4, <2>5 DEF VerdictOf
  <2>7. \A n \in Mutants : n # m => VerdictOf(n)' = VerdictOf(n)
    BY <1>1, <2>1, <2>5 DEF VerdictOf
  <2>8. Promise!Take(m)
    BY <1>1, <2>3, <2>4, <2>6, <2>7 DEF Promise!Take
  <2> QED BY <2>4, <2>8 DEF Promise!Next
<1> QED BY <1>2, <1>3, WorkFootprint

\* add_scenario_outcome gives the mutant in the thread's hands its verdict and
\* changes no other; nothing else in a scenario can be told.
LEMMA RefinedScenario ==
    ASSUME IndInv, ThreadsJoined, EachMutantOnce, [Next]_vars, NEW b \in Actors, RunScenario(b)
    PROVE  Promise!Next \/ UNCHANGED Promise!vars
<1> USE DEF Promise!vars
<1>1. UNCHANGED <<stage, mutants, queue>> /\ RunResult' = RunResult
  BY Footprint DEF RunResult
<1>2. CASE UNCHANGED labOutcome
  BY <1>1, <1>2, VerdictsKept
<1>3. CASE labOutcome' # labOutcome
  <2>1. PICK a \in Actors : /\ pc[a] = "finish" /\ labOutcome' = Add(labOutcome, job[a])
                            /\ RunScenario(a)
    BY <1>3, OnlyRecorded
  <2> PICK s : s = job[a].scenario
    OBVIOUS
  <2> DEFINE n == Len(labOutcome.outcomes)
  <2>2. EachMutantOnce'
    BY OnceStep
  <2>3. \A m \in Recorded : m \in Recorded' /\ OutcomeOf(m)' = OutcomeOf(m)
    BY OutcomesKept
  <2>4. \A m : m # s /\ m \in Recorded' => m \in Recorded
    BY <2>1, RecordGrows DEF Recorded
  <2>5. \A m \in Mutants : m # s => VerdictOf(m)' = VerdictOf(m)
    BY <1>1, <2>3, <2>4 DEF VerdictOf
  <2>6. CASE s = Baseline
    BY <1>1, <2>5, <2>6, BaselineAssumption
  <2>7. CASE s # Baseline
    <3>1. job[a] \in ScenarioOutcome /\ s \in Mutants
      BY <2>7 DEF IndInv, TypeOK, ThreadsTypeOK, ScenarioOutcome, Scenario
    <3>2. a \in Workers /\ s \in Held
      BY <2>7 DEF Held, Actors, IndInv, JobsFit
    <3>3. VerdictOf(s) = "testing"
      BY <3>2 DEF VerdictOf, EachMutantOnce
    <3>4. n + 1 \in DOMAIN labOutcome'.outcomes /\ labOutcome'.outcomes[n + 1] = job[a]
      BY <2>1, RecordGrows
    <3>5. s \in Recorded' /\ OutcomeOf(s)' = job[a]
      BY <2>2, <2>7, <3>4, OneOutcomeNext DEF Recorded
    <3>6. VerdictOf(s)' = Summary(job[a])
      BY <1>1, <3>2, <3>5 DEF VerdictOf, EachMutantOnce
    <3>7. Summary(job[a]) \in Verdicts
      BY <2>7, <3>1, SummaryIsVerdict DEF IsMutant
    <3>8. RunResult = "running"
      <4>1. stage = "testing" \/ stage \in Ended
        BY <2>1, <3>2 DEF IndInv, TypeOK, LabTypeOK, StagesInOrder
      <4>2. stage = "testing"
        BY <1>3, <4>1, <2>1, <3>2, EndIsQuiet DEF vars, output
      <4> QED BY <4>2 DEF RunResult, Ended
    <3>9. Promise!Judge(s)
      BY <1>1, <2>5, <3>1, <3>3, <3>6, <3>7, <3>8 DEF Promise!Judge
    <3> QED BY <3>1, <3>9 DEF Promise!Next
  <2> QED BY <2>6, <2>7
<1> QED BY <1>2, <1>3

\* Each mutant gets at most one verdict, and keeps it, and the run is complete
\* only when all have one, whatever the number of workers, the results of cargo,
\* the I/O errors and the moment of a Ctrl-C.
THEOREM Refinement == Spec => ImplementsLabSpec
<1>1. IndInv /\ ThreadsJoined /\ EndsProperly /\ EachMutantOnce /\ [Next]_vars
      => [Promise!Next]_(Promise!vars)
  <2> SUFFICES ASSUME IndInv, ThreadsJoined, EndsProperly, EachMutantOnce, [Next]_vars
               PROVE  Promise!Next \/ UNCHANGED Promise!vars
    OBVIOUS
  <2>1. CASE Interrupt \/ UNCHANGED vars
    <3>1. UNCHANGED <<stage, mutants, queue, labOutcome>>
      BY <2>1 DEF Interrupt, vars, lab, threads, output
    <3> QED BY <3>1, VerdictsKept DEF Promise!vars, RunResult
  <2> QED BY <2>1, RefinedMain, RefinedWork, RefinedScenario DEF Next, Terminated
<1> QED BY <1>1, RefinedInit, EndsAlways, PTL DEF Spec, ImplementsLabSpec, Promise!Spec

-----------------------------------------------------------------------------
(* The display *)

DisplayTypes ==
    /\ models \in [BuildDirs -> Seq(Phase \cup {Idleness})]
    /\ n_mutants \in {{}, {Cardinality(mutants)}}
    /\ counts \in [done : Nat, tally : [Summaries -> Nat]]
    /\ unreported \in [Actors -> {<<>>} \cup {<<o>> : o \in ScenarioOutcome}]

\* What a thread has recorded and not reported is its last outcome: it has not
\* gone on, and the main thread's is that of the baseline.
ReportsFit ==
    /\ job[Main].skip = NotSkipped
    /\ unreported[Main] # <<>> =>
          /\ stage = "baseline" /\ pc[Main] \in {"done", "failed"} /\ dir[Main] = 0
          /\ unreported[Main] = <<job[Main]>>
    /\ \A w \in Workers : unreported[w] # <<>> =>
          /\ stage = "testing" /\ pc[w] \in {"queue", "failed"} /\ dir[w] # NoDir
          /\ IsMutant(unreported[w][1].scenario)

\* The model of a directory is there from the start of a scenario to its report.
ShownTo(a) ==
    /\ pc[a] \in InScenario \ {"start"} => models[dir[a]] # <<>>
    /\ pc[a] = "cargo" => models[dir[a]] = <<CurrentPhase(a)>>
    /\ pc[a] = "start" => models[dir[a]] = <<>>

ClearedBy(w) ==
    /\ pc[w] = "queue" /\ unreported[w] = <<>> => models[dir[w]] = <<>>
    /\ dir[w] # w => models[w] = <<>>

BaselineCleared ==
    \/ stage = "setup"
    \/ stage = "baseline" /\ pc[Main] = "done" /\ unreported[Main] = <<>>
    \/ stage = "testing" /\ Dir0Free

ModelsFit ==
    /\ \A d \in BuildDirs : Len(models[d]) <= 1
    /\ \A a \in Actors : ShownTo(a)
    /\ \A w \in Workers : ClearedBy(w)
    /\ BaselineCleared => models[0] = <<>>

\* The clock starts before the first mutant is counted.
ClockFits ==
    /\ timing \in BOOLEAN
    /\ stage = "testing" \/ counts.done > 0 => timing
    /\ stage \in {"setup", "baseline"} => counts.done = 0

Waiting == {w \in Workers : unreported[w] # <<>>}

\* A mutant that is counted is on the record, and so is one that is yet to be.
DoneFits == counts.done + Cardinality(Waiting) <= Cardinality(Recorded)

DisplayInv ==
    /\ DisplayTypes /\ ReportsFit /\ ModelsFit /\ ClockFits /\ DoneFits
    /\ CountsWhatIsRecorded /\ "display" \notin panicked

\* A thread that panicked over a log has failed, and is yet to be joined or has
\* made the run fail.
LogFits ==
    "log" \in panicked =>
        \/ stage \in {"baseline", "error"} /\ pc[Main] = "failed"
        \/ stage \in {"testing", "error"} /\ \E w \in Workers : pc[w] = "failed"

-----------------------------------------------------------------------------

\* Every step of the lab with its display is a step of the lab, or none.
LEMMA DisplayedSteps == [ConsoleNext]_conVars => [Next]_vars
BY DEF ConsoleNext, conVars, MainReported, ScenarioReported, WorkReported, InterruptUnreported,
       TerminatedUnreported, DiscoveredMutants, StartBaselineCopy, SetupReported,
       BaselinePassesReported, LabEndsReported, MainUnreported, StartScenarioReported,
       PhaseBegins, PhaseEnds, FinishRecorded, ReportOutcome, ScenarioUnreported,
       StartWorkerCopy, WorkerCopied, WorkUnreported, Next, MainStep, RunScenario, Work

\* What threads have recorded and not reported can be counted.
LEMMA WaitingFinite ==
    /\ IsFiniteSet(Actors)
    /\ \A S \in SUBSET Actors : IsFiniteSet(S) /\ Cardinality(S) \in Nat
<1>1. Jobs \in Nat
  BY LabAssumption
<1>2. IsFiniteSet(Workers)
  BY <1>1, FS_Interval DEF Workers
<1>3. IsFiniteSet(Actors)
  <2>1. Actors = Workers \cup {Main}
    BY DEF Actors
  <2> QED BY <1>2, <2>1, FS_AddElement
<1> QED BY <1>3, FS_Subset, FS_CardinalityType

\* A sum of what a set of threads has, when one joins or leaves the set.
LEMMA OneMore ==
    ASSUME NEW S \in SUBSET Actors, NEW a \in Actors
    PROVE  /\ a \notin S => Cardinality(S \cup {a}) = Cardinality(S) + 1
           /\ a \in S => Cardinality(S \ {a}) = Cardinality(S) - 1
BY WaitingFinite, FS_AddElement, FS_RemoveElement

\* The mutants on record can be counted.
LEMMA RecordedFinite ==
    ASSUME IndInv
    PROVE  /\ Recorded \in SUBSET Mutants
           /\ IsFiniteSet(Recorded) /\ Cardinality(Recorded) \in Nat
<1>1. labOutcome.outcomes \in Seq(ScenarioOutcome)
  BY DEF IndInv, TypeOK, OutputTypeOK, LabOutcome
<1>2. \A i \in DOMAIN labOutcome.outcomes : labOutcome.outcomes[i].scenario \in Scenario
  <2>1. \A i \in DOMAIN labOutcome.outcomes : labOutcome.outcomes[i] \in ScenarioOutcome
    BY <1>1
  <2> QED BY <2>1 DEF ScenarioOutcome
<1>3. Recorded \in SUBSET Mutants
  BY <1>2 DEF Recorded, Scenario
<1> QED BY <1>3, MutantsFinite, FS_Subset, FS_CardinalityType

\* The threads whose report of this summary is due.
LateFor(s) == {a \in Actors : \E i \in DOMAIN unreported[a] :
                  IsMutant(unreported[a][i].scenario) /\ Summary(unreported[a][i]) = s}

\* What is late under a summary is counted thread by thread.
LEMMA LateIs ==
    ASSUME DisplayTypes, NEW b
    PROVE  /\ Unreported(b) = Cardinality(LateFor(b)) /\ LateFor(b) \in SUBSET Actors
           /\ Unreported(b) \in Nat
BY WaitingFinite DEF LateFor, Unreported

\* By how much the display is behind, when one side moves or both do.
LEMMA ShortBy ==
    ASSUME NEW t \in Nat, NEW u \in Nat, NEW c \in Nat, NEW f \in Nat, NEW g \in Nat, f <= g,
           t - u - c \in 0 .. f
    PROVE  /\ t - u - c \in 0 .. g
           /\ (t + 1) - (u + 1) - c \in 0 .. g
           /\ t - (u - 1) - (c + 1) \in 0 .. g
           /\ g = f + 1 => (t + 1) - u - c \in 0 .. g
OBVIOUS

\* A step that neither records nor reports leaves the counters where they are.
LEMMA CountsKept ==
    ASSUME IndInv, DisplayInv, [Next]_vars, UNCHANGED <<labOutcome, counts, unreported>>
    PROVE  DoneFits' /\ CountsWhatIsRecorded'
<1>1. faults \in Nat /\ faults' \in Nat /\ faults <= faults'
  BY FaultsGrow
<1>2. DoneFits'
  BY DEF DisplayInv, DoneFits, Waiting, Recorded
<1>3. \A b \in Bucket : Unreported(b)' = Unreported(b)
  BY DEF Unreported
<1>4. ASSUME NEW b \in Bucket \ {"Success", "Timeout"}
      PROVE  labOutcome'.tally[b] - Unreported(b)' - counts'.tally[b] \in 0 .. faults'
  <2>1. labOutcome.tally[b] - Unreported(b) - counts.tally[b] \in 0 .. faults
    BY DEF DisplayInv, CountsWhatIsRecorded
  <2> QED BY <1>1, <1>3, <2>1
<1>5. CountsWhatIsRecorded'
  BY <1>4 DEF CountsWhatIsRecorded
<1> QED BY <1>2, <1>5

LEMMA RecordedBecomes ==
    ASSUME IndInv, NEW a \in Actors, labOutcome' = Add(labOutcome, job[a])
    PROVE  Recorded' = (Recorded \cup {job[a].scenario}) \ {Baseline}
<1> DEFINE n == Len(labOutcome.outcomes)
<1>1. /\ n \in Nat
      /\ DOMAIN labOutcome.outcomes = 1 .. n /\ DOMAIN labOutcome'.outcomes = 1 .. n + 1
      /\ \A i \in 1 .. n : labOutcome'.outcomes[i] = labOutcome.outcomes[i]
      /\ labOutcome'.outcomes[n + 1] = job[a]
  BY RecordGrows
<1>2. n + 1 \in 1 .. n + 1 /\ 1 .. n + 1 = (1 .. n) \cup {n + 1}
  BY <1>1
<1> HIDE DEF n
<1>3. ASSUME NEW x \in Recorded' PROVE x \in (Recorded \cup {job[a].scenario}) \ {Baseline}
  BY <1>1, <1>2, <1>3 DEF Recorded
<1>4. ASSUME NEW x \in Recorded PROVE x \in Recorded'
  BY <1>1, <1>2, <1>4 DEF Recorded
<1>5. job[a].scenario # Baseline => job[a].scenario \in Recorded'
  BY <1>1, <1>2 DEF Recorded
<1>6. Baseline \notin Recorded
  BY DEF Recorded
<1> QED BY <1>3, <1>4, <1>5, <1>6

\* The outcome that is recorded is one more, whether it is reported later or, after
\* an error, never.
LEMMA CountsRecorded ==
    ASSUME IndInv, EachMutantOnce, DisplayInv, [Next]_vars, NEW a \in Actors,
           pc[a] = "finish", labOutcome' = Add(labOutcome, job[a]), UNCHANGED counts,
           \/ unreported' = [unreported EXCEPT ![a] = <<job[a]>>]
           \/ UNCHANGED unreported /\ faults' = faults + 1
    PROVE  DoneFits' /\ CountsWhatIsRecorded'
<1> USE DEF DisplayInv
<1> DEFINE s == job[a].scenario
           o == job[a]
<1>1. o \in ScenarioOutcome /\ unreported[a] = <<>> /\ (IsMutant(s) <=> a \in Workers)
  <2>1. o \in ScenarioOutcome
    BY DEF IndInv, TypeOK, ThreadsTypeOK
  <2>2. unreported[a] = <<>>
    BY DEF ReportsFit, Actors
  <2>3. IsMutant(s) <=> a \in Workers
    BY DEF IndInv, JobsFit, Actors, IsMutant, HasMutant, InScenario, Main, Workers
  <2> QED BY <2>1, <2>2, <2>3
<1>2. /\ unreported \in [Actors -> {<<>>} \cup {<<x>> : x \in ScenarioOutcome}]
      /\ counts.done \in Nat /\ faults \in Nat /\ faults' \in Nat /\ faults <= faults'
  BY FaultsGrow DEF DisplayTypes
<1>3. Recorded \in SUBSET Mutants /\ IsFiniteSet(Recorded) /\ Cardinality(Recorded) \in Nat
  BY RecordedFinite
<1>4. Recorded' = IF IsMutant(s) THEN Recorded \cup {s} ELSE Recorded
  <2>1. Recorded' = (Recorded \cup {s}) \ {Baseline}
    BY RecordedBecomes
  <2>2. Baseline \notin Recorded
    BY DEF Recorded
  <2> QED BY <2>1, <2>2 DEF IsMutant
<1>5. IsMutant(s) => s \notin Recorded
  <2>1. IsMutant(s) => s \in Held
    BY <1>1 DEF Held, IsMutant
  <2> QED BY <2>1 DEF EachMutantOnce
<1>6. DoneFits'
  <2>1. Waiting \in SUBSET Actors /\ a \notin Waiting
    BY <1>1 DEF Waiting, Actors
  <2>2. Cardinality(Waiting) \in Nat
    BY <2>1, WaitingFinite
  <2>5. \/ \A c \in Workers : unreported'[c] = IF c = a THEN <<o>> ELSE unreported[c]
        \/ \A c \in Workers : unreported'[c] = unreported[c]
    BY <1>2 DEF Actors
  <2>3. CASE IsMutant(s)
    <3>1. Cardinality(Recorded') = Cardinality(Recorded) + 1
      BY <1>3, <1>4, <1>5, <2>3, FS_AddElement
    <3>2. Waiting' \subseteq Waiting \cup {a} /\ (Waiting' = Waiting \/ Waiting' = Waiting \cup {a})
      <4>1. <<o>> # <<>>
        OBVIOUS
      <4> HIDE DEF o
      <4> QED BY <1>1, <2>3, <2>5, <4>1 DEF Waiting
    <3>3. Cardinality(Waiting \cup {a}) = Cardinality(Waiting) + 1
      BY <2>1, OneMore
    <3>4. counts.done + Cardinality(Waiting)' <= Cardinality(Recorded) + 1
      <4>1. Cardinality(Waiting') <= Cardinality(Waiting) + 1 /\ Cardinality(Waiting') \in Nat
        <5>1. Cardinality(Waiting') \in {Cardinality(Waiting), Cardinality(Waiting \cup {a})}
          BY <3>2
        <5> QED BY <2>2, <3>3, <5>1
      <4>2. counts.done + Cardinality(Waiting) <= Cardinality(Recorded)
        BY DEF DoneFits
      <4> QED BY <1>2, <1>3, <2>2, <4>1, <4>2
    <3> QED BY <3>1, <3>4 DEF DoneFits
  <2>4. CASE ~IsMutant(s)
    <3>1. Waiting' = Waiting
      BY <1>1, <2>4, <2>5 DEF Waiting
    <3> QED BY <1>4, <2>4, <3>1 DEF DoneFits
  <2> QED BY <2>3, <2>4
<1>7. CountsWhatIsRecorded'
  <2> SUFFICES ASSUME NEW b \in Bucket \ {"Success", "Timeout"}
               PROVE  labOutcome'.tally[b] - Unreported(b)' - counts'.tally[b] \in 0 .. faults'
    BY DEF CountsWhatIsRecorded
  <2> DEFINE own == IsMutant(s) /\ Summary(o) = b
  <2>1. labOutcome'.tally[b] = IF own THEN labOutcome.tally[b] + 1 ELSE labOutcome.tally[b]
    BY DEF Add
  <2>2. labOutcome.tally[b] \in Nat /\ counts.tally[b] \in Nat
    BY DEF IndInv, TypeOK, OutputTypeOK, LabOutcome, DisplayTypes, Summaries
  <2>3. Unreported(b) \in Nat /\ Unreported(b) = Cardinality(LateFor(b)) /\ LateFor(b) \in SUBSET Actors
    BY LateIs
  <2>4. labOutcome.tally[b] - Unreported(b) - counts.tally[b] \in 0 .. faults
    BY DEF CountsWhatIsRecorded
  <2>5. Unreported(b)' = Cardinality(LateFor(b)')
    BY DEF Unreported, LateFor
  <2>6. CASE UNCHANGED unreported /\ faults' = faults + 1
    <3>1. LateFor(b)' = LateFor(b)
      BY <2>6 DEF LateFor
    <3>2. Unreported(b)' = Unreported(b)
      BY <2>3, <2>5, <3>1
    <3> HIDE DEF own
    <3> QED BY <1>2, <2>1, <2>2, <2>3, <2>4, <2>6, <3>2, ShortBy
  <2>7. CASE unreported' = [unreported EXCEPT ![a] = <<job[a]>>]
    <3>1. a \notin LateFor(b)
      BY <1>1 DEF LateFor
    <3>2. \A c \in Actors : unreported'[c] = IF c = a THEN <<o>> ELSE unreported[c]
      BY <1>2, <2>7
    <3>3. LateFor(b)' = IF own THEN LateFor(b) \cup {a} ELSE LateFor(b)
      <4>1. (\E i \in DOMAIN <<o>> : IsMutant(<<o>>[i].scenario) /\ Summary(<<o>>[i]) = b) <=> own
        OBVIOUS
      <4> HIDE DEF o, own
      <4>2. a \in LateFor(b)' <=> own
        BY <3>2, <4>1 DEF LateFor
      <4>3. \A c \in Actors : c # a => (c \in LateFor(b)' <=> c \in LateFor(b))
        BY <3>2 DEF LateFor
      <4>4. LateFor(b)' \subseteq Actors
        BY DEF LateFor
      <4> QED BY <2>3, <3>1, <4>2, <4>3, <4>4
    <3>4. Cardinality(LateFor(b) \cup {a}) = Cardinality(LateFor(b)) + 1
      BY <2>3, <3>1, OneMore
    <3> HIDE DEF own
    <3>5. Unreported(b)' = IF own THEN Unreported(b) + 1 ELSE Unreported(b)
      BY <2>3, <2>5, <3>3, <3>4
    <3> QED BY <1>2, <2>1, <2>2, <2>3, <2>4, <3>5, ShortBy
  <2> QED BY <2>6, <2>7
<1> QED BY <1>6, <1>7

\* An outcome that is reported is counted, and no longer due.
LEMMA CountsReported ==
    ASSUME IndInv, DisplayInv, [Next]_vars, NEW a \in Actors, ReportOutcome(a)
    PROVE  DoneFits' /\ CountsWhatIsRecorded' /\ counts' \in [done : Nat,
    tally : [Summaries -> Nat]]
           /\ (counts'.done # counts.done => a \in Workers)
<1> USE DEF DisplayInv
<1> PICK o : o = unreported[a][1]
  OBVIOUS
<1>1. /\ unreported \in [Actors -> {<<>>} \cup {<<x>> : x \in ScenarioOutcome}]
      /\ counts \in [done : Nat, tally : [Summaries -> Nat]]
      /\ counts.done \in Nat /\ faults \in Nat /\ faults' \in Nat /\ faults <= faults'
  BY FaultsGrow DEF DisplayTypes
<1>2. o \in ScenarioOutcome /\ unreported[a] = <<o>> /\ unreported[a] # <<>>
  <2>1. unreported[a] # <<>>
    BY DEF ReportOutcome
  <2>2. PICK x \in ScenarioOutcome : unreported[a] = <<x>>
    BY <1>1, <2>1
  <2>3. unreported[a][1] = x
    BY <2>2
  <2> QED BY <2>1, <2>2, <2>3
<1>3. IsMutant(o.scenario) <=> a \in Workers
  <2>1. CASE a \in Workers
    BY <1>2, <2>1 DEF ReportsFit
  <2>2. CASE a = Main
    <3>1. <<job[Main]>> = <<o>>
      BY <1>2, <2>2 DEF ReportsFit
    <3>2. o = job[Main]
      BY <3>1
    <3> QED BY <2>2, <3>2 DEF IndInv, JobsFit, IsMutant, Main, Workers
  <2> QED BY <2>1, <2>2 DEF Actors
<1>4. ~IsMutant(o.scenario) => Summary(o) \in {"Success", "Timeout", "Failure"}
  <2>1. ASSUME ~IsMutant(o.scenario) PROVE o.skip = NotSkipped
    <3>1. a = Main
      BY <1>3, <2>1 DEF Actors
    <3>2. <<job[Main]>> = <<o>>
      BY <1>2, <3>1 DEF ReportsFit
    <3>3. o = job[Main]
      BY <3>2
    <3> QED BY <3>3 DEF ReportsFit
  <2> QED BY <2>1 DEF Summary, BaselineSummary
<1>5. Summary(o) \in Summaries
  BY <1>2, <1>4 DEF Summary, MutantSummary, Summaries, Bucket, ScenarioOutcome, SkipReason,
     NotSkipped
<1>6. /\ counts'.done = IF IsMutant(o.scenario) THEN counts.done + 1 ELSE counts.done
      /\ counts'.tally = [counts.tally EXCEPT ![Summary(o)] = @ + 1]
      /\ counts' = [done |-> counts'.done, tally |-> counts'.tally]
  <2>1. counts' = Counted(o)
    BY DEF ReportOutcome
  <2> QED BY <2>1 DEF Counted
<1>7. counts' \in [done : Nat, tally : [Summaries -> Nat]]
  <2>1. counts'.done \in Nat
    BY <1>1, <1>6
  <2>2. counts'.tally \in [Summaries -> Nat]
    BY <1>1, <1>5, <1>6
  <2> QED BY <1>6, <2>1, <2>2
<1>8. \A c \in Actors : unreported'[c] = IF c = a THEN <<>> ELSE unreported[c]
  BY <1>1 DEF ReportOutcome
<1>9. DoneFits'
  <2>1. Recorded' = Recorded /\ Cardinality(Recorded) \in Nat
    BY RecordedFinite DEF ReportOutcome, vars, output, Recorded
  <2>2. Waiting \in SUBSET Actors /\ Cardinality(Waiting) \in Nat
    BY WaitingFinite DEF Waiting, Actors
  <2>3. CASE a \in Workers
    <3>1. a \in Waiting /\ Waiting' = Waiting \ {a}
      BY <1>2, <1>8, <2>3 DEF Waiting, Actors
    <3>2. Cardinality(Waiting') = Cardinality(Waiting) - 1
      BY <2>2, <3>1, OneMore
    <3>3. counts'.done = counts.done + 1
      BY <1>3, <1>6, <2>3
    <3>4. counts.done + Cardinality(Waiting) <= Cardinality(Recorded)
      BY DEF DoneFits
    <3>5. counts'.done + Cardinality(Waiting') <= Cardinality(Recorded)
      BY <1>1, <2>1, <2>2, <3>2, <3>3, <3>4
    <3> QED BY <2>1, <3>5 DEF DoneFits
  <2>4. CASE a \notin Workers
    <3>1. Waiting' = Waiting
      BY <1>8, <2>4 DEF Waiting, Actors
    <3> QED BY <1>3, <1>6, <2>1, <2>4, <3>1 DEF DoneFits
  <2> QED BY <2>3, <2>4
<1>10. CountsWhatIsRecorded'
  <2> SUFFICES ASSUME NEW b \in Bucket \ {"Success", "Timeout"}
               PROVE  labOutcome'.tally[b] - Unreported(b)' - counts'.tally[b] \in 0 .. faults'
    BY DEF CountsWhatIsRecorded
  <2> DEFINE own == Summary(o) = b
  <2>1. labOutcome' = labOutcome
    BY DEF ReportOutcome, vars, output
  <2>2. labOutcome.tally[b] \in Nat /\ counts.tally[b] \in Nat
    BY DEF IndInv, TypeOK, OutputTypeOK, LabOutcome, DisplayTypes, Summaries
  <2>3. Unreported(b) \in Nat /\ Unreported(b) = Cardinality(LateFor(b)) /\ LateFor(b) \in SUBSET Actors
    BY LateIs
  <2>4. labOutcome.tally[b] - Unreported(b) - counts.tally[b] \in 0 .. faults
    BY DEF CountsWhatIsRecorded
  <2>5. Unreported(b)' = Cardinality(LateFor(b)')
    BY DEF Unreported, LateFor
  <2>6. own => IsMutant(o.scenario)
    <3>1. b \notin {"Success", "Timeout", "Failure"}
      BY DEF Bucket
    <3> QED BY <1>4, <3>1
  <2>7. a \in LateFor(b) <=> own
    <3>1. (\E i \in DOMAIN <<o>> : IsMutant(<<o>>[i].scenario) /\ Summary(<<o>>[i]) = b) <=> own
      BY <2>6
    <3> HIDE DEF own
    <3> QED BY <1>2, <3>1 DEF LateFor
  <2>8. LateFor(b)' = LateFor(b) \ {a}
    <3>1. a \notin LateFor(b)'
      <4>1. DOMAIN unreported'[a] = {}
        BY <1>8
      <4> QED BY <4>1 DEF LateFor
    <3>2. \A c \in Actors : c # a => (c \in LateFor(b)' <=> c \in LateFor(b))
      BY <1>8 DEF LateFor
    <3>3. LateFor(b)' \subseteq Actors
      BY DEF LateFor
    <3> QED BY <2>3, <3>1, <3>2, <3>3
  <2>9. counts'.tally[b] = IF own THEN counts.tally[b] + 1 ELSE counts.tally[b]
    BY <1>1, <1>5, <1>6 DEF Summaries
  <2>10. CASE own
    <3>1. Cardinality(LateFor(b) \ {a}) = Cardinality(LateFor(b)) - 1
      BY <2>3, <2>7, <2>10, OneMore
    <3>2. Unreported(b)' = Unreported(b) - 1 /\ counts'.tally[b] = counts.tally[b] + 1
      BY <2>3, <2>5, <2>8, <2>9, <2>10, <3>1
    <3> QED BY <1>1, <2>1, <2>2, <2>3, <2>4, <3>2, ShortBy
  <2>11. CASE ~own
    <3>1. LateFor(b)' = LateFor(b)
      BY <2>7, <2>8, <2>11
    <3>2. Unreported(b)' = Unreported(b) /\ counts'.tally[b] = counts.tally[b]
      BY <2>3, <2>5, <2>9, <2>11, <3>1
    <3> QED BY <1>1, <2>1, <2>2, <2>3, <2>4, <3>2, ShortBy
  <2> QED BY <2>10, <2>11
<1> QED BY <1>3, <1>6, <1>7, <1>9, <1>10

-----------------------------------------------------------------------------
(* What is shown *)

\* The parts of the lab's state that the display's calls look at.
LEMMA LabFacts ==
    ASSUME IndInv
    PROVE  /\ pc \in [Actors -> Location] /\ job \in [Actors -> ScenarioOutcome]
           /\ dir \in [Actors -> BuildDirs \cup {NoDir}]
           /\ Actors = {Main} \cup Workers /\ BuildDirs = {0} \cup Workers
           /\ Main = 0 /\ 0 \notin Workers /\ NoDir \notin BuildDirs
BY DEF IndInv, TypeOK, ThreadsTypeOK, Actors, BuildDirs, Workers, Main, NoDir

\* A thread in a scenario has a directory, and no other has it.
LEMMA Apart ==
    ASSUME IndInv, NEW a \in Actors, pc[a] \in InScenario
    PROVE  /\ dir[a] \in BuildDirs
           /\ \A b \in Actors : b # a /\ pc[b] \in InScenario \cup {"queue"} => dir[b] # dir[a]
           /\ \A w \in Workers : w # a => dir[a] # w
           /\ a = Main => dir[a] = 0 /\ stage = "baseline" /\ \A w \in Workers : pc[w] = "new"
           /\ a # Main => /\ a \in Workers /\ stage \notin {"setup", "baseline"}
                          /\ pc[Main] \notin InScenario
<1>1. a = Main => dir[a] = 0 /\ stage = "baseline" /\ \A w \in Workers : pc[w] = "new"
  BY DEF IndInv, DirsOwned, StagesInOrder
<1>2. a # Main => a \in Workers /\ stage \notin {"setup", "baseline"} /\ pc[Main] \notin InScenario
  <2>1. a # Main => a \in Workers
    BY DEF Actors
  <2>2. "new" \notin InScenario
    BY DEF InScenario
  <2> QED BY <2>1, <2>2 DEF IndInv, StagesInOrder
<1>3. dir[a] \in BuildDirs
  <2>1. a \in Workers => dir[a] # NoDir
    BY DEF IndInv, DirsOwned
  <2> QED BY <1>1, <1>2, <2>1, LabFacts
<1>4. ASSUME NEW b \in Actors, b # a, pc[b] \in InScenario \cup {"queue"} PROVE dir[b] # dir[a]
  <2>1. "new" \notin InScenario \cup {"queue"}
    BY DEF InScenario
  <2>2. a # Main
    BY <1>1, <1>4, <2>1, LabFacts
  <2>3. b # Main
    BY <1>2, <1>4, <2>2 DEF IndInv, JobsFit
  <2>4. a \in Workers /\ b \in Workers /\ dir[a] # NoDir
    BY <2>2, <2>3, <1>3, LabFacts
  <2> QED BY <1>4, <2>4, DirsDiffer
<1>5. ASSUME NEW w \in Workers, w # a PROVE dir[a] # w
  <2>1. CASE a = Main
    BY <1>1, <2>1, LabFacts
  <2>2. CASE a # Main
    BY <1>2, <1>3, <1>5, <2>2, LabFacts, DirsDiffer
  <2> QED BY <2>1, <2>2
<1> QED BY <1>1, <1>2, <1>3, <1>4, <1>5

\* A step of a scenario changes what is shown for its own directory at most.
LEMMA ScenarioModels ==
    ASSUME IndInv, DisplayInv, NEW a \in Actors, RunScenario(a),
           models' \in [BuildDirs -> Seq(Phase \cup {Idleness})],
           \A e \in BuildDirs : e # dir[a] => models'[e] = models[e],
           Len(models'[dir[a]]) <= 1,
           \A b \in Actors : b # a => unreported'[b] = unreported[b],
           ShownTo(a)',
           pc'[a] = "queue" /\ unreported'[a] = <<>> => models'[dir[a]] = <<>>,
           pc'[a] = "done" => unreported'[a] # <<>>
    PROVE  ModelsFit'
<1> USE DEF DisplayInv, ModelsFit
<1>1. /\ UNCHANGED <<dir, stage, options>>
      /\ \A b \in Actors : b # a => pc'[b] = pc[b] /\ job'[b] = job[b]
  BY Footprint
<1>2. pc[a] \in InScenario
  BY DEF RunScenario, StartScenario, ScenarioFails, SkipUncovered, ApplyMutant, CargoEnds,
     CargoErrs,
         NewBuild, EquivalentBuild, EquivalentFails, Revert, RevertFails, FinishScenario,
         FinishFails,
         FailsAt, InScenario
<1>3. /\ dir[a] \in BuildDirs
      /\ \A b \in Actors : b # a /\ pc[b] \in InScenario \cup {"queue"} => dir[b] # dir[a]
      /\ \A w \in Workers : w # a => dir[a] # w
      /\ a = Main => dir[a] = 0 /\ stage = "baseline" /\ \A w \in Workers : pc[w] = "new"
      /\ a # Main => /\ a \in Workers /\ stage \notin {"setup", "baseline"}
                     /\ pc[Main] \notin InScenario
  BY <1>2, Apart
<1>4. \A d \in BuildDirs : Len(models'[d]) <= 1
  OBVIOUS
<1>5. ASSUME NEW b \in Actors PROVE ShownTo(b)'
  <2>1. CASE b = a
    BY <2>1
  <2>2. CASE b # a
    <3>1. /\ pc'[b] = pc[b] /\ dir'[b] = dir[b] /\ CurrentPhase(b)' = CurrentPhase(b)
          /\ "start" \in InScenario /\ "cargo" \in InScenario
      BY <1>1, <2>2 DEF CurrentPhase, Phases, InScenario
    <3>2. pc[b] \in InScenario => models'[dir[b]] = models[dir[b]]
      <4>1. pc[b] \in InScenario => dir[b] # dir[a] /\ dir[b] \in BuildDirs
        BY <1>3, <2>2, Apart
      <4> QED BY <4>1
    <3>3. ShownTo(b)
      OBVIOUS
    <3> QED BY <3>1, <3>2, <3>3 DEF ShownTo
  <2> QED BY <2>1, <2>2
<1>6. ASSUME NEW w \in Workers PROVE ClearedBy(w)'
  <2>1. ClearedBy(w) /\ w \in Actors /\ w \in BuildDirs
    BY LabFacts
  <2>2. CASE w = a
    <3>1. dir'[w] # w => models'[w] = <<>>
      BY <1>1, <2>1, <2>2 DEF ClearedBy
    <3> QED BY <1>1, <2>2, <3>1 DEF ClearedBy
  <2>3. CASE w # a
    <3>1. pc'[w] = pc[w] /\ dir'[w] = dir[w] /\ unreported'[w] = unreported[w] /\ models'[w] = models[w]
      BY <1>1, <1>3, <2>1, <2>3
    <3>2. pc[w] = "queue" => models'[dir[w]] = models[dir[w]]
      <4>1. pc[w] = "queue" => dir[w] # dir[a] /\ dir[w] \in BuildDirs
        BY <1>3, <2>1, <2>3, LabFacts DEF IndInv, DirsOwned
      <4> QED BY <4>1
    <3> QED BY <2>1, <3>1, <3>2 DEF ClearedBy
  <2> QED BY <2>2, <2>3
<1>7. BaselineCleared' => models'[0] = <<>>
  <2>1. CASE a = Main
    <3>1. ~BaselineCleared'
      BY <1>1, <1>3, <2>1 DEF BaselineCleared
    <3> QED BY <3>1
  <2>2. CASE a # Main
    <3>1. BaselineCleared' => stage = "testing" /\ Dir0Free
      BY <1>1, <1>3, <2>2 DEF BaselineCleared, Dir0Free
    <3>2. Dir0Free => dir[a] # 0
      BY <1>3, <2>2 DEF Dir0Free
    <3>3. 0 \in BuildDirs
      BY LabFacts
    <3> QED BY <3>1, <3>2, <3>3 DEF BaselineCleared
  <2> QED BY <2>1, <2>2
<1> QED BY <1>4, <1>5, <1>6, <1>7

\* The baseline is never skipped.
LEMMA BaselineRuns ==
    ASSUME IndInv, job[Main].skip = NotSkipped, NEW a \in Actors, RunScenario(a)
    PROVE  job'[Main].skip = NotSkipped
<1>1. CASE a # Main
  BY <1>1, Footprint, LabFacts
<1>2. CASE a = Main
  <2>1. pc[Main] \notin {"diff", "equiv"}
    BY DEF IndInv, JobsFit
  <2>2. CASE job' = job
    BY <2>2
  <2>3. CASE CargoEnds(a)
    <3>1. PICK e : job' = [job EXCEPT ![a] = AddPhaseResult(@, CurrentPhase(a), e)]
      BY <2>3 DEF CargoEnds
    <3>2. job'[Main] = AddPhaseResult(job[Main], CurrentPhase(a), e) /\ job[Main] \in ScenarioOutcome
      BY <1>2, <3>1, LabFacts
    <3> QED BY <3>2 DEF AddPhaseResult, ScenarioOutcome
  <2>4. job' = job \/ CargoEnds(a)
    BY <1>2, <2>1 DEF RunScenario, StartScenario, ScenarioFails, SkipUncovered, ApplyMutant,
       CargoErrs,
         NewBuild, EquivalentBuild, EquivalentFails, Revert, RevertFails, FinishScenario,
         FinishFails, Leave
  <2> QED BY <2>2, <2>3, <2>4
<1> QED BY <1>1, <1>2

\* A thread in a scenario has reported all that it had recorded.
LEMMA ScenarioReports ==
    ASSUME IndInv, ThreadsJoined, DisplayInv, NEW a \in Actors, RunScenario(a),
           \/ UNCHANGED unreported
           \/ /\ FinishScenario(a) \/ FinishFails(a)
              /\ unreported' = [unreported EXCEPT ![a] = <<job[a]>>]
    PROVE  ReportsFit'
<1> USE DEF DisplayInv, ReportsFit
<1>1. /\ UNCHANGED <<dir, stage>>
      /\ \A b \in Actors : b # a => pc'[b] = pc[b] /\ job'[b] = job[b]
  BY Footprint
<1>2. pc[a] \in InScenario
  BY DEF RunScenario, StartScenario, ScenarioFails, SkipUncovered, ApplyMutant, CargoEnds,
     CargoErrs,
         NewBuild, EquivalentBuild, EquivalentFails, Revert, RevertFails, FinishScenario,
         FinishFails,
         FailsAt, InScenario
<1>3. /\ a = Main => dir[a] = 0 /\ stage = "baseline" /\ \A w \in Workers : pc[w] = "new"
      /\ a # Main => /\ a \in Workers /\ stage \notin {"setup", "baseline"}
                     /\ pc[Main] \notin InScenario
                     /\ stage = "testing" /\ dir[a] # NoDir
  <2>1. a \in Workers => stage = "testing" /\ dir[a] # NoDir
    BY <1>2, WorkersTest DEF IndInv, DirsOwned
  <2> QED BY <1>2, <2>1, Apart
<1>4. unreported[a] = <<>>
  <2>1. "done" \notin InScenario /\ "queue" \notin InScenario /\ "failed" \notin InScenario
    BY DEF InScenario
  <2> QED BY <1>2, <1>3, <2>1
<1>5. job'[Main].skip = NotSkipped
  BY BaselineRuns
<1>6. unreported \in [Actors -> {<<>>} \cup {<<o>> : o \in ScenarioOutcome}]
  BY DEF DisplayTypes
<1>7. CASE UNCHANGED unreported
  <2>1. unreported'[Main] # <<>> =>
          /\ stage' = "baseline" /\ pc'[Main] \in {"done", "failed"} /\ dir'[Main] = 0
          /\ unreported'[Main] = <<job'[Main]>>
    BY <1>1, <1>3, <1>4, <1>7, LabFacts
  <2>2. ASSUME NEW w \in Workers, unreported'[w] # <<>>
        PROVE  /\ stage' = "testing" /\ pc'[w] \in {"queue", "failed"} /\ dir'[w] # NoDir
               /\ IsMutant(unreported'[w][1].scenario)
    BY <1>1, <1>4, <1>7, <2>2, LabFacts
  <2> QED BY <1>5, <2>1, <2>2
<1>8. CASE /\ FinishScenario(a) \/ FinishFails(a)
           /\ unreported' = [unreported EXCEPT ![a] = <<job[a]>>]
  <2>1. \A b \in Actors : unreported'[b] = IF b = a THEN <<job[a]>> ELSE unreported[b]
    BY <1>6, <1>8
  <2>2. pc'[a] \in {IF a = Main THEN "done" ELSE "queue", "failed"}
    BY <1>8, LabFacts DEF FinishScenario, FinishFails, FailsAt, Goto
  <2>3. a = Main => job'[a] = job[a]
    BY <1>8 DEF FinishScenario, FinishFails, Leave
  <2>4. a \in Workers => IsMutant(job[a].scenario)
    BY <1>2 DEF IndInv, JobsFit, HasMutant
  <2>5. unreported'[Main] # <<>> =>
          /\ stage' = "baseline" /\ pc'[Main] \in {"done", "failed"} /\ dir'[Main] = 0
          /\ unreported'[Main] = <<job'[Main]>>
    BY <1>1, <1>3, <2>1, <2>2, <2>3, LabFacts
  <2>6. ASSUME NEW w \in Workers, unreported'[w] # <<>>
        PROVE  /\ stage' = "testing" /\ pc'[w] \in {"queue", "failed"} /\ dir'[w] # NoDir
               /\ IsMutant(unreported'[w][1].scenario)
    <3>1. CASE w = a
      <4>1. w # Main
        BY LabFacts
      <4>2. pc'[w] \in {"queue", "failed"} /\ unreported'[w] = <<job[a]>>
        BY <2>1, <2>2, <3>1, <4>1, LabFacts
      <4>3. unreported'[w][1] = job[a]
        BY <4>2
      <4>4. stage' = "testing" /\ dir'[w] # NoDir
        BY <1>1, <1>3, <3>1, <4>1
      <4> QED BY <2>4, <3>1, <4>2, <4>3, <4>4
    <3>2. CASE w # a
      BY <1>1, <2>1, <2>6, <3>2, LabFacts
    <3> QED BY <3>1, <3>2
  <2> QED BY <1>5, <2>5, <2>6
<1> QED BY <1>7, <1>8

\* The first model of a directory that has one, or none.
LEMMA OneModel ==
    ASSUME NEW ms \in Seq(Phase \cup {Idleness}), Len(ms) <= 1, NEW p \in Phase \cup {Idleness}
    PROVE  /\ ms = <<>> => Push(ms) = <<Idleness>> /\ ShowPhase(Push(ms), p) = <<p>>
           /\ ms # <<>> => ShowPhase(ms, p) = <<p>>
           /\ <<p>> \in Seq(Phase \cup {Idleness}) /\ <<p>> # <<>> /\ Len(<<p>>) = 1 /\ <<p>>[1] = p
<1>1. <<p>> \in Seq(Phase \cup {Idleness}) /\ <<p>> # <<>> /\ Len(<<p>>) = 1 /\ <<p>>[1] = p
  OBVIOUS
<1>2. ms = <<>> => Push(ms) = <<Idleness>> /\ ShowPhase(Push(ms), p) = <<p>>
  BY DEF Push, ShowPhase
<1>3. ASSUME ms # <<>> PROVE ShowPhase(ms, p) = <<p>>
  <2>1. Len(ms) = 1 /\ DOMAIN ms = {1}
    <3>1. Len(ms) \in Nat /\ DOMAIN ms = 1 .. Len(ms)
      OBVIOUS
    <3>2. Len(ms) # 0
      BY <1>3
    <3> QED BY <3>1, <3>2
  <2>2. ShowPhase(ms, p) \in Seq(Phase \cup {Idleness}) /\ Len(ShowPhase(ms, p)) = 1
    BY <2>1 DEF ShowPhase
  <2>3. ShowPhase(ms, p)[1] = p
    BY <2>1 DEF ShowPhase
  <2> HIDE DEF ShowPhase
  <2> QED BY <2>2, <2>3
<1> QED BY <1>1, <1>2, <1>3

\* A phase that is next is one of the phases.
LEMMA NextPhase ==
    ASSUME NEW n \in Nat, n < Len(Phases)
    PROVE  Phases[n + 1] \in Phase
BY DEF Phases, Phase

\* What one directory shows is replaced by p.
LEMMA Replaced ==
    ASSUME DisplayTypes, NEW d \in BuildDirs, NEW ms \in Seq(Phase \cup {Idleness}),
           models' = [models EXCEPT ![d] = ms]
    PROVE  /\ models' \in [BuildDirs -> Seq(Phase \cup {Idleness})]
           /\ models'[d] = ms
           /\ \A e \in BuildDirs : e # d => models'[e] = models[e]
BY DEF DisplayTypes

\* A scenario starts with a new model in a directory that shows nothing.
LEMMA StartModels ==
    ASSUME IndInv, IndInv', DisplayInv, NEW a \in Actors, StartScenarioReported(a)
    PROVE  ModelsFit' /\ models' \in [BuildDirs -> Seq(Phase \cup {Idleness})]
<1> USE DEF DisplayInv
<1>1. /\ pc[a] = "start" /\ UNCHANGED <<dir, job,
                                        options>> /\ StartScenario(a) /\ UNCHANGED unreported
      /\ pc'[a] = IF HasMutant(a) THEN "diff" ELSE "cargo"
  BY LabFacts DEF StartScenarioReported, StartScenario, Goto, lab
<1>2. dir[a] \in BuildDirs
  BY <1>1, Apart DEF InScenario
<1>3. /\ models[dir[a]] = <<>> /\ models[dir[a]] \in Seq(Phase \cup {Idleness})
      /\ Len(models[dir[a]]) <= 1
  BY <1>1, <1>2 DEF ModelsFit, ShownTo, DisplayTypes
<1>4. CurrentPhase(a)' = CurrentPhase(a) /\ HasMutant(a)' = HasMutant(a)
  BY <1>1 DEF CurrentPhase, Phases, HasMutant
<1>5. CurrentPhase(a) \in Phase
  <2>1. job[a].results = <<>>
    BY <1>1 DEF IndInv, JobsFit
  <2> QED BY <2>1 DEF CurrentPhase, Phases, Phase
<1> DEFINE p == IF HasMutant(a) THEN Idleness ELSE CurrentPhase(a)
<1>6. p \in Phase \cup {Idleness}
  BY <1>5
<1>7. models' = [models EXCEPT ![dir[a]] = <<p>>]
  <2>1. models' = [models EXCEPT ![dir[a]] = IF HasMutant(a) THEN Push(models[dir[a]])
                                             ELSE ShowPhase(Push(models[dir[a]]), CurrentPhase(a))]
    BY DEF StartScenarioReported
  <2>2. Idleness \in Phase \cup {Idleness}
    OBVIOUS
  <2> QED BY <1>3, <1>5, <2>1, <2>2, OneModel
<1>8. ~HasMutant(a) => p = CurrentPhase(a)
  OBVIOUS
<1> HIDE DEF p
<1>9. /\ models' \in [BuildDirs -> Seq(Phase \cup {Idleness})] /\ models'[dir[a]] = <<p>>
      /\ \A e \in BuildDirs : e # dir[a] => models'[e] = models[e]
  <2>1. <<p>> \in Seq(Phase \cup {Idleness})
    BY <1>6
  <2> QED BY <1>2, <1>7, <2>1, Replaced
<1>10. <<p>> # <<>> /\ Len(<<p>>) <= 1
  OBVIOUS
<1>11. ShownTo(a)'
  <2>1. models'[dir'[a]] = <<p>>
    BY <1>1, <1>9
  <2> QED BY <1>1, <1>4, <1>8, <1>10, <2>1 DEF ShownTo
<1>12. RunScenario(a)
  BY <1>1 DEF RunScenario
<1> QED BY <1>1, <1>9, <1>10, <1>11, <1>12, ScenarioModels

\* The call at the start or the end of a phase finds its model, in that phase.
LEMMA PhaseModels ==
    ASSUME IndInv, IndInv', DisplayInv, NEW a \in Actors, PhaseBegins(a) \/ PhaseEnds(a)
    PROVE  ModelsFit' /\ models' \in [BuildDirs -> Seq(Phase \cup {Idleness})] /\ "display" \notin panicked'
<1> USE DEF DisplayInv
<1>1. /\ pc[a] \in InScenario \ {"start"} /\ RunScenario(a) /\ UNCHANGED <<dir, options,
                                                                           unreported>>
  BY DEF PhaseBegins, PhaseEnds, ApplyMutant, NewBuild, CargoEnds, RunScenario, InScenario, lab
<1>2. dir[a] \in BuildDirs
  BY <1>1, Apart
<1>3. /\ models[dir[a]] # <<>> /\ models[dir[a]] \in Seq(Phase \cup {Idleness})
      /\ Len(models[dir[a]]) <= 1
  BY <1>1, <1>2 DEF ModelsFit, ShownTo, DisplayTypes
<1>4. ASSUME NEW p \in Phase \cup {Idleness},
             models' = [models EXCEPT ![dir[a]] = ShowPhase(@, p)],
             pc'[a] \notin {"start", "queue", "done"}, pc'[a] = "cargo" => p = CurrentPhase(a)'
      PROVE  ModelsFit' /\ models' \in [BuildDirs -> Seq(Phase \cup {Idleness})]
  <2>1. models' = [models EXCEPT ![dir[a]] = <<p>>]
    BY <1>3, <1>4, OneModel
  <2>2. /\ models' \in [BuildDirs -> Seq(Phase \cup {Idleness})] /\ models'[dir[a]] = <<p>>
        /\ \A e \in BuildDirs : e # dir[a] => models'[e] = models[e]
    <3>1. <<p>> \in Seq(Phase \cup {Idleness})
      OBVIOUS
    <3> QED BY <1>2, <2>1, <3>1, Replaced
  <2>3. <<p>> # <<>> /\ Len(<<p>>) <= 1
    OBVIOUS
  <2>4. ShownTo(a)'
    <3>1. models'[dir'[a]] = <<p>>
      BY <1>1, <2>2
    <3> QED BY <1>4, <2>3, <3>1 DEF ShownTo
  <2> QED BY <1>1, <1>4, <2>2, <2>3, <2>4, ScenarioModels
<1>5. ASSUME pc'[a] = "cargo"
      PROVE  Phases[Len(job'[a].results) + 1] \in Phase /\ CurrentPhase(a)' = Phases[Len(job'[a].results) + 1]
  <2>1. Phases' = Phases
    BY <1>1 DEF Phases
  <2>2. job'[a] \in ScenarioOutcome /\ Len(job'[a].results) < Len(Phases)
    BY <1>5, <2>1 DEF IndInv, JobsFit, TypeOK, ThreadsTypeOK
  <2>3. Len(job'[a].results) \in Nat
    BY <2>2 DEF ScenarioOutcome
  <2> HIDE DEF Phases
  <2> QED BY <2>1, <2>2, <2>3, NextPhase DEF CurrentPhase
<1>6. CASE PhaseBegins(a)
  <2>1. /\ job'[a] = job[a] /\ pc'[a] = "cargo"
    BY <1>6, LabFacts DEF PhaseBegins, ApplyMutant, NewBuild, Goto
  <2>2. CurrentPhase(a)' = CurrentPhase(a)
    BY <1>1, <2>1 DEF CurrentPhase, Phases
  <2>3. CurrentPhase(a) \in Phase
    BY <1>5, <2>1, <2>2
  <2>4. models' = [models EXCEPT ![dir[a]] = ShowPhase(@, CurrentPhase(a))] /\ "display" \notin panicked'
    BY <1>3, <1>6 DEF PhaseBegins, PhaseStarted, Expect
  <2> QED BY <1>4, <2>1, <2>2, <2>3, <2>4
<1>7. CASE PhaseEnds(a)
  <2> DEFINE next == IF pc'[a] = "cargo" THEN Phases[Len(job'[a].results) + 1] ELSE Idleness
  <2>1. pc[a] = "cargo" /\ pc'[a] \in {"equiv", "cargo", "revert", "finish"}
    <3>1. PICK e : Goto(a, AfterPhase(a, e)) /\ pc[a] = "cargo"
      BY <1>7 DEF PhaseEnds, CargoEnds
    <3> QED BY <3>1, LabFacts DEF Goto, AfterPhase
  <2>2. pc'[a] = "cargo" => next = CurrentPhase(a)'
    BY <1>1 DEF CurrentPhase, Phases
  <2>3. next \in Phase \cup {Idleness}
    BY <1>5
  <2>4. models[dir[a]] = <<CurrentPhase(a)>>
    BY <2>1 DEF ModelsFit, ShownTo
  <2>5. models[dir[a]][1] = CurrentPhase(a)
    BY <2>4
  <2>6. models' = [models EXCEPT ![dir[a]] = ShowPhase(@, next)] /\ "display" \notin panicked'
    BY <1>3, <1>7, <2>5 DEF PhaseEnds, PhaseFinished, Expect
  <2> HIDE DEF next
  <2> QED BY <1>4, <2>1, <2>2, <2>3, <2>6
<1> QED BY <1>6, <1>7

\* A scenario's other steps leave its model where it is.
LEMMA QuietModels ==
    ASSUME IndInv, DisplayInv, NEW a \in Actors, FinishRecorded(a) \/ ScenarioUnreported(a)
    PROVE  ModelsFit'
<1> USE DEF DisplayInv
<1>1. RunScenario(a) /\ UNCHANGED models /\ pc[a] \in InScenario /\ UNCHANGED dir
  BY DEF FinishRecorded, ScenarioUnreported, RunScenario, console, ScenarioFails, SkipUncovered,
     CargoErrs,
         EquivalentBuild, EquivalentFails, Revert, RevertFails, FinishScenario, FinishFails,
         FailsAt, InScenario
<1>2. dir[a] \in BuildDirs
  BY <1>1, Apart
<1>3. unreported \in [Actors -> {<<>>} \cup {<<o>> : o \in ScenarioOutcome}]
  BY DEF DisplayTypes
<1>4. \A b \in Actors : b # a => unreported'[b] = unreported[b]
  BY <1>3 DEF FinishRecorded, ScenarioUnreported, console
<1>5. ShownTo(a)' /\ pc'[a] \notin {"start", "cargo"} /\ (pc'[a] \in {"queue", "done"} => FinishRecorded(a))
  <2>1. /\ pc'[a] \notin {"start", "cargo"} /\ (pc'[a] \in {"queue", "done"} => FinishRecorded(a))
        /\ pc'[a] \in InScenario => pc[a] \in InScenario \ {"start"}
    <3>1. CASE FinishRecorded(a)
      <4>1. pc'[a] \in {"done", "queue", "failed"}
        BY <3>1, LabFacts DEF FinishRecorded, FinishScenario, FinishFails, FailsAt, Goto
      <4> QED BY <3>1, <4>1 DEF InScenario
    <3>2. CASE pc[a] # "start" /\ pc'[a] \in {"failed", "finish", "revert", "revertErr"}
      BY <1>1, <3>2
    <3>3. CASE pc'[a] = "failed"
      BY <3>3 DEF InScenario
    <3>4. ScenarioUnreported(a) =>
             \/ pc'[a] = "failed"
             \/ pc[a] # "start" /\ pc'[a] \in {"failed", "finish", "revert", "revertErr"}
      BY LabFacts DEF ScenarioUnreported, Goto, ScenarioFails, SkipUncovered, CargoErrs, AfterError,
         EquivalentBuild, EquivalentFails, Revert, RevertFails, FinishFails, FailsAt
    <3> QED BY <3>1, <3>2, <3>3, <3>4
  <2>2. ShownTo(a)
    BY DEF ModelsFit
  <2> QED BY <1>1, <2>1, <2>2 DEF ShownTo
<1>6. FinishRecorded(a) => unreported'[a] # <<>>
  <2>1. FinishRecorded(a) => unreported'[a] = <<job[a]>>
    BY <1>3 DEF FinishRecorded
  <2> QED BY <2>1
<1>7. models' \in [BuildDirs -> Seq(Phase \cup {Idleness})] /\ Len(models'[dir[a]]) <= 1
  BY <1>1, <1>2 DEF ModelsFit, DisplayTypes
<1> QED BY <1>1, <1>4, <1>5, <1>6, <1>7, ScenarioModels

\* A report takes away the model of a directory in which no scenario runs.
LEMMA ReportModels ==
    ASSUME IndInv, DisplayInv, NEW a \in Actors, ReportOutcome(a)
    PROVE  ModelsFit' /\ ReportsFit' /\ models' \in [BuildDirs -> Seq(Phase \cup {Idleness})]
           /\ unreported' \in [Actors -> {<<>>} \cup {<<o>> : o \in ScenarioOutcome}]
<1> USE DEF DisplayInv
<1>1. /\ UNCHANGED <<stage, options, pc, job, dir>>
      /\ unreported[a] # <<>>
      /\ models' = [models EXCEPT ![dir[a]] = <<>>]
      /\ unreported' = [unreported EXCEPT ![a] = <<>>]
  BY DEF ReportOutcome, Removed, vars, lab, threads
<1>2. /\ unreported \in [Actors -> {<<>>} \cup {<<o>> : o \in ScenarioOutcome}]
      /\ models \in [BuildDirs -> Seq(Phase \cup {Idleness})]
  BY DEF DisplayTypes
<1>3. /\ a = Main => stage = "baseline" /\ pc[Main] \in {"done", "failed"} /\ dir[Main] = 0
      /\ a # Main => a \in Workers /\ pc[a] \in {"queue", "failed"} /\ dir[a] # NoDir
      /\ dir[a] \in BuildDirs
  <2>1. a = Main => stage = "baseline" /\ pc[Main] \in {"done", "failed"} /\ dir[Main] = 0
    BY <1>1 DEF ReportsFit
  <2>2. a # Main => a \in Workers /\ pc[a] \in {"queue", "failed"} /\ dir[a] # NoDir
    BY <1>1 DEF ReportsFit, Actors
  <2>3. dir[a] \in BuildDirs
    BY <2>1, <2>2, LabFacts
  <2> QED BY <2>1, <2>2, <2>3
<1>4. \A e \in BuildDirs : models'[e] = IF e = dir[a] THEN <<>> ELSE models[e]
  BY <1>1, <1>2
<1>5. \A b \in Actors : unreported'[b] = IF b = a THEN <<>> ELSE unreported[b]
  BY <1>1, <1>2
<1>6. \A d \in BuildDirs : Len(models'[d]) <= 1
  BY <1>4 DEF ModelsFit
<1>7. ASSUME NEW b \in Actors PROVE ShownTo(b)'
  <2>1. pc[b] \in InScenario => dir[b] \in BuildDirs /\ dir[b] # dir[a]
    <3>1. SUFFICES ASSUME pc[b] \in InScenario PROVE dir[b] \in BuildDirs /\ dir[b] # dir[a]
      OBVIOUS
    <3>2. {"queue", "done", "failed", "new"} \cap InScenario = {}
      BY DEF InScenario
    <3>3. a # b
      BY <1>3, <3>1, <3>2
    <3>4. a # Main
      BY <1>3, <3>1, <3>2, <3>3, LabFacts DEF IndInv, StagesInOrder
    <3>5. b # Main
      BY <1>1, <1>3, <3>1, <3>4, LabFacts DEF IndInv, StagesInOrder, ReportsFit
    <3> QED BY <1>3, <3>1, <3>3, <3>4, <3>5, LabFacts, DirsDiffer, Apart
  <2>2. ShownTo(b) /\ CurrentPhase(b)' = CurrentPhase(b) /\ "start" \in InScenario /\ "cargo" \in InScenario
    BY <1>1 DEF ModelsFit, CurrentPhase, Phases, InScenario
  <2> QED BY <1>1, <1>4, <2>1, <2>2 DEF ShownTo
<1>8. ASSUME NEW w \in Workers PROVE ClearedBy(w)'
  <2>1. ClearedBy(w) /\ w \in Actors /\ w \in BuildDirs
    BY LabFacts DEF ModelsFit
  <2>2. pc[w] = "queue" => dir[w] \in BuildDirs
    BY LabFacts DEF IndInv, DirsOwned
  <2>3. dir'[w] # w => models'[w] = <<>>
    BY <1>1, <1>4, <2>1 DEF ClearedBy
  <2>4. pc'[w] = "queue" /\ unreported'[w] = <<>> => models'[dir'[w]] = <<>>
    BY <1>1, <1>4, <1>5, <2>1, <2>2 DEF ClearedBy
  <2> QED BY <2>3, <2>4 DEF ClearedBy
<1>9. BaselineCleared' => models'[0] = <<>>
  <2>1. 0 \in BuildDirs
    BY LabFacts
  <2>2. CASE a = Main
    BY <1>3, <1>4, <2>1, <2>2
  <2>3. CASE a # Main
    <3>1. BaselineCleared' => BaselineCleared
      BY <1>1, <1>5, <2>3, LabFacts DEF BaselineCleared, Dir0Free
    <3> QED BY <1>4, <2>1, <3>1 DEF ModelsFit
  <2> QED BY <2>2, <2>3
<1>10. ReportsFit'
  <2>1. unreported'[Main] # <<>> => unreported'[Main] = unreported[Main]
    BY <1>5, LabFacts
  <2>2. \A w \in Workers : unreported'[w] # <<>> => unreported'[w] = unreported[w]
    BY <1>5, LabFacts
  <2> QED BY <1>1, <2>1, <2>2 DEF ReportsFit
<1>11. models' \in [BuildDirs -> Seq(Phase \cup {Idleness})]
  <2>1. <<>> \in Seq(Phase \cup {Idleness})
    OBVIOUS
  <2> QED BY <1>1, <1>2, <2>1
<1> QED BY <1>1, <1>2, <1>6, <1>7, <1>8, <1>9, <1>10, <1>11 DEF ModelsFit

\* Steps that neither start the clock nor count leave it right.
LEMMA ClockKept ==
    ASSUME DisplayInv, stage' = stage \/ stage' \in Ended, UNCHANGED timing,
           counts'.done = counts.done
    PROVE  ClockFits'
BY DEF DisplayInv, ClockFits, Ended

\* Every step of a scenario keeps the display right.
LEMMA ScenarioDisplays ==
    ASSUME IndInv, IndInv', ThreadsJoined, EachMutantOnce, DisplayInv, [Next]_vars,
           NEW a \in Actors, ScenarioReported(a)
    PROVE  DisplayInv'
<1>1. CASE ReportOutcome(a)
  <2>1. /\ ModelsFit' /\ ReportsFit' /\ models' \in [BuildDirs -> Seq(Phase \cup {Idleness})]
        /\ unreported' \in [Actors -> {<<>>} \cup {<<o>> : o \in ScenarioOutcome}]
    BY <1>1, ReportModels
  <2>2. /\ DoneFits' /\ CountsWhatIsRecorded' /\ counts' \in [done : Nat, tally : [Summaries -> Nat]]
        /\ (counts'.done # counts.done => a \in Workers)
    BY <1>1, CountsReported
  <2>3. UNCHANGED <<stage, mutants, n_mutants, timing>> /\ "display" \notin panicked'
    BY <1>1 DEF ReportOutcome, vars, lab, DisplayInv
  <2>4. DisplayTypes'
    BY <2>1, <2>2, <2>3 DEF DisplayInv, DisplayTypes
  <2>5. ClockFits'
    <3>1. CASE a \notin Workers
      BY <2>2, <2>3, <3>1, ClockKept
    <3>2. CASE a \in Workers
      <4>2. stage = "testing"
        BY <1>1, <3>2 DEF ReportOutcome, DisplayInv, ReportsFit
      <4>3. timing' = TRUE
        BY <2>3, <4>2 DEF DisplayInv, ClockFits
      <4> QED BY <2>3, <4>2, <4>3 DEF ClockFits
    <3> QED BY <3>1, <3>2
  <2> QED BY <2>1, <2>2, <2>3, <2>4, <2>5 DEF DisplayInv
<1>2. CASE ~ReportOutcome(a)
  <2>1. /\ RunScenario(a) /\ UNCHANGED <<n_mutants, timing, counts>>
    BY <1>2 DEF ScenarioReported, StartScenarioReported, PhaseBegins, PhaseEnds, FinishRecorded,
         ScenarioUnreported, console, RunScenario
  <2>2. \/ UNCHANGED unreported
        \/ /\ FinishScenario(a) \/ FinishFails(a)
           /\ unreported' = [unreported EXCEPT ![a] = <<job[a]>>]
    BY <1>2 DEF ScenarioReported, StartScenarioReported, PhaseBegins, PhaseEnds, FinishRecorded,
         ScenarioUnreported, console
  <2>3. ReportsFit'
    BY <2>1, <2>2, ScenarioReports
  <2>4. ModelsFit' /\ models' \in [BuildDirs -> Seq(Phase \cup {Idleness})] /\ "display" \notin panicked'
    <3>1. CASE StartScenarioReported(a)
      BY <3>1, StartModels DEF StartScenarioReported, DisplayInv
    <3>2. CASE PhaseBegins(a) \/ PhaseEnds(a)
      BY <3>2, PhaseModels
    <3>3. CASE FinishRecorded(a) \/ ScenarioUnreported(a)
      <4>1. UNCHANGED <<models, panicked>>
        BY <3>3 DEF FinishRecorded, ScenarioUnreported, console
      <4> QED BY <3>3, <4>1, QuietModels DEF DisplayInv, DisplayTypes
    <3> QED BY <1>2, <3>1, <3>2, <3>3 DEF ScenarioReported
  <2>5. UNCHANGED <<stage, mutants>>
    BY <2>1, Footprint
  <2>6. ClockFits'
    BY <2>1, <2>5, ClockKept
  <2>7. DisplayTypes'
    <3>1. job[a] \in ScenarioOutcome
      BY LabFacts
    <3>2. unreported' \in [Actors -> {<<>>} \cup {<<o>> : o \in ScenarioOutcome}]
      BY <2>2, <3>1 DEF DisplayInv, DisplayTypes
    <3> QED BY <2>1, <2>4, <2>5, <3>2 DEF DisplayInv, DisplayTypes
  <2>8. DoneFits' /\ CountsWhatIsRecorded'
    <3>1. CASE /\ FinishScenario(a) \/ FinishFails(a)
               /\ unreported' = [unreported EXCEPT ![a] = <<job[a]>>]
      BY <2>1, <3>1, CountsRecorded DEF FinishScenario, FinishFails, FailsAt
    <3>2. CASE FinishFails(a) /\ UNCHANGED unreported
      BY <2>1, <3>2, CountsRecorded DEF FinishFails, FailsAt, Fault
    <3>3. CASE UNCHANGED <<labOutcome, unreported>>
      BY <2>1, <3>3, CountsKept
    <3>4. ~(FinishScenario(a) \/ FinishFails(a)) => UNCHANGED labOutcome
      BY <2>1 DEF RunScenario, StartScenario, ScenarioFails, SkipUncovered, ApplyMutant, CargoEnds,
         CargoErrs,
         NewBuild, EquivalentBuild, EquivalentFails, Revert, RevertFails, output
    <3>5. FinishScenario(a) => unreported' = [unreported EXCEPT ![a] = <<job[a]>>]
      <4>1. FinishScenario(a) => pc[a] = "finish" /\ pc'[a] \in {"done", "queue"}
        BY LabFacts DEF FinishScenario, Goto
      <4>2. CASE FinishScenario(a) /\ ~FinishRecorded(a)
        <5>1. pc'[a] # "done" /\ pc'[a] # "queue"
          BY <1>2, <4>1, <4>2, LabFacts DEF ScenarioReported, StartScenarioReported, PhaseBegins,
             PhaseEnds,
             ScenarioUnreported, StartScenario, ScenarioFails, SkipUncovered, ApplyMutant,
             CargoEnds, CargoErrs,
             NewBuild, EquivalentBuild, EquivalentFails, Revert, RevertFails, FinishFails, FailsAt,
             Goto
        <5> QED BY <4>1, <4>2, <5>1
      <4>3. CASE FinishRecorded(a)
        BY <4>3 DEF FinishRecorded
      <4> QED BY <4>2, <4>3
    <3> QED BY <2>2, <3>1, <3>2, <3>3, <3>4, <3>5
  <2> QED BY <2>1, <2>3, <2>4, <2>6, <2>7, <2>8 DEF DisplayInv
<1> QED BY <1>1, <1>2

\* The list of mutants is given once.
LEMMA MutantsKept == [Next]_vars => mutants' = mutants
<1>1. ASSUME NEW a \in Actors, RunScenario(a) PROVE mutants' = mutants
  BY <1>1 DEF RunScenario, StartScenario, ScenarioFails, SkipUncovered, ApplyMutant, CargoEnds,
     CargoErrs,
     NewBuild, EquivalentBuild, EquivalentFails, Revert, RevertFails, FinishScenario, FinishFails,
     lab
<1>2. ASSUME NEW w \in Workers, Work(w) PROVE mutants' = mutants
  BY <1>2 DEF Work, TakeBuildDir, CopyBuildDir, CopyFails, NextMutant, QueueEmpty, lab
<1>3. MainStep => mutants' = mutants
  BY DEF MainStep, RejectOptions, NoMutants, Setup, SetupFails, BaselinePasses, BaselineFails,
     BaselineErrs,
     FinishLab, FailLab
<1>4. Interrupt \/ UNCHANGED vars => mutants' = mutants
  BY DEF Interrupt, vars, lab
<1> QED BY <1>1, <1>2, <1>3, <1>4 DEF Next, Terminated

\* Calls that show nothing.
LEMMA QuietDisplays ==
    ASSUME IndInv, DisplayInv, [Next]_vars, UNCHANGED <<lab, pc, job, dir, labOutcome>>,
           UNCHANGED <<models, timing, counts, unreported, panicked>>,
           n_mutants' \in {n_mutants, {Cardinality(mutants)}}
    PROVE  DisplayInv'
<1> USE DEF DisplayInv, lab
<1>1. DisplayTypes'
  BY DEF DisplayTypes
<1>2. ReportsFit'
  BY DEF ReportsFit
<1>3. ModelsFit'
  <2>1. \A a \in Actors : ShownTo(a)'
    BY DEF ModelsFit, ShownTo, CurrentPhase, Phases
  <2>2. \A w \in Workers : ClearedBy(w)'
    BY DEF ModelsFit, ClearedBy
  <2>3. BaselineCleared' => BaselineCleared
    BY DEF BaselineCleared, Dir0Free
  <2> QED BY <2>1, <2>2, <2>3 DEF ModelsFit
<1>4. ClockFits'
  BY ClockKept
<1>5. DoneFits' /\ CountsWhatIsRecorded'
  BY CountsKept
<1> QED BY <1>1, <1>2, <1>3, <1>4, <1>5

\* Between scenarios, a worker finds the directory it takes cleared.
LEMMA WorkModels ==
    ASSUME IndInv, DisplayInv, NEW w \in Workers, Work(w), unreported[w] = <<>>,
           UNCHANGED <<models, unreported>>
    PROVE  ModelsFit' /\ ReportsFit' /\ UNCHANGED <<lab, labOutcome>>
<1> USE DEF DisplayInv
<1>1. UNCHANGED <<lab, stage, options, mutants, labOutcome>>
  BY DEF Work, TakeBuildDir, CopyBuildDir, CopyFails, NextMutant, QueueEmpty, lab, output
<1>2. \A b \in Actors : b # w => pc'[b] = pc[b] /\ job'[b] = job[b] /\ dir'[b] = dir[b]
  <2>1. \A b \in Actors : b # w => pc'[b] = pc[b]
    BY LabFacts DEF Work, TakeBuildDir, CopyBuildDir, CopyFails, NextMutant, QueueEmpty, Goto
  <2>2. \A b \in Actors : b # w => job'[b] = job[b]
    BY LabFacts DEF Work, TakeBuildDir, CopyBuildDir, CopyFails, NextMutant, QueueEmpty
  <2>3. \A b \in Actors : b # w => dir'[b] = dir[b]
    BY LabFacts DEF Work, TakeBuildDir, CopyBuildDir, CopyFails, NextMutant, QueueEmpty
  <2> QED BY <2>1, <2>2, <2>3
<1>3. /\ w \in Actors /\ Main \in Actors /\ w # Main /\ w # 0 /\ NoDir # w
      /\ {"start", "cargo"} \subseteq InScenario
  BY LabFacts DEF InScenario, BuildDirs
<1>4. ShownTo(w)' /\ ClearedBy(w)' /\ (Dir0Free' => Dir0Free)
  <2> USE <1>1, <1>3
  <2>1. ClearedBy(w) /\ ShownTo(w)
    BY DEF ModelsFit
  <2>2. CASE TakeBuildDir(w) /\ Dir0Free
    <3>1. pc'[w] = "queue" /\ dir'[w] = 0 /\ stage = "testing" /\ pc[w] = "new"
      BY <2>2, LabFacts DEF TakeBuildDir, Goto
    <3>2. models[0] = <<>>
      BY <2>2, <3>1 DEF ModelsFit, BaselineCleared
    <3>3. models[w] = <<>>
      <4>1. dir[w] # w
        BY <3>1 DEF IndInv, DirsOwned
      <4> QED BY <2>1, <4>1 DEF ClearedBy
    <3>4. ~Dir0Free'
      BY <3>1 DEF Dir0Free
    <3> QED BY <3>1, <3>2, <3>3, <3>4 DEF ShownTo, ClearedBy, InScenario
  <2>3. CASE TakeBuildDir(w) /\ ~Dir0Free
    <3>1. pc'[w] = "copy" /\ dir' = dir
      BY <2>3, LabFacts DEF TakeBuildDir, Goto
    <3> QED BY <2>1, <3>1 DEF ShownTo, ClearedBy, InScenario, Dir0Free
  <2>4. CASE CopyBuildDir(w)
    <3>1. pc'[w] = "queue" /\ dir'[w] = w /\ pc[w] = "copy" /\ dir[w] = NoDir
      BY <2>4, LabFacts DEF CopyBuildDir, Goto, IndInv, DirsOwned
    <3>2. models[w] = <<>>
      BY <2>1, <3>1 DEF ClearedBy
    <3>3. Dir0Free' => Dir0Free
      BY <1>2, <3>1, LabFacts DEF Dir0Free
    <3> QED BY <3>1, <3>2, <3>3 DEF ShownTo, ClearedBy, InScenario
  <2>5. CASE CopyFails(w) \/ QueueEmpty(w)
    <3>1. pc'[w] \in {"failed", "done"} /\ dir' = dir
      BY <2>5, LabFacts DEF CopyFails, QueueEmpty, Goto
    <3> QED BY <2>1, <3>1 DEF ShownTo, ClearedBy, InScenario, Dir0Free
  <2>6. CASE NextMutant(w)
    <3>1. pc'[w] = "start" /\ pc[w] = "queue" /\ dir' = dir
      BY <2>6, LabFacts DEF NextMutant, Goto
    <3>2. models[dir[w]] = <<>>
      BY <2>1, <3>1 DEF ClearedBy
    <3> QED BY <2>1, <3>1, <3>2 DEF ShownTo, ClearedBy, InScenario, Dir0Free
  <2> QED BY <2>2, <2>3, <2>4, <2>5, <2>6 DEF Work
<1>5. ASSUME NEW b \in Actors PROVE ShownTo(b)'
  <2>1. b # w => CurrentPhase(b)' = CurrentPhase(b)
    BY <1>1, <1>2 DEF CurrentPhase, Phases
  <2>2. b # w => ShownTo(b)'
    BY <1>2, <2>1 DEF ModelsFit, ShownTo
  <2> QED BY <1>4, <2>2
<1>6. ASSUME NEW v \in Workers PROVE ClearedBy(v)'
  <2>1. v # w => ClearedBy(v)'
    BY <1>2, LabFacts DEF ModelsFit, ClearedBy
  <2> QED BY <1>4, <2>1
<1>7. BaselineCleared' => BaselineCleared
  BY <1>1, <1>2, <1>3, <1>4 DEF BaselineCleared
<1>8. ModelsFit'
  BY <1>5, <1>6, <1>7 DEF ModelsFit
<1>9. ReportsFit'
  BY <1>1, <1>2, <1>3, LabFacts DEF ReportsFit
<1> QED BY <1>1, <1>8, <1>9

\* Every step of a worker between scenarios keeps the display right.
LEMMA WorkDisplays ==
    ASSUME IndInv, DisplayInv, [Next]_vars, NEW w \in Workers, WorkReported(w)
    PROVE  DisplayInv'
<1>1. CASE StartWorkerCopy(w)
  BY <1>1, QuietDisplays DEF StartWorkerCopy, vars, lab, threads, output
<1>2. CASE ~StartWorkerCopy(w)
  <2>1. Work(w) /\ UNCHANGED <<models, n_mutants, timing, counts, unreported>>
    BY <1>2 DEF WorkReported, WorkerCopied, WorkUnreported, Work, console
  <2>2. "display" \notin panicked'
    BY <1>2 DEF WorkReported, WorkerCopied, WorkUnreported, console, FinishCopy, Expect, DisplayInv
  <2>3. unreported[w] = <<>>
    BY <1>2 DEF WorkReported, WorkerCopied, WorkUnreported, CopyBuildDir, DisplayInv, ReportsFit
  <2>4. ModelsFit' /\ ReportsFit' /\ UNCHANGED <<stage, mutants, labOutcome>>
    BY <2>1, <2>3, WorkModels DEF lab
  <2>5. ClockFits' /\ DoneFits' /\ CountsWhatIsRecorded'
    BY <2>1, <2>4, ClockKept, CountsKept
  <2>6. DisplayTypes'
    BY <2>1, <2>4 DEF DisplayInv, DisplayTypes
  <2> QED BY <2>2, <2>4, <2>5, <2>6 DEF DisplayInv
<1> QED BY <1>1, <1>2

\* The lab's first stage ends with a directory that shows nothing, and a clock
\* that runs if mutants are next.
LEMMA SetupDisplays ==
    ASSUME IndInv, DisplayInv, [Next]_vars, SetupReported
    PROVE  DisplayInv'
<1> USE DEF DisplayInv
<1>1. /\ Setup /\ stage = "setup" /\ UNCHANGED <<models, n_mutants, counts, unreported, job,
                                                 options, labOutcome>>
      /\ mutants' = mutants
  BY DEF SetupReported, Setup, output
<1>2. "display" \notin panicked'
  BY DEF SetupReported, FinishCopy, Expect
<1>3. unreported[Main] = <<>> /\ counts.done = 0 /\ models[0] = <<>> /\ pc[Main] = "new"
  BY <1>1 DEF ReportsFit, ClockFits, ModelsFit, BaselineCleared, IndInv, StagesInOrder
<1>4. stage' \in {"baseline", "testing"} /\ timing' = (stage' = "testing")
  BY <1>1 DEF SetupReported, Setup, StartTesting
<1>5. \A w \in Workers : pc'[w] = pc[w] /\ dir'[w] = dir[w] /\ pc[w] = "new"
  BY <1>1, LabFacts DEF Setup, IndInv, StagesInOrder
<1>6. \/ pc'[Main] = "start" /\ dir'[Main] = 0
      \/ pc'[Main] = "new"
  BY <1>1, <1>3, LabFacts DEF Setup
<1>7. DisplayTypes'
  BY <1>1 DEF DisplayTypes
<1>8. ReportsFit'
  BY <1>1, <1>3, <1>5 DEF ReportsFit
<1>9. ModelsFit'
  <2>1. ASSUME NEW a \in Actors PROVE ShownTo(a)'
    <3>1. CASE a = Main
      BY <1>1, <1>3, <1>6, <3>1 DEF ShownTo, InScenario
    <3>2. CASE a # Main
      BY <1>1, <1>5, <3>2, LabFacts DEF ShownTo, InScenario
    <3> QED BY <3>1, <3>2
  <2>2. \A w \in Workers : ClearedBy(w)'
    BY <1>1, <1>5 DEF ModelsFit, ClearedBy
  <2> QED BY <1>1, <1>3, <2>1, <2>2 DEF ModelsFit
<1>10. ClockFits'
  <2>1. timing' \in BOOLEAN /\ (stage' = "testing" => timing')
    BY <1>4
  <2>2. counts'.done = 0 /\ ~(counts'.done > 0)
    BY <1>1, <1>3
  <2> QED BY <2>1, <2>2 DEF ClockFits
<1>11. DoneFits' /\ CountsWhatIsRecorded'
  BY <1>1, CountsKept
<1> QED BY <1>2, <1>7, <1>8, <1>9, <1>10, <1>11

\* The main thread's other steps leave the threads where they are.
LEMMA MainDisplays ==
    ASSUME IndInv, ThreadsJoined', DisplayInv, [Next]_vars, MainReported
    PROVE  DisplayInv'
<1> USE DEF DisplayInv
<1>1. CASE DiscoveredMutants
  BY <1>1, QuietDisplays DEF DiscoveredMutants, vars, lab, threads, output
<1>2. CASE StartBaselineCopy
  BY <1>2, QuietDisplays DEF StartBaselineCopy, vars, lab, threads, output
<1>3. CASE SetupReported
  BY <1>3, SetupDisplays
<1>4. CASE BaselinePassesReported
  <2>1. /\ UNCHANGED <<models, n_mutants, counts, unreported, pc, dir, job, options, mutants,
                       labOutcome, panicked>>
        /\ stage = "baseline" /\ pc[Main] = "done" /\ unreported[Main] = <<>>
        /\ stage' = "testing" /\ timing' = TRUE
    BY <1>4 DEF BaselinePassesReported, BaselinePasses, threads, output, StartTesting
  <2>2. DisplayTypes' /\ ReportsFit'
    BY <2>1 DEF DisplayTypes, ReportsFit
  <2>3. ModelsFit'
    <3>1. \A a \in Actors : ShownTo(a)'
      BY <2>1 DEF ModelsFit, ShownTo, CurrentPhase, Phases
    <3>2. \A w \in Workers : ClearedBy(w)'
      BY <2>1 DEF ModelsFit, ClearedBy
    <3>3. models[0] = <<>>
      BY <2>1 DEF ModelsFit, BaselineCleared
    <3> QED BY <2>1, <3>1, <3>2, <3>3 DEF ModelsFit
  <2>4. ClockFits'
    BY <2>1 DEF ClockFits
  <2>5. DoneFits' /\ CountsWhatIsRecorded'
    BY <2>1, CountsKept
  <2> QED BY <2>1, <2>2, <2>3, <2>4, <2>5
<1>5. CASE LabEndsReported
  <2>1. /\ UNCHANGED <<n_mutants, timing, counts, unreported, pc, dir, job, options, mutants,
                       labOutcome, panicked>>
        /\ stage = "testing" /\ stage' \in {"finished", "error"} /\ ~AnyFailed
        /\ models' = [d \in BuildDirs |-> <<>>]
    BY <1>5 DEF LabEndsReported, FinishLab, FailLab, threads, ClearScenarios
  <2>2. models' \in [BuildDirs -> Seq(Phase \cup {Idleness})] /\ \A d \in BuildDirs : models'[d] = <<>>
    <3>1. <<>> \in Seq(Phase \cup {Idleness})
      OBVIOUS
    <3> QED BY <2>1, <3>1
  <2>3. \A a \in Actors : pc[a] \notin InScenario \cup {"queue"}
    <3>1. \A w \in Workers : pc[w] \in {"new", "done", "failed"}
      BY <2>1 DEF ThreadsJoined, Ended
    <3>2. pc[Main] \notin InScenario \cup {"queue"}
      BY <2>1 DEF IndInv, StagesInOrder, JobsFit
    <3> QED BY <3>1, <3>2 DEF Actors, InScenario
  <2>4. DisplayTypes' /\ ReportsFit'
    <3>1. \A w \in Workers : pc[w] \in {"new", "done"}
      <4>1. Spawned' = Spawned /\ pc' = pc
        BY <2>1 DEF Spawned, NThreads, MaxJobs
      <4> QED BY <2>1, <4>1 DEF ThreadsJoined, Ended, AnyFailed
    <3>2. \A w \in Workers : unreported[w] = <<>>
      BY <3>1 DEF ReportsFit
    <3>3. unreported[Main] = <<>>
      BY <2>1 DEF ReportsFit
    <3> QED BY <2>1, <2>2, <3>2, <3>3 DEF DisplayTypes, ReportsFit
  <2>5. ModelsFit'
    <3>1. \A a \in Actors : ShownTo(a)'
      BY <2>1, <2>3 DEF ShownTo, InScenario
    <3>2. \A w \in Workers : ClearedBy(w)'
      BY <2>1, <2>2, <2>3, LabFacts DEF ClearedBy
    <3> QED BY <2>2, <3>1, <3>2, LabFacts DEF ModelsFit
  <2>6. ClockFits'
    BY <2>1, ClockKept DEF Ended
  <2>7. DoneFits' /\ CountsWhatIsRecorded'
    BY <2>1, CountsKept
  <2> QED BY <2>1, <2>4, <2>5, <2>6, <2>7
<1>6. CASE MainUnreported
  <2>1. /\ UNCHANGED <<models, n_mutants, timing, counts, unreported, pc, dir, job, options,
                       mutants, labOutcome,
                       panicked>>
        /\ unreported[Main] = <<>> /\ stage' \in Ended
        /\ stage # "testing" \/ \A w \in Workers : unreported[w] = <<>>
    BY <1>6 DEF MainUnreported, RejectOptions, SetupFails, BaselineFails, BaselineErrs, NoMutants,
       FailLab,
         console, threads, output, Ended
  <2>2. DisplayTypes' /\ ReportsFit'
    <3>1. \A w \in Workers : unreported[w] = <<>>
      BY <2>1 DEF ReportsFit
    <3> QED BY <2>1, <3>1 DEF DisplayTypes, ReportsFit
  <2>3. ModelsFit'
    <3>1. \A a \in Actors : ShownTo(a)'
      BY <2>1 DEF ModelsFit, ShownTo, CurrentPhase, Phases
    <3>2. \A w \in Workers : ClearedBy(w)'
      BY <2>1 DEF ModelsFit, ClearedBy
    <3>3. ~BaselineCleared'
      BY <2>1 DEF BaselineCleared, Ended
    <3> QED BY <2>1, <3>1, <3>2, <3>3 DEF ModelsFit
  <2>4. ClockFits'
    BY <2>1, ClockKept
  <2>5. DoneFits' /\ CountsWhatIsRecorded'
    BY <2>1, CountsKept
  <2> QED BY <2>1, <2>2, <2>3, <2>4, <2>5
<1> QED BY <1>1, <1>2, <1>3, <1>4, <1>5, <1>6 DEF MainReported

\* Nothing is shown and nothing is counted.
LEMMA DisplayInit == ConsoleInit => Init /\ DisplayInv
<1> SUFFICES ASSUME ConsoleInit PROVE DisplayInv
  BY DEF ConsoleInit
<1> USE DEF ConsoleInit
<1>1. IndInv
  BY IndInit
<1>2. /\ \A a \in Actors : pc[a] = "new" /\ job[a] = Idle /\ unreported[a] = <<>>
      /\ \A d \in BuildDirs : models[d] = <<>>
      /\ stage = "setup" /\ counts.done = 0 /\ faults = 0
      /\ labOutcome = EmptyLabOutcome
  BY DEF Init
<1>3. DisplayTypes
  <2>1. <<>> \in Seq(Phase \cup {Idleness})
    OBVIOUS
  <2> QED BY <2>1 DEF DisplayTypes
<1>4. ReportsFit
  BY <1>1, <1>2, LabFacts DEF ReportsFit, Idle, NewOutcome
<1>5. ModelsFit
  <2>1. \A a \in Actors : ShownTo(a)
    BY <1>2 DEF ShownTo, InScenario
  <2>2. \A w \in Workers : ClearedBy(w)
    BY <1>1, <1>2, LabFacts DEF ClearedBy
  <2> QED BY <1>1, <1>2, <2>1, <2>2, LabFacts DEF ModelsFit
<1>6. ClockFits
  <2>1. timing \in BOOLEAN /\ stage # "testing" /\ counts.done = 0 /\ ~(counts.done > 0)
    <3>1. timing \in BOOLEAN
      OBVIOUS
    <3>2. stage # "testing" /\ counts.done = 0 /\ ~(counts.done > 0)
      BY <1>2
    <3> QED BY <3>1, <3>2
  <2> QED BY <2>1 DEF ClockFits
<1>7. Waiting = {} /\ \A b : LateFor(b) = {}
  BY <1>1, <1>2, LabFacts DEF Waiting, LateFor
<1>8. DoneFits
  <2>1. Cardinality({}) = 0
    BY FS_EmptySet
  <2>2. Cardinality(Recorded) \in Nat
    BY <1>1, RecordedFinite
  <2> QED BY <1>2, <1>7, <2>1, <2>2 DEF DoneFits
<1>9. CountsWhatIsRecorded
  <2> SUFFICES ASSUME NEW b \in Bucket \ {"Success", "Timeout"}
               PROVE  labOutcome.tally[b] - Unreported(b) - counts.tally[b] \in 0 .. faults
    BY DEF CountsWhatIsRecorded
  <2>1. Unreported(b) = 0
    BY <1>3, <1>7, LateIs, FS_EmptySet
  <2>2. labOutcome.tally[b] = 0 /\ counts.tally[b] = 0
    BY <1>2 DEF EmptyLabOutcome, Summaries
  <2> QED BY <1>2, <2>1, <2>2
<1>10. "display" \notin panicked
  OBVIOUS
<1> QED BY <1>3, <1>4, <1>5, <1>6, <1>8, <1>9, <1>10 DEF DisplayInv

\* Every step keeps the display right, whichever thread makes it.
LEMMA DisplayStep ==
    IndInv /\ ThreadsJoined /\ EachMutantOnce /\ DisplayInv /\ [ConsoleNext]_conVars => DisplayInv'
<1> SUFFICES ASSUME IndInv, ThreadsJoined, EachMutantOnce, DisplayInv, [ConsoleNext]_conVars PROVE DisplayInv'
  OBVIOUS
<1>1. [Next]_vars
  BY DisplayedSteps
<1>2. IndInv' /\ ThreadsJoined'
  BY <1>1, IndStep, JoinedStep
<1>3. CASE MainReported
  BY <1>1, <1>2, <1>3, MainDisplays
<1>4. ASSUME NEW a \in Actors, ScenarioReported(a) PROVE DisplayInv'
  BY <1>1, <1>2, <1>4, ScenarioDisplays
<1>5. ASSUME NEW w \in Workers, WorkReported(w) PROVE DisplayInv'
  BY <1>1, <1>5, WorkDisplays
<1>6. CASE InterruptUnreported \/ TerminatedUnreported \/ UNCHANGED conVars
  BY <1>1, <1>6, QuietDisplays DEF InterruptUnreported, TerminatedUnreported, Interrupt, Terminated,
     conVars, console, vars, lab, threads, output
<1> QED BY <1>3, <1>4, <1>5, <1>6 DEF ConsoleNext

\* A thread that has failed does nothing more, and the run can only end in an error.
LEMMA FailedStays ==
    ASSUME IndInv, [Next]_vars, NEW a \in Actors, pc[a] = "failed"
    PROVE  pc'[a] = "failed"
<1>1. "failed" \notin InScenario
  BY DEF InScenario
<1>2. ASSUME NEW b \in Actors, RunScenario(b) PROVE pc'[a] = "failed"
  <2>1. pc[b] \in InScenario
    BY <1>2 DEF RunScenario, StartScenario, ScenarioFails, SkipUncovered, ApplyMutant, CargoEnds,
       CargoErrs, NewBuild, EquivalentBuild, EquivalentFails, Revert, RevertFails,
       FinishScenario, FinishFails, FailsAt, InScenario
  <2> QED BY <1>1, <1>2, <2>1, Footprint
<1>3. ASSUME NEW w \in Workers, Work(w) PROVE pc'[a] = "failed"
  <2>1. pc[w] # "failed"
    BY <1>3 DEF Work, TakeBuildDir, CopyBuildDir, CopyFails, NextMutant, QueueEmpty
  <2> QED BY <1>3, <2>1, WorkFootprint
<1>4. MainStep => pc'[a] = "failed"
  <2>1. Setup => pc[Main] = "new"
    BY DEF Setup, IndInv, StagesInOrder
  <2> QED BY <2>1, MainFootprint DEF Actors
<1> QED BY <1>2, <1>3, <1>4 DEF Next, Interrupt, Terminated, vars, threads

LEMMA LogStep ==
    IndInv /\ ThreadsJoined /\ DisplayInv /\ LogFits /\ [ConsoleNext]_conVars => LogFits'
<1> SUFFICES ASSUME IndInv, ThreadsJoined, DisplayInv, LogFits, [ConsoleNext]_conVars,
                    "log" \in panicked'
             PROVE  \/ stage' \in {"baseline", "error"} /\ pc'[Main] = "failed"
                    \/ stage' \in {"testing", "error"} /\ \E w \in Workers : pc'[w] = "failed"
  BY DEF LogFits
<1>1. [Next]_vars
  BY DisplayedSteps
<1>2. \/ "log" \in panicked
      \/ \E a \in Actors : ReportOutcome(a) /\ pc[a] = "failed"
  BY DEF ConsoleNext, conVars, MainReported, ScenarioReported, WorkReported, InterruptUnreported,
       TerminatedUnreported, DiscoveredMutants, StartBaselineCopy, SetupReported,
       BaselinePassesReported, LabEndsReported, MainUnreported, StartScenarioReported,
       PhaseBegins, PhaseEnds, FinishRecorded, ReportOutcome, ScenarioUnreported,
       StartWorkerCopy, WorkerCopied, WorkUnreported, console, FinishCopy, PhaseStarted,
       PhaseFinished, Expect
<1>3. CASE \E a \in Actors : ReportOutcome(a) /\ pc[a] = "failed"
  <2>1. PICK a \in Actors : ReportOutcome(a) /\ pc[a] = "failed"
    BY <1>3
  <2>2. UNCHANGED <<stage, pc>> /\ unreported[a] # <<>>
    BY <2>1 DEF ReportOutcome, vars, lab, threads
  <2> QED BY <2>1, <2>2 DEF DisplayInv, ReportsFit, Actors
<1>4. CASE "log" \in panicked
  <2>1. \A a \in Actors : pc[a] = "failed" => pc'[a] = "failed"
    BY <1>1, FailedStays
  <2>2. Main \in Actors /\ Workers \subseteq Actors
    BY DEF Actors
  <2>3. stage = "error" => stage' = "error"
    BY <1>1, EndIsQuiet DEF Ended, vars, lab
  <2>4. stage = "baseline" /\ pc[Main] = "failed" => stage' \in {"baseline", "error"}
    <3>1. \A a \in Actors : RunScenario(a) => stage' = stage
      BY Footprint
    <3>2. \A w \in Workers : Work(w) => stage' = stage
      BY WorkFootprint
    <3>3. stage = "baseline" /\ pc[Main] = "failed" /\ MainStep => stage' = "error"
      BY DEF MainStep, RejectOptions, NoMutants, Setup, SetupFails, BaselinePasses, BaselineFails,
         BaselineErrs, FinishLab, FailLab
    <3> QED BY <1>1, <3>1, <3>2, <3>3 DEF Next, Interrupt, Terminated, vars, lab
  <2>5. ASSUME stage = "testing", NEW w \in Workers, pc[w] = "failed"
        PROVE  stage' \in {"testing", "error"}
    <3>1. \A a \in Actors : RunScenario(a) => stage' = stage
      BY Footprint
    <3>2. \A v \in Workers : Work(v) => stage' = stage
      BY WorkFootprint
    <3>3. AnyFailed
      BY <2>5 DEF AnyFailed, ThreadsJoined
    <3>4. MainStep => stage' = "error"
      BY <2>5, <3>3 DEF MainStep, RejectOptions, NoMutants, Setup, SetupFails, BaselinePasses,
         BaselineFails, BaselineErrs, FinishLab, FailLab
    <3> QED BY <1>1, <2>5, <3>1, <3>2, <3>4 DEF Next, Interrupt, Terminated, vars, lab
  <2> QED BY <1>4, <2>1, <2>2, <2>3, <2>4, <2>5 DEF LogFits
<1> QED BY <1>2, <1>3, <1>4

\* No more mutants are done than there are, and nobody renders before the clock
\* has started.
LEMMA DisplayShows ==
    ASSUME IndInv, EachMutantOnce, DisplayInv, LogFits
    PROVE  ConsoleFollowsLab
<1>1. CanRender
  <2> SUFFICES ASSUME NEW n \in n_mutants, counts.done > 2 PROVE timing /\ counts.done <= n
    BY DEF CanRender
  <2>1. n = Cardinality(mutants)
    BY DEF DisplayInv, DisplayTypes
  <2>2. counts.done \in Nat
    BY DEF DisplayInv, DisplayTypes
  <2>3. timing
    BY <2>2 DEF DisplayInv, ClockFits
  <2>4. Recorded \subseteq mutants /\ mutants \in SUBSET Mutants
    BY LabAssumption DEF EachMutantOnce, IndInv, TypeOK, LabTypeOK
  <2>5. /\ Cardinality(Recorded) <= Cardinality(mutants)
        /\ Cardinality(Recorded) \in Nat /\ Cardinality(mutants) \in Nat
    <3>1. IsFiniteSet(mutants)
      BY <2>4, MutantsFinite, FS_Subset
    <3> QED BY <2>4, <3>1, FS_Subset, FS_CardinalityType
  <2>6. Cardinality(Waiting) \in Nat
    BY WaitingFinite DEF Waiting, Actors
  <2>7. counts.done + Cardinality(Waiting) <= Cardinality(Recorded)
    BY DEF DisplayInv, DoneFits
  <2> QED BY <2>1, <2>2, <2>3, <2>5, <2>6, <2>7
<1>2. ShowsWhatRuns
  BY DEF DisplayInv, ModelsFit, ShownTo, ShowsWhatRuns
<1>3. "log" \in panicked => stage # "finished"
  BY DEF LogFits
<1> QED BY <1>1, <1>2, <1>3 DEF DisplayInv, ConsoleFollowsLab

\* What the console expects of its own models holds and render's estimate can
\* be drawn after any update by any thread; what is shown is what runs; what
\* is counted is what outcomes.json counts, less what is yet to be reported or
\* was lost to an error; and a thread that panics because the log it is to print
\* cannot be read makes the run fail.
THEOREM DisplayFollows == ConsoleSpec => []ConsoleFollowsLab
<1> DEFINE Both == IndInv /\ ThreadsJoined /\ EachMutantOnce /\ DisplayInv /\ LogFits
<1>1. ConsoleInit => Both
  BY DisplayInit, IndInit, JoinedInit, OnceInit DEF ConsoleInit, LogFits
<1>2. Both /\ [ConsoleNext]_conVars => Both'
  BY DisplayedSteps, DisplayStep, LogStep, IndStep, JoinedStep, OnceStep
<1>3. Both => ConsoleFollowsLab
  BY DisplayShows
<1> HIDE DEF Both
<1> QED BY <1>1, <1>2, <1>3, PTL DEF ConsoleSpec

=============================================================================

-------------------------------- MODULE Lab --------------------------------
(***************************************************************************)
(* The lab (src/lab.rs): a main thread that tests the unmutated tree, then *)
(* starts worker threads that share a queue of mutants, a map of build     *)
(* fingerprints and the output directory.  Each worker owns a build        *)
(* directory, writes a mutant into it, runs cargo, restores the file and   *)
(* records the outcome.                                                    *)
(*                                                                         *)
(* One action is one section executed under a lock, one call that leaves   *)
(* the process (cargo), or one effect on a build directory.  Every `?` of  *)
(* the code that an I/O error can take is an action that consumes one of   *)
(* MaxFaults faults; Ctrl-C may arrive at any moment.                      *)
(***************************************************************************)
EXTENDS Outcome, Integers, FiniteSets

CONSTANTS SourceFiles,   \* the files of the tree that hold mutants
          FileOf,        \* the file each mutant is in
          Lines,         \* lines whose coverage is measured
          LineOf,        \* the line each mutant starts on
          ConstEval,     \* mutants in positions evaluated by the compiler
          Fingerprints,  \* digests of the test executables of a build
          Original,      \* the unmutated text of a file
          Torn,          \* a file left half written by a failed write
          None,          \* an unset OnceLock, a map entry that is absent
          Jobs,          \* --jobs, 1 when it is not given or 0
          MutantLists,   \* what discovery and the filters may leave to test
          LabOptions,    \* the combinations of options to explore
          CargoExits,    \* the ways cargo may end
          MaxFaults      \* bound on the I/O errors of one behaviour

Options == [baseline          : {"Run", "Skip"},
            check_only        : BOOLEAN,
            detect_equivalent : BOOLEAN,
            skip_uncovered    : BOOLEAN,
            in_place          : BOOLEAN,
            test_timeout      : BOOLEAN,   \* --timeout was given
            build_timeout     : BOOLEAN]   \* a build timeout applies to mutants

\* --in-place conflicts with --jobs, so its run has one worker.
ASSUME LabAssumption ==
    /\ FileOf \in [Mutants -> SourceFiles]
    /\ LineOf \in [Mutants -> Lines]
    /\ ConstEval \subseteq Mutants
    /\ Original \notin Mutants /\ Torn \notin Mutants /\ Original # Torn
    /\ None \notin Fingerprints /\ None \notin Mutants /\ None # Baseline
    /\ Jobs \in Nat \ {0}
    /\ MutantLists \subseteq SUBSET Mutants
    /\ LabOptions \subseteq Options
    /\ CargoExits \subseteq Exit
    /\ MaxFaults \in Nat

ASSUME MutantsFinite == IsFiniteSet(Mutants)

Main == 0               \* the main thread, which runs the baseline
Workers == 1 .. Jobs    \* the scoped threads, if there are enough mutants
Actors == {Main} \cup Workers

NoDir == -1
BuildDirs == {0} \cup Workers   \* 0 is the baseline's; w is the copy w makes
Code == Mutants \cup {Original, Torn}
Pristine == [f \in SourceFiles |-> Original]

Unmeasured == {{}}
Measured == {{c} : c \in SUBSET Lines}

ListFile == Bucket \ {"Success"}

-----------------------------------------------------------------------------

VARIABLES
    stage,         \* where test_mutants is
    options,
    mutants,       \* the list given to test_mutants
    queue,         \* work_queue, the mutants nobody has taken
    pc,            \* where each thread is
    job,           \* the ScenarioOutcome each thread is building
    dir,           \* the build directory each thread owns
    tree,          \* the contents of each build directory
    baselinePrint, \* baseline_fingerprint : OnceLock
    coverage,      \* coverage : OnceLock, {} or {the lines the baseline executed}
    fingerprints,  \* mutant_fingerprints, the first mutant with each digest
    equivalentTo,  \* what each skipped mutant's log says it is identical to
    interrupted,   \* the INTERRUPTED flag, set by the Ctrl-C handler
    faults,        \* I/O errors so far
    labOutcome,    \* OutputDir.lab_outcome
    lists,         \* the *.txt files, as the mutants named in each
    json           \* outcomes.json: end_time, and how many outcomes it then holds

lab      == <<stage, options, mutants>>
threads  == <<queue, pc, job, dir, tree>>
measured == <<baselinePrint, coverage>>
prints   == <<fingerprints, equivalentTo>>
output   == <<labOutcome, lists, json>>
vars     == <<lab, threads, measured, prints, interrupted, faults, output>>

InScenario == {"start", "diff", "cargo", "equiv", "revert", "revertErr", "finish"}
Location == {"new", "copy", "queue", "done", "failed"} \cup InScenario

Ended == {"empty", "baselineFailed", "finished", "error"}

LabTypeOK ==
    /\ stage \in {"setup", "baseline", "testing"} \cup Ended
    /\ options \in LabOptions
    /\ mutants \in MutantLists
    /\ interrupted \in BOOLEAN
    /\ faults \in 0 .. MaxFaults

ThreadsTypeOK ==
    /\ queue \in SUBSET Mutants
    /\ pc \in [Actors -> Location]
    /\ job \in [Actors -> ScenarioOutcome]
    /\ dir \in [Actors -> BuildDirs \cup {NoDir}]
    /\ tree \in [BuildDirs -> [SourceFiles -> Code]]

PrintsTypeOK ==
    /\ baselinePrint \in Fingerprints \cup {None}
    /\ coverage \in Unmeasured \cup Measured
    /\ fingerprints \in [Fingerprints -> Mutants \cup {None}]
    /\ equivalentTo \in [Mutants -> Scenario \cup {None}]

OutputTypeOK ==
    /\ labOutcome \in LabOutcome
    /\ lists \in [ListFile -> SUBSET Mutants]
    /\ json \in [upto : Nat, ended : BOOLEAN]

TypeOK == LabTypeOK /\ ThreadsTypeOK /\ PrintsTypeOK /\ OutputTypeOK

-----------------------------------------------------------------------------
(* Helpers *)

Goto(a, location) == pc' = [pc EXCEPT ![a] = location]

\* An I/O error that ends the thread's closure with Err.
Fault == faults < MaxFaults /\ faults' = faults + 1
FailsAt(a, location) == pc[a] = location /\ Fault /\ Goto(a, "failed")

\* A job that stands for no mutant.
Idle == NewOutcome(Baseline)
HasMutant(a) == IsMutant(job[a].scenario)

Phases == IF options.check_only THEN <<"Check">> ELSE <<"Build", "Test">>
CurrentPhase(a) == Phases[Len(job[a].results) + 1]
IsLastPhase(a) == Len(job[a].results) + 1 = Len(Phases)

\* Timeouts::for_baseline, from_baseline and without_baseline: tests of a
\* mutant always have a timeout, builds only when one is configured.
HasTimeLimit(a, phase) ==
    IF phase = "Test" THEN a \in Workers \/ options.test_timeout
    ELSE a \in Workers /\ options.build_timeout

\* Variant of IsUncovered: code that the compiler evaluates counts too.
UncoveredByLine(m) == \E covered \in coverage : LineOf[m] \notin covered

\* Worker::uncovered_message
IsUncovered(m) ==
    /\ m \notin ConstEval
    /\ \E covered \in coverage : LineOf[m] \notin covered

\* What overwrite_file leaves when it fails: nothing done, or a torn file.
Overwritten(d, f, code) == [tree EXCEPT ![d][f] = code]

\* outcomes.json as written now, from the in-memory state: how many outcomes it
\* holds matters once it is complete; Sessions has what it holds before.
Snapshot(l, ended) ==
    [upto |-> IF ended THEN Len(l.outcomes) ELSE 0, ended |-> ended]
Unreadable == [upto |-> 0, ended |-> FALSE]

-----------------------------------------------------------------------------
(* The main thread *)

Init ==
    /\ stage = "setup"
    /\ options \in LabOptions
    /\ mutants \in MutantLists
    /\ queue = mutants
    /\ pc = [a \in Actors |-> "new"]
    /\ job = [a \in Actors |-> Idle]
    /\ dir = [a \in Actors |-> NoDir]
    /\ tree = [d \in BuildDirs |-> Pristine]
    /\ baselinePrint = None
    /\ coverage = {}
    /\ fingerprints = [f \in Fingerprints |-> None]
    /\ equivalentTo = [m \in Mutants |-> None]
    /\ interrupted = FALSE
    /\ faults = 0
    /\ labOutcome = EmptyLabOutcome
    /\ lists = [l \in ListFile |-> {}]
    /\ json = Unreadable

\* coverage_tools: --skip-uncovered needs a baseline that runs tests.
CoverageImpossible ==
    options.skip_uncovered /\ (options.baseline = "Skip" \/ options.check_only)

RejectOptions ==
    /\ stage = "setup"
    /\ CoverageImpossible
    /\ stage' = "error"
    /\ UNCHANGED <<options, mutants, threads, measured, prints, interrupted, faults, output>>

NoMutants ==
    /\ stage = "setup"
    /\ ~CoverageImpossible
    /\ mutants = {}
    /\ stage' = "empty"
    /\ UNCHANGED <<options, mutants, threads, measured, prints, interrupted, faults, output>>

\* BuildDir::for_baseline; a copy checks for Ctrl-C at every entry.
Setup ==
    /\ stage = "setup"
    /\ ~CoverageImpossible
    /\ mutants # {}
    /\ options.in_place \/ ~interrupted
    /\ IF options.baseline = "Run"
       THEN /\ stage' = "baseline"
            /\ pc' = [pc EXCEPT ![Main] = "start"]
            /\ dir' = [dir EXCEPT ![Main] = 0]
       ELSE stage' = "testing" /\ UNCHANGED <<pc, dir>>
    /\ UNCHANGED <<options, mutants, queue, job, tree, measured, prints, interrupted,
                   faults, output>>

SetupFails ==
    /\ stage = "setup"
    /\ ~CoverageImpossible
    /\ \/ Fault
       \/ mutants # {} /\ ~options.in_place /\ interrupted /\ UNCHANGED faults
    /\ stage' = "error"
    /\ UNCHANGED <<options, mutants, threads, measured, prints, interrupted, output>>

\* Lab::run_baseline after run_one_scenario: a baseline that passed sets the
\* OnceLocks.  The fingerprint may be unavailable; coverage may not.
BaselinePasses ==
    /\ stage = "baseline" /\ pc[Main] = "done"
    /\ Succeeded(job[Main])
    /\ baselinePrint' \in IF options.detect_equivalent
                         THEN Fingerprints \cup {None} ELSE {None}
    /\ coverage' \in IF options.skip_uncovered THEN Measured ELSE Unmeasured
    /\ stage' = "testing"
    /\ UNCHANGED <<options, mutants, threads, prints, interrupted, faults, output>>

BaselineFails ==
    /\ stage = "baseline" /\ pc[Main] = "done"
    /\ ~Succeeded(job[Main])
    /\ json' = Snapshot(labOutcome, TRUE)
    /\ stage' = "baselineFailed"
    /\ UNCHANGED <<options, mutants, threads, measured, prints, interrupted, faults,
                   labOutcome, lists>>

\* The scenario failed with Err, coverage could not be read, or finish() failed.
BaselineErrs ==
    /\ stage = "baseline"
    /\ \/ pc[Main] = "failed" /\ UNCHANGED <<faults, json>>
       \/ /\ pc[Main] = "done" /\ Fault
          /\ IF Succeeded(job[Main])
             THEN options.skip_uncovered /\ UNCHANGED json
             ELSE json' \in {json, Unreadable}
    /\ stage' = "error"
    /\ UNCHANGED <<options, mutants, threads, measured, prints, interrupted, labOutcome, lists>>

\* --jobs and --in-place exclude each other.
MaxJobs == IF options.in_place THEN 1 ELSE Jobs
NThreads == IF Cardinality(mutants) < MaxJobs THEN Cardinality(mutants) ELSE MaxJobs
Spawned == 1 .. NThreads

\* join_threads returned: every thread has ended, and one that failed makes
\* the whole run fail without OutputDir::finish.
\* Variant of AllEnded: the first thread to end ends the wait.
OneEnded == \E w \in Spawned : pc[w] \in {"done", "failed"}

\* Variant of AnyFailed: only the last thread's result is looked at.
LastFailed == \E w \in Spawned : w = NThreads /\ pc[w] = "failed"

AllEnded == \A w \in Spawned : pc[w] \in {"done", "failed"}
AnyFailed == \E w \in Spawned : pc[w] = "failed"

FinishLab ==
    /\ stage = "testing" /\ AllEnded /\ ~AnyFailed
    /\ json' = Snapshot(labOutcome, TRUE)
    /\ stage' = "finished"
    /\ UNCHANGED <<options, mutants, threads, measured, prints, interrupted, faults,
                   labOutcome, lists>>

FailLab ==
    /\ stage = "testing" /\ AllEnded
    /\ \/ AnyFailed /\ UNCHANGED <<faults, json>>
       \/ ~AnyFailed /\ Fault /\ json' \in {json, Unreadable}
    /\ stage' = "error"
    /\ UNCHANGED <<options, mutants, threads, measured, prints, interrupted, labOutcome, lists>>

-----------------------------------------------------------------------------
(* A worker thread, between scenarios *)

\* Variant of Dir0Free: the directory is looked at but not taken.
Dir0Shared == \A v \in Workers : dir[v] \in {NoDir, 0}

\* build_dir_0 still holds Some.
Dir0Free == \A v \in Workers : dir[v] # 0

\* build_dir_0.lock().take(): the first thread gets the baseline's directory.
TakeBuildDir(w) ==
    /\ stage = "testing" /\ w \in Spawned /\ pc[w] = "new"
    /\ IF Dir0Free
       THEN dir' = [dir EXCEPT ![w] = 0] /\ Goto(w, "queue")
       ELSE UNCHANGED dir /\ Goto(w, "copy")
    /\ UNCHANGED <<lab, queue, job, tree, measured, prints, interrupted, faults, output>>

\* BuildDir::copy_from(workspace.root()), whose tree is build directory 0's
\* when testing in place.
CopyBuildDir(w) ==
    /\ pc[w] = "copy"
    /\ ~interrupted
    /\ dir' = [dir EXCEPT ![w] = w]
    /\ tree' = [tree EXCEPT ![w] = IF options.in_place THEN tree[0] ELSE Pristine]
    /\ Goto(w, "queue")
    /\ UNCHANGED <<lab, queue, job, measured, prints, interrupted, faults, output>>

CopyFails(w) ==
    /\ pc[w] = "copy"
    /\ \/ interrupted /\ UNCHANGED faults
       \/ Fault
    /\ Goto(w, "failed")
    /\ UNCHANGED <<lab, queue, job, dir, tree, measured, prints, interrupted, output>>

\* Variant of Take: looks at the next mutant without consuming it.
Peek(m) == m \in queue /\ UNCHANGED queue

\* work_queue.lock().next()
Take(m) == queue' = queue \ {m}

NextMutant(w) ==
    /\ pc[w] = "queue"
    /\ \E m \in queue :
          /\ Take(m)
          /\ job' = [job EXCEPT ![w] = NewOutcome(m)]
    /\ Goto(w, "start")
    /\ UNCHANGED <<lab, dir, tree, measured, prints, interrupted, faults, output>>

QueueEmpty(w) ==
    /\ pc[w] = "queue"
    /\ queue = {}
    /\ Goto(w, "done")
    /\ UNCHANGED <<lab, queue, job, dir, tree, measured, prints, interrupted,
                   faults, output>>

-----------------------------------------------------------------------------
(* run_one_scenario, for a worker's mutant or the main thread's baseline *)

\* start_scenario under the output lock, and scenario_started.
StartScenario(a) ==
    /\ pc[a] = "start"
    /\ Goto(a, IF HasMutant(a) THEN "diff" ELSE "cargo")
    /\ UNCHANGED <<lab, queue, job, dir, tree, measured, prints, interrupted,
                   faults, output>>

\* Opening the log, or writing the diff, the skip message or the mutated file.
ScenarioFails(a) ==
    /\ FailsAt(a, "start") \/ FailsAt(a, "diff")
    /\ \/ UNCHANGED tree
       \/ /\ pc[a] = "diff" /\ ~IsUncovered(job[a].scenario)
          /\ tree' = Overwritten(dir[a], FileOf[job[a].scenario], Torn)
    /\ UNCHANGED <<lab, queue, job, dir, measured, prints, interrupted, output>>

SkipUncovered(a) ==
    /\ pc[a] = "diff"
    /\ IsUncovered(job[a].scenario)
    /\ job' = [job EXCEPT ![a].skip = "Uncovered"]
    /\ Goto(a, "finish")
    /\ UNCHANGED <<lab, queue, dir, tree, measured, prints, interrupted, faults, output>>

ApplyMutant(a) ==
    /\ pc[a] = "diff"
    /\ ~IsUncovered(job[a].scenario)
    /\ tree' = Overwritten(dir[a], FileOf[job[a].scenario], job[a].scenario)
    /\ Goto(a, "cargo")
    /\ UNCHANGED <<lab, queue, job, dir, measured, prints, interrupted, faults, output>>

\* Where a phase that ran to its end leads.
AfterPhase(a, e) ==
    IF e = "Success" /\ CurrentPhase(a) = "Build"
       /\ options.detect_equivalent /\ HasMutant(a) THEN "equiv"
    ELSE IF e = "Success" /\ ~IsLastPhase(a) THEN "cargo"
    ELSE IF HasMutant(a) THEN "revert"
    ELSE "finish"

\* run_cargo checks for Ctrl-C again once the process has ended.  The result is
\* then added to the thread's own job, which nobody else reads: a Ctrl-C between
\* the check and that is the same as one right after this step.
CargoEnds(a) ==
    /\ pc[a] = "cargo"
    /\ ~interrupted
    /\ \E e \in CargoExits :
          /\ e = "Timeout" => HasTimeLimit(a, CurrentPhase(a))
          /\ job' = [job EXCEPT ![a] = AddPhaseResult(@, CurrentPhase(a), e)]
          /\ Goto(a, AfterPhase(a, e))
    /\ UNCHANGED <<lab, queue, dir, tree, measured, prints, interrupted, faults, output>>

\* Variants of AfterError: the tree is left as it is, or the phase is retried.
FailAtOnce(a) == "failed"
RetryPhase(a) == pc[a]

\* The mutant is reverted before the error is returned.
AfterError(a) == IF HasMutant(a) THEN "revertErr" ELSE "failed"

\* Err from run_cargo: an interrupt, or a failure to start or watch cargo.
CargoErrs(a) ==
    /\ pc[a] = "cargo"
    /\ \/ interrupted /\ UNCHANGED faults
       \/ Fault
    /\ Goto(a, AfterError(a))
    /\ UNCHANGED <<lab, queue, job, dir, tree, measured, prints, interrupted, output>>

\* fingerprints.entry(f): an occupied entry stays as it is.
Enter(f, m) == [fingerprints EXCEPT ![f] = IF @ = None THEN m ELSE @]

\* Variant of MatchOf: names the digest instead of the mutant.
DigestOf(f) == IF f = baselinePrint THEN Baseline ELSE f

\* What a build with digest f is equivalent to, if anything.
MatchOf(f) == IF f = baselinePrint THEN Baseline ELSE fingerprints[f]

\* equivalent_build: the fingerprint of what was just built, if there is one,
\* is looked up and entered under the map's lock.
NewBuild(a) ==
    /\ pc[a] = "equiv"
    /\ \E f \in Fingerprints \cup {None} :
          \/ f = None /\ UNCHANGED fingerprints
          \/ /\ f # None /\ MatchOf(f) = None
             /\ fingerprints' = Enter(f, job[a].scenario)
    /\ Goto(a, "cargo")
    /\ UNCHANGED <<lab, queue, job, dir, tree, measured, equivalentTo,
                   interrupted, faults, output>>

EquivalentBuild(a) ==
    /\ pc[a] = "equiv"
    /\ \E f \in Fingerprints :
          /\ MatchOf(f) # None
          /\ equivalentTo' = [equivalentTo EXCEPT ![job[a].scenario] = MatchOf(f)]
          /\ fingerprints' = IF f = baselinePrint THEN fingerprints
                             ELSE Enter(f, job[a].scenario)
    /\ job' = [job EXCEPT ![a].skip = "Equivalent"]
    /\ Goto(a, "revert")
    /\ UNCHANGED <<lab, queue, dir, tree, measured, interrupted, faults, output>>

\* The message about the match cannot be written: returns without a revert.
EquivalentFails(a) ==
    /\ FailsAt(a, "equiv")
    /\ \E f \in Fingerprints : MatchOf(f) # None
    /\ UNCHANGED <<lab, queue, job, dir, tree, measured, prints, interrupted, output>>

Revert(a) ==
    /\ pc[a] \in {"revert", "revertErr"}
    /\ tree' = Overwritten(dir[a], FileOf[job[a].scenario], Original)
    /\ Goto(a, IF pc[a] = "revert" THEN "finish" ELSE "failed")
    /\ UNCHANGED <<lab, queue, job, dir, measured, prints, interrupted, faults, output>>

RevertFails(a) ==
    /\ FailsAt(a, "revert") \/ FailsAt(a, "revertErr")
    /\ \/ UNCHANGED tree
       \/ tree' = Overwritten(dir[a], FileOf[job[a].scenario], Torn)
    /\ UNCHANGED <<lab, queue, job, dir, measured, prints, interrupted, output>>

-----------------------------------------------------------------------------
(* finish_scenario: add_scenario_outcome under the output lock *)

\* A worker goes on with the next mutant; the main thread keeps the outcome
\* of the baseline to look at.
Leave(a) == job' = IF a = Main THEN job ELSE [job EXCEPT ![a] = Idle]

\* Variant of Listed: unviable mutants are not listed.
ListedIfTested(o) == LastPhaseIs(o, "Test") /\ Summary(o) \in ListFile

Listed(o) == IsMutant(o.scenario) /\ Summary(o) \in ListFile

WithListed(o) ==
    IF Listed(o)
    THEN [lists EXCEPT ![Summary(o)] = @ \cup {o.scenario}]
    ELSE lists

\* outcomes.json is rewritten the first time, then at most every
\* OUTCOMES_WRITE_INTERVAL; never with end_time.
WriteThrottled(l) ==
    \/ json' = Snapshot(l, FALSE)
    \/ labOutcome.outcomes # <<>> /\ UNCHANGED json

FinishScenario(a) ==
    /\ pc[a] = "finish"
    /\ labOutcome' = Add(labOutcome, job[a])
    /\ WriteThrottled(Add(labOutcome, job[a]))
    /\ lists' = WithListed(job[a])
    /\ Leave(a)
    /\ Goto(a, IF a = Main THEN "done" ELSE "queue")
    /\ UNCHANGED <<lab, queue, dir, tree, measured, prints, interrupted, faults>>

\* outcomes.json or the list file could not be written: the outcome is
\* already counted, but not listed.
NotListed(a) ==
    /\ \/ json' \in {json, Unreadable}
       \/ Listed(job[a]) /\ WriteThrottled(Add(labOutcome, job[a]))
    /\ UNCHANGED lists

\* All is written, but scenario_finished is to print a log that cannot be read
\* or is not UTF-8: the thread panics, and join_threads passes that on.
LogUnreadable(a) ==
    /\ WriteThrottled(Add(labOutcome, job[a]))
    /\ lists' = WithListed(job[a])

FinishFails(a) ==
    /\ FailsAt(a, "finish")
    /\ labOutcome' = Add(labOutcome, job[a])
    /\ NotListed(a) \/ LogUnreadable(a)
    /\ Leave(a)
    /\ UNCHANGED <<lab, queue, dir, tree, measured, prints, interrupted>>

-----------------------------------------------------------------------------

\* Ctrl-C.  Nothing clears the flag.
Interrupt ==
    /\ ~interrupted
    /\ stage \notin Ended
    /\ interrupted' = TRUE
    /\ UNCHANGED <<lab, threads, measured, prints, faults, output>>

Terminated == stage \in Ended /\ UNCHANGED vars

RunScenario(a) ==
    \/ StartScenario(a) \/ ScenarioFails(a) \/ SkipUncovered(a) \/ ApplyMutant(a)
    \/ CargoEnds(a) \/ CargoErrs(a)
    \/ NewBuild(a) \/ EquivalentBuild(a) \/ EquivalentFails(a)
    \/ Revert(a) \/ RevertFails(a)
    \/ FinishScenario(a) \/ FinishFails(a)

Work(w) ==
    TakeBuildDir(w) \/ CopyBuildDir(w) \/ CopyFails(w) \/ NextMutant(w) \/ QueueEmpty(w)

MainStep ==
    \/ RejectOptions \/ NoMutants \/ Setup \/ SetupFails
    \/ BaselinePasses \/ BaselineFails \/ BaselineErrs
    \/ FinishLab \/ FailLab

Next ==
    \/ MainStep
    \/ \E a \in Actors : RunScenario(a)
    \/ \E w \in Workers : Work(w)
    \/ Interrupt
    \/ Terminated

Spec == Init /\ [][Next]_vars

-----------------------------------------------------------------------------

\* What main returns to the shell: an Err from test_mutants is status 1.
ExitStatus ==
    CASE stage \in {"finished", "baselineFailed"} -> LabExitCode(labOutcome)
      [] stage = "empty" -> LabExitCode(EmptyLabOutcome)
      [] OTHER -> "Usage"

=============================================================================

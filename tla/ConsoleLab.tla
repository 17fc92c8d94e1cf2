----------------------------- MODULE ConsoleLab -----------------------------
(***************************************************************************)
(* The lab together with the progress display it drives (src/console.rs).  *)
(* The display is one model behind a lock, which every thread updates by   *)
(* calls that name a directory and that panic if the model holds nothing   *)
(* for it; drawing it computes an estimate that panics if the counters or  *)
(* the start time do not fit.  A panic in a thread ends the run.           *)
(*                                                                         *)
(* Every step is a step of the lab with the calls made right after it, or  *)
(* a call that other threads can come before: the copy of a tree, and the  *)
(* report of an outcome that is already recorded.                          *)
(***************************************************************************)
EXTENDS LabProperties

VARIABLES
    copies,     \* copy_models: the threads whose copy is shown
    models,     \* scenario_models: for each directory, the phases shown for it
    n_mutants,  \* with lab_start_time, {} or {the number of mutants}
    timing,     \* mutants_start_time is set
    counts,     \* mutants_done, and mutants_caught ... failures by summary
    unreported, \* outcomes recorded by a thread that is yet to report them
    panicked    \* what a call has panicked over: the display's own state, or a log

console == <<copies, models, n_mutants, timing, counts, unreported, panicked>>
conVars == <<vars, console>>

Idleness == "None"   \* ScenarioModel.phase between phases
Summaries == Bucket \cup {"Failure"}

ConsoleTypeOK ==
    /\ copies \subseteq Actors
    /\ models \in [BuildDirs -> Seq(Phase \cup {Idleness})]
    /\ n_mutants \in SUBSET Nat
    /\ timing \in BOOLEAN
    /\ counts \in [done : Nat, tally : [Summaries -> Nat]]
    /\ \A a \in Actors : unreported[a] \in {<<>>} \cup {<<o>> : o \in ScenarioOutcome}
    /\ panicked \subseteq {"display", "log"}

-----------------------------------------------------------------------------
(* The calls *)

\* An expect, unwrap or debug_assert about what the display holds.
Expect(holds) == panicked' = IF holds THEN panicked ELSE panicked \cup {"display"}

\* start_copy, as copy_tree begins.
StartCopy(a) == copies' = copies \cup {a}

\* finish_copy, with the copy_progress of every file before it.
FinishCopy(a) == Expect(a \in copies) /\ copies' = copies \ {a}

\* scenario_started
Push(ms) == Append(ms, Idleness)

\* find_scenario_mut: the first model of the directory.
ShowPhase(ms, phase) == [ms EXCEPT ![1] = phase]

\* scenario_phase_started
PhaseStarted(d, phase) ==
    /\ Expect(models[d] # <<>>)
    /\ models' = IF models[d] = <<>> THEN models
                 ELSE [models EXCEPT ![d] = ShowPhase(@, phase)]

\* scenario_phase_finished, and scenario_phase_started if another follows.
PhaseFinished(d, phase, next) ==
    /\ Expect(models[d] # <<>> /\ models[d][1] = phase)
    /\ models' = IF models[d] = <<>> THEN models
                 ELSE [models EXCEPT ![d] = ShowPhase(@, next)]

\* Variant of Removed: the model stays.
NotRemoved(d) == models

\* remove_scenario
Removed(d) == [models EXCEPT ![d] = <<>>]

\* scenario_finished
Counted(o) ==
    [done  |-> IF IsMutant(o.scenario) THEN counts.done + 1 ELSE counts.done,
     tally |-> [counts.tally EXCEPT ![Summary(o)] = @ + 1]]

\* lab_finished
ClearScenarios == models' = [d \in BuildDirs |-> <<>>]

-----------------------------------------------------------------------------
(* The main thread *)

ConsoleInit ==
    /\ Init
    /\ copies = {}
    /\ models = [d \in BuildDirs |-> <<>>]
    /\ n_mutants = {}
    /\ timing = FALSE
    /\ counts = [done |-> 0, tally |-> [s \in Summaries |-> 0]]
    /\ unreported = [a \in Actors |-> <<>>]
    /\ panicked = {}

\* discovered_mutants
DiscoveredMutants ==
    /\ stage = "setup"
    /\ ~CoverageImpossible
    /\ n_mutants = {}
    /\ n_mutants' = {Cardinality(mutants)}
    /\ UNCHANGED <<vars, copies, models, timing, counts, unreported, panicked>>

Announced == n_mutants # {}

StartBaselineCopy ==
    /\ stage = "setup"
    /\ Announced /\ mutants # {} /\ ~options.in_place
    /\ Main \notin copies
    /\ StartCopy(Main)
    /\ UNCHANGED <<vars, models, n_mutants, timing, counts, unreported, panicked>>

\* start_testing_mutants, once a baseline has passed or is not wanted.
StartTesting == timing' = (stage' = "testing")

SetupReported ==
    /\ Announced
    /\ Setup
    /\ IF options.in_place
       THEN UNCHANGED <<copies, panicked>>
       ELSE Main \in copies /\ FinishCopy(Main)
    /\ StartTesting
    /\ UNCHANGED <<models, n_mutants, counts, unreported>>

BaselinePassesReported ==
    /\ unreported[Main] = <<>>
    /\ BaselinePasses
    /\ StartTesting
    /\ UNCHANGED <<copies, models, n_mutants, counts, unreported, panicked>>

\* lab_finished comes before OutputDir::finish.
LabEndsReported ==
    /\ \/ FinishLab
       \/ FailLab /\ ~AnyFailed
    /\ ClearScenarios
    /\ UNCHANGED <<copies, n_mutants, timing, counts, unreported, panicked>>

\* The ends that report nothing.
MainUnreported ==
    /\ unreported[Main] = <<>>
    /\ \/ RejectOptions \/ SetupFails \/ BaselineFails \/ BaselineErrs
       \/ NoMutants /\ Announced
       \/ FailLab /\ AnyFailed /\ \A w \in Workers : unreported[w] = <<>>
    /\ UNCHANGED console

-----------------------------------------------------------------------------
(* Scenarios *)

StartScenarioReported(a) ==
    /\ StartScenario(a)
    /\ models' = [models EXCEPT ![dir[a]] =
                     IF HasMutant(a) THEN Push(@)
                     ELSE ShowPhase(Push(@), CurrentPhase(a))]
    /\ UNCHANGED <<copies, n_mutants, timing, counts, unreported, panicked>>

\* The next phase starts at once.
PhaseBegins(a) ==
    /\ ApplyMutant(a) \/ NewBuild(a)
    /\ PhaseStarted(dir[a], CurrentPhase(a))
    /\ UNCHANGED <<copies, n_mutants, timing, counts, unreported>>

PhaseEnds(a) ==
    /\ CargoEnds(a)
    /\ PhaseFinished(dir[a], CurrentPhase(a),
                     IF pc'[a] = "cargo" THEN Phases[Len(job'[a].results) + 1] ELSE Idleness)
    /\ UNCHANGED <<copies, n_mutants, timing, counts, unreported>>

\* The outcome is recorded under the output directory's lock, with a log that
\* can be printed or cannot ...
FinishRecorded(a) ==
    /\ FinishScenario(a) \/ (FinishFails(a) /\ LogUnreadable(a))
    /\ unreported' = [unreported EXCEPT ![a] = <<job[a]>>]
    /\ UNCHANGED <<copies, models, n_mutants, timing, counts, panicked>>

\* ... and reported under the view's, after which the log is read and printed: a
\* thread that fails has something to report only if its log cannot be read.
ReportOutcome(a) ==
    /\ unreported[a] # <<>>
    /\ counts' = Counted(unreported[a][1])
    /\ models' = Removed(dir[a])
    /\ unreported' = [unreported EXCEPT ![a] = <<>>]
    /\ panicked' = IF pc[a] = "failed" THEN panicked \cup {"log"} ELSE panicked
    /\ UNCHANGED <<vars, copies, n_mutants, timing>>

\* Steps of run_one_scenario without a call, errors among them: the model of a
\* scenario that ended in Err stays.
ScenarioUnreported(a) ==
    /\ \/ ScenarioFails(a) \/ SkipUncovered(a) \/ CargoErrs(a)
       \/ EquivalentBuild(a) \/ EquivalentFails(a)
       \/ Revert(a) \/ RevertFails(a) \/ (FinishFails(a) /\ NotListed(a))
    /\ UNCHANGED console

ScenarioReported(a) ==
    \/ StartScenarioReported(a) \/ PhaseBegins(a) \/ PhaseEnds(a)
    \/ FinishRecorded(a) \/ ReportOutcome(a) \/ ScenarioUnreported(a)

-----------------------------------------------------------------------------
(* Workers *)

StartWorkerCopy(w) ==
    /\ pc[w] = "copy" /\ w \notin copies
    /\ StartCopy(w)
    /\ UNCHANGED <<vars, models, n_mutants, timing, counts, unreported, panicked>>

WorkerCopied(w) ==
    /\ w \in copies
    /\ CopyBuildDir(w)
    /\ FinishCopy(w)
    /\ UNCHANGED <<models, n_mutants, timing, counts, unreported>>

WorkUnreported(w) ==
    /\ unreported[w] = <<>>
    /\ TakeBuildDir(w) \/ CopyFails(w) \/ NextMutant(w) \/ QueueEmpty(w)
    /\ UNCHANGED console

WorkReported(w) == StartWorkerCopy(w) \/ WorkerCopied(w) \/ WorkUnreported(w)

-----------------------------------------------------------------------------

MainReported ==
    \/ DiscoveredMutants \/ StartBaselineCopy \/ SetupReported
    \/ BaselinePassesReported \/ LabEndsReported \/ MainUnreported

InterruptUnreported == Interrupt /\ UNCHANGED console
TerminatedUnreported == Terminated /\ UNCHANGED console

ConsoleNext ==
    \/ MainReported
    \/ \E a \in Actors : ScenarioReported(a)
    \/ \E w \in Workers : WorkReported(w)
    \/ InterruptUnreported
    \/ TerminatedUnreported

ConsoleSpec == ConsoleInit /\ [][ConsoleNext]_conVars

\* A thread is one of these at a time.
ThreadReported(a) ==
    \/ ScenarioReported(a)
    \/ a = Main /\ MainReported
    \/ a # Main /\ WorkReported(a)

\* As long as a thread can go on, one of them does, and every cargo process ends
\* or is ended.
FairConsoleSpec == ConsoleSpec /\ WF_conVars(\E a \in Actors : ThreadReported(a))

-----------------------------------------------------------------------------

\* LabModel::render, from any update by any thread: after two mutants it
\* divides by what is done since the start, which must be set, and gives what
\* remains to Duration::from_secs_f64, which panics below zero.
CanRender ==
    \A n \in n_mutants : counts.done > 2 => timing /\ counts.done <= n

\* "unique across all models" (src/console.rs:567): the calls find a model by
\* its directory, so there is one for each scenario that runs, in its phase.
ShowsWhatRuns ==
    /\ \A d \in BuildDirs : Len(models[d]) <= 1
    /\ \A a \in Actors :
          pc[a] = "cargo" => models[dir[a]] = <<CurrentPhase(a)>>

Unreported(s) ==
    Cardinality({a \in Actors : \E i \in DOMAIN unreported[a] :
                    IsMutant(unreported[a][i].scenario) /\ Summary(unreported[a][i]) = s})

\* What the display counts is what outcomes.json counts, less what threads have
\* recorded and not yet reported or failed to report.  "Success" and "Timeout"
\* are left out: the display counts the baseline's too.
CountsWhatIsRecorded ==
    LET short(b) == labOutcome.tally[b] - Unreported(b) - counts.tally[b] IN
    \A b \in Bucket \ {"Success", "Timeout"} : short(b) \in 0 .. faults

\* No thread dies in a call to the display over what the display holds, or in
\* drawing it, whatever the order in which threads copy, start, fail and report;
\* and what it shows is what the lab does (the expects of find_scenario_mut,
\* finish_copy and copy_progress, the debug_assert of phase_finished and the
\* arithmetic of render).  One expect can fail: that a log can be read.  It ends
\* its thread, after the outcome was counted, and the run with an error.
ConsoleFollowsLab ==
    /\ "display" \notin panicked
    /\ "log" \in panicked => stage # "finished"
    /\ CanRender
    /\ ShowsWhatRuns
    /\ CountsWhatIsRecorded

=============================================================================

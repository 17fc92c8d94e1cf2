# Verification of cargo-mutants

TLA+ models of cargo-mutants, TLC configurations that check them on small
instances, and TLAPS proofs of their main properties for every instance. All
paths below are those of the repository.

cargo-mutants makes small changes (mutants) to a Rust tree, builds and tests the
tree with each, and reports those that no test noticed. Two kinds of mistake
would make its reports worthless, and neither is easy to test for: a result that
does not belong to the mutant it is reported for, and a mutant that is silently
not tested. Most of the properties here are about those two.

## 1. Inventory

| Component | Source | State | Operations | Correct if |
|---|---|---|---|---|
| Lab | `src/lab.rs`, `src/cargo.rs`, `src/build_dir.rs` | queue of mutants, fingerprint map, baseline fingerprint, coverage, one build directory per worker | `test_mutants`, `run_baseline`, `run_queue`, `run_one_scenario`, `equivalent_build`, `finish_scenario`, `join_threads` | each mutant is tested once, in a tree that holds it and nothing else, after a good baseline; skips are justified; the tree is restored; a failure is never reported as success |
| Outcome | `src/outcome.rs`, `src/exit_code.rs` | counters, list of outcomes | `add_phase_result`, `summary`, `add`, `exit_code` | the summary, the counters, the list files and the exit status agree |
| Child process | `src/process.rs`, `src/process/unix.rs`, `src/interrupt.rs` | process group, waiter thread, channel, deadline, Ctrl-C flag | `run`, `wait_step`, `wait_for_exit`, `terminate` | the verdict is that of the process, and nothing is left running |
| Child process (windows) | `src/process/windows.rs` | child handle | the same | the same |
| Output directory | `src/output.rs` | `mutants.out`, `mutants.out.old`, `lock.json` | `OutputDir::new`, `acquire_lock`, writes by path, `finish` | one invocation writes to a directory at a time; a killed one blocks nobody |
| Throttled `outcomes.json` | `src/output.rs` | time of the last write | `add_scenario_outcome`, `finish` | the file is never ahead of what was tested, and complete when the run ends |
| Iteration | `src/main.rs`, `src/output.rs`, `src/visit.rs` | `caught.txt`, `unviable.txt`, `previously_caught.txt` | `load_previously_caught`, `write_previously_caught` | a mutant once caught stays excluded |
| Sharding | `src/shard.rs` | none | `Sharding::shard` | the shards partition the list |
| Diff filter | `src/in_diff.rs` | none | `diff_filter`, `affected_lines` | the mutants kept are those the diff touches |
| Discovery | `src/visit.rs` | queue of files, window of threads | `walk_package`, `walk_files` | each file once, results in order, first error reported |
| Mutant generation | `src/visit.rs`, `src/fnvalue.rs` | stacks of scopes, memo of control flow | `DiscoveryVisitor` | stacks balanced, exclusions inherited |
| Coverage | `src/coverage.rs` | covered lines | `read_coverage`, `covers` | a line that a test ran is covered |
| Artifacts | `src/artifacts.rs` | none | `fingerprint_build_artifacts` | a mutant skipped as equivalent would repeat a test |
| Console | `src/console.rs` | models of running scenarios and copies | `scenario_started`, `scenario_finished`, ... | never asked about a scenario it does not know; counts what is recorded |
| Timeouts | `src/timeouts.rs` | two durations | `for_baseline`, `from_baseline` | never zero, never below the minimum |
| Tree copy | `src/copy_tree.rs`, `src/manifest.rs` | none | `copy_tree`, `fix_manifest` | complete, stops on Ctrl-C |
| Workspace | `src/workspace.rs`, `src/package.rs` | packages | `filter_packages`, `default_packages` | explicit names are all found |
| Options | `src/options.rs`, `src/config.rs`, `src/main.rs` | none | merging | precedence |
| Listing and formatting | `src/list.rs`, `src/mutant.rs`, `src/pretty.rs` | none | text and JSON | output only |

How they interact. `main` discovers the mutants, applies iteration, the diff
filter and the shard to the list, makes the output directory and calls
`test_mutants`. The lab's main thread tests the baseline and then starts scoped
worker threads. These share, each under a lock of its own, the iterator over the
mutants, the option that holds the baseline's build directory, the map of
fingerprints, and the output directory; the console has locks of its own. Each
worker calls `run_cargo`, which starts a process and a thread that waits for it.
The Ctrl-C handler sets one flag that all of them poll.

What is hard: the interleaving of workers over four locks; Ctrl-C and I/O errors
between any two steps, with a mutation in the user's own tree under `--in-place`;
the race between a process that ends, its deadline, Ctrl-C and the signal that
terminates it; several invocations that rotate the same directory by path; skips
that rest on results other workers have yet to produce, or on files that earlier
builds have left; a traversal that keeps five stacks and a memo and can leave early
anywhere. `PROJECT.json` lists
each of these at its line under `hazards`.

## 2. Modules

| Module | What it is |
|---|---|
| `Outcome` | results of phases to summary, counters and exit code, as operators |
| `Lab` | the lab; extends `Outcome` |
| `LabProperties`, `LabInvariant` | its properties, and the invariants their proofs need |
| `LabSpec`, `LabRefinement` | what a run promises, with no threads, trees or files; the mapping by which `Lab` implements it |
| `LabProofs` | proofs: trees and threads; the record, skips, the refinement and the display |
| `ConsoleLab` | the lab composed with the progress display it drives |
| `Artifacts`, `ArtifactsProofs` | what `--detect-equivalent-mutants` compares: the files that builds leave; proofs |
| `ChildProcess`, `ChildProofs` | one call of `run_cargo`, and proofs |
| `OutputDir`, `OutputProofs` | several invocations at one `mutants.out`, and proofs |
| `Sessions`, `SessionsProofs` | what one invocation leaves for the next, and `outcomes.json`; proofs |
| `Selection` | `SelectSeq` by positions, so that it can be proved about (operators) |
| `SourceTree`, `InDiff` | packages, files and modules; the filter of `--in-diff` (operators) |
| `Discovery`, `DiscoveryProperties`, `DiscoveryProofs` | from the command line to the mutants that are tested; proofs |
| `ResolvedTrees` | the assumption on the trees of the proofs: where the code and rustc look for a module in the same place |
| `Attributes`, `FnValue` | skips and `exclude_re` patterns; replacement values for a type (operators) |
| `Visitor`, `VisitorProperties`, `VisitorProofs` | the traversal of one file's syntax tree, and proofs |
| `Shard`, `ShardProofs` | sharding, and proofs |
| `MC...` | the instances for TLC |

`RECURSIVE` is used only where nothing is proved: `FnValue` and `MCVisitor`.

A definition named "Variant of ..." in a comment is not part of a model. It is what
the definition it names would be with a plausible mistake in it; `PROJECT.json`
lists under `mutants` which property fails when it takes that definition's place.

### Lab

A thread is an actor: 0 is the main thread, which runs the baseline, and 1 to
`Jobs` are the workers. `pc[a]` is the place of a thread in `run_queue` or
`run_one_scenario`, and `job[a]` the `ScenarioOutcome` it is building. `tree[d]`
is the text of every source file in build directory `d`: the original, one
mutation, or torn by a failed write. Directory 0 is the baseline's, or the user's
own tree under `--in-place`; directory `w` is the copy that worker `w` makes if
the first is taken.

An action is a section under one lock, one run of cargo, or one effect on a tree. Every
`?` that an I/O error can take is an action of its own that uses up one of `MaxFaults`
(`ScenarioFails`, `CargoErrs`, `FinishFails`, ...). `Interrupt` may happen at any time;
each `check_interrupted` is a guard on the flag. `CargoEnds` stands for a call of
`run_cargo`, which `ChildProcess` models in detail: what it assumes of that call (a
process has ended when it returns, its status is its own, no timeout without a time
limit) is what `ChildProcess` shows. A call that looked at the flag just before a Ctrl-C
still has its result counted, as in the code, where `check_interrupted` comes before
`add_phase_result`. The fingerprint of a build and the lines the baseline covers are
arbitrary members of small sets, as is the exit status of cargo. The list of mutants is
arbitrary too, so that whatever discovery, iteration, the diff filter and the shard
leave is covered. Of `outcomes.json` the lab keeps whether it is complete; what it holds
before that is a matter for `Sessions`.

`LabSpec` has one variable for the verdict of each mutant and one for the result
of the run. The mapping: a mutant waits while it is in the queue, is under test
while a worker has it, and its verdict is the summary of the outcome counted for
it.

### ConsoleLab

The console is a model behind one lock. Each step of the lab comes with the calls
made right after it; a call that other threads can come before is a step of its
own: the progress of a copy, and the report of an outcome that is already recorded
(`unreported`). A call that expects a model it does not find puts "display" into
`panicked`, as does the `debug_assert` of `phase_finished`; `CanRender` is what the
arithmetic of drawing needs. The log of a scenario is read to be printed when it is
reported, and an error, or output that is not UTF-8, panics there (`console.rs:119-125`):
"log", after which the thread has failed. `ConsoleFollowsLab` says that the first does
not happen and that the second never ends as a success.

### Artifacts

Between the lab and the file system. A build writes the test executables of the
packages it was asked for and leaves all others as they were; `compiled[x][m]` is
the arbitrary digest of executable `x` with mutant `m` compiled in, restricted to
executables with that mutant's package linked in. A build directory may begin with the
executables of earlier runs (`left`), as it does under `--in-place` and
`--copy-target`. `Fingerprint` is the code's: the digests of every executable that
was listed, or nothing if one of these cannot be opened. A directory entry or a file
mode that cannot be read keeps an executable off the list without an error
(`artifacts.rs:79-81`, `167-169`; `TestExecutables`). `blind` records who was skipped
while an executable of its own was off the list. The baseline may be instrumented for
coverage, and a build may fail after it has replaced some executables.

### ChildProcess

The calling thread (`pc`), the thread blocked in `wait()`, cargo and its tests
(one process group), the clock and Ctrl-C are separate. `wait_step` looks at the
deadline, then the flag, then the channel, in this order; `terminate` signals the
group and blocks for the waiter's message. The exit status of a process that
exits is arbitrary, also after SIGTERM, as a process may catch it. Windows is not
modelled.

### OutputDir

An action is one system call of `OutputDir::new`, or the writes of a run by path.
A directory keeps its identity when it is renamed and is named after the
invocation that made it, so no bound on directories is needed. The lock belongs
to the opened file. `Crash` may strike at any point and, as the system closes the
files of a dead process, gives up its lock. Two calls are coarser than in the
code: the list files are made together with the log and diff directories, and
`remove_dir_all` is one step. `before` and `raced` are history variables: the
runs an invocation found at work when it looked, and whether two invocations were
ever between looking at the directory and having its lock at the same time.

### Sessions

Invocations in one tree that read the three list files one after the other before
they have the lock, rotate the directory, write `previously_caught.txt`, and append
outcomes: to memory, to `outcomes.json` if it was not written in the last half
second, and to a list, if the outcome has one (`SummaryOutcome::Success` and `Failure`
have none). `File::create` empties the file before it is written, and what the
`BufWriter` cannot write when it is dropped is lost in silence (`Torn`). An error of one
of these writes, or of the copy of a tree, ends its worker (`WorkerFails`, `OpenFails`,
`WriteFails`; `failed` counts them), while the others go on with the queue, and record
and write. When all have ended and one had failed the lab ends in an error, without
`finish()`. With no mutants the lab returns before it writes anything (`NoMutants`).
`Die` is a kill, an interrupt or an error of the main thread anywhere. That one
invocation at a time has the directory is taken from `OutputDir`, where
`AloneUnlessRaced` says when it holds. `caught`, `known`, `owner` and `late` are history
variables.

### Discovery

`main` from the arguments to the end of the walk and of the filters. A workspace
(`SourceTree`) has packages with their manifests and targets, and files that each
declare modules, hold mutants, and load well, badly, not at all, with a panic, or
lie outside of the tree. `OpenWorkspace` chooses the packages. Then each package is
walked level by level: a level is a list of files, of which a window of
`Parallelism` is in threads that end in any order, send their result and are
replaced. After a level the modules that its files declared are looked up
(`FindModSource`) and are the next. The removal of what was caught before
(`Iterate`), `FilterDiff` and the shard follow, then listing or testing. Ctrl-C is
noticed between levels.

`InDiff` is `affected_lines` and `partial_new_file` as the code computes them, over
hunks whose line numbers the instance derives from an edit script with an algorithm
of its own.

### Visitor

A syntax tree is a sequence of nodes in the order in which `syn` visits them. One
action is the part of a `visit_*` before the descent, which may push on the stacks
(`namespaces`, `modNamespaces`, `fns`, `excludes`), raise the two depths, collect
mutants, note an error, or return early; `Leave` is the part after it. The memo
(`ControlFlowMemo`) keeps, by node, what its queries have left in it. What makes a
mutant of each of the genres, and with which value, is the code's; `Attributes` is
how it reads attributes, and `FnValue` is the table of replacement values. In
`VisitorProperties` the same is said of the tree alone, by the nodes above a place.

A pattern of `exclude_re`, `--re` or `--exclude-re` is matched with the name of a
mutant, which has its place, its genre and its replacement in it: `Matches` is any
relation of patterns and candidates (node, genre, value), so that a pattern may drop
one of several replacements.

Two steps are coarser than in the code: the push, early return and pop within
`in_exclude_re_scope` for a node that is skipped are one step that does nothing, so
that an early return that forgets the pop there is not seen; and `syn`'s parse of an
attribute's list is the words, lists and values before the place it fails at.

`FnValue` has tuples of any number of members. For some types the code gives values of
another type, and `IsMisfit` names them: what `str` and slices are replaced by is a
reference, which fits behind `&` and in `Cow` but not in `Box`, `Arc`, `Rc` or behind
`&mut` (for `str`); a `Cow` of anything else gets an owned value as if it were
borrowed; and `(A,)` gets `(a)`, which is not a tuple. Such a mutant does not compile.
`ReplacementsHaveType` is about all other types.

### Shard

A mutant is its index. Machines run their shards in any order and may run one
again.

## 3. What the runs show

| Run | Instance | Properties |
|---|---|---|
| `lab_queue` | the lab with its console: 2 workers and copies, with a baseline, or 1 worker in place without; lists of none, one and three mutants in two files; 1 I/O error, Ctrl-C | `EachMutantOnce`, `BaselineComesFirst`, `ListsMatchCounters`, `SuccessIsComplete`, `ConsoleFollowsLab`, `EventuallyEnds` |
| `lab_refines` | 2 workers, or 1 in place, every list of 2 mutants, 2 digests, 2 lines, timeouts, all options; 1 I/O error, Ctrl-C | `TypeOK`, `BuildsOneMutation`, `SkipsAreJustified`, `TreesRestored`, `ImplementsLabSpec` |
| `artifacts` | 2 workers, 3 mutants in 2 packages, 3 test executables of which 1 may be unreadable, with and without those of an earlier run, 1 build that fails part-way, all ways the mutants may compile to equal code | `SkipsRepeatATest` |
| `child_calls` | 2 tests, with and without a deadline, 1 I/O error | `GoneBeforeReturn`, `VerdictIsOwn`, `StopsEventually` |
| `output_runs` | 3 invocations, kills and Ctrl-C anywhere | `AloneUnlessRaced`, `LaterRunsWait`, `EveryRunEnds` |
| `sessions` | 3 invocations of 2 workers, 2 mutants, with and without `--iterate`, I/O errors and kills anywhere | `OnlyCaughtIsSkipped`, `NothingIsForgotten`, `OutcomesAreKept` |
| `discovery` | 6 trees, 2 threads, some 2000 diffs | `WalkIsSerial`, `WindowIsFull`, `ModulesFollowRust`, `DiffMarksEveryChange`, `TestsWhatIsDue` |
| `visitor_trees` | 9 120 syntax trees, of which 3 814 are return types, each with and without `--re` and `--exclude-re` | `StacksFollowPath`, `MutantsFitTheirPlace`, `NothingIsMissed`, `ControlFlowIsKept`, `NoDuplicates`, `LiteralsFlip`, `ReturnsFitTheirFunction`, `ExternalModsKeepPath`, `WrittenExcludesHold`, `ReplacementsHaveType` |
| `shard_all` | up to 9 mutants, 5 shards | `EachMutantOnce`, `RoundRobinIsEven` |

Three runs have a counterexample, because the code and a sentence about it
disagree. Each is described in `PROJECT.json` under `findings`.

| Run | Sentence | What happens |
|---|---|---|
| `output_shared` | `src/output.rs:40`, `lock.json` keeps two invocations from writing to the same `mutants.out` | the lock is dropped before the directory is renamed; an invocation that passed it renames a directory another has since made, locked and is testing in |
| `lab_exit_signal` | `book/src/exit-codes.md:5`, status 0 means every viable mutant that was tested was caught | a mutant whose cargo was killed by a signal is counted nowhere, and the status is 0 |
| `visitor_filters` | `book/src/filter_mutants.md:3`, mutants are filtered by name with `--re` and `--exclude-re` | the deletion of a struct field is generated without asking either |

### Bounds, and why they suffice

Two workers and two mutants are the least with which workers race for the queue,
the baseline's directory and a fingerprint. A third mutant (`lab_queue`) lets one
worker come back to the queue while the other is still busy, and in another file
shows that a revert restores the right one. Two digests make equal and different
builds, and with the baseline's, all three cases of the lookup. One I/O error is
enough to reach each error path; further errors only end further threads
(`ListsMatchCounters` counts them).

In `artifacts` the package with two mutants and two executables makes builds that
agree in one executable and not in the other, and the second package makes stale
ones. What an earlier run has left is nothing, or its last mutant's version of one
executable: one such file next to unmutated ones is enough for a mixture. One
executable may not be listed or read: with it missing, the other mutants are told apart
by less. Three invocations are the least for one to wait while another is overtaken by
a third (`output_runs`), or to read what a second left of a first (`sessions`).
There, two workers let one fail while the other goes on to record, and two mutants are
one for each.
Nine mutants on five shards include lists that are shorter than, equal to and
longer than the number of shards, with and without a remainder.

The trees of `discovery` have every way to name a module, from roots, `mod.rs` and
other files, in blocks and outside, with `#[path]` and without; levels of several
files, with unreadable files and panics next to good ones; and a virtual workspace
with a member outside of the root, with invocations from several directories. With two threads
a window is refilled while another thread is at work, which is what its count has
to survive. The diffs come from all edit scripts that lead to a file of four
lines with up to three others deleted, divided into hunks with one and three lines of
context; besides them there are diffs of several files, and each error.

The trees of `visitor_trees` put attributes on up to two of three nested scopes of
every kind; a statement with control flow nested to depth two in front of each of
several others, so that the memo is asked again about parts of earlier questions;
matches with guards, nested; bodies of one and two statements with literals and
returns, also in closures and in functions within them; nested modules; struct
literals; and functions of every return type up to depth two (2 542 types, and 1 272
more with a Misfit somewhere). One pattern matches whole genres and one of the three
replacements of `<`, the other one value wherever it is put. The theorems below hold without any bound.

### Fairness

`FairConsoleSpec`: as long as a thread of the lab can go on, one of them does, and cargo
ends or is ended. The first is less than what the scheduler gives, and enough because no
thread goes round for ever. The second is what `StopsEventually` gives when a timeout
applies, and is an assumption about the user's tests otherwise. No fairness is assumed
of errors alone, of Ctrl-C or of any one branch; the locks are held only within one
action.

`ChildProcess!FairSpec`: the caller and the waiter are scheduled, and time
passes. `PoliteSpec`, which `child_calls` uses, adds that a cargo that has been sent
SIGTERM exits. The code relies on that: a process that ignores the signal holds the
call for ever.

`OutputDir!FairSpec`: an invocation is scheduled and its tests end. Weak fairness
is enough for the lock although `try_lock` is polled, since every other holder
passes once.

## 4. Proofs

All are checked by TLAPS with no unproved leaf, for every value of the constants:
any number of mutants, workers, invocations, test processes, errors and shards,
any syntax tree, workspace, command line and diff. They assume only the named assumptions on constants
(`LabAssumption`, `MutantsFinite`, `BaselineAssumption`, `ProcessAssumption`,
`RunsAssumption`, `SessionsAssumption`, `ShardAssumption`, `ArtifactsAssumption`,
`VisitorAssumption`, `PatternsAssumption`, `ReturnsAssumption`, `DiscoveryAssumption`,
`ModulesAssumption`, `InvocationsAssumption`). The last six are about the input. `VisitorAssumption` says what a syntax tree is: the nodes of a subtree come
right after its root (`IsTree`), and the children of each kind of node are those that
syn's grammar gives it (`IsSyntax`: an `if` has one condition and one branch, an arm is
in a match, a function that is not `required` has a block as its body). It also says
that every function's type has a list of replacement values. `ReturnsAssumption` says
that a list has each value once (`unique_by` sees to it for a `Result`, the way the
values are put together elsewhere), that no value is an operator or nothing at all, and
that the list of `bool` has both. An enum that declares a variant twice, under two
`cfg`s, does not fit it: two mutants are then the same text. `PatternsAssumption` keeps patterns apart from words.
`DiscoveryAssumption` says what cargo accepts: every package and every target
is there, and each package has a directory to itself (`IsWorkspace`). `ModulesAssumption`
says of the mod statements that each names one file at most, which rustc demands, and
that a file that `#[path]` names is a `mod.rs` or declares no modules (`IsResolved`).
The last part rustc does not demand. It is there because `ModulesFollowRust` is false
without it (section 5), and the theorems about the walk say nothing about the trees
that it leaves out. Files may name each other in a
circle: the theorems then say that a walk that does not end keeps the properties.
`InvocationsAssumption` says that the patches of a diff are what git writes for some edit
scripts, with at least one line of context and one patch for a path (`IsDiff`). TLC evaluates these assumptions on
the trees, types, workspaces and diffs of the runs.

* `LabProofs`. `Inductive` proves `IndInv`: types, that a thread's job fits its
  place (`JobsFit`), that a directory has one owner (`DirsOwned`), and that the
  main thread and the workers take turns (`StagesInOrder`). The types alone are
  not inductive: that a phase exists for the next result needs the number of
  results to fit the place. On top of it:
  * `OneMutation` proves `BuildsOneMutation` with `TreesFollow`: a directory holds
    a mutation exactly between apply and revert of the worker that owns it. It
    needs the owner to be unique, which needs the directory to be taken and not
    only looked at.
  * `Restored` proves `TreesRestored`, with `ThreadsJoined` besides: the lab does
    not end before its threads, so that no mutation is still to be reverted.
  * `Once` proves `EachMutantOnce`.
  Then what is recorded, and its order:
  * `BaselineFirst` proves `BaselineComesFirst` with `BaselineKept`: once a mutant
    has left the queue the record begins with a baseline that passed.
  * `Complete` proves `SuccessIsComplete`. Status 0 means a zero in the counters
    that lead to another status (`TallyTells`) and a lab that ended in one of a few
    ways (`EndsProperly`), of which only one has an empty queue and idle workers;
    `Once` then puts every mutant into the record.
  * `ListsAgree` proves `ListsMatchCounters`: a step that appends an outcome and
    one that fails to list it are the only ones that move either side (`ListsStep`).
  * `SkipsJustified` proves `SkipsAreJustified` with `SkipInv`. Its core is that a
    digest is entered for a mutant in the same section of the lock in which that
    mutant is found to be the first, after which it goes on to its tests and nothing
    can turn it back except an error of its worker (`WillTest`, `PrintsAreTested`).
    So no skip names a skip, and when the run has finished, which no failed worker
    lets it, the mutant named has been tested.
  * `Refinement` proves `ImplementsLabSpec`: `Init` maps to `Init`, and each step of
    the main thread, a worker or a scenario to a step of `LabSpec` or a stutter. It
    needs `EndsProperly`, so that completion is only reported when every mutant has a
    verdict, and `OneOutcome`, so that a verdict never changes. `LabSpec` has no
    fairness, so nothing about liveness is part of it.
  * `DisplayFollows` proves `ConsoleFollowsLab` of `ConsoleSpec`, every step of which is
    a step of the lab or leaves it alone (`DisplayedSteps`), so that all the invariants
    of the lab hold there. `DisplayInv` adds what is shown. The model of a directory
    exists from the start of a scenario to its report (`ModelsFit`), which needs that no
    other thread has that directory (`Apart`), that a worker does not go on before it
    has reported, and that the directory of the baseline is cleared before the first
    worker takes it. The clock runs before anything is counted (`ClockFits`), and what is
    done and what is yet to be reported are together no more than the record
    (`DoneFits`), which `EachMutantOnce` bounds by the number of mutants: so the estimate
    of the time that remains is never negative. A panic over a log leaves a thread that
    has failed (`LogFits`), and with one of those the lab does not end as finished.
* `ArtifactsProofs`. `SkippedIsTested` proves `SkipsRepeatATest` with
  `ArtifactsInv`. A skip compares all files that are listed, of which most are not those
  of the mutant, so the invariant explains every file of every directory
  (`DirsExplained`): the executables of the mutant that was last built there are its
  own, and any other is unmutated, or has been tested, or no test has seen it, because
  an earlier run left it, or a build that failed, or one that was skipped with an
  executable off the list. So is every fingerprint in the map: a mutant that would build
  those very files again repeats a test, or is such a mixture (`PrintsExplained`,
  `FoundExplained`). `IsLeftover` is the exception and is in the property: both are
  skips that the code should not make (section 5).
* `ChildProofs`. `ChildInv` ties the caller to the process through the one message
  of the waiter: `Gone` and `OwnVerdict` follow.
* `OutputProofs`. `BeforeInv` says that an invocation that found another at work
  has come no further than that one's lock (`LaterWait`); `RaceInv` that as long
  as one at a time prepares, no one moves while another tests except to that lock
  (`AloneTheorem`). Both need `LockInv`: a lock has one owner, and a name is fresh.
* `SessionsProofs`. `SkipsOnlyCaught` and `ForgetsNothing` from `SessionInv`. What is
  known is in the directory at all times but one (`DirectoryKnows`): between the
  rotation and the write it is only in the memory of the invocation that rotates.
  `WaitersKnow` says how much of it an invocation has read that has been alone so far.
  `KeepsOutcomes` proves `OutcomesAreKept` with `RecordInv`, which counts the outcomes
  that are not in their list (`MissingAt`): one for each worker that has failed at most,
  and one more while a worker is between `outcomes.json` and the list, or was killed
  there (`Settled` says when not).
* `ShardProofs`. `Partition`: the remainder of the index, or its quotient by the
  chunk, is the one shard that selects it; `ShardsOnce` follows. `RoundRobinEven`
  maps the mutants of one shard, but for its first, one to one into those of another:
  each to the one that was dealt to the other in the round before (`DealtBefore`).

* `VisitorProofs`, about every syntax tree. `StacksInv` says that what is open is the
  path to the next node (`PathInv`), and that each stack and each depth is what that
  path demands (`ScopesInv`, `DepthsInv`, `GuardsInv`). It is kept because a handler
  that enters a node pushes what its kind demands, one that returns early pushes
  nothing and goes on after all that is below, and `Leave` pops exactly what was
  pushed (`EntersPath`, `PassesPath`, `LeavePath`). The guards are the hard part: that
  `truncate` cuts off the guards of the match that is left, and no others, needs them
  to be in the order of the tree (`GuardsLast`). From it:
  * `StacksArePath` proves `StacksFollowPath`.
  * `MutantsFit` and `ReturnsFit` prove `MutantsFitTheirPlace` and
    `ReturnsFitTheirFunction` with `MutantsInv`: the candidates of each handler
    come from the node it visits (`CandidatesFitTheirPlace`), and what is on the stacks
    at that moment is what is above it in the tree (`EnteredIs`).
  * `ExcludesAreUsed` proves `WrittenExcludesHold`: a walk that ends without an error has
    come to no failing node (`NoneFails`, from `ErrorInv`), so what is written is what
    the stack gets (`WrittenIsRead`), and a mutant is asked about all of the stack
    (`MutantsInv`).
  * `ExternalModsArePlaced` proves `ExternalModsKeepPath`: the modules to look up are
    those declared so far, each with the modules that were around it (`ExternalInv`).
  * `FlowIsKept` proves `ControlFlowIsKept` with `FlowInv`: every entry of the memo is
    what escapes from that subtree, whatever was asked before. The code goes down
    the tree by recursion and `Escapes` is said of whole paths: that the two agree is an
    induction from the leaves up (`FlowIs`).
  * `NothingIsLost`, `LiteralsAreFlipped` and `NothingIsTwice` prove `NothingIsMissed`,
    `LiteralsFlip` and `NoDuplicates` with `DueInv`. It says what is due at a node in
    terms of the tree alone (`DueAt`), value by value and for all eleven genres, and that
    the mutants so far are those due at the nodes visited so far, each made once: what a
    handler makes is what is due (`MadeIsDue`), it makes nothing twice
    (`CandidatesAreOnce`), and no handler comes back to a node. That two genres keep out
    of each other's places (`DueSuits`, `Apart`) is where the grammar is needed: the
    literal that is the whole body, or the guard of an arm, has one parent.

  Trees need induction (`AboveIs`, `GuardsLast`). It is done on sets of numbers, each
  of which has a least member (`Least`), so that no theorem with an operator
  parameter is used.

* `DiscoveryProofs`, about every workspace, invocation, diff and number of threads. Two
  invariants carry it.

  `WalkInv` is about one level (`WalkSafe`). Every file before `next` has its result, or
  its thread, or its message in the channel, and only one of them; the others have
  none; and a result is that of its own file. `WindowTheorem` counts what is left
  and proves `WindowIsFull`.

  `Progress` says how far discovery has come (`ProgressSafe`). During the walk the
  packages are those before and those left (`Journey`); the files and mutants are those
  of the packages before, and of the entries that this package's levels have gone
  through. For the package at hand there is a trail: the entries seen and the entries
  next are such that the serial walk of the rest, from what is done, is the serial walk of the
  package; and together they are files of its crate, which has all the modules of the
  entries seen. The walk goes level by level and the serial walk entry by entry: that a
  whole level moves the trail on is an induction along the level (`TrailLevel`). After
  the walk `Progress` says which mutants each stage has kept.
  * `WalkTheorem` proves `WalkIsSerial`: a trail with nothing left is the serial walk, and
    the first bad result of a level is where the serial walk stops (`LevelFails`).
  * `ModulesTheorem` proves `ModulesFollowRust`. The crate is the least set that is
    closed under mod statements (`CrateCloses`), and the code's search for a module finds the
    file that the Rust reference names, with the same right to have modules beside it
    (`ModulesAgree`). That is where `IsResolved` is needed.
  * `DiffTheorem` proves `DiffMarksEveryChange` with `Good`, which says what
    `affected_lines` has after i lines of the edit script: the lines that the script has
    changed so far, in order, the one before a deletion among them. A hunk leads from
    its first line to its last (`HunkLeads`); the lines between two hunks change nothing
    (`Gap`). The context of one line is needed here: with none a hunk may end in a
    deletion, and the line after it is not marked.
  * `DueTheorem` proves `TestsWhatIsDue`: the mutants kept at each stage, by what they
    are, are those that `Due` takes from the files of the crates (`DueMutantsAre`,
    `DueAre`), since by `DiffTheorem` the filter touches what the edits touch.

  The walk, the closure, `SelectSeq` and `FlattenSeq` are recursive functions. That a
  function that is given by recursion exists and unfolds is itself proved by induction
  on sets of numbers (`Recursion`); the serial walk need not end, so that it
  unfolds is shown for functions that go on to a next argument, whether or not the
  arguments come to an end (`Unfolds`).

Only model-checked: all liveness (`EventuallyEnds`, `StopsEventually`,
`EveryRunEnds`), which is out of the prover's reach; and `ReplacementsHaveType`, an
induction over types whose definitions are `RECURSIVE` operators.

## 5. Where the models and the documents differ

The findings in `PROJECT.json` have runs. Modelling showed the following besides,
which no run is spent on.

* `src/process.rs:130` says that terminate acts "initially gently and then harshly".
  There is only SIGTERM, and then a wait without limit.
* `book/src/shards.md:54` says that shards differ by one mutant at most. With
  `slice`, 4 mutants on 3 shards are 2, 2 and 0. `RoundRobinIsEven` is about
  round-robin only.
* `src/output.rs:31` says that the interval is how far `outcomes.json` may be behind. It
  is not rewritten when the interval ends, so it may be behind for as long as the next
  mutant takes, and for ever if the run is killed meanwhile. `OutcomesAreKept` claims no
  bound in time: what is in the file is a prefix of the outcomes, and all of them when
  the run is done.
* A worker whose write of `outcomes.json` or of a list fails ends with its outcome in
  memory and in no list, and the next write by another worker puts that outcome into
  `outcomes.json`. `OutcomesAreKept` allows one such outcome for each failed worker.
* `book/src/equivalent-mutants.md:31` says that a skipped mutant has the binaries of
  another. The fingerprint is over all files in `deps`, so after a mutant of one
  package a mutant of another package that compiles to unmutated code is reported as
  identical to the former. `SkipsRepeatATest` shows that the skip is justified all
  the same, with exceptions (`IsLeftover`): executables that no test of this run has
  seen, left by earlier runs under `--in-place` and `--copy-target`, by builds that
  failed part-way, or by skips without a look at all executables, may make a mixture
  that equals another mutant's. With `--baseline=skip` the mixture may be compared before
  any test at all.
* With `--test-workspace` the baseline builds only packages that have mutants, and
  with `--skip-uncovered` it is instrumented. Its fingerprint then seldom or never
  matches: fewer skips, none of them wrong.
* `book/src/attrs.md:103-106` says that `exclude_re` in a `cfg_attr` is always honoured,
  whatever the condition. After a condition with arguments or a value, such as
  `any(..)` or `feature = ".."`, the parse of the list fails, and the attribute is
  without effect (`Reached`; `visit.rs:1815-1820`, `1861`); so is `mutants::skip`
  there. On `const` and `static` items `exclude_re` is never read at all, since
  `visit_item_const` and its like (`visit.rs:887-951`) open no scope.
  `WrittenExcludesHold` is about what is read.
* `src/artifacts.rs:100-102` says that missing information is never interpreted as
  equivalent. A directory entry or a file mode that cannot be read
  (`artifacts.rs:79-81`, `167-169`) leaves its executable out of the fingerprint
  without an error, so a mutant that differs just there is skipped. That is one
  of the exceptions in `SkipsRepeatATest` (`blind`).
* `DESIGN.md:118` says that a `mod` statement names another file that must be walked.
  `rustc` treats a file named by `#[path]` like a `mod.rs` and looks for its modules
  beside it; `find_mod_source` (`visit.rs:1631-1643`) looks in a directory of the
  file's name (`SearchDir`), warns in its log, and walks on without the module. With
  `#[path = "odd.rs"] mod q;` in `src/lib.rs` and `mod c;` in `src/odd.rs`, no mutant of
  `src/c.rs` is tested. `ModulesAssumption` leaves such trees out.
* `book/src/mutants.md:92-93` gives `<` and `>` two replacements each; the code, the
  model and `NothingIsMissed` have three (`visit.rs:1078-1079`).
* Some types get replacement values of another type (`IsMisfit`, section 2).
* `return true` to `return false` in a body of other statements is generated twice,
  as `ReturnValue` and as `BoolLiteral`; a body that is one bool literal with a return
  type not spelled `bool` by neither. `NoDuplicates` and `LiteralsFlip` name both.
* `DeleteStatement` is generated by the block, before the attributes of the call
  itself are looked at: `book/src/attrs.md:65-68` has `mutants::skip` apply to the call.
* The depth of closures stays above zero in a function within a closure, and that of
  const evaluation in a function within a const.
* A file that two `mod` statements or two targets name is walked for each; so is a
  package named twice. Modules that name each other by `#[path]` would be walked for
  ever, which the compiler accepts only behind a `cfg` that is off.
* Diffs with no context put deletions off by one, and several patches for one path
  give `binary_search` lines that are not sorted. Git writes neither by default.
  `IsDiff` leaves both out.

## 6. Not modelled, and why

* The contents of files, names, diffs and logs: nothing that the properties say
  depends on them. A mutation is its mutant's name.
* Arguments for cargo, features, the environment and the jobserver: they change a
  command line. Which packages a mutant's tests are taken from is in `Artifacts`.
* Durations: `Lab` has a time limit or none, `ChildProcess` a deadline that passes
  at any moment. `timeouts.rs` is one floating-point expression with no state.
* The number that a process has: that the system may reuse it between the waiter's
  `wait()` and the caller's `killpg` is listed as a hazard without a property.
* Windows, whose `wait_step` is the same.
* The merging of command line, environment and configuration (`options.rs`,
  `config.rs`): it happens once, before anything else. What options do is in the
  modules they affect.
* What `copy_tree` leaves out, reflinks, symlinks and `manifest.rs`: file-system
  detail. A copy succeeds or fails, with its progress on the console.
* The LLVM tools and their JSON: coverage is a set of lines, or several.
* Text: drawing of the progress bar, colours, annotations, `list.rs`, `pretty.rs`,
  spans, and the schema of the configuration.

---------------------------- MODULE LabInvariant ----------------------------
(***************************************************************************)
(* The inductive invariant of the lab: what its proofs rest on, in named   *)
(* parts.  LabProofs proves it.                                            *)
(***************************************************************************)
EXTENDS LabProperties

AtRest == {"new", "copy", "queue", "done"}

\* The job in a thread's hands fits the place where the thread is.
JobsFit ==
    /\ job[Main].scenario = Baseline
    /\ \A w \in Workers :
          /\ pc[w] \in InScenario => HasMutant(w)
          /\ pc[w] \in AtRest => ~HasMutant(w)
    /\ \A a \in Actors :
          /\ pc[a] \in {"new", "start", "diff"} => job[a].results = <<>>
          /\ pc[a] = "cargo" => Len(job[a].results) < Len(Phases)
          /\ pc[a] = "equiv" => Len(job[a].results) = 1 /\ ~options.check_only
    /\ pc[Main] \notin {"diff", "equiv", "revert", "revertErr", "copy", "queue"}

\* A worker works in the baseline's directory or in its own, and at most one
\* worker has the baseline's.
DirsOwned ==
    /\ pc[Main] \in InScenario => dir[Main] = 0
    /\ \A w \in Workers :
          /\ dir[w] \in {NoDir, 0, w}
          /\ pc[w] \in {"queue", "done"} \cup InScenario => dir[w] # NoDir
          /\ pc[w] \in {"new", "copy"} => dir[w] = NoDir
          /\ pc[w] = "copy" => \E v \in Workers : dir[v] = 0
    /\ \A v, w \in Workers : dir[v] = 0 /\ dir[w] = 0 => v = w

\* The main thread is alone until the baseline is done, and idle afterwards.
StagesInOrder ==
    /\ stage = "setup" => pc[Main] = "new"
    /\ stage \in {"setup", "baseline"} => \A w \in Workers : pc[w] = "new"
    /\ stage # "baseline" => pc[Main] \notin InScenario
    /\ stage \in {"setup", "baseline"} /\ pc[Main] \in {"new"} \cup InScenario =>
          labOutcome.outcomes = <<>>
    /\ stage = "setup" => queue = mutants

IndInv == TypeOK /\ JobsFit /\ DirsOwned /\ StagesInOrder

-----------------------------------------------------------------------------

Mutated(m) == [Pristine EXCEPT ![FileOf[m]] = m]

\* A worker's directory holds its mutation only between apply and revert, and
\* its own copy does not exist before it has made it.
Follows(w) ==
    /\ pc[w] \in {"cargo", "equiv", "revert", "revertErr"} =>
          tree[dir[w]] = Mutated(job[w].scenario)
    /\ pc[w] \in {"start", "diff", "finish", "queue", "done"} =>
          tree[dir[w]] = Pristine
    /\ pc[w] = "failed" /\ faults = 0 /\ dir[w] # NoDir => tree[dir[w]] = Pristine
    /\ dir[w] # w => tree[w] = Pristine

\* The main thread never writes to a tree.
TreesFollow ==
    /\ \A w \in Workers : Follows(w)
    /\ (\A w \in Workers : dir[w] # 0) => tree[0] = Pristine

\* The scope of the worker threads: a thread that is not spawned never moves, and
\* the lab does not end before those that were.
ThreadsJoined ==
    /\ \A w \in Workers : w \notin Spawned => pc[w] = "new"
    /\ stage \in Ended => \A w \in Workers : pc[w] \in {"new", "done", "failed"}

-----------------------------------------------------------------------------

\* The record starts with a baseline that passed.
BaselinePassed ==
    /\ labOutcome.outcomes # <<>>
    /\ labOutcome.outcomes[1].scenario = Baseline
    /\ LastIs(labOutcome.outcomes[1], "Success")

\* Until the main thread has looked at the baseline, it is all there is; after
\* that it has passed.
BaselineKept ==
    /\ stage = "baseline" => options.baseline = "Run"
    /\ options.baseline = "Run" =>
          /\ stage = "testing" \/ queue # mutants => BaselinePassed
          /\ stage = "baseline" /\ pc[Main] = "done" => labOutcome.outcomes = <<job[Main]>>

\* A counter at zero means that no mutant has that summary.
TallyTells ==
    \A b \in Bucket : labOutcome.tally[b] = 0 =>
        \A i \in DOMAIN labOutcome.outcomes :
            LET o == labOutcome.outcomes[i] IN IsMutant(o.scenario) => Summary(o) # b

\* What ends a run: an empty queue, all workers done and outcomes.json written,
\* or a baseline that failed.
EndsProperly ==
    /\ stage \in {"baseline", "testing", "finished"} => mutants # {}
    /\ \A w \in Workers : pc[w] = "done" => queue = {}
    /\ stage = "finished" => /\ \A w \in Spawned : pc[w] = "done"
                             /\ json = Snapshot(labOutcome, TRUE)
    /\ stage = "baselineFailed" =>
          \E i \in DOMAIN labOutcome.outcomes :
              /\ ~IsMutant(labOutcome.outcomes[i].scenario)
              /\ ~Succeeded(labOutcome.outcomes[i])

-----------------------------------------------------------------------------

\* The first build with a digest goes on to the tests, unless its worker fails.
WillTest(r) ==
    \/ \E w \in Workers :
          /\ job[w].scenario = r
          /\ \/ pc[w] = "cargo" /\ Len(job[w].results) = 1 /\ ~options.check_only
             \/ pc[w] \in {"revert", "finish"} /\ RanTests(job[w])
             \/ pc[w] \in {"revertErr", "failed"}
    \/ r \in Recorded /\ RanTests(OutcomeOf(r))

\* What is looked up exists before anything is looked up.
MeasuredFirst ==
    stage \in {"setup", "baseline"} =>
        coverage = {} /\ \A m \in Mutants : equivalentTo[m] = None

PrintsAreTested ==
    \A f \in Fingerprints : fingerprints[f] \in Mutants =>
        equivalentTo[fingerprints[f]] = None /\ WillTest(fingerprints[f])

MatchesArePrints ==
    \A m \in Mutants :
        /\ equivalentTo[m] = Baseline => baselinePrint # None
        /\ equivalentTo[m] \in Mutants =>
              equivalentTo[m] # m /\ \E f \in Fingerprints : fingerprints[f] = equivalentTo[m]

NotYetCompared ==
    /\ \A m \in queue : equivalentTo[m] = None
    /\ \A w \in Workers :
          HasMutant(w) /\ pc[w] \in {"start", "diff", "cargo", "equiv"} =>
              equivalentTo[job[w].scenario] = None

\* Of an outcome skipped as uncovered.
NeverRan(o) ==
    /\ o.results = <<>>
    /\ o.scenario \notin ConstEval
    /\ \E covered \in coverage : LineOf[o.scenario] \notin covered

UncoveredNeverRan ==
    /\ \A a \in Actors : job[a].skip = "Uncovered" => pc[a] = "finish" /\ NeverRan(job[a])
    /\ \A i \in DOMAIN labOutcome.outcomes :
          labOutcome.outcomes[i].skip = "Uncovered" => NeverRan(labOutcome.outcomes[i])

SkipInv ==
    MeasuredFirst /\ PrintsAreTested /\ MatchesArePrints /\ NotYetCompared /\ UncoveredNeverRan

=============================================================================

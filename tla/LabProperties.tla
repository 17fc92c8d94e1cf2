--------------------------- MODULE LabProperties ---------------------------
(***************************************************************************)
(* What must hold of the lab, whatever the scheduling of its threads, the  *)
(* results of cargo, the I/O errors and the moment of a Ctrl-C.            *)
(***************************************************************************)
EXTENDS Lab

-----------------------------------------------------------------------------
(* Where each mutant is *)

Recorded ==
    {labOutcome.outcomes[i].scenario : i \in DOMAIN labOutcome.outcomes} \ {Baseline}

Held == {job[w].scenario : w \in Workers} \ {Baseline}

\* A mutant leaves the queue for the hands of one worker, and its hands for
\* the record: it is never tested by two workers, never recorded twice, and
\* never dropped except by a worker that failed while it held it (run_queue,
\* run_one_scenario and add_scenario_outcome take three different locks).
EachMutantOnce ==
    /\ mutants = queue \cup Held \cup Recorded
    /\ queue \cap (Held \cup Recorded) = {}
    /\ Held \cap Recorded = {}
    /\ \A v, w \in Workers :
          HasMutant(v) /\ job[v].scenario = job[w].scenario => v = w
    /\ \A i, j \in DOMAIN labOutcome.outcomes :
          labOutcome.outcomes[i].scenario = labOutcome.outcomes[j].scenario => i = j

-----------------------------------------------------------------------------
(* Build directories *)

\* The tree cargo is looking at holds exactly the mutation under test, whole,
\* and nothing left by an earlier scenario or by another thread; the baseline
\* is built from the unmutated tree.
BuildsOneMutation ==
    \A a \in Actors :
        pc[a] \in {"cargo", "equiv"} =>
            tree[dir[a]] = IF HasMutant(a)
                           THEN [Pristine EXCEPT ![FileOf[job[a].scenario]] = job[a].scenario]
                           ELSE Pristine

\* Once the run has ended every build directory, the user's own tree under
\* --in-place included, is as it was: Ctrl-C at any point never leaves a
\* mutation behind.  Only an I/O error may.
TreesRestored ==
    stage \in Ended /\ faults = 0 => \A d \in BuildDirs : tree[d] = Pristine

-----------------------------------------------------------------------------
(* What a skip rests on *)

OutcomeOf(m) ==
    LET i == CHOOSE i \in DOMAIN labOutcome.outcomes : labOutcome.outcomes[i].scenario = m
    IN  labOutcome.outcomes[i]

RanTests(o) == \E i \in DOMAIN o.results : o.results[i].phase = "Test"

\* A mutant skipped as equivalent to another names one that was not itself
\* skipped, so that no chain or cycle of skips stands in for a test; and by the
\* time a run finishes, the mutant named has been through the test phase.  A
\* mutant skipped as uncovered was never written into a tree, and no test that
\* the baseline ran started on its line.
SkipsAreJustified ==
    /\ \A m \in Mutants : equivalentTo[m] = Baseline => baselinePrint # None
    /\ \A m \in Mutants : LET r == equivalentTo[m] IN
          r \in Mutants =>
              /\ r # m
              /\ equivalentTo[r] = None
              /\ stage = "finished" => r \in Recorded /\ RanTests(OutcomeOf(r))
    /\ \A m \in Recorded : OutcomeOf(m).skip = "Uncovered" =>
              /\ OutcomeOf(m).results = <<>>
              /\ m \notin ConstEval
              /\ \E covered \in coverage : LineOf[m] \notin covered

-----------------------------------------------------------------------------
(* What the run reports *)

\* No mutant's result is reported on a tree whose own tests did not pass:
\* unless --baseline=skip was given, nothing leaves the queue before the
\* baseline is recorded, first and successful.
BaselineComesFirst ==
    options.baseline = "Run" /\ queue # mutants =>
        /\ labOutcome.outcomes # <<>>
        /\ labOutcome.outcomes[1].scenario = Baseline
        /\ LastIs(labOutcome.outcomes[1], "Success")

\* The list files and the counters of outcomes.json are filled in by two
\* different matches on the summary, at two moments; they name the same
\* mutants, except one outcome for each I/O error in between.
ListsMatchCounters ==
    /\ \A b \in ListFile : lists[b] \subseteq Recorded
    /\ \A b \in ListFile : \E lost \in 0 .. faults :
          labOutcome.tally[b] = Cardinality(lists[b]) + lost

\* Exit status 0 from a lab that had mutants to test means that each of them
\* was taken to an outcome, that none of them was missed, timed out or found
\* uncovered, and that outcomes.json holds all of it: a worker's failure, or an
\* interrupt that cost a mutant its test, cannot be mistaken for success.
SuccessIsComplete ==
    stage \in Ended \ {"empty"} /\ ExitStatus = "Success" =>
        /\ mutants = Recorded
        /\ \A m \in mutants :
              Summary(OutcomeOf(m)) \notin {"MissedMutant", "Timeout", "Uncovered"}
        /\ json = Snapshot(labOutcome, TRUE)

-----------------------------------------------------------------------------
(* Liveness *)

\* The run ends: the queue drains, or a failure or Ctrl-C stops it, and the
\* threads are joined.
EventuallyEnds == <>(stage \in Ended)

-----------------------------------------------------------------------------
(* What the documents say of the exit status *)

\* book/src/exit-codes.md:5, "Every viable mutant that was tested was caught by
\* a test", of exit status 0.
SuccessMeansCaught ==
    stage = "finished" /\ ExitStatus = "Success" /\ ~options.check_only =>
        \A m \in Recorded :
            Summary(OutcomeOf(m)) \in {"CaughtMutant", "Unviable", "Equivalent"}

=============================================================================

------------------------------ MODULE Outcome ------------------------------
(***************************************************************************)
(* How the results of cargo's phases become the summary of one scenario,   *)
(* the counters of a whole run, and the program's exit code                *)
(* (src/outcome.rs, with the exit classes of src/process.rs and the codes  *)
(* of src/exit_code.rs).  Durations, argv, log paths and timestamps are    *)
(* left out: no classification depends on them.                            *)
(***************************************************************************)
EXTENDS Naturals, Sequences

CONSTANTS Mutants,      \* the mutants of this run
          Baseline      \* Scenario::Baseline, the unmutated tree

ASSUME BaselineAssumption == Baseline \notin Mutants

Scenario == Mutants \cup {Baseline}
IsMutant(scenario) == scenario # Baseline

-----------------------------------------------------------------------------
(* Results of the phases of one scenario. *)

Phase == {"Check", "Build", "Test"}
\* A non-zero exit status is one class whatever its code; so is every signal.
Exit == {"Success", "Failure", "Timeout", "Signalled", "Other"}
PhaseResult == [phase : Phase, status : Exit]

SkipReason == {"Equivalent", "Uncovered"}
NotSkipped == "None"

ScenarioOutcome == [scenario : Scenario,
                    results  : Seq(PhaseResult),
                    skip     : SkipReason \cup {NotSkipped}]

NewOutcome(scenario) ==
    [scenario |-> scenario, results |-> <<>>, skip |-> NotSkipped]

AddPhaseResult(o, phase, status) ==
    [o EXCEPT !.results = Append(@, [phase |-> phase, status |-> status])]

LastIs(o, status) ==
    /\ o.results # <<>>
    /\ o.results[Len(o.results)].status = status

LastPhaseIs(o, phase) ==
    /\ o.results # <<>>
    /\ o.results[Len(o.results)].phase = phase

\* Variant of Succeeded: anything but a timeout will do.
NoTimeout(o) == o.results # <<>> /\ ~LastIs(o, "Timeout")

\* A scenario that ran nothing did not succeed.
Succeeded(o) == LastIs(o, "Success")

HasTimeout(o) == \E i \in DOMAIN o.results : o.results[i].status = "Timeout"

\* Only a non-zero exit status counts: neither a signal nor "Other" does.
CheckOrBuildFailed(o) ==
    \E i \in DOMAIN o.results :
        o.results[i].phase # "Test" /\ o.results[i].status = "Failure"

MutantCaught(o) ==
    IsMutant(o.scenario) /\ LastPhaseIs(o, "Test") /\ LastIs(o, "Failure")

MutantMissed(o) ==
    IsMutant(o.scenario) /\ LastPhaseIs(o, "Test") /\ LastIs(o, "Success")

BaselineSummary(o) ==
    IF HasTimeout(o) THEN "Timeout"
    ELSE IF Succeeded(o) THEN "Success"
    ELSE "Failure"

MutantSummary(o) ==
    IF CheckOrBuildFailed(o) THEN "Unviable"
    ELSE IF HasTimeout(o) THEN "Timeout"
    ELSE IF MutantCaught(o) THEN "CaughtMutant"
    ELSE IF MutantMissed(o) THEN "MissedMutant"
    ELSE IF Succeeded(o) THEN "Success"
    ELSE "Failure"

Summary(o) ==
    IF o.skip # NotSkipped THEN o.skip
    ELSE IF IsMutant(o.scenario) THEN MutantSummary(o)
    ELSE BaselineSummary(o)

-----------------------------------------------------------------------------
(* The outcome of the whole run. *)

\* The counters of LabOutcome.  A mutant summarised as "Failure" is in none.
Bucket == {"CaughtMutant", "MissedMutant", "Timeout", "Unviable", "Success",
           "Equivalent", "Uncovered"}

LabOutcome == [outcomes : Seq(ScenarioOutcome),
               total    : Nat,
               tally    : [Bucket -> Nat]]

EmptyLabOutcome ==
    [outcomes |-> <<>>, total |-> 0, tally |-> [b \in Bucket |-> 0]]

Add(l, o) ==
    [outcomes |-> Append(l.outcomes, o),
     total    |-> IF IsMutant(o.scenario) THEN l.total + 1 ELSE l.total,
     tally    |-> [b \in Bucket |->
                     IF IsMutant(o.scenario) /\ Summary(o) = b
                     THEN l.tally[b] + 1 ELSE l.tally[b]]]

ExitCode == {"Success", "Usage", "FoundProblems", "Timeout",
             "BaselineFailed", "FilterDiffMismatch", "FilterDiffInvalid",
             "Software"}

LabExitCode(l) ==
    IF \E i \in DOMAIN l.outcomes :
          ~IsMutant(l.outcomes[i].scenario) /\ ~Succeeded(l.outcomes[i])
    THEN "BaselineFailed"
    ELSE IF l.tally["Timeout"] > 0 THEN "Timeout"
    ELSE IF l.tally["MissedMutant"] > 0 \/ l.tally["Uncovered"] > 0
    THEN "FoundProblems"
    ELSE "Success"

=============================================================================

--------------------------- MODULE LabRefinement ---------------------------
(***************************************************************************)
(* The lab's threads implement LabSpec.  A mutant waits while it is in the *)
(* queue, is under test while a worker holds it, and has the summary of    *)
(* its outcome as verdict once add_scenario_outcome has counted it.        *)
(***************************************************************************)
EXTENDS LabInvariant

Verdicts == Bucket \cup {"Failure"}

VerdictOf(m) ==
    IF m \notin mutants THEN "excluded"
    ELSE IF m \in queue THEN "waiting"
    ELSE IF m \in Recorded THEN Summary(OutcomeOf(m))
    ELSE "testing"

RunResult ==
    IF stage \in {"finished", "empty"} THEN "complete"
    ELSE IF stage \in Ended THEN "stopped"
    ELSE "running"

Promise == INSTANCE LabSpec WITH
    verdict <- [m \in Mutants |-> VerdictOf(m)],
    result  <- RunResult

\* The run of src/lab.rs gives every mutant at most one verdict, never changes
\* or withdraws it, reports completion only when every mutant has one, and does
\* nothing after it has ended.
ImplementsLabSpec == Promise!Spec

=============================================================================

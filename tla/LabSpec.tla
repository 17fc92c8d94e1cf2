------------------------------ MODULE LabSpec ------------------------------
(***************************************************************************)
(* What a run of the lab promises, with no threads, build directories,     *)
(* locks or files: every mutant that is not excluded from the run is       *)
(* waiting, under test, or has a verdict that never changes; the run is    *)
(* complete only when all of them have one, and nothing happens after it   *)
(* has ended.                                                              *)
(***************************************************************************)
CONSTANTS Mutants, Verdicts

VARIABLES verdict,   \* [Mutants -> {"excluded", "waiting", "testing"} \cup Verdicts]
          result     \* of the whole run

vars == <<verdict, result>>

Init ==
    /\ verdict \in [Mutants -> {"waiting", "excluded"}]
    /\ result = "running"

Take(m) ==
    /\ result = "running"
    /\ verdict[m] = "waiting"
    /\ verdict' = [verdict EXCEPT ![m] = "testing"]
    /\ UNCHANGED result

Judge(m) ==
    /\ result = "running"
    /\ verdict[m] = "testing"
    /\ \E v \in Verdicts : verdict' = [verdict EXCEPT ![m] = v]
    /\ UNCHANGED result

Complete ==
    /\ result = "running"
    /\ \A m \in Mutants : verdict[m] \in Verdicts \cup {"excluded"}
    /\ result' = "complete"
    /\ UNCHANGED verdict

\* A failed baseline, an interrupt or an internal error.
GiveUp ==
    /\ result = "running"
    /\ result' = "stopped"
    /\ UNCHANGED verdict

Next ==
    \/ \E m \in Mutants : Take(m) \/ Judge(m)
    \/ Complete
    \/ GiveUp

Spec == Init /\ [][Next]_vars

=============================================================================

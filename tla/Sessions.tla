------------------------------ MODULE Sessions ------------------------------
(***************************************************************************)
(* Invocations that follow each other in one tree, or wait for each other, *)
(* some with --iterate: the lists and outcomes.json of mutants.out as each *)
(* reads them, rotates them away and writes its own (src/main.rs and       *)
(* src/output.rs), with kills anywhere and workers that fail over an I/O   *)
(* error while the others go on (src/lab.rs).  How two are kept from       *)
(* rotating at the same time is OutputDir's part: here one has the         *)
(* directory at a time and the others wait.                                *)
(***************************************************************************)
EXTENDS SequencesExt

CONSTANTS Mutants, Runs, Baseline, None, Torn,
          Jobs            \* --jobs

ASSUME SessionsAssumption ==
    /\ None \notin Runs /\ (\A S \in SUBSET Mutants : S # None)
    /\ Baseline \notin Mutants
    /\ Jobs \in Nat \ {0}

\* The outcomes of mutants that have a list (the others are as missed ones), and
\* those that have none: SummaryOutcome::Success, of a baseline, and Failure.
Verdicts == {"caught", "unviable", "missed"}
Unlisted == {"success", "failure"}

VARIABLES
    lists,     \* caught.txt, unviable.txt, missed.txt; each a set of names
    previous,  \* previously_caught.txt, or None
    json,      \* outcomes.json: the outcomes in it, None, or Torn
    holder,    \* the invocation that has the directory
    pc,
    iterate,   \* --iterate
    skip,      \* previously_caught, as far as it is read
    queue,     \* the mutants that are not tested yet, or in a worker's hands
    failed,    \* how many workers have ended in an error
    outcomes,  \* lab_outcome of the directory: a sequence of [scenario, verdict]
    fresh,     \* whether outcomes.json was written less than half a second ago
    caught,    \* (history) all that have been in caught.txt or unviable.txt
    known,     \* (history) those that the next --iterate has to skip
    owner,     \* (history) the invocation that made the directory
    late       \* (history) whether another had the directory since it began

disk == <<lists, previous, json>>
workers == <<queue, failed>>
memory == <<iterate, skip, outcomes, fresh, workers>>
history == <<caught, known, owner, late>>
vars == <<disk, holder, pc, memory, history>>

Waiting == {"caught", "unviable", "previous", "lock"}
Holding == {"write", "start", "test", "json", "list"}

Init ==
    /\ lists = [v \in Verdicts |-> {}]
    /\ previous = None
    /\ json = None
    /\ holder = None
    /\ pc = [r \in Runs |-> "new"]
    /\ iterate \in [Runs -> BOOLEAN]
    /\ skip = [r \in Runs |-> {}]
    /\ queue = {}
    /\ failed = 0
    /\ outcomes = <<>>
    /\ fresh = FALSE
    /\ caught = {}
    /\ known = {}
    /\ owner = None
    /\ late = [r \in Runs |-> FALSE]

\* The memory of a process goes with it.
Forget(r) ==
    /\ skip' = [skip EXCEPT ![r] = {}]
    /\ late' = [late EXCEPT ![r] = FALSE]

Goto(r, place) == pc' = [pc EXCEPT ![r] = place]

-----------------------------------------------------------------------------
(* Reading, before there is a lock *)

Start(r) ==
    /\ pc[r] = "new"
    /\ Goto(r, IF iterate[r] THEN "caught" ELSE "lock")
    /\ late' = [late EXCEPT ![r] = holder # None]
    /\ UNCHANGED <<disk, holder, memory, caught, known, owner>>

\* Variants of Contents: a list is left out, or the wrong one read.
ForgetPrevious(file) == IF file = "previous" THEN {} ELSE lists[file]
ReadMissed(file) ==
    IF file = "previous" THEN IF previous = None THEN {} ELSE previous
    ELSE lists[file] \cup lists["missed"]

\* The names in a file; one that is not there has none.
Contents(file) ==
    IF file = "previous" THEN IF previous = None THEN {} ELSE previous
    ELSE lists[file]

\* load_previously_caught: one file after another.
Read(r, file, then) ==
    /\ pc[r] = file
    /\ skip' = [skip EXCEPT ![r] = @ \cup Contents(file)]
    /\ Goto(r, then)
    /\ UNCHANGED <<disk, holder, iterate, workers, outcomes, fresh, history>>

LoadPreviouslyCaught(r) ==
    \/ Read(r, "caught", "unviable")
    \/ Read(r, "unviable", "previous")
    \/ Read(r, "previous", "lock")

-----------------------------------------------------------------------------
(* A new directory *)

\* OutputDir::new: the old directory goes, with all that is in it.
Rotate(r) ==
    /\ pc[r] = "lock"
    /\ holder = None
    /\ holder' = r
    /\ lists' = [v \in Verdicts |-> {}]
    /\ previous' = None
    /\ json' = None
    /\ queue' = Mutants \ skip[r]
    /\ failed' = 0
    /\ outcomes' = <<>>
    /\ fresh' = FALSE
    /\ Goto(r, IF iterate[r] THEN "write" ELSE "start")
    /\ known' = CASE ~iterate[r] -> {}
                  [] iterate[r] /\ late[r] -> skip[r]
                  [] OTHER -> known
    /\ late' = [q \in Runs |-> late[q] \/ (q # r /\ pc[q] \in Waiting)]
    /\ owner' = r
    /\ UNCHANGED <<iterate, skip, caught>>

WritePreviouslyCaught(r) ==
    /\ pc[r] = "write"
    /\ previous' = skip[r]
    /\ Goto(r, "start")
    /\ UNCHANGED <<lists, json, holder, memory, history>>

-----------------------------------------------------------------------------
(* Outcomes *)

Tested == {outcomes[i].scenario : i \in DOMAIN outcomes}

\* The lab ends at once, and calls finish() of no OutputDir.
NoMutants(r) ==
    /\ pc[r] = "start" /\ queue = {}
    /\ holder' = None
    /\ Goto(r, "done")
    /\ Forget(r)
    /\ UNCHANGED <<disk, iterate, workers, outcomes, fresh, caught, known, owner>>

SkipBaseline(r) ==
    /\ pc[r] = "start" /\ queue # {}
    /\ Goto(r, "test")
    /\ UNCHANGED <<disk, holder, memory, history>>

\* Where add_scenario_outcome goes on once outcomes.json is seen to.
AfterJson(o) == IF o.verdict \in Verdicts THEN "list" ELSE "test"

\* add_scenario_outcome: File::create empties outcomes.json, unless it is fresh.
Record(r, o) ==
    /\ outcomes' = Append(outcomes, o)
    /\ IF fresh THEN Goto(r, AfterJson(o)) /\ UNCHANGED json
       ELSE Goto(r, "json") /\ json' = Torn
    /\ UNCHANGED <<lists, previous, holder, iterate, skip, failed, fresh, history>>

RunBaseline(r) ==
    /\ pc[r] = "start" /\ queue # {}
    /\ \E v \in Unlisted : Record(r, [scenario |-> Baseline, verdict |-> v])
    /\ UNCHANGED queue

BaselineFailed ==
    outcomes # <<>> /\ outcomes[1] = [scenario |-> Baseline, verdict |-> "failure"]

NThreads(r) == Min({Jobs, Cardinality(Mutants \ skip[r])})

\* There is a worker that has not failed.
Works(r) == ~BaselineFailed /\ failed < NThreads(r)

AddScenarioOutcome(r, m, v) ==
    /\ pc[r] = "test" /\ Works(r)
    /\ m \in queue
    /\ queue' = queue \ {m}
    /\ Record(r, [scenario |-> m, verdict |-> v])

\* to_writer_pretty: what the BufWriter cannot write when it is dropped is lost
\* without an error.
WriteLabOutcome(r) ==
    /\ pc[r] = "json"
    /\ json' \in {outcomes, Torn}
    /\ fresh' = TRUE
    /\ Goto(r, AfterJson(Last(outcomes)))
    /\ UNCHANGED <<lists, previous, holder, iterate, skip, workers, outcomes, history>>

\* writeln to the list of the outcome.
WriteToList(r) ==
    /\ pc[r] = "list"
    /\ LET o == Last(outcomes)
           new == IF o.verdict = "missed" THEN {} ELSE {o.scenario}
       IN  /\ lists' = [lists EXCEPT ![o.verdict] = @ \cup {o.scenario}]
           /\ caught' = caught \cup new
           /\ known' = known \cup new
    /\ Goto(r, "test")
    /\ UNCHANGED <<previous, json, holder, memory, owner, late>>

\* Half a second goes by.
Elapse(r) ==
    /\ fresh
    /\ pc[r] \in Holding
    /\ fresh' = FALSE
    /\ UNCHANGED <<disk, holder, pc, iterate, skip, workers, outcomes, history>>

-----------------------------------------------------------------------------
(* An I/O error ends its worker, and the others go on *)

\* In the copy of its tree, or with a mutant in its hands that is never recorded.
WorkerFails(r) ==
    /\ pc[r] = "test" /\ Works(r)
    /\ failed' = failed + 1
    /\ queue' \in {queue} \cup {queue \ {m} : m \in queue}
    /\ UNCHANGED <<disk, holder, pc, iterate, skip, outcomes, fresh, history>>

\* outcomes.json is not opened, and stays as it was.
OpenFails(r, m, v) ==
    /\ pc[r] = "test" /\ Works(r) /\ ~fresh
    /\ m \in queue
    /\ queue' = queue \ {m}
    /\ outcomes' = Append(outcomes, [scenario |-> m, verdict |-> v])
    /\ failed' = failed + 1
    /\ UNCHANGED <<disk, holder, pc, iterate, skip, fresh, history>>

\* outcomes.json or the list of the outcome is not written.
WriteFails(r) ==
    /\ pc[r] \in {"json", "list"} /\ Last(outcomes).scenario # Baseline
    /\ failed' = failed + 1
    /\ Goto(r, "test")
    /\ UNCHANGED <<disk, holder, iterate, skip, queue, outcomes, fresh, history>>

-----------------------------------------------------------------------------
(* Ends *)

\* Variant of FinalOutcomes: finish is throttled as the other writes are.
ThrottledOutcomes == IF fresh THEN json ELSE outcomes

FinalOutcomes == outcomes

\* finish, and the lock is given up: all workers have come to an empty queue, or
\* the baseline has failed.
Finish(r) ==
    /\ pc[r] = "test"
    /\ BaselineFailed \/ (queue = {} /\ failed = 0)
    /\ json' \in {FinalOutcomes, Torn}
    /\ holder' = None
    /\ Goto(r, "done")
    /\ Forget(r)
    /\ UNCHANGED <<lists, previous, iterate, workers, outcomes, fresh, caught, known, owner>>

\* A kill or an interrupt anywhere, an error of the main thread, or a worker's when
\* the others have ended.  Before previously_caught.txt is written as a whole, what it
\* would have said is lost with the directory that was rotated away.
Die(r) ==
    /\ pc[r] \in Waiting \cup Holding
    /\ Goto(r, "dead")
    /\ holder' = IF holder = r THEN None ELSE holder
    /\ IF pc[r] = "write"
       THEN known' = {} /\ previous' \in {None} \cup SUBSET skip[r]
       ELSE UNCHANGED <<known, previous>>
    /\ Forget(r)
    /\ UNCHANGED <<lists, json, iterate, workers, outcomes, fresh, caught, owner>>

-----------------------------------------------------------------------------

Step(r) ==
    \/ Start(r) \/ LoadPreviouslyCaught(r)
    \/ Rotate(r) \/ WritePreviouslyCaught(r)
    \/ NoMutants(r) \/ SkipBaseline(r) \/ RunBaseline(r)
    \/ \E m \in Mutants, v \in Verdicts \cup {"failure"} :
          AddScenarioOutcome(r, m, v) \/ OpenFails(r, m, v)
    \/ WriteLabOutcome(r) \/ WriteToList(r) \/ Elapse(r)
    \/ WorkerFails(r) \/ WriteFails(r)
    \/ Finish(r)

Terminated == (\A r \in Runs : pc[r] \in {"done", "dead"}) /\ UNCHANGED vars

Next ==
    \/ \E r \in Runs : Step(r) \/ Die(r)
    \/ Terminated

Spec == Init /\ [][Next]_vars

-----------------------------------------------------------------------------
(* Properties *)

\* --iterate leaves out no mutant that has never been caught or unviable.
OnlyCaughtIsSkipped == \A r \in Runs : skip[r] \subseteq caught

\* What invocations with --iterate have listed as caught, one after the other, the
\* next one skips, whichever of them failed or were killed.  Only an invocation that
\* began while another had the directory works from what it read then, and only an end
\* between the rotation and the write of previously_caught.txt loses what was known.
NothingIsForgotten ==
    \A r \in Runs :
        iterate[r] /\ pc[r] \in Holding =>
            known \subseteq skip[r] \cup Tested

MissingFromList(o) == o.verdict \in Verdicts /\ o.scenario \notin lists[o.verdict]

\* outcomes.json, where it is there and whole, is behind and never ahead: it is a
\* prefix of the outcomes.  Of these at most one for each failed worker is not in its
\* list, and one more if the invocation was killed or is at work; none is missing from
\* either once it is done.
OutcomesAreKept ==
    owner # None /\ json \notin {None, Torn} =>
        LET missing == Cardinality({i \in DOMAIN json : MissingFromList(json[i])}) IN
        /\ IsPrefix(json, outcomes)
        /\ missing <= failed + 1
        /\ pc[owner] = "done" => json = outcomes /\ missing = 0

=============================================================================

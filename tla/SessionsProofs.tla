--------------------------- MODULE SessionsProofs ---------------------------
(***************************************************************************)
(* Proofs about --iterate, for every number of invocations and mutants:    *)
(* it skips nothing that was never caught, and forgets nothing that was;   *)
(* and outcomes.json is never ahead of what was found, whatever writes     *)
(* fail and end their worker.                                              *)
(***************************************************************************)
EXTENDS Sessions, FiniteSetTheorems, TLAPS

Records == [scenario : Mutants, verdict : Verdicts \cup {"failure"}]
               \cup [scenario : {Baseline}, verdict : Unlisted]

TypeOK ==
    /\ lists \in [Verdicts -> SUBSET Mutants]
    /\ Contents("previous") \in SUBSET Mutants
    /\ holder \in Runs \cup {None}
    /\ pc \in [Runs -> {"new", "done", "dead"} \cup Waiting \cup Holding]
    /\ iterate \in [Runs -> BOOLEAN]
    /\ skip \in [Runs -> SUBSET Mutants]
    /\ queue \in SUBSET Mutants
    /\ failed \in Nat
    /\ outcomes \in Seq(Records)
    /\ late \in [Runs -> BOOLEAN]

\* What the directory says was caught or unviable, by itself or its predecessors.
Kept == Contents("previous") \cup lists["caught"] \cup lists["unviable"]

\* The lock gives the directory to one invocation at a time.
OneHolder == \A r \in Runs : pc[r] \in Holding <=> holder = r

SkipJustified ==
    /\ Kept \subseteq caught
    /\ \A r \in Runs : skip[r] \subseteq caught

\* An invocation that waits, and has been alone since it began, has read what it
\* has come to read.
WaitersKnow ==
    \A r \in Runs : pc[r] \in Waiting /\ ~late[r] =>
        /\ holder = None
        /\ pc[r] = "unviable" => lists["caught"] \subseteq skip[r]
        /\ pc[r] = "previous" => lists["caught"] \cup lists["unviable"] \subseteq skip[r]
        /\ pc[r] = "lock" /\ iterate[r] => Kept \subseteq skip[r]

\* Between the rotation and the write only the memory of the invocation knows what
\* was caught; at all other times the directory does.
DirectoryKnows ==
    /\ \A r \in Runs : pc[r] = "write" =>
          known \subseteq skip[r] /\ \A v \in Verdicts : lists[v] = {}
    /\ (\A r \in Runs : pc[r] # "write") => known \subseteq Kept

HolderKnows ==
    \A r \in Runs : pc[r] \in Holding =>
        /\ iterate[r] /\ pc[r] # "write" => Contents("previous") = skip[r]
        /\ \A v \in Verdicts : lists[v] \subseteq Tested
        /\ pc[r] \in {"json", "list"} => outcomes # <<>>
        /\ pc[r] = "list" => Last(outcomes).verdict \in Verdicts

SessionInv ==
    TypeOK /\ OneHolder /\ SkipJustified /\ WaitersKnow /\ DirectoryKnows /\ HolderKnows

-----------------------------------------------------------------------------

\* Only an outcome of a mutant has a list.
LEMMA ListedAreMutants ==
    ASSUME NEW o \in Records
    PROVE  /\ o.scenario \in Mutants \cup {Baseline} /\ o.verdict \in Verdicts \cup Unlisted
           /\ o.verdict \in Verdicts => o.scenario \in Mutants
BY DEF Records, Verdicts, Unlisted

\* An empty directory knows nothing, and nothing is known.
LEMMA InitInv == Init => SessionInv
<1> SUFFICES ASSUME Init PROVE SessionInv
  OBVIOUS
<1>1. Contents("previous") = {} /\ lists["caught"] = {} /\ lists["unviable"] = {}
  BY DEF Init, Contents, Verdicts
<1>2. TypeOK
  BY <1>1 DEF Init, TypeOK
<1>3. \A r \in Runs : pc[r] = "new" /\ skip[r] = {}
  BY DEF Init
<1>4. OneHolder
  BY <1>3, SessionsAssumption DEF Init, OneHolder, Holding
<1>5. SkipJustified /\ WaitersKnow /\ DirectoryKnows /\ HolderKnows
  BY <1>1, <1>3 DEF Init, SkipJustified, WaitersKnow, DirectoryKnows, HolderKnows, Kept,
                    Waiting, Holding
<1> QED BY <1>2, <1>4, <1>5 DEF SessionInv

\* Before the lock: reading changes only the memory of the reader.
LEMMA ReaderStep ==
    ASSUME SessionInv, NEW r \in Runs, Start(r) \/ LoadPreviouslyCaught(r)
    PROVE  SessionInv'
<1> USE DEF SessionInv, Goto
<1>1. /\ UNCHANGED <<lists, previous, holder, iterate, workers, outcomes, caught, known>>
      /\ \A file : Contents(file)' = Contents(file)
      /\ UNCHANGED Kept /\ UNCHANGED Tested
  BY DEF Start, LoadPreviouslyCaught, Read, disk, memory, history, Contents, Kept, Tested
<1>2. /\ \A q \in Runs : q # r =>
            pc'[q] = pc[q] /\ skip'[q] = skip[q] /\ late'[q] = late[q]
      /\ pc[r] \notin Holding /\ pc'[r] \in Waiting
      /\ pc' \in [Runs -> {"new", "done", "dead"} \cup Waiting \cup Holding]
      /\ skip' \in [Runs -> SUBSET Mutants] /\ late' \in [Runs -> BOOLEAN]
  <2>1. CASE Start(r)
    BY <2>1 DEF Start, memory, TypeOK, Waiting, Holding
  <2>2. ASSUME NEW file \in {"caught", "unviable", "previous"},
               NEW then \in {"unviable", "previous", "lock"}, Read(r, file, then)
        PROVE  /\ \A q \in Runs : q # r =>
                     pc'[q] = pc[q] /\ skip'[q] = skip[q] /\ late'[q] = late[q]
               /\ pc[r] \notin Holding /\ pc'[r] \in Waiting
               /\ pc' \in [Runs -> {"new", "done", "dead"} \cup Waiting \cup Holding]
               /\ skip' \in [Runs -> SUBSET Mutants] /\ late' \in [Runs -> BOOLEAN]
    <3>1. Contents(file) \in SUBSET Mutants
      BY DEF Contents, TypeOK, Verdicts
    <3> QED BY <2>2, <3>1 DEF Read, history, TypeOK, Waiting, Holding
  <2> QED BY <2>1, <2>2 DEF LoadPreviouslyCaught
<1>3. TypeOK' /\ OneHolder'
  BY <1>1, <1>2 DEF TypeOK, OneHolder, Waiting, Holding, workers
<1>4. /\ Contents("caught") = lists["caught"] /\ Contents("unviable") = lists["unviable"]
      /\ \A file \in {"caught", "unviable", "previous"} : Contents(file) \subseteq Kept
  BY DEF Contents, Kept
<1>5. CASE Start(r)
  <2>1. UNCHANGED skip /\ (~late'[r] => holder = None)
        /\ pc'[r] = IF iterate[r] THEN "caught" ELSE "lock"
    BY <1>5 DEF Start, memory, TypeOK
  <2>2. SkipJustified' /\ DirectoryKnows' /\ HolderKnows'
    BY <1>1, <1>2, <2>1 DEF SkipJustified, DirectoryKnows, HolderKnows, Waiting, Holding
  <2>3. WaitersKnow'
    BY <1>1, <1>2, <2>1 DEF WaitersKnow
  <2> QED BY <1>3, <2>2, <2>3
<1>6. ASSUME NEW file \in {"caught", "unviable", "previous"}, NEW then, Read(r, file, then),
             \/ file = "caught" /\ then = "unviable"
             \/ file = "unviable" /\ then = "previous"
             \/ file = "previous" /\ then = "lock"
      PROVE  SessionInv'
  <2>1. /\ pc[r] = file /\ pc'[r] = then /\ UNCHANGED late
        /\ skip'[r] = skip[r] \cup Contents(file)
    BY <1>6 DEF Read, history, TypeOK
  <2>2. SkipJustified'
    BY <1>1, <1>2, <1>4, <2>1 DEF SkipJustified
  <2>3. DirectoryKnows' /\ HolderKnows'
    BY <1>1, <1>2, <2>1 DEF DirectoryKnows, HolderKnows, Waiting, Holding
  <2>4. WaitersKnow'
    <3> SUFFICES ASSUME NEW q \in Runs, pc'[q] \in Waiting, ~late'[q]
                 PROVE  /\ holder = None
                        /\ pc'[q] = "unviable" => lists["caught"] \subseteq skip'[q]
                        /\ pc'[q] = "previous" =>
                              lists["caught"] \cup lists["unviable"] \subseteq skip'[q]
                        /\ pc'[q] = "lock" /\ iterate[q] => Kept \subseteq skip'[q]
      BY <1>1 DEF WaitersKnow
    <3>1. CASE q # r
      BY <1>2, <2>1, <3>1 DEF WaitersKnow
    <3>2. CASE q = r
      BY <1>4, <1>6, <2>1, <3>2 DEF WaitersKnow, Waiting, Kept
    <3> QED BY <3>1, <3>2
  <2> QED BY <1>3, <2>2, <2>3, <2>4
<1> QED BY <1>5, <1>6 DEF LoadPreviouslyCaught

\* The rotation: what the invocation has read replaces what the directory knew.
LEMMA RotateStep ==
    ASSUME SessionInv, NEW r \in Runs, Rotate(r)
    PROVE  SessionInv'
<1> USE DEF SessionInv
<1>1. /\ pc[r] = "lock" /\ holder = None /\ holder' = r
      /\ lists' = [v \in Verdicts |-> {}] /\ previous' = None /\ outcomes' = <<>>
      /\ pc' = [pc EXCEPT ![r] = IF iterate[r] THEN "write" ELSE "start"]
      /\ queue' \in SUBSET Mutants /\ failed' = 0
      /\ UNCHANGED <<iterate, skip, caught>>
      /\ late' = [q \in Runs |-> late[q] \/ (q # r /\ pc[q] \in Waiting)]
  BY DEF Rotate, Goto
<1>2. known' = IF ~iterate[r] THEN {} ELSE IF late[r] THEN skip[r] ELSE known
  BY DEF Rotate, TypeOK
<1>3. Contents("previous")' = {} /\ Kept' = {}
  BY <1>1 DEF Contents, Kept, Verdicts
<1>4. /\ pc'[r] = (IF iterate[r] THEN "write" ELSE "start")
      /\ \A q \in Runs : q # r => pc'[q] = pc[q] /\ pc[q] \notin Holding
  BY <1>1, SessionsAssumption DEF TypeOK, OneHolder
<1>5. TypeOK'
  BY <1>1, <1>3 DEF TypeOK, Holding
<1>6. OneHolder'
  BY <1>1, <1>4 DEF OneHolder, Holding
<1>7. SkipJustified'
  BY <1>1, <1>3 DEF SkipJustified
<1>8. WaitersKnow'
  <2>1. pc'[r] \notin Waiting
    BY <1>4 DEF Waiting
  <2>2. \A q \in Runs : q # r /\ pc'[q] \in Waiting => late'[q] = TRUE
    BY <1>1, <1>4 DEF TypeOK
  <2> QED BY <2>1, <2>2 DEF WaitersKnow
<1>9. DirectoryKnows'
  <2>1. known' \subseteq skip[r]
    <3>1. \A q \in Runs : pc[q] # "write"
      BY <1>1, <1>4 DEF Holding
    <3>2. iterate[r] /\ ~late[r] => known \subseteq skip[r]
      BY <1>1, <3>1 DEF DirectoryKnows, WaitersKnow, Waiting
    <3> QED BY <1>2, <3>2
  <2>2. ~iterate[r] => known' = {}
    BY <1>2
  <2>3. \A q \in Runs : pc'[q] = "write" => q = r /\ iterate[r]
    BY <1>4 DEF Holding
  <2> QED BY <1>1, <1>4, <2>1, <2>2, <2>3 DEF DirectoryKnows
<1>10. HolderKnows'
  BY <1>1, <1>4 DEF HolderKnows, Holding
<1> QED BY <1>5, <1>6, <1>7, <1>8, <1>9, <1>10

\* The names that were read are written to previously_caught.txt.
LEMMA WriteStep ==
    ASSUME SessionInv, NEW r \in Runs, WritePreviouslyCaught(r)
    PROVE  SessionInv'
<1> USE DEF SessionInv
<1>1. /\ pc[r] = "write" /\ previous' = skip[r] /\ pc' = [pc EXCEPT ![r] = "start"]
      /\ UNCHANGED <<lists, holder, iterate, skip, queue, failed, outcomes, caught, known, late>>
  BY DEF WritePreviouslyCaught, Goto, memory, workers, history
<1>2. skip[r] \in SUBSET Mutants
  BY DEF TypeOK
<1>3. Contents("previous")' = skip[r]
  BY <1>1, <1>2, SessionsAssumption DEF Contents
<1>4. Kept' = skip[r] /\ UNCHANGED Tested
  BY <1>1, <1>3 DEF Kept, DirectoryKnows, Verdicts, Tested
<1>5. /\ pc'[r] = "start" /\ holder = r
      /\ \A q \in Runs : q # r => pc'[q] = pc[q] /\ pc[q] \notin Holding
  BY <1>1, SessionsAssumption DEF TypeOK, OneHolder, Holding
<1>6. TypeOK' /\ OneHolder'
  BY <1>1, <1>2, <1>3, <1>5 DEF TypeOK, OneHolder, Holding
<1>7. SkipJustified'
  BY <1>1, <1>4 DEF SkipJustified
<1>8. WaitersKnow'
  BY <1>1, <1>5, SessionsAssumption DEF WaitersKnow, Waiting
<1>9. DirectoryKnows' /\ HolderKnows'
  BY <1>1, <1>3, <1>4, <1>5 DEF DirectoryKnows, HolderKnows, Holding
<1> QED BY <1>6, <1>7, <1>8, <1>9

\* What the invocation that has the directory does once it may start to test.
Tests(r) ==
    \/ SkipBaseline(r) \/ RunBaseline(r)
    \/ \E m \in Mutants, v \in Verdicts \cup {"failure"} :
          AddScenarioOutcome(r, m, v) \/ OpenFails(r, m, v)
    \/ WriteLabOutcome(r) \/ WriteToList(r) \/ Elapse(r)
    \/ WorkerFails(r) \/ WriteFails(r)

\* An outcome is appended, and is not in its list yet.
Appends(r, o) ==
    /\ outcomes' = Append(outcomes, o) /\ UNCHANGED lists
    /\ json' \in {json, Torn}
    /\ IF o.scenario = Baseline THEN pc[r] = "start" /\ o.verdict \notin Verdicts
                                ELSE pc[r] = "test" /\ ~BaselineFailed
    /\ \/ /\ failed' = failed /\ pc'[r] \in {"json", "list", "test"}
          /\ pc'[r] = "list" => o.verdict \in Verdicts
          /\ pc'[r] = "test" => o.verdict \notin Verdicts
       \/ failed' = failed + 1 /\ pc'[r] = "test" /\ o.scenario # Baseline

LEMMA OutcomeAppended ==
    ASSUME SessionInv, NEW r \in Runs,
           \/ RunBaseline(r)
           \/ \E m \in Mutants, v \in Verdicts \cup {"failure"} :
                 AddScenarioOutcome(r, m, v) \/ OpenFails(r, m, v)
    PROVE  \E o \in Records : Appends(r, o)
<1> USE DEF SessionInv
<1>1. CASE RunBaseline(r)
  <2>1. PICK v \in Unlisted : Record(r, [scenario |-> Baseline, verdict |-> v])
    BY <1>1 DEF RunBaseline
  <2> DEFINE o == [scenario |-> Baseline, verdict |-> v]
  <2>2. o \in Records /\ o.verdict \notin Verdicts
    BY DEF Records, Verdicts, Unlisted
  <2>3. Appends(r, o)
    BY <1>1, <2>1, <2>2 DEF RunBaseline, Record, AfterJson, Goto, TypeOK, Appends
  <2> QED BY <2>2, <2>3
<1>2. ASSUME NEW m \in Mutants, NEW v \in Verdicts \cup {"failure"},
             AddScenarioOutcome(r, m, v) \/ OpenFails(r, m, v)
      PROVE  \E o \in Records : Appends(r, o)
  <2> DEFINE o == [scenario |-> m, verdict |-> v]
  <2>1. o \in Records /\ o.scenario # Baseline
    BY SessionsAssumption DEF Records
  <2>2. CASE AddScenarioOutcome(r, m, v)
    <3>1. Appends(r, o)
      BY <2>1, <2>2 DEF AddScenarioOutcome, Works, Record, AfterJson, Goto, TypeOK, Appends
    <3> QED BY <2>1, <3>1
  <2>3. CASE OpenFails(r, m, v)
    <3>1. Appends(r, o)
      BY <2>1, <2>3 DEF OpenFails, Works, disk, Appends
    <3> QED BY <2>1, <3>1
  <2> QED BY <1>2, <2>2, <2>3
<1> QED BY <1>1, <1>2

\* What these steps leave alone.
LEMMA TestsTouch ==
    ASSUME SessionInv, NEW r \in Runs, Tests(r)
    PROVE  /\ UNCHANGED <<previous, holder, iterate, skip, late, owner>>
           /\ pc[r] \in Holding /\ pc'[r] \in Holding
           /\ pc' \in [Runs -> {"new", "done", "dead"} \cup Waiting \cup Holding]
           /\ \A q \in Runs : q # r => pc'[q] = pc[q]
           /\ pc'[r] = "write" <=> pc[r] = "write"
           /\ queue' \in SUBSET Mutants /\ failed' \in Nat
           /\ ~WriteToList(r) => UNCHANGED <<lists, caught, known>>
<1> USE DEF SessionInv, TypeOK, Goto, Holding, history, memory, workers, disk
<1>1. CASE SkipBaseline(r)
  BY <1>1 DEF SkipBaseline
<1>2. CASE RunBaseline(r)
  BY <1>2 DEF RunBaseline, Record, AfterJson
<1>3. ASSUME NEW m \in Mutants, NEW v \in Verdicts \cup {"failure"}, AddScenarioOutcome(r, m, v)
      PROVE  /\ UNCHANGED <<previous, holder, iterate, skip, late, owner>>
             /\ pc[r] \in Holding /\ pc'[r] \in Holding
             /\ pc' \in [Runs -> {"new", "done", "dead"} \cup Waiting \cup Holding]
             /\ \A q \in Runs : q # r => pc'[q] = pc[q]
             /\ pc'[r] = "write" <=> pc[r] = "write"
             /\ queue' \in SUBSET Mutants /\ failed' \in Nat
             /\ ~WriteToList(r) => UNCHANGED <<lists, caught, known>>
  BY <1>3 DEF AddScenarioOutcome, Record, AfterJson
<1>4. ASSUME NEW m \in Mutants, NEW v \in Verdicts \cup {"failure"}, OpenFails(r, m, v)
      PROVE  /\ UNCHANGED <<previous, holder, iterate, skip, late, owner>>
             /\ pc[r] \in Holding /\ pc'[r] \in Holding
             /\ pc' \in [Runs -> {"new", "done", "dead"} \cup Waiting \cup Holding]
             /\ \A q \in Runs : q # r => pc'[q] = pc[q]
             /\ pc'[r] = "write" <=> pc[r] = "write"
             /\ queue' \in SUBSET Mutants /\ failed' \in Nat
             /\ ~WriteToList(r) => UNCHANGED <<lists, caught, known>>
  BY <1>4 DEF OpenFails
<1>5. CASE WriteLabOutcome(r)
  BY <1>5 DEF WriteLabOutcome, AfterJson
<1>6. CASE WriteToList(r)
  BY <1>6 DEF WriteToList
<1>7. CASE Elapse(r)
  BY <1>7 DEF Elapse
<1>8. CASE WorkerFails(r)
  BY <1>8 DEF WorkerFails
<1>9. CASE WriteFails(r)
  BY <1>9 DEF WriteFails
<1> QED BY <1>1, <1>2, <1>3, <1>4, <1>5, <1>6, <1>7, <1>8, <1>9 DEF Tests

\* The holder's own steps while it tests change neither who waits nor who holds.
LEMMA HolderStep ==
    ASSUME SessionInv, NEW r \in Runs, Tests(r)
    PROVE  SessionInv'
<1> USE DEF SessionInv
<1>1. /\ UNCHANGED <<previous, holder, iterate, skip, late>>
      /\ pc[r] \in Holding /\ pc'[r] \in Holding
      /\ pc' \in [Runs -> {"new", "done", "dead"} \cup Waiting \cup Holding]
      /\ \A q \in Runs : q # r => pc'[q] = pc[q]
      /\ pc'[r] = "write" <=> pc[r] = "write"
      /\ queue' \in SUBSET Mutants /\ failed' \in Nat
      /\ Contents("previous")' = Contents("previous")
  BY TestsTouch DEF Contents
<1>2. /\ holder = r /\ r # None
      /\ \A q \in Runs : q # r => pc[q] \notin Holding
  BY <1>1, SessionsAssumption DEF OneHolder
<1>3. OneHolder' /\ WaitersKnow'
  BY <1>1, <1>2 DEF OneHolder, WaitersKnow, Waiting, Holding
<1>4. CASE UNCHANGED <<lists, outcomes, caught, known>>
           /\ (pc'[r] \in {"json", "list"} => outcomes # <<>>)
           /\ (pc'[r] = "list" => Last(outcomes).verdict \in Verdicts)
  <2>1. UNCHANGED Kept /\ UNCHANGED Tested
    BY <1>1, <1>4 DEF Kept, Tested
  <2>2. TypeOK' /\ SkipJustified' /\ DirectoryKnows'
    BY <1>1, <1>2, <1>4, <2>1 DEF TypeOK, SkipJustified, DirectoryKnows
  <2>3. HolderKnows'
    BY <1>1, <1>2, <1>4, <2>1 DEF HolderKnows
  <2> QED BY <1>3, <2>2, <2>3
<1>5. ASSUME NEW o \in Records, Appends(r, o), UNCHANGED <<lists, caught, known>>
      PROVE  SessionInv'
  <2>1. /\ outcomes' = Append(outcomes, o) /\ outcomes \in Seq(Records)
        /\ pc'[r] = "list" => o.verdict \in Verdicts
    BY <1>5 DEF Appends, TypeOK
  <2>2. outcomes' \in Seq(Records) /\ outcomes' # <<>> /\ Last(outcomes') = o
    BY <2>1 DEF Last
  <2>3. Tested \subseteq Tested'
    <3>1. \A i \in DOMAIN outcomes : i \in DOMAIN outcomes' /\ outcomes'[i] = outcomes[i]
      BY <2>1
    <3> QED BY <3>1 DEF Tested
  <2>4. UNCHANGED Kept
    BY <1>1, <1>5 DEF Kept
  <2>5. TypeOK' /\ SkipJustified' /\ DirectoryKnows'
    BY <1>1, <1>2, <1>5, <2>2, <2>4 DEF TypeOK, SkipJustified, DirectoryKnows
  <2>6. HolderKnows'
    BY <1>1, <1>2, <1>5, <2>1, <2>2, <2>3 DEF HolderKnows
  <2> QED BY <1>3, <2>5, <2>6
<1>6. CASE WriteToList(r)
  <2> DEFINE o == Last(outcomes)
             new == IF o.verdict = "missed" THEN {} ELSE {o.scenario}
  <2>1. /\ pc[r] = "list" /\ pc'[r] = "test"
        /\ lists' = [lists EXCEPT ![o.verdict] = @ \cup {o.scenario}]
        /\ caught' = caught \cup new /\ known' = known \cup new
        /\ UNCHANGED outcomes
    BY <1>6 DEF WriteToList, Goto, memory, TypeOK
  <2>2. Len(outcomes) \in DOMAIN outcomes /\ o = outcomes[Len(outcomes)] /\ o \in Records
    BY <2>1 DEF TypeOK, HolderKnows, Holding, Last
  <2>3. o.scenario \in Tested /\ o.scenario \in Mutants /\ o.verdict \in Verdicts
    BY <2>1, <2>2, ListedAreMutants DEF Tested, HolderKnows, Holding
  <2> HIDE DEF o
  <2>4. lists' \in [Verdicts -> SUBSET Mutants]
    BY <2>1, <2>3 DEF TypeOK
  <2>5. /\ \A v \in Verdicts : lists'[v] = IF v = o.verdict THEN lists[v] \cup {o.scenario}
                                                           ELSE lists[v]
        /\ UNCHANGED Tested
    BY <2>1, <2>3 DEF TypeOK, Tested
  <2>6. Kept' = Kept \cup new
    BY <1>1, <2>3, <2>5 DEF Kept, Verdicts
  <2>7. TypeOK'
    BY <1>1, <2>1, <2>4 DEF TypeOK
  <2>8. SkipJustified'
    BY <1>1, <2>1, <2>6 DEF SkipJustified
  <2>9. known \subseteq Kept
    BY <1>2, <2>1 DEF DirectoryKnows, Holding
  <2>10. DirectoryKnows'
    BY <1>1, <1>2, <2>1, <2>6, <2>9 DEF DirectoryKnows, Holding
  <2>11. HolderKnows'
    BY <1>1, <1>2, <2>1, <2>3, <2>5 DEF HolderKnows, Holding
  <2> QED BY <1>3, <2>7, <2>8, <2>10, <2>11
<1>7. CASE SkipBaseline(r) \/ Elapse(r) \/ WorkerFails(r) \/ WriteFails(r)
  <2>1. UNCHANGED <<lists, outcomes, caught, known>>
    BY <1>7 DEF SkipBaseline, Elapse, WorkerFails, WriteFails, disk, memory, history
  <2>2. pc'[r] \in {"json", "list"} => pc'[r] = pc[r]
    BY <1>7 DEF SkipBaseline, Elapse, WorkerFails, WriteFails, Goto, TypeOK
  <2> QED BY <1>1, <1>4, <2>1, <2>2 DEF HolderKnows
<1>8. CASE WriteLabOutcome(r)
  <2>1. /\ UNCHANGED <<lists, outcomes, caught, known>> /\ pc[r] = "json"
        /\ pc'[r] = AfterJson(Last(outcomes))
    BY <1>8 DEF WriteLabOutcome, history, Goto, TypeOK
  <2> QED BY <1>1, <1>4, <2>1 DEF HolderKnows, AfterJson
<1>9. CASE \/ RunBaseline(r)
           \/ \E m \in Mutants, v \in Verdicts \cup {"failure"} :
                 AddScenarioOutcome(r, m, v) \/ OpenFails(r, m, v)
  <2>1. UNCHANGED <<caught, known>>
    BY <1>9 DEF RunBaseline, AddScenarioOutcome, OpenFails, Record, history
  <2> QED BY <1>5, <1>9, <2>1, OutcomeAppended DEF Appends
<1> QED BY <1>6, <1>7, <1>8, <1>9 DEF Tests

\* An end, in order or not, gives up the lock and the memory.
LEMMA EndStep ==
    ASSUME SessionInv, NEW r \in Runs, NoMutants(r) \/ Finish(r) \/ Die(r)
    PROVE  SessionInv'
<1> USE DEF SessionInv
<1>1. /\ UNCHANGED <<lists, iterate, workers, outcomes, caught>>
      /\ pc'[r] \in {"done", "dead"}
      /\ pc' \in [Runs -> {"new", "done", "dead"} \cup Waiting \cup Holding]
      /\ \A q \in Runs : q # r => pc'[q] = pc[q]
      /\ skip' = [skip EXCEPT ![r] = {}] /\ late' = [late EXCEPT ![r] = FALSE]
  BY DEF NoMutants, Finish, Die, disk, Goto, Forget, TypeOK
<1>2. holder' = IF holder = r THEN None ELSE holder
  BY DEF NoMutants, Finish, Die, OneHolder, Holding
<1>3. IF pc[r] = "write" THEN known' = {} /\ previous' \in {None} \cup SUBSET skip[r]
                         ELSE UNCHANGED <<known, previous>>
  BY DEF NoMutants, Finish, Die, disk
<1>4. OneHolder'
  BY <1>1, <1>2, SessionsAssumption DEF OneHolder, Holding
<1>5. UNCHANGED Tested
  BY <1>1 DEF Tested
<1>6. CASE pc[r] = "write"
  <2>1. /\ \A v \in Verdicts : lists[v] = {}
        /\ \A q \in Runs : q # r => pc[q] \notin Holding
        /\ skip[r] \in SUBSET Mutants /\ holder = r /\ r # None
    BY <1>6, SessionsAssumption DEF DirectoryKnows, OneHolder, Holding, TypeOK
  <2>2. Contents("previous")' \in SUBSET skip[r]
    BY <1>3, <1>6, <2>1, SessionsAssumption DEF Contents
  <2>3. Kept' \subseteq skip[r] /\ known' = {}
    BY <1>1, <1>3, <1>6, <2>1, <2>2 DEF Kept, Verdicts
  <2>4. TypeOK'
    BY <1>1, <1>2, <2>1, <2>2 DEF TypeOK, workers
  <2>5. SkipJustified'
    BY <1>1, <2>3 DEF SkipJustified, TypeOK
  <2>6. WaitersKnow'
    BY <1>1, <2>1 DEF WaitersKnow, Waiting, TypeOK
  <2>7. DirectoryKnows' /\ HolderKnows'
    BY <1>1, <2>1, <2>3 DEF DirectoryKnows, HolderKnows, Holding
  <2> QED BY <1>4, <2>4, <2>5, <2>6, <2>7
<1>7. CASE pc[r] # "write"
  <2>1. /\ UNCHANGED <<known, previous>> /\ Contents("previous")' = Contents("previous")
        /\ UNCHANGED Kept
    BY <1>1, <1>3, <1>7 DEF Contents, Kept
  <2>2. TypeOK'
    BY <1>1, <1>2, <2>1 DEF TypeOK, workers
  <2>3. SkipJustified'
    BY <1>1, <2>1 DEF SkipJustified, TypeOK
  <2>4. WaitersKnow'
    BY <1>1, <1>2, <2>1 DEF WaitersKnow, Waiting, TypeOK
  <2>5. DirectoryKnows'
    BY <1>1, <1>7, <2>1 DEF DirectoryKnows, TypeOK
  <2>6. HolderKnows'
    BY <1>1, <1>5, <2>1 DEF HolderKnows, TypeOK, Holding
  <2> QED BY <1>4, <2>2, <2>3, <2>4, <2>5, <2>6
<1> QED BY <1>6, <1>7

\* The invariant holds throughout.
LEMMA SessionsAlways == Spec => []SessionInv
<1>1. SessionInv /\ [Next]_vars => SessionInv'
  <2> SUFFICES ASSUME SessionInv, [Next]_vars PROVE SessionInv'
    OBVIOUS
  <2>1. CASE UNCHANGED vars
    BY <2>1 DEF vars, disk, memory, workers, history, SessionInv, TypeOK, OneHolder,
                SkipJustified, WaitersKnow, DirectoryKnows, HolderKnows, Kept, Contents, Tested
  <2> QED BY <2>1, ReaderStep, RotateStep, WriteStep, HolderStep, EndStep
          DEF Next, Step, Tests, Terminated
<1> QED BY <1>1, InitInv, PTL DEF Spec

\* --iterate never leaves out a mutant that no invocation has had in caught.txt or
\* unviable.txt, for any number of invocations, overlapping and killed anywhere.
THEOREM SkipsOnlyCaught == Spec => []OnlyCaughtIsSkipped
<1>1. SessionInv => OnlyCaughtIsSkipped
  BY DEF SessionInv, SkipJustified, OnlyCaughtIsSkipped
<1> QED BY <1>1, SessionsAlways, PTL

\* What invocations with --iterate have listed is skipped by the next, whichever
\* failed or were killed, but for the two exceptions that known is defined with.
THEOREM ForgetsNothing == Spec => []NothingIsForgotten
<1>1. SessionInv => NothingIsForgotten
  <2> SUFFICES ASSUME SessionInv, NEW r \in Runs, iterate[r], pc[r] \in Holding
               PROVE  known \subseteq skip[r] \cup Tested
    BY DEF NothingIsForgotten
  <2>1. \A q \in Runs : pc[q] = "write" => q = r
    BY DEF SessionInv, OneHolder, Holding
  <2> QED BY <2>1 DEF SessionInv, DirectoryKnows, HolderKnows, Kept, Verdicts
<1> QED BY <1>1, SessionsAlways, PTL

-----------------------------------------------------------------------------
(* outcomes.json *)

HasOutcomes == json \notin {None, Torn}
MissingAt == {i \in 1 .. Len(outcomes) : MissingFromList(outcomes[i])}

\* The invocation is not in the middle of recording an outcome.
Settled == holder # None /\ pc[holder] \in {"write", "start", "test"}

\* The directory belongs to the invocation that made it.  Each failed worker may have
\* left an outcome out of its list, and only the last may besides be on its way there;
\* what outcomes.json says was true when it was written; and an invocation that is
\* done has had no failure.
RecordInv ==
    /\ owner \in Runs \cup {None}
    /\ holder # None => owner = holder
    /\ Cardinality(MissingAt \ {Len(outcomes)}) <= failed
    /\ Settled => Cardinality(MissingAt) <= failed
    /\ \A r \in Runs : pc[r] \in {"write", "start"} => outcomes = <<>> /\ failed = 0
    /\ BaselineFailed => Len(outcomes) = 1 /\ failed = 0
    /\ HasOutcomes => /\ json \in Seq(Records)
                      /\ Len(json) <= Len(outcomes)
                      /\ \A i \in 1 .. Len(json) : json[i] = outcomes[i]
    /\ owner # None /\ pc[owner] = "done" =>
          MissingAt = {} /\ (HasOutcomes => json = outcomes)

\* Sets with one element more or less.
LEMMA AtMostOneMore ==
    ASSUME NEW S, IsFiniteSet(S), NEW x, NEW T \in SUBSET (S \cup {x})
    PROVE  IsFiniteSet(T) /\ Cardinality(T) \in Nat /\ Cardinality(T) <= Cardinality(S) + 1
<1>1. /\ IsFiniteSet(S \cup {x}) /\ Cardinality(S) \in Nat
      /\ Cardinality(S \cup {x}) \in {Cardinality(S), Cardinality(S) + 1}
  BY FS_AddElement, FS_CardinalityType
<1>2. IsFiniteSet(T) /\ Cardinality(T) <= Cardinality(S \cup {x}) /\ Cardinality(T) \in Nat
  BY <1>1, FS_Subset, FS_CardinalityType
<1> QED BY <1>1, <1>2

LEMMA Smaller ==
    ASSUME NEW S, IsFiniteSet(S), NEW T \in SUBSET S
    PROVE  /\ IsFiniteSet(T) /\ Cardinality(T) \in Nat /\ Cardinality(S) \in Nat
           /\ Cardinality(T) <= Cardinality(S)
BY FS_Subset, FS_CardinalityType

LEMMA MissingFinite ==
    ASSUME TypeOK
    PROVE  /\ MissingAt \subseteq 1 .. Len(outcomes) /\ IsFiniteSet(MissingAt)
           /\ Len(outcomes) \in Nat
<1>1. Len(outcomes) \in Nat
  BY DEF TypeOK
<1>2. IsFiniteSet(1 .. Len(outcomes))
  BY <1>1, FS_Interval
<1> QED BY <1>1, <1>2, FS_Subset DEF MissingAt

\* There are no outcomes yet.
LEMMA RecordInit == Init => RecordInv
<1> SUFFICES ASSUME Init PROVE RecordInv
  OBVIOUS
<1>1. outcomes = <<>> /\ failed = 0 /\ MissingAt = {} /\ MissingAt \ {Len(outcomes)} = {}
  BY DEF Init, MissingAt
<1>2. Cardinality({}) = 0
  BY FS_EmptySet
<1> QED BY <1>1, <1>2 DEF Init, RecordInv, HasOutcomes, BaselineFailed


\* What an invocation without the lock does is not seen in the directory.
LEMMA RecordReader ==
    ASSUME SessionInv, RecordInv, NEW r \in Runs, Start(r) \/ LoadPreviouslyCaught(r)
    PROVE  RecordInv'
<1>1. UNCHANGED <<lists, json, holder, owner, outcomes, failed>>
  BY DEF Start, LoadPreviouslyCaught, Read, disk, memory, workers, history
<1>2. /\ \A q \in Runs : q # r => pc'[q] = pc[q]
      /\ pc[r] \notin Holding /\ pc'[r] \in Waiting
  BY DEF Start, LoadPreviouslyCaught, Read, Goto, SessionInv, TypeOK, Waiting, Holding
<1>3. holder # None => holder \in Runs /\ holder # r
  BY <1>2 DEF SessionInv, TypeOK, OneHolder
<1>4. owner # None /\ pc'[owner] = "done" => pc[owner] = "done"
  BY <1>2 DEF RecordInv, Waiting
<1>5. /\ UNCHANGED MissingAt /\ (Settled' => Settled)
      /\ \A q \in Runs : pc'[q] \in {"write", "start"} => pc[q] \in {"write", "start"}
  BY <1>1, <1>2, <1>3 DEF MissingAt, MissingFromList, Settled, Waiting
<1>6. HasOutcomes' = HasOutcomes /\ BaselineFailed' = BaselineFailed
  BY <1>1 DEF HasOutcomes, BaselineFailed
<1> QED BY <1>1, <1>4, <1>5, <1>6 DEF RecordInv

\* A new directory has no outcomes.
LEMMA RecordRotate ==
    ASSUME SessionInv, RecordInv, NEW r \in Runs, Rotate(r)
    PROVE  RecordInv'
<1>1. /\ outcomes' = <<>> /\ failed' = 0 /\ json' = None
      /\ owner' = r /\ holder' = r /\ pc'[r] \in {"write", "start"}
  BY DEF Rotate, Goto, SessionInv, TypeOK
<1>2. MissingAt' = {} /\ (MissingAt \ {Len(outcomes)})' = {}
  BY <1>1 DEF MissingAt
<1>3. Cardinality({}) = 0
  BY FS_EmptySet
<1> QED BY <1>1, <1>2, <1>3 DEF RecordInv, HasOutcomes, BaselineFailed

\* An outcome is added, and perhaps not written at all.
LEMMA RecordAppends ==
    ASSUME SessionInv, RecordInv, NEW r \in Runs, holder = r, r # None, NEW o \in Records,
           Appends(r, o), UNCHANGED <<holder, owner>>,
           \A q \in Runs : q # r => pc'[q] = pc[q] /\ pc[q] \notin Holding
    PROVE  RecordInv'
<1> USE DEF SessionInv
<1> DEFINE n == Len(outcomes)
<1>1. /\ outcomes' = Append(outcomes, o) /\ n \in Nat /\ Len(outcomes') = n + 1
      /\ \A i \in 1 .. n : outcomes'[i] = outcomes[i]
      /\ outcomes'[n + 1] = o
      /\ UNCHANGED lists /\ json' \in {json, Torn}
      /\ pc[r] \in {"start", "test"} /\ pc'[r] \in {"json", "list", "test"}
      /\ failed \in Nat /\ failed' \in Nat
      /\ owner = r
  BY DEF Appends, TypeOK, RecordInv
<1>2. /\ IsFiniteSet(MissingAt) /\ Cardinality(MissingAt) \in Nat
      /\ Cardinality(MissingAt) <= failed
  BY <1>1, MissingFinite, FS_CardinalityType DEF RecordInv, Settled
<1>3. /\ MissingAt' \subseteq MissingAt \cup {n + 1}
      /\ o.verdict \notin Verdicts => MissingAt' \subseteq MissingAt
  BY <1>1 DEF MissingAt, MissingFromList
<1>4. Cardinality((MissingAt \ {Len(outcomes)})') <= failed'
  <2>1. (MissingAt \ {Len(outcomes)})' \subseteq MissingAt
    BY <1>1, <1>3
  <2>2. Cardinality((MissingAt \ {Len(outcomes)})') \in Nat
        /\ Cardinality((MissingAt \ {Len(outcomes)})') <= Cardinality(MissingAt)
    BY <1>2, <2>1, Smaller
  <2>3. failed <= failed'
    BY <1>1 DEF Appends
  <2> QED BY <1>1, <1>2, <2>2, <2>3
<1>5. Settled' => Cardinality(MissingAt)' <= failed'
  <2> SUFFICES ASSUME Settled' PROVE Cardinality(MissingAt') <= failed'
    OBVIOUS
  <2>1. pc'[r] = "test"
    BY <1>1 DEF Settled
  <2>2. CASE failed' = failed + 1
    <3>1. Cardinality(MissingAt') \in Nat /\ Cardinality(MissingAt') <= Cardinality(MissingAt) + 1
      BY <1>2, <1>3, AtMostOneMore
    <3> QED BY <1>1, <1>2, <2>2, <3>1
  <2>3. CASE failed' = failed
    <3>1. o.verdict \notin Verdicts
      BY <1>1, <2>1, <2>3 DEF Appends
    <3>2. Cardinality(MissingAt') \in Nat /\ Cardinality(MissingAt') <= Cardinality(MissingAt)
      BY <1>2, <1>3, <3>1, Smaller
    <3> QED BY <1>1, <1>2, <2>3, <3>2
  <2> QED BY <2>2, <2>3 DEF Appends
<1>6. BaselineFailed' => Len(outcomes') = 1 /\ failed' = 0
  <2>1. CASE o.scenario = Baseline
    BY <1>1, <2>1 DEF Appends, RecordInv
  <2>2. CASE o.scenario # Baseline
    <3>1. ~BaselineFailed
      BY <2>2 DEF Appends
    <3>2. outcomes # <<>> => n >= 1 /\ outcomes'[1] = outcomes[1]
      BY <1>1 DEF TypeOK
    <3>3. outcomes = <<>> => outcomes'[1] = o
      BY <1>1
    <3> QED BY <1>1, <2>2, <3>1, <3>2, <3>3 DEF BaselineFailed
  <2> QED BY <2>1, <2>2
<1>7. HasOutcomes' => /\ json' \in Seq(Records)
                      /\ Len(json') <= Len(outcomes')
                      /\ \A i \in 1 .. Len(json') : json'[i] = outcomes'[i]
  <2> SUFFICES ASSUME HasOutcomes' PROVE /\ json' \in Seq(Records)
                                         /\ Len(json') <= Len(outcomes')
                                         /\ \A i \in 1 .. Len(json') : json'[i] = outcomes'[i]
    OBVIOUS
  <2>1. json' = json /\ HasOutcomes
    BY <1>1 DEF HasOutcomes
  <2>2. /\ json \in Seq(Records) /\ Len(json) \in Nat /\ Len(json) <= n
        /\ \A i \in 1 .. Len(json) : json[i] = outcomes[i]
    BY <2>1 DEF RecordInv
  <2> QED BY <1>1, <2>1, <2>2
<1>8. /\ owner' = r /\ pc'[r] # "done" /\ holder' = r
      /\ \A q \in Runs : pc'[q] \notin {"write", "start"}
  BY <1>1 DEF Holding
<1> QED BY <1>4, <1>5, <1>6, <1>7, <1>8 DEF RecordInv

\* An outcome is added, written to outcomes.json, and then to its list, and each may fail.
LEMMA RecordHolder ==
    ASSUME SessionInv, SessionInv', RecordInv, NEW r \in Runs,
           WritePreviouslyCaught(r) \/ Tests(r)
    PROVE  RecordInv'
<1> USE DEF SessionInv
<1>1. /\ pc[r] \in Holding /\ pc'[r] \in Holding /\ UNCHANGED <<holder, owner>>
      /\ \A q \in Runs : q # r => pc'[q] = pc[q]
  BY TestsTouch DEF WritePreviouslyCaught, Goto, history, TypeOK, Holding
<1>2. /\ holder = r /\ owner = r /\ r # None /\ pc'[r] # "done"
      /\ \A q \in Runs : q # r => pc[q] \notin Holding
  BY <1>1, SessionsAssumption DEF OneHolder, RecordInv, Holding
<1>3. CASE /\ UNCHANGED <<lists, json, outcomes>> /\ failed <= failed' /\ failed' \in Nat
           /\ pc'[r] \in {"write", "start", "test"} => pc[r] \in {"write", "start", "test"}
           /\ pc'[r] \in {"write", "start"} => pc[r] \in {"write", "start"} /\ failed' = failed
           /\ BaselineFailed => failed' = failed
  <2>1. UNCHANGED MissingAt /\ HasOutcomes' = HasOutcomes /\ BaselineFailed' = BaselineFailed
    BY <1>3 DEF MissingAt, MissingFromList, HasOutcomes, BaselineFailed
  <2>2. Cardinality(MissingAt \ {Len(outcomes)}) \in Nat /\ Cardinality(MissingAt) \in Nat
    BY MissingFinite, FS_CardinalityType, Smaller
  <2>3. (Cardinality(MissingAt \ {Len(outcomes)}) <= failed')
        /\ (Settled' => Cardinality(MissingAt) <= failed')
    BY <1>1, <1>2, <1>3, <2>2 DEF RecordInv, Settled, TypeOK
  <2>4. \A q \in Runs : pc'[q] \in {"write", "start"} => outcomes = <<>> /\ failed' = 0
    BY <1>1, <1>2, <1>3 DEF RecordInv, Holding
  <2> QED BY <1>1, <1>2, <1>3, <2>1, <2>3, <2>4 DEF RecordInv
<1>4. CASE WritePreviouslyCaught(r) \/ SkipBaseline(r) \/ Elapse(r)
  <2>1. UNCHANGED <<lists, json, outcomes, failed>> /\ failed \in Nat
    BY <1>4 DEF WritePreviouslyCaught, SkipBaseline, Elapse, disk, memory, workers, TypeOK
  <2>2. \/ pc'[r] = pc[r]
        \/ pc[r] = "write" /\ pc'[r] = "start"
        \/ pc[r] = "start" /\ pc'[r] = "test"
    BY <1>4 DEF WritePreviouslyCaught, SkipBaseline, Elapse, Goto, TypeOK
  <2> QED BY <1>3, <2>1, <2>2
<1>5. CASE WorkerFails(r)
  <2>1. /\ UNCHANGED <<lists, json, outcomes, pc>> /\ failed' = failed + 1 /\ failed \in Nat
        /\ ~BaselineFailed /\ pc[r] = "test"
    BY <1>5 DEF WorkerFails, disk, TypeOK, Works
  <2> QED BY <1>3, <2>1
<1>6. CASE \/ RunBaseline(r)
           \/ \E m \in Mutants, v \in Verdicts \cup {"failure"} :
                 AddScenarioOutcome(r, m, v) \/ OpenFails(r, m, v)
  BY <1>1, <1>2, <1>6, OutcomeAppended, RecordAppends
<1>7. CASE WriteLabOutcome(r)
  <2>1. /\ pc[r] = "json" /\ pc'[r] = AfterJson(Last(outcomes)) /\ json' \in {outcomes, Torn}
        /\ UNCHANGED <<lists, outcomes, failed>> /\ pc'[r] \in {"list", "test"}
    BY <1>7 DEF WriteLabOutcome, workers, Goto, TypeOK, AfterJson
  <2>2. UNCHANGED MissingAt /\ BaselineFailed' = BaselineFailed
    BY <2>1 DEF MissingAt, MissingFromList, BaselineFailed
  <2>3. pc'[r] = "test" => Len(outcomes) \notin MissingAt
    BY <2>1 DEF AfterJson, MissingAt, MissingFromList, Last, HolderKnows, TypeOK
  <2>4. Settled' => Cardinality(MissingAt) <= failed
    <3> SUFFICES ASSUME Settled' PROVE Cardinality(MissingAt) <= failed
      OBVIOUS
    <3>1. MissingAt = MissingAt \ {Len(outcomes)}
      BY <1>1, <1>2, <2>1, <2>3 DEF Settled
    <3> QED BY <3>1 DEF RecordInv
  <2>5. HasOutcomes' => /\ json' \in Seq(Records)
                        /\ Len(json') <= Len(outcomes')
                        /\ \A i \in 1 .. Len(json') : json'[i] = outcomes'[i]
    BY <2>1 DEF HasOutcomes, TypeOK
  <2>6. \A q \in Runs : pc'[q] \notin {"write", "start"}
    BY <1>1, <1>2, <2>1 DEF Holding
  <2> QED BY <1>1, <1>2, <2>1, <2>2, <2>4, <2>5, <2>6 DEF RecordInv
<1>8. CASE WriteToList(r)
  <2> DEFINE o == Last(outcomes)
  <2>1. /\ pc[r] = "list" /\ pc'[r] = "test"
        /\ UNCHANGED <<json, holder, owner, outcomes, failed>>
        /\ lists' = [lists EXCEPT ![o.verdict] = @ \cup {o.scenario}]
    BY <1>8 DEF WriteToList, memory, workers, Goto, TypeOK
  <2>2. Len(outcomes) \in DOMAIN outcomes /\ o = outcomes[Len(outcomes)] /\ o.verdict \in Verdicts
    BY <2>1 DEF TypeOK, HolderKnows, Holding, Last
  <2> HIDE DEF o
  <2>3. (\A v \in Verdicts : lists[v] \subseteq lists'[v]) /\ o.scenario \in lists'[o.verdict]
    BY <2>1, <2>2 DEF TypeOK
  <2>4. MissingAt' \subseteq MissingAt \ {Len(outcomes)}
    BY <2>1, <2>2, <2>3 DEF MissingAt, MissingFromList
  <2>5. /\ Cardinality(MissingAt') \in Nat
        /\ Cardinality(MissingAt') <= Cardinality(MissingAt \ {Len(outcomes)})
        /\ Cardinality((MissingAt \ {Len(outcomes)})') \in Nat
        /\ Cardinality((MissingAt \ {Len(outcomes)})') <= Cardinality(MissingAt \ {Len(outcomes)})
        /\ Cardinality(MissingAt \ {Len(outcomes)}) \in Nat
    <3>1. IsFiniteSet(MissingAt \ {Len(outcomes)})
      BY MissingFinite, Smaller
    <3>2. (MissingAt \ {Len(outcomes)})' \subseteq MissingAt \ {Len(outcomes)}
      BY <2>4
    <3> QED BY <2>4, <3>1, <3>2, Smaller
  <2>6. Cardinality(MissingAt') <= failed /\ Cardinality((MissingAt \ {Len(outcomes)})') <= failed
    BY <2>5 DEF RecordInv, TypeOK
  <2>7. BaselineFailed' = BaselineFailed /\ HasOutcomes' = HasOutcomes
    BY <2>1 DEF BaselineFailed, HasOutcomes
  <2>8. \A q \in Runs : pc'[q] \notin {"write", "start"}
    BY <1>1, <1>2, <2>1 DEF Holding
  <2> QED BY <1>2, <2>1, <2>6, <2>7, <2>8 DEF RecordInv
<1>9. CASE WriteFails(r)
  <2>1. /\ pc[r] \in {"json", "list"} /\ pc'[r] = "test" /\ Last(outcomes).scenario # Baseline
        /\ UNCHANGED <<lists, json, outcomes>> /\ failed' = failed + 1 /\ failed \in Nat
    BY <1>9 DEF WriteFails, disk, Goto, TypeOK
  <2>2. UNCHANGED MissingAt /\ HasOutcomes' = HasOutcomes /\ BaselineFailed' = BaselineFailed
    BY <2>1 DEF MissingAt, MissingFromList, HasOutcomes, BaselineFailed
  <2>3. ~BaselineFailed
    BY <2>1 DEF BaselineFailed, RecordInv, Last
  <2>4. /\ Cardinality(MissingAt \ {Len(outcomes)}) \in Nat /\ Cardinality(MissingAt) \in Nat
        /\ Cardinality(MissingAt) <= Cardinality(MissingAt \ {Len(outcomes)}) + 1
    <3>1. IsFiniteSet(MissingAt \ {Len(outcomes)}) /\ IsFiniteSet(MissingAt)
      BY MissingFinite, Smaller
    <3>2. /\ Cardinality(MissingAt \ {Len(outcomes)}) \in Nat
          /\ Cardinality(MissingAt) \in Nat
      BY <3>1, FS_CardinalityType
    <3>3. Cardinality(MissingAt) <= Cardinality(MissingAt \ {Len(outcomes)}) + 1
      BY <3>1, AtMostOneMore
    <3> QED BY <3>2, <3>3
  <2>5. Cardinality(MissingAt \ {Len(outcomes)}) <= failed' /\ Cardinality(MissingAt) <= failed'
    BY <2>1, <2>4 DEF RecordInv
  <2>6. \A q \in Runs : pc'[q] \notin {"write", "start"}
    BY <1>1, <1>2, <2>1 DEF Holding
  <2> QED BY <1>1, <1>2, <2>1, <2>2, <2>3, <2>5, <2>6 DEF RecordInv
<1> QED BY <1>4, <1>5, <1>6, <1>7, <1>8, <1>9 DEF Tests

\* At the end outcomes.json is written again, and a kill leaves it as it is.
LEMMA RecordEnd ==
    ASSUME SessionInv, RecordInv, NEW r \in Runs, NoMutants(r) \/ Finish(r) \/ Die(r)
    PROVE  RecordInv'
<1> USE DEF SessionInv
<1>1. /\ UNCHANGED <<lists, owner, outcomes, failed>>
      /\ holder' = IF holder = r THEN None ELSE holder
      /\ \A q \in Runs : q # r => pc'[q] = pc[q]
      /\ pc'[r] \in {"done", "dead"}
  BY DEF NoMutants, Finish, Die, Goto, OneHolder, Holding, TypeOK, disk, workers
<1>2. /\ UNCHANGED MissingAt /\ BaselineFailed' = BaselineFailed
      /\ Settled' => Settled
      /\ \A q \in Runs : pc'[q] \in {"write", "start"} => pc[q] \in {"write", "start"}
      /\ holder' # None => owner' = holder'
  BY <1>1 DEF MissingAt, MissingFromList, BaselineFailed, Settled, TypeOK, RecordInv
<1>3. CASE Finish(r) \/ NoMutants(r)
  <2>1. pc[r] \in Holding /\ holder = r /\ owner = r /\ r # None /\ Settled /\ failed = 0
    BY <1>3, SessionsAssumption DEF Finish, NoMutants, OneHolder, RecordInv, Holding, Settled
  <2>2. MissingAt = {}
    <3>1. IsFiniteSet(MissingAt) /\ Cardinality(MissingAt) \in Nat /\ Cardinality(MissingAt) <= 0
      BY <2>1, MissingFinite, FS_CardinalityType DEF RecordInv
    <3>2. Cardinality(MissingAt) = 0
      BY <3>1
    <3> QED BY <3>1, <3>2, FS_EmptySet
  <2>3. \/ json' \in {outcomes, Torn}
        \/ json' = json /\ outcomes = <<>>
    BY <1>3 DEF Finish, FinalOutcomes, NoMutants, disk, RecordInv
  <2>4. HasOutcomes' => json' = outcomes
    <3>1. HasOutcomes /\ outcomes = <<>> => json = outcomes
      BY DEF RecordInv
    <3> QED BY <2>3, <3>1 DEF HasOutcomes
  <2>5. HasOutcomes' => /\ json' \in Seq(Records)
                        /\ Len(json') <= Len(outcomes')
                        /\ \A i \in 1 .. Len(json') : json'[i] = outcomes'[i]
    BY <1>1, <2>4 DEF TypeOK
  <2> QED BY <1>1, <1>2, <2>2, <2>4, <2>5 DEF RecordInv
<1>4. CASE Die(r)
  <2>1. UNCHANGED json /\ pc'[r] = "dead"
    BY <1>4 DEF Die, Goto, TypeOK
  <2>2. /\ owner # None /\ pc'[owner] = "done" => pc[owner] = "done"
        /\ HasOutcomes' = HasOutcomes
    BY <1>1, <2>1 DEF RecordInv, HasOutcomes
  <2> QED BY <1>1, <1>2, <2>1, <2>2 DEF RecordInv
<1> QED BY <1>3, <1>4

\* outcomes.json, where it is whole, is a prefix of the outcomes; of these at most one
\* for each failed worker and one more is not in its list, wherever invocations were
\* killed and whichever writes failed or were left out for being too soon; and both
\* are complete once the invocation is done.
THEOREM KeepsOutcomes == Spec => []OutcomesAreKept
<1>1. RecordInv /\ SessionInv /\ SessionInv' /\ [Next]_vars => RecordInv'
  <2> SUFFICES ASSUME RecordInv, SessionInv, SessionInv', [Next]_vars PROVE RecordInv'
    OBVIOUS
  <2>1. CASE UNCHANGED vars
    BY <2>1 DEF vars, disk, memory, workers, history, RecordInv, HasOutcomes, MissingAt,
                MissingFromList, Settled, BaselineFailed
  <2> QED BY <2>1, RecordReader, RecordRotate, RecordHolder, RecordEnd
          DEF Next, Step, Tests, Terminated
<1>2. SessionInv /\ RecordInv => OutcomesAreKept
  <2> DEFINE missing == {i \in DOMAIN json : MissingFromList(json[i])}
  <2> SUFFICES ASSUME SessionInv, RecordInv, owner # None, HasOutcomes
               PROVE  /\ IsPrefix(json, outcomes)
                      /\ Cardinality(missing) <= failed + 1
                      /\ pc[owner] = "done" => json = outcomes /\ Cardinality(missing) = 0
    BY DEF OutcomesAreKept, HasOutcomes
  <2>1. /\ json \in Seq(Records) /\ outcomes \in Seq(Records) /\ Len(json) <= Len(outcomes)
        /\ \A i \in 1 .. Len(json) : json[i] = outcomes[i]
        /\ failed \in Nat
    BY DEF RecordInv, SessionInv, TypeOK
  <2>2. IsPrefix(json, outcomes)
    BY <2>1 DEF IsPrefix
  <2>3. missing \subseteq MissingAt
    BY <2>1 DEF MissingAt
  <2> HIDE DEF missing
  <2>4. Cardinality(missing) <= failed + 1
    <3>1. IsFiniteSet(MissingAt \ {Len(outcomes)}) /\ IsFiniteSet(MissingAt)
      BY MissingFinite, Smaller DEF SessionInv
    <3>2. Cardinality(MissingAt \ {Len(outcomes)}) \in Nat
          /\ Cardinality(missing) \in Nat
          /\ Cardinality(missing) <= Cardinality(MissingAt \ {Len(outcomes)}) + 1
      BY <2>3, <3>1, AtMostOneMore, FS_CardinalityType
    <3> QED BY <2>1, <3>2 DEF RecordInv
  <2>5. pc[owner] = "done" => json = outcomes /\ Cardinality(missing) = 0
    <3>1. pc[owner] = "done" => json = outcomes /\ missing = {}
      BY <2>3 DEF RecordInv
    <3> QED BY <3>1, FS_EmptySet
  <2> QED BY <2>2, <2>4, <2>5
<1> QED BY <1>1, <1>2, RecordInit, SessionsAlways, PTL DEF Spec

=============================================================================

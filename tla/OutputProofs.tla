---------------------------- MODULE OutputProofs ----------------------------
(***************************************************************************)
(* Proofs about the output directory, for any number of invocations.       *)
(***************************************************************************)
EXTENDS OutputDir, TLAPS

Unmade(p) ==
    pc[p] \in {"parent", "makeParent", "look", "open", "wait", "release", "rotated",
               "remove", "rename", "make"}

\* An invocation that waits has a lock.json open and one that tests has it
\* locked; its own directory does not exist before it has made it.
LockInv ==
    \A p \in Runs :
        /\ pc[p] \in {"wait", "waitOwn", "stock", "test"} => opened[p] # None
        /\ Testing(p) => holder[opened[p]] = p
        /\ Unmade(p) => out # p /\ \A q \in Runs : opened[q] # p

\* One that found another under way has come no further than its lock.
BeforeInv ==
    \A p \in Runs : \A q \in before[p] :
        /\ Testing(q) \/ pc[q] \in Ended
        /\ Testing(q) /\ opened[q] = out =>
              \/ pc[p] \in Ended
              \/ pc[p] = "open"
              \/ pc[p] = "wait" /\ opened[p] = out

\* The same of all of them as long as only one at a time prepares.
Alone ==
    /\ \A p, q \in Runs : Preparing(p) /\ Preparing(q) => p = q
    /\ \A p, q \in Runs : Testing(p) /\ Testing(q) => p = q
    /\ \A p, q \in Runs : Testing(q) /\ Preparing(p) =>
          pc[p] = "open" \/ (pc[p] = "wait" /\ opened[p] = out)
    /\ \A p \in Runs : pc[p] = "openOwn" => out = p
    /\ \A p \in Runs : pc[p] = "waitOwn" \/ Testing(p) => opened[p] = p /\ out = p
    /\ \A d \in Dirs : outcomes[d] \in {None, d}

RaceInv == ~raced => Alone

OutputInv == TypeOK /\ LockInv /\ BeforeInv /\ RaceInv

\* No run has started.
LEMMA OutputInit == Init => OutputInv
<1> SUFFICES ASSUME Init PROVE OutputInv
  OBVIOUS
<1> USE RunsAssumption DEF Init, Dirs, Ended
<1>1. TypeOK
  BY DEF TypeOK
<1>2. LockInv
  BY DEF LockInv, Testing
<1>3. BeforeInv
  BY DEF BeforeInv
<1>4. RaceInv
  BY DEF RaceInv, Alone, Testing, Preparing
<1> QED BY <1>1, <1>2, <1>3, <1>4 DEF OutputInv

\* Every step keeps the types.
LEMMA OutputTypes ==
    ASSUME OutputInv, NEW p \in Runs, Step(p)
    PROVE  TypeOK'
<1> USE RunsAssumption DEF OutputInv, TypeOK, LockInv, NoDirectory,
        Ended, Dirs, tree, hist, Goto, At
<1>1. CASE SeeParent(p)
  BY <1>1 DEF SeeParent, Proceed
<1>2. CASE MakeParent(p)
  <2>1. parent' \in BOOLEAN
    BY <1>2 DEF MakeParent, Fail
  <2>2. /\ UNCHANGED <<out, old, stocked, lockFile, outcomes, hist>>
        /\ pc' = [pc EXCEPT ![p] = "look"] \/ pc' = [pc EXCEPT ![p] = "failed"]
        /\ holder' = holder \/ holder' = CloseFiles(p)
        /\ opened' = opened \/ opened' = [opened EXCEPT ![p] = None]
    BY <1>2 DEF MakeParent, Proceed, Fail, Leave
  <2> QED BY <2>1, <2>2 DEF CloseFiles
<1>3. CASE Look(p)
  BY <1>3 DEF Look
<1>4. CASE OpenOldLock(p)
  BY <1>4 DEF OpenOldLock, OpenLock, Fail, Leave, CloseFiles
<1>5. CASE LockOld(p)
  BY <1>5 DEF LockOld, TryLock, Unlocked
<1>6. CASE Release(p)
  BY <1>6 DEF Release, CloseFiles
<1>7. CASE SeeRotated(p)
  BY <1>7 DEF SeeRotated, Proceed
<1>8. CASE RemoveRotated(p)
  BY <1>8 DEF RemoveRotated, Proceed, Fail, Leave, CloseFiles
<1>9. CASE Rename(p)
  BY <1>9 DEF Rename, Proceed, Fail, Leave, CloseFiles
<1>10. CASE Make(p)
  BY <1>10 DEF Make, Proceed, Fail, Leave, CloseFiles
<1>11. CASE OpenOwnLock(p)
  BY <1>11 DEF OpenOwnLock, OpenLock, Fail, Leave, CloseFiles
<1>12. CASE LockOwn(p)
  BY <1>12 DEF LockOwn, TryLock, Unlocked
<1>13. CASE Stock(p)
  BY <1>13 DEF Stock, Proceed, Fail, Leave, CloseFiles
<1>14. CASE GiveUp(p)
  BY <1>14 DEF GiveUp, Fail, Leave, CloseFiles
<1>15. CASE Record(p)
  BY <1>15 DEF Record
<1>16. CASE RecordFails(p)
  BY <1>16 DEF RecordFails, Fail, Leave, CloseFiles
<1>17. CASE Finish(p)
  BY <1>17 DEF Finish, Fail, Leave, CloseFiles
<1>18. CASE RunFails(p)
  BY <1>18 DEF RunFails, Fail, Leave, CloseFiles
<1>19. CASE Crash(p)
  BY <1>19 DEF Crash, Leave, CloseFiles
<1> QED
  BY <1>1, <1>2, <1>3, <1>4, <1>5, <1>6, <1>7, <1>8, <1>9, <1>10, <1>11, <1>12,
     <1>13, <1>14, <1>15, <1>16, <1>17, <1>18, <1>19 DEF Step, Prepare

\* A directory that is yet to be made is open in no run.
LEMMA FreshName ==
    ASSUME LockInv, NEW p \in Runs, pc[p] = "make"
    PROVE  \A q \in Runs : opened[q] # p
<1>1. Unmade(p)
  BY DEF Unmade
<1> QED BY <1>1 DEF LockInv

\* One that tests has locked the file it opened, whatever another does.
LEMMA LockStep ==
    ASSUME OutputInv, NEW p \in Runs, Step(p)
    PROVE  LockInv'
<1> USE RunsAssumption DEF OutputInv, TypeOK, LockInv, Unmade, Testing, NoDirectory,
        Ended, Dirs, tree, hist, Goto, At
<1>1. CASE SeeParent(p)
  BY <1>1 DEF SeeParent, Proceed
<1>2. CASE MakeParent(p)
  BY <1>2 DEF MakeParent, Proceed, Fail, Leave, CloseFiles
<1>3. CASE Look(p)
  BY <1>3 DEF Look
<1>4. CASE OpenOldLock(p)
  BY <1>4 DEF OpenOldLock, OpenLock, Fail, Leave, CloseFiles
<1>5. CASE LockOld(p)
  BY <1>5 DEF LockOld, TryLock, Unlocked
<1>6. CASE Release(p)
  BY <1>6 DEF Release, CloseFiles
<1>7. CASE SeeRotated(p)
  BY <1>7 DEF SeeRotated, Proceed
<1>8. CASE RemoveRotated(p)
  BY <1>8 DEF RemoveRotated, Proceed, Fail, Leave, CloseFiles
<1>9. CASE Rename(p)
  BY <1>9 DEF Rename, Proceed, Fail, Leave, CloseFiles
<1>10. CASE Make(p)
  BY <1>10 DEF Make, Proceed, Fail, Leave, CloseFiles
<1>11. CASE OpenOwnLock(p)
  BY <1>11 DEF OpenOwnLock, OpenLock, Fail, Leave, CloseFiles
<1>12. CASE LockOwn(p)
  BY <1>12 DEF LockOwn, TryLock, Unlocked
<1>13. CASE Stock(p)
  BY <1>13 DEF Stock, Proceed, Fail, Leave, CloseFiles
<1>14. CASE GiveUp(p)
  BY <1>14 DEF GiveUp, Fail, Leave, CloseFiles
<1>15. CASE Record(p)
  BY <1>15 DEF Record
<1>16. CASE RecordFails(p)
  BY <1>16 DEF RecordFails, Fail, Leave, CloseFiles
<1>17. CASE Finish(p)
  BY <1>17 DEF Finish, Fail, Leave, CloseFiles
<1>18. CASE RunFails(p)
  BY <1>18 DEF RunFails, Fail, Leave, CloseFiles
<1>19. CASE Crash(p)
  BY <1>19 DEF Crash, Leave, CloseFiles
<1> QED
  BY <1>1, <1>2, <1>3, <1>4, <1>5, <1>6, <1>7, <1>8, <1>9, <1>10, <1>11, <1>12,
     <1>13, <1>14, <1>15, <1>16, <1>17, <1>18, <1>19 DEF Step, Prepare

\* One that found another under way gets no further than the lock.
LEMMA BeforeStep ==
    ASSUME OutputInv, NEW p \in Runs, Step(p)
    PROVE  BeforeInv'
<1> USE RunsAssumption DEF OutputInv, TypeOK, LockInv, BeforeInv, Testing, NoDirectory,
        Ended, Dirs, tree, hist, Goto, At
<1>1. CASE SeeParent(p)
  BY <1>1 DEF SeeParent, Proceed
<1>2. CASE MakeParent(p)
  BY <1>2 DEF MakeParent, Proceed, Fail, Leave, CloseFiles
<1>3. CASE Look(p)
  BY <1>3 DEF Look
<1>4. CASE OpenOldLock(p)
  BY <1>4 DEF OpenOldLock, OpenLock, Fail, Leave, CloseFiles
<1>5. CASE LockOld(p)
  BY <1>5 DEF LockOld, TryLock, Unlocked
<1>6. CASE Release(p)
  BY <1>6 DEF Release, CloseFiles
<1>7. CASE SeeRotated(p)
  BY <1>7 DEF SeeRotated, Proceed
<1>8. CASE RemoveRotated(p)
  BY <1>8 DEF RemoveRotated, Proceed, Fail, Leave, CloseFiles
<1>9. CASE Rename(p)
  BY <1>9 DEF Rename, Proceed, Fail, Leave, CloseFiles
<1>10. CASE Make(p)
  <2>1. CASE out # None
    BY <1>10, <2>1 DEF Make, Fail, Leave, CloseFiles
  <2>2. CASE out = None
    <3>1. /\ pc[p] = "make" /\ pc' = [pc EXCEPT ![p] = "openOwn"] /\ out' = p
          /\ UNCHANGED <<opened, before>>
      BY <1>10, <2>2 DEF Make, Proceed
    <3>2. \A q \in Runs : opened[q] # p
      BY <3>1, FreshName
    <3> QED BY <3>1, <3>2
  <2> QED BY <2>1, <2>2
<1>11. CASE OpenOwnLock(p)
  BY <1>11 DEF OpenOwnLock, OpenLock, Fail, Leave, CloseFiles
<1>12. CASE LockOwn(p)
  BY <1>12 DEF LockOwn, TryLock, Unlocked
<1>13. CASE Stock(p)
  BY <1>13 DEF Stock, Proceed, Fail, Leave, CloseFiles
<1>14. CASE GiveUp(p)
  BY <1>14 DEF GiveUp, Fail, Leave, CloseFiles
<1>15. CASE Record(p)
  BY <1>15 DEF Record
<1>16. CASE RecordFails(p)
  BY <1>16 DEF RecordFails, Fail, Leave, CloseFiles
<1>17. CASE Finish(p)
  BY <1>17 DEF Finish, Fail, Leave, CloseFiles
<1>18. CASE RunFails(p)
  BY <1>18 DEF RunFails, Fail, Leave, CloseFiles
<1>19. CASE Crash(p)
  BY <1>19 DEF Crash, Leave, CloseFiles
<1> QED
  BY <1>1, <1>2, <1>3, <1>4, <1>5, <1>6, <1>7, <1>8, <1>9, <1>10, <1>11, <1>12,
     <1>13, <1>14, <1>15, <1>16, <1>17, <1>18, <1>19 DEF Step, Prepare

\* Unless two have prepared at once, every step leaves them one at a time.
LEMMA RaceStep ==
    ASSUME OutputInv, NEW p \in Runs, Step(p)
    PROVE  RaceInv'
<1> USE RunsAssumption DEF OutputInv, TypeOK, LockInv, RaceInv, Alone, Testing, Preparing, Unmade,
        NoDirectory,
        Ended, Dirs, tree, hist, Goto, At
<1>1. CASE SeeParent(p)
  BY <1>1 DEF SeeParent, Proceed
<1>2. CASE MakeParent(p)
  BY <1>2 DEF MakeParent, Proceed, Fail, Leave, CloseFiles
<1>3. CASE Look(p)
  <2> SUFFICES ASSUME ~raced' PROVE Alone'
    OBVIOUS
  <2>1. ~raced /\ \A q \in Runs : ~Preparing(q)
    BY <1>3 DEF Look
  <2>2. /\ pc[p] = "look"
        /\ pc' = [pc EXCEPT ![p] = IF out = None THEN "make" ELSE "open"]
        /\ UNCHANGED <<out, opened, outcomes>>
    BY <1>3 DEF Look
  <2>3. \A q \in Runs : Preparing(q)' => q = p
    BY <2>1, <2>2
  <2>4. \A q \in Runs : Testing(q) <=> Testing(q)'
    BY <2>2
  <2>5. \A q \in Runs : Testing(q) => pc'[p] = "open"
    BY <2>1, <2>2
  <2> QED BY <2>1, <2>2, <2>3, <2>4, <2>5
<1>4. CASE OpenOldLock(p)
  BY <1>4 DEF OpenOldLock, OpenLock, Fail, Leave, CloseFiles
<1>5. CASE LockOld(p)
  BY <1>5 DEF LockOld, TryLock, Unlocked
<1>6. CASE Release(p)
  BY <1>6 DEF Release, CloseFiles
<1>7. CASE SeeRotated(p)
  BY <1>7 DEF SeeRotated, Proceed
<1>8. CASE RemoveRotated(p)
  BY <1>8 DEF RemoveRotated, Proceed, Fail, Leave, CloseFiles
<1>9. CASE Rename(p)
  BY <1>9 DEF Rename, Proceed, Fail, Leave, CloseFiles
<1>10. CASE Make(p)
  BY <1>10 DEF Make, Proceed, Fail, Leave, CloseFiles
<1>11. CASE OpenOwnLock(p)
  BY <1>11 DEF OpenOwnLock, OpenLock, Fail, Leave, CloseFiles
<1>12. CASE LockOwn(p)
  BY <1>12 DEF LockOwn, TryLock, Unlocked
<1>13. CASE Stock(p)
  BY <1>13 DEF Stock, Proceed, Fail, Leave, CloseFiles
<1>14. CASE GiveUp(p)
  BY <1>14 DEF GiveUp, Fail, Leave, CloseFiles
<1>15. CASE Record(p)
  BY <1>15 DEF Record
<1>16. CASE RecordFails(p)
  BY <1>16 DEF RecordFails, Fail, Leave, CloseFiles
<1>17. CASE Finish(p)
  BY <1>17 DEF Finish, Fail, Leave, CloseFiles
<1>18. CASE RunFails(p)
  BY <1>18 DEF RunFails, Fail, Leave, CloseFiles
<1>19. CASE Crash(p)
  BY <1>19 DEF Crash, Leave, CloseFiles
<1> QED
  BY <1>1, <1>2, <1>3, <1>4, <1>5, <1>6, <1>7, <1>8, <1>9, <1>10, <1>11, <1>12,
     <1>13, <1>14, <1>15, <1>16, <1>17, <1>18, <1>19 DEF Step, Prepare

\* The invariant holds throughout.
LEMMA OutputAlways == Spec => []OutputInv
<1>1. OutputInv /\ [Next]_vars => OutputInv'
  <2> SUFFICES ASSUME OutputInv, [Next]_vars PROVE OutputInv'
    OBVIOUS
  <2>1. ASSUME NEW p \in Runs, Step(p) PROVE OutputInv'
    BY <2>1, OutputTypes, LockStep, BeforeStep, RaceStep DEF OutputInv
  <2>2. CASE UNCHANGED vars
    <3> USE <2>2 DEF OutputInv, vars, tree, hist, Ended
    <3>1. TypeOK'
      BY DEF TypeOK
    <3>2. LockInv'
      BY DEF LockInv, Testing, Unmade
    <3>3. BeforeInv'
      BY DEF BeforeInv, Testing
    <3>4. RaceInv'
      BY DEF RaceInv, Alone, Testing, Preparing
    <3> QED BY <3>1, <3>2, <3>3, <3>4
  <2> QED BY <2>1, <2>2 DEF Next, AllEnded
<1> QED BY OutputInit, <1>1, PTL DEF Spec

\* Whatever races between other invocations: one that is testing is left alone
\* by all that start after it.
THEOREM LaterWait == Spec => LaterRunsWait
<1>1. OutputInv /\ [Next]_vars =>
         [\A p, q \in Runs :
             q \in before[p] /\ Testing(q) /\ At(p, "rename") /\ At(p, "make")'
                => opened[q] # out]_vars
  BY DEF OutputInv, BeforeInv, At, Ended
<1> QED BY <1>1, OutputAlways, PTL DEF Spec, LaterRunsWait

\* The lock does what it is for as long as no two invocations rotate together.
THEOREM AloneTheorem == Spec => []AloneUnlessRaced
<1>1. OutputInv => AloneUnlessRaced
  <2> SUFFICES ASSUME OutputInv, ~raced, NEW p \in Runs, Testing(p)
               PROVE  /\ opened[p] = out
                      /\ outcomes[out] \in {None, p}
                      /\ \A q \in Runs \ {p} : ~Testing(q)
    BY DEF AloneUnlessRaced
  <2>1. opened[p] = p /\ out = p
    BY DEF OutputInv, RaceInv, Alone
  <2>2. outcomes[out] \in {None, p}
    BY <2>1 DEF OutputInv, RaceInv, Alone, Dirs
  <2>3. \A q \in Runs \ {p} : ~Testing(q)
    BY DEF OutputInv, RaceInv, Alone
  <2> QED BY <2>1, <2>2, <2>3
<1> QED BY <1>1, OutputAlways, PTL

=============================================================================

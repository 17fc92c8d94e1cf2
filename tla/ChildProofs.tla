---------------------------- MODULE ChildProofs ----------------------------
(***************************************************************************)
(* Proofs about run_cargo, for any number of test processes and of errors. *)
(***************************************************************************)
EXTENDS ChildProcess, TLAPS

\* The waiter thread is the only one to reap the process and sends one message,
\* which is all that ties the calling thread to the process.
WaiterInv ==
    /\ waiter = "none" <=> state[Cargo] = "unborn"
    /\ waiter = "waiting" => channel = Empty /\ state[Cargo] \in {"running", "zombie"}
    /\ waiter = "done" /\ faults = 0 => state[Cargo] = "gone"
    /\ channel \in OwnExit => channel = status /\ state[Cargo] = "gone"
    /\ waiter = "none" => channel = Empty
    /\ state[Cargo] \in {"zombie", "gone"} => status \in OwnExit

\* What each place of the calling thread knows.
CallerInv ==
    /\ pc = "start" => waiter = "none" /\ faults = 0
    /\ pc \notin {"start", "done"} => waiter # "none"
    /\ pc \in {"log", "check"} => waiter = "done"
    /\ pc = "done" /\ faults = 0 => waiter = "done"
    /\ pc \in {"start", "step", "recv", "kill"} => signalled = {}
    /\ pc \in {"start", "step", "recv", "kill", "join"} => seen = "none"
    /\ pc \in {"log", "check"} => seen # "none"
    /\ why = "Timeout" => timed /\ overdue
    /\ seen = "Timeout" => why = "Timeout"
    /\ seen \in OwnExit =>
          seen = status /\ state[Cargo] = "gone" /\ Cargo \notin signalled
    /\ result \in OwnExit => state[Cargo] = "gone"

ChildInv == TypeOK /\ WaiterInv /\ CallerInv /\ VerdictIsOwn

\* No process has been started.
LEMMA ChildInit == Init => ChildInv
<1> SUFFICES ASSUME Init PROVE ChildInv
  OBVIOUS
<1> USE DEF Init, Processes, OwnExit, Empty, WaitError
<1>1. TypeOK
  <2>1. 0 \in 0 .. MaxFaults
    BY ProcessAssumption
  <2> QED BY <2>1 DEF TypeOK, Returned
<1>2. WaiterInv /\ CallerInv /\ VerdictIsOwn
  BY DEF WaiterInv, CallerInv, VerdictIsOwn
<1> QED BY <1>1, <1>2 DEF ChildInv

\* Every step keeps the types.
LEMMA ChildTypes == ChildInv /\ [Next]_vars => TypeOK'
<1> SUFFICES ASSUME ChildInv, [Next]_vars PROVE TypeOK'
  OBVIOUS
<1> USE ProcessAssumption
    DEF ChildInv, TypeOK, Fault, Return, FailsIn, Decide, caller, child, Returned, Processes
<1>1. CASE Start
  BY <1>1 DEF Start
<1>2. CASE StartFails
  BY <1>2 DEF StartFails, FailsIn
<1>3. CASE NoticeTimeout
  BY <1>3 DEF NoticeTimeout, Decide, TimeIsUp
<1>4. CASE NoticeInterrupt
  BY <1>4 DEF NoticeInterrupt, Decide
<1>5. CASE WaitForExit
  BY <1>5 DEF WaitForExit, Decide
<1>6. CASE Receive
  BY <1>6 DEF Receive, HasStatus
<1>7. CASE ReceiveError
  BY <1>7 DEF ReceiveError
<1>8. CASE PollAgain
  BY <1>8 DEF PollAgain
<1>9. CASE Kill
  BY <1>9 DEF Kill, AfterSignal, Members
<1>10. CASE KillFails
  BY <1>10 DEF KillFails, FailsIn
<1>11. CASE Join
  BY <1>11 DEF Join, KilledAs
<1>12. CASE LogResult
  BY <1>12 DEF LogResult
<1>13. CASE LogFails
  BY <1>13 DEF LogFails, FailsIn
<1>14. CASE Check
  BY <1>14 DEF Check, Verdict
<1>15. CASE Reap
  BY <1>15 DEF Reap, WaiterInv
<1>16. CASE WaitFails
  BY <1>16 DEF WaitFails
<1>17. CASE CargoExits
  BY <1>17 DEF CargoExits
<1>18. ASSUME NEW t \in Tests, TestStarts(t) \/ TestExits(t) PROVE TypeOK'
  BY <1>18 DEF TestStarts, TestExits
<1>19. CASE TimePasses
  BY <1>19 DEF TimePasses
<1>20. CASE Interrupt
  BY <1>20 DEF Interrupt
<1>21. CASE UNCHANGED vars
  BY <1>21 DEF vars
<1> QED
  BY <1>1, <1>2, <1>3, <1>4, <1>5, <1>6, <1>7, <1>8, <1>9, <1>10, <1>11, <1>12,
     <1>13, <1>14, <1>15, <1>16, <1>17, <1>18, <1>19, <1>20, <1>21
     DEF Next, CallerStep, WaiterStep, Returns

\* An I/O error returns at once, and the child is then nobody's concern.
LEMMA FaultCounts == ASSUME TypeOK, Fault PROVE faults' # 0
BY ProcessAssumption DEF TypeOK, Fault

\* An error in the kill or the log returns an error, not a verdict.
LEMMA ErrorReturns ==
    ASSUME ChildInv, NEW location \in {"kill", "log"}, FailsIn(location)
    PROVE  (WaiterInv /\ CallerInv /\ VerdictIsOwn)'
<1>1. faults' # 0
  BY FaultCounts DEF ChildInv, FailsIn
<1>2. /\ pc = location /\ pc' = "done" /\ result' = "Error"
      /\ UNCHANGED <<why, seen, channel, waiter, state, status, signalled, timed, overdue>>
  BY DEF FailsIn, Return, child
<1>3. WaiterInv'
  BY <1>1, <1>2 DEF ChildInv, WaiterInv
<1>4. CallerInv'
  BY <1>1, <1>2 DEF ChildInv, CallerInv, OwnExit
<1>5. VerdictIsOwn'
  BY <1>2 DEF VerdictIsOwn, OwnExit
<1> QED BY <1>3, <1>4, <1>5

\* A step that touches neither cargo nor the caller keeps what they know.
LEMMA Untouched ==
    ASSUME ChildInv, state'[Cargo] = state[Cargo],
           UNCHANGED <<pc, why, seen, result, channel, waiter, status, signalled, timed,
                       overdue, faults>>
    PROVE  (WaiterInv /\ CallerInv /\ VerdictIsOwn)'
<1>1. WaiterInv'
  BY DEF ChildInv, WaiterInv
<1>2. CallerInv'
  BY DEF ChildInv, CallerInv
<1>3. VerdictIsOwn'
  BY DEF ChildInv, VerdictIsOwn
<1> QED BY <1>1, <1>2, <1>3

\* The tests that cargo starts run in its group and change no verdict.
LEMMA TestStep ==
    ASSUME ChildInv, NEW t \in Tests, TestStarts(t) \/ TestExits(t)
    PROVE  (WaiterInv /\ CallerInv /\ VerdictIsOwn)'
<1>1. t # Cargo
  BY ProcessAssumption
<1>2. state'[Cargo] = state[Cargo]
  BY <1>1 DEF TestStarts, TestExits, ChildInv, TypeOK, Processes
<1>3. UNCHANGED <<pc, why, seen, result, channel, waiter, status, signalled, timed, overdue,
                  faults>>
  BY DEF TestStarts, TestExits, caller
<1> QED BY <1>2, <1>3, Untouched

\* Ctrl-C sets a flag that only the caller reads.
LEMMA OtherStep ==
    ASSUME ChildInv, Interrupt \/ UNCHANGED vars
    PROVE  (WaiterInv /\ CallerInv /\ VerdictIsOwn)'
BY Untouched DEF Interrupt, vars, caller, child

\* The waiter passes on that wait has failed.
LEMMA ErrorReported ==
    ASSUME ChildInv, WaitFails
    PROVE  (WaiterInv /\ CallerInv /\ VerdictIsOwn)'
<1>1. faults' # 0
  BY FaultCounts DEF ChildInv, WaitFails
<1>2. /\ waiter = "waiting" /\ waiter' = "done" /\ channel' = WaitError
      /\ UNCHANGED <<pc, why, seen, result, state, status, signalled, timed, overdue>>
  BY DEF WaitFails, caller, child
<1>3. WaiterInv'
  BY <1>1, <1>2 DEF ChildInv, WaiterInv, OwnExit, WaitError
<1>4. CallerInv'
  BY <1>1, <1>2 DEF ChildInv, CallerInv, WaiterInv
<1>5. VerdictIsOwn'
  BY <1>2 DEF ChildInv, VerdictIsOwn
<1> QED BY <1>3, <1>4, <1>5

\* One step of the waiter, of the caller or of the child at a time.
LEMMA ChildStep ==
    ChildInv /\ [Next]_vars => (WaiterInv /\ CallerInv /\ VerdictIsOwn)'
<1> SUFFICES ASSUME ChildInv, [Next]_vars
             PROVE  (WaiterInv /\ CallerInv /\ VerdictIsOwn)'
  OBVIOUS
<1> USE ProcessAssumption
    DEF ChildInv, TypeOK, WaiterInv, CallerInv, VerdictIsOwn, Fault, Return, FailsIn, Decide,
        caller, child, Processes, OwnExit, Empty, WaitError
<1>1. CASE Start
  BY <1>1 DEF Start
<1>2. CASE StartFails
  BY <1>2 DEF StartFails, FailsIn
<1>3. CASE NoticeTimeout
  BY <1>3 DEF NoticeTimeout, Decide, TimeIsUp
<1>4. CASE NoticeInterrupt
  BY <1>4 DEF NoticeInterrupt, Decide
<1>5. CASE WaitForExit
  BY <1>5 DEF WaitForExit, Decide
<1>6. CASE Receive
  BY <1>6 DEF Receive, HasStatus
<1>7. CASE ReceiveError
  BY <1>7 DEF ReceiveError
<1>8. CASE PollAgain
  BY <1>8 DEF PollAgain
<1>9. CASE Kill
  BY <1>9 DEF Kill, AfterSignal, Members
<1>10. CASE KillFails
  BY <1>10, ErrorReturns DEF KillFails
<1>11. CASE Join
  BY <1>11 DEF Join, KilledAs
<1>12. CASE LogResult
  BY <1>12 DEF LogResult
<1>13. CASE LogFails
  BY <1>13, ErrorReturns DEF LogFails
<1>14. CASE Check
  BY <1>14 DEF Check, Verdict
<1>15. CASE Reap
  BY <1>15 DEF Reap, WaiterInv
<1>16. CASE WaitFails
  BY <1>16, ErrorReported
<1>17. CASE CargoExits
  BY <1>17 DEF CargoExits
<1>18. ASSUME NEW t \in Tests, TestStarts(t) \/ TestExits(t) PROVE (WaiterInv /\ CallerInv /\ VerdictIsOwn)'
  BY <1>18, TestStep
<1>19. CASE TimePasses
  BY <1>19 DEF TimePasses
<1>20. CASE Interrupt
  BY <1>20, OtherStep
<1>21. CASE UNCHANGED vars
  BY <1>21, OtherStep
<1> QED
  BY <1>1, <1>2, <1>3, <1>4, <1>5, <1>6, <1>7, <1>8, <1>9, <1>10, <1>11, <1>12,
     <1>13, <1>14, <1>15, <1>16, <1>17, <1>18, <1>19, <1>20, <1>21
     DEF Next, CallerStep, WaiterStep, Returns

\* The invariant holds throughout.
LEMMA ChildAlways == Spec => []ChildInv
<1>1. ChildInv /\ [Next]_vars => ChildInv'
  BY ChildTypes, ChildStep DEF ChildInv
<1> QED BY ChildInit, <1>1, PTL DEF Spec

\* run_cargo returns a verdict only for a cargo process that has ended and been
\* reaped: no mutation is reverted under a running build.
THEOREM Gone == Spec => []GoneBeforeReturn
<1>1. ChildInv => GoneBeforeReturn
  BY DEF ChildInv, WaiterInv, CallerInv, GoneBeforeReturn
<1> QED BY <1>1, ChildAlways, PTL

\* A status that classifies a mutant is cargo's own, and a timeout was reached.
THEOREM OwnVerdict == Spec => []VerdictIsOwn
<1>1. ChildInv => VerdictIsOwn
  BY DEF ChildInv
<1> QED BY <1>1, ChildAlways, PTL

=============================================================================

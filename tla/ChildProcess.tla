---------------------------- MODULE ChildProcess ----------------------------
(***************************************************************************)
(* One call of run_cargo (src/cargo.rs): Process::run watches a cargo      *)
(* process for its end, for its timeout and for Ctrl-C (src/process.rs),   *)
(* while a waiter thread reaps the process and reports its exit status     *)
(* over a channel (src/process/unix.rs).  cargo starts test processes,     *)
(* which share its process group.                                          *)
(*                                                                         *)
(* The steps of the calling thread, of the waiter thread, of cargo and its *)
(* tests, of the clock and of Ctrl-C interleave freely.                    *)
(***************************************************************************)
EXTENDS Naturals

CONSTANTS Cargo,        \* the process that is started
          Tests,        \* the processes cargo may start in its group
          Timed,        \* whether a timeout applies, the values to explore
          MaxFaults     \* bound on the I/O errors of one call

ASSUME ProcessAssumption ==
    /\ Cargo \notin Tests
    /\ Timed \subseteq BOOLEAN
    /\ MaxFaults \in Nat

Processes == {Cargo} \cup Tests

\* What wait() reports of a process, as From<ExitStatus> classifies it.
OwnExit == {"Success", "Failure", "Signalled", "Other"}
Empty == "empty"
WaitError == "wait failed"

VARIABLES
    pc,          \* where the calling thread is
    why,         \* the reason for which it terminates the process
    seen,        \* process_status, the result of the loop
    result,      \* what run_cargo returns
    channel,     \* exit_rx, which carries one message
    waiter,      \* the thread blocked in child.wait()
    state,       \* of each process
    status,      \* cargo's exit status
    signalled,   \* the processes that have been sent SIGTERM
    timed,       \* timeout.is_some()
    overdue,     \* start.elapsed() > timeout
    interrupted, \* the INTERRUPTED flag
    faults

caller == <<pc, why, seen, result>>
child  == <<state, status>>
vars   == <<caller, channel, waiter, child, signalled, timed, overdue, interrupted, faults>>

Returned == {"Timeout", "Interrupted", "Error"} \cup OwnExit

TypeOK ==
    /\ pc \in {"start", "step", "recv", "kill", "join", "log", "check", "done"}
    /\ why \in {"none", "Timeout", "Interrupted"}
    /\ seen \in {"none", "Timeout"} \cup OwnExit
    /\ result \in {"none"} \cup Returned
    /\ channel \in {Empty, WaitError} \cup OwnExit
    /\ waiter \in {"none", "waiting", "done"}
    /\ state \in [Processes -> {"unborn", "running", "zombie", "gone"}]
    /\ status \in {"none"} \cup OwnExit
    /\ signalled \in SUBSET Processes
    /\ timed \in Timed
    /\ overdue \in BOOLEAN
    /\ interrupted \in BOOLEAN
    /\ faults \in 0 .. MaxFaults

Init ==
    /\ pc = "start" /\ why = "none" /\ seen = "none" /\ result = "none"
    /\ channel = Empty
    /\ waiter = "none"
    /\ state = [p \in Processes |-> "unborn"]
    /\ status = "none"
    /\ signalled = {}
    /\ timed \in Timed
    /\ overdue = FALSE
    /\ interrupted = FALSE
    /\ faults = 0

-----------------------------------------------------------------------------
(* The calling thread *)

Fault == faults < MaxFaults /\ faults' = faults + 1
Return(r) == result' = r /\ pc' = "done"

\* An I/O error that Process::run passes on, leaving the child as it is.
FailsIn(location) ==
    /\ pc = location
    /\ Fault
    /\ Return("Error")
    /\ UNCHANGED <<why, seen, channel, waiter, child, signalled, timed, overdue, interrupted>>

\* Process::start and spawn: the child in a group of its own, and its waiter.
Start ==
    /\ pc = "start"
    /\ pc' = "step"
    /\ state' = [state EXCEPT ![Cargo] = "running"]
    /\ waiter' = "waiting"
    /\ UNCHANGED <<why, seen, result, channel, status, signalled, timed, overdue,
                   interrupted, faults>>

\* The log cannot be written or opened, or cargo cannot be spawned.
StartFails == FailsIn("start")

TimeIsUp == timed /\ overdue

\* Variant of StopRequested: Ctrl-C is looked at where there is a timeout.
StopIfTimed == timed /\ interrupted

\* check_interrupted
StopRequested == interrupted

Decide(reason, next) ==
    /\ pc = "step"
    /\ why' = reason
    /\ pc' = next
    /\ UNCHANGED <<seen, result, channel, waiter, child, signalled, timed, overdue,
                   interrupted, faults>>

\* wait_step looks at the timeout first, then at Ctrl-C, then waits.
NoticeTimeout   == TimeIsUp /\ Decide("Timeout", "kill")
NoticeInterrupt == ~TimeIsUp /\ StopRequested /\ Decide("Interrupted", "kill")
WaitForExit     == ~TimeIsUp /\ ~StopRequested /\ Decide("none", "recv")

\* Ok(Some(status)) from wait_for_exit.
HasStatus == channel \in OwnExit

\* recv_timeout returns what the waiter sent.
Receive ==
    /\ pc = "recv"
    /\ HasStatus
    /\ seen' = channel
    /\ channel' = Empty
    /\ pc' = "log"
    /\ UNCHANGED <<why, result, waiter, child, signalled, timed, overdue, interrupted, faults>>

ReceiveError ==
    /\ pc = "recv"
    /\ channel = WaitError
    /\ channel' = Empty
    /\ Return("Error")
    /\ UNCHANGED <<why, seen, waiter, child, signalled, timed, overdue, interrupted, faults>>

\* WAIT_POLL_INTERVAL passes without a message; the caller ticks and loops.
PollAgain ==
    /\ pc = "recv"
    /\ channel = Empty
    /\ pc' = "step"
    /\ UNCHANGED <<why, seen, result, channel, waiter, child, signalled, timed, overdue,
                   interrupted, faults>>

Members == {p \in Processes : state[p] \in {"running", "zombie"}}

\* Variant of AfterSignal: goes on without waiting for the process to end.
AtOnce == IF why = "Timeout" THEN "log" ELSE "done"

\* terminate blocks in exit_rx.recv().
AfterSignal == "join"

\* killpg(pid, SIGTERM); an empty group (ESRCH) is as good.
Kill ==
    /\ pc = "kill"
    /\ signalled' = signalled \cup Members
    /\ pc' = AfterSignal
    /\ UNCHANGED <<why, seen, result, channel, waiter, child, timed, overdue, interrupted, faults>>

\* Any other errno: "failed to terminate child".
KillFails == FailsIn("kill")

\* Variant of KilledAs: the status the process exited with.
ExitedAs == IF channel \in OwnExit THEN channel ELSE "Timeout"

\* Whatever the waiter reports, and even if it reports an error.
KilledAs == "Timeout"

Join ==
    /\ pc = "join"
    /\ channel # Empty
    /\ channel' = Empty
    /\ IF why = "Timeout"
       THEN seen' = KilledAs /\ pc' = "log" /\ UNCHANGED result
       ELSE Return("Interrupted") /\ UNCHANGED seen
    /\ UNCHANGED <<why, waiter, child, signalled, timed, overdue, interrupted, faults>>

\* scenario_output.message("result: ...")
LogResult ==
    /\ pc = "log"
    /\ pc' = "check"
    /\ UNCHANGED <<why, seen, result, channel, waiter, child, signalled, timed, overdue,
                   interrupted, faults>>

LogFails == FailsIn("log")

\* run_cargo looks for Ctrl-C once more before it returns Ok.
Verdict == IF interrupted THEN "Interrupted" ELSE seen

Check ==
    /\ pc = "check"
    /\ Return(Verdict)
    /\ UNCHANGED <<why, seen, channel, waiter, child, signalled, timed, overdue,
                   interrupted, faults>>

-----------------------------------------------------------------------------
(* The waiter thread *)

\* child.wait() returns and its result is sent.
Reap ==
    /\ waiter = "waiting"
    /\ state[Cargo] = "zombie"
    /\ state' = [state EXCEPT ![Cargo] = "gone"]
    /\ channel' = status
    /\ waiter' = "done"
    /\ UNCHANGED <<caller, status, signalled, timed, overdue, interrupted, faults>>

WaitFails ==
    /\ waiter = "waiting"
    /\ Fault
    /\ channel' = WaitError
    /\ waiter' = "done"
    /\ UNCHANGED <<caller, child, signalled, timed, overdue, interrupted>>

-----------------------------------------------------------------------------
(* cargo, its tests, the clock and the user *)

\* A process may die of SIGTERM, or catch it and exit as it likes, or ignore it.
CargoExits ==
    /\ state[Cargo] = "running"
    /\ state' = [state EXCEPT ![Cargo] = "zombie"]
    /\ status' \in OwnExit
    /\ UNCHANGED <<caller, channel, waiter, signalled, timed, overdue, interrupted, faults>>

TestStarts(t) ==
    /\ state[Cargo] = "running" /\ state[t] = "unborn"
    /\ state' = [state EXCEPT ![t] = "running"]
    /\ UNCHANGED <<caller, channel, waiter, status, signalled, timed, overdue,
                   interrupted, faults>>

TestExits(t) ==
    /\ state[t] = "running"
    /\ state' = [state EXCEPT ![t] = "gone"]
    /\ UNCHANGED <<caller, channel, waiter, status, signalled, timed, overdue,
                   interrupted, faults>>

TimePasses ==
    /\ pc # "start" /\ ~overdue
    /\ overdue' = TRUE
    /\ UNCHANGED <<caller, channel, waiter, child, signalled, timed, interrupted, faults>>

Interrupt ==
    /\ ~interrupted
    /\ interrupted' = TRUE
    /\ UNCHANGED <<caller, channel, waiter, child, signalled, timed, overdue, faults>>

-----------------------------------------------------------------------------

\* The call has returned; a process that was not waited for may still run.
Returns == pc = "done" /\ UNCHANGED vars

CallerStep ==
    \/ Start \/ StartFails
    \/ NoticeTimeout \/ NoticeInterrupt \/ WaitForExit
    \/ Receive \/ ReceiveError \/ PollAgain
    \/ Kill \/ KillFails \/ Join
    \/ LogResult \/ LogFails \/ Check

WaiterStep == Reap \/ WaitFails

Next ==
    \/ CallerStep
    \/ WaiterStep
    \/ CargoExits
    \/ \E t \in Tests : TestStarts(t) \/ TestExits(t)
    \/ TimePasses
    \/ Interrupt
    \/ Returns

Spec == Init /\ [][Next]_vars

\* Threads are scheduled and time passes; nothing is known of cargo.
FairSpec ==
    /\ Spec
    /\ WF_vars(CallerStep) /\ WF_vars(Reap) /\ WF_vars(TimePasses)

\* A cargo process that has been sent SIGTERM exits.
PoliteSpec ==
    /\ FairSpec
    /\ WF_vars(Cargo \in signalled /\ CargoExits)

-----------------------------------------------------------------------------
(* Properties *)

\* run_cargo does not return while cargo is running, so that the caller never
\* reverts a mutation, or applies the next one, under a running build or test:
\* only an error can make it return early.
GoneBeforeReturn == pc = "done" /\ faults = 0 => state[Cargo] = "gone"

\* An exit status that classifies a mutant is the one cargo had by itself: a
\* process that this program ended counts as a timeout or as nothing, and a
\* timeout is never reported early.
VerdictIsOwn ==
    /\ result \in OwnExit => result = status /\ Cargo \notin signalled
    /\ result = "Timeout" => timed /\ overdue

\* A timeout or a Ctrl-C ends the call, even of a process that would not end.
StopsEventually == (pc # "start" /\ (timed \/ interrupted)) ~> (pc = "done")

=============================================================================

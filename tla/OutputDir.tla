------------------------------ MODULE OutputDir ------------------------------
(***************************************************************************)
(* The mutants.out directory (src/output.rs) as several invocations of     *)
(* cargo-mutants see it that are started in one tree: each rotates the     *)
(* directory it finds to mutants.out.old, makes a new one, locks its       *)
(* lock.json and writes into it by its path until it ends, is interrupted  *)
(* or is killed.                                                           *)
(*                                                                         *)
(* A directory keeps its identity when it is renamed, and a lock belongs   *)
(* to the file that was opened, wherever its directory has gone since.     *)
(* Every action is one system call, or a few between which no other        *)
(* invocation can make a difference.                                       *)
(***************************************************************************)

CONSTANTS Runs,         \* the invocations
          Earlier,      \* the directory an invocation of the past has left
          Older,        \* the one that is mutants.out.old
          None

ASSUME RunsAssumption ==
    /\ {Earlier, Older, None} \cap Runs = {}
    /\ Earlier # Older /\ None \notin {Earlier, Older}

\* An invocation makes at most one directory, which is named after it.
Dirs == Runs \cup {Earlier, Older}

VARIABLES
    parent,    \* whether in_dir exists
    out,       \* the directory at mutants.out
    old,       \* the directory at mutants.out.old
    stocked,   \* the directories that have been given log, diff and lists
    lockFile,  \* the directories that have a lock.json
    holder,    \* the invocation that has each lock.json locked
    outcomes,  \* the invocation whose outcomes.json each directory has
    pc,        \* where each invocation is
    opened,    \* the directory whose lock.json it has open
    before,    \* (history) the invocations it found under way in mutants.out
    raced      \* (history) whether two have prepared a directory at a time

tree == <<parent, out, old, stocked, lockFile, outcomes>>
hist == <<before, raced>>
vars == <<tree, holder, pc, opened, hist>>

Ended == {"done", "failed", "dead"}

TypeOK ==
    /\ parent \in BOOLEAN
    /\ out \in Dirs \cup {None}
    /\ old \in Dirs \cup {None}
    /\ stocked \subseteq Dirs
    /\ lockFile \subseteq Dirs
    /\ holder \in [Dirs -> Runs \cup {None}]
    /\ outcomes \in [Dirs -> Runs \cup {None}]
    /\ pc \in [Runs -> {"parent", "makeParent", "look", "open", "wait", "release", "rotated",
                        "remove", "rename", "make", "openOwn", "waitOwn", "stock", "test"}
                       \cup Ended]
    /\ opened \in [Runs -> Dirs \cup {None}]
    /\ before \in [Runs -> SUBSET Runs]
    /\ raced \in BOOLEAN

Init ==
    /\ out \in {None, Earlier}
    /\ old \in {None, Older}
    /\ parent \in {b \in BOOLEAN : b \/ (out = None /\ old = None)}
    /\ stocked = {Earlier, Older}
    /\ lockFile = {Earlier, Older}
    /\ holder = [d \in Dirs |-> None]
    /\ outcomes = [d \in Dirs |-> None]
    /\ pc = [p \in Runs |-> "parent"]
    /\ opened = [p \in Runs |-> None]
    /\ before = [p \in Runs |-> {}]
    /\ raced = FALSE

-----------------------------------------------------------------------------

At(p, location) == pc[p] = location
Goto(p, location) == pc' = [pc EXCEPT ![p] = location]

\* It has the lock it keeps for its lifetime.
Testing(p) == pc[p] \in {"stock", "test"}

\* It has looked at mutants.out and does not have that lock yet.
Preparing(p) == pc[p] \notin {"parent", "makeParent", "look", "stock", "test"} \cup Ended

\* An error is returned or the process is killed: its files are closed, which
\* gives up any lock.  Variants: a lock that outlives its owner, and one that
\* any invocation gives up.
KeepLocks(p) == holder
FreeLocks(p) == [d \in Dirs |-> None]

CloseFiles(p) == [d \in Dirs |-> IF holder[d] = p THEN None ELSE holder[d]]

Leave(p, how) ==
    /\ Goto(p, how)
    /\ holder' = CloseFiles(p)
    /\ opened' = [opened EXCEPT ![p] = None]
    /\ UNCHANGED hist

Fail(p) == Leave(p, "failed") /\ UNCHANGED tree

Proceed(p, location) == Goto(p, location) /\ UNCHANGED <<holder, opened, hist>>

\* in_dir.exists(), then create_dir(in_dir).
SeeParent(p) ==
    /\ At(p, "parent")
    /\ Proceed(p, IF parent THEN "look" ELSE "makeParent")
    /\ UNCHANGED tree

MakeParent(p) ==
    /\ At(p, "makeParent")
    /\ IF parent
       THEN Fail(p)
       ELSE /\ parent' = TRUE
            /\ Proceed(p, "look")
            /\ UNCHANGED <<out, old, stocked, lockFile, outcomes>>

\* output_dir.exists()
Look(p) ==
    /\ At(p, "look")
    /\ Goto(p, IF out = None THEN "make" ELSE "open")
    /\ before' = [before EXCEPT ![p] = {q \in Runs : Testing(q) /\ opened[q] = out}]
    /\ raced' = (raced \/ \E q \in Runs : Preparing(q))
    /\ UNCHANGED <<tree, holder, opened>>

NoDirectory == out = None

\* acquire_lock opens lock.json by its path, and creates it.
OpenLock(p, here, next) ==
    /\ At(p, here)
    /\ IF NoDirectory
       THEN Fail(p)
       ELSE /\ lockFile' = lockFile \cup {out}
            /\ opened' = [opened EXCEPT ![p] = out]
            /\ Goto(p, next)
            /\ UNCHANGED <<parent, out, old, stocked, outcomes, holder, hist>>

OpenOldLock(p) == OpenLock(p, "open", "wait")
OpenOwnLock(p) == OpenLock(p, "openOwn", "waitOwn")

\* Variant of Unlocked: the lock is only looked at where it will be kept.
OwnUnlocked(p) == At(p, "wait") \/ holder[opened[p]] = None

\* try_lock_exclusive on the file that was opened.
Unlocked(p) == holder[opened[p]] = None

TryLock(p, here, next) ==
    /\ At(p, here)
    /\ Unlocked(p)
    /\ holder' = [holder EXCEPT ![opened[p]] = p]
    /\ Goto(p, next)
    /\ UNCHANGED <<tree, opened, hist>>

LockOld(p) == TryLock(p, "wait", "release")
LockOwn(p) == TryLock(p, "waitOwn", "stock")

\* Ctrl-C while it waits.
GiveUp(p) ==
    /\ pc[p] \in {"wait", "waitOwn"}
    /\ ~Unlocked(p)
    /\ Fail(p)

\* The File that acquire_lock returns is dropped at once.
Release(p) ==
    /\ At(p, "release")
    /\ Goto(p, "rotated")
    /\ holder' = CloseFiles(p)
    /\ UNCHANGED <<tree, opened, hist>>

\* rotated.exists()
SeeRotated(p) ==
    /\ At(p, "rotated")
    /\ Proceed(p, IF old = None THEN "rename" ELSE "remove")
    /\ UNCHANGED tree

\* remove_dir_all.  If another invocation is removing the same directory it
\* may fail or not.
RemoveRotated(p) ==
    /\ At(p, "remove")
    /\ \/ /\ old' = None
          /\ Proceed(p, "rename")
          /\ UNCHANGED <<parent, out, stocked, lockFile, outcomes>>
       \/ old = None /\ Fail(p)

\* rename needs mutants.out, and replaces no directory that has a file in it.
Rename(p) ==
    /\ At(p, "rename")
    /\ IF NoDirectory \/ old \in lockFile
       THEN Fail(p)
       ELSE /\ old' = out
            /\ out' = None
            /\ Proceed(p, "make")
            /\ UNCHANGED <<parent, stocked, lockFile, outcomes>>

\* create_dir(output_dir)
Make(p) ==
    /\ At(p, "make")
    /\ IF out # None
       THEN Fail(p)
       ELSE /\ out' = p
            /\ Proceed(p, "openOwn")
            /\ UNCHANGED <<parent, old, stocked, lockFile, outcomes>>

\* The log and diff directories must be new; then the list files are opened.
Stock(p) ==
    /\ At(p, "stock")
    /\ IF NoDirectory \/ out \in stocked
       THEN Fail(p)
       ELSE /\ stocked' = stocked \cup {out}
            /\ Proceed(p, "test")
            /\ UNCHANGED <<parent, out, old, lockFile, outcomes>>

\* A scenario's log and diff, and outcomes.json, are written by their path.
Record(p) ==
    /\ At(p, "test")
    /\ out \in stocked
    /\ outcomes' = [outcomes EXCEPT ![out] = p]
    /\ UNCHANGED <<parent, out, old, stocked, lockFile, holder, pc, opened, hist>>

\* A log name is taken, or there is no directory.
RecordFails(p) ==
    /\ At(p, "test")
    /\ out # opened[p]
    /\ Fail(p)

\* finish writes outcomes.json; then the files are closed.
Finish(p) ==
    /\ At(p, "test")
    /\ IF NoDirectory
       THEN Fail(p)
       ELSE /\ outcomes' = [outcomes EXCEPT ![out] = p]
            /\ Leave(p, "done")
            /\ UNCHANGED <<parent, out, old, stocked, lockFile>>

\* An error or Ctrl-C in test_mutants.
RunFails(p) == At(p, "test") /\ Fail(p)

\* Killed at any moment.
Crash(p) == pc[p] \notin Ended /\ Leave(p, "dead") /\ UNCHANGED tree

-----------------------------------------------------------------------------

Prepare(p) ==
    \/ SeeParent(p) \/ MakeParent(p) \/ Look(p)
    \/ OpenOldLock(p) \/ LockOld(p) \/ Release(p)
    \/ SeeRotated(p) \/ RemoveRotated(p) \/ Rename(p) \/ Make(p)
    \/ OpenOwnLock(p) \/ LockOwn(p) \/ Stock(p)

Step(p) ==
    \/ Prepare(p)
    \/ GiveUp(p)
    \/ Record(p) \/ RecordFails(p) \/ Finish(p) \/ RunFails(p)
    \/ Crash(p)

AllEnded == (\A p \in Runs : pc[p] \in Ended) /\ UNCHANGED vars

Next == (\E p \in Runs : Step(p)) \/ AllEnded

Spec == Init /\ [][Next]_vars

\* An invocation is scheduled, and its tests end.
FairSpec == Spec /\ \A p \in Runs : WF_vars(Prepare(p)) /\ WF_vars(Finish(p))

-----------------------------------------------------------------------------
(* Properties *)

\* An invocation that is testing in mutants.out when another one starts is left
\* alone by it: the later one waits for the lock of the directory it found
\* before it renames it.
LaterRunsWait ==
    [][\A p, q \in Runs :
          q \in before[p] /\ Testing(q) /\ At(p, "rename") /\ At(p, "make")'
             => opened[q] # out]_vars

\* What one invocation at a time sees of the directory: as long as no two look at
\* it and rotate it together, each has it to itself, also if others wait for
\* it, are killed or fail halfway.
AloneUnlessRaced ==
    ~raced => \A p \in Runs :
                 Testing(p) => /\ opened[p] = out
                               /\ outcomes[out] \in {None, p}
                               /\ \A q \in Runs \ {p} : ~Testing(q)

\* Every invocation ends, however many wait for the same directory and whichever
\* of them are killed: no lock outlives its owner.
EveryRunEnds == \A p \in Runs : <>(pc[p] \in Ended)

\* src/output.rs:40-42: lock.json is "used as a lock file to ensure that two
\* cargo-mutants invocations don't try to write to the same `mutants.out`
\* simultneously."  So outcomes.json, while its invocation tests, is its own.
OneRunPerDirectory ==
    \A p \in Runs : Testing(p) => outcomes[opened[p]] \in {None, p}

=============================================================================

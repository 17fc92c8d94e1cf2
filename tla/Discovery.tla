----------------------------- MODULE Discovery -----------------------------
(***************************************************************************)
(* From the command line to the mutants that are listed or tested: main of *)
(* src/main.rs, Workspace::discover, and walk_tree, walk_package and       *)
(* walk_files of src/visit.rs with one thread for each file in flight.     *)
(* What the traversal of one file yields is Visitor's part: here it is the *)
(* file's mutants and the modules it declares.                             *)
(***************************************************************************)
EXTENDS SourceTree, InDiff

CONSTANTS
    Workspaces,     \* the trees, by name
    Invocations,    \* [tree, args, config, caught]: caught has the names in the lists
    Parallelism     \* available_parallelism()

ASSUME DiscoveryAssumption ==
    /\ Parallelism \in Nat \ {0}
    /\ \A tree \in DOMAIN Workspaces : IsWorkspace(Workspaces[tree])

\* Git shows context around every change, and a file that remains in one patch.
IsDiff(diff) ==
    /\ diff.context \in Nat \ {0}
    /\ IsSeq(diff.edits)
    /\ \A i, j \in {i \in DOMAIN diff.edits : ~diff.edits[i].removed} :
          diff.edits[i].path = diff.edits[j].path => i = j
    /\ \A edit \in ToSet(diff.edits) : IsScript(edit.script)
    /\ diff.patches = GitDiff(diff.edits, diff.context)

ASSUME InvocationsAssumption ==
    \A i \in Invocations :
        /\ i.tree \in DOMAIN Workspaces
        /\ i.args.in_diff.is \in {"none", "missing", "garbage", "diff"}
        /\ i.args.in_diff.is = "diff" => IsDiff(i.args.in_diff)
        /\ i.args.mode = "run" => IsSeq(i.args.dir) /\ IsSeq(i.args.packages)

VARIABLES
    inv,           \* the invocation
    interrupted,   \* the flag that the signal handler sets
    stage,         \* how far main has come
    packages,      \* those still to be walked
    pending,       \* walk_package: the files of the next level, [path, is_top]
    level,         \* those of this one
    next,          \* walk_files: the first file without a thread
    inFlight,      \* the count of threads it has started and not heard of
    running,       \* the threads, by the file they walk
    sent,          \* the channel
    results,
    mutants,
    files,
    output         \* what the program ends with: [is, value]

walkVars == <<packages, pending, level, next, inFlight, running, sent, results>>
vars == <<inv, interrupted, stage, packages, pending, level, next, inFlight,
          running, sent, results, mutants, files, output>>

Tree == Workspaces[inv.tree]
Args == inv.args

Unset == [is |-> "unset"]
NoOutput == [is |-> "none"]

Init ==
    /\ inv \in Invocations
    /\ interrupted = FALSE
    /\ stage = "start"
    /\ packages = <<>>
    /\ pending = <<>>
    /\ level = <<>>
    /\ next = 1
    /\ inFlight = 0
    /\ running = {}
    /\ sent = <<>>
    /\ results = <<>>
    /\ mutants = <<>>
    /\ files = <<>>
    /\ output = NoOutput

-----------------------------------------------------------------------------
(* Options *)

\* A glob without / is for the name of a file or directory anywhere, one with /
\* for the whole path.
GlobMatches(glob, path) ==
    CASE glob.is = "file" -> Last(path) = glob.name
      [] glob.is = "dir" -> glob.name \in ToSet(Front(path))
      [] glob.is = "path" -> path = glob.path

\* What is on the command line is added to what is in the file.
ExamineGlobs == Args.file \cup inv.config.examine_globs
ExcludeGlobs == Args.exclude \cup inv.config.exclude_globs

AllowsSourceFilePath(path) ==
    /\ ExamineGlobs # {} => \E g \in ExamineGlobs : GlobMatches(g, path)
    /\ \A g \in ExcludeGlobs : ~GlobMatches(g, path)

\* The command line, then the file, then the default.
ShardingOption ==
    CASE Args.sharding # "unset" -> Args.sharding
      [] Args.sharding = "unset" /\ inv.config.sharding # "unset" -> inv.config.sharding
      [] OTHER -> "Slice"

-----------------------------------------------------------------------------
(* main, up to the walk *)

End(out) ==
    /\ stage' = "ended"
    /\ output' = out

Exit(code) == [is |-> "exit", value |-> code]
Err == [is |-> "err"]

\* A wrong argument, --version, --completions, --emit-schema, and --mutate-file,
\* which walks one file whatever workspace it is in.
Answer ==
    /\ stage = "start"
    /\ \/ /\ Args.mode = "invalid"
          /\ End(Exit("Usage"))
       \/ /\ Args.mode = "info"
          /\ End(Exit("Success"))
       \/ /\ Args.mode = "mutate_file"
          /\ LET file == FileAt(Tree, Args.path)[1]
             IN  End(IF file.load = "ok"
                     THEN [is |-> "listed", value |-> file.mutants] ELSE Err)
    /\ UNCHANGED <<inv, interrupted, walkVars, mutants, files>>

\* Workspace::open stops when interrupted.
OpenWorkspace ==
    /\ stage = "start"
    /\ Args.mode = "run"
    /\ CASE Args.manifest = "missing" -> End(Exit("Usage")) /\ UNCHANGED packages
         [] Args.manifest # "missing" /\ interrupted -> End(Err) /\ UNCHANGED packages
         [] OTHER -> IF FilterFails(Tree, Args)
                     THEN End(Err) /\ UNCHANGED packages
                     ELSE /\ stage' = "package"
                          /\ packages' = FilterPackages(Tree, Args)
                          /\ UNCHANGED output
    /\ UNCHANGED <<inv, interrupted, pending, level, next, inFlight, running, sent,
                   results, mutants, files>>

-----------------------------------------------------------------------------
(* walk_package *)

StartPackage ==
    /\ stage = "package"
    /\ packages # <<>>
    /\ stage' = "level"
    /\ pending' = LET tops == TopSources(Tree, Head(packages))
                  IN  [i \in DOMAIN tops |-> [path |-> tops[i], is_top |-> TRUE]]
    /\ UNCHANGED <<inv, interrupted, packages, level, next, inFlight, running, sent,
                   results, mutants, files, output>>

FinishPackage ==
    /\ stage = "level"
    /\ pending = <<>>
    /\ stage' = "package"
    /\ packages' = Tail(packages)
    /\ UNCHANGED <<inv, interrupted, pending, level, next, inFlight, running, sent,
                   results, mutants, files, output>>

StopLevel ==
    /\ stage = "level"
    /\ pending # <<>>
    /\ interrupted
    /\ End(Err)
    /\ UNCHANGED <<inv, interrupted, walkVars, mutants, files>>

\* walk_files fills the window.
StartLevel ==
    /\ stage = "level"
    /\ pending # <<>>
    /\ ~interrupted
    /\ stage' = "walking"
    /\ level' = pending
    /\ pending' = <<>>
    /\ inFlight' = Min({Parallelism, Len(pending)})
    /\ next' = inFlight' + 1
    /\ running' = 1 .. inFlight'
    /\ results' = [i \in DOMAIN pending |-> Unset]
    /\ UNCHANGED <<inv, interrupted, packages, sent, mutants, files, output>>

-----------------------------------------------------------------------------
(* walk_files *)

\* load_and_walk_file
Walk(entry) == [is |-> FileAt(Tree, entry.path)[1].load, entry |-> entry]

\* Variant of Placed: results in the order they arrive.
PlacedNext(done, i) ==
    [done EXCEPT ![Min({j \in DOMAIN done : done[j] = Unset})] = Walk(level[i])]

Placed(done, i) == [done EXCEPT ![i] = Walk(level[i])]

\* A thread, which catches a panic of its own, reports.
ThreadEnds(i) ==
    /\ i \in running
    /\ running' = running \ {i}
    /\ sent' = Append(sent, i)
    /\ UNCHANGED <<inv, interrupted, stage, packages, pending, level, next, inFlight,
                   results, mutants, files, output>>

\* Variant of Refill: a thread only when the window is empty.
RefillEmpty ==
    IF next <= Len(level) /\ inFlight = 1
    THEN /\ running' = running \cup {next}
         /\ next' = next + 1
         /\ UNCHANGED inFlight
    ELSE inFlight' = inFlight - 1 /\ UNCHANGED <<running, next>>

\* One thread has ended and the next file gets another.
Refill ==
    IF next <= Len(level)
    THEN /\ running' = running \cup {next}
         /\ next' = next + 1
         /\ UNCHANGED inFlight
    ELSE inFlight' = inFlight - 1 /\ UNCHANGED <<running, next>>

Receive ==
    /\ stage = "walking"
    /\ sent # <<>>
    /\ sent' = Tail(sent)
    /\ results' = Placed(results, Head(sent))
    /\ IF Walk(level[Head(sent)]).is = "panics"
       THEN stage' = "unwinding" /\ UNCHANGED <<next, inFlight, running>>
       ELSE Refill /\ UNCHANGED stage
    /\ UNCHANGED <<inv, interrupted, packages, pending, level, mutants, files, output>>

\* The scope waits for the other threads, and the panic goes on.
Unwind ==
    /\ stage = "unwinding"
    /\ running = {}
    /\ End([is |-> "panic"])
    /\ UNCHANGED <<inv, interrupted, walkVars, mutants, files>>

-----------------------------------------------------------------------------
(* walk_package, with the results of a level *)

Walked == Kept(results, LAMBDA r : r.is = "ok")

\* The modules of a file that is filtered out are followed all the same.
NextLevel ==
    FlattenSeq([i \in DOMAIN Walked |->
        LET found == ModSources(Tree, Walked[i].entry)
        IN  [j \in DOMAIN found |-> [path |-> found[j], is_top |-> FALSE]]])

Allowed == Kept(Walked, LAMBDA r : AllowsSourceFilePath(r.entry.path))

MutantsOf(package, path) ==
    LET found == FileAt(Tree, path)[1].mutants
    IN  [i \in DOMAIN found |->
            [package |-> package.name, path |-> path, name |-> found[i].name,
             first |-> found[i].first, last |-> found[i].last]]

EndLevel ==
    /\ stage = "walking"
    /\ inFlight = 0
    /\ level' = <<>>
    /\ results' = <<>>
    /\ IF \E i \in DOMAIN results : results[i].is = "unreadable"
       THEN /\ End([is |-> "unreadable", value |-> Kept(results,
                        LAMBDA r : r.is = "unreadable")[1].entry.path])
            /\ UNCHANGED <<pending, mutants, files>>
       ELSE /\ stage' = "level"
            /\ pending' = NextLevel
            /\ mutants' = mutants \o FlattenSeq([i \in DOMAIN Allowed |->
                              MutantsOf(Head(packages), Allowed[i].entry.path)])
            /\ files' = files \o [i \in DOMAIN Allowed |-> Allowed[i].entry.path]
            /\ UNCHANGED output
    /\ UNCHANGED <<inv, interrupted, packages, next, inFlight, running, sent>>

-----------------------------------------------------------------------------
(* main, after the walk *)

RemovePreviouslyCaught == Kept(mutants, LAMBDA m : m.name \notin inv.caught)

Iterate ==
    /\ stage = "package"
    /\ packages = <<>>
    /\ stage' = "files"
    /\ mutants' = IF Args.iterate THEN RemovePreviouslyCaught ELSE mutants
    /\ UNCHANGED <<inv, interrupted, walkVars, files, output>>

ListFiles ==
    /\ stage = "files"
    /\ IF Args.list_files THEN End([is |-> "files", value |-> files])
       ELSE stage' = "diff" /\ UNCHANGED output
    /\ UNCHANGED <<inv, interrupted, walkVars, mutants, files>>

Lengths ==
    [path \in {f.path : f \in ToSet(Tree.files)} |-> FileAt(Tree, path)[1].lines]

FilterDiff ==
    /\ stage = "diff"
    /\ LET filtered == DiffFilter(mutants, Args.in_diff, Lengths)
       IN  CASE Args.in_diff.is = "none" ->
                    stage' = "shard" /\ UNCHANGED <<mutants, output>>
             [] Args.in_diff.is # "none" /\ filtered.error = "None" ->
                    stage' = "shard" /\ mutants' = filtered.mutants /\ UNCHANGED output
             [] OTHER -> End(Exit(DiffExitCode(filtered.error))) /\ UNCHANGED mutants
    /\ UNCHANGED <<inv, interrupted, walkVars, files>>

\* The mutants at places k, k + n, ..., or a slice of ceil(len / n) of them.
InShard(i, shard) ==
    IF ShardingOption = "RoundRobin" THEN (i - 1) % shard.n = shard.k
    ELSE (i - 1) \div ((Len(mutants) + shard.n - 1) \div shard.n) = shard.k

\* --list shows the mutants, else they are tested.
ListOrTest ==
    /\ stage = "shard"
    /\ LET sharded == Pick(mutants, {i \in DOMAIN mutants :
                                         Args.shard # <<>> => InShard(i, Args.shard[1])})
       IN  /\ mutants' = sharded
           /\ End([is |-> IF Args.list THEN "listed" ELSE "tested", value |-> sharded])
    /\ UNCHANGED <<inv, interrupted, walkVars, files>>

-----------------------------------------------------------------------------

Interrupt ==
    /\ stage # "ended"
    /\ ~interrupted
    /\ interrupted' = TRUE
    /\ UNCHANGED <<inv, stage, walkVars, mutants, files, output>>

Main ==
    \/ Answer \/ OpenWorkspace
    \/ StartPackage \/ FinishPackage \/ StopLevel \/ StartLevel
    \/ Receive \/ Unwind \/ EndLevel
    \/ Iterate \/ ListFiles \/ FilterDiff \/ ListOrTest

Terminated == stage = "ended" /\ UNCHANGED vars

Next ==
    \/ Main
    \/ \E i \in running : ThreadEnds(i)
    \/ Interrupt
    \/ Terminated

Spec == Init /\ [][Next]_vars

=============================================================================

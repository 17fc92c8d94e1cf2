------------------------ MODULE DiscoveryProperties ------------------------
(***************************************************************************)
(* What discovery must come to, said without its queues, threads, hunks    *)
(* and search directories.                                                 *)
(***************************************************************************)
EXTENDS Discovery

HasWalked == stage \in {"files", "diff", "shard"} \/ output.is \in {"files", "listed", "tested"}

-----------------------------------------------------------------------------
(* The walk *)

Paths == {f.path : f \in ToSet(Tree.files)}
Entries == [path : Paths, is_top : BOOLEAN]
Load(entry) == FileAt(Tree, entry.path)[1].load

\* One thread, one queue: a file is walked, and those it declares go to the end.
SerialWalk[walk \in Seq(Entries) \X Seq(Paths)] ==
    LET queue == walk[1]
        done == walk[2]
        entry == Head(queue)
        found == ModSources(Tree, entry)
        declared == [j \in DOMAIN found |-> [path |-> found[j], is_top |-> FALSE]]
    IN  IF queue = <<>> THEN [is |-> "ok", value |-> done]
        ELSE CASE Load(entry) = "ok" ->
                    SerialWalk[<<Tail(queue) \o declared, Append(done, entry.path)>>]
               [] Load(entry) = "outside" -> SerialWalk[<<Tail(queue), done>>]
               [] OTHER -> [is |-> Load(entry), value |-> entry.path]

SerialPackage(package) ==
    LET tops == TopSources(Tree, package)
    IN  SerialWalk[<<[i \in DOMAIN tops |-> [path |-> tops[i], is_top |-> TRUE]], <<>>>>]

Serial ==
    LET selected == FilterPackages(Tree, Args)
    IN  [i \in DOMAIN selected |-> SerialPackage(selected[i])]

\* Whatever the order in which threads end, the files come in the order of a
\* serial walk, and the error is that of the first file which has one.
WalkIsSerial ==
    /\ Args.mode = "run" /\ HasWalked =>
           files = Kept(FlattenSeq([i \in DOMAIN Serial |-> Serial[i].value]),
                             AllowsSourceFilePath)
    /\ output.is = "unreadable" =>
           output = Kept(Serial, LAMBDA r : r.is # "ok")[1]

\* The window is full until the level runs out: as many threads as there are
\* files, or as the machine runs at once, work or have just ended.
WindowIsFull ==
    stage = "walking" =>
        LET left == Cardinality({i \in DOMAIN results : results[i] = Unset})
        IN  /\ Cardinality(running) + Len(sent) = Min({Parallelism, left})
            /\ Cardinality(running) + Len(sent) = inFlight

-----------------------------------------------------------------------------
(* Modules *)

\* The Rust reference on mod statements: a file knows whether it may have
\* modules beside it, because it is a root, a mod.rs or named by #[path].
RustPaths(from, ref) ==
    LET child == Last(ref)
        blocks == FlattenSeq([i \in 1 .. Len(ref) - 1 |-> FilesystemName(ref[i])])
        home == IF from.owns_dir THEN Front(from.path) ELSE from.path
    IN  CASE HasPath(child) /\ Len(ref) = 1 ->
                {Front(from.path) \o FilesystemName(child)}
          [] HasPath(child) /\ Len(ref) > 1 -> {home \o blocks \o FilesystemName(child)}
          [] OTHER -> {home \o blocks \o <<child.name>>,
                       home \o blocks \o <<child.name, "mod">>}

RustModules(from) ==
    LET mods == ToSet(ExternalMods(FileAt(Tree, from.path)[1]))
    IN  UNION {{[path |-> p, owns_dir |-> Last(p) = "mod" \/ HasPath(Last(ref))] :
                   p \in {p \in RustPaths(from, ref) : FileAt(Tree, p) # <<>>}} :
               ref \in mods}

RustFiles == [path : Paths, owns_dir : BOOLEAN]

RustCrate[found \in SUBSET RustFiles] ==
    LET more == found \cup UNION {RustModules(f) : f \in {f \in found : Load(f) = "ok"}}
    IN  IF more = found THEN found ELSE RustCrate[more]

\* The packages that cargo would work on.
Chosen ==
    LET inside == {p \in ToSet(Tree.members) : p.inside}
        around == {p \in inside : \E n \in 0 .. Len(Args.dir) :
                      /\ p.dir = SubSeq(Args.dir, 1, n)
                      /\ \A m \in n + 1 .. Len(Args.dir) :
                             SubSeq(Args.dir, 1, m) \notin Tree.manifests}
    IN  CASE Args.packages # <<>> -> {p \in inside : p.name \in ToSet(Args.packages)}
          [] Args.packages = <<>> /\ Args.workspace -> inside
          [] OTHER -> IF around # {} THEN around
                      ELSE {p \in inside : Tree.defaults # Unsupported =>
                                              p.name \in ToSet(Tree.defaults)}

CrateFiles(package) ==
    {f.path : f \in {f \in RustCrate[{[path |-> t.path, owns_dir |-> TRUE] :
                         t \in {t \in package.targets : t.kinds \cap MutatedKinds # {}}}] :
                     Load(f) = "ok"}}

\* The files that are walked are those that the compiler would read, less the
\* ones that globs leave out.
ModulesFollowRust ==
    Args.mode = "run" /\ HasWalked =>
        ToSet(files) = {p \in UNION {CrateFiles(package) : package \in Chosen} :
                           AllowsSourceFilePath(p)}

-----------------------------------------------------------------------------
(* Diffs *)

\* in_diff.rs:208: lines that are "added to the new file, or adjacent to
\* deletions", told from the edit script without hunks.
ChangedLines(script) ==
    {NewLine(script, i) : i \in {i \in DOMAIN script :
        /\ script[i].op # "delete"
        /\ \/ script[i].op = "insert"
           \/ \E j \in {i - 1, i + 1} \cap DOMAIN script : script[j].op = "delete"}}

\* Wherever hunks begin and end, the lines of a patch are those that the edit
\* changes, in order and once each, as the binary search needs them.
DiffMarksEveryChange ==
    Args.in_diff.is = "diff" =>
        \A i \in DOMAIN Args.in_diff.edits :
            LET lines == AffectedLines(Args.in_diff.patches[i])
            IN  /\ ToSet(lines) = ChangedLines(Args.in_diff.edits[i].script)
                /\ \A a, b \in DOMAIN lines : a < b => lines[a] < lines[b]

-----------------------------------------------------------------------------
(* The mutants *)

InSomeEdit(path, m) ==
    \E i \in DOMAIN Args.in_diff.edits :
        LET edit == Args.in_diff.edits[i]
        IN  /\ edit.rs /\ ~edit.removed /\ edit.path = path
            /\ m.first .. m.last \cap ChangedLines(edit.script) # {}

\* The mutants of the chosen packages that no filter leaves out.
Due ==
    UNION {UNION {{[package |-> package.name, name |-> m.name] :
        m \in {m \in ToSet(FileAt(Tree, p)[1].mutants) :
                  /\ Args.iterate => m.name \notin inv.caught
                  /\ Args.in_diff.is # "none" => InSomeEdit(p, m)}} :
        p \in {p \in CrateFiles(package) : AllowsSourceFilePath(p)}} :
    package \in Chosen}

\* Each mutant that is due is listed or tested, or is some other shard's; nothing
\* else is; and a run that tests nothing and calls it a success had none to test.
TestsWhatIsDue ==
    /\ Args.mode = "run" /\ output.is \in {"listed", "tested"} =>
           LET done == {[package |-> m.package, name |-> m.name] : m \in ToSet(output.value)}
           IN  done \subseteq Due /\ (Args.shard = <<>> => done = Due)
    /\ Args.mode = "run" /\ output.is = "exit" =>
           (output.value = "Success" => Due = {})

=============================================================================

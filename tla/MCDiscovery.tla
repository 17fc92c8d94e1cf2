---------------------------- MODULE MCDiscovery ----------------------------
(***************************************************************************)
(* Trees and invocations for TLC.                                          *)
(***************************************************************************)
EXTENDS ResolvedTrees, TLC

-----------------------------------------------------------------------------
(* Files *)

File(path, load, mods, lines, spans) ==
    [path |-> path, load |-> load, mods |-> mods, lines |-> lines,
     mutants |-> [i \in DOMAIN spans |->
                     [name |-> <<path, i>>, first |-> spans[i][1], last |-> spans[i][2]]]]

Source(path, mods) == File(path, "ok", mods, 2, << <<1, 2>> >>)
Broken(path, load) == File(path, load, <<>>, 1, << <<1, 1>> >>)

Part(name) == [name |-> name, attrs |-> <<>>]
At(name, path) ==
    [name |-> name, attrs |-> <<[kind |-> "other"], [kind |-> "path", value |-> path],
                                [kind |-> "path", value |-> <<"second">>]>>]
AtRoot(name) == [name |-> name, attrs |-> <<[kind |-> "absolute"]>>]
Mod(name) == <<Part(name)>>

Target(kind, path) == [kinds |-> {kind}, path |-> path]
Member(name, dir, inside, targets) ==
    [name |-> name, dir |-> dir, inside |-> inside, targets |-> targets]

Lib == <<"src", "lib">>

OnePackage(targets, sources) ==
    [members |-> <<Member("p", <<>>, TRUE, targets)>>, manifests |-> {<<>>},
     defaults |-> <<"p">>, files |-> sources]

\* Every way to name a module, from roots, mod.rs and other files, in blocks and
\* outside, with #[path] and without; one file has two parents.
ModulesTree == OnePackage(
    {Target("lib", Lib), Target("bin", <<"src", "main">>), Target("test", <<"tests", "t">>)},
    << Source(<<"src", "a">>,
              << Mod("b"), <<Part("c"), Part("d")>>, <<Part("c"), At("e", <<"alt">>)>>,
                 <<At("w", <<"beside">>)>> >>),
       Source(<<"src", "a", "b">>, <<>>),
       Source(<<"src", "a", "c", "alt">>, <<>>),
       Source(<<"src", "a", "c", "d">>, <<>>),
       Source(<<"src", "beside">>, <<>>),
       Source(<<"src", "dir", "in">>, <<>>),
       Source(Lib, << Mod("a"), Mod("m"), <<At("q", <<"odd">>)>>, <<AtRoot("z")>>,
                      Mod("gone"), <<At("blk", <<"dir">>), Part("in")>>, Mod("util") >>),
       Source(<<"src", "m", "mod">>, << Mod("n") >>),
       Source(<<"src", "m", "n">>, <<>>),
       Source(<<"src", "main">>, << Mod("util") >>),
       Source(<<"src", "odd">>, <<>>),
       Source(<<"src", "util">>, <<>>),
       Source(<<"src", "z">>, <<>>),
       Source(<<"tests", "t">>, <<>>) >>)

\* Files that cannot be read or parsed, or are out of the tree.
ErrorsTree == OnePackage({Target("lib", Lib)},
    << Source(Lib, << Mod("y"), Mod("o"), Mod("u"), Mod("x") >>),
       Broken(<<"src", "o">>, "outside"),
       Broken(<<"src", "u">>, "unreadable"),
       Broken(<<"src", "x">>, "unreadable"),
       Source(<<"src", "y">>, << Mod("v") >>),
       Broken(<<"src", "y", "v">>, "unreadable") >>)

PanicsTree == OnePackage({Target("lib", Lib)},
    << Source(Lib, << Mod("u"), Mod("x"), Mod("y") >>),
       Broken(<<"src", "u">>, "unreadable"),
       Broken(<<"src", "x">>, "panics"),
       Source(<<"src", "y">>, <<>>) >>)

\* Two members, and one that is not below the root.
VirtualTree(defaults) ==
    [members |-> << Member("out", <<"..", "out">>, FALSE, {}),
                    Member("p", <<"p">>, TRUE, {Target("proc-macro", <<"p", "lib">>)}),
                    Member("q", <<"q">>, TRUE, {Target("bin", <<"q", "main">>),
                                                Target("bin", <<"q", "other">>),
                                                Target("bench", <<"q", "speed">>)}) >>,
     manifests |-> {<<>>, <<"p">>, <<"q">>, <<"..", "out">>},
     defaults |-> defaults,
     files |-> << Source(<<"p", "lib">>, <<>>), Source(<<"q", "main">>, <<>>),
                  Source(<<"q", "other">>, << Mod("sub") >>),
                  Source(<<"q", "speed">>, <<>>), Source(<<"q", "sub">>, <<>>) >>]

\* Mutants of one, two and more lines, for diffs.
FlatTree == OnePackage({Target("lib", Lib)},
    << File(Lib, "ok", << Mod("side") >>, 4,
            << <<1, 1>>, <<1, 4>>, <<2, 2>>, <<2, 3>>, <<3, 3>>, <<4, 4>> >>),
       File(<<"src", "side">>, "ok", <<>>, 2, << <<2, 2>> >>) >>)

MCWorkspaces ==
    [modules |-> ModulesTree, errors |-> ErrorsTree, panics |-> PanicsTree,
     virtual |-> VirtualTree(<<"q">>), old |-> VirtualTree(Unsupported),
     flat |-> FlatTree]

-----------------------------------------------------------------------------
(* Diffs *)

\* The scripts for a file that has n lines now, with up to d lines deleted.
Scripts(n, d) ==
    {[i \in DOMAIN ops |->
        [op |-> ops[i],
         text |-> Cardinality({j \in 1 .. i : ops[j] # "delete"})]] :
     ops \in {ops \in UNION {[1 .. n + k -> {"context", "insert", "delete"}] : k \in 0 .. d} :
                 Cardinality({i \in DOMAIN ops : ops[i] # "delete"}) = n}}

Edit(path, script) == [path |-> path, rs |-> TRUE, script |-> script, removed |-> FALSE]

Diff(edits, context) ==
    [is |-> "diff", edits |-> edits, context |-> context, patches |-> GitDiff(edits, context)]

NotADiff(is) == [is |-> is, edits |-> <<>>, patches |-> <<>>]

Insert == <<[op |-> "insert", text |-> 1], [op |-> "context", text |-> 2]>>
Readme == [Edit(<<"README">>, Insert) EXCEPT !.rs = FALSE]
Removed == [Edit(<<"src", "old">>, <<[op |-> "delete", text |-> 0]>>) EXCEPT !.removed = TRUE]
Stale == Edit(Lib, <<[op |-> "insert", text |-> 3], [op |-> "context", text |-> 2]>>)

MCDiffs ==
    {Diff(<<Edit(Lib, s)>>, c) : s \in Scripts(4, 3), c \in {1, 3}} \cup
    {Diff(<<Readme, Edit(Lib, s), Removed, Edit(<<"src", "side">>, Insert)>>, 1) :
        s \in Scripts(4, 1)} \cup
    {Diff(<<>>, 3), Diff(<<Readme>>, 3), Diff(<<Removed>>, 3), Diff(<<Stale>>, 3),
     NotADiff("missing"), NotADiff("garbage")}

-----------------------------------------------------------------------------
(* Invocations *)

Plain ==
    [mode |-> "run", manifest |-> "none", dir |-> <<>>, packages |-> <<>>,
     workspace |-> FALSE, iterate |-> FALSE, list_files |-> FALSE,
     in_diff |-> NotADiff("none"), shard |-> <<>>, sharding |-> "unset", list |-> FALSE,
     file |-> {}, exclude |-> {}]

NoConfig == [examine_globs |-> {}, exclude_globs |-> {}, sharding |-> "unset"]

Run(tree, args) == [tree |-> tree, args |-> args, config |-> NoConfig, caught |-> {}]

OnVirtual ==
    {Run(t, [Plain EXCEPT !.dir = d]) : t \in {"virtual", "old"},
        d \in {<<>>, <<"p">>, <<"q", "src">>, <<"..", "out">>}} \cup
    {Run("virtual", [Plain EXCEPT !.packages = <<"q", "p", "q", "none">>, !.shard = s]) :
        s \in {<<>>, << [k |-> 1, n |-> 3] >>}} \cup
    {[Run("virtual", [Plain EXCEPT !.workspace = TRUE, !.iterate = i, !.list = l])
        EXCEPT !.caught = {<< <<"p", "lib">>, 1>>, << <<"q", "sub">>, 1>>}] :
        i, l \in BOOLEAN} \cup
    {Run("virtual", [Plain EXCEPT !.mode = m]) : m \in {"info", "invalid"}} \cup
    {Run("virtual", [mode |-> "mutate_file", path |-> <<"q", "speed">>,
                     in_diff |-> NotADiff("none")]),
     Run("errors", [mode |-> "mutate_file", path |-> <<"src", "u">>,
                    in_diff |-> NotADiff("none")]),
     Run("virtual", [Plain EXCEPT !.manifest = "missing"]),
     Run("virtual", [Plain EXCEPT !.manifest = "file", !.dir = <<"p">>])}

OnModules ==
    {[Run("modules", [Plain EXCEPT !.file = f, !.list_files = l])
        EXCEPT !.config.exclude_globs = x, !.config.sharding = "RoundRobin"] :
     f \in {{}, {[is |-> "dir", name |-> "a"]}}, l \in BOOLEAN,
     x \in {{}, {[is |-> "file", name |-> "a"], [is |-> "path", path |-> <<"src", "odd">>]}}}

MCInvocations ==
    OnVirtual \cup OnModules
        \cup {Run(t, Plain) : t \in {"errors", "panics"}}
        \cup {Run("flat", [Plain EXCEPT !.in_diff = d]) : d \in MCDiffs}
        \cup {[Run("flat", [Plain EXCEPT !.shard = << [k |-> k, n |-> 3] >>])
                EXCEPT !.config.sharding = s] : k \in 0 .. 2, s \in {"RoundRobin", "Slice"}}

=============================================================================

----------------------------- MODULE SourceTree -----------------------------
(***************************************************************************)
(* Packages, their source files and the modules these declare              *)
(* (src/workspace.rs, src/package.rs, find_mod_source of src/visit.rs).    *)
(*                                                                         *)
(* The path of a .rs file is the sequence of its directories and its stem, *)
(* so that a path without extension is the path itself and the parent      *)
(* directory its Front.  A workspace has                                   *)
(*   members    the packages cargo metadata names, in the order of their   *)
(*              names: [name, dir, inside (the root), targets]             *)
(*   manifests  the directories with a Cargo.toml, <<>> the root           *)
(*   defaults   the names of the default members, or Unsupported           *)
(*   files      the files in the order of their paths: [path, mods,        *)
(*              mutants, load], where load tells what loading and parsing  *)
(*              the file does                                              *)
(***************************************************************************)
EXTENDS Selection, SequencesExt, FiniteSetsExt

CONSTANT Unsupported   \* cargo is too old to tell the default members

-----------------------------------------------------------------------------
(* Packages *)

\* packages_from_metadata drops members that are not below the root.
Packages(ws) == Kept(ws.members, LAMBDA p : p.inside)

MutatedKinds ==
    {"bin", "proc-macro", "cdylib", "dylib", "lib", "rlib", "staticlib"}

\* Sorted and without repetition, as the files of the workspace are.
TopSources(ws, package) ==
    LET isTop(f) == \E t \in package.targets :
                       t.path = f.path /\ t.kinds \cap MutatedKinds # {}
        tops == Kept(ws.files, isTop)
    IN  [i \in DOMAIN tops |-> tops[i].path]

\* Sorted by name; one named twice is there twice, one not known is left out.
PackagesByName(ws, names) ==
    LET times(p) == Cardinality({i \in DOMAIN names : names[i] = p.name})
    IN  FlattenSeq([i \in DOMAIN Packages(ws) |->
            [j \in 1 .. times(Packages(ws)[i]) |-> Packages(ws)[i]]])

DefaultPackages(ws) ==
    IF ws.defaults = Unsupported THEN Packages(ws) ELSE PackagesByName(ws, ws.defaults)

\* The nearest directory at or above dir with a manifest.
LocateProject(ws, dir) ==
    SubSeq(dir, 1, Max({n \in 0 .. Len(dir) : SubSeq(dir, 1, n) \in ws.manifests}))

EnclosingPackages(ws, dir) ==
    Kept(Packages(ws), LAMBDA p : p.dir = LocateProject(ws, dir))

\* The package around the directory, or the default members.
AutoPackages(ws, dir) ==
    IF EnclosingPackages(ws, dir) = <<>> THEN DefaultPackages(ws)
    ELSE <<Head(EnclosingPackages(ws, dir))>>

\* A package that cargo knows but that is not below the root is an error.
FilterFails(ws, args) ==
    /\ args.packages = <<>>
    /\ ~args.workspace
    /\ EnclosingPackages(ws, args.dir) = <<>>
    /\ LocateProject(ws, args.dir) # <<>>

FilterPackages(ws, args) ==
    CASE args.packages # <<>> -> PackagesByName(ws, args.packages)
      [] args.packages = <<>> /\ args.workspace -> Packages(ws)
      [] OTHER -> AutoPackages(ws, args.dir)

-----------------------------------------------------------------------------
(* Modules.  A reference to a module in another file is the sequence of its *)
(* parts: the mod blocks around the statement and the statement itself,     *)
(* each [name, attrs].                                                      *)

PathAttrs(part) == Kept(part.attrs, LAMBDA a : a.kind \in {"path", "absolute"})
HasPath(part) == PathAttrs(part) # <<>>

\* A path that starts with / makes visit_item_mod return.
IsRefused(part) == HasPath(part) /\ Head(PathAttrs(part)).kind = "absolute"

ExternalMods(file) ==
    Kept(file.mods, LAMBDA ref : \A i \in DOMAIN ref : ~IsRefused(ref[i]))

FilesystemName(part) ==
    IF HasPath(part) THEN Head(PathAttrs(part)).value ELSE <<part.name>>

\* Variant of IsInParentDir: a #[path] inside a mod block, too, is relative to
\* the directory of the file.
PathIgnoresBlocks(from, ref) ==
    from.is_top \/ Last(from.path) = "mod" \/ HasPath(Last(ref))

\* Whether modules of a file are beside it, not in a directory of its name.
IsInParentDir(from, ref) ==
    \/ from.is_top
    \/ Last(from.path) = "mod"
    \/ HasPath(Last(ref)) /\ Len(ref) = 1

SearchDir(from, ref) ==
    (IF IsInParentDir(from, ref) THEN Front(from.path) ELSE from.path)
        \o FlattenSeq([i \in 1 .. Len(ref) - 1 |-> FilesystemName(ref[i])])

Candidates(from, ref) ==
    LET dir == SearchDir(from, ref)
        named == dir \o FilesystemName(Last(ref))
    IN  IF HasPath(Last(ref)) THEN <<named>> ELSE <<named, Append(named, "mod")>>

FileAt(ws, path) == Kept(ws.files, LAMBDA f : f.path = path)

\* The files, none or one, that a mod statement names.
FindModSource(ws, from, ref) ==
    LET found == Kept(Candidates(from, ref), LAMBDA p : FileAt(ws, p) # <<>>)
    IN  SubSeq(found, 1, Min({1, Len(found)}))

\* The files that the mod statements of a walked file name, in their order.
ModSources(ws, from) ==
    LET refs == ExternalMods(FileAt(ws, from.path)[1])
    IN  FlattenSeq([i \in DOMAIN refs |-> FindModSource(ws, from, refs[i])])

-----------------------------------------------------------------------------
(* What cargo and rustc accept *)

IsSeq(s) == s \in Seq(ToSet(s))

\* Every package and every target is there, each package in its own directory.
IsWorkspace(ws) ==
    /\ IsSeq(ws.members) /\ IsSeq(ws.files)
    /\ ws.defaults # Unsupported => IsSeq(ws.defaults)
    /\ <<>> \in ws.manifests
    /\ \A p \in ToSet(ws.members) :
          /\ p.dir \in ws.manifests
          /\ \A q \in ToSet(ws.members) : q.dir = p.dir => q = p
          /\ \A t \in p.targets : FileAt(ws, t.path) # <<>>
    /\ \A f \in ToSet(ws.files) :
          /\ IsSeq(f.path) /\ f.path # <<>>
          /\ f.load \in {"ok", "outside", "unreadable", "panics"}
          /\ IsSeq(f.mods) /\ IsSeq(f.mutants)
          /\ \A ref \in ToSet(f.mods) :
                /\ IsSeq(ref) /\ ref # <<>>
                /\ \A part \in ToSet(ref) : ~IsRefused(part) => IsSeq(FilesystemName(part))

\* A mod statement names one file; two are an error of rustc.  What #[path] names
\* is a mod.rs or declares no more modules: for others the code differs from rustc.
IsResolved(ws) ==
    \A f \in ToSet(ws.files), is_top \in BOOLEAN :
        LET isTarget == \E p \in ToSet(ws.members) : \E t \in p.targets : t.path = f.path
            from == [path |-> f.path, is_top |-> is_top]
        IN  (is_top => isTarget) =>
                \A ref \in ToSet(ExternalMods(f)) :
                    LET named == {p \in ToSet(Candidates(from, ref)) : FileAt(ws, p) # <<>>}
                    IN  /\ \A p, q \in named : p = q
                        /\ HasPath(Last(ref)) =>
                              \A p \in named : \/ Last(p) = "mod"
                                               \/ ExternalMods(FileAt(ws, p)[1]) = <<>>

=============================================================================

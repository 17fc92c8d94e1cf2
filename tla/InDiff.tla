------------------------------- MODULE InDiff -------------------------------
(***************************************************************************)
(* The filter of --in-diff (src/in_diff.rs).  A diff is a sequence of      *)
(* patches [path, rs, hunks]; path is NoPath for a file that is deleted,   *)
(* rs tells whether the extension is rs.  A hunk is [start, lines], start  *)
(* the first line in the new file and a line [op, text] with op "context", *)
(* "insert" or "delete".  Text is a value that tells contents apart.       *)
(***************************************************************************)
EXTENDS Selection, SequencesExt, FiniteSetsExt

NoPath == <<>>

-----------------------------------------------------------------------------
(* Lines *)

PushNew(lines, n) ==
    IF lines # <<>> /\ Last(lines) = n THEN lines ELSE Append(lines, n)

\* Variant of Affected: the line after a deletion is forgotten.
AffectedBefore(acc, op) ==
    CASE op = "context" -> [acc EXCEPT !.lineno = @ + 1]
      [] op = "insert" ->
            [acc EXCEPT !.lines = PushNew(@, acc.lineno), !.lineno = @ + 1]
      [] op = "delete" ->
            IF acc.lineno > 1
            THEN [acc EXCEPT !.lines = PushNew(@, acc.lineno - 1)] ELSE acc

\* One line of a hunk.  A line after a deletion is affected; so are an inserted
\* one and the line before a deletion, unless they are already the last.
Affected(acc, op) ==
    LET marked == IF acc.removed THEN Append(acc.lines, acc.lineno) ELSE acc.lines
    IN  CASE op = "context" ->
                [lines |-> marked, lineno |-> acc.lineno + 1, removed |-> FALSE]
          [] op = "insert" ->
                [lines |-> PushNew(marked, acc.lineno),
                 lineno |-> acc.lineno + 1, removed |-> FALSE]
          [] op = "delete" ->
                [lines |-> IF acc.lineno > 1 THEN PushNew(acc.lines, acc.lineno - 1)
                           ELSE acc.lines,
                 lineno |-> acc.lineno, removed |-> TRUE]

AffectedInHunk(lines, hunk) ==
    LET after[n \in 0 .. Len(hunk.lines)] ==
            IF n = 0 THEN [lines |-> lines, lineno |-> hunk.start, removed |-> FALSE]
            ELSE Affected(after[n - 1], hunk.lines[n].op)
    IN  after[Len(hunk.lines)].lines

AffectedLines(patch) ==
    LET after[n \in 0 .. Len(patch.hunks)] ==
            IF n = 0 THEN <<>> ELSE AffectedInHunk(after[n - 1], patch.hunks[n])
    IN  after[Len(patch.hunks)]

\* The numbered lines of the new file that a patch shows.
PartialNewFile(patch) ==
    UNION {LET hunk == patch.hunks[h]
               new == Kept(hunk.lines, LAMBDA l : l.op # "delete")
           IN  {[lineno |-> hunk.start + i - 1, text |-> new[i].text] :
                   i \in DOMAIN new} : h \in DOMAIN patch.hunks}

-----------------------------------------------------------------------------
(* The filter.  A mutant is [path, first, last, ...]. *)

\* The text of a line of a source file, told from others by its number; it is
\* empty after the end.
TextOf(lengths, path, n) == IF n <= lengths[path] THEN n ELSE 0

\* Only the files that have mutants are looked at.
TextMatches(patches, mutants, lengths) ==
    \A i \in DOMAIN patches :
        (\E j \in DOMAIN mutants : mutants[j].path = patches[i].path) =>
            \A line \in PartialNewFile(patches[i]) :
                line.text = TextOf(lengths, patches[i].path, line.lineno)

ChangesSource(patch) == patch.path # NoPath /\ patch.rs

\* The lines of one path, in a diff with one patch for each path: then they are
\* sorted, and the binary search finds a line that is there.
LinesChanged(patches, path) ==
    UNION {ToSet(AffectedLines(patches[i])) :
              i \in {i \in DOMAIN patches : ChangesSource(patches[i])
                                            /\ patches[i].path = path}}

\* Variant of Touches: only the first line of the mutant counts.
StartsOn(patches, m) == m.first \in LinesChanged(patches, m.path)

Touches(patches, m) == m.first .. m.last \cap LinesChanged(patches, m.path) # {}

\* diff_filter_file: what is wrong, or nothing, and the mutants that are left;
\* lengths has the number of lines of each source file.
DiffFilter(mutants, diff, lengths) ==
    LET matched == Kept(mutants, LAMBDA m : Touches(diff.patches, m))
        changesRs == \E i \in DOMAIN diff.patches : ChangesSource(diff.patches[i])
        error == CASE diff.is = "missing" -> "File"
                   [] diff.is = "garbage" -> "InvalidDiff"
                   [] diff.is = "diff" /\ diff.patches = <<>> -> "EmptyDiff"
                   [] OTHER -> IF ~TextMatches(diff.patches, mutants, lengths) THEN "MismatchedDiff"
                               ELSE IF matched # <<>> THEN "None"
                               ELSE IF changesRs THEN "NoMutants" ELSE "NoSourceFiles"
    IN  [error |-> error, mutants |-> matched]

DiffExitCode(error) ==
    CASE error \in {"EmptyDiff", "NoSourceFiles", "NoMutants"} -> "Success"
      [] error = "MismatchedDiff" -> "FilterDiffMismatch"
      [] error \in {"File", "InvalidDiff"} -> "FilterDiffInvalid"

-----------------------------------------------------------------------------
(* What git diff writes for an edit script: the operations that lead from   *)
(* the old file to the new one, with the texts of the lines.                *)

Changes(script) == {i \in DOMAIN script : script[i].op # "context"}

Shown(script, context) ==
    {i \in DOMAIN script : \E j \in Changes(script) : i <= j + context /\ j <= i + context}

NewLine(script, i) == Cardinality({j \in 1 .. i : script[j].op # "delete"})

\* A hunk without a line in the new file is given the number of the line before.
Hunk(script, first, last) ==
    [start |-> IF NewLine(script, last) = NewLine(script, first - 1)
               THEN NewLine(script, last) ELSE NewLine(script, first - 1) + 1,
     lines |-> SubSeq(script, first, last)]

Hunks(script, context) ==
    LET shown == Shown(script, context)
        firsts == Pick([i \in DOMAIN script |-> i], {i \in shown : i - 1 \notin shown})
        last(i) == Max({j \in shown : j >= i /\ i .. j \subseteq shown})
    IN  [h \in DOMAIN firsts |-> Hunk(script, firsts[h], last(firsts[h]))]

IsScript(script) ==
    /\ script \in Seq(ToSet(script))
    /\ \A i \in DOMAIN script : script[i].op \in {"context", "insert", "delete"}

\* An edit is [path, rs, script, removed]; removed tells that the file is deleted.
GitDiff(edits, context) ==
    [i \in DOMAIN edits |->
        [path |-> IF edits[i].removed THEN NoPath ELSE edits[i].path,
         rs |-> edits[i].rs,
         hunks |-> Hunks(edits[i].script, context)]]

=============================================================================

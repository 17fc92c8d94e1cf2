------------------------- MODULE VisitorProperties -------------------------
(***************************************************************************)
(* What the traversal must find, said of the tree alone: a place is        *)
(* described by the nodes above it, without the stacks, the depths and the *)
(* memo that the visitor keeps.                                            *)
(***************************************************************************)
EXTENDS Visitor

Above(n) == {m \in 1 .. n - 1 : n \in Below(m)}
Path(n) == Above(n) \cup {n}
Last(S) == IF S = {} THEN 0 ELSE CHOOSE n \in S : \A m \in S : m <= n

OfKind(kinds, S) == {n \in S : Kind(n) \in kinds}

MatchAround(guard) == ast[ast[guard].up].up

\* The node whose handler makes a candidate.
Origin(m) ==
    CASE m.genre \in {"FnValue", "BinaryOperator", "UnaryOperator", "BoolLiteral"} -> m.node
      [] m.genre = "MatchArmGuard" -> MatchAround(m.node)
      [] OTHER -> ast[m.node].up

Visited(n) == \A a \in Path(n) : ~Rejects(a) /\ ~Fails(a) /\ ~Declines(a)

\* What a mutant puts in which place: what its name says of it.
Place(m) == Candidate(m.node, m.genre, m.value)

\* Some exclude_re in force at a node matches a candidate.
ExcludedAt(n, c) == ExcludedIn(OfKind(Scoped, Path(n)), c)

\* Neither the attributes around a node nor the options are against a candidate.
Wanted(n, c) == ~ExcludedAt(n, c) /\ (c.genre = "StructField" \/ AllowsMutant(c))

\* Every stack holds an increasing selection of the nodes being visited.
Increasing(s) == \A i, j \in DOMAIN s : i < j => s[i] < s[j]
Follows(s, S) == Increasing(s) /\ ItemsOf(s) = S

-----------------------------------------------------------------------------

ScopesFollowPath ==
    LET now == ItemsOf(open)
    IN  /\ Increasing(open)
        /\ Follows(namespaces, {n \in now : PushesNamespace(n)})
        /\ Follows(modNamespaces, OfKind({"mod"}, now))
        /\ Follows(fns, OfKind({"fn"}, now))
        /\ Follows(excludes, {n \in OfKind(Scoped, now) : ScopePushes(ast[n].attrs)})

DepthsFollowPath ==
    LET now == ItemsOf(open)
    IN  /\ closureDepth = Cardinality(OfKind({"closure"}, now))
        /\ constEvalDepth = Cardinality({n \in now : EvaluatesConst(n)})
        /\ ItemsOf(guards) = UNION {ItemsOf(GuardsOf(n)) : n \in OfKind({"match"}, now)}
        /\ \A i, j \in DOMAIN guards : i < j =>
              MatchAround(guards[i]) < MatchAround(guards[j])
                \/ (MatchAround(guards[i]) = MatchAround(guards[j]) /\ guards[i] < guards[j])

\* The stacks and the counters are what is open, whatever handlers have returned
\* early: no pop finds a stack empty or the entry of another node, which the
\* visitor would panic on, and nothing that was left has an effect on what
\* comes after it.
StacksFollowPath == ScopesFollowPath /\ DepthsFollowPath

\* Nothing is mutated below a skip, an unsafe function or a constructor, nor
\* where an exclude_re around it matches; a mutant is named after the innermost
\* function, and marked for --skip-uncovered as what surrounds it demands.
MutantsFitTheirPlace ==
    Done => \A m \in ItemsOf(mutants) :
        LET path == Path(Origin(m))
        IN  /\ Visited(Origin(m))
            /\ ~ExcludedAt(Origin(m), Place(m))
            /\ m.fn = Last(OfKind({"fn"}, path))
            /\ m.constEval = (\E n \in path : EvaluatesConst(n))

\* The leaves below a node, or the node itself, that a return or break does not hide.
Escapes(n) == {Kind(l) : l \in {l \in OfKind(Leaves, {n} \cup Below(n)) :
                                    OfKind(Leaves, Above(l) \cap ({n} \cup Below(n))) = {}}}

\* The memo answers for a node only what is true of it, although most of its
\* entries are made while something else is asked.
MemoIsExact == \A n \in DOMAIN memo : memo[n] = Escapes(n)

\* No statement that returns, breaks or continues is deleted, and no condition
\* becomes false whose branch is what ends a loop, also where the answer comes from
\* the memo.
ControlFlowIsKept ==
    /\ MemoIsExact
    /\ \A m \in ItemsOf(mutants) :
          /\ m.genre = "DeleteStatement" => Escapes(m.node) = {}
          /\ m.genre = "IfCondition" /\ m.value = False
                => "exit" \notin Escapes(Child(ast[m.node].up, "then"))

-----------------------------------------------------------------------------
(* What is due at a node *)

\* The function around a node, or 0.
FnAround(n) == Last(OfKind({"fn"}, Above(n)))
GuardsAround(n) == UNION {ItemsOf(GuardsOf(k)) : k \in OfKind({"match"}, Above(n))}
IsBodyOf(f, n) == f # 0 /\ BodyStatements(f) = {n} /\ IsTail(n)
CondOf(n) == Child(n, "cond")
ThenOf(n) == Child(n, "then")

\* The values that a return may have instead: those of the function that it
\* returns from, unless it is all that the function does.
ReturnsDue(n) ==
    LET f == FnAround(n)
    IN  IF /\ OfKind({"closure"}, Above(n)) = {} /\ HasChild(n, "value")
           /\ f # 0 /\ ~BodyIsSingleReturn(f) /\ ast[f].type # NoType
        THEN ItemsOf(Returns[ast[f].type]) ELSE {}

\* The candidates of a node by its kind, given what depends on its surroundings:
\* whether the branch of an if exits, which statements can go, whether a literal
\* is mutated as something else, and the values that a return may have instead.
Made(n, exits, deletable, elsewhere, returned) ==
    CASE Kind(n) = "fn"     -> {Candidate(n, "FnValue", v) :
                                   v \in {v \in ItemsOf(Returns[ast[n].type]) : ~BodyIs(n, v)}}
      [] Kind(n) = "binary" -> {Candidate(n, "BinaryOperator", Text(op)) :
                                   op \in ItemsOf(ReplacementsOf(ast[n].name))}
      [] Kind(n) = "unary"  -> {Candidate(n, "UnaryOperator", v) :
                                   v \in {v \in {Nothing} : ast[n].name \in {"!", "-"}}}
      [] Kind(n) = "if"     -> {Candidate(CondOf(n), "IfCondition", v) :
                                   v \in {v \in {True, False} : /\ IsPlainCondition(CondOf(n))
                                                                /\ v = False => ~exits}}
      [] Kind(n) = "while"  -> {Candidate(CondOf(n), "WhileCondition", v) :
                                   v \in {v \in {False} : IsPlainCondition(CondOf(n))}}
      [] Kind(n) = "match"  -> {Candidate(a, "MatchArm", Nothing) :
                                   a \in {a \in Arms(n) : /\ ~Flag(a, "wild") /\ ~HasChild(a, "guard")
                                                          /\ HasCatchAll(n)}}
                               \cup {Candidate(g, "MatchArmGuard", True) : g \in ItemsOf(GuardsOf(n))}
                               \cup {Candidate(g, "MatchArmGuard", False) : g \in ItemsOf(GuardsOf(n))}
      [] Kind(n) = "lit"    -> {Candidate(n, "BoolLiteral", v) :
                                   v \in {v \in {True, False} :
                                             ast[n].name \in {True, False} \ {v} /\ ~elsewhere}}
      [] Kind(n) = "struct" -> {Candidate(f, "StructField", Nothing) :
                                   f \in {c \in Children(n) : /\ Kind(c) = "field"
                                                              /\ ~Flag(c, "indexed")
                                                              /\ HasChild(n, "rest")}}
      [] Kind(n) = "block"  -> {Candidate(c, "DeleteStatement", Nothing) : c \in deletable}
      [] Kind(n) = "return" -> {Candidate(Child(n, "value"), "ReturnValue", v) :
                                   v \in {v \in returned : ~(/\ Kind(Child(n, "value")) = "lit"
                                                             /\ ast[Child(n, "value")].name = v)}}
      [] OTHER              -> {}

\* What depends on the surroundings, said of the tree.
DueAt(n) ==
    Made(n, "exit" \in Escapes(ThenOf(n)),
         {c \in Children(n) : Discards(n, c) /\ Escapes(c) = {} /\ ~IsSkippedCall(c)},
         IsBodyOf(FnAround(n), n) \/ n \in GuardsAround(n), ReturnsDue(n))

\* Every value that is due at a place that is visited is put there once, in all
\* eleven genres, unless its name is excluded by an attribute around it or by the
\* options; and no other value is put anywhere (visit_* and collect_mutant).
NothingIsMissed ==
    Done => /\ \A i, j \in DOMAIN mutants : Place(mutants[i]) = Place(mutants[j]) => i = j
            /\ {Place(m) : m \in ItemsOf(mutants)} =
                  UNION {{c \in DueAt(n) : Wanted(n, c)} : n \in {n \in Nodes : Visited(n)}}

-----------------------------------------------------------------------------

\* The code that a mutant replaces.
Replaced(m) ==
    IF m.genre # "FnValue" THEN m.node
    ELSE LET body == BodyStatements(m.node)
         IN  IF Cardinality(body) = 1 /\ \A s \in body : IsTail(s)
             THEN Last(body) ELSE m.node

\* No two mutants put the same value in the same place.  (A returned literal is
\* the exception: see ReturnValue and BoolLiteral in the README.)
NoDuplicates ==
    Done => \A i, j \in DOMAIN mutants :
        LET a == mutants[i] b == mutants[j]
        IN  i # j /\ Replaced(a) = Replaced(b) /\ a.value = b.value
            => {a.genre, b.genre} = {"ReturnValue", "BoolLiteral"}

\* Each bool literal that is visited can be seen to flip, whichever genre does it
\* and at whichever node around it, unless a pattern matches that.
LiteralsFlip ==
    Done /\ error = 0 => \A n \in Nodes :
        LET f == Last(OfKind({"fn"}, Above(n)))
            flipped == IF ast[n].name = True THEN False ELSE True
            free == \A a \in Path(n), genre \in Genre :
                        LET c == Candidate(a, genre, flipped)
                        IN  ~ExcludedAt(n, c) /\ AllowsMutant(c)
        IN  Kind(n) = "lit" /\ ast[n].name \in {True, False} /\ Visited(n) /\ free
            => \/ \E m \in ItemsOf(mutants) : Replaced(m) = n /\ m.value = flipped
               \/ f # 0 /\ BodyStatements(f) = {n} /\ ast[f].type.con # "bool"

\* A value only takes the place of what the function around it returns: not of
\* what a closure within the function does.
ReturnsFitTheirFunction ==
    Done => \A m \in ItemsOf(mutants) : m.genre = "ReturnValue" =>
        LET f == Last(OfKind({"fn", "closure"}, Above(m.node)))
        IN  f # 0 /\ Kind(f) = "fn" /\ m.value \in ItemsOf(Returns[ast[f].type])

-----------------------------------------------------------------------------

\* `mod x;` is looked up under the modules around it, whatever was visited or
\* skipped before, so that find_mod_source sees the right directory.
ExternalModsKeepPath ==
    Done => externalMods =
        LET named == InOrder({n \in OfKind({"mod"}, Nodes) : Flag(n, "external") /\ Visited(n)})
        IN  [i \in DOMAIN named |-> InOrder(OfKind({"mod"}, Path(named[i])))]

\* What an attribute says in exclude_re where the visitor reads it: alone, or in a
\* cfg_attr before which there are only words and other patterns.
WrittenIn(attr) ==
    LET args == attr.args
        read == IF attr.path = "mutants::exclude_re" THEN DOMAIN args \cap {1}
                ELSE IF attr.path = "cfg_attr"
                THEN {k \in DOMAIN args : \A j \in 1 .. k - 1 : args[j] \in ReadsExcludes}
                ELSE {}
    IN  {args[k] : k \in read} \cap (Patterns \cup {Malformed})

\* An exclude_re on a node that opens a scope is not without effect: it fails the
\* walk, or can be used and nothing that it matches is mutated in the scope.  This is
\* about what the visitor reads: nothing is read on const and static items, nor in a
\* cfg_attr behind a condition with arguments or a value, which the book says has no
\* influence (see the README).
WrittenExcludesHold ==
    Done /\ error = 0 => \A n \in OfKind(Scoped, Nodes) :
        ~Rejects(n) /\ (\A a \in Above(n) : ~Rejects(a) /\ ~Declines(a)) =>
        \A i \in DOMAIN ast[n].attrs : \A x \in WrittenIn(ast[n].attrs[i]) :
            /\ x \in Patterns \ BadPatterns
            /\ \A m \in ItemsOf(mutants) : n \in Path(Origin(m)) => ~Matches(x, Place(m))

\* Every mutant is one that --re and --exclude-re let through.
NameFiltersApply == \A m \in ItemsOf(mutants) : AllowsMutant(Place(m))

=============================================================================

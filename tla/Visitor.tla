------------------------------ MODULE Visitor ------------------------------
(***************************************************************************)
(* DiscoveryVisitor (src/visit.rs): the traversal of one file's syntax     *)
(* tree that finds the places to mutate.                                   *)
(*                                                                         *)
(* The tree is a sequence of nodes in the order syn visits them, so that a *)
(* node comes before its children and `up` names its parent.  `at` is the  *)
(* next node; `open` holds the nodes whose visit_* is running, outermost   *)
(* first.  One action is the part of a visit_* before the descent, and     *)
(* Leave is the part after it.                                             *)
(***************************************************************************)
EXTENDS Attributes, Integers

CONSTANTS Asts,          \* the syntax trees to visit
          Returns,       \* return_type_replacements, by return type
          NoType,        \* ReturnType::Default
          SkipCalls,     \* --skip-calls and its defaults
          NameFilters,   \* examine and exclude expressions to explore
          Matches(_, _)  \* whether a pattern matches the name of a candidate, which
                         \* says what is put in which place

Genre == {"FnValue", "BinaryOperator", "UnaryOperator", "IfCondition", "WhileCondition",
          "MatchArm", "MatchArmGuard", "BoolLiteral", "StructField", "DeleteStatement",
          "ReturnValue"}

\* Nodes come after the node they are in, and with all else that is in it.
IsTree(t) ==
    /\ Len(t) \in Nat /\ DOMAIN t = 1 .. Len(t)
    /\ \A n \in DOMAIN t :
          /\ t[n].up \in 0 .. n - 1
          /\ \A m \in t[n].up + 1 .. n - 1 : t[m].up >= t[n].up

\* Roles that no two children of a node have.
Single == {"cond", "then", "guard", "body", "value"}

\* What syn has parsed: the children that a kind of node has, and where they
\* may be.
IsSyntax(t) == \A n \in DOMAIN t :
    LET Has(role) == \E c \in DOMAIN t : t[c].up = n /\ t[c].role = role
        IsIn(kind) == t[n].up # 0 /\ t[t[n].up].kind = kind
    IN  /\ t[n].kind \in {"if", "while"} => Has("cond")
        /\ t[n].kind = "if" => Has("then")
        /\ t[n].kind = "fn" => /\ t[n].role \in {"", "stmt"}
                               /\ "required" \in t[n].flags \/ Has("body")
        /\ t[n].kind = "arm" => IsIn("match")
        /\ t[n].kind = "unary" => t[n].name \in {"!", "-", "*"}
        /\ t[n].role = "body" => t[n].kind = "block"
        /\ t[n].role = "guard" => IsIn("arm")
        /\ t[n].role \in Single =>
              /\ t[n].up # 0
              /\ \A m \in DOMAIN t : t[m].up = t[n].up /\ t[m].role = t[n].role => m = n
        /\ "wild" \in t[n].flags => t[n].kind = "arm"
        /\ \A i \in DOMAIN t[n].attrs :
              LET args == t[n].attrs[i].args IN args \in Seq(ItemsOf(args))

ASSUME VisitorAssumption ==
    /\ \A t \in Asts : IsTree(t) /\ IsSyntax(t)
    /\ LET types == DOMAIN Returns
       IN  /\ \A t \in Asts : \A n \in DOMAIN t : t[n].kind = "fn" => t[n].type \in types
           /\ \A type \in types :
                 LET values == Returns[type] IN values \in Seq(ItemsOf(values))
    /\ NameFilters \subseteq [examine : SUBSET Patterns, exclude : SUBSET Patterns]

VARIABLES
    ast,           \* the tree
    filters,       \* Options::examine_name_re and exclude_name_re
    at,            \* the next node to visit
    open,          \* the nodes being visited
    namespaces,    \* namespace_stack
    modNamespaces, \* mod_namespace_stack
    fns,           \* fn_stack and fn_context_stack
    guards,        \* guard_spans
    excludes,      \* exclude_re_stack
    closureDepth,
    constEvalDepth,
    memo,          \* ControlFlowMemo, by node
    mutants,
    externalMods,
    error          \* the node whose attributes are in error, or 0

tree   == <<ast, filters>>
stacks == <<namespaces, modNamespaces, fns, guards, excludes, closureDepth, constEvalDepth>>
found  == <<mutants, externalMods>>
vars   == <<tree, at, open, stacks, memo, found, error>>

Init ==
    /\ ast \in Asts
    /\ filters \in NameFilters
    /\ at = 1
    /\ open = <<>> /\ namespaces = <<>> /\ modNamespaces = <<>> /\ fns = <<>>
    /\ guards = <<>> /\ excludes = <<>>
    /\ closureDepth = 0 /\ constEvalDepth = 0
    /\ memo = <<>>
    /\ mutants = <<>> /\ externalMods = <<>>
    /\ error = 0

-----------------------------------------------------------------------------
(* The tree *)

Nodes == DOMAIN ast
Kind(n) == ast[n].kind
Flag(n, f) == f \in ast[n].flags
Children(n) == {c \in Nodes : ast[c].up = n}
Child(n, role) == CHOOSE c \in Children(n) : ast[c].role = role
HasChild(n, role) == \E c \in Children(n) : ast[c].role = role

\* The first node after n that is not below it.
After(n) == CHOOSE m \in n + 1 .. Len(ast) + 1 :
                /\ m \in Nodes => ast[m].up < n
                /\ \A k \in n + 1 .. m - 1 : ast[k].up >= n

Below(n) == n + 1 .. After(n) - 1

Top(s) == s[Len(s)]
Pop(s) == SubSeq(s, 1, Len(s) - 1)
Maybe(condition, s) == IF condition THEN s ELSE <<>>

\* Nodes in the order in which they are visited, or positions in theirs.
InOrder(S) ==
    LET rank(n) == Cardinality({m \in S : m <= n})
    IN  [i \in 1 .. Cardinality(S) |-> CHOOSE n \in S : rank(n) = i]

\* What s has at these positions.
Select(s, positions) ==
    LET order == InOrder(positions)
    IN  [i \in DOMAIN order |-> s[order[i]]]

-----------------------------------------------------------------------------
(* Early returns *)

\* The handlers that look at attrs_excluded, and those that open an exclude_re
\* scope.
Scoped == {"file", "fn", "impl", "trait", "mod", "call", "method", "unary", "if", "while",
           "match", "struct"}
Skippable == Scoped \cup {"const", "binary"}

FnSigExcluded(n) == Flag(n, "unsafe")

\* The constructor is left alone within an impl or a trait, not at the top.
IsConstructor(n) == Flag(n, "new") /\ Kind(ast[n].up) \in {"impl", "trait"}

\* A handler returns, or has nothing to visit, before it opens a scope.
Rejects(n) ==
    \/ Kind(n) \in Skippable /\ AttrsExcluded(ast[n].attrs)
    \/ Kind(n) = "fn" /\ \/ FnSigExcluded(n)
                         \/ IsConstructor(n)
                         \/ Flag(n, "empty")
                         \/ Flag(n, "required")
    \/ Kind(n) \in {"attribute", "pat"}

Fails(n) == ~Rejects(n) /\ Kind(n) \in Scoped /\ ScopeFails(ast[n].attrs)

\* is_skipped_call, also the first thing visit_expr_call does in its scope.
IsSkippedCall(n) == Kind(n) \in {"call", "method"} /\ ast[n].name \in SkipCalls

\* A handler returns from within its scope.
Declines(n) ==
    /\ ~Rejects(n) /\ ~Fails(n)
    /\ \/ Kind(n) = "impl" /\ Flag(n, "Default")
       \/ Kind(n) = "mod" /\ Flag(n, "absolute")
       \/ IsSkippedCall(n)

Ready(n) == at = n /\ n \in Nodes /\ ast[n].up = IF open = <<>> THEN 0 ELSE Top(open)
Proceeds(n) == Ready(n) /\ ~Rejects(n) /\ ~Fails(n) /\ ~Declines(n)

-----------------------------------------------------------------------------
(* Mutants *)

Text(s) == [con |-> s, args |-> <<>>]
Nothing == Text("")
True == Text("true")
False == Text("false")

Candidate(n, genre, value) == [node |-> n, genre |-> genre, value |-> value]

\* Some of the patterns on the nodes of these scopes matches a candidate.
ExcludedIn(scopes, c) ==
    \E s \in scopes : \E p \in AttrsExcludeRePatterns(ast[s].attrs) : Matches(p, c)

\* Variant of ExcludedByAttrRe: only the innermost scope.
ExcludedByInnermost(scopes, c) == scopes # <<>> /\ ExcludedIn({Top(scopes)}, c)

ExcludedByAttrRe(scopes, c) == ExcludedIn(ItemsOf(scopes), c)

AllowsMutant(c) ==
    /\ filters.examine = {} \/ \E p \in filters.examine : Matches(p, c)
    /\ ~\E p \in filters.exclude : Matches(p, c)

\* collect_mutant for each candidate.  Struct fields are pushed by
\* visit_expr_struct itself, which asks the attributes but not the options.
Collect(candidates, scopes, inFns, depth) ==
    LET Allowed(c) == /\ ~ExcludedByAttrRe(scopes, c)
                      /\ c.genre = "StructField" \/ AllowsMutant(c)
        kept == Select(candidates, {i \in DOMAIN candidates : Allowed(candidates[i])})
    IN  mutants' = mutants \o
            [i \in DOMAIN kept |-> [node  |-> kept[i].node,
                                    genre |-> kept[i].genre,
                                    value |-> kept[i].value,
                                    fn    |-> IF inFns = <<>> THEN 0 ELSE Top(inFns),
                                    constEval |-> depth > 0]]

-----------------------------------------------------------------------------
(* Whether code contains return, break or continue *)

Leaves == {"return", "exit"}

\* The memo's answer, or what is below the node.  The values of return and
\* break are not looked into.
Flow[n \in 1 .. Len(ast)] ==
    IF n \in DOMAIN memo THEN memo[n]
    ELSE IF Kind(n) \in Leaves THEN {Kind(n)}
    ELSE UNION {Flow[c] : c \in Children(n)}

\* The nodes that a query of n walks.
Walked(n) ==
    LET walked[m \in 0 .. Len(ast)] ==
            \/ m = n
            \/ m > n /\ walked[ast[m].up] /\ ~(Kind(ast[m].up) \in Leaves)
                     /\ ast[m].up \notin DOMAIN memo
    IN  {m \in Nodes : walked[m]}

\* Variant of Queried: the flags are not reset before a node is walked.
QueriedWithoutReset(roots) ==
    LET walked == UNION {Walked(n) : n \in roots}
    IN  [m \in DOMAIN memo \cup walked |->
            Flow[m] \cup UNION {Flow[k] : k \in {k \in walked \ DOMAIN memo : k < m}}]

\* query_expr and query_block leave the answers for all they walked.
Queried(roots) ==
    LET walked == UNION {Walked(n) : n \in roots}
    IN  [m \in DOMAIN memo \cup walked |-> Flow[m]]

-----------------------------------------------------------------------------
(* Descent *)

Stay == UNCHANGED <<tree, externalMods, error>>

Descend(n) == at' = n + 1 /\ open' = Append(open, n)
Pass(n) == at' = After(n) /\ open' = open

\* in_exclude_re_scope
Scope(n) == IF ScopePushes(ast[n].attrs) THEN Append(excludes, n) ELSE excludes
EnterScope(n) == excludes' = Scope(n)

\* An early return.
Skip(n) ==
    /\ Ready(n)
    /\ Rejects(n) \/ Declines(n)
    /\ Pass(n)
    /\ UNCHANGED <<tree, stacks, memo, found, error>>

\* The first error is kept; what is below the node is not visited.
Fail(n) ==
    /\ Ready(n)
    /\ Fails(n)
    /\ error' = IF error = 0 THEN n ELSE error
    /\ Pass(n)
    /\ UNCHANGED <<tree, stacks, memo, found>>

-----------------------------------------------------------------------------
(* Items *)

VisitFile(n) ==
    /\ Proceeds(n) /\ Kind(n) = "file"
    /\ EnterScope(n)
    /\ Descend(n)
    /\ UNCHANGED <<namespaces, modNamespaces, fns, guards, closureDepth, constEvalDepth,
                   memo, mutants>>
    /\ Stay

BodyStatements(n) == Children(Child(n, "body"))
IsTail(n) == ast[n].role = "tail"

\* Variant of ConstDepthIn: a flag where there was a depth.
ConstFlagIn(n) == IF Flag(n, "const") THEN 1 ELSE constEvalDepth

\* The whole body is an expression that reads like the value.
BodyIs(n, value) ==
    \E s \in BodyStatements(n) :
        BodyStatements(n) = {s} /\ IsTail(s) /\ Kind(s) = "lit" /\ ast[s].name = value

FnMutants(n) ==
    LET all == Returns[ast[n].type]
        values == Select(all, {i \in DOMAIN all : ~BodyIs(n, all[i])})
    IN  [i \in DOMAIN values |-> Candidate(n, "FnValue", values[i])]

ConstDepthIn(n) == constEvalDepth + IF Flag(n, "const") THEN 1 ELSE 0

\* visit_item_fn, visit_impl_item_fn and visit_trait_item_fn
VisitFn(n) ==
    /\ Proceeds(n) /\ Kind(n) = "fn"
    /\ EnterScope(n)
    /\ namespaces' = Append(namespaces, n)
    /\ fns' = Append(fns, n)
    /\ constEvalDepth' = ConstDepthIn(n)
    /\ Collect(FnMutants(n), excludes', fns', constEvalDepth')
    /\ Descend(n)
    /\ UNCHANGED <<modNamespaces, guards, closureDepth, memo>>
    /\ Stay

\* impl and trait
VisitNamespace(n) ==
    /\ Proceeds(n) /\ Kind(n) \in {"impl", "trait"}
    /\ EnterScope(n)
    /\ namespaces' = Append(namespaces, n)
    /\ Descend(n)
    /\ UNCHANGED <<modNamespaces, fns, guards, closureDepth, constEvalDepth, memo, mutants>>
    /\ Stay

\* `mod a { .. }`, or `mod a;`, which is to be looked up with the modules
\* around it.
VisitMod(n) ==
    /\ Proceeds(n) /\ Kind(n) = "mod"
    /\ EnterScope(n)
    /\ modNamespaces' = Append(modNamespaces, n)
    /\ namespaces' = Append(namespaces, n)
    /\ externalMods' = externalMods \o Maybe(Flag(n, "external"), <<modNamespaces'>>)
    /\ Descend(n)
    /\ UNCHANGED <<tree, fns, guards, closureDepth, constEvalDepth, memo, mutants, error>>

\* const and static items, associated or not, array types and generic constants
VisitConst(n) ==
    /\ Proceeds(n) /\ Kind(n) \in {"const", "array"}
    /\ constEvalDepth' = constEvalDepth + 1
    /\ Descend(n)
    /\ UNCHANGED <<namespaces, modNamespaces, fns, guards, excludes, closureDepth, memo,
                   mutants>>
    /\ Stay

-----------------------------------------------------------------------------
(* Expressions *)

\* Handlers that only open a scope.
VisitCall(n) ==
    /\ Proceeds(n) /\ Kind(n) \in {"call", "method"}
    /\ EnterScope(n)
    /\ Descend(n)
    /\ UNCHANGED <<namespaces, modNamespaces, fns, guards, closureDepth, constEvalDepth,
                   memo, mutants>>
    /\ Stay

OperatorReplacements ==
    [op \in {"==", "!=", "&&", "||", "<", ">", "<=", ">=", "+", "-", "*", "/", "%",
             "<<", ">>", "&", "|", "^", "+=", "-=", "*=", "/=", "%=", "<<=", ">>=",
             "&=", "|=", "^="} |->
        CASE op = "==" -> <<"!=">>            [] op = "!=" -> <<"==">>
          [] op = "&&" -> <<"||">>            [] op = "||" -> <<"&&">>
          [] op = "<"  -> <<"==", ">", "<=">> [] op = ">"  -> <<"==", "<", ">=">>
          [] op \in {"<=", ">="} -> IF op = "<=" THEN <<">", "<">> ELSE <<"<", ">">>
          [] op = "+"  -> <<"-", "*">>        [] op = "+=" -> <<"-=", "*=">>
          [] op \in {"-", "*"} -> <<"+", "/">>
          [] op \in {"-=", "*="} -> <<"+=", "/=">>
          [] op = "/"  -> <<"%", "*">>        [] op = "/=" -> <<"%=", "*=">>
          [] op = "%"  -> <<"/", "+">>        [] op = "%=" -> <<"/=", "+=">>
          [] op = "<<" -> <<">>">>            [] op = "<<=" -> <<">>=">>
          [] op = ">>" -> <<"<<">>            [] op = ">>=" -> <<"<<=">>
          [] op = "&"  -> <<"|", "^">>        [] op = "&=" -> <<"|=">>
          [] op = "|"  -> <<"&", "^">>        [] op = "|=" -> <<"&=">>
          [] op = "^"  -> <<"|", "&">>        [] op = "^=" -> <<"|=", "&=">>]

\* No other operator is replaced.
ReplacementsOf(op) ==
    IF op \in DOMAIN OperatorReplacements THEN OperatorReplacements[op] ELSE <<>>

\* A value is an expression, and in its list once; those of a bool are both.
\* (An enum that declares a variant twice, under two cfgs, is left out.)
ASSUME ReturnsAssumption ==
    \A type \in DOMAIN Returns :
        LET values == Returns[type]
        IN  /\ \A i, j \in DOMAIN values : values[i] = values[j] => i = j
            /\ ItemsOf(values) \cap ({Nothing} \cup {Text(op) : op \in DOMAIN OperatorReplacements}) = {}
            /\ type.con = "bool" => {True, False} \subseteq ItemsOf(values)

BinaryMutants(n) ==
    LET replacements == ReplacementsOf(ast[n].name)
    IN  [i \in DOMAIN replacements |-> Candidate(n, "BinaryOperator", Text(replacements[i]))]

VisitBinary(n) ==
    /\ Proceeds(n) /\ Kind(n) = "binary"
    /\ Collect(BinaryMutants(n), excludes, fns, constEvalDepth)
    /\ Descend(n)
    /\ UNCHANGED <<stacks, memo>>
    /\ Stay

\* `!` and `-` are removed; `*` is left.
UnaryMutants(n) ==
    Maybe(ast[n].name \in {"!", "-"}, <<Candidate(n, "UnaryOperator", Nothing)>>)

VisitUnary(n) ==
    /\ Proceeds(n) /\ Kind(n) = "unary"
    /\ EnterScope(n)
    /\ Collect(UnaryMutants(n), excludes', fns, constEvalDepth)
    /\ Descend(n)
    /\ UNCHANGED <<namespaces, modNamespaces, fns, guards, closureDepth, constEvalDepth, memo>>
    /\ Stay

\* Conditions that no literal replaces: `let` and what is a literal already.
IsPlainCondition(c) == Kind(c) \notin {"let", "lit"}

IfMutants(n) ==
    LET cond == Child(n, "cond")
        plain == IsPlainCondition(cond)
        exits == "exit" \in Flow[Child(n, "then")]
    IN  Maybe(plain, <<Candidate(cond, "IfCondition", True)>>)
            \o Maybe(plain /\ ~exits, <<Candidate(cond, "IfCondition", False)>>)

VisitIf(n) ==
    /\ Proceeds(n) /\ Kind(n) = "if"
    /\ EnterScope(n)
    /\ memo' = Queried(IF IsPlainCondition(Child(n, "cond")) THEN {Child(n, "then")} ELSE {})
    /\ Collect(IfMutants(n), excludes', fns, constEvalDepth)
    /\ Descend(n)
    /\ UNCHANGED <<namespaces, modNamespaces, fns, guards, closureDepth, constEvalDepth>>
    /\ Stay

WhileMutants(n) ==
    LET cond == Child(n, "cond")
    IN  Maybe(IsPlainCondition(cond), <<Candidate(cond, "WhileCondition", False)>>)

VisitWhile(n) ==
    /\ Proceeds(n) /\ Kind(n) = "while"
    /\ EnterScope(n)
    /\ Collect(WhileMutants(n), excludes', fns, constEvalDepth)
    /\ Descend(n)
    /\ UNCHANGED <<namespaces, modNamespaces, fns, guards, closureDepth, constEvalDepth, memo>>
    /\ Stay

Arms(n) == {c \in Children(n) : Kind(c) = "arm"}
GuardsOf(n) ==
    LET guarded == InOrder({a \in Arms(n) : HasChild(a, "guard")})
    IN  [i \in DOMAIN guarded |-> Child(guarded[i], "guard")]

HasCatchAll(n) == \E a \in Arms(n) : Flag(a, "wild")

\* Variant of ArmMutants: an arm with a guard is deleted too.
ArmMutantsWithGuards(n) ==
    LET deleted == InOrder({a \in Arms(n) : ~Flag(a, "wild")})
    IN  Maybe(HasCatchAll(n), [i \in DOMAIN deleted |-> Candidate(deleted[i], "MatchArm", Nothing)])

\* Arms are deleted if there is a catch-all for what they matched; an arm with
\* a guard has its guard replaced instead.
ArmMutants(n) ==
    LET deleted == InOrder({a \in Arms(n) : ~Flag(a, "wild") /\ ~HasChild(a, "guard")})
    IN  Maybe(HasCatchAll(n), [i \in DOMAIN deleted |-> Candidate(deleted[i], "MatchArm", Nothing)])

\* Each guard becomes true, then false.
GuardMutants(n) ==
    LET guarded == GuardsOf(n)
    IN  [i \in 1 .. 2 * Len(guarded) |->
            Candidate(guarded[(i + 1) \div 2], "MatchArmGuard", IF i % 2 = 1 THEN True ELSE False)]

VisitMatch(n) ==
    /\ Proceeds(n) /\ Kind(n) = "match"
    /\ EnterScope(n)
    /\ Collect(ArmMutants(n) \o GuardMutants(n), excludes', fns, constEvalDepth)
    /\ guards' = guards \o GuardsOf(n)
    /\ Descend(n)
    /\ UNCHANGED <<namespaces, modNamespaces, fns, closureDepth, constEvalDepth, memo>>
    /\ Stay

\* Variant of IsWholeBody: a body may have other statements.
EndsBody(n) == fns # <<>> /\ n \in BodyStatements(Top(fns)) /\ IsTail(n)

IsWholeBody(n) ==
    fns # <<>> /\ BodyStatements(Top(fns)) = {n} /\ IsTail(n)

\* Variant of IsMutatedElsewhere: literals in guards are not looked for.
IsMutatedByBody(n) == IsWholeBody(n)

IsMutatedElsewhere(n) == IsWholeBody(n) \/ n \in ItemsOf(guards)

LitMutants(n) ==
    LET flipped == IF ast[n].name = True THEN False ELSE True
    IN  Maybe(ast[n].name \in {True, False} /\ ~IsMutatedElsewhere(n),
              <<Candidate(n, "BoolLiteral", flipped)>>)

VisitLit(n) ==
    /\ Proceeds(n) /\ Kind(n) = "lit"
    /\ Collect(LitMutants(n), excludes, fns, constEvalDepth)
    /\ Descend(n)
    /\ UNCHANGED <<stacks, memo>>
    /\ Stay

\* The named fields of a literal with a base, `..base`, are deleted one by one.
StructMutants(n) ==
    LET fields == InOrder({c \in Children(n) : Kind(c) = "field" /\ ~Flag(c, "indexed")})
    IN  Maybe(HasChild(n, "rest"),
              [i \in DOMAIN fields |-> Candidate(fields[i], "StructField", Nothing)])

VisitStruct(n) ==
    /\ Proceeds(n) /\ Kind(n) = "struct"
    /\ EnterScope(n)
    /\ Collect(StructMutants(n), excludes', fns, constEvalDepth)
    /\ Descend(n)
    /\ UNCHANGED <<namespaces, modNamespaces, fns, guards, closureDepth, constEvalDepth, memo>>
    /\ Stay

UntypedLocals(n) == {ast[c].name : c \in {c \in Children(n) : Kind(c) = "local"}} \ {""}

\* The statements that is_deletable_statement asks the memo about.
Discards(n, c) ==
    /\ ast[c].role = "stmt"
    /\ Kind(c) \in {"call", "method", "assign"}
    /\ Kind(c) # "call" => ast[c].root \notin UntypedLocals(n)

DeletableStatements(n) ==
    InOrder({c \in Children(n) : Discards(n, c) /\ Flow[c] = {} /\ ~IsSkippedCall(c)})

BlockMutants(n) ==
    LET deleted == DeletableStatements(n)
    IN  [i \in DOMAIN deleted |-> Candidate(deleted[i], "DeleteStatement", Nothing)]

VisitBlock(n) ==
    /\ Proceeds(n) /\ Kind(n) = "block"
    /\ memo' = Queried({c \in Children(n) : Discards(n, c)})
    /\ Collect(BlockMutants(n), excludes, fns, constEvalDepth)
    /\ Descend(n)
    /\ UNCHANGED stacks
    /\ Stay

\* Closures and async blocks
VisitClosure(n) ==
    /\ Proceeds(n) /\ Kind(n) = "closure"
    /\ closureDepth' = closureDepth + 1
    /\ Descend(n)
    /\ UNCHANGED <<namespaces, modNamespaces, fns, guards, excludes, constEvalDepth, memo,
                   mutants>>
    /\ Stay

BodyIsSingleReturn(n) ==
    \E s \in BodyStatements(n) : BodyStatements(n) = {s} /\ Kind(s) = "return"

ReturnValues(n) ==
    LET value == Child(n, "value")
        all == Returns[ast[Top(fns)].type]
        values == Select(all, {i \in DOMAIN all :
                                   ~(Kind(value) = "lit" /\ ast[value].name = all[i])})
    IN  [i \in DOMAIN values |-> Candidate(value, "ReturnValue", values[i])]

\* Variant of ReturnApplies: closures are not told from functions.
ReturnAppliesInClosure(n) ==
    /\ HasChild(n, "value")
    /\ fns # <<>>
    /\ ~BodyIsSingleReturn(Top(fns))
    /\ ast[Top(fns)].type # NoType

ReturnApplies(n) ==
    /\ closureDepth = 0
    /\ HasChild(n, "value")
    /\ fns # <<>>
    /\ ~BodyIsSingleReturn(Top(fns))
    /\ ast[Top(fns)].type # NoType

ReturnMutants(n) == IF ReturnApplies(n) THEN ReturnValues(n) ELSE <<>>

VisitReturn(n) ==
    /\ Proceeds(n) /\ Kind(n) = "return"
    /\ Collect(ReturnMutants(n), excludes, fns, constEvalDepth)
    /\ Descend(n)
    /\ UNCHANGED <<stacks, memo>>
    /\ Stay

\* Nodes the visitor has no handler for: syn descends.
Handled == Scoped \cup Skippable \cup {"array", "lit", "block", "closure", "return"}

VisitOther(n) ==
    /\ Proceeds(n) /\ Kind(n) \notin Handled
    /\ Descend(n)
    /\ UNCHANGED <<stacks, memo, mutants>>
    /\ Stay

-----------------------------------------------------------------------------
(* The rest of a handler, after its descent *)

PushesNamespace(n) == Kind(n) \in {"fn", "impl", "trait", "mod"}
EvaluatesConst(n) == Kind(n) \in {"const", "array"} \/ (Kind(n) = "fn" /\ Flag(n, "const"))

\* Variant of PopIf: an entry that is never taken off.
KeepIf(condition, s) == s

PopIf(condition, s) == IF condition THEN Pop(s) ELSE s
LessIf(condition, depth) == IF condition THEN depth - 1 ELSE depth

Finished(n) == open # <<>> /\ Top(open) = n /\ (at \in Nodes => ast[at].up # n)

Leave(n) ==
    /\ Finished(n)
    /\ open' = Pop(open)
    /\ namespaces' = PopIf(PushesNamespace(n), namespaces)
    /\ modNamespaces' = PopIf(Kind(n) = "mod", modNamespaces)
    /\ fns' = PopIf(Kind(n) = "fn", fns)
    /\ guards' = IF Kind(n) = "match" THEN SubSeq(guards, 1, Len(guards) - Len(GuardsOf(n)))
                 ELSE guards
    /\ excludes' = PopIf(Kind(n) \in Scoped /\ ScopePushes(ast[n].attrs), excludes)
    /\ closureDepth' = LessIf(Kind(n) = "closure", closureDepth)
    /\ constEvalDepth' = LessIf(EvaluatesConst(n), constEvalDepth)
    /\ UNCHANGED <<tree, at, memo, found, error>>

Visit(n) ==
    \/ Skip(n) \/ Fail(n)
    \/ VisitFile(n) \/ VisitFn(n) \/ VisitNamespace(n) \/ VisitMod(n) \/ VisitConst(n)
    \/ VisitCall(n) \/ VisitBinary(n) \/ VisitUnary(n) \/ VisitIf(n) \/ VisitWhile(n)
    \/ VisitMatch(n) \/ VisitLit(n) \/ VisitStruct(n) \/ VisitBlock(n) \/ VisitClosure(n)
    \/ VisitReturn(n) \/ VisitOther(n)

Done == at = Len(ast) + 1 /\ open = <<>>

\* walk_file returns the mutants, or the first error.
Terminated == Done /\ UNCHANGED vars

Next == (\E n \in Nodes : Visit(n) \/ Leave(n)) \/ Terminated

Spec == Init /\ [][Next]_vars

=============================================================================

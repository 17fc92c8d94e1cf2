----------------------------- MODULE MCVisitor -----------------------------
(***************************************************************************)
(* The syntax trees that the visitor is checked on: every combination of   *)
(* attributes on nested scopes, every small body of control flow, matches  *)
(* and literals in each position, nested modules, struct literals, and     *)
(* functions of every return type up to depth two.                         *)
(***************************************************************************)
EXTENDS VisitorProperties, FnValue

CONSTANTS p, q, bad

MCPatterns == {p, q, bad}
\* Patterns for whole genres, for one of the three replacements of `<`, and for one
\* value ("with false") whichever genre puts it there.
MCMatches(x, c) ==
    \/ x = p /\ \/ c.genre \in {"UnaryOperator", "StructField"}
                \/ c.genre = "BinaryOperator" /\ c.value = Text("==")
    \/ x = q /\ (c.genre = "MatchArm" \/ c.value = False)

MCNameFilters == {[examine |-> {}, exclude |-> {}], [examine |-> {p, q}, exclude |-> {p}]}
MCNoType == Constant("no type")

-----------------------------------------------------------------------------
(* Trees as terms, and the order in which they are visited *)

Node(kind) == [kind |-> kind, up |-> 0, role |-> "", attrs |-> <<>>, name |-> "", root |-> "",
               flags |-> {}, type |-> MCNoType]
Tree(node, children) == [node |-> node, children |-> children]
T(kind, children) == Tree(Node(kind), children)
Leaf(kind) == T(kind, <<>>)

Named(t, name) == [t EXCEPT !.node.name = name]
Role(t, role) == [t EXCEPT !.node.role = role]
Attrs(t, attrs) == [t EXCEPT !.node.attrs = attrs]
Flags(t, flags) == [t EXCEPT !.node.flags = flags]
Root(t, root) == [t EXCEPT !.node.root = root]

RECURSIVE Preorder(_, _, _)
Preorder(t, up, first) ==
    LET below[k \in 0 .. Len(t.children)] ==
            IF k = 0 THEN <<[t.node EXCEPT !.up = up]>>
            ELSE LET before == below[k - 1]
                 IN  before \o Preorder(t.children[k], first, first + Len(before))
    IN  below[Len(t.children)]

File(items) == Preorder(T("file", items), 0, 1)
Block(stmts) == Role(T("block", stmts), "body")
Stmt(t) == Role(t, "stmt")
Final(t) == Role(t, "tail")
Lit(value) == Named(Leaf("lit"), Text(value))
Binary == Named(Leaf("binary"), "<")
Fn(type, stmts) ==
    Tree([Node("fn") EXCEPT !.type = type, !.name = "f"], <<Block(stmts)>>)
If(cond, then) == T("if", <<Role(cond, "cond"), Role(T("block", then), "then")>>)

Bool == Constant("bool")

-----------------------------------------------------------------------------
(* Attributes on nested scopes *)

Attr(path, args) == <<[path |-> path, args |-> args]>>
SkipAttr == Attr("mutants::skip", <<>>)
Exclude(x) == Attr("mutants::exclude_re", <<x>>)

AttrChoices == {Attr("cfg_attr", <<"word", q>>), Exclude(p), Exclude(bad), Attr("cfg", <<"word", "test">>),
                Attr("cfg_attr", <<"list", "skip">>), Attr("cfg_attr", <<"word", Malformed, q>>)}

\* At most two of three levels carry attributes.
AttrTriples ==
    LET some == AttrChoices \cup {<<>>}
    IN  {t \in some \X some \X some : \E i \in 1 .. 3 : t[i] = <<>>}

Small == Fn(Bool, <<Final(Binary)>>)
Item(kind, inner) ==
    CASE kind = "mod"     -> T("mod", <<inner, Small>>)
      [] kind = "impl"    -> T("impl", <<inner, Small>>)
      [] kind = "Default" -> Flags(T("impl", <<inner>>), {"Default"})
      [] kind = "trait"   -> T("trait", <<inner>>)
      [] kind = "const"   -> T("const", <<Binary, T("block", <<inner>>)>>)

Scoping(kind, inner) ==
    CASE kind = "skipped" -> Named(T("call", <<inner>>), "with_capacity")
      [] kind = "unary"   -> Named(T("unary", <<inner>>), "!")
      [] kind = "if"      -> If(inner, <<Leaf("other")>>)
      [] kind = "while"   -> T("while", <<Role(inner, "cond"), T("block", <<Leaf("other")>>)>>)
      [] kind = "closure" -> T("closure", <<T("block", <<Stmt(inner)>>)>>)
      [] OTHER            -> T(kind, <<inner>>)

ScopeTree(item, expr, attrs, flags) ==
    LET fn == Fn(Bool, <<Stmt(Attrs(Scoping(expr, Binary), attrs[3])), Final(Binary)>>)
    IN  File(<<Attrs(Item(item, Flags(Attrs(fn, attrs[2]), flags)), attrs[1]), Small>>)

ScopeTrees ==
    {ScopeTree("mod", expr, attrs, {}) : attrs \in AttrTriples,
        expr \in {"call", "skipped", "method", "unary", "if", "while", "closure", "array"}}
    \cup {ScopeTree(item, "unary", attrs, flags) : attrs \in AttrTriples,
        item \in {"impl", "Default", "trait", "const"}, flags \in {{}, {"const"}, {"new"}}}
    \cup {ScopeTree("mod", "unary", attrs, {"unsafe"}) : attrs \in AttrTriples}

-----------------------------------------------------------------------------
(* Bodies with return, break and continue *)

Simple == {Leaf("exit"), Leaf("return"), Leaf("call"), Root(Leaf("method"), "v"), Leaf("other")}
Around(S) ==
    UNION {{T("call", <<e>>), If(Binary, <<Stmt(e)>>), T("block", <<Stmt(e)>>),
            T("closure", <<Stmt(e)>>), Root(T("assign", <<e>>), "v"), T("return", <<Role(e, "value")>>)}
           : e \in S}
Deep == Simple \cup Around(Simple) \cup Around(Around(Simple))
FlowTrees ==
    {File(<<Fn(Bool, <<Stmt(a), Stmt(b), Final(If(Binary, <<Leaf("exit")>>))>>)>>) :
        a \in Deep, b \in Simple \cup {Named(Leaf("local"), "v"), If(Binary, <<Stmt(Leaf("exit"))>>)}}

-----------------------------------------------------------------------------
(* Literals, guards and returns *)

Value == {Lit("true"), Lit("0"), Binary}
Arm(pattern, guard, body) ==
    Flags(T("arm", <<Leaf("pat")>> \o (IF guard = <<>> THEN <<>> ELSE <<Role(guard[1], "guard")>>) \o <<body>>),
          IF pattern = "_" THEN {"wild"} ELSE {})
MatchOf(guard, inner, last) ==
    T("match", <<Leaf("other"), Arm("x", guard, inner), Arm("y", <<>>, Lit("false")),
                 Arm(last, <<>>, Leaf("other"))>>)
Matching ==
    LET one == {MatchOf(g, i, l) : g \in {<<>>} \cup {<<v>> : v \in Value}, i \in Value, l \in {"_", "z"}}
    IN  one \cup {MatchOf(<<v>>, m, "_") : v \in Value, m \in one}
            \cup {MatchOf(<<m>>, Lit("true"), "_") : m \in one}

Returning == {T("return", <<Role(v, "value")>>) : v \in Value} \cup {Leaf("return")}
Bodies ==
    {<<Final(v)>> : v \in Value \cup Matching} \cup {<<Stmt(v)>> : v \in Value \cup Returning}
      \cup {<<Stmt(r), Final(v)>> : r \in Returning, v \in Value}
      \cup {<<Stmt(T("closure", <<r>>)), Stmt(r), Final(Lit("true"))>> : r \in Returning}
      \cup {<<Stmt(T("closure", <<Fn(Bool, <<Stmt(r), Final(v)>>), r>>)), Stmt(r)>> : r \in Returning, v \in Value}
ReturnTypes == {Bool, Constant("u8"), MCNoType}
LiteralTrees ==
    {File(<<Fn(type, body), Small>>) : type \in ReturnTypes, body \in Bodies}

-----------------------------------------------------------------------------
(* Modules and struct literals *)

Mod(flags, attrs, children) == Flags(Attrs(T("mod", children), attrs), flags)
External == {Mod({"external"}, <<>>, <<>>), Mod({"external"}, SkipAttr, <<>>),
             Mod({"external", "absolute"}, <<>>, <<>>)}
Inner == {Mod(f, a, <<e, d>>) : f \in {{}, {"absolute"}}, a \in {<<>>, SkipAttr, Exclude(bad)},
                                e \in External, d \in External}
ModTrees ==
    {File(<<Mod({}, a, <<i, e>>), d>>) : a \in {<<>>, Exclude(p)}, i \in Inner, e \in External,
        d \in {Mod({"external"}, <<>>, <<>>), Mod({}, Exclude(Malformed), <<>>)}}

Field(name, flags) == Flags(Named(T("field", <<Binary>>), name), flags)
StructTrees ==
    {File(<<Fn(Bool, <<Final(Attrs(T("struct", <<Field("a", {}), Field("b", f)>> \o r), a))>>)>>) :
        f \in {{}, {"indexed"}}, r \in {<<>>, <<Role(Leaf("call"), "rest")>>},
        a \in {<<>>, Exclude(p), Exclude(q)}}

-----------------------------------------------------------------------------
(* Return types *)

Atoms == {Constant(c) : c \in {"bool", "String", "str", "u8", "i8", "f64", "char", "Duration",
             "Ordering", "PathBuf", "NonZeroU8", "NonZeroI8", "HttpResponse", "Instant", "Pin",
             "Range", "E", "Unknown", "!", "impl", "dyn", "Result", "OsString"}}
           \cup {Term("tuple", <<>>)}
Unary(S) == {Term(c, <<t>>) : t \in S,
               c \in {"&", "&mut", "[]", "[;]", "tuple", "Option", "Vec", "Cow", "Box", "HashSet",
                      "HashMap", "NonZero", "impl Iterator", "Result", "Unknown", "Range"}}
Both(S, R) == {Term(c, <<t, r>>) : t \in S, r \in R, c \in {"Result", "HashMap", "tuple"}}

Common == {Constant(c) : c \in {"bool", "u8", "i8", "NonZeroU8", "Instant", "Unknown", "E", "str"}}
Types == Atoms \cup Unary(Atoms) \cup Both(Common, Common) \cup Unary(Unary(Common))
           \cup Unary(Both({Bool}, Common)) \cup Both(Unary(Common), {Bool, Constant("Instant")})
           \cup Both({Bool}, {Term("&mut", <<Constant("str")>>), Term("&", <<Constant("str")>>)})
           \cup {Term("tuple", <<t, Bool, Constant("u8")>>) : t \in Common}

Enums == [E |-> Constants(<<"E::A", "E::B">>)]
Errors == <<Constant("anyhow!()"), Constant("true")>>

MCReturns == [t \in Types \cup {MCNoType} |-> ReturnTypeReplacements(t, MCNoType, Errors, Enums)]

TypeTrees == {File(<<Fn(t, <<Stmt(T("return", <<Role(Leaf("other"), "value")>>)), Final(Leaf("other"))>>)>>)
                : t \in Types}

\* A value that replaces what a function returns has that type: constructors hold
\* what they should, in every component, and no unsigned number is negative.  Not
\* where the type has a Misfit somewhere: the code guesses there, and is wrong.
ReplacementsHaveType ==
    Done => \A m \in ItemsOf(mutants) : m.genre \in {"FnValue", "ReturnValue"} =>
        LET type == ast[m.fn].type
        IN  type = MCNoType \/ HasMisfit(type) \/ HasType(m.value, type, ItemsOf(Errors))

MCAsts == ScopeTrees \cup FlowTrees \cup LiteralTrees \cup ModTrees \cup StructTrees \cup TypeTrees

=============================================================================

------------------------------ MODULE FnValue ------------------------------
(***************************************************************************)
(* Replacement values for a type (src/fnvalue.rs).                         *)
(*                                                                         *)
(* Types and values are terms, a head and arguments.  The head of a path   *)
(* is its last segment; "&", "&mut", "[]", "[;]", "tuple", "impl Iterator",*)
(* "impl", "dyn" and "!" are the types that are not paths.  Names of types *)
(* that the code treats alike are represented by one of them.              *)
(***************************************************************************)
EXTENDS Sequences, Naturals, FiniteSets
LOCAL INSTANCE TLC

Term(head, arguments) == [con |-> head, args |-> arguments]
Constant(head) == Term(head, <<>>)

\* Each value within the constructor.
Wrap(head, values) == [i \in DOMAIN values |-> Term(head, <<values[i]>>)]
Constants(heads) == [i \in DOMAIN heads |-> Constant(heads[i])]

Default == <<Constant("Default::default()")>>

\* One value of each column, the first outermost.
Product(columns) ==
    LET rows[k \in 0 .. Len(columns)] ==
            IF k = 0 THEN <<<<>>>>
            ELSE LET column == columns[k]
                 IN  [i \in 1 .. Len(rows[k - 1]) * Len(column) |->
                        Append(rows[k - 1][((i - 1) \div Len(column)) + 1],
                               column[((i - 1) % Len(column)) + 1])]
    IN  rows[Len(columns)]

\* unique_by(to_pretty_string)
Unique(s) ==
    LET first[k \in 0 .. Len(s)] ==
            IF k = 0 THEN <<>>
            ELSE IF \E j \in 1 .. k - 1 : s[j] = s[k] THEN first[k - 1]
            ELSE Append(first[k - 1], s[k])
    IN  first[Len(s)]

-----------------------------------------------------------------------------
(* Families of types *)

Unsigned == {"u8", "usize"}
Signed == {"i8", "i32"}
Floats == {"f64"}
NonZeroUnsigned == {"NonZeroU8"}
NonZeroSigned == {"NonZeroI8"}
Paths == {"PathBuf", "Utf8PathBuf"}
KnownContainer == {"Box", "Cell", "RefCell", "Arc", "Rc", "Mutex"}
KnownCollection == {"BinaryHeap", "BTreeSet", "HashSet", "LinkedList", "VecDeque"}
KnownMap == {"BTreeMap", "HashMap"}
NoConstructor == {"Pin", "NonNull", "Instant", "SystemTime"}

\* match_first_type_arg
Applied(type, head) == type.con = head /\ type.args # <<>>

IsSimplyConstructible(type) ==
    \/ type.con \in {"bool", "String", "str", "char"} \cup Unsigned \cup Signed \cup Floats
    \/ type.con \in {"&", "&mut"} /\ type.args[1].con = "str"

\* Variant of NonZeroValues: the sign is not looked at.
NonZeroEither(isUnsigned) ==
    Constants(<<"1.try_into().unwrap()", "(-1).try_into().unwrap()">>)

\* An unsigned one, or one whose sign is not known.
NonZeroValues(isUnsigned) ==
    IF isUnsigned THEN <<Constant("1.try_into().unwrap()")>>
    ELSE Constants(<<"1.try_into().unwrap()", "(-1).try_into().unwrap()">>)

-----------------------------------------------------------------------------

\* EnumIndex::unit_variants: the unit variants by the name of an enum of the
\* same file.
RECURSIVE TypeReplacements(_, _, _)

\* Result<T, E>: values of T, the configured errors, and values of E if they
\* need no Default.
ResultReplacements(type, errors, enums) ==
    LET ok == IF type.args = <<>> THEN Wrap("Ok", Default)
              ELSE Wrap("Ok", TypeReplacements(type.args[1], errors, enums))
        err == IF Len(type.args) >= 2 /\ IsSimplyConstructible(type.args[2])
               THEN Wrap("Err", TypeReplacements(type.args[2], errors, enums)) ELSE <<>>
    IN  Unique(ok \o Wrap("Err", errors) \o err)

\* The same value borrowed and owned, and so on: each value in every wrapping.
EachIn(heads, values) ==
    [i \in 1 .. Len(values) * Len(heads) |->
        Term(heads[((i - 1) % Len(heads)) + 1], <<values[((i - 1) \div Len(heads)) + 1]>>)]

\* Leaked vectors, for slices.
SliceReplacements(element, errors, enums) ==
    <<Constant("Vec::leak(Vec::new())")>>
        \o Wrap("Vec::leak(vec![])", TypeReplacements(element, errors, enums))

ReferenceReplacements(type, errors, enums) ==
    LET target == type.args[1]
    IN  CASE type.con = "&" /\ target.con = "str" -> Constants(<<"\"\"", "\"xyzzy\"">>)
          [] target.con = "[]" -> SliceReplacements(target.args[1], errors, enums)
          [] OTHER -> Wrap("Box::leak(Box::new())", TypeReplacements(target, errors, enums))

\* Literals and named constants.
SimpleReplacements ==
    [bool     |-> Constants(<<"true", "false">>),
     String   |-> Constants(<<"String::new()", "\"xyzzy\".into()">>),
     str      |-> Constants(<<"\"\"", "\"xyzzy\"">>),
     char     |-> Constants(<<"'\\0'", "'x'">>),
     OsString |-> Constants(<<"OsString::new()", "OsString::from()">>),
     Duration |-> Constants(<<"Duration::ZERO", "Duration::from_secs(1)">>),
     Ordering |-> Constants(<<"Ordering::Less", "Ordering::Equal", "Ordering::Greater">>)]

\* Paths, by their last segment.
PathReplacements(type, errors, enums) ==
    LET head == type.con
        Inner(i) == TypeReplacements(type.args[i], errors, enums)
        arity == Len(type.args)
    IN  CASE head \in DOMAIN SimpleReplacements -> SimpleReplacements[head]
          [] head \in Paths -> <<Term("new", <<Constant(head)>>), Term("from", <<Constant(head)>>)>>
          [] head \in Unsigned -> Constants(<<"0", "1">>)
          [] head \in Signed -> Constants(<<"0", "1", "-1">>)
          [] head \in Floats -> Constants(<<"0.0", "1.0", "-1.0">>)
          [] head \in NonZeroUnsigned \cup NonZeroSigned -> NonZeroValues(head \in NonZeroUnsigned)
          [] Applied(type, "NonZero") -> NonZeroValues(type.args[1].con \in Unsigned)
          [] head = "Result" -> ResultReplacements(type, errors, enums)
          [] head = "HttpResponse" -> <<Constant("HttpResponse::Ok().finish()")>>
          [] Applied(type, "Option") -> <<Constant("None")>> \o Wrap("Some", Inner(1))
          [] Applied(type, "Vec") -> <<Constant("vec![]")>> \o Wrap("vec![]", Inner(1))
          [] Applied(type, "Cow") -> EachIn(<<"Cow::Borrowed", "Cow::Owned">>, Inner(1))
          [] head \in NoConstructor -> <<>>
          [] head = "Range" -> Default
          [] head \in KnownContainer /\ arity = 1 -> Wrap("new", Inner(1))
          [] head \in KnownCollection /\ arity = 1 ->
                <<Constant("new")>> \o Wrap("from_iter", Inner(1))
          [] head \in KnownMap /\ arity = 2 ->
                LET pairs == Product(<<Inner(1), Inner(2)>>)
                IN  <<Constant("new")>> \o [i \in DOMAIN pairs |-> Term("from_iter", pairs[i])]
          [] arity = 1 ->
                <<Constant("new")>> \o EachIn(<<"from_iter", "new", "from">>, Inner(1))
          [] head \in DOMAIN enums -> enums[head]
          [] OTHER -> Default

\* The values between parentheses.  Without a comma, one alone is no tuple.
Parenthesized(values) == IF Len(values) = 1 THEN values[1] ELSE Term("tuple", values)

TypeReplacements(type, errors, enums) ==
    LET Inner(i) == TypeReplacements(type.args[i], errors, enums)
    IN  CASE type.con \in {"&", "&mut"} -> ReferenceReplacements(type, errors, enums)
          [] type.con = "[]" -> SliceReplacements(type.args[1], errors, enums)
          [] type.con = "[;]" -> Wrap("[;]", Inner(1))
          [] type.con = "tuple" ->
                LET rows == Product([i \in DOMAIN type.args |-> Inner(i)])
                IN  [i \in DOMAIN rows |-> Parenthesized(rows[i])]
          [] type.con = "impl Iterator" -> <<Constant("empty()")>> \o Wrap("once", Inner(1))
          [] type.con \in {"impl", "dyn", "!"} -> <<>>
          [] OTHER -> PathReplacements(type, errors, enums)

ReturnTypeReplacements(type, none, errors, enums) ==
    IF type = none THEN <<Parenthesized(<<>>)>> ELSE TypeReplacements(type, errors, enums)

-----------------------------------------------------------------------------
(* A reference: which of these values the compiler would give which type *)

\* Types for which the code takes values of another type: what str and slices are
\* replaced by is a reference to them, which fits behind & and in Cow (and for a
\* slice behind &mut), but not in Box, Arc, Rc or &mut str; any other Cow is given
\* the owned value as if it were borrowed; and `(a)` is not the tuple `(a,)`.
IsMisfit(type) ==
    LET Holds(con) == \E i \in DOMAIN type.args : type.args[i].con = con
    IN  \/ type.con \notin {"&", "Cow"} /\ Holds("str")
        \/ type.con \notin {"&", "&mut", "Cow"} /\ Holds("[]")
        \/ type.con = "Cow" /\ ~Holds("str") /\ ~Holds("[]")
        \/ type.con = "tuple" /\ Len(type.args) = 1

RECURSIVE HasMisfitWithin(_)
HasMisfitWithin(type) == IsMisfit(type) \/ \E i \in DOMAIN type.args : HasMisfitWithin(type.args[i])

\* Nor can str or a slice be returned as such.
HasMisfit(type) == type.con \in {"str", "[]"} \/ HasMisfitWithin(type)

LiteralTypes ==
    [x \in {"true", "false"} |-> {"bool"}] @@ [x \in {"0", "1"} |-> Unsigned \cup Signed]
      @@ [x \in {"-1"} |-> Signed] @@ [x \in {"0.0", "1.0", "-1.0"} |-> Floats]
      @@ [x \in {"'\\0'", "'x'"} |-> {"char"}]
      @@ [x \in {"String::new()", "\"xyzzy\".into()"} |-> {"String"}]

StrLiterals == {"\"\"", "\"xyzzy\""}
SliceLiterals == {"Vec::leak(Vec::new())", "Vec::leak(vec![])"}

\* A constructor holds values of the types that its own type holds, in order;
\* a fixed value is a number only if the type's sign allows it.
RECURSIVE HasType(_, _, _)
HasType(value, type, errors) ==
    LET Holds(i, j) == HasType(value.args[i], type.args[j], errors)
        RefersTo(con) == type.con \in {"&", "&mut"} /\ type.args[1].con = con
        HoldsEach == Len(value.args) = Len(type.args) /\ \A i \in DOMAIN type.args : Holds(i, i)
    IN  CASE value.con \in DOMAIN LiteralTypes -> type.con \in LiteralTypes[value.con]
          [] value.con \in StrLiterals -> type.con = "&" /\ RefersTo("str")
          [] value.con \in SliceLiterals ->
                RefersTo("[]") /\ \A i \in DOMAIN value.args :
                                     HasType(value.args[i], type.args[1].args[1], errors)
          [] value.con = "(-1).try_into().unwrap()" ->
                /\ type.con \notin NonZeroUnsigned
                /\ Applied(type, "NonZero") => type.args[1].con \notin Unsigned
          [] value.con = "Ok" -> type.args = <<>> \/ Holds(1, 1)
          [] value.con = "Err" -> value.args[1] \in errors \/ Holds(1, 2)
          [] value.con \in {"Some", "vec![]", "[;]", "once", "Box::leak(Box::new())"} /\ value.args # <<>> ->
                Holds(1, 1)
          [] value.con \in {"Cow::Borrowed", "Cow::Owned"} ->
                HasType(value.args[1], Term("&", type.args), errors)
          [] value.con = "tuple" -> type.con = "tuple" /\ HoldsEach
          [] value.con = "from_iter" /\ Len(value.args) = 2 -> HoldsEach
          [] value.con \in {"new", "from", "from_iter"} /\ value.args # <<>> /\ type.args # <<>> -> Holds(1, 1)
          [] OTHER -> value.args = <<>> \/ type.con \in Paths

=============================================================================

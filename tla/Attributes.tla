----------------------------- MODULE Attributes -----------------------------
(***************************************************************************)
(* How the visitor reads attributes (src/visit.rs): what excludes a node   *)
(* from mutation and which exclude_re patterns it carries.                 *)
(*                                                                         *)
(* An attribute is its path and the metas in its parentheses.  A meta is a *)
(* word such as `test`, one with arguments or a value of its own ("list",  *)
(* as in `any(..)` or `feature = ".."`), `mutants::skip` ("skip") or       *)
(* `mutants::exclude_re(..)`, which is named after its pattern.            *)
(***************************************************************************)
EXTENDS Sequences, Naturals, FiniteSets

CONSTANTS Patterns,      \* regular expressions given to exclude_re
          BadPatterns    \* those that RegexSet::new rejects

Malformed == "malformed"  \* exclude_re with other than one string literal

Words == {"word", "test", "skip"}

ASSUME PatternsAssumption ==
    BadPatterns \subseteq Patterns /\ Patterns \cap (Words \cup {Malformed}) = {}

ItemsOf(s) == {s[i] : i \in DOMAIN s}

\* parse_nested_meta gives up at the first meta that its callback leaves with
\* unread tokens; consumed are the metas that the callback reads to the end.
Reached(args, consumed) ==
    LET unread == {i \in DOMAIN args : args[i] \notin consumed}
    IN  IF unread = {} THEN args
        ELSE SubSeq(args, 1, (CHOOSE i \in unread : \A j \in unread : i <= j) - 1)

ReadsExcludes == Words \cup Patterns

-----------------------------------------------------------------------------

\* A list whose parse fails excludes nothing, whatever it has matched so far.
ParsedAndHas(attr, meta) ==
    Reached(attr.args, Words) = attr.args /\ meta \in ItemsOf(attr.args)

AttrIsCfgTest(attr) == attr.path = "cfg" /\ ParsedAndHas(attr, "test")

AttrIsTest(attr) == attr.path = "test"

AttrIsMutantsSkip(attr) ==
    \/ attr.path = "mutants::skip"
    \/ attr.path = "cfg_attr" /\ ParsedAndHas(attr, "skip")

AttrsExcluded(attrs) ==
    \E i \in DOMAIN attrs :
        AttrIsCfgTest(attrs[i]) \/ AttrIsTest(attrs[i]) \/ AttrIsMutantsSkip(attrs[i])

\* The patterns of one attribute, those of a cfg_attr as far as it is read.
PatternsOf(attr) ==
    CASE attr.path = "mutants::exclude_re" -> ItemsOf(attr.args)
      [] attr.path = "cfg_attr" -> ItemsOf(Reached(attr.args, ReadsExcludes)) \ Words
      [] OTHER -> {}

\* collect_exclude_re_from_cfg_attr records a malformed exclude_re where the
\* reading stops.
IsMalformed(attr) ==
    LET read == IF attr.path = "cfg_attr" THEN Len(Reached(attr.args, ReadsExcludes)) ELSE 0
    IN  /\ attr.path \in {"mutants::exclude_re", "cfg_attr"}
        /\ read < Len(attr.args)
        /\ attr.args[read + 1] = Malformed

AttrsExcludeRePatterns(attrs) ==
    (UNION {PatternsOf(attrs[i]) : i \in DOMAIN attrs}) \ {Malformed}

\* Variant of ScopeFails: what RegexSet::new answers is not looked at.
ScopeFailsToParse(attrs) == \E i \in DOMAIN attrs : IsMalformed(attrs[i])

\* What push_exclude_re makes of the attributes of a scope.
ScopeFails(attrs) ==
    \/ \E i \in DOMAIN attrs : IsMalformed(attrs[i])
    \/ AttrsExcludeRePatterns(attrs) \cap BadPatterns # {}

ScopePushes(attrs) == AttrsExcludeRePatterns(attrs) # {}

=============================================================================

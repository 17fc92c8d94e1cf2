---------------------------- MODULE VisitorProofs ----------------------------
(***************************************************************************)
(* Proofs about the visitor, for every set of syntax trees: its stacks are *)
(* the path to the node it visits, and so what it does there follows from  *)
(* the tree alone.  The mutants found so far are then those that the tree  *)
(* says are due at the nodes visited so far, each once, and the theorems   *)
(* about the mutants of a whole tree follow from that.                     *)
(***************************************************************************)
EXTENDS VisitorProperties, FiniteSetTheorems, TLAPS

-----------------------------------------------------------------------------
(* Numbers in order *)

\* A set of natural numbers that is not empty has a least one.
LEMMA Least ==
    ASSUME NEW T \in SUBSET Nat, T # {}
    PROVE  \E x \in T : \A y \in T : x <= y
<1> DEFINE R == OpToRel(<, Nat)
<1>1. IsWellFoundedOn(R, Nat)
  BY NatLessThanWellFounded
<1>2. T \subseteq Nat
  OBVIOUS
<1>3. \A i, j \in Nat : i < j => <<i, j>> \in R
  BY DEF OpToRel
<1> HIDE DEF R
<1>4. PICK x \in T : \A y \in T : ~(<<y, x>> \in R)
  BY <1>1, <1>2, WFMin, T # {}
<1>5. ASSUME NEW y \in T PROVE x <= y
  <2>1. x \in Nat /\ y \in Nat
    BY <1>2
  <2>2. ~(y < x)
    BY <1>3, <1>4, <2>1
  <2> QED BY <2>1, <2>2
<1> QED BY <1>5

\* InOrder lists a finite set, and lists it in order.
LEMMA InOrderIs ==
    ASSUME NEW S \in SUBSET Nat, IsFiniteSet(S)
    PROVE  /\ InOrder(S) \in Seq(S) /\ Len(InOrder(S)) = Cardinality(S)
           /\ Follows(InOrder(S), S)
<1> DEFINE upTo(n) == {m \in S : m <= n}
           rankOf(n) == Cardinality(upTo(n))
           rank == [n \in S |-> rankOf(n)]
           N == Cardinality(S)
<1>1. N \in Nat
  BY FS_CardinalityType
<1>2. \A n \in S : IsFiniteSet(upTo(n)) /\ Cardinality(upTo(n)) \in 1 .. N
  <2> SUFFICES ASSUME NEW n \in S
               PROVE  IsFiniteSet(upTo(n)) /\ Cardinality(upTo(n)) \in 1 .. N
    OBVIOUS
  <2>1. upTo(n) \in SUBSET S /\ n \in upTo(n)
    OBVIOUS
  <2> HIDE DEF upTo
  <2>2. IsFiniteSet(upTo(n)) /\ Cardinality(upTo(n)) <= N
    BY <2>1, FS_Subset
  <2>3. Cardinality(upTo(n)) \in Nat /\ Cardinality(upTo(n)) # 0
    BY <2>1, <2>2, FS_CardinalityType, FS_EmptySet
  <2> QED BY <1>1, <2>2, <2>3
<1>3. \A n, k \in S : n < k => rank[n] < rank[k]
  <2> SUFFICES ASSUME NEW n \in S, NEW k \in S, n < k
               PROVE  Cardinality(upTo(n)) < Cardinality(upTo(k))
    BY DEF rank
  <2>1. n \in Nat /\ k \in Nat /\ \A m \in S : m \in Nat
    OBVIOUS
  <2>2. \A m \in S : m <= n => m <= k
    BY <2>1
  <2>3. ~(k <= n) /\ k <= k
    BY <2>1
  <2>4. upTo(n) \in SUBSET upTo(k) /\ k \in upTo(k) /\ k \notin upTo(n)
    BY ONLY <2>2, <2>3, k \in S DEF upTo
  <2>5. /\ IsFiniteSet(upTo(k)) /\ Cardinality(upTo(k)) \in Int
        /\ Cardinality(upTo(n)) \in Int
    BY <1>2
  <2> HIDE DEF upTo
  <2> QED BY <2>4, <2>5, FS_Subset
<1>4. rank \in [S -> 1 .. N] /\ \A n \in S : rankOf(n) = rank[n]
  BY <1>2
<1> HIDE DEF rank
<1>5. \A n, k \in S : rank[n] = rank[k] => n = k
  <2> SUFFICES ASSUME NEW n \in S, NEW k \in S, rank[n] = rank[k], n # k PROVE FALSE
    OBVIOUS
  <2>1. n \in Nat /\ k \in Nat /\ rank[n] \in 1 .. N
    BY <1>4
  <2> QED BY <1>3, <2>1
<1>6. \A i \in 1 .. N : \E n \in S : rank[n] = i
  <2>1. rank \in Injection(S, 1 .. N)
    BY <1>4, <1>5 DEF Injection, IsInjective
  <2>2. IsFiniteSet(1 .. N) /\ Cardinality(1 .. N) = N
    BY <1>1, FS_Interval
  <2>3. rank \in Surjection(S, 1 .. N)
    BY <2>1, <2>2, FS_Injection
  <2> QED BY <2>3 DEF Surjection
<1> DEFINE s == InOrder(S)
<1>7. s = [i \in 1 .. N |-> CHOOSE n \in S : rankOf(n) = i]
  BY DEF InOrder
<1> HIDE DEF s, rankOf, upTo
<1>8. \A i \in 1 .. N : s[i] \in S /\ rank[s[i]] = i
  <2> SUFFICES ASSUME NEW i \in 1 .. N PROVE s[i] \in S /\ rank[s[i]] = i
    OBVIOUS
  <2>1. \E n \in S : rankOf(n) = i
    BY <1>4, <1>6
  <2>2. s[i] \in S /\ rankOf(s[i]) = i
    BY <1>7, <2>1
  <2> QED BY <1>4, <2>2
<1>9. s \in Seq(S) /\ Len(s) = N /\ DOMAIN s = 1 .. N
  BY <1>1, <1>7, <1>8
<1>10. ItemsOf(s) = S
  <2>1. \A n \in S : rank[n] \in 1 .. N /\ s[rank[n]] = n
    BY <1>4, <1>5, <1>8
  <2> QED BY <1>8, <1>9, <2>1 DEF ItemsOf
<1>11. Increasing(s)
  <2> SUFFICES ASSUME NEW i \in 1 .. N, NEW j \in 1 .. N, i < j PROVE s[i] < s[j]
    BY <1>9 DEF Increasing
  <2>1. s[i] \in S /\ s[j] \in S /\ rank[s[i]] = i /\ rank[s[j]] = j
    BY <1>8
  <2>2. i \in Int /\ j \in Int /\ ~(j < i)
    BY <1>1
  <2>3. ~(s[j] < s[i]) /\ s[i] # s[j]
    BY <1>3, <2>1, <2>2
  <2>4. s[i] \in Nat /\ s[j] \in Nat
    BY <2>1
  <2> QED BY <2>4, <2>3
<1> QED BY <1>9, <1>10, <1>11 DEF s, Follows

-----------------------------------------------------------------------------
(* The tree *)

\* What every syntax tree is, for the tree of this walk.
LEMMA TreeIs ==
    ASSUME ast \in Asts
    PROVE  /\ IsTree(ast)
           /\ Len(ast) \in Nat /\ Nodes = 1 .. Len(ast)
           /\ \A n \in Nodes : /\ ast[n].up \in 0 .. n - 1
                               /\ \A m \in ast[n].up + 1 .. n - 1 : ast[m].up >= ast[n].up
BY VisitorAssumption DEF IsTree, Nodes

\* What every syntax tree has where, for the tree of this walk.
LEMMA SyntaxIs ==
    ASSUME ast \in Asts, NEW n \in Nodes
    PROVE  /\ Kind(n) \in {"if", "while"} => HasChild(n, "cond")
           /\ Kind(n) = "if" => HasChild(n, "then")
           /\ Kind(n) = "fn" => /\ ast[n].role \in {"", "stmt"}
                                /\ Flag(n, "required") \/ HasChild(n, "body")
           /\ Kind(n) = "arm" => ast[n].up # 0 /\ Kind(ast[n].up) = "match"
           /\ Kind(n) = "unary" => ast[n].name \in {"!", "-", "*"}
           /\ ast[n].role = "body" => Kind(n) = "block"
           /\ ast[n].role = "guard" => ast[n].up # 0 /\ Kind(ast[n].up) = "arm"
           /\ ast[n].role \in Single =>
                 /\ ast[n].up # 0
                 /\ \A m \in Nodes : ast[m].up = ast[n].up /\ ast[m].role = ast[n].role => m = n
           /\ Flag(n, "wild") => Kind(n) = "arm"
<1>1. IsSyntax(ast)
  BY VisitorAssumption
<1>2. \A role : HasChild(n, role) <=> \E c \in DOMAIN ast : ast[c].up = n /\ ast[c].role = role
  BY DEF HasChild, Children, Nodes
<1> QED BY <1>1, <1>2 DEF IsSyntax, Nodes, Kind, Flag

\* What is below a node comes right after it, and then something that is not.
LEMMA AfterIs ==
    ASSUME ast \in Asts, NEW n \in Nodes
    PROVE  /\ After(n) \in n + 1 .. Len(ast) + 1
           /\ After(n) \in Nodes => ast[After(n)].up < n
           /\ \A k \in n + 1 .. After(n) - 1 : ast[k].up >= n
<1>1. Len(ast) \in Nat /\ Nodes = 1 .. Len(ast) /\ n \in Nat
  BY TreeIs
<1>2. \A k \in Nodes : ast[k].up \in Nat
  BY TreeIs
<1> DEFINE T == {m \in n + 1 .. Len(ast) + 1 : m \in Nodes => ast[m].up < n}
<1>3. T \in SUBSET Nat /\ Len(ast) + 1 \in T
  BY <1>1
<1>4. PICK m \in T : \A k \in T : m <= k
  <2> HIDE DEF T
  <2> QED BY <1>3, Least
<1>5. \A k \in n + 1 .. m - 1 : ast[k].up >= n
  <2> SUFFICES ASSUME NEW k \in n + 1 .. m - 1 PROVE ast[k].up >= n
    OBVIOUS
  <2>1. m \in n + 1 .. Len(ast) + 1
    BY <1>4
  <2>2. k \in n + 1 .. Len(ast) + 1 /\ k \in Nodes /\ ~(m <= k)
    BY <1>1, <2>1
  <2>3. ~(ast[k].up < n)
    BY <1>4, <2>2
  <2> QED BY <1>1, <1>2, <2>2, <2>3
<1>6. m \in n + 1 .. Len(ast) + 1 /\ (m \in Nodes => ast[m].up < n)
  BY <1>4
<1> QED BY <1>5, <1>6 DEF After

\* What is below a node has it among the nodes above.
LEMMA BelowIs ==
    ASSUME ast \in Asts, NEW m \in Nodes, NEW n \in Nodes
    PROVE  n \in Below(m) <=> m < n /\ \A k \in m + 1 .. n : ast[k].up >= m
<1>1. Len(ast) \in Nat /\ Nodes = 1 .. Len(ast) /\ n \in Nat /\ m \in Nat
  BY TreeIs
<1>2. \A k \in Nodes : ast[k].up \in Nat
  BY TreeIs
<1> DEFINE next == After(m)
<1>3. next \in m + 1 .. Len(ast) + 1 /\ (next \in Nodes => ast[next].up < m)
      /\ \A k \in m + 1 .. next - 1 : ast[k].up >= m
  BY AfterIs
<1>4. Below(m) = m + 1 .. next - 1
  BY DEF Below
<1> HIDE DEF next
<1>5. ASSUME n \in Below(m) PROVE m < n /\ \A k \in m + 1 .. n : ast[k].up >= m
  BY <1>1, <1>3, <1>4, <1>5
<1>6. ASSUME m < n, \A k \in m + 1 .. n : ast[k].up >= m, n \notin Below(m) PROVE FALSE
  <2>1. next \in m + 1 .. n
    BY <1>1, <1>3, <1>4, <1>6
  <2>2. next \in Nodes /\ ast[next].up < m /\ ast[next].up >= m
    BY <1>1, <1>3, <1>6, <2>1
  <2> QED BY <1>1, <1>2, <2>2
<1> QED BY <1>5, <1>6

\* The nodes above a node are the one it is in and those above that.
LEMMA AboveIs ==
    ASSUME ast \in Asts, NEW n \in Nodes
    PROVE  /\ Above(n) \subseteq Nodes
           /\ \A m \in Above(n) : m < n
           /\ ast[n].up = 0 => Above(n) = {}
           /\ ast[n].up # 0 => /\ ast[n].up \in Nodes
                               /\ Above(n) = Above(ast[n].up) \cup {ast[n].up}
<1>1. Len(ast) \in Nat /\ Nodes = 1 .. Len(ast) /\ n \in Nat
  BY TreeIs
<1>2. \A k \in Nodes : ast[k].up \in 0 .. k - 1
  BY TreeIs
<1> DEFINE u == ast[n].up
<1>3. u \in 0 .. n - 1 /\ \A k \in u + 1 .. n - 1 : ast[k].up >= u
  BY TreeIs
<1>4. \A m \in Nodes : m \in Above(n) <=> m < n /\ \A k \in m + 1 .. n : ast[k].up >= m
  BY <1>1, BelowIs DEF Above
<1>5. Above(n) \subseteq Nodes /\ \A m \in Above(n) : m < n
  BY <1>1 DEF Above
<1>6. ASSUME u = 0 PROVE Above(n) = {}
  <2> SUFFICES ASSUME NEW m \in Above(n) PROVE FALSE
    OBVIOUS
  <2>1. m \in Nodes /\ m < n
    BY <1>5
  <2>2. n \in m + 1 .. n /\ u >= m
    BY <1>1, <1>4, <2>1
  <2> QED BY <1>1, <1>6, <2>1, <2>2
<1>7. ASSUME u # 0 PROVE u \in Nodes /\ Above(n) = Above(u) \cup {u}
  <2>1. u \in Nodes
    BY <1>1, <1>3, <1>7
  <2>2. \A m \in Nodes : m \in Above(u) <=> m < u /\ \A k \in m + 1 .. u : ast[k].up >= m
    BY <1>1, <2>1, BelowIs DEF Above
  <2>3. Above(u) \subseteq Nodes
    BY <1>1, <2>1 DEF Above
  <2>4. ASSUME NEW m \in Nodes, m \in Above(n), m # u PROVE m \in Above(u)
    <3>1. u >= m /\ u < n /\ u \in Nat /\ m \in Nat
      BY <1>1, <1>3, <1>4, <2>4
    <3>2. m < u /\ \A k \in m + 1 .. u : k \in m + 1 .. n
      BY <1>1, <2>4, <3>1
    <3> QED BY <1>4, <2>2, <2>4, <3>2
  <2>5. ASSUME NEW m \in Nodes, m \in Above(u) PROVE m \in Above(n)
    <3>1. m < u /\ u < n /\ u \in Nat /\ m \in Nat /\ \A k \in m + 1 .. u : ast[k].up >= m
      BY <1>1, <1>3, <2>2, <2>5
    <3>2. ASSUME NEW k \in m + 1 .. n PROVE ast[k].up >= m
      <4>1. k \in Nodes /\ ast[k].up \in Nat
        BY <1>1, <1>2, <3>1
      <4>2. CASE k <= u
        BY <1>1, <3>1, <4>2
      <4>3. CASE k > u /\ k < n
        BY <1>1, <1>3, <3>1, <4>1, <4>3
      <4>4. CASE k = n
        BY <1>1, <3>1, <4>4
      <4> QED BY <1>1, <3>1, <4>2, <4>3, <4>4
    <3> QED BY <1>1, <1>4, <3>1, <3>2
  <2>6. u \in Above(n)
    <3>1. \A k \in u + 1 .. n : ast[k].up >= u
      BY <1>1, <1>3
    <3> QED BY <1>1, <1>3, <1>4, <2>1, <3>1
  <2> QED BY <1>5, <2>1, <2>3, <2>4, <2>5, <2>6
<1> QED BY <1>5, <1>6, <1>7

\* What is above something that is above a node is above the node.
LEMMA AboveInAbove ==
    ASSUME ast \in Asts, NEW l \in Nodes, NEW c \in Above(l)
    PROVE  c \in Nodes /\ Above(c) \subseteq Above(l) /\ l \in Below(c)
<1>1. Nodes = 1 .. Len(ast) /\ Len(ast) \in Nat /\ Above(l) \subseteq Nodes
  BY TreeIs, AboveIs
<1>2. c \in Nodes /\ c \in Nat /\ l \in Nat
  BY <1>1
<1>3. l \in Below(c)
  BY DEF Above
<1>4. c < l /\ \A k \in c + 1 .. l : ast[k].up >= c
  BY <1>2, <1>3, BelowIs
<1>5. ASSUME NEW m \in Above(c) PROVE m \in Above(l)
  <2>1. m \in Nodes /\ m \in Nat /\ m < c /\ c \in Below(m)
    BY <1>1, <1>2, AboveIs DEF Above
  <2>2. \A k \in m + 1 .. c : ast[k].up >= m
    BY <1>2, <2>1, BelowIs
  <2>3. ASSUME NEW k \in m + 1 .. l PROVE ast[k].up >= m
    <3>1. k \in Nodes /\ ast[k].up \in Int
      <4>1. k \in Nodes
        BY <1>1, <2>1
      <4> QED BY <4>1, TreeIs
    <3>2. CASE k <= c
      <4>1. k \in m + 1 .. c
        BY <1>2, <2>1, <3>2
      <4> QED BY <2>2, <4>1
    <3>3. CASE k > c
      <4>1. k \in c + 1 .. l /\ ast[k].up >= c
        BY <1>2, <1>4, <2>1, <3>3
      <4> QED BY <1>2, <2>1, <3>1, <4>1
    <3> QED BY <1>2, <2>1, <3>2, <3>3
  <2>4. l \in Below(m)
    <3>1. m < l
      BY <1>2, <1>4, <2>1
    <3> QED BY <2>1, <2>3, <3>1, BelowIs
  <2>5. m \in 1 .. l - 1
    BY <1>1, <1>2, <1>4, <2>1
  <2> QED BY <2>4, <2>5 DEF Above
<1> QED BY <1>2, <1>3, <1>5

-----------------------------------------------------------------------------
(* Stacks *)

\* A stack that follows a set of nodes, spelled out.
LEMMA FollowsIs ==
    ASSUME NEW S \in SUBSET Nat, NEW s \in Seq(Nat), Follows(s, S)
    PROVE  /\ Len(s) \in Nat /\ DOMAIN s = 1 .. Len(s)
           /\ \A i \in 1 .. Len(s) : s[i] \in S /\ s[i] \in Nat
           /\ \A m \in S : \E i \in 1 .. Len(s) : s[i] = m
           /\ \A i, j \in 1 .. Len(s) : i < j => s[i] < s[j]
           /\ s = <<>> <=> S = {}
           /\ Len(s) = 0 <=> S = {}
<1>1. Len(s) \in Nat /\ DOMAIN s = 1 .. Len(s) /\ \A i \in 1 .. Len(s) : s[i] \in Nat
  OBVIOUS
<1>2. /\ \A i \in 1 .. Len(s) : s[i] \in S
      /\ \A m \in S : \E i \in 1 .. Len(s) : s[i] = m
  BY <1>1 DEF Follows, ItemsOf
<1>3. \A i, j \in 1 .. Len(s) : i < j => s[i] < s[j]
  BY <1>1 DEF Follows, Increasing
<1>4. Len(s) = 0 <=> S = {}
  BY <1>1, <1>2
<1>5. s = <<>> <=> Len(s) = 0
  OBVIOUS
<1> QED BY <1>1, <1>2, <1>3, <1>4, <1>5

\* The empty stack follows the empty set.
LEMMA FollowsEmpty == Follows(<<>>, {}) /\ <<>> \in Seq(Nat)
BY DEF Follows, Increasing, ItemsOf

\* A push of what comes after everything on the stack.
LEMMA FollowsPush ==
    ASSUME NEW S \in SUBSET Nat, NEW s \in Seq(Nat), Follows(s, S),
           NEW n \in Nat, \A m \in S : m < n
    PROVE  Append(s, n) \in Seq(Nat) /\ Follows(Append(s, n), S \cup {n})
<1> DEFINE t == Append(s, n)
<1>1. /\ Len(s) \in Nat
      /\ \A i \in 1 .. Len(s) : s[i] \in S /\ s[i] \in Nat
      /\ \A m \in S : \E i \in 1 .. Len(s) : s[i] = m
      /\ \A i, j \in 1 .. Len(s) : i < j => s[i] < s[j]
  BY FollowsIs
<1>2. /\ t \in Seq(Nat) /\ Len(t) = Len(s) + 1 /\ DOMAIN t = 1 .. Len(s) + 1
      /\ \A i \in 1 .. Len(s) : t[i] = s[i]
      /\ t[Len(s) + 1] = n
  OBVIOUS
<1> HIDE DEF t
<1>3. ItemsOf(t) = S \cup {n}
  <2>1. ASSUME NEW i \in DOMAIN t PROVE t[i] \in S \cup {n}
    <3>1. i \in 1 .. Len(s) \/ i = Len(s) + 1
      BY <1>1, <1>2
    <3> QED BY <1>1, <1>2, <3>1
  <2>2. ASSUME NEW m \in S PROVE \E i \in DOMAIN t : t[i] = m
    <3>1. PICK i \in 1 .. Len(s) : s[i] = m
      BY <1>1
    <3>2. i \in DOMAIN t /\ t[i] = m
      BY <1>1, <1>2, <3>1
    <3> QED BY <3>2
  <2>3. Len(s) + 1 \in DOMAIN t
    BY <1>1, <1>2
  <2> QED BY <1>2, <2>1, <2>2, <2>3 DEF ItemsOf
<1>4. Increasing(t)
  <2> SUFFICES ASSUME NEW i \in DOMAIN t, NEW j \in DOMAIN t, i < j PROVE t[i] < t[j]
    BY DEF Increasing
  <2>1. i \in 1 .. Len(s) /\ (j \in 1 .. Len(s) \/ j = Len(s) + 1)
    BY <1>1, <1>2
  <2> QED BY <1>1, <1>2, <2>1
<1> QED BY <1>2, <1>3, <1>4 DEF t, Follows

\* A pop takes off what comes last.
LEMMA FollowsPop ==
    ASSUME NEW S \in SUBSET Nat, NEW s \in Seq(Nat), Follows(s, S),
           NEW n \in S, \A m \in S : m <= n
    PROVE  /\ s # <<>> /\ Top(s) = n
           /\ Pop(s) \in Seq(Nat) /\ Follows(Pop(s), S \ {n})
<1>1. /\ Len(s) \in Nat /\ DOMAIN s = 1 .. Len(s)
      /\ \A i \in 1 .. Len(s) : s[i] \in S /\ s[i] \in Nat
      /\ \A m \in S : \E i \in 1 .. Len(s) : s[i] = m
      /\ \A i, j \in 1 .. Len(s) : i < j => s[i] < s[j]
  BY FollowsIs
<1>2. PICK k \in 1 .. Len(s) : s[k] = n
  BY <1>1
<1>3. k = Len(s)
  <2>1. ASSUME k # Len(s) PROVE FALSE
    <3>0. Len(s) \in Nat /\ k \in 1 .. Len(s)
      BY <1>1, <1>2
    <3>1. Len(s) \in 1 .. Len(s) /\ k < Len(s)
      BY ONLY <2>1, <3>0
    <3>2. n < s[Len(s)] /\ s[Len(s)] \in S /\ s[Len(s)] \in Nat /\ n \in Nat
      BY <1>1, <1>2, <3>1
    <3> QED BY <3>2
  <2> QED BY <2>1
<1>4. s # <<>> /\ Top(s) = n /\ Len(s) >= 1
  BY <1>1, <1>2, <1>3 DEF Top
<1> DEFINE t == Pop(s)
<1>5. /\ t \in Seq(Nat) /\ DOMAIN t = 1 .. Len(s) - 1
      /\ \A i \in 1 .. Len(s) - 1 : t[i] = s[i]
  BY <1>1, <1>4 DEF Pop
<1> HIDE DEF t
<1>6. ItemsOf(t) = S \ {n}
  <2>1. ASSUME NEW i \in DOMAIN t PROVE t[i] \in S \ {n}
    <3>1. i \in 1 .. Len(s) /\ i < Len(s) /\ Len(s) \in 1 .. Len(s)
      BY <1>1, <1>2, <1>3, <1>5
    <3>2. s[i] < n /\ s[i] \in S /\ s[i] \in Nat /\ n \in Nat
      BY <1>1, <1>2, <1>3, <3>1
    <3>3. t[i] = s[i]
      <4>1. i \in 1 .. Len(s) - 1
        BY <1>5
      <4> QED BY <1>5, <4>1
    <3>4. s[i] # n
      BY ONLY <3>2
    <3> QED BY <3>2, <3>3, <3>4
  <2>2. ASSUME NEW m \in S \ {n} PROVE \E i \in DOMAIN t : t[i] = m
    <3>1. PICK i \in 1 .. Len(s) : s[i] = m
      BY <1>1
    <3>2. i \in 1 .. Len(s) - 1
      BY <1>1, <1>2, <1>3, <3>1
    <3> QED BY <1>5, <3>1, <3>2
  <2> QED BY <2>1, <2>2 DEF ItemsOf
<1>7. Increasing(t)
  <2> SUFFICES ASSUME NEW i \in DOMAIN t, NEW j \in DOMAIN t, i < j PROVE t[i] < t[j]
    BY DEF Increasing
  <2>1. Len(s) \in Nat /\ i \in 1 .. Len(s) - 1 /\ j \in 1 .. Len(s) - 1
    BY <1>1, <1>5
  <2>2. i \in 1 .. Len(s) /\ j \in 1 .. Len(s)
    BY ONLY <2>1
  <2>3. t[i] = s[i] /\ t[j] = s[j]
    BY <1>5, <2>1
  <2> QED BY <1>1, <2>2, <2>3
<1> QED BY <1>4, <1>5, <1>6, <1>7 DEF t, Follows

\* Two increasing lists of the same items are the same.
LEMMA FollowsUnique ==
    ASSUME NEW S \in SUBSET Nat, NEW s \in Seq(Nat), NEW t \in Seq(Nat),
           Follows(s, S), Follows(t, S)
    PROVE  s = t
<1>1. /\ Len(s) \in Nat /\ DOMAIN s = 1 .. Len(s) /\ Len(t) \in Nat /\ DOMAIN t = 1 .. Len(t)
      /\ \A i \in 1 .. Len(s) : s[i] \in S /\ s[i] \in Nat
      /\ \A i \in 1 .. Len(t) : t[i] \in S /\ t[i] \in Nat
      /\ \A m \in S : \E i \in 1 .. Len(s) : s[i] = m
      /\ \A m \in S : \E i \in 1 .. Len(t) : t[i] = m
      /\ \A i, j \in 1 .. Len(s) : i < j => s[i] < s[j]
      /\ \A i, j \in 1 .. Len(t) : i < j => t[i] < t[j]
  BY FollowsIs
<1> DEFINE Apart == {i \in Nat \ {0} : ~(i \in 1 .. Len(s) /\ i \in 1 .. Len(t) /\ s[i] = t[i])
                                          /\ (i <= Len(s) \/ i <= Len(t))}
<1>2. ASSUME Apart # {} PROVE FALSE
  <2>1. PICK i \in Apart : \A j \in Apart : i <= j
    BY <1>2, Least
  <2>2. i \in Nat \ {0} /\ (i \in 1 .. Len(s) \/ i \in 1 .. Len(t))
    BY <1>1
  <2>3. \A j \in 1 .. i - 1 : j \in 1 .. Len(s) /\ j \in 1 .. Len(t) /\ s[j] = t[j]
    <3> SUFFICES ASSUME NEW j \in 1 .. i - 1
                 PROVE  j \in 1 .. Len(s) /\ j \in 1 .. Len(t) /\ s[j] = t[j]
      OBVIOUS
    <3>1. j \notin Apart
      BY <2>1, <2>2
    <3>2. j \in Nat \ {0} /\ (j <= Len(s) \/ j <= Len(t))
      BY <1>1, <2>2
    <3> QED BY <3>1, <3>2
  <2>4. ASSUME i \in 1 .. Len(s) PROVE i \in 1 .. Len(t) /\ t[i] <= s[i]
    <3>1. PICK k \in 1 .. Len(t) : t[k] = s[i]
      BY <1>1, <2>4
    <3>2. ~(k < i)
      <4>1. ASSUME k < i PROVE FALSE
        <5>1. k \in 1 .. i - 1
          BY <1>1, <2>2, <4>1
        <5>2. s[k] = s[i] /\ s[k] < s[i] /\ s[i] \in Nat
          BY <1>1, <2>3, <2>4, <3>1, <4>1, <5>1
        <5> QED BY <5>2
      <4> QED BY <4>1
    <3>3. i \in 1 .. Len(t) /\ (k = i \/ i < k)
      BY <1>1, <2>2, <3>1, <3>2
    <3>4. t[i] <= t[k] /\ t[i] \in Nat
      BY <1>1, <3>1, <3>3
    <3> QED BY <3>1, <3>3, <3>4
  <2>5. ASSUME i \in 1 .. Len(t) PROVE i \in 1 .. Len(s) /\ s[i] <= t[i]
    <3>1. PICK k \in 1 .. Len(s) : s[k] = t[i]
      BY <1>1, <2>5
    <3>2. ~(k < i)
      <4>1. ASSUME k < i PROVE FALSE
        <5>1. k \in 1 .. i - 1
          BY <1>1, <2>2, <4>1
        <5>2. t[k] = t[i] /\ t[k] < t[i] /\ t[i] \in Nat
          BY <1>1, <2>3, <2>5, <3>1, <4>1, <5>1
        <5> QED BY <5>2
      <4> QED BY <4>1
    <3>3. i \in 1 .. Len(s) /\ (k = i \/ i < k)
      BY <1>1, <2>2, <3>1, <3>2
    <3>4. s[i] <= s[k] /\ s[i] \in Nat
      BY <1>1, <3>1, <3>3
    <3> QED BY <3>1, <3>3, <3>4
  <2>6. i \in 1 .. Len(s) /\ i \in 1 .. Len(t) /\ s[i] <= t[i] /\ t[i] <= s[i]
    BY <2>2, <2>4, <2>5
  <2>7. s[i] = t[i]
    BY <1>1, <2>6
  <2> QED BY <2>1, <2>6, <2>7
<1>3. \A i \in Nat \ {0} : (i <= Len(s) \/ i <= Len(t))
                               => i \in 1 .. Len(s) /\ i \in 1 .. Len(t) /\ s[i] = t[i]
  BY <1>2
<1>4. Len(s) = Len(t)
  <2>1. ASSUME Len(t) # 0 PROVE Len(t) <= Len(s)
    <3>1. Len(t) \in Nat \ {0} /\ Len(t) <= Len(t)
      BY <1>1, <2>1
    <3>2. Len(t) \in 1 .. Len(s)
      BY <1>3, <3>1
    <3> QED BY <1>1, <3>2
  <2>2. ASSUME Len(s) # 0 PROVE Len(s) <= Len(t)
    <3>1. Len(s) \in Nat \ {0} /\ Len(s) <= Len(s)
      BY <1>1, <2>2
    <3>2. Len(s) \in 1 .. Len(t)
      BY <1>3, <3>1
    <3> QED BY <1>1, <3>2
  <2> HIDE DEF Apart
  <2>3. Len(s) \in Nat /\ Len(t) \in Nat
    BY <1>1
  <2> QED BY ONLY <2>1, <2>2, <2>3
<1>5. \A i \in 1 .. Len(s) : s[i] = t[i]
  <2> SUFFICES ASSUME NEW i \in 1 .. Len(s) PROVE s[i] = t[i]
    OBVIOUS
  <2>1. i \in Nat \ {0} /\ i <= Len(s)
    BY <1>1
  <2> QED BY <1>3, <2>1
<1> QED BY <1>1, <1>4, <1>5

-----------------------------------------------------------------------------
(* What every visit_* does to the stacks *)

Enters(n) ==
    /\ Proceeds(n) /\ Descend(n)
    /\ namespaces' = IF PushesNamespace(n) THEN Append(namespaces, n) ELSE namespaces
    /\ modNamespaces' = IF Kind(n) = "mod" THEN Append(modNamespaces, n) ELSE modNamespaces
    /\ fns' = IF Kind(n) = "fn" THEN Append(fns, n) ELSE fns
    /\ guards' = IF Kind(n) = "match" THEN guards \o GuardsOf(n) ELSE guards
    /\ excludes' = IF Kind(n) \in Scoped /\ ScopePushes(ast[n].attrs) THEN Append(excludes, n)
                   ELSE excludes
    /\ closureDepth' = IF Kind(n) = "closure" THEN closureDepth + 1 ELSE closureDepth
    /\ constEvalDepth' = IF EvaluatesConst(n) THEN constEvalDepth + 1 ELSE constEvalDepth
    /\ externalMods' = IF Kind(n) = "mod" /\ Flag(n, "external")
                       THEN Append(externalMods, modNamespaces') ELSE externalMods
    /\ UNCHANGED <<tree, error>>

Passes(n) ==
    /\ Ready(n) /\ (Rejects(n) \/ Fails(n) \/ Declines(n)) /\ Pass(n)
    /\ error' = IF Fails(n) /\ error = 0 THEN n ELSE error
    /\ UNCHANGED <<tree, stacks, memo, found>>

\* Every handler either returns early, or pushes what its kind of node pushes.
LEMMA VisitIs ==
    ASSUME NEW n \in Nodes, constEvalDepth \in Nat, externalMods \in Seq(Seq(Nat)), Visit(n)
    PROVE  Passes(n) \/ Enters(n)
<1>1. CASE Skip(n)
  BY <1>1 DEF Skip, Passes, Declines, Fails, found
<1>2. CASE Fail(n)
  BY <1>2 DEF Fail, Passes
<1> USE DEF Proceeds, Enters, EnterScope, Scope, Stay, tree, stacks, PushesNamespace,
            EvaluatesConst, Scoped, Handled, Skippable
<1>3. CASE VisitFile(n)
  BY <1>3 DEF VisitFile
<1>4. CASE VisitFn(n)
  <2>1. constEvalDepth' = IF Flag(n, "const") THEN constEvalDepth + 1 ELSE constEvalDepth
    BY <1>4 DEF VisitFn, ConstDepthIn
  <2> QED BY <1>4, <2>1 DEF VisitFn
<1>5. CASE VisitNamespace(n)
  BY <1>5 DEF VisitNamespace
<1>6. CASE VisitMod(n)
  <2>1. externalMods' = IF Flag(n, "external") THEN Append(externalMods, modNamespaces')
                        ELSE externalMods
    <3> DEFINE q == modNamespaces'
    <3>1. externalMods' = externalMods \o Maybe(Flag(n, "external"), <<q>>)
      BY <1>6 DEF VisitMod
    <3>2. externalMods \o <<q>> = Append(externalMods, q) /\ externalMods \o <<>> = externalMods
      <4> HIDE DEF q
      <4> QED OBVIOUS
    <3> QED BY <3>1, <3>2 DEF Maybe
  <2> QED BY <1>6, <2>1 DEF VisitMod
<1>7. CASE VisitConst(n)
  BY <1>7 DEF VisitConst
<1>8. CASE VisitCall(n)
  BY <1>8 DEF VisitCall
<1>9. CASE VisitBinary(n)
  BY <1>9 DEF VisitBinary
<1>10. CASE VisitUnary(n)
  BY <1>10 DEF VisitUnary
<1>11. CASE VisitIf(n)
  BY <1>11 DEF VisitIf
<1>12. CASE VisitWhile(n)
  BY <1>12 DEF VisitWhile
<1>13. CASE VisitMatch(n)
  BY <1>13 DEF VisitMatch
<1>14. CASE VisitLit(n)
  BY <1>14 DEF VisitLit
<1>15. CASE VisitStruct(n)
  BY <1>15 DEF VisitStruct
<1>16. CASE VisitBlock(n)
  BY <1>16 DEF VisitBlock
<1>17. CASE VisitClosure(n)
  BY <1>17 DEF VisitClosure
<1>18. CASE VisitReturn(n)
  BY <1>18 DEF VisitReturn
<1>19. CASE VisitOther(n)
  BY <1>19 DEF VisitOther
<1> QED BY <1>1, <1>2, <1>3, <1>4, <1>5, <1>6, <1>7, <1>8, <1>9, <1>10, <1>11, <1>12, <1>13,
           <1>14, <1>15, <1>16, <1>17, <1>18, <1>19 DEF Visit

-----------------------------------------------------------------------------
(* The nodes being visited are those above the next one *)

Enterable(n) == ~Rejects(n) /\ ~Fails(n) /\ ~Declines(n)

PathInv ==
    /\ ast \in Asts /\ filters \in NameFilters
    /\ at \in 1 .. Len(ast) + 1
    /\ open \in Seq(Nodes)
    /\ \A i \in DOMAIN open : open[i] < at
    /\ \A i \in DOMAIN open : Above(open[i]) = {open[j] : j \in 1 .. i - 1}
    /\ \A i \in DOMAIN open : Enterable(open[i])

\* What is open is a path in the tree, and lies before what is next.
LEMMA OpenIs ==
    ASSUME PathInv
    PROVE  /\ Len(ast) \in Nat /\ Nodes = 1 .. Len(ast) /\ at \in Nat
           /\ ItemsOf(open) \in SUBSET Nat /\ open \in Seq(Nat)
           /\ \A n \in ItemsOf(open) : n < at /\ n \in Nodes /\ Enterable(n)
           /\ Follows(open, ItemsOf(open))
           /\ open # <<>> => /\ Top(open) \in ItemsOf(open)
                             /\ \A n \in ItemsOf(open) : n <= Top(open)
                             /\ Path(Top(open)) = ItemsOf(open)
           /\ open = <<>> => ItemsOf(open) = {}
<1>1. Len(ast) \in Nat /\ Nodes = 1 .. Len(ast) /\ at \in Nat
  BY TreeIs DEF PathInv
<1>2. Len(open) \in Nat /\ DOMAIN open = 1 .. Len(open) /\ \A i \in 1 .. Len(open) : open[i] \in Nodes
  BY DEF PathInv
<1>3. \A n \in ItemsOf(open) : n < at /\ n \in Nodes /\ Enterable(n)
  BY <1>2 DEF PathInv, ItemsOf
<1>4. ItemsOf(open) \in SUBSET Nat /\ open \in Seq(Nat)
  BY <1>1, <1>2, <1>3 DEF PathInv
<1>5. Follows(open, ItemsOf(open))
  <2> SUFFICES ASSUME NEW i \in 1 .. Len(open), NEW j \in 1 .. Len(open), i < j
               PROVE  open[i] < open[j]
    BY <1>2 DEF Follows, Increasing
  <2>1. i \in 1 .. j - 1
    BY <1>2
  <2>2. open[i] \in Above(open[j])
    BY <1>2, <2>1 DEF PathInv
  <2> QED BY <1>1, <1>2, <2>2, AboveIs DEF PathInv
<1>6. ASSUME open # <<>>
      PROVE  /\ Top(open) \in ItemsOf(open)
             /\ \A n \in ItemsOf(open) : n <= Top(open)
             /\ Path(Top(open)) = ItemsOf(open)
  <2>1. Len(open) \in 1 .. Len(open)
    BY <1>2, <1>6
  <2>2. Top(open) = open[Len(open)] /\ Top(open) \in ItemsOf(open)
    BY <1>2, <2>1 DEF Top, ItemsOf
  <2>3. Path(Top(open)) = ItemsOf(open)
    <3>1. Above(Top(open)) = {open[j] : j \in 1 .. Len(open) - 1}
      BY <1>2, <2>1, <2>2 DEF PathInv
    <3>2. 1 .. Len(open) = (1 .. Len(open) - 1) \cup {Len(open)}
      BY <1>2, <2>1
    <3> QED BY <1>2, <2>2, <3>1, <3>2 DEF Path, ItemsOf
  <2>4. \A n \in ItemsOf(open) : n <= Top(open)
    <3>1. \A n \in Above(Top(open)) : n < Top(open)
      BY <1>3, <2>2, AboveIs DEF PathInv
    <3>2. Top(open) \in Nat
      BY <1>4, <2>2
    <3> QED BY <1>4, <2>3, <3>1, <3>2 DEF Path
  <2> QED BY <2>2, <2>3, <2>4
<1>7. ASSUME open = <<>> PROVE ItemsOf(open) = {}
  BY <1>7 DEF ItemsOf
<1> QED BY <1>1, <1>3, <1>4, <1>5, <1>6, <1>7

\* A node that is ready is next in what is open, and open is all that is above it.
LEMMA ReadyIs ==
    ASSUME PathInv, NEW n \in Nodes, Ready(n)
    PROVE  Above(n) = ItemsOf(open) /\ \A m \in ItemsOf(open) : m < n
<1>1. at = n /\ ast[n].up = IF open = <<>> THEN 0 ELSE Top(open)
  BY DEF Ready
<1>2. \A m \in ItemsOf(open) : m < n
  BY <1>1, OpenIs
<1>3. CASE open = <<>>
  BY <1>1, <1>3, OpenIs, AboveIs DEF PathInv
<1>4. CASE open # <<>>
  <2>1. Top(open) # 0 /\ ast[n].up = Top(open)
    BY <1>1, <1>4, OpenIs
  <2> QED BY <1>4, <2>1, OpenIs, AboveIs DEF PathInv, Path
<1> QED BY <1>2, <1>3, <1>4

\* Nothing is open.
LEMMA PathInit == Init => PathInv
<1> SUFFICES ASSUME Init PROVE PathInv
  OBVIOUS
<1>1. ast \in Asts /\ filters \in NameFilters /\ at = 1 /\ open = <<>>
  BY DEF Init
<1>2. Len(ast) \in Nat
  BY <1>1, TreeIs
<1> QED BY <1>1, <1>2 DEF PathInv

\* The tree stays as it is.
LEMMA TreeStays ==
    ASSUME ast' = ast, filters' = filters
    PROVE  /\ Nodes' = Nodes
           /\ \A n : Kind(n)' = Kind(n)
           /\ \A n, f : Flag(n, f)' = Flag(n, f)
           /\ \A n : After(n)' = After(n)
           /\ \A n : Above(n)' = Above(n)
           /\ \A n : Rejects(n)' = Rejects(n)
           /\ \A n : Fails(n)' = Fails(n)
           /\ \A n : Declines(n)' = Declines(n)
           /\ \A n : Enterable(n)' = Enterable(n)
           /\ \A n : GuardsOf(n)' = GuardsOf(n)
           /\ \A n : MatchAround(n)' = MatchAround(n)
           /\ \A n : PushesNamespace(n)' = PushesNamespace(n)
           /\ \A n : EvaluatesConst(n)' = EvaluatesConst(n)
<1> QED BY DEF Nodes, Kind, Flag, After, Above, Below, Rejects, Fails, Declines, Enterable,
               FnSigExcluded, IsConstructor, IsSkippedCall, GuardsOf, Arms, HasChild, Child,
               Children, MatchAround, PushesNamespace, EvaluatesConst

\* A node that is entered becomes the end of the path.
LEMMA EntersPath ==
    ASSUME PathInv, NEW n \in Nodes, Enters(n)
    PROVE  PathInv' /\ ItemsOf(open)' = ItemsOf(open) \cup {n}
<1>1. Ready(n) /\ Enterable(n) /\ at = n /\ at' = n + 1 /\ open' = Append(open, n)
      /\ ast' = ast /\ filters' = filters
  BY DEF Enters, Proceeds, Enterable, Descend, Ready, tree
<1>2. Len(ast) \in Nat /\ Nodes = 1 .. Len(ast) /\ n \in Nat
  BY OpenIs
<1>3. Above(n) = {open[j] : j \in 1 .. Len(open)} /\ Len(open) \in Nat
  <2>1. Above(n) = ItemsOf(open) /\ DOMAIN open = 1 .. Len(open) /\ Len(open) \in Nat
    BY <1>1, ReadyIs DEF PathInv
  <2> QED BY <2>1 DEF ItemsOf
<1> DEFINE t == Append(open, n)
<1>4. /\ t \in Seq(Nodes) /\ Len(t) = Len(open) + 1 /\ DOMAIN t = 1 .. Len(open) + 1
      /\ \A i \in 1 .. Len(open) : t[i] = open[i]
      /\ t[Len(open) + 1] = n
      /\ DOMAIN open = 1 .. Len(open)
  BY DEF PathInv
<1> HIDE DEF t
<1>5. \A i \in DOMAIN t : i \in 1 .. Len(open) \/ i = Len(open) + 1
  BY <1>3, <1>4
<1>6. \A i \in DOMAIN t : t[i] < n + 1 /\ Enterable(t[i])
  <2>1. \A i \in 1 .. Len(open) : open[i] \in ItemsOf(open)
    BY <1>4 DEF ItemsOf
  <2>2. \A i \in 1 .. Len(open) : open[i] < n /\ open[i] \in Nat /\ Enterable(open[i])
    BY <1>1, <2>1, OpenIs
  <2>3. n < n + 1 /\ \A i \in 1 .. Len(open) : open[i] < n + 1
    BY <1>2, <2>2
  <2> QED BY <1>1, <1>4, <1>5, <2>2, <2>3
<1>7. \A i \in DOMAIN t : Above(t[i]) = {t[j] : j \in 1 .. i - 1}
  <2> SUFFICES ASSUME NEW i \in DOMAIN t PROVE Above(t[i]) = {t[j] : j \in 1 .. i - 1}
    OBVIOUS
  <2>1. CASE i \in 1 .. Len(open)
    <3>1. \A j \in 1 .. i - 1 : j \in 1 .. Len(open)
      BY <1>3, <2>1
    <3>2. Above(open[i]) = {open[j] : j \in 1 .. i - 1}
      BY <1>4, <2>1 DEF PathInv
    <3> QED BY <1>4, <2>1, <3>1, <3>2
  <2>2. CASE i = Len(open) + 1
    <3>1. i - 1 = Len(open)
      BY <1>3, <2>2
    <3> QED BY <1>3, <1>4, <2>2, <3>1
  <2> QED BY <1>5, <2>1, <2>2
<1>8. ItemsOf(t) = ItemsOf(open) \cup {n}
  <2>1. DOMAIN t = DOMAIN open \cup {Len(open) + 1}
    BY <1>3, <1>4
  <2> QED BY <1>4, <2>1 DEF ItemsOf
<1>9. n + 1 \in 1 .. Len(ast) + 1
  BY <1>2
<1>10. open' = t
  BY <1>1 DEF t
<1> QED BY <1>1, <1>4, <1>6, <1>7, <1>8, <1>9, <1>10, TreeStays DEF PathInv, ItemsOf

\* A node that is passed over leaves the path as it is.
LEMMA PassesPath ==
    ASSUME PathInv, NEW n \in Nodes, Passes(n)
    PROVE  PathInv' /\ open' = open /\ at < at'
<1>1. Ready(n) /\ at = n /\ at' = After(n) /\ open' = open /\ ast' = ast /\ filters' = filters
  BY DEF Passes, Pass, Ready, tree
<1>2. Len(ast) \in Nat /\ Nodes = 1 .. Len(ast) /\ n \in Nat
  BY OpenIs
<1>3. After(n) \in n + 1 .. Len(ast) + 1
  BY AfterIs DEF PathInv
<1>4. After(n) \in 1 .. Len(ast) + 1 /\ n < After(n)
  BY <1>2, <1>3
<1>5. \A i \in DOMAIN open : open[i] < After(n)
  <2>1. \A i \in DOMAIN open : open[i] < n /\ open[i] \in Nat
    BY <1>1, <1>2 DEF PathInv
  <2> QED BY <1>2, <1>3, <1>4, <2>1
<1> QED BY <1>1, <1>4, <1>5, TreeStays DEF PathInv

\* A node that is left was the end of the path.
LEMMA LeavePath ==
    ASSUME PathInv, NEW n \in Nodes, Leave(n)
    PROVE  /\ PathInv' /\ ItemsOf(open)' = ItemsOf(open) \ {n}
           /\ n \in ItemsOf(open) /\ \A m \in ItemsOf(open) : m <= n
<1>1. open # <<>> /\ Top(open) = n /\ open' = Pop(open) /\ at' = at
      /\ ast' = ast /\ filters' = filters
  BY DEF Leave, Finished, tree
<1>2. /\ Follows(open, ItemsOf(open)) /\ ItemsOf(open) \in SUBSET Nat /\ open \in Seq(Nat)
      /\ n \in ItemsOf(open) /\ \A m \in ItemsOf(open) : m <= n
  BY <1>1, OpenIs
<1>3. ItemsOf(Pop(open)) = ItemsOf(open) \ {n}
  BY <1>2, FollowsPop DEF Follows
<1> DEFINE t == Pop(open)
<1>4. /\ t \in Seq(Nodes) /\ DOMAIN t = 1 .. Len(open) - 1
      /\ \A i \in 1 .. Len(open) - 1 : t[i] = open[i]
      /\ Len(open) \in Nat /\ DOMAIN open = 1 .. Len(open)
  BY <1>1 DEF PathInv, Pop
<1> HIDE DEF t
<1>5. \A i \in DOMAIN t : t[i] = open[i] /\ i \in DOMAIN open /\ \A j \in 1 .. i - 1 : t[j] = open[j]
  BY <1>4
<1>6. \A i \in DOMAIN t : Above(t[i]) = {t[j] : j \in 1 .. i - 1}
  BY <1>5 DEF PathInv
<1>7. open' = t
  BY <1>1 DEF t
<1>8. PathInv'
  BY <1>1, <1>4, <1>5, <1>6, <1>7, TreeStays DEF PathInv
<1>9. ItemsOf(open)' = ItemsOf(open) \ {n}
  BY <1>1, <1>3 DEF ItemsOf
<1> QED BY <1>2, <1>8, <1>9

-----------------------------------------------------------------------------
(* The stacks follow the path *)

\* A stack that a node may be pushed on follows a path with that node.
LEMMA StackPush ==
    ASSUME NEW now \in SUBSET Nat, NEW n \in Nat, \A m \in now : m < n,
           NEW T \in SUBSET now, NEW s \in Seq(Nat), Follows(s, T), NEW pushes \in BOOLEAN
    PROVE  /\ (IF pushes THEN Append(s, n) ELSE s) \in Seq(Nat)
           /\ Follows(IF pushes THEN Append(s, n) ELSE s, T \cup (IF pushes THEN {n} ELSE {}))
<1>1. CASE pushes
  <2>1. Append(s, n) \in Seq(Nat) /\ Follows(Append(s, n), T \cup {n})
    BY FollowsPush
  <2> QED BY <1>1, <2>1
<1>2. CASE ~pushes
  <2>1. T \cup {} = T
    OBVIOUS
  <2> QED BY <1>2, <2>1
<1> QED BY <1>1, <1>2

\* A stack that the end of the path may be on follows the path without it.
LEMMA StackPop ==
    ASSUME NEW now \in SUBSET Nat, NEW n \in now, \A m \in now : m <= n,
           NEW T \in SUBSET now, NEW s \in Seq(Nat), Follows(s, T)
    PROVE  PopIf(n \in T, s) \in Seq(Nat) /\ Follows(PopIf(n \in T, s), T \ {n})
<1>1. CASE n \in T
  BY <1>1, FollowsPop DEF PopIf
<1>2. CASE n \notin T
  <2>1. T \ {n} = T
    BY <1>2
  <2> QED BY <1>2, <2>1 DEF PopIf
<1> QED BY <1>1, <1>2

ScopesInv ==
    /\ ScopesFollowPath
    /\ namespaces \in Seq(Nat) /\ modNamespaces \in Seq(Nat)
    /\ fns \in Seq(Nat) /\ excludes \in Seq(Nat)

\* No scope is open.
LEMMA ScopesInit == Init => ScopesInv
<1> SUFFICES ASSUME Init PROVE ScopesInv
  OBVIOUS
<1>1. open = <<>> /\ namespaces = <<>> /\ modNamespaces = <<>> /\ fns = <<>> /\ excludes = <<>>
  BY DEF Init
<1>2. ItemsOf(open) = {} /\ Follows(open, {})
  BY <1>1, FollowsEmpty DEF Follows
<1>3. /\ {n \in {} : PushesNamespace(n)} = {} /\ OfKind({"mod"}, {}) = {}
      /\ OfKind({"fn"}, {}) = {} /\ {n \in OfKind(Scoped, {}) : ScopePushes(ast[n].attrs)} = {}
  BY DEF OfKind
<1> QED BY <1>1, <1>2, <1>3, FollowsEmpty DEF ScopesInv, ScopesFollowPath, Follows

\* Each handler pushes what its node is.
LEMMA ScopesEnters ==
    ASSUME PathInv, ScopesInv, NEW n \in Nodes, Enters(n)
    PROVE  ScopesInv'
<1>1. PathInv' /\ ItemsOf(open)' = ItemsOf(open) \cup {n} /\ ast' = ast /\ filters' = filters
  BY EntersPath DEF Enters, tree
<1>2. n \in Nat /\ ItemsOf(open) \in SUBSET Nat /\ \A m \in ItemsOf(open) : m < n
  BY OpenIs, ReadyIs DEF Enters, Proceeds
<1> DEFINE now == ItemsOf(open)
           N1 == {m \in now : PushesNamespace(m)}
           N2 == {m \in now \cup {n} : PushesNamespace(m)}
           M1 == OfKind({"mod"}, now)
           M2 == OfKind({"mod"}, now \cup {n})
           F1 == OfKind({"fn"}, now)
           F2 == OfKind({"fn"}, now \cup {n})
           E1 == {m \in OfKind(Scoped, now) : ScopePushes(ast[m].attrs)}
           E2 == {m \in OfKind(Scoped, now \cup {n}) : ScopePushes(ast[m].attrs)}
<1>3. /\ N1 \in SUBSET now /\ M1 \in SUBSET now /\ F1 \in SUBSET now /\ E1 \in SUBSET now
      /\ N2 = N1 \cup (IF PushesNamespace(n) THEN {n} ELSE {})
      /\ M2 = M1 \cup (IF Kind(n) = "mod" THEN {n} ELSE {})
      /\ F2 = F1 \cup (IF Kind(n) = "fn" THEN {n} ELSE {})
      /\ E2 = E1 \cup (IF Kind(n) \in Scoped /\ ScopePushes(ast[n].attrs) THEN {n} ELSE {})
  BY DEF OfKind
<1>4. /\ Follows(namespaces, N1) /\ namespaces \in Seq(Nat)
      /\ Follows(modNamespaces, M1) /\ modNamespaces \in Seq(Nat)
      /\ Follows(fns, F1) /\ fns \in Seq(Nat)
      /\ Follows(excludes, E1) /\ excludes \in Seq(Nat)
  BY DEF ScopesInv, ScopesFollowPath
<1>5. /\ PushesNamespace(n) \in BOOLEAN /\ (Kind(n) = "mod") \in BOOLEAN
      /\ (Kind(n) = "fn") \in BOOLEAN /\ (Kind(n) \in Scoped /\ ScopePushes(ast[n].attrs)) \in BOOLEAN
  BY DEF PushesNamespace, ScopePushes
<1> HIDE DEF N1, N2, M1, M2, F1, F2, E1, E2, now
<1>6. Follows(namespaces', N2) /\ namespaces' \in Seq(Nat)
  BY <1>2, <1>3, <1>4, <1>5, StackPush DEF Enters, now
<1>7. Follows(modNamespaces', M2) /\ modNamespaces' \in Seq(Nat)
  BY <1>2, <1>3, <1>4, <1>5, StackPush DEF Enters, now
<1>8. Follows(fns', F2) /\ fns' \in Seq(Nat)
  BY <1>2, <1>3, <1>4, <1>5, StackPush DEF Enters, now
<1>9. Follows(excludes', E2) /\ excludes' \in Seq(Nat)
  BY <1>2, <1>3, <1>4, <1>5, StackPush DEF Enters, now
<1>10. /\ {m \in ItemsOf(open) : PushesNamespace(m)}' = N2 /\ OfKind({"mod"}, ItemsOf(open))' = M2
       /\ OfKind({"fn"}, ItemsOf(open))' = F2
       /\ {m \in OfKind(Scoped, ItemsOf(open)) : ScopePushes(ast[m].attrs)}' = E2
  BY <1>1, TreeStays DEF N2, M2, F2, E2, now, OfKind
<1>11. Increasing(open)'
  <2>1. Follows(open, ItemsOf(open)) /\ open \in Seq(Nat) /\ open' = Append(open, n)
    BY OpenIs DEF Enters, Descend
  <2> QED BY <1>2, <2>1, FollowsPush DEF Follows, Increasing
<1> QED BY <1>6, <1>7, <1>8, <1>9, <1>10, <1>11 DEF ScopesInv, ScopesFollowPath

\* What is popped is the node that is left.
LEMMA ScopesLeave ==
    ASSUME PathInv, ScopesInv, NEW n \in Nodes, Leave(n)
    PROVE  ScopesInv'
<1>1. PathInv' /\ ItemsOf(open)' = ItemsOf(open) \ {n} /\ ast' = ast /\ filters' = filters
      /\ n \in ItemsOf(open) /\ \A m \in ItemsOf(open) : m <= n
  BY LeavePath DEF Leave, tree
<1>2. ItemsOf(open) \in SUBSET Nat
  BY OpenIs
<1> DEFINE now == ItemsOf(open)
           N1 == {m \in now : PushesNamespace(m)}
           N2 == {m \in now \ {n} : PushesNamespace(m)}
           M1 == OfKind({"mod"}, now)
           M2 == OfKind({"mod"}, now \ {n})
           F1 == OfKind({"fn"}, now)
           F2 == OfKind({"fn"}, now \ {n})
           E1 == {m \in OfKind(Scoped, now) : ScopePushes(ast[m].attrs)}
           E2 == {m \in OfKind(Scoped, now \ {n}) : ScopePushes(ast[m].attrs)}
<1>3. /\ N1 \in SUBSET now /\ M1 \in SUBSET now /\ F1 \in SUBSET now /\ E1 \in SUBSET now
      /\ N2 = N1 \ {n} /\ M2 = M1 \ {n} /\ F2 = F1 \ {n} /\ E2 = E1 \ {n}
      /\ PushesNamespace(n) <=> n \in N1
      /\ Kind(n) = "mod" <=> n \in M1
      /\ Kind(n) = "fn" <=> n \in F1
      /\ Kind(n) \in Scoped /\ ScopePushes(ast[n].attrs) <=> n \in E1
  BY <1>1 DEF OfKind
<1>4. /\ Follows(namespaces, N1) /\ namespaces \in Seq(Nat)
      /\ Follows(modNamespaces, M1) /\ modNamespaces \in Seq(Nat)
      /\ Follows(fns, F1) /\ fns \in Seq(Nat)
      /\ Follows(excludes, E1) /\ excludes \in Seq(Nat)
  BY DEF ScopesInv, ScopesFollowPath
<1> HIDE DEF N1, N2, M1, M2, F1, F2, E1, E2, now
<1>5. /\ namespaces' = PopIf(n \in N1, namespaces) /\ modNamespaces' = PopIf(n \in M1, modNamespaces)
      /\ fns' = PopIf(n \in F1, fns) /\ excludes' = PopIf(n \in E1, excludes)
  BY <1>3 DEF Leave, PopIf
<1>6. Follows(namespaces', N2) /\ namespaces' \in Seq(Nat)
  BY <1>1, <1>2, <1>3, <1>4, <1>5, StackPop DEF now
<1>7. Follows(modNamespaces', M2) /\ modNamespaces' \in Seq(Nat)
  BY <1>1, <1>2, <1>3, <1>4, <1>5, StackPop DEF now
<1>8. Follows(fns', F2) /\ fns' \in Seq(Nat)
  BY <1>1, <1>2, <1>3, <1>4, <1>5, StackPop DEF now
<1>9. Follows(excludes', E2) /\ excludes' \in Seq(Nat)
  BY <1>1, <1>2, <1>3, <1>4, <1>5, StackPop DEF now
<1>10. /\ {m \in ItemsOf(open) : PushesNamespace(m)}' = N2 /\ OfKind({"mod"}, ItemsOf(open))' = M2
       /\ OfKind({"fn"}, ItemsOf(open))' = F2
       /\ {m \in OfKind(Scoped, ItemsOf(open)) : ScopePushes(ast[m].attrs)}' = E2
  BY <1>1, TreeStays DEF N2, M2, F2, E2, now, OfKind
<1>11. Increasing(open)'
  <2>1. Follows(open, ItemsOf(open)) /\ open \in Seq(Nat) /\ open' = Pop(open)
    BY OpenIs DEF Leave
  <2> QED BY <1>1, <1>2, <2>1, FollowsPop DEF Follows, Increasing
<1> QED BY <1>6, <1>7, <1>8, <1>9, <1>10, <1>11 DEF ScopesInv, ScopesFollowPath

\* Early returns leave the stacks and what is open alone.
LEMMA ScopesPasses ==
    ASSUME PathInv, ScopesInv, NEW n \in Nodes, Passes(n)
    PROVE  ScopesInv'
<1>1. UNCHANGED <<ast, filters, open, namespaces, modNamespaces, fns, excludes>>
  BY DEF Passes, Pass, tree, stacks
<1>2. ItemsOf(open)' = ItemsOf(open)
  BY <1>1 DEF ItemsOf
<1>3. /\ {m \in ItemsOf(open) : PushesNamespace(m)}' = {m \in ItemsOf(open) : PushesNamespace(m)}
      /\ \A kinds : OfKind(kinds, ItemsOf(open))' = OfKind(kinds, ItemsOf(open))
      /\ {m \in OfKind(Scoped, ItemsOf(open)) : ScopePushes(ast[m].attrs)}'
            = {m \in OfKind(Scoped, ItemsOf(open)) : ScopePushes(ast[m].attrs)}
  BY <1>1, <1>2, TreeStays DEF OfKind
<1> QED BY <1>1, <1>2, <1>3 DEF ScopesInv, ScopesFollowPath

-----------------------------------------------------------------------------
(* Depths *)

DepthsInv ==
    /\ closureDepth = Cardinality(OfKind({"closure"}, ItemsOf(open)))
    /\ constEvalDepth = Cardinality({n \in ItemsOf(open) : EvaluatesConst(n)})

\* What is open can be counted.
LEMMA OpenIsFinite ==
    ASSUME PathInv
    PROVE  IsFiniteSet(ItemsOf(open))
<1>1. ItemsOf(open) \in SUBSET (1 .. Len(ast)) /\ Len(ast) \in Nat
  BY OpenIs
<1>2. IsFiniteSet(1 .. Len(ast))
  BY <1>1, FS_Interval
<1> QED BY <1>1, <1>2, FS_Subset

\* The depths start at zero.
LEMMA DepthsInit == Init => DepthsInv
<1> SUFFICES ASSUME Init PROVE DepthsInv
  OBVIOUS
<1>1. ItemsOf(open) = {} /\ closureDepth = 0 /\ constEvalDepth = 0
  BY DEF Init, ItemsOf
<1>2. OfKind({"closure"}, {}) = {} /\ {n \in {} : EvaluatesConst(n)} = {}
  BY DEF OfKind
<1> QED BY <1>1, <1>2, FS_EmptySet DEF DepthsInv

\* A depth grows with the nodes that count for it.
LEMMA DepthsEnters ==
    ASSUME PathInv, DepthsInv, NEW n \in Nodes, Enters(n)
    PROVE  DepthsInv'
<1>1. ItemsOf(open)' = ItemsOf(open) \cup {n} /\ ast' = ast /\ filters' = filters
  BY EntersPath DEF Enters, tree
<1>2. n \notin ItemsOf(open)
  BY OpenIs, ReadyIs DEF Enters, Proceeds
<1> DEFINE now == ItemsOf(open)
           C1 == OfKind({"closure"}, now)
           C2 == OfKind({"closure"}, now \cup {n})
           D1 == {m \in now : EvaluatesConst(m)}
           D2 == {m \in now \cup {n} : EvaluatesConst(m)}
<1>3. /\ C1 \in SUBSET now /\ D1 \in SUBSET now /\ n \notin C1 /\ n \notin D1
      /\ C2 = IF Kind(n) = "closure" THEN C1 \cup {n} ELSE C1
      /\ D2 = IF EvaluatesConst(n) THEN D1 \cup {n} ELSE D1
  BY <1>2 DEF OfKind
<1>4. closureDepth = Cardinality(C1) /\ constEvalDepth = Cardinality(D1)
  BY DEF DepthsInv
<1> HIDE DEF C1, C2, D1, D2
<1>5. IsFiniteSet(C1) /\ IsFiniteSet(D1)
  BY <1>3, OpenIsFinite, FS_Subset
<1>6. /\ Cardinality(C1 \cup {n}) = Cardinality(C1) + 1
      /\ Cardinality(D1 \cup {n}) = Cardinality(D1) + 1
  BY <1>3, <1>5, FS_AddElement
<1>7. closureDepth' = Cardinality(C2) /\ constEvalDepth' = Cardinality(D2)
  BY <1>3, <1>4, <1>6 DEF Enters
<1>8. /\ OfKind({"closure"}, ItemsOf(open))' = C2
      /\ {m \in ItemsOf(open) : EvaluatesConst(m)}' = D2
  BY <1>1, TreeStays DEF C2, D2, now, OfKind
<1> QED BY <1>7, <1>8 DEF DepthsInv

\* A depth shrinks with the nodes that count for it.
LEMMA DepthsLeave ==
    ASSUME PathInv, DepthsInv, NEW n \in Nodes, Leave(n)
    PROVE  DepthsInv'
<1>1. ItemsOf(open)' = ItemsOf(open) \ {n} /\ ast' = ast /\ filters' = filters
      /\ n \in ItemsOf(open)
  BY LeavePath DEF Leave, tree
<1> DEFINE now == ItemsOf(open)
           C1 == OfKind({"closure"}, now)
           C2 == OfKind({"closure"}, now \ {n})
           D1 == {m \in now : EvaluatesConst(m)}
           D2 == {m \in now \ {n} : EvaluatesConst(m)}
<1>2. /\ C1 \in SUBSET now /\ D1 \in SUBSET now
      /\ C2 = IF Kind(n) = "closure" THEN C1 \ {n} ELSE C1
      /\ D2 = IF EvaluatesConst(n) THEN D1 \ {n} ELSE D1
      /\ Kind(n) = "closure" <=> n \in C1
      /\ EvaluatesConst(n) <=> n \in D1
  BY <1>1 DEF OfKind
<1>3. closureDepth = Cardinality(C1) /\ constEvalDepth = Cardinality(D1)
  BY DEF DepthsInv
<1> HIDE DEF C1, C2, D1, D2
<1>4. IsFiniteSet(C1) /\ IsFiniteSet(D1)
  BY <1>2, OpenIsFinite, FS_Subset
<1>5. /\ n \in C1 => Cardinality(C1 \ {n}) = Cardinality(C1) - 1
      /\ n \in D1 => Cardinality(D1 \ {n}) = Cardinality(D1) - 1
  BY <1>4, FS_RemoveElement
<1>6. closureDepth' = Cardinality(C2) /\ constEvalDepth' = Cardinality(D2)
  BY <1>2, <1>3, <1>5 DEF Leave, LessIf
<1>7. /\ OfKind({"closure"}, ItemsOf(open))' = C2
      /\ {m \in ItemsOf(open) : EvaluatesConst(m)}' = D2
  BY <1>1, TreeStays DEF C2, D2, now, OfKind
<1> QED BY <1>6, <1>7 DEF DepthsInv

\* Early returns leave the depths alone.
LEMMA DepthsPasses ==
    ASSUME PathInv, DepthsInv, NEW n \in Nodes, Passes(n)
    PROVE  DepthsInv'
<1>1. UNCHANGED <<ast, filters, open, closureDepth, constEvalDepth>>
  BY DEF Passes, Pass, tree, stacks
<1> QED BY <1>1, TreeStays DEF DepthsInv, ItemsOf, OfKind

-----------------------------------------------------------------------------
(* Guards *)

\* What is in a node comes before its next sibling.
LEMMA SiblingsApart ==
    ASSUME ast \in Asts, NEW a \in Nodes, NEW b \in Nodes, NEW c \in Nodes,
           ast[a].up = ast[b].up, a < b, ast[c].up = a
    PROVE  a < c /\ c < b
<1>1. Len(ast) \in Nat /\ Nodes = 1 .. Len(ast) /\ a \in Nat /\ b \in Nat /\ c \in Nat
  BY TreeIs
<1>2. /\ ast[a].up \in 0 .. a - 1 /\ a \in 0 .. c - 1
      /\ \A m \in a + 1 .. c - 1 : ast[m].up >= a
  BY TreeIs
<1>3. c # b
  BY <1>1, <1>2
<1>4. ~(b < c)
  <2>1. ASSUME b < c PROVE FALSE
    <3>1. b \in a + 1 .. c - 1
      BY <1>1, <2>1
    <3>2. ast[a].up >= a
      BY <1>2, <3>1
    <3> QED BY <1>1, <1>2, <3>2
  <2> QED BY <2>1
<1> QED BY <1>1, <1>2, <1>3, <1>4

\* The guards of a match, in order; each is in an arm of it.
LEMMA GuardsAre ==
    ASSUME ast \in Asts, NEW n \in Nodes
    PROVE  /\ GuardsOf(n) \in Seq(Nat) /\ Follows(GuardsOf(n), ItemsOf(GuardsOf(n)))
           /\ ItemsOf(GuardsOf(n)) \in SUBSET Nat
           /\ \A g \in ItemsOf(GuardsOf(n)) : g \in Nodes /\ MatchAround(g) = n
<1>1. Len(ast) \in Nat /\ Nodes = 1 .. Len(ast)
  BY TreeIs
<1> DEFINE G == {a \in Arms(n) : HasChild(a, "guard")}
           s == InOrder(G)
           t == GuardsOf(n)
<1>2. /\ \A a \in G : a \in Nodes /\ ast[a].up = n
      /\ \A a \in G : \E c \in Children(a) : ast[c].role = "guard"
  BY DEF Arms, Children, HasChild
<1>3. \A a \in G : Child(a, "guard") \in Nodes /\ ast[Child(a, "guard")].up = a
  <2> SUFFICES ASSUME NEW a \in G
               PROVE  Child(a, "guard") \in Nodes /\ ast[Child(a, "guard")].up = a
    OBVIOUS
  <2>1. Child(a, "guard") \in Children(a)
    BY <1>2 DEF Child
  <2> QED BY <2>1 DEF Children
<1>4. t = [i \in DOMAIN s |-> Child(s[i], "guard")]
  BY DEF GuardsOf
<1> HIDE DEF G, s, t
<1>5. G \in SUBSET (1 .. Len(ast)) /\ G \in SUBSET Nat /\ IsFiniteSet(G)
  <2>1. G \in SUBSET (1 .. Len(ast)) /\ IsFiniteSet(1 .. Len(ast))
    BY <1>1, <1>2, FS_Interval
  <2>2. \A a \in G : a \in Nat
    BY <1>1, <1>2
  <2>3. IsFiniteSet(G)
    BY <2>1, FS_Subset
  <2> QED BY <2>1, <2>2, <2>3
<1>6. s \in Seq(Nat) /\ Follows(s, G)
  <2>1. s \in Seq(G) /\ Follows(s, G)
    BY <1>5, InOrderIs DEF s
  <2>2. \A i \in 1 .. Len(s) : s[i] \in G
    BY <2>1
  <2>3. \A i \in 1 .. Len(s) : s[i] \in Nat
    BY <1>5, <2>2
  <2> QED BY <2>1, <2>3
<1>7. /\ Len(s) \in Nat /\ DOMAIN s = 1 .. Len(s) /\ \A i \in 1 .. Len(s) : s[i] \in G
      /\ \A i, j \in 1 .. Len(s) : i < j => s[i] < s[j]
  BY <1>5, <1>6, FollowsIs
<1>8. \A i \in 1 .. Len(s) : t[i] \in Nodes /\ ast[t[i]].up = s[i]
  BY <1>3, <1>4, <1>7
<1>9. t \in Seq(Nat) /\ DOMAIN t = 1 .. Len(s)
  <2>1. \A i \in 1 .. Len(s) : t[i] \in Nat
    BY <1>1, <1>8
  <2> QED BY <1>4, <1>7, <2>1
<1>10. Increasing(t)
  <2> SUFFICES ASSUME NEW i \in 1 .. Len(s), NEW j \in 1 .. Len(s), i < j PROVE t[i] < t[j]
    BY <1>9 DEF Increasing
  <2>1. /\ s[i] \in Nodes /\ s[j] \in Nodes /\ ast[s[i]].up = ast[s[j]].up /\ s[i] < s[j]
        /\ t[i] \in Nodes /\ t[j] \in Nodes /\ ast[t[i]].up = s[i] /\ ast[t[j]].up = s[j]
    BY <1>2, <1>7, <1>8
  <2>2. t[i] < s[j]
    BY <2>1, SiblingsApart
  <2>3. ast[t[j]].up \in 0 .. t[j] - 1
    BY <2>1, TreeIs
  <2>4. t[i] \in Nat /\ t[j] \in Nat /\ s[j] \in Nat /\ s[j] \in 0 .. t[j] - 1
    BY <1>1, <2>1, <2>3
  <2> QED BY ONLY <2>2, <2>4
<1>11. \A g \in ItemsOf(t) : g \in Nodes /\ MatchAround(g) = n
  <2> SUFFICES ASSUME NEW i \in 1 .. Len(s) PROVE t[i] \in Nodes /\ MatchAround(t[i]) = n
    BY <1>9 DEF ItemsOf
  <2> QED BY <1>2, <1>7, <1>8 DEF MatchAround
<1>12. ItemsOf(t) \in SUBSET Nat
  BY <1>9 DEF ItemsOf
<1> QED BY <1>9, <1>10, <1>11, <1>12 DEF t, Follows

\* What remains of a list after its last entries are cut off.
LEMMA SuffixIs ==
    ASSUME NEW L \in Nat, NEW G \in SUBSET (1 .. L), \A i \in G : \A j \in i .. L : j \in G
    PROVE  Cardinality(G) \in 0 .. L /\ G = L - Cardinality(G) + 1 .. L
<1>1. CASE G = {}
  BY <1>1, FS_EmptySet
<1>2. CASE G # {}
  <2>1. PICK l \in G : \A i \in G : l <= i
    BY <1>2, Least
  <2>2. l \in 1 .. L /\ G = l .. L
    <3>1. l \in 1 .. L /\ \A j \in l .. L : j \in G
      BY <2>1
    <3>2. \A j \in G : j \in l .. L
      BY <2>1
    <3> QED BY <3>1, <3>2
  <2>3. Cardinality(l .. L) = L - l + 1
    BY <2>2, FS_Interval
  <2>4. Cardinality(G) = L - l + 1
    BY <2>2, <2>3
  <2>5. L - Cardinality(G) + 1 = l /\ Cardinality(G) \in 0 .. L
    BY <2>2, <2>4
  <2> QED BY <2>2, <2>5
<1> QED BY <1>1, <1>2

\* A list in order is as long as the set of its items is large.
LEMMA FollowsCardinality ==
    ASSUME NEW S \in SUBSET Nat, NEW s \in Seq(Nat), Follows(s, S)
    PROVE  IsFiniteSet(S) /\ Cardinality(S) = Len(s)
<1>1. /\ Len(s) \in Nat /\ \A i \in 1 .. Len(s) : s[i] \in S
      /\ \A m \in S : \E i \in 1 .. Len(s) : s[i] = m
      /\ \A i, j \in 1 .. Len(s) : i < j => s[i] < s[j]
      /\ \A i \in 1 .. Len(s) : s[i] \in Nat
  BY FollowsIs
<1> DEFINE f == [i \in 1 .. Len(s) |-> s[i]]
<1>2. f \in Bijection(1 .. Len(s), S)
  <2>1. \A i, j \in 1 .. Len(s) : s[i] = s[j] => i = j
    <3> SUFFICES ASSUME NEW i \in 1 .. Len(s), NEW j \in 1 .. Len(s), s[i] = s[j], i # j
                 PROVE  FALSE
      OBVIOUS
    <3>1. i < j \/ j < i
      BY <1>1
    <3>2. s[i] \in Nat /\ (s[i] < s[j] \/ s[j] < s[i])
      BY <1>1, <3>1
    <3> QED BY <3>2
  <2>2. f \in [1 .. Len(s) -> S]
    BY <1>1
  <2>3. \A m \in S : \E i \in 1 .. Len(s) : f[i] = m
    BY <1>1
  <2>4. \A i, j \in 1 .. Len(s) : f[i] = f[j] => i = j
    BY <2>1
  <2> QED BY <2>2, <2>3, <2>4 DEF Bijection, Injection, Surjection, IsInjective
<1>3. IsFiniteSet(1 .. Len(s)) /\ Cardinality(1 .. Len(s)) = Len(s)
  BY <1>1, FS_Interval
<1>4. ExistsBijection(1 .. Len(s), S)
  BY <1>2 DEF ExistsBijection
<1> HIDE DEF f
<1> QED BY <1>3, <1>4, FS_Bijection

GuardsInOrder ==
    \A i, j \in DOMAIN guards : i < j =>
        MatchAround(guards[i]) < MatchAround(guards[j])
          \/ (MatchAround(guards[i]) = MatchAround(guards[j]) /\ guards[i] < guards[j])

GuardsInv ==
    /\ guards \in Seq(Nat)
    /\ ItemsOf(guards) = UNION {ItemsOf(GuardsOf(n)) : n \in OfKind({"match"}, ItemsOf(open))}
    /\ GuardsInOrder

\* There are no guards.
LEMMA GuardsInit == Init => GuardsInv
<1> SUFFICES ASSUME Init PROVE GuardsInv
  OBVIOUS
<1>1. ItemsOf(open) = {} /\ guards = <<>>
  BY DEF Init, ItemsOf
<1>2. ItemsOf(guards) = {} /\ OfKind({"match"}, {}) = {}
  BY <1>1 DEF ItemsOf, OfKind
<1> QED BY <1>1, <1>2 DEF GuardsInv, GuardsInOrder

\* Each guard belongs to a match that is open.
LEMMA GuardsBelong ==
    ASSUME PathInv, GuardsInv
    PROVE  /\ \A g \in ItemsOf(guards) :
                 /\ g \in Nat /\ MatchAround(g) \in OfKind({"match"}, ItemsOf(open))
                 /\ g \in ItemsOf(GuardsOf(MatchAround(g)))
           /\ Len(guards) \in Nat /\ DOMAIN guards = 1 .. Len(guards)
           /\ \A i \in 1 .. Len(guards) : guards[i] \in ItemsOf(guards)
<1>1. /\ Len(guards) \in Nat /\ DOMAIN guards = 1 .. Len(guards)
      /\ \A i \in 1 .. Len(guards) : guards[i] \in Nat
  BY DEF GuardsInv
<1>2. \A i \in 1 .. Len(guards) : guards[i] \in ItemsOf(guards)
  BY <1>1 DEF ItemsOf
<1>3. ASSUME NEW g \in ItemsOf(guards)
      PROVE  /\ g \in Nat /\ MatchAround(g) \in OfKind({"match"}, ItemsOf(open))
             /\ g \in ItemsOf(GuardsOf(MatchAround(g)))
  <2>1. PICK n \in OfKind({"match"}, ItemsOf(open)) : g \in ItemsOf(GuardsOf(n))
    BY <1>3 DEF GuardsInv
  <2>2. n \in Nodes
    BY <2>1, OpenIs DEF OfKind
  <2>3. MatchAround(g) = n /\ g \in Nat
    BY <2>1, <2>2, GuardsAre DEF PathInv
  <2> QED BY <2>1, <2>3
<1> QED BY <1>1, <1>2, <1>3

\* The guards of a match come after those of the matches around it.
LEMMA GuardsEnters ==
    ASSUME PathInv, GuardsInv, NEW n \in Nodes, Enters(n)
    PROVE  GuardsInv'
<1>1. ItemsOf(open)' = ItemsOf(open) \cup {n} /\ ast' = ast /\ filters' = filters
  BY EntersPath DEF Enters, tree
<1>2. n \in Nat /\ \A m \in ItemsOf(open) : m < n
  BY OpenIs, ReadyIs DEF Enters, Proceeds
<1> DEFINE now == ItemsOf(open)
           M1 == OfKind({"match"}, now)
           M2 == OfKind({"match"}, now \cup {n})
<1>3. M2 = IF Kind(n) = "match" THEN M1 \cup {n} ELSE M1
  BY DEF OfKind
<1>4. OfKind({"match"}, ItemsOf(open))' = M2
  BY <1>1, TreeStays DEF OfKind
<1>5. /\ guards \in Seq(Nat)
      /\ ItemsOf(guards) = UNION {ItemsOf(GuardsOf(m)) : m \in M1}
      /\ GuardsInOrder
  BY DEF GuardsInv
<1> HIDE DEF M1, M2, now
<1>6. CASE Kind(n) # "match"
  <2>1. guards' = guards /\ M2 = M1
    BY <1>3, <1>6 DEF Enters
  <2>2. ItemsOf(guards)' = UNION {ItemsOf(GuardsOf(m)) : m \in M2}
    BY <1>5, <2>1 DEF ItemsOf
  <2>3. GuardsInOrder'
    BY <1>1, <1>5, <2>1, TreeStays DEF GuardsInOrder
  <2> QED BY <1>1, <1>4, <1>5, <2>1, <2>2, <2>3, TreeStays DEF GuardsInv
<1>7. CASE Kind(n) = "match"
  <2> DEFINE t == GuardsOf(n)
             q == guards \o t
  <2>1. guards' = q
    BY <1>7 DEF Enters
  <2>2. /\ t \in Seq(Nat) /\ Follows(t, ItemsOf(t)) /\ ItemsOf(t) \in SUBSET Nat
        /\ \A g \in ItemsOf(t) : g \in Nodes /\ MatchAround(g) = n
    BY GuardsAre DEF PathInv
  <2> HIDE DEF t
  <2>3. /\ q \in Seq(Nat) /\ Len(q) = Len(guards) + Len(t) /\ DOMAIN q = 1 .. Len(q)
        /\ Len(guards) \in Nat /\ Len(t) \in Nat /\ DOMAIN t = 1 .. Len(t)
        /\ \A i \in 1 .. Len(guards) : q[i] = guards[i]
        /\ \A i \in Len(guards) + 1 .. Len(q) : q[i] = t[i - Len(guards)]
        /\ \A i \in 1 .. Len(t) : q[Len(guards) + i] = t[i]
    BY <1>5, <2>2
  <2> HIDE DEF q
  <2>4. \A i \in 1 .. Len(q) : \/ i \in 1 .. Len(guards)
                               \/ i \in Len(guards) + 1 .. Len(q) /\ i - Len(guards) \in 1 .. Len(t)
    BY <2>3
  <2>5. ItemsOf(q) = ItemsOf(guards) \cup ItemsOf(t)
    <3>1. ASSUME NEW g \in ItemsOf(q) PROVE g \in ItemsOf(guards) \cup ItemsOf(t)
      <4>1. PICK i \in 1 .. Len(q) : q[i] = g
        BY <2>3 DEF ItemsOf
      <4>2. CASE i \in 1 .. Len(guards)
        BY <2>3, <4>1, <4>2, GuardsBelong
      <4>3. CASE i \in Len(guards) + 1 .. Len(q) /\ i - Len(guards) \in 1 .. Len(t)
        BY <2>3, <4>1, <4>3 DEF ItemsOf
      <4> QED BY <2>4, <4>2, <4>3
    <3>2. ASSUME NEW g \in ItemsOf(guards) PROVE g \in ItemsOf(q)
      <4>1. PICK i \in 1 .. Len(guards) : guards[i] = g
        BY GuardsBelong DEF ItemsOf
      <4>2. i \in DOMAIN q /\ q[i] = g
        BY <2>3, <4>1
      <4> QED BY <4>2 DEF ItemsOf
    <3>3. ASSUME NEW g \in ItemsOf(t) PROVE g \in ItemsOf(q)
      <4>1. PICK i \in 1 .. Len(t) : t[i] = g
        BY <2>3 DEF ItemsOf
      <4>2. Len(guards) + i \in DOMAIN q /\ q[Len(guards) + i] = g
        BY <2>3, <4>1
      <4> QED BY <4>2 DEF ItemsOf
    <3> QED BY <3>1, <3>2, <3>3
  <2>6. ItemsOf(guards)' = UNION {ItemsOf(GuardsOf(m)) : m \in M2}
    <3>1. M2 = M1 \cup {n}
      BY <1>3, <1>7
    <3>2. UNION {ItemsOf(GuardsOf(m)) : m \in M2} = ItemsOf(guards) \cup ItemsOf(t)
      BY <1>5, <3>1 DEF t
    <3>3. ItemsOf(guards)' = ItemsOf(q)
      BY <2>1 DEF ItemsOf
    <3> QED BY <2>5, <3>2, <3>3
  <2>7. ASSUME NEW i \in 1 .. Len(q), NEW j \in 1 .. Len(q), i < j
        PROVE  MatchAround(q[i]) < MatchAround(q[j])
                 \/ (MatchAround(q[i]) = MatchAround(q[j]) /\ q[i] < q[j])
    <3>1. CASE j \in 1 .. Len(guards)
      <4>1. i \in 1 .. Len(guards)
        BY <2>3, <2>7, <3>1
      <4>2. /\ i \in DOMAIN guards /\ j \in DOMAIN guards
            /\ q[i] = guards[i] /\ q[j] = guards[j]
        BY <2>3, <3>1, <4>1, GuardsBelong
      <4> QED BY <1>5, <2>7, <4>2 DEF GuardsInOrder
    <3>2. CASE i \in 1 .. Len(guards) /\ j - Len(guards) \in 1 .. Len(t)
                 /\ j \in Len(guards) + 1 .. Len(q)
      <4>1. MatchAround(q[i]) < n
        BY <1>2, <2>3, <3>2, GuardsBelong DEF OfKind
      <4>2. q[j] \in ItemsOf(t)
        BY <2>3, <3>2 DEF ItemsOf
      <4> QED BY <2>2, <4>1, <4>2
    <3>3. CASE i - Len(guards) \in 1 .. Len(t) /\ j - Len(guards) \in 1 .. Len(t)
                 /\ i \in Len(guards) + 1 .. Len(q) /\ j \in Len(guards) + 1 .. Len(q)
      <4>1. i - Len(guards) < j - Len(guards)
        BY <2>3, <2>7
      <4>2. q[i] = t[i - Len(guards)] /\ q[j] = t[j - Len(guards)]
        BY <2>3, <3>3
      <4>3. \A a, b \in 1 .. Len(t) : a < b => t[a] < t[b]
        BY <2>2, FollowsIs
      <4>4. q[i] < q[j]
        BY <3>3, <4>1, <4>2, <4>3
      <4>5. q[i] \in ItemsOf(t) /\ q[j] \in ItemsOf(t)
        BY <2>3, <3>3, <4>2 DEF ItemsOf
      <4> QED BY <2>2, <4>4, <4>5
    <3>4. i \in 1 .. Len(guards) \/ ~(j \in 1 .. Len(guards))
      BY <2>3, <2>7
    <3> QED BY <2>4, <3>1, <3>2, <3>3, <3>4
  <2>8. GuardsInOrder'
    BY <1>1, <2>1, <2>3, <2>7, TreeStays DEF GuardsInOrder
  <2> QED BY <1>1, <1>4, <2>1, <2>3, <2>6, <2>8, TreeStays DEF GuardsInv
<1> QED BY <1>6, <1>7

\* The guards of a match that is left are the last ones.
LEMMA GuardsLast ==
    ASSUME PathInv, GuardsInv, NEW n \in Nodes, n \in ItemsOf(open), Kind(n) = "match",
           \A m \in ItemsOf(open) : m <= n
    PROVE  /\ Len(GuardsOf(n)) \in 0 .. Len(guards)
           /\ \A i \in 1 .. Len(guards) :
                 i \in 1 .. Len(guards) - Len(GuardsOf(n)) <=> MatchAround(guards[i]) # n
<1> DEFINE L == Len(guards)
           G == {i \in 1 .. L : MatchAround(guards[i]) = n}
           t == GuardsOf(n)
           I == ItemsOf(t)
<1>1. L \in Nat /\ DOMAIN guards = 1 .. L
  BY GuardsBelong
<1>2. \A i \in 1 .. L : /\ guards[i] \in Nat /\ MatchAround(guards[i]) \in Nat
                        /\ MatchAround(guards[i]) <= n
                        /\ MatchAround(guards[i]) = n => guards[i] \in I
  <2> SUFFICES ASSUME NEW i \in 1 .. L
               PROVE  /\ guards[i] \in Nat /\ MatchAround(guards[i]) \in Nat
                      /\ MatchAround(guards[i]) <= n
                      /\ MatchAround(guards[i]) = n => guards[i] \in I
    OBVIOUS
  <2>1. MatchAround(guards[i]) \in ItemsOf(open) /\ guards[i] \in Nat
        /\ guards[i] \in ItemsOf(GuardsOf(MatchAround(guards[i])))
    BY GuardsBelong DEF OfKind
  <2> QED BY <2>1, OpenIs
<1>3. n \in Nat
  BY OpenIs
<1>4. t \in Seq(Nat) /\ Follows(t, I) /\ I \in SUBSET Nat /\ \A g \in I : MatchAround(g) = n
  BY GuardsAre DEF PathInv
<1>5. \A g \in I : \E i \in 1 .. L : guards[i] = g
  <2>1. I \subseteq ItemsOf(guards)
    BY DEF GuardsInv, OfKind
  <2> QED BY <1>1, <2>1 DEF ItemsOf
<1>6. \A i, j \in 1 .. L : i < j =>
         MatchAround(guards[i]) < MatchAround(guards[j])
           \/ (MatchAround(guards[i]) = MatchAround(guards[j]) /\ guards[i] < guards[j])
  BY <1>1 DEF GuardsInv, GuardsInOrder
<1> HIDE DEF L, t, I
<1>7. \A i \in G : \A j \in i .. L : j \in G
  <2> SUFFICES ASSUME NEW i \in 1 .. L, MatchAround(guards[i]) = n, NEW j \in i .. L
               PROVE  MatchAround(guards[j]) = n
    BY <1>1
  <2>1. j \in 1 .. L /\ (j = i \/ i < j)
    BY <1>1
  <2>2. MatchAround(guards[j]) \in Nat /\ MatchAround(guards[j]) <= n
    BY <1>2, <2>1
  <2>3. CASE i < j
    <3>1. n < MatchAround(guards[j]) \/ n = MatchAround(guards[j])
      BY <1>6, <2>1, <2>3
    <3> QED BY <1>3, <2>2, <3>1
  <2> QED BY <2>1, <2>3
<1>8. \A i, j \in G : guards[i] = guards[j] => i = j
  <2> SUFFICES ASSUME NEW i \in G, NEW j \in G, guards[i] = guards[j], i # j PROVE FALSE
    OBVIOUS
  <2>1. i \in 1 .. L /\ j \in 1 .. L /\ (i < j \/ j < i)
    BY <1>1
  <2>2. guards[i] \in Nat /\ MatchAround(guards[i]) = n /\ MatchAround(guards[j]) = n
    BY <1>2
  <2>3. guards[i] < guards[j] \/ guards[j] < guards[i]
    BY <1>3, <1>6, <2>1, <2>2
  <2> QED BY <2>2, <2>3
<1> DEFINE f == [i \in G |-> guards[i]]
<1>9. f \in Bijection(G, I)
  <2>1. f \in [G -> I]
    BY <1>2
  <2>2. \A g \in I : \E i \in G : f[i] = g
    <3> SUFFICES ASSUME NEW g \in I PROVE \E i \in G : f[i] = g
      OBVIOUS
    <3>1. PICK i \in 1 .. L : guards[i] = g
      BY <1>5
    <3>2. i \in G
      BY <1>4, <3>1
    <3> QED BY <3>1, <3>2
  <2>3. \A i, j \in G : f[i] = f[j] => i = j
    BY <1>8
  <2> HIDE DEF f, G
  <2> QED BY <2>1, <2>2, <2>3 DEF Bijection, Injection, Surjection, IsInjective
<1>10. G \in SUBSET (1 .. L)
  OBVIOUS
<1> HIDE DEF f
<1>11. \A i \in 1 .. L : i \in G <=> MatchAround(guards[i]) = n
  OBVIOUS
<1> HIDE DEF G
<1>12. Cardinality(G) = Len(t) /\ Cardinality(G) \in 0 .. L /\ G = L - Cardinality(G) + 1 .. L
  <2>1. Cardinality(G) \in 0 .. L /\ G = L - Cardinality(G) + 1 .. L
    BY <1>1, <1>7, <1>10, SuffixIs
  <2>2. IsFiniteSet(G)
    <3>1. IsFiniteSet(1 .. L)
      BY <1>1, FS_Interval
    <3> QED BY <1>10, <3>1, FS_Subset
  <2>3. ExistsBijection(G, I)
    BY <1>9 DEF ExistsBijection
  <2>4. Cardinality(I) = Cardinality(G)
    BY <2>2, <2>3, FS_Bijection
  <2>5. Cardinality(I) = Len(t)
    BY <1>4, FollowsCardinality
  <2> QED BY <2>1, <2>4, <2>5
<1>13. Len(t) \in 0 .. L /\ G = L - Len(t) + 1 .. L
  BY <1>12
<1>14. \A i \in 1 .. L : i \in 1 .. L - Len(t) <=> i \notin G
  BY <1>1, <1>13
<1> QED BY <1>11, <1>13, <1>14 DEF L, t

\* What truncate cuts off is the guards of the match that is left.
LEMMA GuardsLeave ==
    ASSUME PathInv, GuardsInv, NEW n \in Nodes, Leave(n)
    PROVE  GuardsInv'
<1>1. ItemsOf(open)' = ItemsOf(open) \ {n} /\ ast' = ast /\ filters' = filters
      /\ n \in ItemsOf(open) /\ \A m \in ItemsOf(open) : m <= n
  BY LeavePath DEF Leave, tree
<1> DEFINE now == ItemsOf(open)
           M1 == OfKind({"match"}, now)
           M2 == OfKind({"match"}, now \ {n})
<1>2. M2 = IF Kind(n) = "match" THEN M1 \ {n} ELSE M1
  BY DEF OfKind
<1>3. OfKind({"match"}, ItemsOf(open))' = M2
  BY <1>1, TreeStays DEF OfKind
<1>4. /\ guards \in Seq(Nat)
      /\ ItemsOf(guards) = UNION {ItemsOf(GuardsOf(m)) : m \in M1}
      /\ GuardsInOrder
  BY DEF GuardsInv
<1>5. n \in M1 <=> Kind(n) = "match"
  BY <1>1 DEF OfKind
<1>6. \A m \in M1 : m \in Nodes
  BY OpenIs DEF OfKind
<1>7. \A g \in ItemsOf(guards) : MatchAround(g) \in M1 /\ g \in ItemsOf(GuardsOf(MatchAround(g)))
  BY GuardsBelong
<1> HIDE DEF M1, M2, now
<1>8. CASE Kind(n) # "match"
  <2>1. guards' = guards /\ M2 = M1
    BY <1>2, <1>8 DEF Leave
  <2>2. ItemsOf(guards)' = UNION {ItemsOf(GuardsOf(m)) : m \in M2}
    BY <1>4, <2>1 DEF ItemsOf
  <2>3. GuardsInOrder'
    BY <1>1, <1>4, <2>1, TreeStays DEF GuardsInOrder
  <2> QED BY <1>1, <1>3, <1>4, <2>1, <2>2, <2>3, TreeStays DEF GuardsInv
<1>9. CASE Kind(n) = "match"
  <2> DEFINE k == Len(guards) - Len(GuardsOf(n))
             q == SubSeq(guards, 1, k)
  <2>1. guards' = q
    BY <1>9 DEF Leave
  <2>2. /\ k \in 0 .. Len(guards) /\ Len(guards) \in Nat /\ DOMAIN guards = 1 .. Len(guards)
        /\ \A i \in 1 .. Len(guards) : i \in 1 .. k <=> MatchAround(guards[i]) # n
    <3>1. /\ Len(GuardsOf(n)) \in 0 .. Len(guards)
          /\ \A i \in 1 .. Len(guards) : i \in 1 .. k <=> MatchAround(guards[i]) # n
      BY <1>1, <1>9, GuardsLast
    <3>2. Len(guards) \in Nat /\ DOMAIN guards = 1 .. Len(guards)
      BY <1>4
    <3> QED BY <3>1, <3>2
  <2> HIDE DEF k
  <2>3. q \in Seq(Nat) /\ DOMAIN q = 1 .. k /\ \A i \in 1 .. k : q[i] = guards[i]
    BY <1>4, <2>2
  <2> HIDE DEF q
  <2>4. \A i \in 1 .. k : i \in 1 .. Len(guards) /\ i \in DOMAIN guards /\ guards[i] \in ItemsOf(guards)
    BY <2>2 DEF ItemsOf
  <2>5. ItemsOf(guards)' = UNION {ItemsOf(GuardsOf(m)) : m \in M2}
    <3>1. ASSUME NEW g \in ItemsOf(q) PROVE g \in UNION {ItemsOf(GuardsOf(m)) : m \in M2}
      <4>1. PICK i \in 1 .. k : g = guards[i]
        BY <2>3 DEF ItemsOf
      <4>2. g \in ItemsOf(guards) /\ MatchAround(g) # n
        BY <2>2, <2>4, <4>1
      <4>3. MatchAround(g) \in M2 /\ g \in ItemsOf(GuardsOf(MatchAround(g)))
        BY <1>2, <1>7, <1>9, <4>2
      <4> QED BY <4>3
    <3>2. ASSUME NEW m \in M2, NEW g \in ItemsOf(GuardsOf(m)) PROVE g \in ItemsOf(q)
      <4>1. m \in M1 /\ m # n /\ m \in Nodes
        BY <1>2, <1>6, <1>9
      <4>2. g \in ItemsOf(guards) /\ MatchAround(g) = m
        BY <1>4, <3>2, <4>1, GuardsAre DEF PathInv
      <4>3. PICK i \in 1 .. Len(guards) : guards[i] = g
        BY <2>2, <4>2 DEF ItemsOf
      <4>4. i \in 1 .. k
        BY <2>2, <4>1, <4>2, <4>3
      <4> QED BY <2>3, <4>3, <4>4 DEF ItemsOf
    <3>3. ItemsOf(guards)' = ItemsOf(q)
      BY <2>1 DEF ItemsOf
    <3> QED BY <3>1, <3>2, <3>3
  <2>6. \A i, j \in DOMAIN q : i < j =>
           MatchAround(q[i]) < MatchAround(q[j])
             \/ (MatchAround(q[i]) = MatchAround(q[j]) /\ q[i] < q[j])
    BY <1>4, <2>3, <2>4 DEF GuardsInOrder
  <2>7. GuardsInOrder'
    BY <1>1, <2>1, <2>6, TreeStays DEF GuardsInOrder
  <2> QED BY <1>1, <1>3, <2>1, <2>3, <2>5, <2>7, TreeStays DEF GuardsInv
<1> QED BY <1>8, <1>9

\* Early returns leave the guards alone.
LEMMA GuardsPasses ==
    ASSUME PathInv, GuardsInv, NEW n \in Nodes, Passes(n)
    PROVE  GuardsInv'
<1>1. UNCHANGED <<ast, filters, open, guards>>
  BY DEF Passes, Pass, tree, stacks
<1>2. OfKind({"match"}, ItemsOf(open))' = OfKind({"match"}, ItemsOf(open))
  BY <1>1, TreeStays DEF OfKind, ItemsOf
<1>3. ItemsOf(guards)' = ItemsOf(guards)
  BY <1>1 DEF ItemsOf
<1>4. GuardsInOrder'
  BY <1>1, TreeStays DEF GuardsInv, GuardsInOrder
<1> QED BY <1>1, <1>2, <1>3, <1>4, TreeStays DEF GuardsInv

-----------------------------------------------------------------------------
(* The stacks follow the path, always *)

StacksInv ==
    /\ PathInv /\ ScopesInv /\ DepthsInv /\ GuardsInv
    /\ externalMods \in Seq(Seq(Nat))

\* The walk starts with everything empty.
LEMMA StacksInit == Init => StacksInv
BY PathInit, ScopesInit, DepthsInit, GuardsInit DEF Init, StacksInv

\* The invariant is what the property says.
LEMMA StacksImply == StacksInv => StacksFollowPath /\ constEvalDepth \in Nat
<1> SUFFICES ASSUME StacksInv PROVE StacksFollowPath /\ constEvalDepth \in Nat
  OBVIOUS
<1>1. ScopesFollowPath /\ DepthsFollowPath
  BY DEF StacksInv, ScopesInv, DepthsInv, GuardsInv, GuardsInOrder, DepthsFollowPath
<1>2. constEvalDepth \in Nat
  <2>1. {n \in ItemsOf(open) : EvaluatesConst(n)} \in SUBSET ItemsOf(open)
    OBVIOUS
  <2>2. IsFiniteSet({n \in ItemsOf(open) : EvaluatesConst(n)})
    BY <2>1, OpenIsFinite, FS_Subset DEF StacksInv
  <2> QED BY <2>2, FS_CardinalityType DEF StacksInv, DepthsInv
<1> QED BY <1>1, <1>2 DEF StacksFollowPath

\* A step enters a node, passes it over, leaves it, or changes nothing.
LEMMA NextIs ==
    ASSUME StacksInv, [Next]_vars
    PROVE  \/ \E n \in Nodes : Passes(n) \/ (Visit(n) /\ Enters(n)) \/ Leave(n)
           \/ UNCHANGED vars
<1>1. CASE \E n \in Nodes : Visit(n) \/ Leave(n)
  <2>1. PICK n \in Nodes : Visit(n) \/ Leave(n)
    BY <1>1
  <2>2. constEvalDepth \in Nat /\ externalMods \in Seq(Seq(Nat))
    BY StacksImply DEF StacksInv
  <2> QED BY <2>1, <2>2, VisitIs
<1>2. CASE Terminated
  BY <1>2 DEF Terminated
<1> QED BY <1>1, <1>2 DEF Next

\* Every step keeps the invariant.
LEMMA StacksStep ==
    ASSUME StacksInv, [Next]_vars
    PROVE  StacksInv'
<1>1. PathInv /\ ScopesInv /\ DepthsInv /\ GuardsInv /\ externalMods \in Seq(Seq(Nat))
  BY DEF StacksInv
<1>2. ASSUME NEW n \in Nodes, Passes(n) PROVE StacksInv'
  <2>1. externalMods' = externalMods
    BY <1>2 DEF Passes, found
  <2>2. PathInv'
    BY <1>1, <1>2, PassesPath
  <2>3. ScopesInv' /\ DepthsInv' /\ GuardsInv'
    BY <1>1, <1>2, ScopesPasses, DepthsPasses, GuardsPasses
  <2> QED BY <1>1, <2>1, <2>2, <2>3 DEF StacksInv
<1>3. ASSUME NEW n \in Nodes, Enters(n) PROVE StacksInv'
  <2>1. PathInv'
    BY <1>1, <1>3, EntersPath
  <2>2. ScopesInv' /\ DepthsInv' /\ GuardsInv'
    BY <1>1, <1>3, ScopesEnters, DepthsEnters, GuardsEnters
  <2>3. externalMods' \in Seq(Seq(Nat))
    <3> DEFINE q == modNamespaces'
    <3>1. q \in Seq(Nat)
      BY <2>2 DEF ScopesInv
    <3>2. externalMods' = Append(externalMods, q) \/ externalMods' = externalMods
      BY <1>3 DEF Enters
    <3> DEFINE Q == Seq(Nat)
    <3>3. q \in Q /\ externalMods \in Seq(Q)
      BY <1>1, <3>1
    <3> HIDE DEF q, Q
    <3>4. externalMods' \in Seq(Q)
      BY <3>2, <3>3
    <3> QED BY <3>4 DEF Q
  <2> QED BY <2>1, <2>2, <2>3 DEF StacksInv
<1>4. ASSUME NEW n \in Nodes, Leave(n) PROVE StacksInv'
  <2>1. externalMods' = externalMods
    BY <1>4 DEF Leave, found
  <2>2. PathInv'
    BY <1>1, <1>4, LeavePath
  <2>3. ScopesInv' /\ DepthsInv' /\ GuardsInv'
    BY <1>1, <1>4, ScopesLeave, DepthsLeave, GuardsLeave
  <2> QED BY <1>1, <2>1, <2>2, <2>3 DEF StacksInv
<1>5. CASE UNCHANGED vars
  <2>1. UNCHANGED <<ast, filters, at, open, namespaces, modNamespaces, fns, guards, excludes,
                    closureDepth, constEvalDepth, externalMods>>
    BY <1>5 DEF vars, tree, stacks, found
  <2>2. PathInv'
    BY <1>1, <2>1, TreeStays DEF PathInv
  <2>3. ItemsOf(open)' = ItemsOf(open) /\ ItemsOf(guards)' = ItemsOf(guards)
    BY <2>1 DEF ItemsOf
  <2>4. /\ {m \in ItemsOf(open) : PushesNamespace(m)}' = {m \in ItemsOf(open) : PushesNamespace(m)}
        /\ \A kinds : OfKind(kinds, ItemsOf(open))' = OfKind(kinds, ItemsOf(open))
        /\ {m \in OfKind(Scoped, ItemsOf(open)) : ScopePushes(ast[m].attrs)}'
              = {m \in OfKind(Scoped, ItemsOf(open)) : ScopePushes(ast[m].attrs)}
        /\ {m \in ItemsOf(open) : EvaluatesConst(m)}' = {m \in ItemsOf(open) : EvaluatesConst(m)}
    BY <2>1, <2>3, TreeStays DEF OfKind
  <2>5. ScopesInv' /\ DepthsInv'
    BY <1>1, <2>1, <2>3, <2>4 DEF ScopesInv, ScopesFollowPath, DepthsInv
  <2>6. GuardsInOrder'
    BY <1>1, <2>1, TreeStays DEF GuardsInv, GuardsInOrder
  <2>7. GuardsInv'
    BY <1>1, <2>1, <2>3, <2>4, <2>6, TreeStays DEF GuardsInv
  <2> QED BY <1>1, <2>1, <2>2, <2>5, <2>7 DEF StacksInv
<1> QED BY <1>2, <1>3, <1>4, <1>5, NextIs

\* The stacks and the depths are what is open, for every tree: no pop of the
\* visitor finds a stack empty or the entry of another node, and what was left
\* has no effect on what comes after it (the push and pop pairs of visit_* in
\* src/visit.rs).
THEOREM StacksArePath == Spec => []StacksFollowPath
<1>1. Init => StacksInv
  BY StacksInit
<1>2. StacksInv /\ [Next]_vars => StacksInv'
  BY StacksStep
<1>3. StacksInv => StacksFollowPath
  BY StacksImply
<1> QED BY <1>1, <1>2, <1>3, PTL DEF Spec

-----------------------------------------------------------------------------
(* Sequences of any items *)

IsSeq(s) == s \in Seq(ItemsOf(s))

\* A sequence, spelled out.
LEMMA IsSeqIs ==
    ASSUME NEW s, IsSeq(s)
    PROVE  Len(s) \in Nat /\ DOMAIN s = 1 .. Len(s) /\ \A i \in 1 .. Len(s) : s[i] \in ItemsOf(s)
BY DEF IsSeq

\* A list that is written down by its positions is a sequence.
LEMMA ListIsSeq ==
    ASSUME NEW k \in Nat, NEW s, s = [i \in 1 .. k |-> s[i]]
    PROVE  IsSeq(s) /\ Len(s) = k
<1>1. DOMAIN s = 1 .. k
  OBVIOUS
<1>2. \A i \in 1 .. k : s[i] \in ItemsOf(s)
  BY <1>1 DEF ItemsOf
<1>3. s \in [1 .. k -> ItemsOf(s)]
  BY <1>1, <1>2
<1> DEFINE T == ItemsOf(s)
<1> HIDE DEF T
<1>4. s \in Seq(T) /\ Len(s) = k
  BY <1>3 DEF T
<1> QED BY <1>4 DEF T, IsSeq

\* The empty list.
LEMMA EmptyIsSeq == IsSeq(<<>>) /\ ItemsOf(<<>>) = {}
BY DEF IsSeq, ItemsOf

\* A list of one item.
LEMMA SingleIsSeq ==
    ASSUME NEW x
    PROVE  IsSeq(<<x>>) /\ ItemsOf(<<x>>) = {x}
BY DEF IsSeq, ItemsOf

\* Two lists, one after the other.
LEMMA ConcatIsSeq ==
    ASSUME NEW s, NEW t, IsSeq(s), IsSeq(t)
    PROVE  /\ IsSeq(s \o t) /\ ItemsOf(s \o t) = ItemsOf(s) \cup ItemsOf(t)
           /\ Len(s \o t) = Len(s) + Len(t)
<1> DEFINE T == ItemsOf(s) \cup ItemsOf(t)
           q == s \o t
<1>1. s \in Seq(T) /\ t \in Seq(T)
  BY DEF IsSeq
<1>2. ItemsOf(s) \subseteq T /\ ItemsOf(t) \subseteq T
  OBVIOUS
<1> HIDE DEF T
<1>3. /\ q \in Seq(T) /\ Len(q) = Len(s) + Len(t) /\ DOMAIN q = 1 .. Len(q)
      /\ Len(s) \in Nat /\ Len(t) \in Nat /\ DOMAIN s = 1 .. Len(s) /\ DOMAIN t = 1 .. Len(t)
      /\ \A i \in 1 .. Len(s) : q[i] = s[i]
      /\ \A i \in Len(s) + 1 .. Len(q) : q[i] = t[i - Len(s)]
      /\ \A i \in 1 .. Len(t) : q[Len(s) + i] = t[i]
  BY <1>1
<1> HIDE DEF q
<1>4. ASSUME NEW x \in ItemsOf(s) PROVE x \in ItemsOf(q)
  <2>1. PICK i \in 1 .. Len(s) : s[i] = x
    BY <1>3 DEF ItemsOf
  <2>2. i \in DOMAIN q /\ q[i] = x
    BY <1>3, <2>1
  <2> QED BY <2>2 DEF ItemsOf
<1>5. ASSUME NEW x \in ItemsOf(t) PROVE x \in ItemsOf(q)
  <2>1. PICK i \in 1 .. Len(t) : t[i] = x
    BY <1>3 DEF ItemsOf
  <2>2. Len(s) + i \in DOMAIN q /\ q[Len(s) + i] = x
    BY <1>3, <2>1
  <2> QED BY <2>2 DEF ItemsOf
<1>6. ItemsOf(q) \subseteq T
  BY <1>3 DEF ItemsOf
<1>7. ItemsOf(q) = T
  BY <1>4, <1>5, <1>6 DEF T
<1> QED BY <1>3, <1>7 DEF IsSeq, q, T

\* A list with one more item.
LEMMA AppendIs ==
    ASSUME NEW s, IsSeq(s), NEW x
    PROVE  Append(s, x) = [i \in 1 .. Len(s) + 1 |-> IF i = Len(s) + 1 THEN x ELSE s[i]]
<1> DEFINE T == ItemsOf(s) \cup {x}
           q == Append(s, x)
<1>1. s \in Seq(T) /\ x \in T
  BY DEF IsSeq
<1> HIDE DEF T
<1>2. /\ q \in Seq(T) /\ Len(s) \in Nat /\ Len(q) = Len(s) + 1 /\ DOMAIN q = 1 .. Len(s) + 1
      /\ q[Len(s) + 1] = x /\ \A i \in 1 .. Len(s) : q[i] = s[i]
  BY <1>1
<1> HIDE DEF q
<1>3. \A i \in 1 .. Len(s) + 1 : i = Len(s) + 1 \/ (i \in 1 .. Len(s) /\ i # Len(s) + 1)
  BY <1>2
<1>4. q = [i \in 1 .. Len(s) + 1 |-> q[i]]
  BY <1>2
<1>5. \A i \in 1 .. Len(s) + 1 : q[i] = IF i = Len(s) + 1 THEN x ELSE s[i]
  BY <1>2, <1>3
<1>6. q = [i \in 1 .. Len(s) + 1 |-> IF i = Len(s) + 1 THEN x ELSE s[i]]
  BY <1>4, <1>5
<1> QED BY <1>6 DEF q

\* What is selected from a list was in it.
LEMMA SelectIs ==
    ASSUME NEW s, IsSeq(s), NEW P \in SUBSET DOMAIN s
    PROVE  /\ IsSeq(Select(s, P)) /\ Len(Select(s, P)) = Cardinality(P)
           /\ ItemsOf(Select(s, P)) = {s[i] : i \in P}
<1>1. Len(s) \in Nat /\ DOMAIN s = 1 .. Len(s)
  BY IsSeqIs
<1>2. P \in SUBSET Nat /\ IsFiniteSet(P)
  <2>1. IsFiniteSet(1 .. Len(s))
    BY <1>1, FS_Interval
  <2>2. IsFiniteSet(P)
    BY <1>1, <2>1, FS_Subset
  <2>3. \A i \in P : i \in Nat
    BY <1>1
  <2> QED BY <2>2, <2>3
<1> DEFINE order == InOrder(P)
           t == Select(s, P)
<1>3. order \in Seq(P) /\ Len(order) = Cardinality(P) /\ ItemsOf(order) = P
  BY <1>2, InOrderIs DEF Follows
<1>4. t = [i \in DOMAIN order |-> s[order[i]]]
  BY DEF Select
<1> HIDE DEF order, t
<1>5. Len(order) \in Nat /\ DOMAIN order = 1 .. Len(order)
  BY <1>3
<1>6. DOMAIN t = 1 .. Len(order) /\ t = [i \in 1 .. Len(order) |-> t[i]]
  BY <1>4, <1>5
<1>7. IsSeq(t) /\ Len(t) = Cardinality(P)
  BY <1>3, <1>5, <1>6, ListIsSeq
<1>8. ItemsOf(t) = {s[i] : i \in P}
  BY <1>3, <1>4, <1>5 DEF ItemsOf
<1> QED BY <1>7, <1>8 DEF t

-----------------------------------------------------------------------------
(* What collect_mutant adds *)

\* Each new mutant is one of the candidates, and the attributes and the options let
\* through what it puts in its place.
LEMMA CollectIs ==
    ASSUME NEW candidates, NEW scopes, NEW inFns, NEW depth, IsSeq(candidates), IsSeq(mutants),
           \A c \in ItemsOf(candidates) : Place(c) = c,
           Collect(candidates, scopes, inFns, depth)
    PROVE  /\ IsSeq(mutants')
           /\ \A m \in ItemsOf(mutants) : m \in ItemsOf(mutants')
           /\ \A m \in ItemsOf(mutants') \ ItemsOf(mutants) :
                 /\ Place(m) \in ItemsOf(candidates)
                 /\ ~ExcludedByAttrRe(scopes, Place(m))
                 /\ m.genre = "StructField" \/ AllowsMutant(Place(m))
                 /\ m.fn = (IF inFns = <<>> THEN 0 ELSE Top(inFns))
                 /\ m.constEval = (depth > 0)
           /\ \A c \in ItemsOf(candidates) :
                 /\ ~ExcludedByAttrRe(scopes, c)
                 /\ c.genre = "StructField" \/ AllowsMutant(c)
                 => \E m \in ItemsOf(mutants') : Place(m) = c
<1> DEFINE Allowed(c) == /\ ~ExcludedByAttrRe(scopes, c)
                         /\ c.genre = "StructField" \/ AllowsMutant(c)
           P == {i \in DOMAIN candidates : Allowed(candidates[i])}
           kept == Select(candidates, P)
           fn == IF inFns = <<>> THEN 0 ELSE Top(inFns)
           M(c) == [node |-> c.node, genre |-> c.genre, value |-> c.value, fn |-> fn,
                    constEval |-> depth > 0]
           added == [i \in DOMAIN kept |-> M(kept[i])]
<1>1. mutants' = mutants \o added
  BY DEF Collect
<1>2. \A i \in P : Allowed(candidates[i])
  OBVIOUS
<1>3. P \in SUBSET DOMAIN candidates
  OBVIOUS
<1> HIDE DEF Allowed, P
<1>4. IsSeq(kept) /\ ItemsOf(kept) = {candidates[i] : i \in P}
  BY <1>3, SelectIs
<1> HIDE DEF kept
<1>5. \A c \in ItemsOf(kept) : c \in ItemsOf(candidates) /\ Allowed(c)
  BY <1>2, <1>3, <1>4 DEF ItemsOf
<1> HIDE DEF M
<1>6. IsSeq(added) /\ ItemsOf(added) = {M(c) : c \in ItemsOf(kept)}
  <2>1. Len(kept) \in Nat /\ DOMAIN kept = 1 .. Len(kept)
    BY <1>4, IsSeqIs
  <2>2. added = [i \in 1 .. Len(kept) |-> added[i]]
    BY <2>1
  <2>3. ItemsOf(added) = {M(c) : c \in ItemsOf(kept)}
    BY <2>1 DEF ItemsOf
  <2> HIDE DEF added
  <2> QED BY <2>1, <2>2, <2>3, ListIsSeq
<1> HIDE DEF added
<1>7. /\ IsSeq(mutants \o added)
      /\ ItemsOf(mutants \o added) = ItemsOf(mutants) \cup ItemsOf(added)
  BY <1>6, ConcatIsSeq
<1>8. ASSUME NEW c \in ItemsOf(kept)
      PROVE  /\ Place(M(c)) = c /\ c \in ItemsOf(candidates)
             /\ M(c).genre = c.genre
             /\ ~ExcludedByAttrRe(scopes, c)
             /\ c.genre = "StructField" \/ AllowsMutant(c)
             /\ M(c).fn = fn /\ M(c).constEval = (depth > 0)
  <2>1. Place(M(c)) = Place(c)
    BY DEF M, Place
  <2> QED BY <1>5, <2>1 DEF M, Allowed
<1>9. ItemsOf(mutants') = ItemsOf(mutants) \cup {M(c) : c \in ItemsOf(kept)}
  BY <1>1, <1>6, <1>7
<1>10. ASSUME NEW c \in ItemsOf(candidates), ~ExcludedByAttrRe(scopes, c),
              c.genre = "StructField" \/ AllowsMutant(c)
       PROVE  \E m \in ItemsOf(mutants') : Place(m) = c
  <2>1. PICK i \in DOMAIN candidates : candidates[i] = c
    BY DEF ItemsOf
  <2>2. i \in P
    BY <1>10, <2>1 DEF P, Allowed
  <2>3. c \in ItemsOf(kept)
    BY <1>4, <2>1, <2>2
  <2>4. M(c) \in ItemsOf(mutants') /\ Place(M(c)) = c
    BY <1>8, <1>9, <2>3
  <2> QED BY <2>4
<1> QED BY <1>1, <1>7, <1>8, <1>9, <1>10

-----------------------------------------------------------------------------
(* The candidates of each handler *)

CandidatesAt(n) ==
    CASE Kind(n) = "fn"     -> FnMutants(n)
      [] Kind(n) = "binary" -> BinaryMutants(n)
      [] Kind(n) = "unary"  -> UnaryMutants(n)
      [] Kind(n) = "if"     -> IfMutants(n)
      [] Kind(n) = "while"  -> WhileMutants(n)
      [] Kind(n) = "match"  -> ArmMutants(n) \o GuardMutants(n)
      [] Kind(n) = "lit"    -> LitMutants(n)
      [] Kind(n) = "struct" -> StructMutants(n)
      [] Kind(n) = "block"  -> BlockMutants(n)
      [] Kind(n) = "return" -> ReturnMutants(n)
      [] OTHER              -> <<>>

\* Every handler that enters a node collects the candidates of its kind.
LEMMA VisitCollects ==
    ASSUME NEW n \in Nodes, Visit(n), Enters(n)
    PROVE  \/ Collect(CandidatesAt(n), excludes', fns', constEvalDepth')
           \/ CandidatesAt(n) = <<>> /\ mutants' = mutants
<1>1. ~Skip(n) /\ ~Fail(n)
  BY DEF Enters, Proceeds, Skip, Fail
<1> USE DEF CandidatesAt, stacks
<1>2. CASE VisitFile(n)
  BY <1>2 DEF VisitFile
<1>3. CASE VisitFn(n)
  BY <1>3 DEF VisitFn
<1>4. CASE VisitNamespace(n)
  BY <1>4 DEF VisitNamespace
<1>5. CASE VisitMod(n)
  BY <1>5 DEF VisitMod
<1>6. CASE VisitConst(n)
  BY <1>6 DEF VisitConst
<1>7. CASE VisitCall(n)
  BY <1>7 DEF VisitCall
<1>8. CASE VisitBinary(n)
  BY <1>8 DEF VisitBinary
<1>9. CASE VisitUnary(n)
  BY <1>9 DEF VisitUnary
<1>10. CASE VisitIf(n)
  BY <1>10 DEF VisitIf
<1>11. CASE VisitWhile(n)
  BY <1>11 DEF VisitWhile
<1>12. CASE VisitMatch(n)
  BY <1>12 DEF VisitMatch
<1>13. CASE VisitLit(n)
  BY <1>13 DEF VisitLit
<1>14. CASE VisitStruct(n)
  BY <1>14 DEF VisitStruct
<1>15. CASE VisitBlock(n)
  BY <1>15 DEF VisitBlock
<1>16. CASE VisitClosure(n)
  BY <1>16 DEF VisitClosure
<1>17. CASE VisitReturn(n)
  BY <1>17 DEF VisitReturn
<1>18. CASE VisitOther(n)
  BY <1>18 DEF VisitOther, Handled, Scoped, Skippable
<1> QED BY <1>1, <1>2, <1>3, <1>4, <1>5, <1>6, <1>7, <1>8, <1>9, <1>10, <1>11, <1>12, <1>13,
           <1>14, <1>15, <1>16, <1>17, <1>18 DEF Visit

\* The child of a node with a role, if there is one.
LEMMA ChildIs ==
    ASSUME NEW n, NEW role, HasChild(n, role)
    PROVE  Child(n, role) \in Nodes /\ ast[Child(n, role)].up = n /\ ast[Child(n, role)].role = role
<1>1. \E c \in Children(n) : ast[c].role = role
  BY DEF HasChild
<1>2. Child(n, role) \in Children(n) /\ ast[Child(n, role)].role = role
  BY <1>1 DEF Child
<1> QED BY <1>2 DEF Children

\* A set of nodes, as a list.
LEMMA NodesInOrder ==
    ASSUME ast \in Asts, NEW S \in SUBSET Nodes
    PROVE  /\ InOrder(S) \in Seq(Nat) /\ Follows(InOrder(S), S) /\ Len(InOrder(S)) = Cardinality(S)
           /\ IsSeq(InOrder(S)) /\ ItemsOf(InOrder(S)) = S
           /\ S \in SUBSET Nat /\ IsFiniteSet(S)
<1>1. Len(ast) \in Nat /\ Nodes = 1 .. Len(ast) /\ \A n \in S : n \in Nat
  BY TreeIs
<1>2. IsFiniteSet(S) /\ S \in SUBSET Nat
  <2>1. IsFiniteSet(1 .. Len(ast)) /\ S \in SUBSET (1 .. Len(ast))
    BY <1>1, FS_Interval
  <2>2. IsFiniteSet(S)
    BY <2>1, FS_Subset
  <2> QED BY <1>1, <2>2
<1> DEFINE s == InOrder(S)
<1>3. s \in Seq(S) /\ Len(s) = Cardinality(S) /\ Follows(s, S)
  BY <1>2, InOrderIs
<1>4. ItemsOf(s) = S
  BY <1>3 DEF Follows
<1> HIDE DEF s
<1>5. \A i \in 1 .. Len(s) : s[i] \in Nat
  <2>1. \A i \in 1 .. Len(s) : s[i] \in S
    BY <1>3
  <2> QED BY <1>1, <2>1
<1>6. s \in Seq(Nat)
  BY <1>3, <1>5
<1> QED BY <1>2, <1>3, <1>4, <1>6 DEF s, IsSeq

\* The fields of a candidate.
LEMMA CandidateIs ==
    \A x, genre, value : /\ Candidate(x, genre, value).node = x
                         /\ Candidate(x, genre, value).genre = genre
                         /\ Candidate(x, genre, value).value = value
                         /\ Place(Candidate(x, genre, value)) = Candidate(x, genre, value)
BY DEF Candidate, Place

\* Candidates made one by one from a list.
LEMMA EachIsSeq ==
    ASSUME NEW s, IsSeq(s), NEW genre, NEW value
    PROVE  LET t == [i \in DOMAIN s |-> Candidate(s[i], genre, value)]
           IN  IsSeq(t) /\ ItemsOf(t) = {Candidate(x, genre, value) : x \in ItemsOf(s)}
<1> DEFINE t == [i \in DOMAIN s |-> Candidate(s[i], genre, value)]
<1>1. Len(s) \in Nat /\ DOMAIN s = 1 .. Len(s)
  BY IsSeqIs
<1>2. t = [i \in 1 .. Len(s) |-> t[i]]
  BY <1>1
<1>3. ItemsOf(t) = {Candidate(x, genre, value) : x \in ItemsOf(s)}
  BY <1>1 DEF ItemsOf
<1> HIDE DEF t
<1>4. IsSeq(t)
  BY <1>1, <1>2, ListIsSeq
<1> QED BY <1>3, <1>4 DEF t

\* Values put one by one in the same place.
LEMMA ValuesIsSeq ==
    ASSUME NEW s, IsSeq(s), NEW x, NEW genre
    PROVE  LET t == [i \in DOMAIN s |-> Candidate(x, genre, s[i])]
           IN  IsSeq(t) /\ ItemsOf(t) = {Candidate(x, genre, v) : v \in ItemsOf(s)}
<1> DEFINE t == [i \in DOMAIN s |-> Candidate(x, genre, s[i])]
<1>1. Len(s) \in Nat /\ DOMAIN s = 1 .. Len(s)
  BY IsSeqIs
<1>2. t = [i \in 1 .. Len(s) |-> t[i]]
  BY <1>1
<1>3. ItemsOf(t) = {Candidate(x, genre, v) : v \in ItemsOf(s)}
  BY <1>1 DEF ItemsOf
<1> HIDE DEF t
<1>4. IsSeq(t)
  BY <1>1, <1>2, ListIsSeq
<1> QED BY <1>3, <1>4 DEF t

\* The table of operators holds lists.
LEMMA OperatorsAreSeq == \A op : IsSeq(ReplacementsOf(op))
<1> SUFFICES ASSUME NEW op PROVE IsSeq(ReplacementsOf(op))
  OBVIOUS
<1> DEFINE Q(s) == IsSeq(s)
<1>3. \A a, b, c : Q(<<a>>) /\ Q(<<a, b>>) /\ Q(<<a, b, c>>)
  BY DEF IsSeq, ItemsOf
<1> HIDE DEF Q
<1>1. CASE op \in DOMAIN OperatorReplacements
  <2>1. Q(OperatorReplacements[op])
    <3>1. op \in {"==", "!=", "&&", "||", "<", ">", "<=", ">=", "+", "-", "*", "/", "%", "<<",
                  ">>", "&", "|", "^", "+=", "-=", "*=", "/=", "%=", "<<=", ">>=", "&=", "|=", "^="}
      BY <1>1 DEF OperatorReplacements
    <3>2. CASE op \in {"==", "!=", "&&", "||", "<", ">"}
      <4>1. OperatorReplacements[op] \in {<<"!=">>, <<"==">>, <<"||">>, <<"&&">>,
                                         <<"==", ">", "<=">>, <<"==", "<", ">=">>}
        BY <3>2 DEF OperatorReplacements
      <4> QED BY <1>3, <4>1
    <3>3. CASE op \in {"<=", ">=", "-", "*", "-=", "*="}
      <4>1. OperatorReplacements[op] \in {<<">", "<">>, <<"<", ">">>, <<"+", "/">>, <<"+=", "/=">>}
        BY <3>3 DEF OperatorReplacements
      <4> QED BY <1>3, <4>1
    <3>4. CASE op \in {"+", "+=", "/", "/=", "%", "%="}
      <4>1. OperatorReplacements[op] \in {<<"-", "*">>, <<"-=", "*=">>, <<"%", "*">>, <<"%=", "*=">>,
                                         <<"/", "+">>, <<"/=", "+=">>}
        BY <3>4 DEF OperatorReplacements
      <4> QED BY <1>3, <4>1
    <3>5. CASE op \in {"<<", ">>", "<<=", ">>=", "&", "|", "^", "&=", "|=", "^="}
      <4>1. OperatorReplacements[op] \in {<<">>">>, <<"<<">>, <<">>=">>, <<"<<=">>, <<"|", "^">>,
                <<"&", "^">>, <<"|", "&">>, <<"|=">>, <<"&=">>, <<"|=", "&=">>}
        BY <3>5 DEF OperatorReplacements
      <4> QED BY <1>3, <4>1
    <3> QED BY <3>1, <3>2, <3>3, <3>4, <3>5
  <2> QED BY <1>1, <2>1 DEF ReplacementsOf, Q
<1>2. CASE op \notin DOMAIN OperatorReplacements
  BY <1>2, EmptyIsSeq DEF ReplacementsOf
<1> QED BY <1>1, <1>2

\* The end of a stack is the last of what it follows.
LEMMA TopIs ==
    ASSUME NEW S \in SUBSET Nat, NEW s \in Seq(Nat), Follows(s, S)
    PROVE  /\ s # <<>> => Top(s) \in S /\ \A m \in S : m <= Top(s)
           /\ Last(S) = IF s = <<>> THEN 0 ELSE Top(s)
<1>1. /\ Len(s) \in Nat
      /\ \A i \in 1 .. Len(s) : s[i] \in S /\ s[i] \in Nat
      /\ \A m \in S : \E i \in 1 .. Len(s) : s[i] = m
      /\ \A i, j \in 1 .. Len(s) : i < j => s[i] < s[j]
      /\ s = <<>> <=> S = {}
      /\ Len(s) = 0 <=> S = {}
  BY FollowsIs
<1>2. CASE s = <<>>
  BY <1>1, <1>2 DEF Last
<1>3. CASE s # <<>>
  <2>1. Len(s) \in 1 .. Len(s)
    BY <1>1, <1>3
  <2>2. Top(s) \in S /\ Top(s) = s[Len(s)] /\ Top(s) \in Nat
    BY <1>1, <2>1 DEF Top
  <2>3. \A m \in S : m <= Top(s)
    <3> SUFFICES ASSUME NEW m \in S PROVE m <= Top(s)
      OBVIOUS
    <3>1. PICK i \in 1 .. Len(s) : s[i] = m
      BY <1>1
    <3>2. i = Len(s) \/ i < Len(s)
      BY <1>1
    <3>3. i = Len(s) \/ m < s[Len(s)]
      BY <1>1, <2>1, <3>1, <3>2
    <3> QED BY <1>1, <2>2, <3>1, <3>3
  <2>4. \A k \in S : (\A m \in S : m <= k) => k = Top(s)
    BY <2>2, <2>3
  <2>5. Last(S) \in S /\ \A m \in S : m <= Last(S)
    BY <1>1, <1>3, <2>2, <2>3 DEF Last
  <2> QED BY <1>3, <2>2, <2>3, <2>4, <2>5
<1> QED BY <1>2, <1>3

\* The function around the node being visited.
LEMMA FnsTop ==
    ASSUME StacksInv
    PROVE  /\ fns # <<>> => /\ Top(fns) \in Nodes /\ Kind(Top(fns)) = "fn"
                            /\ Top(fns) \in ItemsOf(open)
           /\ Last(OfKind({"fn"}, ItemsOf(open))) = IF fns = <<>> THEN 0 ELSE Top(fns)
<1> DEFINE F == OfKind({"fn"}, ItemsOf(open))
<1>1. F \in SUBSET Nat /\ fns \in Seq(Nat) /\ Follows(fns, F)
  BY OpenIs DEF StacksInv, ScopesInv, ScopesFollowPath, OfKind
<1>2. \A f \in F : f \in Nodes /\ Kind(f) = "fn" /\ f \in ItemsOf(open)
  BY OpenIs DEF StacksInv, OfKind
<1> HIDE DEF F
<1>3. /\ fns # <<>> => Top(fns) \in F
      /\ Last(F) = IF fns = <<>> THEN 0 ELSE Top(fns)
  BY <1>1, TopIs
<1> QED BY <1>2, <1>3 DEF F

\* The values of a return type are a list.
LEMMA ReturnsIs ==
    ASSUME ast \in Asts, NEW n \in Nodes, Kind(n) = "fn"
    PROVE  IsSeq(Returns[ast[n].type])
<1>1. ast[n].type \in DOMAIN Returns
  BY VisitorAssumption DEF Nodes, Kind
<1> QED BY <1>1, VisitorAssumption DEF IsSeq

\* The handler that made a candidate, from its genre and place.
LEMMA OriginIs ==
    ASSUME NEW x, NEW value
    PROVE  /\ \A genre : LET c == Candidate(x, genre, value) IN c.genre = genre /\ Place(c) = c
           /\ Origin(Candidate(x, "FnValue", value)) = x
           /\ Origin(Candidate(x, "BinaryOperator", value)) = x
           /\ Origin(Candidate(x, "UnaryOperator", value)) = x
           /\ Origin(Candidate(x, "BoolLiteral", value)) = x
           /\ Origin(Candidate(x, "MatchArmGuard", value)) = MatchAround(x)
           /\ Origin(Candidate(x, "IfCondition", value)) = ast[x].up
           /\ Origin(Candidate(x, "WhileCondition", value)) = ast[x].up
           /\ Origin(Candidate(x, "MatchArm", value)) = ast[x].up
           /\ Origin(Candidate(x, "StructField", value)) = ast[x].up
           /\ Origin(Candidate(x, "DeleteStatement", value)) = ast[x].up
           /\ Origin(Candidate(x, "ReturnValue", value)) = ast[x].up
BY CandidateIs DEF Origin

CandidatesFit(n, candidates) ==
    /\ IsSeq(candidates)
    /\ \A c \in ItemsOf(candidates) :
          /\ Origin(c) = n /\ Place(c) = c
          /\ c.genre = "ReturnValue" => Kind(n) = "return"

\* One candidate, or none.
LEMMA MaybeFits ==
    ASSUME NEW b, NEW x, NEW n, Origin(x) = n, Place(x) = x, x.genre # "ReturnValue"
    PROVE  CandidatesFit(n, Maybe(b, <<x>>))
<1>1. CandidatesFit(n, <<>>)
  BY EmptyIsSeq DEF CandidatesFit
<1>2. CandidatesFit(n, <<x>>)
  BY SingleIsSeq DEF CandidatesFit
<1> QED BY <1>1, <1>2 DEF Maybe

\* The values of a body belong to the function.
LEMMA FnFits ==
    ASSUME ast \in Asts, NEW n \in Nodes, Kind(n) = "fn"
    PROVE  CandidatesFit(n, FnMutants(n))
<1> DEFINE all == Returns[ast[n].type]
           P == {i \in DOMAIN all : ~BodyIs(n, all[i])}
           values == Select(all, P)
<1>1. IsSeq(all)
  BY ReturnsIs
<1>2. P \in SUBSET DOMAIN all
  OBVIOUS
<1>3. FnMutants(n) = [i \in DOMAIN values |-> Candidate(n, "FnValue", values[i])]
  BY DEF FnMutants
<1> HIDE DEF all, P
<1>4. IsSeq(values)
  BY <1>1, <1>2, SelectIs
<1> HIDE DEF values
<1>5. /\ IsSeq(FnMutants(n))
      /\ ItemsOf(FnMutants(n)) = {Candidate(n, "FnValue", v) : v \in ItemsOf(values)}
  BY <1>3, <1>4, ValuesIsSeq
<1> QED BY <1>5, OriginIs DEF CandidatesFit

\* The values of a return belong to the function around it.
LEMMA ReturnFits ==
    ASSUME StacksInv, NEW n \in Nodes, Kind(n) = "return"
    PROVE  /\ CandidatesFit(n, ReturnMutants(n))
           /\ \A c \in ItemsOf(ReturnMutants(n)) :
                 /\ c.node \in Nodes /\ closureDepth = 0 /\ fns # <<>>
                 /\ c.value \in ItemsOf(Returns[ast[Top(fns)].type])
<1>1. CASE ~ReturnApplies(n)
  BY <1>1, EmptyIsSeq DEF ReturnMutants, CandidatesFit
<1>2. CASE ReturnApplies(n)
  <2> DEFINE value == Child(n, "value")
             all == Returns[ast[Top(fns)].type]
             P == {i \in DOMAIN all : ~(Kind(value) = "lit" /\ ast[value].name = all[i])}
             values == Select(all, P)
  <2>1. closureDepth = 0 /\ fns # <<>> /\ HasChild(n, "value")
    BY <1>2 DEF ReturnApplies
  <2>2. value \in Nodes /\ ast[value].up = n
    BY <2>1, ChildIs
  <2>3. IsSeq(all)
    BY <2>1, FnsTop, ReturnsIs DEF StacksInv, PathInv
  <2>4. P \in SUBSET DOMAIN all
    OBVIOUS
  <2>5. ReturnMutants(n) = [i \in DOMAIN values |-> Candidate(value, "ReturnValue", values[i])]
    BY <1>2 DEF ReturnMutants, ReturnValues
  <2>6. all = Returns[ast[Top(fns)].type]
    OBVIOUS
  <2> HIDE DEF all, P, value
  <2>7. IsSeq(values) /\ ItemsOf(values) = {all[i] : i \in P}
    BY <2>3, <2>4, SelectIs
  <2>8. ItemsOf(values) \subseteq ItemsOf(all)
    BY <2>4, <2>7 DEF ItemsOf
  <2> HIDE DEF values
  <2>9. /\ IsSeq(ReturnMutants(n))
        /\ ItemsOf(ReturnMutants(n)) = {Candidate(value, "ReturnValue", v) : v \in ItemsOf(values)}
    BY <2>5, <2>7, ValuesIsSeq
  <2> QED BY <2>1, <2>2, <2>6, <2>8, <2>9, OriginIs, CandidateIs DEF CandidatesFit
<1> QED BY <1>1, <1>2

\* Arms belong to the match.
LEMMA ArmsFit ==
    ASSUME ast \in Asts, NEW n \in Nodes
    PROVE  CandidatesFit(n, ArmMutants(n))
<1> DEFINE D == {a \in Arms(n) : ~Flag(a, "wild") /\ ~HasChild(a, "guard")}
           deleted == InOrder(D)
           t == [i \in DOMAIN deleted |-> Candidate(deleted[i], "MatchArm", Nothing)]
<1>1. \A a \in D : a \in Nodes /\ ast[a].up = n
  BY DEF Arms, Children
<1>2. ArmMutants(n) = Maybe(HasCatchAll(n), t)
  BY DEF ArmMutants
<1> HIDE DEF D
<1>3. IsSeq(deleted) /\ ItemsOf(deleted) = D
  BY <1>1, NodesInOrder
<1> HIDE DEF deleted
<1>4. IsSeq(t) /\ ItemsOf(t) = {Candidate(x, "MatchArm", Nothing) : x \in ItemsOf(deleted)}
  BY <1>3, EachIsSeq
<1> HIDE DEF t
<1>5. CandidatesFit(n, t)
  BY <1>1, <1>3, <1>4, OriginIs DEF CandidatesFit
<1> QED BY <1>2, <1>5, EmptyIsSeq DEF Maybe, CandidatesFit

\* Guards belong to the match.
LEMMA GuardsFit ==
    ASSUME ast \in Asts, NEW n \in Nodes
    PROVE  CandidatesFit(n, GuardMutants(n))
<1> DEFINE g == GuardsOf(n)
           t == GuardMutants(n)
           V(i) == IF i % 2 = 1 THEN True ELSE False
<1>1. t = [i \in 1 .. 2 * Len(g) |-> Candidate(g[(i + 1) \div 2], "MatchArmGuard", V(i))]
  BY DEF GuardMutants
<1>2. Len(g) \in Nat /\ \A i \in 1 .. Len(g) : MatchAround(g[i]) = n
  <2>1. g \in Seq(Nat) /\ \A x \in ItemsOf(g) : MatchAround(x) = n
    BY GuardsAre
  <2> QED BY <2>1 DEF ItemsOf
<1> HIDE DEF g, t, V
<1>3. IsSeq(t)
  <2>1. 2 * Len(g) \in Nat /\ t = [i \in 1 .. 2 * Len(g) |-> t[i]]
    BY <1>1, <1>2
  <2> QED BY <2>1, ListIsSeq
<1>4. ASSUME NEW i \in 1 .. 2 * Len(g)
      PROVE  Origin(t[i]) = n /\ Place(t[i]) = t[i] /\ t[i].genre # "ReturnValue"
  <2>1. (i + 1) \div 2 \in 1 .. Len(g)
    BY <1>2
  <2> QED BY <1>1, <1>2, <2>1, OriginIs
<1>5. DOMAIN t = 1 .. 2 * Len(g)
  BY <1>1
<1> QED BY <1>3, <1>4, <1>5 DEF t, CandidatesFit, ItemsOf

\* What a match offers.
LEMMA MatchFits ==
    ASSUME ast \in Asts, NEW n \in Nodes
    PROVE  CandidatesFit(n, ArmMutants(n) \o GuardMutants(n))
BY ArmsFit, GuardsFit, ConcatIsSeq DEF CandidatesFit

\* The candidates of a handler are in what it visits.
LEMMA CandidatesFitTheirPlace ==
    ASSUME StacksInv, NEW n \in Nodes
    PROVE  CandidatesFit(n, CandidatesAt(n))
<1>1. ast \in Asts
  BY DEF StacksInv, PathInv
<1>2. CASE Kind(n) = "fn"
  BY <1>1, <1>2, FnFits DEF CandidatesAt
<1>3. CASE Kind(n) = "binary"
  <2> DEFINE s == ReplacementsOf(ast[n].name)
             texts == [i \in DOMAIN s |-> Text(s[i])]
  <2>1. IsSeq(s) /\ Len(s) \in Nat /\ DOMAIN s = 1 .. Len(s)
    BY OperatorsAreSeq, IsSeqIs
  <2>2. BinaryMutants(n) = [i \in DOMAIN texts |-> Candidate(n, "BinaryOperator", texts[i])]
    BY DEF BinaryMutants
  <2> HIDE DEF s
  <2>3. IsSeq(texts)
    <3>1. texts = [i \in 1 .. Len(s) |-> texts[i]]
      BY <2>1
    <3> HIDE DEF texts
    <3> QED BY <2>1, <3>1, ListIsSeq
  <2> HIDE DEF texts
  <2>4. /\ IsSeq(BinaryMutants(n))
        /\ ItemsOf(BinaryMutants(n)) = {Candidate(n, "BinaryOperator", v) : v \in ItemsOf(texts)}
    BY <2>2, <2>3, ValuesIsSeq
  <2>5. CandidatesFit(n, BinaryMutants(n))
    BY <2>4, OriginIs DEF CandidatesFit
  <2> QED BY <1>3, <2>5 DEF CandidatesAt
<1>4. CASE Kind(n) = "unary"
  <2>1. CandidatesFit(n, UnaryMutants(n))
    BY MaybeFits, OriginIs DEF UnaryMutants
  <2> QED BY <1>4, <2>1 DEF CandidatesAt
<1>5. ASSUME Kind(n) \in {"if", "while"} PROVE ast[Child(n, "cond")].up = n
  <2>1. HasChild(n, "cond")
    BY <1>1, <1>5, SyntaxIs
  <2> QED BY <2>1, ChildIs
<1>6. CASE Kind(n) = "if"
  <2> DEFINE cond == Child(n, "cond")
             plain == IsPlainCondition(cond)
             exits == "exit" \in Flow[Child(n, "then")]
             a == Maybe(plain, <<Candidate(cond, "IfCondition", True)>>)
             b == Maybe(plain /\ ~exits, <<Candidate(cond, "IfCondition", False)>>)
  <2>1. IfMutants(n) = a \o b
    BY DEF IfMutants
  <2>2. ast[cond].up = n
    BY <1>5, <1>6
  <2> HIDE DEF cond
  <2>3. CandidatesFit(n, a) /\ CandidatesFit(n, b)
    BY <2>2, MaybeFits, OriginIs
  <2> HIDE DEF a, b
  <2>4. CandidatesFit(n, a \o b)
    BY <2>3, ConcatIsSeq DEF CandidatesFit
  <2> QED BY <1>6, <2>1, <2>4 DEF CandidatesAt
<1>7. CASE Kind(n) = "while"
  <2>1. CandidatesFit(n, WhileMutants(n))
    BY <1>5, <1>7, MaybeFits, OriginIs DEF WhileMutants
  <2> QED BY <1>7, <2>1 DEF CandidatesAt
<1>8. CASE Kind(n) = "match"
  BY <1>1, <1>8, MatchFits DEF CandidatesAt
<1>9. CASE Kind(n) = "lit"
  <2>1. CandidatesFit(n, LitMutants(n))
    BY MaybeFits, OriginIs DEF LitMutants
  <2> QED BY <1>9, <2>1 DEF CandidatesAt
<1>10. CASE Kind(n) = "struct"
  <2> DEFINE F == {c \in Children(n) : Kind(c) = "field" /\ ~Flag(c, "indexed")}
             fields == InOrder(F)
             t == [i \in DOMAIN fields |-> Candidate(fields[i], "StructField", Nothing)]
  <2>1. \A c \in F : c \in Nodes /\ ast[c].up = n
    BY DEF Children
  <2>2. StructMutants(n) = Maybe(HasChild(n, "rest"), t)
    BY DEF StructMutants
  <2> HIDE DEF F
  <2>3. IsSeq(fields) /\ ItemsOf(fields) = F
    BY <1>1, <2>1, NodesInOrder
  <2> HIDE DEF fields
  <2>4. IsSeq(t) /\ ItemsOf(t) = {Candidate(x, "StructField", Nothing) : x \in ItemsOf(fields)}
    BY <2>3, EachIsSeq
  <2> HIDE DEF t
  <2>5. CandidatesFit(n, t)
    BY <2>1, <2>3, <2>4, OriginIs DEF CandidatesFit
  <2> QED BY <1>10, <2>2, <2>5, EmptyIsSeq DEF Maybe, CandidatesFit, CandidatesAt
<1>11. CASE Kind(n) = "block"
  <2> DEFINE D == {c \in Children(n) : Discards(n, c) /\ Flow[c] = {} /\ ~IsSkippedCall(c)}
             deleted == InOrder(D)
  <2>1. \A c \in D : c \in Nodes /\ ast[c].up = n
    BY DEF Children
  <2>2. BlockMutants(n) = [i \in DOMAIN deleted |-> Candidate(deleted[i], "DeleteStatement", Nothing)]
    BY DEF BlockMutants, DeletableStatements
  <2> HIDE DEF D
  <2>3. IsSeq(deleted) /\ ItemsOf(deleted) = D
    BY <1>1, <2>1, NodesInOrder
  <2> HIDE DEF deleted
  <2>4. /\ IsSeq(BlockMutants(n))
        /\ ItemsOf(BlockMutants(n)) = {Candidate(x, "DeleteStatement", Nothing) : x \in ItemsOf(deleted)}
    BY <2>2, <2>3, EachIsSeq
  <2> QED BY <1>11, <2>1, <2>3, <2>4, OriginIs DEF CandidatesFit, CandidatesAt
<1>12. CASE Kind(n) = "return"
  BY <1>12, ReturnFits DEF CandidatesAt
<1>13. CASE Kind(n) \notin {"fn", "binary", "unary", "if", "while", "match", "lit", "struct", "block",
                            "return"}
  BY <1>13, EmptyIsSeq DEF CandidatesFit, CandidatesAt
<1> QED BY <1>2, <1>3, <1>4, <1>6, <1>7, <1>8, <1>9, <1>10, <1>11, <1>12, <1>13

-----------------------------------------------------------------------------
(* Every mutant fits its place *)

Fits(m) ==
    LET path == Path(Origin(m))
    IN  /\ Origin(m) \in Nodes
        /\ Visited(Origin(m))
        /\ ~ExcludedAt(Origin(m), Place(m))
        /\ m.fn = Last(OfKind({"fn"}, path))
        /\ m.constEval = (\E n \in path : EvaluatesConst(n))

FitsFunction(m) ==
    m.genre = "ReturnValue" =>
        LET f == Last(OfKind({"fn", "closure"}, Above(m.node)))
        IN  f # 0 /\ Kind(f) = "fn" /\ m.value \in ItemsOf(Returns[ast[f].type])

MutantsInv ==
    /\ IsSeq(mutants)
    /\ \A m \in ItemsOf(mutants) : Fits(m) /\ FitsFunction(m)

\* The path as the visitor's state has it, once it is in a node.
LEMMA EnteredIs ==
    ASSUME StacksInv, NEW n \in Nodes, Enters(n), StacksInv'
    PROVE  /\ Path(n) = ItemsOf(open) \cup {n}
           /\ Visited(n)
           /\ ItemsOf(excludes') = {a \in OfKind(Scoped, Path(n)) : ScopePushes(ast[a].attrs)}
           /\ Last(OfKind({"fn"}, Path(n))) = IF fns' = <<>> THEN 0 ELSE Top(fns')
           /\ (constEvalDepth' > 0) = (\E a \in Path(n) : EvaluatesConst(a))
<1>1. Ready(n) /\ Enterable(n) /\ ast' = ast /\ filters' = filters
  BY DEF Enters, Proceeds, Enterable, tree
<1>2. Above(n) = ItemsOf(open) /\ Path(n) = ItemsOf(open) \cup {n}
  BY <1>1, ReadyIs DEF StacksInv, Path
<1>3. ItemsOf(open)' = Path(n)
  BY <1>2, EntersPath DEF StacksInv
<1>4. Visited(n)
  <2>1. \A a \in ItemsOf(open) : Enterable(a)
    BY OpenIs DEF StacksInv
  <2> QED BY <1>1, <1>2, <2>1 DEF Visited, Enterable
<1>5. /\ {a \in OfKind(Scoped, ItemsOf(open)) : ScopePushes(ast[a].attrs)}'
            = {a \in OfKind(Scoped, Path(n)) : ScopePushes(ast[a].attrs)}
      /\ OfKind({"fn"}, ItemsOf(open))' = OfKind({"fn"}, Path(n))
      /\ {a \in ItemsOf(open) : EvaluatesConst(a)}' = {a \in Path(n) : EvaluatesConst(a)}
  BY <1>1, <1>3, TreeStays DEF OfKind
<1>6. /\ Follows(excludes', {a \in OfKind(Scoped, Path(n)) : ScopePushes(ast[a].attrs)})
      /\ Follows(fns', OfKind({"fn"}, Path(n))) /\ fns' \in Seq(Nat)
      /\ constEvalDepth' = Cardinality({a \in Path(n) : EvaluatesConst(a)})
  BY <1>5 DEF StacksInv, ScopesInv, ScopesFollowPath, DepthsInv
<1>7. Path(n) \in SUBSET Nodes /\ Path(n) \in SUBSET Nat /\ IsFiniteSet(Path(n))
  <2>1. Path(n) \in SUBSET Nodes
    BY <1>2, OpenIs DEF StacksInv
  <2> QED BY <2>1, NodesInOrder DEF StacksInv, PathInv
<1>8. Last(OfKind({"fn"}, Path(n))) = IF fns' = <<>> THEN 0 ELSE Top(fns')
  <2> DEFINE F == OfKind({"fn"}, Path(n))
             q == fns'
  <2>1. F \in SUBSET Nat /\ q \in Seq(Nat) /\ Follows(q, F)
    BY <1>6, <1>7 DEF OfKind
  <2> HIDE DEF F, q
  <2>2. Last(F) = IF q = <<>> THEN 0 ELSE Top(q)
    BY <2>1, TopIs
  <2> QED BY <2>2 DEF F, q
<1>9. (constEvalDepth' > 0) = (\E a \in Path(n) : EvaluatesConst(a))
  <2> DEFINE E == {a \in Path(n) : EvaluatesConst(a)}
  <2>1. E \in SUBSET Path(n)
    OBVIOUS
  <2>2. (\E a \in Path(n) : EvaluatesConst(a)) <=> E # {}
    OBVIOUS
  <2> HIDE DEF E
  <2>3. IsFiniteSet(E)
    BY <1>7, <2>1, FS_Subset
  <2>4. Cardinality(E) \in Nat /\ (Cardinality(E) = 0 <=> E = {})
    BY <2>3, FS_CardinalityType, FS_EmptySet
  <2>5. Cardinality(E) > 0 <=> E # {}
    BY <2>4
  <2>6. constEvalDepth' = Cardinality(E)
    BY <1>6 DEF E
  <2>7. constEvalDepth' > 0 <=> \E a \in Path(n) : EvaluatesConst(a)
    BY <2>2, <2>5, <2>6
  <2> DEFINE deep == constEvalDepth' > 0
             const == \E a \in Path(n) : EvaluatesConst(a)
  <2>8. deep \in BOOLEAN /\ const \in BOOLEAN
    OBVIOUS
  <2>9. deep <=> const
    BY <2>7
  <2> HIDE DEF deep, const
  <2>10. deep = const
    BY ONLY <2>8, <2>9
  <2> QED BY <2>10 DEF deep, const
<1> QED BY <1>2, <1>4, <1>6, <1>8, <1>9 DEF Follows

\* The excludes on the stack are those in force.
LEMMA ExcludedIs ==
    ASSUME NEW n, NEW scopes, NEW c,
           ItemsOf(scopes) = {a \in OfKind(Scoped, Path(n)) : ScopePushes(ast[a].attrs)}
    PROVE  ExcludedByAttrRe(scopes, c) <=> ExcludedAt(n, c)
BY DEF ExcludedByAttrRe, ExcludedAt, ExcludedIn, ScopePushes

\* A return that is mutated has no closure between it and its function.
LEMMA ReturnIsInFunction ==
    ASSUME StacksInv, NEW n \in Nodes, Ready(n), Kind(n) = "return",
           NEW c \in ItemsOf(ReturnMutants(n)), c.genre = "ReturnValue"
    PROVE  FitsFunction(c)
<1>1. /\ Origin(c) = n /\ c.node \in Nodes /\ closureDepth = 0 /\ fns # <<>>
      /\ c.value \in ItemsOf(Returns[ast[Top(fns)].type])
  BY ReturnFits DEF CandidatesFit
<1>2. ast[c.node].up = n /\ n # 0
  BY <1>1, OpenIs DEF Origin, StacksInv
<1>3. Above(c.node) = ItemsOf(open) \cup {n}
  BY <1>1, <1>2, AboveIs, ReadyIs DEF StacksInv, PathInv
<1>4. OfKind({"closure"}, ItemsOf(open)) = {}
  <2> DEFINE C == OfKind({"closure"}, ItemsOf(open))
  <2>1. C \in SUBSET ItemsOf(open) /\ Cardinality(C) = 0
    BY <1>1 DEF OfKind, StacksInv, DepthsInv
  <2> HIDE DEF C
  <2>2. IsFiniteSet(C)
    BY <2>1, OpenIsFinite, FS_Subset DEF StacksInv
  <2>3. C = {}
    BY <2>1, <2>2, FS_EmptySet
  <2> QED BY <2>3 DEF C
<1>5. OfKind({"fn", "closure"}, Above(c.node)) = OfKind({"fn"}, ItemsOf(open))
  BY <1>3, <1>4 DEF OfKind
<1>6. Last(OfKind({"fn", "closure"}, Above(c.node))) = Top(fns)
      /\ Top(fns) \in Nodes /\ Kind(Top(fns)) = "fn"
  BY <1>1, <1>5, FnsTop
<1>7. Top(fns) # 0
  BY <1>6, OpenIs DEF StacksInv
<1> QED BY <1>1, <1>6, <1>7 DEF FitsFunction

\* What was collected does not depend on what is visited next.
LEMMA FitsStays ==
    ASSUME ast' = ast, filters' = filters, NEW m, Fits(m) /\ FitsFunction(m)
    PROVE  (Fits(m) /\ FitsFunction(m))'
<1>1. \A n : Above(n)' = Above(n) /\ Path(n)' = Path(n)
  BY TreeStays DEF Path
<1>2. \A n : Origin(n)' = Origin(n)
  BY DEF Origin, MatchAround
<1>3. \A n : Visited(n)' = Visited(n)
  BY <1>1, TreeStays DEF Visited
<1>4. \A n, c : ExcludedAt(n, c)' = ExcludedAt(n, c)
  BY <1>1, TreeStays DEF ExcludedAt, ExcludedIn, OfKind
<1>5. \A kinds, S : OfKind(kinds, S)' = OfKind(kinds, S)
  BY TreeStays DEF OfKind
<1>6. Fits(m)'
  BY <1>1, <1>2, <1>3, <1>4, <1>5, TreeStays DEF Fits, Place, Candidate
<1>7. FitsFunction(m)'
  BY <1>1, <1>5, TreeStays DEF FitsFunction
<1> QED BY <1>6, <1>7

\* What a handler collects fits where the walk is.
LEMMA MutantsEnters ==
    ASSUME StacksInv, MutantsInv, StacksInv', NEW n \in Nodes, Visit(n), Enters(n)
    PROVE  MutantsInv'
<1>1. ast' = ast /\ filters' = filters /\ Ready(n)
  BY DEF Enters, tree, Proceeds
<1>2. IsSeq(mutants) /\ \A m \in ItemsOf(mutants) : Fits(m) /\ FitsFunction(m)
  BY DEF MutantsInv
<1>3. IsSeq(mutants') /\ \A m \in ItemsOf(mutants') : Fits(m) /\ FitsFunction(m)
  <2>1. CASE mutants' = mutants
    BY <1>2, <2>1
  <2>2. CASE Collect(CandidatesAt(n), excludes', fns', constEvalDepth')
    <3>1. CandidatesFit(n, CandidatesAt(n))
      BY CandidatesFitTheirPlace
    <3>2. /\ IsSeq(mutants')
          /\ \A m \in ItemsOf(mutants') \ ItemsOf(mutants) :
                /\ Place(m) \in ItemsOf(CandidatesAt(n))
                /\ ~ExcludedByAttrRe(excludes', Place(m))
                /\ m.fn = (IF fns' = <<>> THEN 0 ELSE Top(fns'))
                /\ m.constEval = (constEvalDepth' > 0)
      BY <1>2, <2>2, <3>1, CollectIs DEF CandidatesFit
    <3>3. ASSUME NEW m \in ItemsOf(mutants'), m \notin ItemsOf(mutants)
          PROVE  Fits(m) /\ FitsFunction(m)
      <4> DEFINE c == Place(m)
      <4>1. c \in ItemsOf(CandidatesAt(n))
        BY <3>2, <3>3
      <4>2. Origin(c) = n /\ (c.genre = "ReturnValue" => Kind(n) = "return")
        BY <3>1, <4>1 DEF CandidatesFit
      <4>6. m.node = c.node /\ m.genre = c.genre /\ m.value = c.value
        BY CandidateIs DEF Place
      <4>7. Origin(m) = Origin(c)
        BY <4>6 DEF Origin
      <4> HIDE DEF c
      <4>3. FitsFunction(m)
        <5>1. ASSUME m.genre = "ReturnValue" PROVE FitsFunction(c)
          BY <1>1, <4>1, <4>2, <4>6, <5>1, ReturnIsInFunction DEF CandidatesAt
        <5> QED BY <4>6, <5>1 DEF FitsFunction
      <4>4. ~ExcludedAt(n, Place(m))
        BY <3>2, <3>3, EnteredIs, ExcludedIs
      <4>5. /\ Visited(n) /\ m.fn = Last(OfKind({"fn"}, Path(n)))
            /\ m.constEval = (\E a \in Path(n) : EvaluatesConst(a))
        <5>1. /\ m.fn = (IF fns' = <<>> THEN 0 ELSE Top(fns'))
              /\ m.constEval = (constEvalDepth' > 0)
          BY <3>2, <3>3
        <5>2. /\ Visited(n)
              /\ Last(OfKind({"fn"}, Path(n))) = (IF fns' = <<>> THEN 0 ELSE Top(fns'))
              /\ (constEvalDepth' > 0) = (\E a \in Path(n) : EvaluatesConst(a))
          BY EnteredIs
        <5>3. m.constEval = (\E a \in Path(n) : EvaluatesConst(a))
          BY ONLY <5>1, <5>2, Zenon
        <5> QED BY <5>1, <5>2, <5>3
      <4> QED BY <4>2, <4>3, <4>4, <4>5, <4>7 DEF Fits
    <3> QED BY <1>2, <3>2, <3>3
  <2> QED BY <2>1, <2>2, VisitCollects
<1>4. ItemsOf(mutants)' = ItemsOf(mutants')
  BY DEF ItemsOf
<1>5. IsSeq(mutants)'
  BY <1>3, <1>4 DEF IsSeq
<1> QED BY <1>1, <1>3, <1>4, <1>5, FitsStays DEF MutantsInv

\* Other steps collect nothing.
LEMMA MutantsStay ==
    ASSUME MutantsInv, ast' = ast, filters' = filters, mutants' = mutants
    PROVE  MutantsInv'
<1>1. ItemsOf(mutants)' = ItemsOf(mutants)
  BY DEF ItemsOf
<1>2. IsSeq(mutants)'
  BY <1>1 DEF IsSeq, MutantsInv
<1> QED BY <1>1, <1>2, FitsStays DEF MutantsInv

\* Every step keeps the invariant.
LEMMA MutantsStep ==
    ASSUME StacksInv, MutantsInv, StacksInv', [Next]_vars
    PROVE  MutantsInv'
<1>1. ASSUME NEW n \in Nodes, Passes(n) PROVE MutantsInv'
  BY <1>1, MutantsStay DEF Passes, tree, found
<1>2. ASSUME NEW n \in Nodes, Visit(n), Enters(n) PROVE MutantsInv'
  BY <1>2, MutantsEnters
<1>3. ASSUME NEW n \in Nodes, Leave(n) PROVE MutantsInv'
  BY <1>3, MutantsStay DEF Leave, tree, found
<1>4. CASE UNCHANGED vars
  BY <1>4, MutantsStay DEF vars, tree, found
<1> QED BY <1>1, <1>2, <1>3, <1>4, NextIs

\* Nothing has been collected.
LEMMA MutantsInit == Init => MutantsInv
<1> SUFFICES ASSUME Init PROVE MutantsInv
  OBVIOUS
<1>1. mutants = <<>>
  BY DEF Init
<1> QED BY <1>1, EmptyIsSeq DEF MutantsInv

\* For every tree, attributes and patterns: no mutant is below a skip, a place
\* that returns early or an exclude_re that matches it, whichever scopes are
\* nested how, and each has the function and the constness of its place
\* (collect_mutant in src/visit.rs).
THEOREM MutantsFit == Spec => []MutantsFitTheirPlace
<1>1. Init => StacksInv /\ MutantsInv
  BY StacksInit, MutantsInit
<1>2. StacksInv /\ MutantsInv /\ [Next]_vars => (StacksInv /\ MutantsInv)'
  BY StacksStep, MutantsStep
<1>3. MutantsInv => MutantsFitTheirPlace
  BY DEF MutantsInv, Fits, MutantsFitTheirPlace
<1> QED BY <1>1, <1>2, <1>3, PTL DEF Spec

\* The value of a return is replaced by one for the function around it, never
\* where a closure is in between (closure_depth in visit_expr_return).
THEOREM ReturnsFit == Spec => []ReturnsFitTheirFunction
<1>1. Init => StacksInv /\ MutantsInv
  BY StacksInit, MutantsInit
<1>2. StacksInv /\ MutantsInv /\ [Next]_vars => (StacksInv /\ MutantsInv)'
  BY StacksStep, MutantsStep
<1>3. MutantsInv => ReturnsFitTheirFunction
  BY DEF MutantsInv, FitsFunction, ReturnsFitTheirFunction
<1> QED BY <1>1, <1>2, <1>3, PTL DEF Spec

-----------------------------------------------------------------------------
(* The error and the modules to look up *)

\* What is passed over is not visited.
LEMMA PassedIs ==
    ASSUME PathInv, NEW n \in Nodes, Passes(n), NEW m \in Nodes, at <= m, m < at'
    PROVE  /\ at = n /\ ~Enterable(n)
           /\ m = n \/ n \in Above(m)
<1>1. at = n /\ at' = After(n) /\ ~Enterable(n)
  BY DEF Passes, Ready, Pass, Enterable
<1>2. Len(ast) \in Nat /\ Nodes = 1 .. Len(ast)
  BY OpenIs
<1>3. After(n) \in n + 1 .. Len(ast) + 1
  BY AfterIs DEF PathInv
<1>4. m = n \/ (n < m /\ m \in n + 1 .. After(n) - 1)
  BY <1>1, <1>2, <1>3
<1>5. m = n \/ n \in Above(m)
  BY <1>2, <1>4 DEF Above, Below
<1> QED BY <1>1, <1>5

FailingBefore(k) == {n \in Nodes : n < k /\ Fails(n) /\ \A a \in Above(n) : Enterable(a)}

ErrorInv ==
    IF FailingBefore(at) = {} THEN error = 0
    ELSE error \in FailingBefore(at) /\ \A n \in FailingBefore(at) : error <= n

\* There is no error.
LEMMA ErrorInit == Init => ErrorInv
<1> SUFFICES ASSUME Init PROVE ErrorInv
  OBVIOUS
<1>1. at = 1 /\ error = 0 /\ Nodes = 1 .. Len(ast) /\ Len(ast) \in Nat
  BY TreeIs DEF Init
<1>2. FailingBefore(1) = {}
  BY <1>1 DEF FailingBefore
<1> QED BY <1>1, <1>2 DEF ErrorInv

\* The first node that fails sets the error, and no other.
LEMMA ErrorStep ==
    ASSUME StacksInv, ErrorInv, [Next]_vars
    PROVE  ErrorInv'
<1>1. PathInv /\ Len(ast) \in Nat /\ Nodes = 1 .. Len(ast) /\ at \in Nat
  BY OpenIs DEF StacksInv
<1>2. ASSUME ast' = ast, filters' = filters, FailingBefore(at') = FailingBefore(at), error' = error
      PROVE  ErrorInv'
  <2>1. FailingBefore(at)' = FailingBefore(at')
    BY <1>2, TreeStays DEF FailingBefore
  <2> QED BY <1>2, <2>1 DEF ErrorInv
<1>3. ASSUME NEW n \in Nodes, Enters(n) PROVE ErrorInv'
  <2>1. at = n /\ at' = n + 1 /\ ~Fails(n)
    BY <1>3 DEF Enters, Proceeds, Ready, Descend
  <2>2. FailingBefore(n + 1) = FailingBefore(n)
    BY <1>1, <2>1 DEF FailingBefore
  <2> QED BY <1>2, <1>3, <2>1, <2>2 DEF Enters, tree
<1>4. ASSUME NEW n \in Nodes, Leave(n) PROVE ErrorInv'
  BY <1>2, <1>4 DEF Leave, tree
<1>5. CASE UNCHANGED vars
  BY <1>2, <1>5 DEF vars, tree
<1>6. ASSUME NEW n \in Nodes, Passes(n) PROVE ErrorInv'
  <2> DEFINE next == at'
  <2>1. at = n /\ ast' = ast /\ filters' = filters /\ Ready(n) /\ n < next /\ next \in Nat
        /\ error' = IF Fails(n) /\ error = 0 THEN n ELSE error
    <3>1. n < next /\ next \in Nat
      BY <1>1, <1>6, AfterIs DEF Passes, Pass, PathInv, Ready
    <3> QED BY <1>6, <3>1 DEF Passes, Ready, tree
  <2>2. \A m \in Nodes : m >= n /\ m < next => ~Enterable(n) /\ (m = n \/ n \in Above(m))
    BY <1>1, <1>6, <2>1, PassedIs
  <2>3. \A a \in Above(n) : Enterable(a)
    BY <1>1, <2>1, ReadyIs, OpenIs
  <2> HIDE DEF next
  <2>4. \A m \in Nodes : m < next <=> m < n \/ (m >= n /\ m < next)
    BY <1>1, <2>1
  <2>5. FailingBefore(next) = FailingBefore(n) \cup (IF Fails(n) THEN {n} ELSE {})
    BY <2>1, <2>2, <2>3, <2>4 DEF FailingBefore
  <2>6. \A m \in FailingBefore(n) : m < n /\ m \in Nat /\ m # 0
    BY <1>1 DEF FailingBefore
  <2>7. FailingBefore(at)' = FailingBefore(next)
    BY <2>1, TreeStays DEF FailingBefore, next
  <2>8. n \in Nat /\ n # 0
    BY <1>1
  <2>9. CASE FailingBefore(n) = {}
    <3>1. error = 0
      BY <2>1, <2>9 DEF ErrorInv
    <3> QED BY <2>1, <2>5, <2>7, <2>8, <2>9, <3>1 DEF ErrorInv
  <2>10. CASE FailingBefore(n) # {}
    <3>1. error \in FailingBefore(n) /\ \A m \in FailingBefore(n) : error <= m
      BY <2>1, <2>10 DEF ErrorInv
    <3>2. error # 0 /\ error < n /\ error \in Nat
      BY <2>6, <3>1
    <3>3. error' = error /\ error <= n
      BY <2>1, <2>8, <3>2
    <3> QED BY <2>5, <2>7, <3>1, <3>3 DEF ErrorInv
  <2> QED BY <2>9, <2>10
<1> QED BY <1>3, <1>4, <1>5, <1>6, NextIs

\* Without an error, no node whose scope is reached has failed.
LEMMA NoneFails ==
    ASSUME StacksInv, ErrorInv, Done, error = 0, NEW n \in Nodes, ~Rejects(n),
           \A a \in Above(n) : ~Rejects(a) /\ ~Declines(a)
    PROVE  ~Fails(n)
<1>1. at = Len(ast) + 1 /\ Len(ast) \in Nat /\ Nodes = 1 .. Len(ast) /\ ast \in Asts
  BY OpenIs DEF Done, StacksInv, PathInv
<1>2. FailingBefore(at) = {}
  <2> SUFFICES ASSUME FailingBefore(at) # {} PROVE FALSE
    OBVIOUS
  <2>1. error \in Nodes
    BY DEF ErrorInv, FailingBefore
  <2> QED BY <1>1, <2>1
<1> SUFFICES ASSUME Fails(n) PROVE FALSE
  OBVIOUS
<1> DEFINE F == {a \in Path(n) : Fails(a)}
<1>3. F \in SUBSET Nat /\ F # {} /\ Path(n) \in SUBSET Nodes
  BY <1>1, AboveIs DEF Path
<1>4. PICK f \in F : \A a \in F : f <= a
  <2> HIDE DEF F
  <2> QED BY <1>3, Least
<1>5. f \in Nodes /\ Fails(f) /\ f \in Path(n)
  BY <1>3, <1>4
<1>6. \A b \in Above(f) : b \in Above(n) /\ b < f /\ b \in Nat
  <2>1. \A b \in Above(f) : b < f /\ b \in Nat
    BY <1>1, <1>5 DEF Above
  <2>2. f = n \/ f \in Above(n)
    BY <1>5 DEF Path
  <2> QED BY <1>1, <2>1, <2>2, AboveInAbove
<1>7. \A b \in Above(f) : Enterable(b)
  <2> SUFFICES ASSUME NEW b \in Above(f) PROVE ~Fails(b)
    BY <1>6 DEF Enterable
  <2>1. b \in Above(n) /\ b < f /\ b \in Nat /\ f \in Nat
    BY <1>3, <1>6
  <2>2. b \notin F
    BY <1>4, <2>1
  <2> QED BY <2>1, <2>2 DEF Path
<1>8. f \in FailingBefore(at)
  BY <1>1, <1>5, <1>7 DEF FailingBefore
<1> QED BY <1>2, <1>8

\* What an attribute says where it is read is read, unless it is malformed.
LEMMA WrittenIsRead ==
    ASSUME NEW attr, attr.args \in Seq(ItemsOf(attr.args)), ~IsMalformed(attr),
           NEW x \in WrittenIn(attr)
    PROVE  x \in PatternsOf(attr) /\ x \in Patterns
<1> DEFINE args == attr.args
<1>1. Len(args) \in Nat /\ DOMAIN args = 1 .. Len(args) /\ args \in Seq(ItemsOf(args))
  OBVIOUS
<1>2. x \in Patterns \cup {Malformed} /\ Malformed \notin ReadsExcludes
  BY PatternsAssumption DEF WrittenIn, ReadsExcludes, Words, Malformed
<1>3. CASE attr.path = "mutants::exclude_re"
  <2>1. x = args[1] /\ 1 \in DOMAIN args
    BY <1>3 DEF WrittenIn
  <2>2. x # Malformed
    BY <1>1, <1>3, <2>1 DEF IsMalformed
  <2> QED BY <1>2, <1>3, <2>1, <2>2 DEF PatternsOf, ItemsOf
<1>4. CASE attr.path = "cfg_attr"
  <2> DEFINE unread == {i \in DOMAIN args : args[i] \notin ReadsExcludes}
             u == CHOOSE i \in unread : \A j \in unread : i <= j
             reached == Reached(args, ReadsExcludes)
  <2>1. PICK k \in DOMAIN args : x = args[k] /\ \A j \in 1 .. k - 1 : args[j] \in ReadsExcludes
    BY <1>4 DEF WrittenIn
  <2>2. reached = IF unread = {} THEN args ELSE SubSeq(args, 1, u - 1)
    BY DEF Reached
  <2>3. unread # {} => /\ u \in unread /\ \A j \in unread : u <= j
    <3> SUFFICES ASSUME unread # {} PROVE u \in unread /\ \A j \in unread : u <= j
      OBVIOUS
    <3>1. unread \in SUBSET Nat
      BY <1>1
    <3> HIDE DEF unread
    <3>2. \E i \in unread : \A j \in unread : i <= j
      BY <3>1, Least
    <3> QED BY <3>2
  <2>4. unread # {} => u \in DOMAIN args /\ args[u] \notin ReadsExcludes
    BY <2>3
  <2>5. unread # {} => u >= k
    <3> SUFFICES ASSUME u \in DOMAIN args, args[u] \notin ReadsExcludes, u < k PROVE FALSE
      BY <1>1, <2>1, <2>4
    <3>1. u \in 1 .. k - 1
      BY <1>1, <2>1
    <3> QED BY <2>1, <3>1
  <2>6. x # Malformed
    <3> SUFFICES ASSUME x = Malformed PROVE FALSE
      OBVIOUS
    <3>1. k \in unread
      BY <1>2, <2>1
    <3>2. u = k
      BY <1>1, <2>3, <2>4, <2>5, <3>1
    <3>3. Len(reached) = k - 1
      <4>1. reached = SubSeq(args, 1, u - 1)
        BY <2>2, <3>1
      <4> HIDE DEF reached, args, u, unread
      <4> QED BY <1>1, <3>2, <4>1
    <3> HIDE DEF reached, args
    <3>4. Len(reached) < Len(args) /\ args[Len(reached) + 1] = Malformed
      BY <1>1, <2>1, <3>3
    <3> QED BY <1>4, <3>4 DEF IsMalformed, reached, args
  <2>7. x \in Patterns /\ x \notin Words
    BY <1>2, <2>6, PatternsAssumption
  <2>8. x \in ItemsOf(reached)
    <3>1. CASE unread = {}
      BY <2>1, <2>2, <3>1 DEF ItemsOf
    <3>2. CASE unread # {}
      <4>3. k \notin unread
        BY <2>1, <2>7 DEF ReadsExcludes
      <4>4. u # k
        BY <2>3, <3>2, <4>3
      <4>5. u \in DOMAIN args /\ u >= k
        BY <2>4, <2>5, <3>2
      <4>1. u > k /\ u \in DOMAIN args /\ u \in Nat
        <5> HIDE DEF args, u
        <5> QED BY <1>1, <2>1, <4>4, <4>5
      <4>2. reached = SubSeq(args, 1, u - 1)
        BY <2>2, <3>2
      <4> HIDE DEF u, unread, reached, args
      <4>6. k \in DOMAIN reached /\ reached[k] = args[k]
        BY <1>1, <2>1, <4>1, <4>2
      <4> QED BY <2>1, <4>6 DEF ItemsOf
    <3> QED BY <3>1, <3>2
  <2> QED BY <1>4, <2>7, <2>8 DEF PatternsOf
<1>5. CASE attr.path \notin {"mutants::exclude_re", "cfg_attr"}
  BY <1>5 DEF WrittenIn
<1> QED BY <1>3, <1>4, <1>5

\* For every tree: if no error is reported, every exclude_re on a node whose scope
\* is reached, as far as attributes are read, is one that can be used, and no mutant
\* in the scope has a name that it matches, however the walk came there
\* (push_exclude_re and collect_exclude_re_from_cfg_attr in src/visit.rs).
THEOREM ExcludesAreUsed == Spec => []WrittenExcludesHold
<1>1. Init => StacksInv /\ MutantsInv /\ ErrorInv
  BY StacksInit, MutantsInit, ErrorInit
<1>2. StacksInv /\ MutantsInv /\ ErrorInv /\ [Next]_vars => (StacksInv /\ MutantsInv /\ ErrorInv)'
  BY StacksStep, MutantsStep, ErrorStep
<1>3. StacksInv /\ MutantsInv /\ ErrorInv => WrittenExcludesHold
  <2> SUFFICES ASSUME StacksInv, MutantsInv, ErrorInv, Done, error = 0,
                      NEW n \in OfKind(Scoped, Nodes), ~Rejects(n),
                      \A a \in Above(n) : ~Rejects(a) /\ ~Declines(a),
                      NEW i \in DOMAIN ast[n].attrs, NEW x \in WrittenIn(ast[n].attrs[i])
               PROVE  /\ x \in Patterns \ BadPatterns
                      /\ \A m \in ItemsOf(mutants) : n \in Path(Origin(m)) => ~Matches(x, Place(m))
    BY DEF WrittenExcludesHold
  <2> DEFINE attr == ast[n].attrs[i]
  <2>1. n \in Nodes /\ Kind(n) \in Scoped /\ ast \in Asts
    BY DEF OfKind, StacksInv, PathInv
  <2>2. ~ScopeFails(ast[n].attrs)
    BY <2>1, NoneFails DEF Fails
  <2>3. ~IsMalformed(attr) /\ AttrsExcludeRePatterns(ast[n].attrs) \cap BadPatterns = {}
    BY <2>2 DEF ScopeFails
  <2>4. attr.args \in Seq(ItemsOf(attr.args))
    BY <2>1, VisitorAssumption DEF IsSyntax, Nodes
  <2>5. x \in PatternsOf(attr) /\ x \in Patterns
    <3> HIDE DEF attr
    <3> QED BY <2>3, <2>4, WrittenIsRead DEF attr
  <2>6. x \in AttrsExcludeRePatterns(ast[n].attrs)
    BY <2>5, PatternsAssumption DEF AttrsExcludeRePatterns
  <2>7. ASSUME NEW m \in ItemsOf(mutants), n \in Path(Origin(m)) PROVE ~Matches(x, Place(m))
    <3>1. ~ExcludedAt(Origin(m), Place(m))
      BY DEF MutantsInv, Fits
    <3>2. n \in OfKind(Scoped, Path(Origin(m)))
      BY <2>1, <2>7 DEF OfKind
    <3> QED BY <2>6, <3>1, <3>2 DEF ExcludedAt, ExcludedIn
  <2> QED BY <2>3, <2>5, <2>6, <2>7
<1> QED BY <1>1, <1>2, <1>3, PTL DEF Spec

NamedBefore(k) == {n \in OfKind({"mod"}, Nodes) : n < k /\ Flag(n, "external") /\ Visited(n)}

ModsAround(s) == [i \in DOMAIN s |-> InOrder(OfKind({"mod"}, Path(s[i])))]

ExternalInv == externalMods = ModsAround(InOrder(NamedBefore(at)))

\* No module has been declared.
LEMMA ExternalInit == Init => ExternalInv
<1> SUFFICES ASSUME Init PROVE ExternalInv
  OBVIOUS
<1>1. at = 1 /\ externalMods = <<>> /\ Nodes = 1 .. Len(ast) /\ Len(ast) \in Nat /\ ast \in Asts
  BY TreeIs DEF Init
<1>2. NamedBefore(1) = {}
  BY <1>1 DEF NamedBefore, OfKind
<1>3. {} \in SUBSET Nodes
  OBVIOUS
<1> DEFINE s == InOrder({})
<1>4. s \in Seq(Nat) /\ Follows(s, {})
  BY <1>1, <1>3, NodesInOrder
<1>5. s = <<>>
  <2> HIDE DEF s
  <2>1. {} \in SUBSET Nat
    OBVIOUS
  <2> QED BY <1>4, <2>1, FollowsIs
<1> DEFINE t == ModsAround(s)
<1>6. t = [i \in 1 .. 0 |-> t[i]]
  <2>1. DOMAIN s = 1 .. 0
    BY <1>5
  <2>2. DOMAIN t = DOMAIN s /\ t = [i \in DOMAIN s |-> t[i]]
    BY DEF ModsAround
  <2> HIDE DEF s, t
  <2> QED BY <2>1, <2>2
<1>7. t = <<>>
  <2> HIDE DEF t
  <2>1. IsSeq(t) /\ Len(t) = 0
    BY <1>6, ListIsSeq
  <2> QED BY <2>1 DEF IsSeq
<1> QED BY <1>1, <1>2, <1>7 DEF ExternalInv

\* A module declared without a body is the last so far, and the modules around it
\* are those on the stack.
LEMMA ExternalStep ==
    ASSUME StacksInv, ExternalInv, StacksInv', [Next]_vars
    PROVE  ExternalInv'
<1>1. PathInv /\ ast \in Asts /\ Len(ast) \in Nat /\ Nodes = 1 .. Len(ast) /\ at \in Nat
  BY OpenIs DEF StacksInv, PathInv
<1>2. ASSUME ast' = ast, filters' = filters
      PROVE  /\ \A s : ModsAround(s)' = ModsAround(s)
             /\ NamedBefore(at)' = NamedBefore(at')
             /\ \A S : InOrder(S)' = InOrder(S)
  <2>1. \A n : Path(n)' = Path(n) /\ Visited(n)' = Visited(n)
    BY <1>2, TreeStays DEF Path, Visited
  <2> QED BY <1>2, <2>1, TreeStays DEF ModsAround, NamedBefore, OfKind
<1>3. ASSUME ast' = ast, filters' = filters, NamedBefore(at') = NamedBefore(at),
             externalMods' = externalMods
      PROVE  ExternalInv'
  BY <1>2, <1>3 DEF ExternalInv
<1>4. ASSUME NEW n \in Nodes, Enters(n) PROVE ExternalInv'
  <2>1. at = n /\ at' = n + 1 /\ Ready(n) /\ ast' = ast /\ filters' = filters
    BY <1>4 DEF Enters, Proceeds, Ready, Descend, tree
  <2>2. Visited(n) /\ Path(n) = ItemsOf(open) \cup {n}
    BY <1>4, EnteredIs
  <2>3. NamedBefore(n + 1) = NamedBefore(n) \cup
                                (IF Kind(n) = "mod" /\ Flag(n, "external") THEN {n} ELSE {})
    BY <1>1, <2>1, <2>2 DEF NamedBefore, OfKind
  <2>4. CASE ~(Kind(n) = "mod" /\ Flag(n, "external"))
    BY <1>3, <1>4, <2>1, <2>3, <2>4 DEF Enters
  <2>5. CASE Kind(n) = "mod" /\ Flag(n, "external")
    <3> DEFINE S == NamedBefore(n)
               s == InOrder(S)
               t == InOrder(S \cup {n})
               q == modNamespaces'
               M == OfKind({"mod"}, Path(n))
    <3>1. \A m \in S : m < n /\ m \in Nodes
      BY DEF NamedBefore, OfKind
    <3>2. externalMods = ModsAround(s) /\ externalMods' = Append(externalMods, q)
      BY <1>4, <2>1, <2>5 DEF ExternalInv, Enters
    <3>3. S \cup {n} = NamedBefore(at')
      BY <2>1, <2>3, <2>5
    <3>4. q = InOrder(M)
      <4>1. q \in Seq(Nat) /\ Follows(q, OfKind({"mod"}, ItemsOf(open))')
        BY DEF StacksInv, ScopesInv, ScopesFollowPath
      <4>2. OfKind({"mod"}, ItemsOf(open))' = M
        <5>1. ItemsOf(open)' = Path(n)
          BY <1>1, <1>4, <2>2, EntersPath
        <5> QED BY <2>1, <5>1, TreeStays DEF OfKind
      <4>3. M \in SUBSET Nodes
        BY <1>1, <2>2, OpenIs DEF OfKind
      <4> HIDE DEF q, M
      <4>4. InOrder(M) \in Seq(Nat) /\ Follows(InOrder(M), M) /\ M \in SUBSET Nat
        BY <1>1, <4>3, NodesInOrder
      <4> QED BY <4>1, <4>2, <4>4, FollowsUnique
    <3> HIDE DEF S, q
    <3>5. s \in Seq(Nat) /\ Follows(s, S) /\ S \in SUBSET Nat
      BY <1>1, <3>1, NodesInOrder
    <3>6. t \in Seq(Nat) /\ Follows(t, S \cup {n}) /\ S \cup {n} \in SUBSET Nat
      <4>1. S \cup {n} \in SUBSET Nodes
        BY <3>1
      <4> QED BY <1>1, <4>1, NodesInOrder
    <3> HIDE DEF s, t
    <3>7. t = Append(s, n)
      <4>1. Append(s, n) \in Seq(Nat) /\ Follows(Append(s, n), S \cup {n})
        BY <1>1, <3>1, <3>5, FollowsPush
      <4> QED BY <3>6, <4>1, FollowsUnique
    <3>8. ModsAround(t) = Append(ModsAround(s), InOrder(M))
      <4> DEFINE f(x) == InOrder(OfKind({"mod"}, Path(x)))
      <4>1. ModsAround(s) = [i \in DOMAIN s |-> f(s[i])] /\ ModsAround(t) = [i \in DOMAIN t |-> f(t[i])]
            /\ InOrder(M) = f(n)
        BY DEF ModsAround
      <4> HIDE DEF f, M
      <4>2. /\ Len(s) \in Nat /\ DOMAIN s = 1 .. Len(s) /\ DOMAIN t = 1 .. Len(s) + 1
            /\ t[Len(s) + 1] = n /\ \A i \in 1 .. Len(s) : t[i] = s[i]
        BY <3>5, <3>7
      <4>3. ModsAround(s) = [i \in 1 .. Len(s) |-> f(s[i])]
        BY <4>1, <4>2
      <4> DEFINE a == ModsAround(s)
                 b == Append(a, f(n))
      <4>4. IsSeq(a) /\ Len(a) = Len(s) /\ DOMAIN a = 1 .. Len(s)
            /\ \A i \in 1 .. Len(s) : a[i] = f(s[i])
        <5>1. a = [i \in 1 .. Len(s) |-> a[i]] /\ \A i \in 1 .. Len(s) : a[i] = f(s[i])
          BY <4>3
        <5> HIDE DEF a
        <5> QED BY <4>2, <5>1, ListIsSeq, IsSeqIs
      <4> HIDE DEF a
      <4>5. b = [i \in 1 .. Len(a) + 1 |-> IF i = Len(a) + 1 THEN f(n) ELSE a[i]]
        BY <4>4, AppendIs
      <4>6. b = [i \in 1 .. Len(s) + 1 |-> IF i = Len(s) + 1 THEN f(n) ELSE a[i]]
        BY <4>4, <4>5
      <4>7. ASSUME NEW i \in 1 .. Len(s) + 1
            PROVE  f(t[i]) = IF i = Len(s) + 1 THEN f(n) ELSE a[i]
        <5>1. i = Len(s) + 1 \/ (i \in 1 .. Len(s) /\ i # Len(s) + 1)
          BY <4>2
        <5> QED BY <4>2, <4>4, <5>1
      <4>8. ModsAround(t) = [i \in 1 .. Len(s) + 1 |-> f(t[i])]
        BY <4>1, <4>2
      <4>9. ModsAround(t) = b
        BY <4>6, <4>7, <4>8
      <4> QED BY <4>1, <4>9 DEF a, b
    <3>9. externalMods' = ModsAround(t)
      BY <3>2, <3>4, <3>8
    <3>10. ExternalInv' <=> externalMods' = ModsAround(InOrder(NamedBefore(at')))
      BY <1>2, <2>1 DEF ExternalInv
    <3> QED BY <3>3, <3>9, <3>10 DEF t
  <2> QED BY <2>4, <2>5
<1>5. ASSUME NEW n \in Nodes, Passes(n) PROVE ExternalInv'
  <2> DEFINE next == at'
  <2>1. n < next /\ next \in Nat /\ at = n
    BY <1>1, <1>5, AfterIs DEF Passes, Pass, PathInv, Ready
  <2>2. \A m \in Nodes : m >= n /\ m < next => ~Enterable(n) /\ (m = n \/ n \in Above(m))
    BY <1>1, <1>5, <2>1, PassedIs
  <2>3. \A m \in Nodes : m >= n /\ m < next => ~Visited(m)
    BY <2>2 DEF Visited, Path, Enterable
  <2> HIDE DEF next
  <2>4. \A m \in Nodes : m < next <=> m < n \/ (m >= n /\ m < next)
    BY <1>1, <2>1
  <2>5. NamedBefore(next) = NamedBefore(n)
    BY <2>3, <2>4 DEF NamedBefore, OfKind
  <2> QED BY <1>3, <1>5, <2>1, <2>5 DEF Passes, tree, found, next
<1>6. ASSUME NEW n \in Nodes, Leave(n) PROVE ExternalInv'
  BY <1>3, <1>6 DEF Leave, tree, found
<1>7. CASE UNCHANGED vars
  BY <1>3, <1>7 DEF vars, tree, found
<1> QED BY <1>4, <1>5, <1>6, <1>7, NextIs

\* `mod x;` is looked up under the modules that are around it, and every one
\* that is visited is looked up, in order (visit_item_mod and find_mod_source).
THEOREM ExternalModsArePlaced == Spec => []ExternalModsKeepPath
<1>1. Init => StacksInv /\ ExternalInv
  BY StacksInit, ExternalInit
<1>2. StacksInv /\ ExternalInv /\ [Next]_vars => (StacksInv /\ ExternalInv)'
  BY StacksStep, ExternalStep
<1>3. StacksInv /\ ExternalInv => ExternalModsKeepPath
  <2> SUFFICES ASSUME StacksInv, ExternalInv, Done PROVE ExternalModsKeepPath
    BY DEF ExternalModsKeepPath
  <2>1. at = Len(ast) + 1 /\ Len(ast) \in Nat /\ Nodes = 1 .. Len(ast)
    BY OpenIs DEF Done, StacksInv
  <2>2. NamedBefore(at) = {n \in OfKind({"mod"}, Nodes) : Flag(n, "external") /\ Visited(n)}
    BY <2>1 DEF NamedBefore, OfKind
  <2> QED BY <2>2 DEF ExternalInv, ModsAround, ExternalModsKeepPath
<1> QED BY <1>1, <1>2, <1>3, PTL DEF Spec

-----------------------------------------------------------------------------
(* What code can leave *)

\* Of two nodes on a path the first is above the second.
LEMMA PathIsChain ==
    ASSUME ast \in Asts, NEW l \in Nodes, NEW a \in Path(l), NEW b \in Path(l), a < b
    PROVE  a \in Above(b)
<1>1. Nodes = 1 .. Len(ast) /\ Len(ast) \in Nat /\ Above(l) \subseteq Nodes
      /\ \A m \in Above(l) : m < l
  BY TreeIs, AboveIs
<1>2. a \in Nodes /\ b \in Nodes /\ a \in Nat /\ b \in Nat /\ l \in Nat /\ b <= l
  BY <1>1 DEF Path
<1>3. a \in Above(l)
  BY <1>1, <1>2 DEF Path
<1>4. l \in Below(a)
  BY <1>3, AboveInAbove
<1>5. \A k \in a + 1 .. l : ast[k].up >= a
  BY <1>2, <1>4, BelowIs
<1>6. \A k \in a + 1 .. b : k \in a + 1 .. l
  BY <1>2
<1>7. b \in Below(a)
  BY <1>2, <1>5, <1>6, BelowIs
<1>8. a \in 1 .. b - 1
  BY <1>1, <1>2
<1> QED BY <1>7, <1>8 DEF Above

\* What is below a node is in one of its children.
LEMMA BelowIsInChild ==
    ASSUME ast \in Asts, NEW n \in Nodes, NEW l \in Nodes
    PROVE  n \in Above(l) <=> \E c \in Children(n) : c \in Path(l)
<1>1. Nodes = 1 .. Len(ast) /\ Len(ast) \in Nat /\ Above(l) \subseteq Nodes
  BY TreeIs, AboveIs
<1>2. ASSUME n \in Above(l) PROVE \E c \in Children(n) : c \in Path(l)
  <2> DEFINE T == {k \in Path(l) : n \in Above(k)}
  <2>1. l \in T /\ T \in SUBSET Nat
    BY <1>1, <1>2 DEF Path
  <2>2. PICK c \in T : \A k \in T : c <= k
    <3> HIDE DEF T
    <3> QED BY <2>1, Least
  <2>3. c \in Nodes /\ n \in Above(c) /\ c \in Path(l)
    BY <1>1 DEF Path
  <2>4. ast[c].up # 0 /\ ast[c].up \in Nodes /\ Above(c) = Above(ast[c].up) \cup {ast[c].up}
    BY <2>3, AboveIs
  <2>5. ast[c].up \in Path(l)
    BY <2>3, <2>4, AboveInAbove DEF Path
  <2>6. ast[c].up < c /\ ast[c].up \in Nat /\ c \in Nat
    BY <1>1, <2>3, <2>4, AboveIs
  <2>7. ast[c].up \notin T
    BY <2>2, <2>6
  <2>8. ast[c].up = n
    BY <2>3, <2>4, <2>5, <2>7
  <2> QED BY <2>3, <2>8 DEF Children
<1>3. ASSUME NEW c \in Children(n), c \in Path(l) PROVE n \in Above(l)
  <2>1. c \in Nodes /\ ast[c].up = n /\ n # 0
    BY <1>1 DEF Children
  <2>2. n \in Above(c)
    BY <2>1, AboveIs
  <2>3. CASE c = l
    BY <2>2, <2>3
  <2>4. CASE c \in Above(l)
    BY <2>2, <2>4, AboveInAbove
  <2> QED BY <1>3, <2>3, <2>4 DEF Path
<1> QED BY <1>2, <1>3

Family(n) == {n} \cup Below(n)
Ends(n) == {l \in OfKind(Leaves, Family(n)) : OfKind(Leaves, Above(l) \cap Family(n)) = {}}

\* A node and what is below it are the nodes whose path goes through it.
LEMMA FamilyIs ==
    ASSUME ast \in Asts, NEW n \in Nodes
    PROVE  Family(n) \subseteq Nodes /\ \A l \in Nodes : l \in Family(n) <=> n \in Path(l)
<1>1. Nodes = 1 .. Len(ast) /\ Len(ast) \in Nat /\ n \in Nat
  BY TreeIs
<1>2. After(n) \in n + 1 .. Len(ast) + 1 /\ Below(n) = n + 1 .. After(n) - 1
  BY AfterIs DEF Below
<1>3. Family(n) \subseteq Nodes
  BY <1>1, <1>2 DEF Family
<1>4. ASSUME NEW l \in Nodes PROVE l \in Below(n) <=> n \in Above(l)
  BY <1>1, <1>2 DEF Above
<1> QED BY <1>3, <1>4 DEF Family, Path

\* What ends the flow of a node does so in one of its children, unless it is the
\* node itself.
LEMMA EndsIs ==
    ASSUME ast \in Asts, NEW n \in Nodes
    PROVE  Ends(n) = IF Kind(n) \in Leaves THEN {n} ELSE UNION {Ends(c) : c \in Children(n)}
<1>1. Nodes = 1 .. Len(ast) /\ Len(ast) \in Nat /\ Children(n) \subseteq Nodes
  BY TreeIs DEF Children
<1>2. \A m \in Nodes : Family(m) \subseteq Nodes /\ \A l \in Nodes : l \in Family(m) <=> m \in Path(l)
  BY FamilyIs
<1>3. \A l \in Nodes : Above(l) \subseteq Nodes /\ l \notin Above(l) /\ \A m \in Above(l) : m < l
  BY <1>1, AboveIs
<1>4. CASE Kind(n) \in Leaves
  <2>1. n \in Ends(n)
    <3>1. n \in Family(n) /\ Above(n) \cap Family(n) = {}
      <4>1. ASSUME NEW m \in Above(n), m \in Family(n) PROVE FALSE
        <5>1. m < n /\ m \in Nat /\ n \in Nat /\ n \in Path(m)
          BY <1>1, <1>2, <1>3, <4>1
        <5> QED BY <1>1, <1>3, <5>1 DEF Path
      <4> QED BY <4>1 DEF Family
    <3> QED BY <1>4, <3>1 DEF Ends, OfKind
  <2>2. ASSUME NEW l \in Ends(n), l # n PROVE FALSE
    <3>1. l \in Nodes /\ n \in Above(l)
      BY <1>2, <2>2 DEF Ends, OfKind, Path
    <3>2. n \in OfKind(Leaves, Above(l) \cap Family(n))
      BY <1>4, <3>1 DEF OfKind, Family
    <3> QED BY <3>2 DEF Ends
  <2> QED BY <1>4, <2>1, <2>2
<1>5. CASE Kind(n) \notin Leaves
  <2>1. ASSUME NEW l \in Nodes, NEW c \in Children(n), c \in Path(l)
        PROVE  OfKind(Leaves, Above(l) \cap Family(n)) = OfKind(Leaves, Above(l) \cap Family(c))
    <3>1. c \in Nodes /\ Above(c) = Above(n) \cup {n} /\ n \in Above(l)
      <4>1. c \in Nodes /\ ast[c].up = n /\ n # 0
        BY <1>1 DEF Children
      <4> QED BY <2>1, <4>1, AboveIs, BelowIsInChild
    <3>2. ASSUME NEW m \in Above(l), m \in Family(n), m # n PROVE m \in Family(c)
      <4>1. m \in Nodes /\ n \in Above(m) /\ m \in Path(l)
        BY <1>2, <1>3, <3>2 DEF Path
      <4>2. m \notin Above(c)
        <5>1. ASSUME m \in Above(n) PROVE FALSE
          BY <1>1, <1>3, <4>1, <5>1
        <5> QED BY <3>1, <3>2, <5>1
      <4>3. ~(m < c)
        BY <2>1, <4>1, <4>2, PathIsChain
      <4>4. m = c \/ c < m
        BY <1>1, <3>1, <4>1, <4>3
      <4>5. c \in Path(m)
        BY <2>1, <4>1, <4>4, PathIsChain DEF Path
      <4> QED BY <1>2, <3>1, <4>1, <4>5
    <3>3. ASSUME NEW m \in Above(l), m \in Family(c) PROVE m \in Family(n)
      <4>1. m \in Nodes /\ c \in Path(m)
        BY <1>2, <1>3, <3>1, <3>3
      <4>2. n \in Above(m)
        BY <4>1, BelowIsInChild
      <4> QED BY <1>2, <4>1, <4>2 DEF Path
    <3> QED BY <1>5, <3>2, <3>3 DEF OfKind
  <2>2. ASSUME NEW l \in Ends(n) PROVE \E c \in Children(n) : l \in Ends(c)
    <3>1. l \in Nodes /\ n \in Path(l) /\ l # n /\ Kind(l) \in Leaves
          /\ OfKind(Leaves, Above(l) \cap Family(n)) = {}
      BY <1>2, <1>5 DEF Ends, OfKind
    <3>2. PICK c \in Children(n) : c \in Path(l)
      BY <3>1, BelowIsInChild DEF Path
    <3>3. l \in Family(c) /\ OfKind(Leaves, Above(l) \cap Family(c)) = {}
      BY <1>1, <1>2, <2>1, <3>1, <3>2
    <3> QED BY <3>1, <3>3 DEF Ends, OfKind
  <2>3. ASSUME NEW c \in Children(n), NEW l \in Ends(c) PROVE l \in Ends(n)
    <3>1. l \in Nodes /\ c \in Path(l) /\ Kind(l) \in Leaves
          /\ OfKind(Leaves, Above(l) \cap Family(c)) = {}
      BY <1>1, <1>2 DEF Ends, OfKind
    <3>2. n \in Path(l)
      BY <3>1, BelowIsInChild DEF Path
    <3>3. l \in Family(n) /\ OfKind(Leaves, Above(l) \cap Family(n)) = {}
      BY <1>2, <2>1, <3>1, <3>2
    <3> QED BY <3>1, <3>3 DEF Ends, OfKind
  <2> QED BY <1>5, <2>2, <2>3
<1> QED BY <1>4, <1>5

\* What a node lets escape, from its children.
LEMMA EscapesIs ==
    ASSUME ast \in Asts, NEW n \in Nodes
    PROVE  Escapes(n) = IF Kind(n) \in Leaves THEN {Kind(n)}
                        ELSE UNION {Escapes(c) : c \in Children(n)}
<1>1. \A m : Escapes(m) = {Kind(l) : l \in Ends(m)}
  BY DEF Escapes, Ends, Family
<1> HIDE DEF Escapes, Ends
<1>2. CASE Kind(n) \in Leaves
  BY <1>1, <1>2, EndsIs
<1>3. CASE Kind(n) \notin Leaves
  <2>1. Ends(n) = UNION {Ends(c) : c \in Children(n)}
    BY <1>3, EndsIs
  <2>2. \A k \in Escapes(n) : \E c \in Children(n) : k \in Escapes(c)
    BY <1>1, <2>1
  <2>3. \A c \in Children(n) : \A k \in Escapes(c) : k \in Escapes(n)
    BY <1>1, <2>1
  <2> QED BY <1>3, <2>2, <2>3
<1> QED BY <1>2, <1>3

\* The answers of Flow are what escapes, if those of the memo are: what escapes
\* solves the equations of Flow, and nothing else does.
LEMMA FlowIs ==
    ASSUME ast \in Asts, MemoIsExact
    PROVE  \A n \in Nodes : Flow[n] = Escapes(n)
<1> DEFINE N == 1 .. Len(ast)
           F(g) == [n \in N |-> IF n \in DOMAIN memo THEN memo[n]
                                ELSE IF Kind(n) \in Leaves THEN {Kind(n)}
                                ELSE UNION {g[c] : c \in Children(n)}]
           e == [n \in N |-> Escapes(n)]
<1>1. Nodes = N /\ Len(ast) \in Nat /\ \A n \in Nodes : Children(n) \subseteq N
  BY TreeIs DEF Children
<1>2. Flow = CHOOSE g : g = F(g)
  BY DEF Flow
<1>3. e = F(e)
  <2>1. ASSUME NEW n \in N PROVE Escapes(n) = F(e)[n]
    <3>1. CASE n \in DOMAIN memo
      BY <3>1 DEF MemoIsExact
    <3>2. CASE n \notin DOMAIN memo
      <4>1. {e[c] : c \in Children(n)} = {Escapes(c) : c \in Children(n)}
        BY <1>1
      <4>2. Escapes(n) = IF Kind(n) \in Leaves THEN {Kind(n)}
                         ELSE UNION {Escapes(c) : c \in Children(n)}
        BY <1>1, EscapesIs
      <4> QED BY <3>2, <4>1, <4>2
    <3> QED BY <3>1, <3>2
  <2> QED BY <2>1
<1>4. Flow = F(Flow)
  <2> HIDE DEF F, e
  <2> QED BY <1>2, <1>3
<1>5. \A n \in N : Flow[n] = Escapes(n)
  <2> DEFINE T == {k \in 0 .. Len(ast) - 1 : Flow[Len(ast) - k] # Escapes(Len(ast) - k)}
  <2>1. SUFFICES ASSUME T # {} PROVE FALSE
    <3>1. ASSUME NEW n \in N, T = {} PROVE Flow[n] = Escapes(n)
      <4>1. Len(ast) - n \in 0 .. Len(ast) - 1 /\ Len(ast) - (Len(ast) - n) = n
        BY <1>1
      <4> QED BY <3>1, <4>1
    <3> QED BY <3>1
  <2>2. T \in SUBSET Nat
    BY <1>1
  <2>3. PICK k \in T : \A j \in T : k <= j
    <3> HIDE DEF T
    <3> QED BY <2>1, <2>2, Least
  <2> DEFINE n == Len(ast) - k
  <2>4. n \in N /\ Flow[n] # Escapes(n) /\ k \in Nat
    BY <1>1, <2>2, <2>3
  <2>5. ASSUME NEW c \in Children(n) PROVE Flow[c] = Escapes(c)
    <3>1. c \in N /\ n < c
      <4>1. c \in N /\ ast[c].up = n
        BY <1>1, <2>4 DEF Children
      <4>2. ast[c].up \in 0 .. c - 1
        BY <1>1, <4>1, TreeIs
      <4> QED BY <1>1, <2>4, <4>1, <4>2
    <3>2. Len(ast) - c \in 0 .. Len(ast) - 1 /\ Len(ast) - (Len(ast) - c) = c /\ Len(ast) - c < k
      BY <1>1, <2>4, <3>1
    <3>3. Len(ast) - c \notin T
      BY <1>1, <2>3, <2>4, <3>2
    <3> QED BY <3>2, <3>3
  <2> HIDE DEF n, T
  <2>6. {Flow[c] : c \in Children(n)} = {Escapes(c) : c \in Children(n)}
    BY <2>5
  <2>7. Flow[n] = IF n \in DOMAIN memo THEN memo[n]
                  ELSE IF Kind(n) \in Leaves THEN {Kind(n)}
                  ELSE UNION {Flow[c] : c \in Children(n)}
    <3>1. F(Flow)[n] = IF n \in DOMAIN memo THEN memo[n]
                       ELSE IF Kind(n) \in Leaves THEN {Kind(n)}
                       ELSE UNION {Flow[c] : c \in Children(n)}
      BY <2>4
    <3> HIDE DEF F
    <3> QED BY <1>4, <3>1
  <2>8. Escapes(n) = IF Kind(n) \in Leaves THEN {Kind(n)}
                     ELSE UNION {Escapes(c) : c \in Children(n)}
    BY <1>1, <2>4, EscapesIs
  <2>9. n \in DOMAIN memo => memo[n] = Escapes(n)
    BY DEF MemoIsExact
  <2> QED BY <2>4, <2>6, <2>7, <2>8, <2>9
<1> QED BY <1>1, <1>5

\* A query adds answers to the memo that are right.
LEMMA QueriedIs ==
    ASSUME ast \in Asts, MemoIsExact, DOMAIN memo \subseteq Nodes, NEW roots
    PROVE  /\ DOMAIN Queried(roots) \subseteq Nodes
           /\ \A n \in DOMAIN Queried(roots) : Queried(roots)[n] = Escapes(n)
<1> DEFINE walked == UNION {Walked(n) : n \in roots}
<1>1. walked \subseteq Nodes
  BY DEF Walked
<1>2. Queried(roots) = [m \in DOMAIN memo \cup walked |-> Flow[m]]
  BY DEF Queried
<1> HIDE DEF walked
<1> QED BY <1>1, <1>2, FlowIs

\* A handler leaves the memo as it is, or queries it.
LEMMA VisitQueries ==
    ASSUME NEW n \in Nodes, Visit(n), Enters(n)
    PROVE  memo' = memo \/ \E roots : memo' = Queried(roots)
<1>1. ~Skip(n) /\ ~Fail(n)
  BY DEF Enters, Proceeds, Skip, Fail
<1>2. CASE VisitIf(n)
  BY <1>2 DEF VisitIf
<1>3. CASE VisitBlock(n)
  BY <1>3 DEF VisitBlock
<1>4. CASE ~VisitIf(n) /\ ~VisitBlock(n)
  BY <1>1, <1>4 DEF Visit, VisitFile, VisitFn, VisitNamespace, VisitMod, VisitConst, VisitCall,
                    VisitBinary, VisitUnary, VisitWhile, VisitMatch, VisitLit, VisitStruct,
                    VisitClosure, VisitReturn, VisitOther
<1> QED BY <1>2, <1>3, <1>4

\* A mutant of control flow deletes or skips nothing that would escape.
KeepsFlow(m) ==
    /\ m.genre = "DeleteStatement" => Escapes(m.node) = {}
    /\ m.genre = "IfCondition" /\ m.value = False => "exit" \notin Escapes(ThenOf(ast[m.node].up))

FlowInv ==
    /\ DOMAIN memo \subseteq Nodes /\ MemoIsExact
    /\ \A m \in ItemsOf(mutants) : Origin(m) < at /\ KeepsFlow(m)

\* Nothing has been asked.
LEMMA FlowInit == Init => FlowInv
BY DEF Init, FlowInv, MemoIsExact, ItemsOf

\* What the tree says of control flow stays.
LEMMA FlowStays ==
    ASSUME ast' = ast
    PROVE  /\ \A n : Escapes(n)' = Escapes(n) /\ CondOf(n)' = CondOf(n) /\ ThenOf(n)' = ThenOf(n)
           /\ \A m : Origin(m)' = Origin(m)
           /\ \A m : KeepsFlow(m)' = KeepsFlow(m)
           /\ Nodes' = Nodes
<1>1. \A n : Escapes(n)' = Escapes(n)
  BY DEF Escapes, OfKind, Kind, Below, After, Above, Nodes
<1>2. \A n : CondOf(n)' = CondOf(n) /\ ThenOf(n)' = ThenOf(n)
  BY DEF CondOf, ThenOf, Child, Children, Nodes
<1>3. \A m : Origin(m)' = Origin(m)
  BY DEF Origin, MatchAround
<1>4. Nodes' = Nodes
  BY DEF Nodes
<1>5. \A m : KeepsFlow(m)' = KeepsFlow(m)
  BY <1>1, <1>2 DEF KeepsFlow
<1> QED BY <1>1, <1>2, <1>3, <1>4, <1>5


-----------------------------------------------------------------------------
(* The candidates of each handler, as a set *)

Deletable(n) == {c \in Children(n) : Discards(n, c) /\ Flow[c] = {} /\ ~IsSkippedCall(c)}

MadeAt(n) ==
    Made(n, "exit" \in Flow[ThenOf(n)], Deletable(n), IsMutatedElsewhere(n),
         IF ReturnApplies(n) THEN ItemsOf(Returns[ast[Top(fns)].type]) ELSE {})

\* One item, or none.
LEMMA MaybeIs ==
    ASSUME NEW b \in BOOLEAN, NEW x
    PROVE  IsSeq(Maybe(b, <<x>>)) /\ ItemsOf(Maybe(b, <<x>>)) = {y \in {x} : b}
BY EmptyIsSeq, SingleIsSeq DEF Maybe

\* The values that are left of a list.
LEMMA ValuesAre ==
    ASSUME NEW s, IsSeq(s), NEW P \in SUBSET DOMAIN s, NEW x, NEW genre
    PROVE  LET kept == Select(s, P)
           IN  ItemsOf([i \in DOMAIN kept |-> Candidate(x, genre, kept[i])])
                   = {Candidate(x, genre, v) : v \in {s[i] : i \in P}}
<1> DEFINE kept == Select(s, P)
<1>1. IsSeq(kept) /\ ItemsOf(kept) = {s[i] : i \in P}
  BY SelectIs
<1> HIDE DEF kept
<1>2. ItemsOf([i \in DOMAIN kept |-> Candidate(x, genre, kept[i])])
          = {Candidate(x, genre, v) : v \in ItemsOf(kept)}
  BY <1>1, ValuesIsSeq
<1> QED BY <1>1, <1>2 DEF kept

\* Candidates made one by one from nodes.
LEMMA PlacesAre ==
    ASSUME ast \in Asts, NEW S \in SUBSET Nodes, NEW genre, NEW value
    PROVE  LET order == InOrder(S)
               t == [i \in DOMAIN order |-> Candidate(order[i], genre, value)]
           IN  ItemsOf(t) = {Candidate(x, genre, value) : x \in S}
<1> DEFINE order == InOrder(S)
<1>1. IsSeq(order) /\ ItemsOf(order) = S
  BY NodesInOrder
<1> HIDE DEF order
<1>2. ItemsOf([i \in DOMAIN order |-> Candidate(order[i], genre, value)])
          = {Candidate(x, genre, value) : x \in ItemsOf(order)}
  BY <1>1, EachIsSeq
<1> QED BY <1>1, <1>2 DEF order

\* The candidates of a function are the values that its body does not have.
LEMMA FnMakes ==
    ASSUME ast \in Asts, NEW n \in Nodes, Kind(n) = "fn"
    PROVE  ItemsOf(FnMutants(n)) = MadeAt(n)
<1> DEFINE all == Returns[ast[n].type]
           P == {i \in DOMAIN all : ~BodyIs(n, all[i])}
           values == Select(all, P)
<1>1. IsSeq(all) /\ P \in SUBSET DOMAIN all
  BY ReturnsIs
<1>2. FnMutants(n) = [i \in DOMAIN values |-> Candidate(n, "FnValue", values[i])]
  BY DEF FnMutants
<1>3. {all[i] : i \in P} = {v \in ItemsOf(all) : ~BodyIs(n, v)}
  BY DEF ItemsOf
<1> HIDE DEF P
<1>4. ItemsOf(FnMutants(n)) = {Candidate(n, "FnValue", v) : v \in {all[i] : i \in P}}
  <2> HIDE DEF all
  <2> QED BY <1>1, <1>2, ValuesAre
<1>5. MadeAt(n) = {Candidate(n, "FnValue", v) : v \in {v \in ItemsOf(all) : ~BodyIs(n, v)}}
  BY DEF MadeAt, Made
<1> HIDE DEF all
<1> QED BY <1>3, <1>4, <1>5

\* The candidates of a return are the values that it does not have.
LEMMA ReturnMakes ==
    ASSUME StacksInv, NEW n \in Nodes, Kind(n) = "return"
    PROVE  ItemsOf(ReturnMutants(n)) = MadeAt(n)
<1> DEFINE value == Child(n, "value")
           all == Returns[ast[Top(fns)].type]
           Same(v) == Kind(value) = "lit" /\ ast[value].name = v
           P == {i \in DOMAIN all : ~Same(all[i])}
           values == Select(all, P)
<1>1. MadeAt(n) = {Candidate(value, "ReturnValue", v) :
                      v \in {v \in IF ReturnApplies(n) THEN ItemsOf(all) ELSE {} : ~Same(v)}}
  BY DEF MadeAt, Made
<1>2. CASE ~ReturnApplies(n)
  BY <1>1, <1>2, EmptyIsSeq DEF ReturnMutants
<1>3. CASE ReturnApplies(n)
  <2>1. IsSeq(all) /\ P \in SUBSET DOMAIN all
    <3>1. fns # <<>>
      BY <1>3 DEF ReturnApplies
    <3> QED BY <3>1, FnsTop, ReturnsIs DEF StacksInv, PathInv
  <2>2. ReturnMutants(n) = [i \in DOMAIN values |-> Candidate(value, "ReturnValue", values[i])]
    BY <1>3 DEF ReturnMutants, ReturnValues
  <2> HIDE DEF value
  <2>3. {all[i] : i \in P} = {v \in IF ReturnApplies(n) THEN ItemsOf(all) ELSE {} : ~Same(v)}
    BY <1>3 DEF ItemsOf
  <2> HIDE DEF P, Same
  <2>4. ItemsOf(ReturnMutants(n)) = {Candidate(value, "ReturnValue", v) : v \in {all[i] : i \in P}}
    <3> HIDE DEF all
    <3> QED BY <2>1, <2>2, ValuesAre
  <2> HIDE DEF all
  <2> QED BY <1>1, <2>3, <2>4
<1> QED BY <1>2, <1>3

\* The candidates of a match are its arms, and its guards twice.
LEMMA MatchMakes ==
    ASSUME ast \in Asts, NEW n \in Nodes, Kind(n) = "match"
    PROVE  ItemsOf(ArmMutants(n) \o GuardMutants(n)) = MadeAt(n)
<1> DEFINE D == {a \in Arms(n) : ~Flag(a, "wild") /\ ~HasChild(a, "guard")}
           deleted == InOrder(D)
           t == [i \in DOMAIN deleted |-> Candidate(deleted[i], "MatchArm", Nothing)]
           G == ItemsOf(GuardsOf(n))
           True2(x) == Candidate(x, "MatchArmGuard", True)
           False2(x) == Candidate(x, "MatchArmGuard", False)
<1>1. MadeAt(n) = {Candidate(a, "MatchArm", Nothing) : a \in {a \in D : HasCatchAll(n)}}
                  \cup {True2(x) : x \in G} \cup {False2(x) : x \in G}
  BY DEF MadeAt, Made
<1>2. IsSeq(ArmMutants(n)) /\ IsSeq(GuardMutants(n))
  BY ArmsFit, GuardsFit DEF CandidatesFit
<1>3. ItemsOf(ArmMutants(n) \o GuardMutants(n)) = ItemsOf(ArmMutants(n)) \cup ItemsOf(GuardMutants(n))
  BY <1>2, ConcatIsSeq
<1>4. ItemsOf(ArmMutants(n)) = {Candidate(a, "MatchArm", Nothing) : a \in {a \in D : HasCatchAll(n)}}
  <2>1. ArmMutants(n) = Maybe(HasCatchAll(n), t)
    BY DEF ArmMutants
  <2>2. ItemsOf(t) = {Candidate(a, "MatchArm", Nothing) : a \in D}
    <3>1. D \in SUBSET Nodes
      BY DEF Arms, Children
    <3> HIDE DEF D
    <3> QED BY <3>1, PlacesAre
  <2> HIDE DEF t, D
  <2> QED BY <2>1, <2>2, EmptyIsSeq DEF Maybe
<1>5. ItemsOf(GuardMutants(n)) = {True2(x) : x \in G} \cup {False2(x) : x \in G}
  <2> DEFINE g == GuardsOf(n)
             q == GuardMutants(n)
             V(i) == IF i % 2 = 1 THEN True ELSE False
  <2>1. q = [i \in 1 .. 2 * Len(g) |-> Candidate(g[(i + 1) \div 2], "MatchArmGuard", V(i))]
    BY DEF GuardMutants
  <2>2. Len(g) \in Nat /\ DOMAIN g = 1 .. Len(g)
    <3>1. g \in Seq(Nat)
      BY GuardsAre
    <3> QED BY <3>1
  <2>3. G = {g[i] : i \in 1 .. Len(g)}
    BY <2>2 DEF ItemsOf
  <2> HIDE DEF g, q, True2, False2, G
  <2>4. ItemsOf(q) = {q[i] : i \in 1 .. 2 * Len(g)}
    BY <2>1 DEF ItemsOf
  <2>5. \A i \in 1 .. 2 * Len(g) :
            q[i] = Candidate(g[(i + 1) \div 2], "MatchArmGuard", V(i)) /\ (i + 1) \div 2 \in 1 .. Len(g)
    BY <2>1, <2>2
  <2>6. \A i \in 1 .. 2 * Len(g) : \E k \in 1 .. Len(g) : q[i] = True2(g[k]) \/ q[i] = False2(g[k])
    BY <2>5 DEF True2, False2
  <2>7. ASSUME NEW k \in 1 .. Len(g)
        PROVE  \E i, j \in 1 .. 2 * Len(g) : q[i] = True2(g[k]) /\ q[j] = False2(g[k])
    <3>1. 2 * k - 1 \in 1 .. 2 * Len(g) /\ 2 * k \in 1 .. 2 * Len(g)
          /\ (2 * k - 1 + 1) \div 2 = k /\ (2 * k + 1) \div 2 = k
          /\ (2 * k - 1) % 2 = 1 /\ (2 * k) % 2 # 1
      BY <2>2
    <3>2. q[2 * k - 1] = Candidate(g[k], "MatchArmGuard", True)
          /\ q[2 * k] = Candidate(g[k], "MatchArmGuard", False)
      BY <2>5, <3>1
    <3> QED BY <3>1, <3>2 DEF True2, False2
  <2>8. \A x \in ItemsOf(q) : \E y \in G : x = True2(y) \/ x = False2(y)
    BY <2>3, <2>4, <2>6
  <2>9. \A y \in G : True2(y) \in ItemsOf(q) /\ False2(y) \in ItemsOf(q)
    BY <2>3, <2>4, <2>7
  <2>10. ItemsOf(q) = {True2(x) : x \in G} \cup {False2(x) : x \in G}
    BY <2>8, <2>9
  <2> QED BY <2>10 DEF q
<1> QED BY <1>1, <1>3, <1>4, <1>5

\* What a handler offers collect_mutant, as a set.
LEMMA CandidatesAreMade ==
    ASSUME StacksInv, NEW n \in Nodes
    PROVE  IsSeq(CandidatesAt(n)) /\ ItemsOf(CandidatesAt(n)) = MadeAt(n)
<1>1. ast \in Asts /\ IsSeq(CandidatesAt(n))
  BY CandidatesFitTheirPlace DEF StacksInv, PathInv, CandidatesFit
<1>2. CASE Kind(n) = "fn"
  BY <1>1, <1>2, FnMakes DEF CandidatesAt
<1>3. CASE Kind(n) = "binary"
  <2> DEFINE s == ReplacementsOf(ast[n].name)
             t == [i \in DOMAIN s |-> Candidate(n, "BinaryOperator", Text(s[i]))]
  <2>1. CandidatesAt(n) = t
    BY <1>3 DEF CandidatesAt, BinaryMutants
  <2>2. MadeAt(n) = {Candidate(n, "BinaryOperator", Text(op)) : op \in ItemsOf(s)}
    BY <1>3 DEF MadeAt, Made
  <2> HIDE DEF s
  <2>3. ItemsOf(t) = {Candidate(n, "BinaryOperator", Text(op)) : op \in ItemsOf(s)}
    BY DEF ItemsOf
  <2> HIDE DEF t
  <2> QED BY <1>1, <2>1, <2>2, <2>3
<1>4. CASE Kind(n) = "unary"
  <2> DEFINE b == ast[n].name \in {"!", "-"}
             x == Candidate(n, "UnaryOperator", Nothing)
  <2>1. CandidatesAt(n) = Maybe(b, <<x>>)
    BY <1>4 DEF CandidatesAt, UnaryMutants
  <2>2. MadeAt(n) = {y \in {x} : b}
    BY <1>4 DEF MadeAt, Made
  <2>3. b \in BOOLEAN
    OBVIOUS
  <2> HIDE DEF b, x
  <2> QED BY <1>1, <2>1, <2>2, <2>3, MaybeIs
<1>5. True # False
  BY DEF True, False, Text
<1>6. CASE Kind(n) = "if"
  <2> DEFINE cond == CondOf(n)
             plain == IsPlainCondition(cond)
             exits == "exit" \in Flow[ThenOf(n)]
             x == Candidate(cond, "IfCondition", True)
             y == Candidate(cond, "IfCondition", False)
  <2>1. CandidatesAt(n) = Maybe(plain, <<x>>) \o Maybe(plain /\ ~exits, <<y>>)
    BY <1>6 DEF CandidatesAt, IfMutants, CondOf, ThenOf
  <2>2. MadeAt(n) = {Candidate(cond, "IfCondition", v) :
                        v \in {v \in {True, False} : plain /\ (v = False => ~exits)}}
    BY <1>6 DEF MadeAt, Made
  <2>3. plain \in BOOLEAN /\ exits \in BOOLEAN
    BY DEF IsPlainCondition
  <2> HIDE DEF plain, exits, cond
  <2>4. MadeAt(n) = {z \in {x} : plain} \cup {z \in {y} : plain /\ ~exits}
    BY <1>5, <2>2, <2>3
  <2> HIDE DEF x, y
  <2>5. ItemsOf(CandidatesAt(n)) = {z \in {x} : plain} \cup {z \in {y} : plain /\ ~exits}
    <3>1. (plain /\ ~exits) \in BOOLEAN
      OBVIOUS
    <3>2. /\ IsSeq(Maybe(plain, <<x>>)) /\ ItemsOf(Maybe(plain, <<x>>)) = {z \in {x} : plain}
          /\ IsSeq(Maybe(plain /\ ~exits, <<y>>))
          /\ ItemsOf(Maybe(plain /\ ~exits, <<y>>)) = {z \in {y} : plain /\ ~exits}
      BY <2>3, <3>1, MaybeIs
    <3> DEFINE a == Maybe(plain, <<x>>)
               b == Maybe(plain /\ ~exits, <<y>>)
    <3>3. CandidatesAt(n) = a \o b
      BY <2>1
    <3> HIDE DEF a, b
    <3>4. ItemsOf(a \o b) = ItemsOf(a) \cup ItemsOf(b)
      BY <3>2, ConcatIsSeq DEF a, b
    <3> QED BY <3>2, <3>3, <3>4 DEF a, b
  <2> QED BY <1>1, <2>4, <2>5
<1>7. CASE Kind(n) = "while"
  <2> DEFINE b == IsPlainCondition(CondOf(n))
             x == Candidate(CondOf(n), "WhileCondition", False)
  <2>1. CandidatesAt(n) = Maybe(b, <<x>>)
    BY <1>7 DEF CandidatesAt, WhileMutants, CondOf
  <2>2. MadeAt(n) = {y \in {x} : b}
    BY <1>7 DEF MadeAt, Made
  <2>3. b \in BOOLEAN
    BY DEF IsPlainCondition
  <2> HIDE DEF b, x
  <2> QED BY <1>1, <2>1, <2>2, <2>3, MaybeIs
<1>8. CASE Kind(n) = "match"
  BY <1>1, <1>8, MatchMakes DEF CandidatesAt
<1>9. CASE Kind(n) = "lit"
  <2> DEFINE flipped == IF ast[n].name = True THEN False ELSE True
             b == ast[n].name \in {True, False} /\ ~IsMutatedElsewhere(n)
             x == Candidate(n, "BoolLiteral", flipped)
  <2>1. CandidatesAt(n) = Maybe(b, <<x>>)
    BY <1>9 DEF CandidatesAt, LitMutants
  <2>2. MadeAt(n) = {Candidate(n, "BoolLiteral", v) :
                        v \in {v \in {True, False} :
                                  ast[n].name \in {True, False} \ {v} /\ ~IsMutatedElsewhere(n)}}
    BY <1>9 DEF MadeAt, Made
  <2>3. b \in BOOLEAN
    OBVIOUS
  <2>4. MadeAt(n) = {y \in {x} : b}
    BY <1>5, <2>2
  <2> HIDE DEF b, x
  <2> QED BY <1>1, <2>1, <2>3, <2>4, MaybeIs
<1>10. CASE Kind(n) = "struct"
  <2> DEFINE F == {c \in Children(n) : Kind(c) = "field" /\ ~Flag(c, "indexed")}
             fields == InOrder(F)
             t == [i \in DOMAIN fields |-> Candidate(fields[i], "StructField", Nothing)]
  <2>1. CandidatesAt(n) = Maybe(HasChild(n, "rest"), t)
    BY <1>10 DEF CandidatesAt, StructMutants
  <2>2. MadeAt(n) = {Candidate(f, "StructField", Nothing) : f \in {c \in F : HasChild(n, "rest")}}
    BY <1>10 DEF MadeAt, Made
  <2>3. ItemsOf(t) = {Candidate(f, "StructField", Nothing) : f \in F}
    <3>1. F \in SUBSET Nodes
      BY DEF Children
    <3> HIDE DEF F
    <3> QED BY <1>1, <3>1, PlacesAre
  <2> HIDE DEF t, F
  <2> QED BY <1>1, <2>1, <2>2, <2>3, EmptyIsSeq DEF Maybe
<1>11. CASE Kind(n) = "block"
  <2> DEFINE deleted == InOrder(Deletable(n))
             t == [i \in DOMAIN deleted |-> Candidate(deleted[i], "DeleteStatement", Nothing)]
  <2>1. CandidatesAt(n) = t
    BY <1>11 DEF CandidatesAt, BlockMutants, DeletableStatements, Deletable
  <2>2. ItemsOf(t) = {Candidate(c, "DeleteStatement", Nothing) : c \in Deletable(n)}
    <3>1. Deletable(n) \in SUBSET Nodes
      BY DEF Deletable, Children
    <3> QED BY <1>1, <3>1, PlacesAre
  <2> HIDE DEF t
  <2> QED BY <1>1, <1>11, <2>1, <2>2 DEF MadeAt, Made
<1>12. CASE Kind(n) = "return"
  BY <1>1, <1>12, ReturnMakes DEF CandidatesAt
<1>13. CASE Kind(n) \notin {"fn", "binary", "unary", "if", "while", "match", "lit", "struct", "block",
                            "return"}
  BY <1>1, <1>13, EmptyIsSeq DEF MadeAt, Made, CandidatesAt
<1> QED BY <1>2, <1>3, <1>4, <1>6, <1>7, <1>8, <1>9, <1>10, <1>11, <1>12, <1>13

-----------------------------------------------------------------------------
(* Control flow is kept *)

\* The genre of a candidate is that of the handler.
LEMMA GenresAre ==
    ASSUME NEW n \in Nodes, NEW c \in MadeAt(n)
    PROVE  /\ c.genre = "FnValue" <=> Kind(n) = "fn"
           /\ c.genre = "BinaryOperator" <=> Kind(n) = "binary"
           /\ c.genre = "UnaryOperator" <=> Kind(n) = "unary"
           /\ c.genre = "IfCondition" <=> Kind(n) = "if"
           /\ c.genre = "WhileCondition" <=> Kind(n) = "while"
           /\ c.genre \in {"MatchArm", "MatchArmGuard"} <=> Kind(n) = "match"
           /\ c.genre = "BoolLiteral" <=> Kind(n) = "lit"
           /\ c.genre = "StructField" <=> Kind(n) = "struct"
           /\ c.genre = "DeleteStatement" <=> Kind(n) = "block"
           /\ c.genre = "ReturnValue" <=> Kind(n) = "return"
BY CandidateIs DEF MadeAt, Made

\* The condition and the branch of an if are in the tree.
LEMMA IfIs ==
    ASSUME ast \in Asts, NEW n \in Nodes, Kind(n) = "if"
    PROVE  /\ CondOf(n) \in Nodes /\ ast[CondOf(n)].up = n
           /\ ThenOf(n) \in Nodes /\ ast[ThenOf(n)].up = n
<1>1. HasChild(n, "cond") /\ HasChild(n, "then")
  BY SyntaxIs
<1> QED BY <1>1, ChildIs DEF CondOf, ThenOf

\* What is collected at a node keeps the control flow, if all that was collected
\* before is of other nodes.
LEMMA FlowEnters ==
    ASSUME StacksInv, MutantsInv, FlowInv, NEW n \in Nodes, Visit(n), Enters(n)
    PROVE  \A m \in ItemsOf(mutants') :
              Origin(m) \in Nodes /\ Origin(m) <= n /\ KeepsFlow(m)
<1>1. ast \in Asts /\ at = n /\ Len(ast) \in Nat /\ Nodes = 1 .. Len(ast) /\ n \in Nat
  BY OpenIs DEF StacksInv, PathInv, Enters, Proceeds, Ready
<1>2. \A m \in ItemsOf(mutants) : Origin(m) < n /\ Origin(m) \in Nodes /\ KeepsFlow(m)
  BY <1>1 DEF FlowInv, MutantsInv, Fits
<1>3. CASE mutants' = mutants
  BY <1>1, <1>2, <1>3
<1>4. CASE Collect(CandidatesAt(n), excludes', fns', constEvalDepth')
  <2> DEFINE C == ItemsOf(CandidatesAt(n))
  <2>1. C = MadeAt(n) /\ IsSeq(CandidatesAt(n)) /\ IsSeq(mutants)
    BY CandidatesAreMade DEF MutantsInv
  <2>2. \A c \in C : Origin(c) = n /\ Place(c) = c
    BY CandidatesFitTheirPlace DEF CandidatesFit
  <2>3. \A m \in ItemsOf(mutants') \ ItemsOf(mutants) : Place(m) \in C
    BY <1>4, <2>1, <2>2, CollectIs
  <2> HIDE DEF C
  <2>4. ASSUME NEW m \in ItemsOf(mutants') \ ItemsOf(mutants)
        PROVE  Origin(m) = n /\ KeepsFlow(m)
    <3> DEFINE c == Place(m)
    <3>1. m.node = c.node /\ m.genre = c.genre /\ m.value = c.value
      BY CandidateIs DEF Place
    <3>2. c \in C /\ Origin(c) = n
      BY <2>2, <2>3, <2>4
    <3> HIDE DEF c
    <3>3. Origin(m) = n
      BY <3>1, <3>2 DEF Origin
    <3>4. ASSUME m.genre = "DeleteStatement" PROVE Escapes(m.node) = {}
      <4>1. Kind(n) = "block"
        BY <2>1, <3>1, <3>2, <3>4, GenresAre
      <4>2. PICK x \in Deletable(n) : c = Candidate(x, "DeleteStatement", Nothing)
        BY <2>1, <3>2, <4>1 DEF MadeAt, Made
      <4>3. m.node = x /\ x \in Nodes /\ Flow[x] = {}
        BY <3>1, <4>2, CandidateIs DEF Deletable, Children
      <4> QED BY <1>1, <4>3, FlowIs DEF FlowInv
    <3>5. ASSUME m.genre = "IfCondition", m.value = False
          PROVE  "exit" \notin Escapes(ThenOf(ast[m.node].up))
      <4>1. Kind(n) = "if"
        BY <2>1, <3>1, <3>2, <3>5, GenresAre
      <4>2. /\ C = {Candidate(CondOf(n), "IfCondition", v) :
                       v \in {v \in {True, False} : /\ IsPlainCondition(CondOf(n))
                                                    /\ v = False => "exit" \notin Flow[ThenOf(n)]}}
            /\ ast[CondOf(n)].up = n /\ ThenOf(n) \in Nodes
        BY <1>1, <2>1, <4>1, IfIs DEF MadeAt, Made
      <4>3. Flow[ThenOf(n)] = Escapes(ThenOf(n))
        BY <1>1, <4>2, FlowIs DEF FlowInv
      <4>4. PICK v \in {True, False} : /\ c = Candidate(CondOf(n), "IfCondition", v)
                                       /\ v = False => "exit" \notin Flow[ThenOf(n)]
        BY <3>2, <4>2
      <4>5. m.node = CondOf(n) /\ v = False
        <5>1. c.node = CondOf(n) /\ c.value = v
          BY <4>4, CandidateIs
        <5> QED BY <3>1, <3>5, <5>1
      <4> QED BY <4>2, <4>3, <4>4, <4>5
    <3> QED BY <3>3, <3>4, <3>5 DEF KeepsFlow
  <2> QED BY <1>1, <1>2, <2>4
<1> QED BY <1>3, <1>4, VisitCollects

\* Every step keeps the invariant.
LEMMA FlowStep ==
    ASSUME StacksInv, MutantsInv, FlowInv, [Next]_vars
    PROVE  FlowInv'
<1>1. ast \in Asts /\ at \in Nat /\ Len(ast) \in Nat /\ Nodes = 1 .. Len(ast)
      /\ DOMAIN memo \subseteq Nodes /\ MemoIsExact
      /\ \A m \in ItemsOf(mutants) : Origin(m) < at /\ Origin(m) \in Nodes /\ KeepsFlow(m)
  BY OpenIs DEF StacksInv, PathInv, FlowInv, MutantsInv, Fits
<1>2. ASSUME ast' = ast, DOMAIN memo' \subseteq Nodes, \A n \in DOMAIN memo' : memo'[n] = Escapes(n),
             \A m \in ItemsOf(mutants') : Origin(m) < at' /\ KeepsFlow(m)
      PROVE  FlowInv'
  <2>1. ItemsOf(mutants)' = ItemsOf(mutants')
    BY DEF ItemsOf
  <2>2. DOMAIN memo' \subseteq Nodes' /\ MemoIsExact'
    BY <1>2, FlowStays DEF MemoIsExact
  <2>3. \A m \in ItemsOf(mutants') : Origin(m)' < at' /\ KeepsFlow(m)'
    BY <1>2, FlowStays
  <2> QED BY <2>1, <2>2, <2>3 DEF FlowInv
<1>3. ASSUME ast' = ast, memo' = memo, mutants' = mutants, at' \in Nat, at <= at' PROVE FlowInv'
  <2>1. \A m \in ItemsOf(mutants') : Origin(m) < at' /\ KeepsFlow(m)
    BY <1>1, <1>3
  <2> QED BY <1>1, <1>2, <1>3, <2>1 DEF MemoIsExact
<1>4. ASSUME NEW n \in Nodes, Passes(n) PROVE FlowInv'
  <2>1. at' \in Nat /\ at <= at'
    <3>1. at = n /\ at' = After(n)
      BY <1>4 DEF Passes, Ready, Pass
    <3> QED BY <1>1, <3>1, AfterIs
  <2> QED BY <1>3, <1>4, <2>1 DEF Passes, tree, found
<1>5. ASSUME NEW n \in Nodes, Visit(n), Enters(n) PROVE FlowInv'
  <2>1. at = n /\ at' = n + 1 /\ ast' = ast
    BY <1>5 DEF Enters, Proceeds, Ready, Descend, tree
  <2>2. DOMAIN memo' \subseteq Nodes /\ \A k \in DOMAIN memo' : memo'[k] = Escapes(k)
    <3>1. CASE memo' = memo
      BY <1>1, <3>1 DEF MemoIsExact
    <3>2. CASE \E roots : memo' = Queried(roots)
      BY <1>1, <3>2, QueriedIs
    <3> QED BY <1>5, <3>1, <3>2, VisitQueries
  <2>3. \A m \in ItemsOf(mutants') :
            Origin(m) \in Nodes /\ Origin(m) <= n /\ KeepsFlow(m)
    BY <1>5, FlowEnters
  <2>4. \A m \in ItemsOf(mutants') : Origin(m) < at'
    BY <1>1, <2>1, <2>3
  <2> QED BY <1>2, <2>1, <2>2, <2>3, <2>4
<1>6. ASSUME NEW n \in Nodes, Leave(n) PROVE FlowInv'
  BY <1>1, <1>3, <1>6 DEF Leave, tree, found
<1>7. CASE UNCHANGED vars
  BY <1>1, <1>3, <1>7 DEF vars, tree, found
<1> QED BY <1>4, <1>5, <1>6, <1>7, NextIs

\* For every tree: what the memo answers is what the code lets escape, no
\* statement that returns or leaves a loop is deleted, and no condition becomes
\* false whose branch leaves a loop (ControlFlowMemo and visit_expr_if in
\* src/visit.rs).
THEOREM FlowIsKept == Spec => []ControlFlowIsKept
<1>1. Init => StacksInv /\ MutantsInv /\ FlowInv
  BY StacksInit, MutantsInit, FlowInit
<1>2. StacksInv /\ MutantsInv /\ FlowInv /\ [Next]_vars => (StacksInv /\ MutantsInv /\ FlowInv)'
  BY StacksStep, MutantsStep, FlowStep
<1>3. FlowInv => ControlFlowIsKept
  BY DEF FlowInv, KeepsFlow, ThenOf, ControlFlowIsKept
<1> QED BY <1>1, <1>2, <1>3, PTL DEF Spec

-----------------------------------------------------------------------------
(* What is due at a node, said of the tree alone *)

\* The walk finds at a node what is due there.
LEMMA MadeIsDue ==
    ASSUME StacksInv, MemoIsExact, NEW n \in Nodes, Ready(n)
    PROVE  MadeAt(n) = DueAt(n)
<1>1. ast \in Asts /\ Above(n) = ItemsOf(open) /\ \A k \in Nodes : Flow[k] = Escapes(k)
  BY ReadyIs, FlowIs DEF StacksInv, PathInv
<1>2. /\ FnAround(n) = (IF fns = <<>> THEN 0 ELSE Top(fns))
      /\ fns # <<>> => Top(fns) # 0
  <2>1. fns # <<>> => Top(fns) \in Nodes
    BY FnsTop
  <2>2. 0 \notin Nodes
    BY <1>1, TreeIs
  <2> QED BY <1>1, <2>1, <2>2, FnsTop DEF FnAround
<1>3. CASE Kind(n) = "if"
  <2>1. Flow[ThenOf(n)] = Escapes(ThenOf(n))
    BY <1>1, <1>3, IfIs
  <2> QED BY <1>3, <2>1 DEF MadeAt, DueAt, Made
<1>4. CASE Kind(n) = "block"
  <2>1. Deletable(n) = {c \in Children(n) : Discards(n, c) /\ Escapes(c) = {} /\ ~IsSkippedCall(c)}
    BY <1>1 DEF Deletable, Children
  <2> QED BY <1>4, <2>1 DEF MadeAt, DueAt, Made
<1>5. CASE Kind(n) = "lit"
  <2>1. ItemsOf(guards) = GuardsAround(n)
    BY <1>1, StacksImply DEF StacksFollowPath, DepthsFollowPath, GuardsAround
  <2>2. IsWholeBody(n) <=> IsBodyOf(FnAround(n), n)
    BY <1>2 DEF IsWholeBody, IsBodyOf
  <2>3. IsMutatedElsewhere(n) <=> IsBodyOf(FnAround(n), n) \/ n \in GuardsAround(n)
    BY <2>1, <2>2 DEF IsMutatedElsewhere
  <2> QED BY <1>5, <2>3 DEF MadeAt, DueAt, Made
<1>6. CASE Kind(n) = "return"
  <2>1. closureDepth = 0 <=> OfKind({"closure"}, Above(n)) = {}
    <3> DEFINE C == OfKind({"closure"}, ItemsOf(open))
    <3>1. closureDepth = Cardinality(C) /\ C \in SUBSET ItemsOf(open)
      BY StacksImply DEF StacksFollowPath, DepthsFollowPath, OfKind
    <3> HIDE DEF C
    <3>2. IsFiniteSet(C)
      BY <3>1, OpenIsFinite, FS_Subset DEF StacksInv
    <3>3. Cardinality(C) = 0 <=> C = {}
      BY <3>2, FS_EmptySet
    <3> QED BY <1>1, <3>1, <3>3 DEF C
  <2>2. ReturnsDue(n) = IF ReturnApplies(n) THEN ItemsOf(Returns[ast[Top(fns)].type]) ELSE {}
    <3>1. CASE fns = <<>>
      BY <1>2, <3>1 DEF ReturnsDue, ReturnApplies
    <3>2. CASE fns # <<>>
      BY <1>2, <2>1, <3>2 DEF ReturnsDue, ReturnApplies
    <3> QED BY <3>1, <3>2
  <2> QED BY <1>6, <2>2 DEF MadeAt, DueAt, Made
<1>7. CASE Kind(n) \notin {"if", "block", "lit", "return"}
  BY <1>7 DEF MadeAt, DueAt, Made
<1> QED BY <1>3, <1>4, <1>5, <1>6, <1>7

-----------------------------------------------------------------------------
(* No candidate is made twice *)

Like(a, b) == a.node = b.node /\ a.genre = b.genre /\ a.value = b.value
NoRepeat(s) == \A i, j \in DOMAIN s : Like(s[i], s[j]) => i = j
Once(s) == \A i, j \in DOMAIN s : s[i] = s[j] => i = j

\* What is alike puts the same value in the same place.
LEMMA LikeIs == \A a, b : Like(a, b) <=> Place(a) = Place(b)
<1> SUFFICES ASSUME NEW a, NEW b PROVE Like(a, b) <=> Place(a) = Place(b)
  OBVIOUS
<1>1. /\ Place(a).node = a.node /\ Place(a).genre = a.genre /\ Place(a).value = a.value
      /\ Place(b).node = b.node /\ Place(b).genre = b.genre /\ Place(b).value = b.value
  BY CandidateIs DEF Place
<1> QED BY <1>1 DEF Like, Place

\* A list in order has nothing twice.
LEMMA IncreasingIsOnce ==
    ASSUME NEW s \in Seq(Nat), Increasing(s)
    PROVE  Once(s)
<1> SUFFICES ASSUME NEW i \in DOMAIN s, NEW j \in DOMAIN s, s[i] = s[j], i # j PROVE FALSE
  BY DEF Once
<1>1. i \in Nat /\ j \in Nat /\ s[i] \in Nat
  OBVIOUS
<1>2. i < j \/ j < i
  BY <1>1
<1> QED BY <1>1, <1>2 DEF Increasing

\* What is selected from a list without repeats has none.
LEMMA SelectIsOnce ==
    ASSUME NEW s, IsSeq(s), NEW P \in SUBSET DOMAIN s
    PROVE  /\ Once(s) => Once(Select(s, P))
           /\ NoRepeat(s) => NoRepeat(Select(s, P))
<1>1. Len(s) \in Nat /\ DOMAIN s = 1 .. Len(s)
  BY IsSeqIs
<1>2. P \in SUBSET Nat /\ IsFiniteSet(P)
  <2>1. IsFiniteSet(1 .. Len(s))
    BY <1>1, FS_Interval
  <2>2. IsFiniteSet(P)
    BY <1>1, <2>1, FS_Subset
  <2>3. \A i \in P : i \in Nat
    BY <1>1
  <2> QED BY <2>2, <2>3
<1> DEFINE order == InOrder(P)
           t == Select(s, P)
<1>3. order \in Seq(P) /\ Increasing(order)
  BY <1>2, InOrderIs DEF Follows
<1>4. t = [i \in DOMAIN order |-> s[order[i]]]
  BY DEF Select
<1> HIDE DEF order, t
<1>5. Len(order) \in Nat /\ DOMAIN order = 1 .. Len(order) /\ \A i \in DOMAIN order : order[i] \in P
  BY <1>3
<1>6. order \in Seq(Nat)
  BY <1>2, <1>3, <1>5
<1>7. Once(order)
  BY <1>3, <1>6, IncreasingIsOnce
<1>8. \A i \in DOMAIN t : i \in DOMAIN order /\ t[i] = s[order[i]] /\ order[i] \in DOMAIN s
  BY <1>4, <1>5
<1> QED BY <1>7, <1>8 DEF Once, NoRepeat, t

\* Values in the same place, and places with the same value, are apart if they
\* are in their lists.
LEMMA EachIsOnce ==
    ASSUME NEW s, Once(s), NEW x, NEW genre
    PROVE  /\ NoRepeat([i \in DOMAIN s |-> Candidate(x, genre, s[i])])
           /\ NoRepeat([i \in DOMAIN s |-> Candidate(s[i], genre, x)])
BY CandidateIs DEF Once, NoRepeat, Like

\* An item at most is there once.
LEMMA MaybeIsOnce ==
    ASSUME NEW b, NEW x
    PROVE  NoRepeat(Maybe(b, <<x>>)) /\ NoRepeat(<<>>)
<1>1. NoRepeat(<<x>>) /\ NoRepeat(<<>>)
  BY DEF NoRepeat
<1> QED BY <1>1 DEF Maybe

\* Two lists that have nothing alike, one after the other.
LEMMA ConcatIsOnce ==
    ASSUME NEW s, NEW t, IsSeq(s), IsSeq(t), NoRepeat(s), NoRepeat(t),
           \A x \in ItemsOf(s) : \A y \in ItemsOf(t) : ~Like(x, y)
    PROVE  NoRepeat(s \o t)
<1> DEFINE T == ItemsOf(s) \cup ItemsOf(t)
           q == s \o t
<1>1. s \in Seq(T) /\ t \in Seq(T)
  BY DEF IsSeq
<1> HIDE DEF T
<1>2. /\ DOMAIN q = 1 .. Len(s) + Len(t)
      /\ Len(s) \in Nat /\ Len(t) \in Nat /\ DOMAIN s = 1 .. Len(s) /\ DOMAIN t = 1 .. Len(t)
      /\ \A i \in 1 .. Len(s) : q[i] = s[i]
      /\ \A i \in Len(s) + 1 .. Len(s) + Len(t) : q[i] = t[i - Len(s)]
  BY <1>1
<1> HIDE DEF q
<1>3. \A i \in DOMAIN q :
          \/ i \in DOMAIN s /\ q[i] = s[i] /\ q[i] \in ItemsOf(s)
          \/ i \notin DOMAIN s /\ i - Len(s) \in DOMAIN t /\ q[i] = t[i - Len(s)] /\ q[i] \in ItemsOf(t)
  BY <1>2 DEF ItemsOf
<1>4. \A x, y : Like(x, y) => Like(y, x)
  BY DEF Like
<1>5. ASSUME NEW i \in DOMAIN q, NEW j \in DOMAIN q, Like(q[i], q[j]) PROVE i = j
  <2>1. CASE i \in DOMAIN s /\ j \in DOMAIN s
    BY <1>3, <1>5, <2>1 DEF NoRepeat
  <2>2. CASE i \notin DOMAIN s /\ j \notin DOMAIN s
    <3>1. i - Len(s) = j - Len(s)
      BY <1>3, <1>5, <2>2 DEF NoRepeat
    <3> QED BY <1>2, <3>1
  <2> QED BY <1>3, <1>4, <1>5, <2>1, <2>2
<1> QED BY <1>5 DEF NoRepeat, q

\* No replacement of an operator is there twice, and all are operators.
LEMMA OperatorsAreOnce ==
    \A op : Once(ReplacementsOf(op)) /\ ItemsOf(ReplacementsOf(op)) \subseteq DOMAIN OperatorReplacements
<1> DEFINE D == DOMAIN OperatorReplacements
           Q(s) == Once(s) /\ ItemsOf(s) \subseteq D
<1> SUFFICES ASSUME NEW op PROVE Q(ReplacementsOf(op))
  OBVIOUS
<1>3. /\ Q(<<>>)
      /\ \A a \in D : Q(<<a>>)
      /\ \A a, b \in D : a # b => Q(<<a, b>>)
      /\ \A a, b, c \in D : a # b /\ b # c /\ a # c => Q(<<a, b, c>>)
  <2> HIDE DEF D
  <2>1. Q(<<>>)
    BY DEF Once, ItemsOf
  <2>2. ASSUME NEW a \in D PROVE Q(<<a>>)
    BY DEF Once, ItemsOf
  <2>3. ASSUME NEW a \in D, NEW b \in D, a # b PROVE Q(<<a, b>>)
    <3>1. ItemsOf(<<a, b>>) = {a, b}
      BY DEF ItemsOf
    <3>2. Once(<<a, b>>)
      BY <2>3 DEF Once
    <3> QED BY <3>1, <3>2
  <2>4. ASSUME NEW a \in D, NEW b \in D, NEW c \in D, a # b, b # c, a # c PROVE Q(<<a, b, c>>)
    <3>1. ItemsOf(<<a, b, c>>) = {a, b, c}
      BY DEF ItemsOf
    <3>2. Once(<<a, b, c>>)
      BY <2>4 DEF Once
    <3> QED BY <3>1, <3>2
  <2> QED BY <2>1, <2>2, <2>3, <2>4
<1>4. {"==", "!=", "&&", "||", "<", ">", "<=", ">=", "+", "-", "*", "/", "%", "<<", ">>", "&", "|", "^",
       "+=", "-=", "*=", "/=", "%=", "<<=", ">>=", "&=", "|=", "^="} = D
  BY DEF OperatorReplacements
<1> HIDE DEF Q, D
<1>1. CASE op \in DOMAIN OperatorReplacements
  <2>1. Q(OperatorReplacements[op])
    <3>1. op \in {"==", "!=", "&&", "||", "<", ">", "<=", ">=", "+", "-", "*", "/", "%", "<<",
                  ">>", "&", "|", "^", "+=", "-=", "*=", "/=", "%=", "<<=", ">>=", "&=", "|=", "^="}
      BY <1>1 DEF OperatorReplacements
    <3>2. CASE op \in {"==", "!=", "&&", "||", "<", ">"}
      <4>1. OperatorReplacements[op] \in {<<"!=">>, <<"==">>, <<"||">>, <<"&&">>,
                                         <<"==", ">", "<=">>, <<"==", "<", ">=">>}
        BY <3>2 DEF OperatorReplacements
      <4>2. Q(<<"!=">>) /\ Q(<<"==">>) /\ Q(<<"||">>)
            /\ Q(<<"&&">>) /\ Q(<<"==", ">", "<=">>) /\ Q(<<"==", "<", ">=">>)
        BY <1>3, <1>4
      <4> QED BY <4>1, <4>2
    <3>3. CASE op \in {"<=", ">=", "-", "*", "-=", "*="}
      <4>1. OperatorReplacements[op] \in {<<">", "<">>, <<"<", ">">>, <<"+", "/">>, <<"+=", "/=">>}
        BY <3>3 DEF OperatorReplacements
      <4>2. Q(<<">", "<">>) /\ Q(<<"<", ">">>) /\ Q(<<"+", "/">>)
            /\ Q(<<"+=", "/=">>)
        BY <1>3, <1>4
      <4> QED BY <4>1, <4>2
    <3>4. CASE op \in {"+", "+=", "/", "/=", "%", "%="}
      <4>1. OperatorReplacements[op] \in {<<"-", "*">>, <<"-=", "*=">>, <<"%", "*">>, <<"%=", "*=">>,
                                         <<"/", "+">>, <<"/=", "+=">>}
        BY <3>4 DEF OperatorReplacements
      <4>2. Q(<<"-", "*">>) /\ Q(<<"-=", "*=">>) /\ Q(<<"%", "*">>)
            /\ Q(<<"%=", "*=">>) /\ Q(<<"/", "+">>) /\ Q(<<"/=", "+=">>)
        BY <1>3, <1>4
      <4> QED BY <4>1, <4>2
    <3>5. CASE op \in {"<<", ">>", "<<=", ">>=", "&", "|", "^", "&=", "|=", "^="}
      <4>1. OperatorReplacements[op] \in {<<">>">>, <<"<<">>, <<">>=">>, <<"<<=">>, <<"|", "^">>,
                <<"&", "^">>, <<"|", "&">>, <<"|=">>, <<"&=">>, <<"|=", "&=">>}
        BY <3>5 DEF OperatorReplacements
      <4>2. Q(<<">>">>) /\ Q(<<"<<">>) /\ Q(<<">>=">>)
            /\ Q(<<"<<=">>) /\ Q(<<"|", "^">>) /\ Q(<<"&", "^">>)
            /\ Q(<<"|", "&">>) /\ Q(<<"|=">>) /\ Q(<<"&=">>)
            /\ Q(<<"|=", "&=">>)
        BY <1>3, <1>4
      <4> QED BY <4>1, <4>2
    <3> QED BY <3>1, <3>2, <3>3, <3>4, <3>5
  <2> QED BY <1>1, <2>1 DEF ReplacementsOf
<1>2. CASE op \notin DOMAIN OperatorReplacements
  BY <1>2, <1>3, <1>4 DEF ReplacementsOf
<1> QED BY <1>1, <1>2

\* No handler offers the same candidate twice.
LEMMA CandidatesAreOnce ==
    ASSUME StacksInv, NEW n \in Nodes
    PROVE  NoRepeat(CandidatesAt(n))
<1>1. ast \in Asts
  BY DEF StacksInv, PathInv
<1>2. ASSUME NEW S \in SUBSET Nodes PROVE Once(InOrder(S)) /\ InOrder(S) \in Seq(Nat)
  BY <1>1, NodesInOrder, IncreasingIsOnce DEF Follows
<1>3. CASE Kind(n) = "fn"
  <2> DEFINE all == Returns[ast[n].type]
             P == {i \in DOMAIN all : ~BodyIs(n, all[i])}
             values == Select(all, P)
             t == [i \in DOMAIN values |-> Candidate(n, "FnValue", values[i])]
  <2>1. CandidatesAt(n) = t
    BY <1>3 DEF CandidatesAt, FnMutants
  <2>2. IsSeq(all) /\ P \in SUBSET DOMAIN all /\ Once(all)
    <3>1. ast[n].type \in DOMAIN Returns
      BY <1>1, <1>3, VisitorAssumption DEF Nodes, Kind
    <3> QED BY <1>1, <1>3, <3>1, ReturnsIs, ReturnsAssumption DEF Once
  <2> HIDE DEF all, P
  <2>3. Once(values)
    BY <2>2, SelectIsOnce
  <2> HIDE DEF values
  <2>4. NoRepeat(t)
    BY <2>3, EachIsOnce
  <2> HIDE DEF t
  <2> QED BY <2>1, <2>4
<1>4. CASE Kind(n) = "binary"
  <2> DEFINE s == ReplacementsOf(ast[n].name)
             texts == [i \in DOMAIN s |-> Text(s[i])]
             t == [i \in DOMAIN texts |-> Candidate(n, "BinaryOperator", texts[i])]
  <2>1. CandidatesAt(n) = t
    BY <1>4 DEF CandidatesAt, BinaryMutants
  <2>2. Once(s)
    BY OperatorsAreOnce
  <2> HIDE DEF s
  <2>3. Once(texts)
    BY <2>2 DEF Once, Text
  <2> HIDE DEF texts
  <2>4. NoRepeat(t)
    BY <2>3, EachIsOnce
  <2> HIDE DEF t
  <2> QED BY <2>1, <2>4
<1>5. CASE Kind(n) = "unary"
  BY <1>5, MaybeIsOnce DEF CandidatesAt, UnaryMutants
<1>6. CASE Kind(n) = "if"
  <2> DEFINE cond == Child(n, "cond")
             plain == IsPlainCondition(cond)
             exits == "exit" \in Flow[Child(n, "then")]
             x == Candidate(cond, "IfCondition", True)
             y == Candidate(cond, "IfCondition", False)
             a == Maybe(plain, <<x>>)
             b == Maybe(plain /\ ~exits, <<y>>)
  <2>1. CandidatesAt(n) = a \o b
    BY <1>6 DEF CandidatesAt, IfMutants
  <2>2. ~Like(x, y)
    BY CandidateIs DEF Like, True, False, Text
  <2> HIDE DEF plain, exits, x, y
  <2>3. /\ IsSeq(a) /\ IsSeq(b) /\ NoRepeat(a) /\ NoRepeat(b)
        /\ ItemsOf(a) \subseteq {x} /\ ItemsOf(b) \subseteq {y}
    BY EmptyIsSeq, SingleIsSeq, MaybeIsOnce DEF Maybe
  <2> HIDE DEF a, b
  <2> QED BY <2>1, <2>2, <2>3, ConcatIsOnce
<1>7. CASE Kind(n) = "while"
  BY <1>7, MaybeIsOnce DEF CandidatesAt, WhileMutants
<1>8. CASE Kind(n) = "match"
  <2>1. NoRepeat(ArmMutants(n))
    <3> DEFINE D == {a \in Arms(n) : ~Flag(a, "wild") /\ ~HasChild(a, "guard")}
               deleted == InOrder(D)
               t == [i \in DOMAIN deleted |-> Candidate(deleted[i], "MatchArm", Nothing)]
    <3>1. ArmMutants(n) = Maybe(HasCatchAll(n), t)
      BY DEF ArmMutants
    <3>2. D \in SUBSET Nodes
      BY DEF Arms, Children
    <3> HIDE DEF D
    <3>3. Once(deleted)
      BY <1>2, <3>2
    <3> HIDE DEF deleted
    <3>4. NoRepeat(t)
      BY <3>3, EachIsOnce
    <3> QED BY <3>1, <3>4, MaybeIsOnce DEF Maybe
  <2>2. NoRepeat(GuardMutants(n))
    <3> DEFINE g == GuardsOf(n)
               q == GuardMutants(n)
               V(i) == IF i % 2 = 1 THEN True ELSE False
    <3>1. q = [i \in 1 .. 2 * Len(g) |-> Candidate(g[(i + 1) \div 2], "MatchArmGuard", V(i))]
      BY DEF GuardMutants
    <3>2. g \in Seq(Nat) /\ Increasing(g)
      BY <1>1, GuardsAre DEF Follows
    <3>3. Once(g) /\ Len(g) \in Nat /\ DOMAIN g = 1 .. Len(g)
      BY <3>2, IncreasingIsOnce
    <3>4. True # False
      BY DEF True, False, Text
    <3> HIDE DEF g, q
    <3>5. ASSUME NEW i \in 1 .. 2 * Len(g), NEW j \in 1 .. 2 * Len(g), Like(q[i], q[j]) PROVE i = j
      <4>1. g[(i + 1) \div 2] = g[(j + 1) \div 2] /\ V(i) = V(j)
        BY <3>1, <3>5, CandidateIs DEF Like
      <4>2. (i + 1) \div 2 \in 1 .. Len(g) /\ (j + 1) \div 2 \in 1 .. Len(g)
        BY <3>3
      <4>3. (i + 1) \div 2 = (j + 1) \div 2
        BY <3>3, <4>1, <4>2 DEF Once
      <4>4. i % 2 = 1 <=> j % 2 = 1
        BY <3>4, <4>1
      <4> QED BY <3>3, <4>3, <4>4
    <3>6. DOMAIN q = 1 .. 2 * Len(g)
      BY <3>1
    <3> QED BY <3>5, <3>6 DEF NoRepeat, q
  <2>3. CandidatesFit(n, ArmMutants(n)) /\ CandidatesFit(n, GuardMutants(n))
    BY <1>1, ArmsFit, GuardsFit
  <2>4. /\ \A x \in ItemsOf(ArmMutants(n)) : x.genre = "MatchArm"
        /\ \A x \in ItemsOf(GuardMutants(n)) : x.genre = "MatchArmGuard"
    <3>1. \A x \in ItemsOf(ArmMutants(n)) : x.genre = "MatchArm"
      <4>1. ItemsOf(<<>>) = {}
        BY EmptyIsSeq
      <4>2. \A s : \A x \in ItemsOf([i \in DOMAIN s |-> Candidate(s[i], "MatchArm", Nothing)]) :
                x.genre = "MatchArm"
        BY CandidateIs DEF ItemsOf
      <4> QED BY <4>1, <4>2 DEF ArmMutants, Maybe
    <3>2. \A x \in ItemsOf(GuardMutants(n)) : x.genre = "MatchArmGuard"
      BY CandidateIs DEF GuardMutants, ItemsOf
    <3> QED BY <3>1, <3>2
  <2>5. CandidatesAt(n) = ArmMutants(n) \o GuardMutants(n)
    BY <1>8 DEF CandidatesAt
  <2> QED BY <2>1, <2>2, <2>3, <2>4, <2>5, ConcatIsOnce DEF CandidatesFit, Like
<1>9. CASE Kind(n) = "lit"
  BY <1>9, MaybeIsOnce DEF CandidatesAt, LitMutants
<1>10. CASE Kind(n) = "struct"
  <2> DEFINE F == {c \in Children(n) : Kind(c) = "field" /\ ~Flag(c, "indexed")}
             fields == InOrder(F)
             t == [i \in DOMAIN fields |-> Candidate(fields[i], "StructField", Nothing)]
  <2>1. CandidatesAt(n) = Maybe(HasChild(n, "rest"), t)
    BY <1>10 DEF CandidatesAt, StructMutants
  <2>2. F \in SUBSET Nodes
    BY DEF Children
  <2> HIDE DEF F
  <2>3. Once(fields)
    BY <1>2, <2>2
  <2> HIDE DEF fields
  <2>4. NoRepeat(t)
    BY <2>3, EachIsOnce
  <2> QED BY <2>1, <2>4, MaybeIsOnce DEF Maybe
<1>11. CASE Kind(n) = "block"
  <2> DEFINE deleted == InOrder(Deletable(n))
             t == [i \in DOMAIN deleted |-> Candidate(deleted[i], "DeleteStatement", Nothing)]
  <2>1. CandidatesAt(n) = t
    BY <1>11 DEF CandidatesAt, BlockMutants, DeletableStatements, Deletable
  <2>2. Deletable(n) \in SUBSET Nodes
    BY DEF Deletable, Children
  <2>3. Once(deleted)
    BY <1>2, <2>2
  <2> HIDE DEF deleted
  <2>4. NoRepeat(t)
    BY <2>3, EachIsOnce
  <2> HIDE DEF t
  <2> QED BY <2>1, <2>4
<1>12. CASE Kind(n) = "return"
  <2>1. CASE ~ReturnApplies(n)
    BY <1>12, <2>1, MaybeIsOnce DEF CandidatesAt, ReturnMutants
  <2>2. CASE ReturnApplies(n)
    <3> DEFINE value == Child(n, "value")
               all == Returns[ast[Top(fns)].type]
               P == {i \in DOMAIN all : ~(Kind(value) = "lit" /\ ast[value].name = all[i])}
               values == Select(all, P)
               t == [i \in DOMAIN values |-> Candidate(value, "ReturnValue", values[i])]
    <3>1. CandidatesAt(n) = t
      BY <1>12, <2>2 DEF CandidatesAt, ReturnMutants, ReturnValues
    <3>2. IsSeq(all) /\ P \in SUBSET DOMAIN all /\ Once(all)
      <4>1. Top(fns) \in Nodes /\ Kind(Top(fns)) = "fn"
        BY <2>2, FnsTop DEF ReturnApplies
      <4>2. ast[Top(fns)].type \in DOMAIN Returns
        BY <1>1, <4>1, VisitorAssumption DEF Nodes, Kind
      <4> QED BY <1>1, <4>1, <4>2, ReturnsIs, ReturnsAssumption DEF Once
    <3> HIDE DEF all, P, value
    <3>3. Once(values)
      BY <3>2, SelectIsOnce
    <3> HIDE DEF values
    <3>4. NoRepeat(t)
      BY <3>3, EachIsOnce
    <3> HIDE DEF t
    <3> QED BY <3>1, <3>4
  <2> QED BY <2>1, <2>2
<1>13. CASE Kind(n) \notin {"fn", "binary", "unary", "if", "while", "match", "lit", "struct", "block",
                            "return"}
  BY <1>13, MaybeIsOnce DEF CandidatesAt
<1> QED BY <1>3, <1>4, <1>5, <1>6, <1>7, <1>8, <1>9, <1>10, <1>11, <1>12, <1>13

\* What is collected is collected once, if the candidates are new.
LEMMA CollectIsOnce ==
    ASSUME NEW candidates, NEW scopes, NEW inFns, NEW depth, IsSeq(candidates), IsSeq(mutants),
           Collect(candidates, scopes, inFns, depth), NoRepeat(candidates), NoRepeat(mutants),
           \A m \in ItemsOf(mutants) : \A c \in ItemsOf(candidates) : ~Like(m, c)
    PROVE  NoRepeat(mutants')
<1> DEFINE Allowed(c) == /\ ~ExcludedByAttrRe(scopes, c)
                         /\ c.genre = "StructField" \/ AllowsMutant(c)
           P == {i \in DOMAIN candidates : Allowed(candidates[i])}
           kept == Select(candidates, P)
           M(c) == [node |-> c.node, genre |-> c.genre, value |-> c.value,
                    fn |-> IF inFns = <<>> THEN 0 ELSE Top(inFns), constEval |-> depth > 0]
           added == [i \in DOMAIN kept |-> M(kept[i])]
<1>1. mutants' = mutants \o added
  BY DEF Collect
<1>2. P \in SUBSET DOMAIN candidates
  OBVIOUS
<1> HIDE DEF P
<1>3. IsSeq(kept) /\ ItemsOf(kept) = {candidates[i] : i \in P} /\ NoRepeat(kept)
  BY <1>2, SelectIs, SelectIsOnce
<1> HIDE DEF kept
<1>4. \A c : Like(c, M(c)) /\ Like(M(c), c)
  BY DEF Like
<1> HIDE DEF M
<1>5. IsSeq(added) /\ ItemsOf(added) = {M(c) : c \in ItemsOf(kept)} /\ NoRepeat(added)
  <2>1. Len(kept) \in Nat /\ DOMAIN kept = 1 .. Len(kept)
    BY <1>3, IsSeqIs
  <2>2. added = [i \in 1 .. Len(kept) |-> added[i]]
    BY <2>1
  <2>3. ItemsOf(added) = {M(c) : c \in ItemsOf(kept)}
    BY <2>1 DEF ItemsOf
  <2>4. NoRepeat(added)
    BY <1>3, <1>4, <2>1 DEF NoRepeat, Like
  <2> HIDE DEF added
  <2> QED BY <2>1, <2>2, <2>3, <2>4, ListIsSeq
<1> HIDE DEF added
<1>6. ASSUME NEW x \in ItemsOf(mutants), NEW y \in ItemsOf(added) PROVE ~Like(x, y)
  <2>1. PICK c \in ItemsOf(kept) : y = M(c)
    BY <1>5
  <2>2. c \in ItemsOf(candidates)
    BY <1>2, <1>3 DEF ItemsOf
  <2> QED BY <1>4, <2>1, <2>2 DEF Like
<1>7. NoRepeat(mutants \o added)
  BY <1>5, <1>6, ConcatIsOnce
<1> QED BY <1>1, <1>7

-----------------------------------------------------------------------------
(* What is due is what is found *)

\* A mutant is due at the node that made it.
IsDue(m) ==
    /\ Origin(m) \in Nodes /\ Visited(Origin(m)) /\ Wanted(Origin(m), Place(m))
    /\ Place(m) \in DueAt(Origin(m))

\* What is due at a node has been found.
IsFound(ms, n) == \A c \in DueAt(n) : Wanted(n, c) => \E m \in ItemsOf(ms) : Place(m) = c

DueInv ==
    /\ NoRepeat(mutants)
    /\ \A m \in ItemsOf(mutants) : IsDue(m)
    /\ \A n \in Nodes : n < at /\ Visited(n) => IsFound(mutants, n)

\* Nothing is before the first node.
LEMMA DueInit == Init => DueInv
<1> SUFFICES ASSUME Init PROVE DueInv
  OBVIOUS
<1>1. mutants = <<>> /\ at = 1 /\ Nodes = 1 .. Len(ast) /\ Len(ast) \in Nat
  BY TreeIs DEF Init
<1> QED BY <1>1, EmptyIsSeq DEF DueInv, NoRepeat

\* What is due does not depend on the walk.
LEMMA DueStays ==
    ASSUME ast' = ast, filters' = filters
    PROVE  /\ \A n : DueAt(n)' = DueAt(n)
           /\ \A n, c : Wanted(n, c)' = Wanted(n, c)
           /\ \A n : Visited(n)' = Visited(n)
           /\ \A m : Origin(m)' = Origin(m)
           /\ Nodes' = Nodes
<1>1. \A n : Above(n)' = Above(n) /\ Path(n)' = Path(n) /\ Children(n)' = Children(n)
  BY TreeStays DEF Path, Children
<1>2. \A kinds, S : OfKind(kinds, S)' = OfKind(kinds, S)
  BY TreeStays DEF OfKind
<1>3. \A n : /\ FnAround(n)' = FnAround(n) /\ GuardsAround(n)' = GuardsAround(n)
             /\ BodyStatements(n)' = BodyStatements(n) /\ IsTail(n)' = IsTail(n)
             /\ BodyIsSingleReturn(n)' = BodyIsSingleReturn(n)
             /\ \A role : HasChild(n, role)' = HasChild(n, role) /\ Child(n, role)' = Child(n, role)
  BY <1>1, <1>2, TreeStays DEF FnAround, GuardsAround, BodyStatements, IsTail, BodyIsSingleReturn,
                               HasChild, Child
<1>4. \A n : Escapes(n)' = Escapes(n) /\ CondOf(n)' = CondOf(n) /\ ThenOf(n)' = ThenOf(n)
  BY FlowStays
<1>5. \A n : ReturnsDue(n)' = ReturnsDue(n)
  BY <1>1, <1>2, <1>3 DEF ReturnsDue
<1>6. ASSUME NEW n PROVE DueAt(n)' = DueAt(n)
  <2> DEFINE elsewhere == IsBodyOf(FnAround(n), n) \/ n \in GuardsAround(n)
             deletable == {c \in Children(n) : Discards(n, c) /\ Escapes(c) = {} /\ ~IsSkippedCall(c)}
             value == Child(n, "value")
  <2>1. Kind(n)' = Kind(n) /\ ast[n]' = ast[n]
    BY DEF Kind
  <2>2. CASE Kind(n) = "fn"
    <3>1. \A v : BodyIs(n, v)' = BodyIs(n, v)
      BY <1>3 DEF BodyIs, Kind
    <3>2. DueAt(n) = {Candidate(n, "FnValue", v) :
                         v \in {v \in ItemsOf(Returns[ast[n].type]) : ~BodyIs(n, v)}}
      BY <2>2 DEF DueAt, Made
    <3>3. DueAt(n)' = {Candidate(n, "FnValue", v) :
                          v \in {v \in ItemsOf(Returns[ast[n].type]) : ~BodyIs(n, v)}}'
      BY <2>1, <2>2 DEF DueAt, Made
    <3> QED BY <3>1, <3>2, <3>3
  <2>3. CASE Kind(n) = "binary"
    BY <2>1, <2>3 DEF DueAt, Made
  <2>4. CASE Kind(n) = "unary"
    BY <2>1, <2>4 DEF DueAt, Made
  <2>5. CASE Kind(n) = "if"
    BY <1>4, <2>1, <2>5 DEF DueAt, Made, IsPlainCondition, Kind
  <2>6. CASE Kind(n) = "while"
    BY <1>4, <2>1, <2>6 DEF DueAt, Made, IsPlainCondition, Kind
  <2>7. CASE Kind(n) = "match"
    <3>1. /\ HasCatchAll(n)' = HasCatchAll(n) /\ GuardsOf(n)' = GuardsOf(n)
          /\ Arms(n)' = Arms(n) /\ \A a : Flag(a, "wild")' = Flag(a, "wild")
      BY <1>1, TreeStays DEF HasCatchAll, Arms, Flag, Kind
    <3> QED BY <1>3, <2>1, <2>7, <3>1 DEF DueAt, Made
  <2>8. CASE Kind(n) = "lit"
    <3>1. elsewhere' = elsewhere
      BY <1>3 DEF IsBodyOf
    <3> QED BY <2>1, <2>8, <3>1 DEF DueAt, Made
  <2>9. CASE Kind(n) = "struct"
    BY <1>1, <1>3, <2>1, <2>9 DEF DueAt, Made, Flag, Kind
  <2>10. CASE Kind(n) = "block"
    <3>1. \A c : IsSkippedCall(c)' = IsSkippedCall(c) /\ Discards(n, c)' = Discards(n, c)
      BY DEF IsSkippedCall, Discards, UntypedLocals, Children, Kind, Nodes
    <3>2. deletable' = deletable
      BY <1>1, <1>4, <3>1
    <3> QED BY <2>1, <2>10, <3>2 DEF DueAt, Made
  <2>11. CASE Kind(n) = "return"
    BY <1>3, <1>5, <2>1, <2>11 DEF DueAt, Made, Kind
  <2>12. CASE Kind(n) \notin {"fn", "binary", "unary", "if", "while", "match", "lit", "struct", "block",
                              "return"}
    BY <2>1, <2>12 DEF DueAt, Made
  <2> QED BY <2>2, <2>3, <2>4, <2>5, <2>6, <2>7, <2>8, <2>9, <2>10, <2>11, <2>12
<1>7. \A n, c : Wanted(n, c)' = Wanted(n, c)
  <2>1. \A n, c : ExcludedAt(n, c)' = ExcludedAt(n, c)
    BY <1>1, <1>2 DEF ExcludedAt, ExcludedIn
  <2>2. \A c : AllowsMutant(c)' = AllowsMutant(c)
    BY DEF AllowsMutant
  <2> QED BY <2>1, <2>2 DEF Wanted
<1>8. \A n : Visited(n)' = Visited(n)
  BY <1>1, TreeStays DEF Visited
<1> QED BY <1>6, <1>7, <1>8, FlowStays

\* What is collected at a node is what is due there.
LEMMA DueEnters ==
    ASSUME StacksInv, MutantsInv, FlowInv, DueInv, StacksInv', NEW n \in Nodes, Visit(n), Enters(n)
    PROVE  /\ NoRepeat(mutants')
           /\ \A m \in ItemsOf(mutants') : IsDue(m)
           /\ \A k \in Nodes : k <= n /\ Visited(k) => IsFound(mutants', k)
<1>1. Ready(n) /\ at = n /\ n \in Nat /\ Nodes \in SUBSET Nat
  <2>1. Ready(n) /\ at = n
    BY DEF Enters, Proceeds, Ready
  <2>2. Nodes = 1 .. Len(ast) /\ Len(ast) \in Nat
    BY OpenIs DEF StacksInv
  <2>3. Nodes \in SUBSET Nat
    BY <2>2
  <2> QED BY <2>1, <2>3
<1>2. \A m \in ItemsOf(mutants) : Origin(m) < n /\ Origin(m) \in Nodes /\ IsDue(m)
  BY <1>1 DEF FlowInv, DueInv, IsDue
<1> DEFINE C == ItemsOf(CandidatesAt(n))
           old == ItemsOf(mutants)
           now == ItemsOf(mutants')
           Lets(c) == /\ ~ExcludedByAttrRe(excludes', c)
                      /\ c.genre = "StructField" \/ AllowsMutant(c)
<1>3. C = DueAt(n) /\ IsSeq(CandidatesAt(n)) /\ IsSeq(mutants) /\ NoRepeat(mutants)
      /\ NoRepeat(CandidatesAt(n))
  <2>1. MadeAt(n) = DueAt(n)
    BY <1>1, MadeIsDue DEF FlowInv
  <2> QED BY <2>1, CandidatesAreMade, CandidatesAreOnce DEF MutantsInv, DueInv
<1>4. Visited(n) /\ \A c : Lets(c) <=> Wanted(n, c)
  <2>1. Visited(n)
        /\ ItemsOf(excludes') = {a \in OfKind(Scoped, Path(n)) : ScopePushes(ast[a].attrs)}
    BY EnteredIs
  <2>2. \A c : ExcludedByAttrRe(excludes', c) <=> ExcludedAt(n, c)
    BY <2>1, ExcludedIs
  <2> QED BY <2>1, <2>2 DEF Wanted
<1>5. \A c \in C : Origin(c) = n /\ Place(c) = c
  BY CandidatesFitTheirPlace DEF CandidatesFit
<1>10. \A m : /\ Place(m).genre = m.genre
              /\ Origin(Place(m)) = Origin(m)
  BY CandidateIs DEF Place, Origin
<1>6. /\ NoRepeat(mutants')
      /\ \A m \in old : m \in now
      /\ \A m \in now \ old : Lets(Place(m)) /\ Place(m) \in C
      /\ \A c \in C : Lets(c) => \E m \in now : Place(m) = c
  <2>1. CASE CandidatesAt(n) = <<>> /\ mutants' = mutants
    BY <1>3, <2>1, EmptyIsSeq
  <2>2. CASE Collect(CandidatesAt(n), excludes', fns', constEvalDepth')
    <3>1. \A m \in old : \A c \in C : ~Like(m, c)
      <4> SUFFICES ASSUME NEW m \in old, NEW c \in C, Like(m, c) PROVE FALSE
        OBVIOUS
      <4>1. Origin(m) = Origin(c)
        BY DEF Like, Origin
      <4> QED BY <1>1, <1>2, <1>5, <4>1
    <3>2. NoRepeat(mutants')
      BY <1>3, <2>2, <3>1, CollectIsOnce
    <3> QED BY <1>3, <1>5, <1>10, <2>2, <3>2, CollectIs
  <2> QED BY <2>1, <2>2, VisitCollects
<1> HIDE DEF C, old, now, Lets
<1>7. ASSUME NEW m \in now PROVE IsDue(m)
  <2>1. CASE m \in old
    BY <1>2, <2>1 DEF old
  <2>2. CASE m \notin old
    <3>1. Place(m) \in C /\ Lets(Place(m))
      BY <1>6, <2>2
    <3>2. Origin(m) = n
      BY <1>5, <1>10, <3>1
    <3> QED BY <1>3, <1>4, <3>1, <3>2 DEF IsDue
  <2> QED BY <2>1, <2>2
<1>8. ASSUME NEW k \in Nodes, k <= n, Visited(k) PROVE IsFound(mutants', k)
  <2>1. CASE k = n
    BY <1>3, <1>4, <1>6, <2>1 DEF IsFound, now
  <2>2. CASE k < n
    <3>1. IsFound(mutants, k)
      BY <1>1, <1>8, <2>2 DEF DueInv
    <3> QED BY <1>6, <3>1 DEF IsFound, now, old
  <2> QED BY <1>1, <1>8, <2>1, <2>2
<1> QED BY <1>6, <1>7, <1>8 DEF now

\* Every step keeps the invariant.
LEMMA DueStep ==
    ASSUME StacksInv, MutantsInv, FlowInv, DueInv, StacksInv', [Next]_vars
    PROVE  DueInv'
<1>1. at \in Nat /\ Len(ast) \in Nat /\ Nodes = 1 .. Len(ast)
  BY OpenIs DEF StacksInv
<1>2. ASSUME ast' = ast, filters' = filters, NoRepeat(mutants'),
             \A m \in ItemsOf(mutants') : IsDue(m),
             \A k \in Nodes : k < at' /\ Visited(k) => IsFound(mutants', k)
      PROVE  DueInv'
  <2>1. ItemsOf(mutants)' = ItemsOf(mutants') /\ NoRepeat(mutants)'
    BY <1>2 DEF ItemsOf, NoRepeat, Like
  <2>2. /\ \A k : DueAt(k)' = DueAt(k)
        /\ \A k, c : Wanted(k, c)' = Wanted(k, c)
        /\ \A k : Visited(k)' = Visited(k)
        /\ \A m : Origin(m)' = Origin(m)
        /\ Nodes' = Nodes
    BY <1>2, DueStays
  <2>3. \A m : IsDue(m) => IsDue(m)'
    BY <2>2 DEF IsDue, Place, Candidate
  <2>4. \A k : IsFound(mutants', k) => IsFound(mutants, k)'
    BY <2>1, <2>2 DEF IsFound, Place, Candidate
  <2> QED BY <1>2, <2>1, <2>2, <2>3, <2>4 DEF DueInv
<1>3. ASSUME NEW n \in Nodes, Passes(n) PROVE DueInv'
  <2>1. ast' = ast /\ filters' = filters /\ mutants' = mutants
    BY <1>3 DEF Passes, tree, found
  <2>2. ASSUME NEW k \in Nodes, k < at', Visited(k) PROVE k < at
    <3> SUFFICES ASSUME at <= k PROVE FALSE
      BY <1>1
    <3>1. ~Enterable(n) /\ (k = n \/ n \in Above(k))
      BY <1>3, <2>2, PassedIs DEF StacksInv
    <3> QED BY <2>2, <3>1 DEF Visited, Path, Enterable
  <2> QED BY <1>2, <2>1, <2>2 DEF DueInv
<1>4. ASSUME NEW n \in Nodes, Visit(n), Enters(n) PROVE DueInv'
  <2>1. at = n /\ at' = n + 1 /\ ast' = ast /\ filters' = filters
    BY <1>4 DEF Enters, Proceeds, Ready, Descend, tree
  <2>2. /\ NoRepeat(mutants')
        /\ \A m \in ItemsOf(mutants') : IsDue(m)
        /\ \A k \in Nodes : k <= n /\ Visited(k) => IsFound(mutants', k)
    BY <1>4, DueEnters
  <2>3. \A k \in Nodes : k < at' => k <= n
    BY <1>1, <2>1
  <2> QED BY <1>2, <2>1, <2>2, <2>3
<1>5. ASSUME NEW n \in Nodes, Leave(n) PROVE DueInv'
  BY <1>2, <1>5 DEF Leave, tree, found, DueInv
<1>6. CASE UNCHANGED vars
  BY <1>2, <1>6 DEF vars, tree, found, DueInv
<1> QED BY <1>3, <1>4, <1>5, <1>6, NextIs

VisitInv == StacksInv /\ MutantsInv /\ FlowInv /\ DueInv

\* What is due has been found, and nothing else, wherever the walk is.
LEMMA VisitIsKept == Spec => []VisitInv
<1>1. Init => VisitInv
  BY StacksInit, MutantsInit, FlowInit, DueInit DEF VisitInv
<1>2. VisitInv /\ [Next]_vars => VisitInv'
  BY StacksStep, MutantsStep, FlowStep, DueStep DEF VisitInv
<1> QED BY <1>1, <1>2, PTL DEF Spec

\* When the walk is done, the mutants are what is due at the nodes visited, each
\* once.
LEMMA DoneIsDue ==
    ASSUME StacksInv, DueInv, Done
    PROVE  /\ ast \in Asts /\ Nodes \in SUBSET Nat
           /\ NoRepeat(mutants)
           /\ \A m \in ItemsOf(mutants) : IsDue(m)
           /\ \A n \in Nodes : Visited(n) => IsFound(mutants, n)
<1>1. Nodes = 1 .. Len(ast) /\ Len(ast) \in Nat /\ at = Len(ast) + 1 /\ ast \in Asts
  BY OpenIs DEF StacksInv, PathInv, Done
<1>2. \A n \in Nodes : n < at
  BY <1>1
<1> QED BY <1>1, <1>2 DEF DueInv

-----------------------------------------------------------------------------
(* Nothing is missed *)

\* For every tree, attributes and patterns: every value that is due at a place that
\* is visited, and whose name no attribute around it and no option excludes, is put
\* there, once, and no other value anywhere (the visit_* and collect_mutant in
\* src/visit.rs, in all eleven genres).
THEOREM NothingIsLost == Spec => []NothingIsMissed
<1>1. VisitInv => NothingIsMissed
  <2> SUFFICES ASSUME StacksInv, DueInv, Done PROVE NothingIsMissed
    BY DEF NothingIsMissed, VisitInv
  <2> DEFINE due == UNION {{c \in DueAt(n) : Wanted(n, c)} : n \in {n \in Nodes : Visited(n)}}
  <2>1. /\ NoRepeat(mutants)
        /\ \A m \in ItemsOf(mutants) : IsDue(m)
        /\ \A n \in Nodes : Visited(n) => IsFound(mutants, n)
    BY DoneIsDue
  <2>2. \A i, j \in DOMAIN mutants : Place(mutants[i]) = Place(mutants[j]) => i = j
    BY <2>1, LikeIs DEF NoRepeat
  <2>3. ASSUME NEW m \in ItemsOf(mutants) PROVE Place(m) \in due
    BY <2>1 DEF IsDue
  <2>4. ASSUME NEW c \in due PROVE \E m \in ItemsOf(mutants) : Place(m) = c
    BY <2>1 DEF IsFound
  <2>5. {Place(m) : m \in ItemsOf(mutants)} = due
    BY <2>3, <2>4
  <2> QED BY <2>2, <2>5 DEF NothingIsMissed
<1> QED BY <1>1, VisitIsKept, PTL

-----------------------------------------------------------------------------
(* Literals flip *)

\* The last of some nodes.
LEMMA LastIs ==
    ASSUME ast \in Asts, NEW S \in SUBSET Nodes
    PROVE  IF S = {} THEN Last(S) = 0
           ELSE Last(S) # 0 /\ Last(S) \in S /\ \A m \in S : m <= Last(S)
<1> DEFINE s == InOrder(S)
<1>1. s \in Seq(Nat) /\ Follows(s, S) /\ S \in SUBSET Nat /\ Len(s) = Cardinality(S) /\ 0 \notin Nodes
  BY NodesInOrder, TreeIs
<1> HIDE DEF s
<1>2. s # <<>> => Top(s) \in S /\ \A m \in S : m <= Top(s)
  BY <1>1, TopIs
<1>3. Last(S) = IF s = <<>> THEN 0 ELSE Top(s)
  BY <1>1, TopIs
<1>4. s = <<>> <=> S = {}
  BY <1>1, FollowsIs
<1> QED BY <1>1, <1>2, <1>3, <1>4

\* The function around a node.
LEMMA FnAroundIs ==
    ASSUME ast \in Asts, NEW n \in Nodes, FnAround(n) # 0
    PROVE  FnAround(n) \in Nodes /\ Kind(FnAround(n)) = "fn" /\ FnAround(n) \in Above(n)
<1>1. OfKind({"fn"}, Above(n)) \in SUBSET Nodes
  BY AboveIs DEF OfKind
<1>2. FnAround(n) \in OfKind({"fn"}, Above(n))
  BY <1>1, LastIs DEF FnAround
<1> QED BY <1>1, <1>2 DEF OfKind

\* What is visited and not excluded is the same above.
LEMMA SoughtAbove ==
    ASSUME ast \in Asts, NEW n \in Nodes, NEW a \in Path(n), Visited(n)
    PROVE  /\ a \in Nodes /\ Visited(a)
           /\ \A c : ~ExcludedAt(n, c) => ~ExcludedAt(a, c)
<1>1. Path(a) \subseteq Path(n) /\ a \in Nodes
  BY AboveInAbove DEF Path
<1> QED BY <1>1 DEF Visited, ExcludedAt, ExcludedIn, OfKind

\* What a mutant of a function replaces if the body is an expression.
LEMMA BodyIsReplaced ==
    ASSUME ast \in Asts, NEW n \in Nodes, NEW f, IsBodyOf(f, n),
           NEW m, m.genre = "FnValue", m.node = f
    PROVE  Replaced(m) = n
<1>1. BodyStatements(f) = {n} /\ IsTail(n)
  BY DEF IsBodyOf
<1>2. Cardinality({n}) = 1
  BY FS_Singleton
<1>3. Last({n}) = n
  BY LastIs
<1> QED BY <1>1, <1>2, <1>3 DEF Replaced

\* For every tree: each bool literal that is visited is flipped, by one genre or
\* another, if no pattern matches that (visit_expr_lit in src/visit.rs leaves those
\* that the value of a function or the guard of an arm flips).
THEOREM LiteralsAreFlipped == Spec => []LiteralsFlip
<1>1. VisitInv => LiteralsFlip
  <2> SUFFICES ASSUME StacksInv, DueInv, Done, NEW n \in Nodes,
                      Kind(n) = "lit", ast[n].name \in {True, False}, Visited(n),
                      \A a \in Path(n), genre \in Genre :
                          LET c == Candidate(a, genre, IF ast[n].name = True THEN False ELSE True)
                          IN  ~ExcludedAt(n, c) /\ AllowsMutant(c)
               PROVE  LET f == Last(OfKind({"fn"}, Above(n)))
                      IN  \/ \E m \in ItemsOf(mutants) :
                                 /\ Replaced(m) = n
                                 /\ m.value = (IF ast[n].name = True THEN False ELSE True)
                          \/ f # 0 /\ BodyStatements(f) = {n} /\ ast[f].type.con # "bool"
    BY Zenon DEF LiteralsFlip, VisitInv
  <2> DEFINE f == FnAround(n)
             v == IF ast[n].name = True THEN False ELSE True
             Flips == \E m \in ItemsOf(mutants) : Replaced(m) = n /\ m.value = v
  <2>1. ast \in Asts /\ \A k \in Nodes : Visited(k) => IsFound(mutants, k)
    BY DoneIsDue
  <2>2. v \in {True, False} /\ ast[n].name \in {True, False} \ {v} /\ True # False
    BY DEF True, False, Text
  <2>8. \A a \in Path(n), genre \in Genre :
            /\ ~ExcludedAt(n, Candidate(a, genre, v))
            /\ AllowsMutant(Candidate(a, genre, v))
    OBVIOUS
  <2> HIDE DEF v
  <2>3. ASSUME NEW k \in Path(n), NEW a \in Path(n), NEW genre \in Genre,
               Candidate(a, genre, v) \in DueAt(k)
        PROVE  \E m \in ItemsOf(mutants) : Place(m) = Candidate(a, genre, v)
    <3>1. k \in Nodes /\ Visited(k) /\ ~ExcludedAt(k, Candidate(a, genre, v))
      BY <2>1, <2>8, SoughtAbove
    <3>2. Wanted(k, Candidate(a, genre, v))
      BY <2>8, <3>1 DEF Wanted
    <3> QED BY <2>1, <2>3, <3>1, <3>2 DEF IsFound
  <2>9. ASSUME NEW m, NEW a, NEW genre, Place(m) = Candidate(a, genre, v)
        PROVE  m.node = a /\ m.genre = genre /\ m.value = v
    BY <2>9, CandidateIs DEF Place
  <2>4. CASE ~(IsBodyOf(f, n) \/ n \in GuardsAround(n))
    <3> DEFINE c == Candidate(n, "BoolLiteral", v)
    <3>1. DueAt(n) = {Candidate(n, "BoolLiteral", w) :
                         w \in {w \in {True, False} : ast[n].name \in {True, False} \ {w}}}
      BY <2>4 DEF DueAt, Made
    <3>2. c \in DueAt(n) /\ n \in Path(n) /\ "BoolLiteral" \in Genre
      BY <2>2, <3>1 DEF Path, Genre
    <3>3. PICK m \in ItemsOf(mutants) : Place(m) = c
      BY <2>3, <3>2
    <3>4. Replaced(m) = n /\ m.value = v
      BY <2>9, <3>3 DEF Replaced
    <3> QED BY <3>4 DEF v
  <2>5. CASE IsBodyOf(f, n) /\ ast[f].type.con = "bool"
    <3> DEFINE c == Candidate(f, "FnValue", v)
    <3>1. f \in Nodes /\ Kind(f) = "fn" /\ f \in Path(n)
      BY <2>1, <2>5, FnAroundIs DEF IsBodyOf, Path
    <3>2. v \in ItemsOf(Returns[ast[f].type])
      <4>1. ast[f].type \in DOMAIN Returns
        BY <2>1, <3>1, VisitorAssumption DEF Nodes, Kind
      <4>2. {True, False} \subseteq ItemsOf(Returns[ast[f].type])
        BY <2>5, <4>1, ReturnsAssumption
      <4> QED BY <2>2, <4>2
    <3>3. ~BodyIs(f, v)
      BY <2>2, <2>5 DEF BodyIs, IsBodyOf
    <3>4. DueAt(f) = {Candidate(f, "FnValue", w) :
                         w \in {w \in ItemsOf(Returns[ast[f].type]) : ~BodyIs(f, w)}}
      BY <3>1 DEF DueAt, Made
    <3>5. c \in DueAt(f) /\ "FnValue" \in Genre
      BY <3>2, <3>3, <3>4 DEF Genre
    <3>6. PICK m \in ItemsOf(mutants) : Place(m) = c
      BY <2>3, <3>1, <3>5
    <3>7. m.genre = "FnValue" /\ m.node = f /\ m.value = v
      BY <2>9, <3>6
    <3>8. Replaced(m) = n
      BY <2>1, <2>5, <3>7, BodyIsReplaced
    <3> QED BY <3>7, <3>8 DEF v
  <2>6. CASE n \in GuardsAround(n)
    <3> DEFINE c == Candidate(n, "MatchArmGuard", v)
    <3>1. PICK k \in OfKind({"match"}, Above(n)) : n \in ItemsOf(GuardsOf(k))
      BY <2>6 DEF GuardsAround
    <3>2. k \in Path(n) /\ Kind(k) = "match"
      BY <3>1 DEF OfKind, Path
    <3>3. c \in DueAt(k) /\ "MatchArmGuard" \in Genre /\ n \in Path(n)
      BY <2>2, <3>1, <3>2 DEF DueAt, Made, Genre, Path
    <3>4. PICK m \in ItemsOf(mutants) : Place(m) = c
      BY <2>3, <3>2, <3>3
    <3>5. Replaced(m) = n /\ m.value = v
      BY <2>9, <3>4 DEF Replaced
    <3> QED BY <3>5 DEF v
  <2>7. CASE IsBodyOf(f, n) /\ ast[f].type.con # "bool"
    BY <2>7 DEF IsBodyOf, FnAround
  <2> QED BY <2>4, <2>5, <2>6, <2>7
<1> QED BY <1>1, VisitIsKept, PTL

-----------------------------------------------------------------------------
(* No mutant is made twice *)

Values == {True, False} \cup UNION {ItemsOf(Returns[type]) : type \in DOMAIN Returns}
Operators == {Text(op) : op \in DOMAIN OperatorReplacements}

\* What is in the place of a mutant, and its value.
Suits(m, x) ==
    \/ /\ m.genre = "FnValue" /\ m.value \in Values
       /\ \/ x = m.node /\ Kind(x) = "fn" /\ ast[x].role \in {"", "stmt"}
          \/ ast[x].role = "tail" /\ FnAround(x) = m.node /\ IsBodyOf(m.node, x)
    \/ m.genre = "BinaryOperator" /\ m.value \in Operators
    \/ m.genre = "UnaryOperator" /\ m.value = Nothing /\ Kind(x) = "unary"
    \/ /\ m.genre = "IfCondition" /\ m.value \in Values /\ IsPlainCondition(x)
       /\ ast[x].role = "cond" /\ Kind(ast[x].up) = "if"
    \/ /\ m.genre = "WhileCondition" /\ m.value \in Values /\ IsPlainCondition(x)
       /\ ast[x].role = "cond" /\ Kind(ast[x].up) = "while"
    \/ m.genre = "MatchArm" /\ m.value = Nothing /\ Kind(x) = "arm"
    \/ /\ m.genre = "MatchArmGuard" /\ m.value \in Values /\ ast[x].role = "guard"
       /\ x \in GuardsAround(x)
    \/ /\ m.genre = "BoolLiteral" /\ m.value \in Values /\ Kind(x) = "lit"
       /\ ~IsBodyOf(FnAround(x), x) /\ x \notin GuardsAround(x)
    \/ m.genre = "StructField" /\ m.value = Nothing /\ Kind(x) = "field"
    \/ m.genre = "DeleteStatement" /\ m.value = Nothing /\ Kind(x) \in {"call", "method", "assign"}
    \/ m.genre = "ReturnValue" /\ m.value \in Values /\ ast[x].role = "value"

\* No value is nothing, or an operator.
LEMMA ValuesApart ==
    Values \cap Operators = {} /\ Nothing \notin Values /\ Nothing \notin Operators
<1>1. \A op \in DOMAIN OperatorReplacements : op # "" /\ op # "true" /\ op # "false"
  BY DEF OperatorReplacements
<1>2. Nothing \notin Operators /\ True \notin Operators /\ False \notin Operators
      /\ True # Nothing /\ False # Nothing
  BY <1>1 DEF Operators, Text, Nothing, True, False
<1>3. \A type \in DOMAIN Returns : ItemsOf(Returns[type]) \cap ({Nothing} \cup Operators) = {}
  BY ReturnsAssumption DEF Operators
<1> SUFFICES ASSUME NEW v \in Values PROVE v \notin Operators /\ v # Nothing
  BY <1>2
<1>4. CASE v \in {True, False}
  BY <1>2, <1>4
<1>5. CASE \E type \in DOMAIN Returns : v \in ItemsOf(Returns[type])
  <2> HIDE DEF Operators
  <2> QED BY <1>3, <1>5
<1> QED BY <1>4, <1>5 DEF Values

\* The function of a body is the one around what is in it.
LEMMA BodyIsIn ==
    ASSUME ast \in Asts, NEW f \in Nodes, Kind(f) = "fn", Visited(f), NEW x \in BodyStatements(f)
    PROVE  x \in Nodes /\ FnAround(x) = f
<1> DEFINE b == Child(f, "body")
<1>1. HasChild(f, "body")
  <2>1. ~Flag(f, "required")
    BY DEF Visited, Path, Rejects
  <2> QED BY <2>1, SyntaxIs
<1>2. b \in Nodes /\ ast[b].up = f /\ ast[b].role = "body" /\ 0 \notin Nodes /\ Nodes \in SUBSET Nat
  BY <1>1, ChildIs, TreeIs
<1>3. x \in Nodes /\ ast[x].up = b
  BY DEF BodyStatements, Children
<1> HIDE DEF b
<1>4. Kind(b) = "block"
  BY <1>2, SyntaxIs
<1>5. Above(x) = Above(f) \cup {f} \cup {b}
  BY <1>2, <1>3, AboveIs
<1> DEFINE S == OfKind({"fn"}, Above(x))
<1>6. f \in S /\ S \subseteq Above(f) \cup {f} /\ S \in SUBSET Nodes
  BY <1>2, <1>4, <1>5, AboveIs DEF OfKind
<1>7. \A k \in S : k <= f
  <2>1. \A k \in Above(f) : k < f /\ k \in Nodes
    BY AboveIs
  <2> QED BY <1>2, <1>6, <2>1
<1> HIDE DEF S
<1>8. Last(S) \in S /\ f <= Last(S)
  BY <1>6, LastIs
<1>9. Last(S) = f
  <2>1. Last(S) \in Nat /\ f \in Nat /\ Last(S) <= f
    BY <1>2, <1>6, <1>7, <1>8
  <2> QED BY <1>8, <2>1
<1> QED BY <1>3, <1>9 DEF S, FnAround

\* What a mutant of a function replaces.
LEMMA FnSuits ==
    ASSUME ast \in Asts, NEW n \in Nodes, Visited(n), Kind(n) = "fn",
           NEW m, m.genre = "FnValue", m.node = n, m.value \in Values
    PROVE  Replaced(m) \in Nodes /\ Suits(m, Replaced(m))
<1> DEFINE body == BodyStatements(n)
<1>1. body \in SUBSET Nodes /\ IsFiniteSet(body)
  BY NodesInOrder DEF BodyStatements, Children
<1>2. CASE Cardinality(body) = 1 /\ \A s \in body : IsTail(s)
  <2>1. PICK s : body = {s}
    BY <1>1, <1>2, FS_Singleton
  <2>2. s \in BodyStatements(n) /\ s \in Nodes /\ IsTail(s) /\ n # 0
    BY <1>1, <1>2, <2>1, TreeIs
  <2>3. FnAround(s) = n
    BY <2>2, BodyIsIn
  <2>4. IsBodyOf(n, s) /\ ast[s].role = "tail"
    BY <2>1, <2>2 DEF IsBodyOf, IsTail
  <2>5. Replaced(m) = s
    BY <2>2, <2>4, BodyIsReplaced
  <2> QED BY <2>2, <2>3, <2>4, <2>5 DEF Suits
<1>3. CASE ~(Cardinality(body) = 1 /\ \A s \in body : IsTail(s))
  <2>1. Replaced(m) = n
    BY <1>3 DEF Replaced
  <2>2. ast[n].role \in {"", "stmt"}
    BY SyntaxIs
  <2> QED BY <2>1, <2>2 DEF Suits
<1> QED BY <1>2, <1>3

\* A guard is in the match that it guards an arm of.
LEMMA GuardsAreAbove ==
    ASSUME ast \in Asts, NEW n \in Nodes, NEW g \in ItemsOf(GuardsOf(n))
    PROVE  g \in Nodes /\ ast[g].role = "guard" /\ n \in Above(g)
<1> DEFINE G == {a \in Arms(n) : HasChild(a, "guard")}
           s == InOrder(G)
<1>1. GuardsOf(n) = [i \in DOMAIN s |-> Child(s[i], "guard")]
  BY DEF GuardsOf
<1>2. G \in SUBSET Nodes
  BY DEF Arms, Children
<1>3. ItemsOf(s) = G
  <2> HIDE DEF G
  <2> QED BY <1>2, NodesInOrder
<1> HIDE DEF s
<1>4. PICK a \in G : g = Child(a, "guard")
  BY <1>1, <1>3 DEF ItemsOf
<1>5. a \in Nodes /\ ast[a].up = n /\ HasChild(a, "guard") /\ 0 \notin Nodes
  BY TreeIs DEF Arms, Children
<1>6. g \in Nodes /\ ast[g].up = a /\ ast[g].role = "guard"
  BY <1>4, <1>5, ChildIs
<1>7. n \in Above(a)
  BY <1>5, AboveIs
<1> QED BY <1>5, <1>6, <1>7, AboveIs

\* What a mutant that is due replaces.
LEMMA DueSuits ==
    ASSUME ast \in Asts, NEW m, IsDue(m)
    PROVE  Suits(m, Replaced(m))
<1> DEFINE n == Origin(m)
           x == Replaced(m)
<1>1. n \in Nodes /\ Visited(n) /\ 0 \notin Nodes
  BY TreeIs DEF IsDue
<1>2. PICK c \in DueAt(n) : m.node = c.node /\ m.genre = c.genre /\ m.value = c.value
  BY CandidateIs DEF IsDue, Place
<1>3. m.genre # "FnValue" => x = m.node
  BY DEF Replaced
<1> SUFFICES Suits(m, x)
  OBVIOUS
<1> HIDE DEF n, x
<1>bools. True \in Values /\ False \in Values
  BY DEF Values
<1>4. CASE Kind(n) = "fn"
  <2>1. PICK v \in ItemsOf(Returns[ast[n].type]) : c = Candidate(n, "FnValue", v)
    BY <1>4 DEF DueAt, Made
  <2>2. ast[n].type \in DOMAIN Returns
    BY <1>1, <1>4, VisitorAssumption DEF Nodes, Kind
  <2>3. m.genre = "FnValue" /\ m.node = n /\ m.value \in Values
    BY <1>2, <2>1, <2>2, CandidateIs DEF Values
  <2>4. Suits(m, Replaced(m))
    BY <1>1, <1>4, <2>3, FnSuits
  <2> QED BY <2>4 DEF x
<1>5. CASE Kind(n) = "binary"
  <2>1. PICK op \in ItemsOf(ReplacementsOf(ast[n].name)) :
            c = Candidate(n, "BinaryOperator", Text(op))
    BY <1>5 DEF DueAt, Made
  <2>2. Text(op) \in Operators
    BY OperatorsAreOnce DEF Operators
  <2>3. m.genre = "BinaryOperator" /\ m.value = Text(op)
    BY <1>2, <2>1, CandidateIs
  <2> QED BY <2>2, <2>3 DEF Suits
<1>6. CASE Kind(n) = "unary"
  <2>1. c = Candidate(n, "UnaryOperator", Nothing)
    BY <1>6 DEF DueAt, Made
  <2>2. m.genre = "UnaryOperator" /\ m.value = Nothing /\ x = n
    BY <1>2, <1>3, <2>1, CandidateIs
  <2> QED BY <1>6, <2>2 DEF Suits
<1>7. CASE Kind(n) = "if"
  <2>1. PICK v \in {True, False} : /\ c = Candidate(CondOf(n), "IfCondition", v)
                                   /\ IsPlainCondition(CondOf(n))
    BY <1>7 DEF DueAt, Made
  <2>2. HasChild(n, "cond")
    BY <1>1, <1>7, SyntaxIs
  <2>3. ast[CondOf(n)].up = n /\ ast[CondOf(n)].role = "cond"
    BY <2>2, ChildIs DEF CondOf
  <2>4. m.genre = "IfCondition" /\ m.value = v /\ x = CondOf(n)
    BY <1>2, <1>3, <2>1, CandidateIs
  <2>5. ast[x].role = "cond" /\ Kind(ast[x].up) = "if" /\ IsPlainCondition(x) /\ m.value \in Values
    BY <1>bools, <1>7, <2>1, <2>3, <2>4
  <2> QED BY <2>4, <2>5 DEF Suits
<1>8. CASE Kind(n) = "while"
  <2>1. c = Candidate(CondOf(n), "WhileCondition", False) /\ IsPlainCondition(CondOf(n))
    BY <1>8 DEF DueAt, Made
  <2>2. HasChild(n, "cond")
    BY <1>1, <1>8, SyntaxIs
  <2>3. ast[CondOf(n)].up = n /\ ast[CondOf(n)].role = "cond"
    BY <2>2, ChildIs DEF CondOf
  <2>4. m.genre = "WhileCondition" /\ m.value = False /\ x = CondOf(n)
    BY <1>2, <1>3, <2>1, CandidateIs
  <2>5. ast[x].role = "cond" /\ Kind(ast[x].up) = "while" /\ IsPlainCondition(x) /\ m.value \in Values
    BY <1>bools, <1>8, <2>1, <2>3, <2>4
  <2> QED BY <2>4, <2>5 DEF Suits
<1>9. CASE Kind(n) = "match"
  <2>1. \/ \E a \in Arms(n) : c = Candidate(a, "MatchArm", Nothing)
        \/ \E g \in ItemsOf(GuardsOf(n)) : \E v \in {True, False} :
               c = Candidate(g, "MatchArmGuard", v)
    BY <1>9 DEF DueAt, Made
  <2>2. ASSUME NEW a \in Arms(n), c = Candidate(a, "MatchArm", Nothing) PROVE Suits(m, x)
    <3>1. m.genre = "MatchArm" /\ m.value = Nothing /\ x = a
      BY <1>2, <1>3, <2>2, CandidateIs
    <3> QED BY <3>1 DEF Suits, Arms
  <2>3. ASSUME NEW g \in ItemsOf(GuardsOf(n)), NEW v \in {True, False},
               c = Candidate(g, "MatchArmGuard", v)
        PROVE  Suits(m, x)
    <3>1. g \in Nodes /\ ast[g].role = "guard" /\ n \in Above(g)
      BY <1>1, GuardsAreAbove
    <3>2. g \in GuardsAround(g)
      BY <1>9, <3>1 DEF GuardsAround, OfKind
    <3>3. m.genre = "MatchArmGuard" /\ m.value \in Values /\ x = g
      BY <1>2, <1>3, <1>bools, <2>3, CandidateIs
    <3> QED BY <3>1, <3>2, <3>3 DEF Suits
  <2> QED BY <2>1, <2>2, <2>3
<1>10. CASE Kind(n) = "lit"
  <2>1. PICK v \in {True, False} : c = Candidate(n, "BoolLiteral", v)
    BY <1>10 DEF DueAt, Made
  <2>2. ~IsBodyOf(FnAround(n), n) /\ n \notin GuardsAround(n)
    BY <1>10 DEF DueAt, Made
  <2>3. m.genre = "BoolLiteral" /\ m.value = v /\ x = n
    BY <1>2, <1>3, <2>1, CandidateIs
  <2> QED BY <1>10, <1>bools, <2>1, <2>2, <2>3 DEF Suits
<1>11. CASE Kind(n) = "struct"
  <2>1. PICK f : Kind(f) = "field" /\ c = Candidate(f, "StructField", Nothing)
    BY <1>11 DEF DueAt, Made
  <2>2. m.genre = "StructField" /\ m.value = Nothing /\ x = f
    BY <1>2, <1>3, <2>1, CandidateIs
  <2> QED BY <2>1, <2>2 DEF Suits
<1>12. CASE Kind(n) = "block"
  <2>1. PICK s : Discards(n, s) /\ c = Candidate(s, "DeleteStatement", Nothing)
    BY <1>12 DEF DueAt, Made
  <2>2. Kind(s) \in {"call", "method", "assign"}
    BY <2>1 DEF Discards
  <2>3. m.genre = "DeleteStatement" /\ m.value = Nothing /\ x = s
    BY <1>2, <1>3, <2>1, CandidateIs
  <2> QED BY <2>2, <2>3 DEF Suits
<1>13. CASE Kind(n) = "return"
  <2>1. PICK v \in ReturnsDue(n) : c = Candidate(Child(n, "value"), "ReturnValue", v)
    BY <1>13 DEF DueAt, Made
  <2>2. HasChild(n, "value") /\ FnAround(n) # 0 /\ v \in ItemsOf(Returns[ast[FnAround(n)].type])
    BY <2>1 DEF ReturnsDue
  <2>3. ast[FnAround(n)].type \in DOMAIN Returns
    <3>1. FnAround(n) \in Nodes /\ Kind(FnAround(n)) = "fn"
      BY <1>1, <2>2, FnAroundIs
    <3> QED BY <3>1, VisitorAssumption DEF Nodes, Kind
  <2>4. ast[Child(n, "value")].role = "value"
    BY <2>2, ChildIs
  <2>5. m.genre = "ReturnValue" /\ m.value = v /\ x = Child(n, "value")
    BY <1>2, <1>3, <2>1, CandidateIs
  <2>6. v \in Values
    BY <2>2, <2>3 DEF Values
  <2> QED BY <2>4, <2>5, <2>6 DEF Suits
<1>14. CASE Kind(n) \notin {"fn", "binary", "unary", "if", "while", "match", "lit", "struct", "block",
                            "return"}
  BY <1>14 DEF DueAt, Made
<1> QED BY <1>4, <1>5, <1>6, <1>7, <1>8, <1>9, <1>10, <1>11, <1>12, <1>13, <1>14

\* Mutants of different genres have different places or values.
LEMMA Apart ==
    ASSUME NEW a, NEW b, NEW x, Suits(a, x), Suits(b, x), a.value = b.value, a.genre # b.genre
    PROVE  {a.genre, b.genre} = {"ReturnValue", "BoolLiteral"}
<1>1. CASE a.value \in Operators
  BY <1>1, ValuesApart DEF Suits
<1>2. CASE a.value = Nothing
  BY <1>2, ValuesApart DEF Suits
<1>3. CASE a.value \in Values
  <2>1. CASE a.genre = "BoolLiteral" \/ b.genre = "BoolLiteral"
    BY <1>3, <2>1, ValuesApart DEF Suits, IsPlainCondition
  <2>2. CASE a.genre # "BoolLiteral" /\ b.genre # "BoolLiteral"
    BY <1>3, <2>2, ValuesApart DEF Suits
  <2> QED BY <2>1, <2>2
<1> QED BY <1>1, <1>2, <1>3 DEF Suits

\* For every tree: no two mutants put the same value in the same place (the
\* genres of src/visit.rs leave each other's places alone), except a returned
\* literal.
THEOREM NothingIsTwice == Spec => []NoDuplicates
<1>1. VisitInv => NoDuplicates
  <2> SUFFICES ASSUME StacksInv, DueInv, Done, NEW i \in DOMAIN mutants, NEW j \in DOMAIN mutants,
                      i # j, Replaced(mutants[i]) = Replaced(mutants[j]),
                      mutants[i].value = mutants[j].value
               PROVE  {mutants[i].genre, mutants[j].genre} = {"ReturnValue", "BoolLiteral"}
    BY DEF NoDuplicates, VisitInv
  <2> DEFINE a == mutants[i]
             b == mutants[j]
             x == Replaced(a)
  <2>1. ast \in Asts /\ NoRepeat(mutants) /\ IsDue(a) /\ IsDue(b)
    BY DoneIsDue DEF ItemsOf
  <2>2. Suits(a, x) /\ Suits(b, x) /\ a.value = b.value
    BY <2>1, DueSuits
  <2>3. ~Like(a, b)
    BY <2>1 DEF NoRepeat
  <2>4. a.genre # "FnValue" => x = a.node
    BY DEF Replaced
  <2>5. b.genre # "FnValue" => x = b.node
    BY DEF Replaced
  <2> HIDE DEF a, b, x
  <2>6. a.genre # b.genre
    <3> SUFFICES ASSUME a.genre = b.genre PROVE FALSE
      OBVIOUS
    <3>1. CASE a.genre # "FnValue"
      BY <2>2, <2>3, <2>4, <2>5, <3>1 DEF Like
    <3>2. CASE a.genre = "FnValue"
      BY <2>2, <2>3, <3>2 DEF Like, Suits
    <3> QED BY <3>1, <3>2
  <2>7. {a.genre, b.genre} = {"ReturnValue", "BoolLiteral"}
    BY <2>2, <2>6, Apart
  <2> QED BY <2>7 DEF a, b
<1> QED BY <1>1, VisitIsKept, PTL

=============================================================================

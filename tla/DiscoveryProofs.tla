-------------------------- MODULE DiscoveryProofs --------------------------
(***************************************************************************)
(* Proofs about discovery, for every resolved tree, invocation and number  *)
(* of threads: that the window is full, that the walk is a serial one and  *)
(* finds the modules that Rust would read, that a diff marks every change, *)
(* and that what is due is what is tested.                                 *)
(***************************************************************************)
EXTENDS ResolvedTrees, FiniteSetTheorems, TLAPS

-----------------------------------------------------------------------------
(* Induction *)

\* What holds of 0, and of n + 1 if it holds of n, holds of every number.
LEMMA Induction ==
    ASSUME NEW S, 0 \in S, \A n \in Nat : n \in S => n + 1 \in S
    PROVE  \A n \in Nat : n \in S
<1> DEFINE R == OpToRel(<, Nat)
           T == Nat \ S
<1>1. IsWellFoundedOn(R, Nat)
  BY NatLessThanWellFounded
<1>2. \A i, j \in Nat : i < j => <<i, j>> \in R
  BY DEF OpToRel
<1>3. T \subseteq Nat
  OBVIOUS
<1> HIDE DEF R
<1> SUFFICES ASSUME T # {} PROVE FALSE
  OBVIOUS
<1>4. PICK x \in T : \A y \in T : ~(<<y, x>> \in R)
  BY <1>1, <1>3, WFMin
<1>5. x \in Nat /\ x \notin S /\ x # 0
  BY <1>4
<1>6. x - 1 \in Nat /\ x - 1 < x
  BY <1>5
<1>7. x - 1 \in S
  BY <1>2, <1>4, <1>5, <1>6
<1>8. (x - 1) + 1 \in S
  BY <1>6, <1>7
<1> QED BY <1>5, <1>8

\* A set of numbers that is not empty has a least member.
LEMMA Least ==
    ASSUME NEW S \in SUBSET Nat, S # {}
    PROVE  \E x \in S : \A y \in S : x <= y
<1> DEFINE T == {n \in Nat : \A y \in S : n <= y}
<1>1. 0 \in T
  OBVIOUS
<1>2. SUFFICES ASSUME \A x \in S : \E y \in S : ~(x <= y) PROVE FALSE
  OBVIOUS
<1>3. \A n \in Nat : n \in T => n + 1 \in T
  <2> SUFFICES ASSUME NEW n \in Nat, n \in T, NEW y \in S PROVE n + 1 <= y
    OBVIOUS
  <2>1. n <= y /\ y \in Nat
    OBVIOUS
  <2>2. n # y
    BY <1>2
  <2> QED BY <2>1, <2>2
<1> HIDE DEF T
<1>4. \A n \in Nat : n \in T
  BY <1>1, <1>3, Induction
<1>5. PICK y \in S : TRUE
  OBVIOUS
<1>6. y \in Nat /\ y + 1 \in T
  BY <1>4, <1>5
<1>7. y + 1 <= y
  BY <1>5, <1>6 DEF T
<1> QED BY <1>6, <1>7

\* A value for 0, and for n + 1 one that follows from that for n, define a function.
Follows(f, V, base, step) ==
    /\ f \in [Nat -> V] /\ f[0] = base
    /\ \A n \in Nat : f[n + 1] = step[<<n, f[n]>>]

\* A step on V that depends on n defines a function by recursion from a base.
LEMMA Recursion ==
    ASSUME NEW V, NEW base \in V, NEW step \in [Nat \X V -> V]
    PROVE  \E f : Follows(f, V, base, step)
<1> DEFINE Starts(g, n) == /\ g \in [0 .. n -> V] /\ g[0] = base
                           /\ \A i \in 0 .. n : i # n => g[i + 1] = step[<<i, g[i]>>]
           S == {n \in Nat : \E g : Starts(g, n)}
           T == {i \in Nat : \A m, n \in Nat : \A g, h :
                    Starts(g, m) /\ Starts(h, n) /\ i <= m /\ i <= n => g[i] = h[i]}
<1>1. 0 \in S
  <2>1. Starts([i \in 0 .. 0 |-> base], 0)
    OBVIOUS
  <2> QED BY <2>1
<1>2. \A n \in Nat : n \in S => n + 1 \in S
  <2> SUFFICES ASSUME NEW n \in Nat, NEW g, Starts(g, n) PROVE \E h : Starts(h, n + 1)
    OBVIOUS
  <2> DEFINE h == [i \in 0 .. n + 1 |-> IF i = n + 1 THEN step[<<n, g[n]>>] ELSE g[i]]
  <2>1. g[n] \in V /\ step[<<n, g[n]>>] \in V
    OBVIOUS
  <2>2. h \in [0 .. n + 1 -> V] /\ h[0] = base
    BY <2>1
  <2>3. ASSUME NEW i \in 0 .. n + 1, i # n + 1 PROVE h[i + 1] = step[<<i, h[i]>>]
    <3>1. i \in 0 .. n /\ i + 1 \in 0 .. n + 1 /\ h[i] = g[i]
      BY <2>3
    <3>2. CASE i = n
      BY <3>1, <3>2
    <3>3. CASE i # n
      <4>1. h[i + 1] = g[i + 1] /\ g[i + 1] = step[<<i, g[i]>>]
        BY <3>1, <3>3
      <4> QED BY <3>1, <4>1
    <3> QED BY <3>2, <3>3
  <2> QED BY <2>2, <2>3
<1>3. 0 \in T
  OBVIOUS
<1>4. \A i \in Nat : i \in T => i + 1 \in T
  <2> SUFFICES ASSUME NEW i \in Nat, i \in T, NEW m \in Nat, NEW n \in Nat, NEW g, NEW h,
                      Starts(g, m), Starts(h, n), i + 1 <= m, i + 1 <= n
               PROVE  g[i + 1] = h[i + 1]
    <3> HIDE DEF Starts
    <3> QED OBVIOUS
  <2>1. g[i] = h[i]
    <3> HIDE DEF Starts
    <3> QED OBVIOUS
  <2>2. g[i + 1] = step[<<i, g[i]>>] /\ h[i + 1] = step[<<i, h[i]>>]
    OBVIOUS
  <2> QED BY <2>1, <2>2
<1> HIDE DEF S, T
<1>5. \A n \in Nat : n \in S /\ n \in T
  BY <1>1, <1>2, <1>3, <1>4, Induction
<1> DEFINE part(n) == CHOOSE g : Starts(g, n)
           f == [n \in Nat |-> part(n)[n]]
<1>6. \A n \in Nat : Starts(part(n), n)
  BY <1>5 DEF S
<1> HIDE DEF part
<1>7. \A n \in Nat : part(n)[n] \in V
  BY <1>6
<1>8. f \in [Nat -> V] /\ f[0] = base
  BY <1>6, <1>7
<1>9. ASSUME NEW n \in Nat PROVE f[n + 1] = step[<<n, f[n]>>]
  <2>1. part(n + 1)[n + 1] = step[<<n, part(n + 1)[n]>>]
    <3>1. Starts(part(n + 1), n + 1) /\ n \in 0 .. n + 1 /\ n # n + 1
      BY <1>6
    <3> QED BY <3>1
  <2>2. part(n + 1)[n] = part(n)[n]
    <3>1. Starts(part(n + 1), n + 1) /\ Starts(part(n), n) /\ n <= n + 1 /\ n <= n /\ n + 1 \in Nat
      BY <1>6
    <3> HIDE DEF Starts
    <3> QED BY <1>5, <3>1 DEF T
  <2> QED BY <2>1, <2>2
<1> QED BY <1>8, <1>9 DEF Follows

-----------------------------------------------------------------------------
(* Selection *)

Picks(f, A, s, I) ==
    /\ f \in [0 .. Len(s) -> Seq(A)] /\ f[0] = <<>>
    /\ \A n \in 1 .. Len(s) : f[n] = IF n \in I THEN Append(f[n - 1], s[n]) ELSE f[n - 1]

\* Picking goes through a sequence from its first item to its last.
LEMMA PickIs ==
    ASSUME NEW A, NEW s \in Seq(A), NEW I
    PROVE  \E f : Picks(f, A, s, I) /\ Pick(s, I) = f[Len(s)]
<1> DEFINE V == Seq(A)
           N == Len(s)
           step == [p \in Nat \X V |-> IF p[1] + 1 \in 1 .. N /\ p[1] + 1 \in I
                                       THEN Append(p[2], s[p[1] + 1]) ELSE p[2]]
           F(g) == [n \in 0 .. N |-> IF n = 0 THEN <<>>
                       ELSE IF n \in I THEN Append(g[n - 1], s[n]) ELSE g[n - 1]]
           f == CHOOSE g : g = F(g)
<1>1. N \in Nat /\ <<>> \in V
  OBVIOUS
<1>2. step \in [Nat \X V -> V]
  OBVIOUS
<1> DEFINE none == <<>>
<1>a. none \in V
  OBVIOUS
<1> HIDE DEF step, none, V
<1>b. PICK g : Follows(g, V, none, step)
  BY <1>a, <1>2, Recursion
<1>3. g \in [Nat -> V] /\ g[0] = none /\ \A n \in Nat : g[n + 1] = step[<<n, g[n]>>]
  BY <1>b DEF Follows
<1> USE DEF none
<1> DEFINE h == [n \in 0 .. N |-> g[n]]
<1>4. \A n \in 1 .. N : g[n] = IF n \in I THEN Append(g[n - 1], s[n]) ELSE g[n - 1]
  <2> SUFFICES ASSUME NEW n \in 1 .. N
               PROVE  g[n] = IF n \in I THEN Append(g[n - 1], s[n]) ELSE g[n - 1]
    OBVIOUS
  <2>1. n - 1 \in Nat /\ (n - 1) + 1 = n
    BY <1>1
  <2>2. g[n] = step[<<n - 1, g[n - 1]>>] /\ g[n - 1] \in V
    BY <1>3, <2>1
  <2> QED BY <2>1, <2>2 DEF step
<1>5. h = F(h)
  <2>1. ASSUME NEW n \in 0 .. N
        PROVE  g[n] = IF n = 0 THEN <<>>
                      ELSE IF n \in I THEN Append(h[n - 1], s[n]) ELSE h[n - 1]
    <3>1. CASE n = 0
      BY <1>3, <3>1
    <3>2. CASE n # 0
      <4>1. n \in 1 .. N /\ n - 1 \in 0 .. N
        BY <1>1, <3>2
      <4>2. h[n - 1] = g[n - 1]
        BY <4>1
      <4> QED BY <1>4, <3>2, <4>1, <4>2
    <3> QED BY <3>1, <3>2
  <2> QED BY <2>1
<1> HIDE DEF h
<1>6. f = F(f)
  BY <1>5
<1>7. Pick(s, I) = f[N]
  BY DEF Pick
<1> DEFINE S == {n \in Nat : n <= N => f[n] \in V}
<1> HIDE DEF f
<1>8. \A n \in 0 .. N : f[n] = IF n = 0 THEN <<>>
                               ELSE IF n \in I THEN Append(f[n - 1], s[n]) ELSE f[n - 1]
  BY <1>6
<1>9. 0 \in S
  <2>1. f[0] = none
    BY <1>1, <1>8
  <2> QED BY <1>a, <2>1
<1>10. \A n \in Nat : n \in S => n + 1 \in S
  <2> SUFFICES ASSUME NEW n \in Nat, n \in S, n + 1 <= N PROVE f[n + 1] \in V
    OBVIOUS
  <2>1. n + 1 \in 1 .. N /\ n + 1 # 0 /\ (n + 1) - 1 = n /\ f[n] \in V
    BY <1>1
  <2>2. f[n + 1] = IF n + 1 \in I THEN Append(f[n], s[n + 1]) ELSE f[n]
    BY <1>8, <2>1
  <2> QED BY <2>1, <2>2 DEF V
<1>11. \A n \in 0 .. N : f[n] \in V
  <2> HIDE DEF S
  <2>1. \A n \in Nat : n \in S
    BY <1>9, <1>10, Induction
  <2> QED BY <1>1, <2>1 DEF S
<1>12. f \in [0 .. N -> V]
  BY <1>6, <1>11
<1>13. f[0] = <<>> /\ \A n \in 1 .. N : f[n] = IF n \in I THEN Append(f[n - 1], s[n]) ELSE f[n - 1]
  BY <1>1, <1>8
<1> QED BY <1>7, <1>12, <1>13 DEF V, Picks

\* What is picked from a sequence has the type of its items.
LEMMA PickType ==
    ASSUME NEW A, NEW s \in Seq(A), NEW I
    PROVE  Pick(s, I) \in Seq(A)
<1>1. PICK f : Picks(f, A, s, I) /\ Pick(s, I) = f[Len(s)]
  BY PickIs
<1>2. Len(s) \in 0 .. Len(s)
  OBVIOUS
<1> QED BY <1>1, <1>2 DEF Picks

\* Nothing is picked from nothing.
LEMMA PickEmpty ==
    ASSUME NEW I
    PROVE  Pick(<<>>, I) = <<>>
<1> DEFINE s == <<>>
           N == Len(s)
<1>1. s \in Seq({}) /\ N = 0
  OBVIOUS
<1> HIDE DEF s
<1>2. PICK f : Picks(f, {}, s, I) /\ Pick(s, I) = f[Len(s)]
  BY <1>1, PickIs
<1> QED BY <1>1, <1>2 DEF s, Picks

\* One more item is picked or is not, and changes nothing before it.
LEMMA PickAppend ==
    ASSUME NEW A, NEW s \in Seq(A), NEW x \in A, NEW I
    PROVE  Pick(Append(s, x), I) =
              IF Len(s) + 1 \in I THEN Append(Pick(s, I), x) ELSE Pick(s, I)
<1> DEFINE N == Len(s)
           t == Append(s, x)
<1>1. N \in Nat /\ t \in Seq(A) /\ Len(t) = N + 1 /\ t[N + 1] = x /\ \A n \in 1 .. N : t[n] = s[n]
  OBVIOUS
<1> HIDE DEF t
<1>a. PICK f : Picks(f, A, s, I) /\ Pick(s, I) = f[Len(s)]
  BY PickIs
<1>b. PICK g : Picks(g, A, t, I) /\ Pick(t, I) = g[Len(t)]
  BY <1>1, PickIs
<1>2. /\ f[0] = <<>>
      /\ \A n \in 1 .. N : f[n] = IF n \in I THEN Append(f[n - 1], s[n]) ELSE f[n - 1]
      /\ Pick(s, I) = f[N]
  BY <1>a DEF Picks
<1>3. /\ g[0] = <<>>
      /\ \A n \in 1 .. N + 1 : g[n] = IF n \in I THEN Append(g[n - 1], t[n]) ELSE g[n - 1]
      /\ Pick(t, I) = g[N + 1]
  BY <1>1, <1>b DEF Picks
<1> DEFINE S == {n \in Nat : n <= N => f[n] = g[n]}
<1>4. 0 \in S
  BY <1>2, <1>3
<1>5. \A n \in Nat : n \in S => n + 1 \in S
  <2> SUFFICES ASSUME NEW n \in Nat, n \in S, n + 1 <= N PROVE f[n + 1] = g[n + 1]
    OBVIOUS
  <2>1. n + 1 \in 1 .. N /\ n + 1 \in 1 .. N + 1 /\ (n + 1) - 1 = n /\ f[n] = g[n]
    BY <1>1
  <2>2. f[n + 1] = IF n + 1 \in I THEN Append(f[n], s[n + 1]) ELSE f[n]
    BY <1>2, <2>1
  <2>3. g[n + 1] = IF n + 1 \in I THEN Append(g[n], t[n + 1]) ELSE g[n]
    BY <1>3, <2>1
  <2> QED BY <1>1, <2>1, <2>2, <2>3
<1> HIDE DEF S
<1>6. f[N] = g[N]
  <2>1. N \in S
    BY <1>1, <1>4, <1>5, Induction
  <2> QED BY <1>1, <2>1 DEF S
<1>7. N + 1 \in 1 .. N + 1 /\ (N + 1) - 1 = N
  BY <1>1
<1>8. g[N + 1] = IF N + 1 \in I THEN Append(g[N], x) ELSE g[N]
  BY <1>1, <1>3, <1>7
<1> QED BY <1>2, <1>3, <1>6, <1>8 DEF t

\* A statement about sequences holds of all if it holds of the empty one and is
\* kept when an item is appended; here for the sequences over A, as a set.
LEMMA SeqInduction ==
    ASSUME NEW A, NEW P, <<>> \in P,
           \A s \in Seq(A) : \A x \in A : s \in P => Append(s, x) \in P
    PROVE  \A s \in Seq(A) : s \in P
<1> DEFINE S == {n \in Nat : \A s \in Seq(A) : Len(s) = n => s \in P}
<1>1. 0 \in S
  <2>1. \A s \in Seq(A) : Len(s) = 0 => s = <<>>
    OBVIOUS
  <2> QED BY <2>1
<1>2. \A n \in Nat : n \in S => n + 1 \in S
  <2> SUFFICES ASSUME NEW n \in Nat, n \in S, NEW s \in Seq(A), Len(s) = n + 1 PROVE s \in P
    OBVIOUS
  <2>1. s = Append(SubSeq(s, 1, n), s[n + 1])
    OBVIOUS
  <2>2. SubSeq(s, 1, n) \in Seq(A) /\ Len(SubSeq(s, 1, n)) = n /\ s[n + 1] \in A
    OBVIOUS
  <2> QED BY <2>1, <2>2
<1> HIDE DEF S
<1>3. \A n \in Nat : n \in S
  BY <1>1, <1>2, Induction
<1> QED BY <1>3 DEF S

\* What is picked are the items at the positions.
LEMMA PickItems ==
    ASSUME NEW A, NEW s \in Seq(A), NEW I
    PROVE  ToSet(Pick(s, I)) = {s[i] : i \in I \cap DOMAIN s}
<1> DEFINE items(t) == {t[i] : i \in I \cap DOMAIN t}
           P == {t \in Seq(A) : ToSet(Pick(t, I)) = items(t)}
<1>1. <<>> \in P
  BY PickEmpty DEF ToSet
<1>2. \A t \in Seq(A) : \A x \in A : t \in P => Append(t, x) \in P
  <2> SUFFICES ASSUME NEW t \in Seq(A), NEW x \in A, t \in P
               PROVE  ToSet(Pick(Append(t, x), I)) = items(Append(t, x))
    <3> HIDE DEF items
    <3> QED OBVIOUS
  <2> DEFINE u == Append(t, x)
             n == Len(t) + 1
  <2>1. DOMAIN u = DOMAIN t \cup {n} /\ u[n] = x /\ \A i \in DOMAIN t : u[i] = t[i]
    OBVIOUS
  <2>2. Pick(t, I) \in Seq(A)
    BY PickType
  <2>3. CASE n \in I
    <3>1. Pick(u, I) = Append(Pick(t, I), x)
      BY <2>3, PickAppend
    <3> DEFINE p == Pick(t, I)
    <3>2. ToSet(Append(p, x)) = ToSet(p) \cup {x}
      <4> HIDE DEF p
      <4>1. p \in Seq(A)
        BY <2>2 DEF p
      <4>2. DOMAIN Append(p, x) = DOMAIN p \cup {Len(p) + 1} /\ Append(p, x)[Len(p) + 1] = x
            /\ \A i \in DOMAIN p : Append(p, x)[i] = p[i]
        BY <4>1
      <4> QED BY <4>2 DEF ToSet
    <3>3. {u[i] : i \in I \cap DOMAIN u} = {t[i] : i \in I \cap DOMAIN t} \cup {x}
      <4> HIDE DEF u, n
      <4> QED BY <2>1, <2>3
    <3> QED BY <3>1, <3>2, <3>3
  <2>4. CASE n \notin I
    <3>1. Pick(u, I) = Pick(t, I)
      BY <2>4, PickAppend
    <3>2. {u[i] : i \in I \cap DOMAIN u} = {t[i] : i \in I \cap DOMAIN t}
      <4> HIDE DEF u, n
      <4> QED BY <2>1, <2>4
    <3> QED BY <3>1, <3>2
  <2> QED BY <2>3, <2>4
<1> HIDE DEF P
<1>3. \A t \in Seq(A) : t \in P
  BY <1>1, <1>2, SeqInduction
<1> QED BY <1>3 DEF P

\* The items of two sequences put together.
LEMMA ConcatItems ==
    ASSUME NEW A, NEW s \in Seq(A), NEW t \in Seq(A)
    PROVE  ToSet(s \o t) = ToSet(s) \cup ToSet(t)
<1> DEFINE u == s \o t
<1>1. Len(s) \in Nat /\ Len(t) \in Nat /\ DOMAIN u = 1 .. Len(s) + Len(t)
  OBVIOUS
<1>2. DOMAIN s = 1 .. Len(s) /\ DOMAIN t = 1 .. Len(t)
  OBVIOUS
<1>3. \A i \in DOMAIN s : i \in DOMAIN u /\ u[i] = s[i]
  OBVIOUS
<1>4. \A i \in DOMAIN t : Len(s) + i \in DOMAIN u /\ u[Len(s) + i] = t[i]
  OBVIOUS
<1>5. \A i \in DOMAIN u : i \in DOMAIN s \/ \E j \in DOMAIN t : i = Len(s) + j
  <2> SUFFICES ASSUME NEW i \in DOMAIN u, i \notin DOMAIN s PROVE \E j \in DOMAIN t : i = Len(s) + j
    OBVIOUS
  <2>1. i - Len(s) \in DOMAIN t /\ i = Len(s) + (i - Len(s))
    BY <1>1, <1>2
  <2> QED BY <2>1
<1> HIDE DEF u
<1>6. \A x : x \in ToSet(u) <=> x \in ToSet(s) \/ x \in ToSet(t)
  BY <1>3, <1>4, <1>5 DEF ToSet
<1> QED BY <1>6 DEF u

\* One more item.
LEMMA AppendItems ==
    ASSUME NEW A, NEW s \in Seq(A), NEW x \in A
    PROVE  ToSet(Append(s, x)) = ToSet(s) \cup {x}
<1> DEFINE u == Append(s, x)
           n == Len(s) + 1
<1>1. DOMAIN u = DOMAIN s \cup {n} /\ u[n] = x /\ \A i \in DOMAIN s : u[i] = s[i]
  OBVIOUS
<1> HIDE DEF u, n
<1>2. ToSet(u) = ToSet(s) \cup {x}
  BY <1>1 DEF ToSet
<1> QED BY <1>2 DEF u

\* Positions that are not in the sequence do not matter.
LEMMA PickDomain ==
    ASSUME NEW A, NEW s \in Seq(A), NEW I, NEW J, I \cap DOMAIN s = J \cap DOMAIN s
    PROVE  Pick(s, I) = Pick(s, J)
<1> DEFINE P == {t \in Seq(A) : I \cap DOMAIN t = J \cap DOMAIN t => Pick(t, I) = Pick(t, J)}
<1>1. <<>> \in P
  BY PickEmpty
<1>2. \A t \in Seq(A) : \A x \in A : t \in P => Append(t, x) \in P
  <2> SUFFICES ASSUME NEW t \in Seq(A), NEW x \in A, t \in P,
                      I \cap DOMAIN Append(t, x) = J \cap DOMAIN Append(t, x)
               PROVE  Pick(Append(t, x), I) = Pick(Append(t, x), J)
    OBVIOUS
  <2>1. DOMAIN Append(t, x) = DOMAIN t \cup {Len(t) + 1}
    OBVIOUS
  <2>2. Pick(t, I) = Pick(t, J) /\ (Len(t) + 1 \in I <=> Len(t) + 1 \in J)
    BY <2>1
  <2>3. Pick(Append(t, x), I) = IF Len(t) + 1 \in I THEN Append(Pick(t, I), x) ELSE Pick(t, I)
    BY PickAppend
  <2>4. Pick(Append(t, x), J) = IF Len(t) + 1 \in J THEN Append(Pick(t, J), x) ELSE Pick(t, J)
    BY PickAppend
  <2> QED BY <2>2, <2>3, <2>4
<1> HIDE DEF P
<1>3. s \in P
  BY <1>1, <1>2, SeqInduction
<1> QED BY <1>3 DEF P

\* The first item that is picked is that at the least position.
LEMMA PickFirst ==
    ASSUME NEW A, NEW s \in Seq(A), NEW I, NEW i \in I \cap DOMAIN s,
           \A j \in I \cap DOMAIN s : i <= j
    PROVE  Pick(s, I) # <<>> /\ Pick(s, I)[1] = s[i]
<1> DEFINE IsLeast(k, t) == k \in I \cap DOMAIN t /\ \A j \in I \cap DOMAIN t : k <= j
           Begins(k, t) == Pick(t, I) # <<>> /\ Pick(t, I)[1] = t[k]
           P == {t \in Seq(A) : \A k : IsLeast(k, t) => Begins(k, t)}
<1>1. <<>> \in P
  OBVIOUS
<1>2. \A t \in Seq(A) : \A x \in A : t \in P => Append(t, x) \in P
  <2> SUFFICES ASSUME NEW t \in Seq(A), NEW x \in A, t \in P, NEW k, IsLeast(k, Append(t, x))
               PROVE  Begins(k, Append(t, x))
    <3> HIDE DEF IsLeast, Begins
    <3> QED OBVIOUS
  <2> DEFINE n == Len(t) + 1
             u == Append(t, x)
  <2>1. DOMAIN u = DOMAIN t \cup {n} /\ u[n] = x /\ (\A j \in DOMAIN t : u[j] = t[j] /\ j < n)
        /\ n \in Nat
    OBVIOUS
  <2>2. Pick(t, I) \in Seq(A)
    BY PickType
  <2>3. CASE k \in DOMAIN t
    <3>1. IsLeast(k, t)
      BY <2>1, <2>3
    <3>2. Pick(t, I) # <<>> /\ Pick(t, I)[1] = t[k]
      <4> HIDE DEF IsLeast
      <4> QED BY <3>1
    <3>3. Append(Pick(t, I), x) # <<>> /\ Append(Pick(t, I), x)[1] = Pick(t, I)[1]
      <4> DEFINE p == Pick(t, I)
      <4> HIDE DEF p
      <4>1. p \in Seq(A) /\ p # <<>>
        BY <2>2, <3>2 DEF p
      <4>2. Append(p, x) # <<>> /\ Append(p, x)[1] = p[1]
        BY <4>1
      <4> QED BY <4>2 DEF p
    <3>4. u[k] = t[k]
      BY <2>1, <2>3
    <3> QED BY <3>2, <3>3, <3>4, PickAppend
  <2>4. CASE k \notin DOMAIN t
    <3>1. k = n /\ n \in I
      BY <2>1, <2>4
    <3>2. \A j \in DOMAIN t : j \notin I
      <4> SUFFICES ASSUME NEW j \in DOMAIN t, j \in I PROVE FALSE
        OBVIOUS
      <4>1. n <= j /\ j < n /\ j \in Nat
        BY <2>1, <3>1
      <4> QED BY <2>1, <4>1
    <3>3. Pick(t, I) = <<>>
      <4> DEFINE p == Pick(t, I)
      <4>1. ToSet(p) = {}
        BY <3>2, PickItems
      <4>2. p \in Seq(A)
        BY <2>2
      <4> HIDE DEF p
      <4>3. DOMAIN p = {}
        <5> SUFFICES ASSUME NEW m \in DOMAIN p PROVE FALSE
          OBVIOUS
        <5>1. p[m] \in ToSet(p)
          BY DEF ToSet
        <5> QED BY <4>1, <5>1
      <4>4. p = <<>>
        BY <4>2, <4>3
      <4> QED BY <4>4 DEF p
    <3>4. Pick(u, I) = Append(<<>>, x)
      <4>1. Pick(u, I) = IF n \in I THEN Append(Pick(t, I), x) ELSE Pick(t, I)
        BY PickAppend
      <4> QED BY <3>1, <3>3, <4>1
    <3> QED BY <2>1, <3>1, <3>4
  <2> QED BY <2>3, <2>4
<1> HIDE DEF P
<1>3. s \in P
  BY <1>1, <1>2, SeqInduction
<1> QED BY <1>3 DEF P

\* A function that is applied to each item.
Map(f, s) == [i \in DOMAIN s |-> f[s[i]]]

\* A map has the length of its argument.
LEMMA MapType ==
    ASSUME NEW A, NEW B, NEW f \in [A -> B], NEW s \in Seq(A)
    PROVE  Map(f, s) \in Seq(B) /\ Len(Map(f, s)) = Len(s) /\ DOMAIN Map(f, s) = DOMAIN s
BY DEF Map

\* Map, item by item.
LEMMA MapAppend ==
    ASSUME NEW A, NEW f, NEW s \in Seq(A), NEW x \in A
    PROVE  Map(f, Append(s, x)) = Append(Map(f, s), f[x])
BY DEF Map

\* The positions that are picked do not depend on what is there.
LEMMA PickMap ==
    ASSUME NEW A, NEW f, NEW s \in Seq(A), NEW I
    PROVE  Pick(Map(f, s), I) = Map(f, Pick(s, I))
<1> DEFINE P == {t \in Seq(A) : Pick(Map(f, t), I) = Map(f, Pick(t, I))}
           B == {f[x] : x \in A}
<1>1. <<>> \in P
  <2>1. Map(f, <<>>) = <<>>
    BY DEF Map
  <2> QED BY <2>1, PickEmpty
<1>2. \A t \in Seq(A) : \A x \in A : t \in P => Append(t, x) \in P
  <2> SUFFICES ASSUME NEW t \in Seq(A), NEW x \in A, t \in P
               PROVE  Pick(Map(f, Append(t, x)), I) = Map(f, Pick(Append(t, x), I))
    OBVIOUS
  <2>1. Map(f, t) \in Seq(B) /\ Len(Map(f, t)) = Len(t)
    BY DEF Map
  <2>a. f[x] \in B
    OBVIOUS
  <2> HIDE DEF B
  <2>2. Pick(Map(f, Append(t, x)), I) = Pick(Append(Map(f, t), f[x]), I)
    BY MapAppend
  <2>3. Pick(Append(Map(f, t), f[x]), I) =
           IF Len(t) + 1 \in I THEN Append(Pick(Map(f, t), I), f[x]) ELSE Pick(Map(f, t), I)
    <3> DEFINE m == Map(f, t)
               y == f[x]
    <3> HIDE DEF m, y
    <3>1. m \in Seq(B) /\ y \in B /\ Len(m) = Len(t)
      BY <2>1, <2>a DEF m, y
    <3>2. Pick(Append(m, y), I) = IF Len(m) + 1 \in I THEN Append(Pick(m, I), y) ELSE Pick(m, I)
      BY <3>1, PickAppend
    <3> QED BY <3>1, <3>2 DEF m, y
  <2>4. Pick(t, I) \in Seq(A)
    BY PickType
  <2>5. Map(f, Append(Pick(t, I), x)) = Append(Map(f, Pick(t, I)), f[x])
    BY <2>4, MapAppend
  <2>6. Pick(Append(t, x), I) = IF Len(t) + 1 \in I THEN Append(Pick(t, I), x) ELSE Pick(t, I)
    BY PickAppend
  <2> QED BY <2>2, <2>3, <2>5, <2>6
<1> HIDE DEF P
<1>3. s \in P
  BY <1>1, <1>2, SeqInduction
<1> QED BY <1>3 DEF P

\* Those of the items that are in a set.
Only(s, S) == Pick(s, {i \in DOMAIN s : s[i] \in S})

\* Only(s, S) has the items of s that are in S.
LEMMA OnlyType ==
    ASSUME NEW A, NEW s \in Seq(A), NEW S
    PROVE  Only(s, S) \in Seq(A) /\ Only(s, S) \in Seq(S) /\ ToSet(Only(s, S)) = ToSet(s) \cap S
<1> DEFINE I == {i \in DOMAIN s : s[i] \in S}
           p == Only(s, S)
<1>1. p = Pick(s, I)
  BY DEF Only
<1>2. p \in Seq(A)
  BY <1>1, PickType
<1>3. ToSet(p) = {s[i] : i \in I \cap DOMAIN s}
  BY <1>1, PickItems
<1>4. ToSet(p) = ToSet(s) \cap S
  BY <1>3 DEF ToSet
<1> HIDE DEF p
<1>5. \A i \in DOMAIN p : p[i] \in S
  BY <1>4 DEF ToSet
<1>6. p \in Seq(S)
  BY <1>2, <1>5
<1> QED BY <1>2, <1>4, <1>6 DEF p

\* Only, of nothing.
LEMMA OnlyEmpty ==
    ASSUME NEW S
    PROVE  Only(<<>>, S) = <<>>
BY PickEmpty DEF Only

\* Only, item by item.
LEMMA OnlyAppend ==
    ASSUME NEW A, NEW s \in Seq(A), NEW x \in A, NEW S
    PROVE  Only(Append(s, x), S) = IF x \in S THEN Append(Only(s, S), x) ELSE Only(s, S)
<1> DEFINE u == Append(s, x)
           n == Len(s) + 1
           I == {i \in DOMAIN s : s[i] \in S}
           J == {i \in DOMAIN u : u[i] \in S}
<1>1. DOMAIN u = DOMAIN s \cup {n} /\ u[n] = x /\ (\A i \in DOMAIN s : u[i] = s[i] /\ i # n)
  OBVIOUS
<1>2. I \cap DOMAIN s = J \cap DOMAIN s /\ (n \in J <=> x \in S)
  <2> HIDE DEF u, n
  <2> QED BY <1>1
<1>3. Pick(s, I) = Pick(s, J)
  <2> HIDE DEF I, J
  <2> QED BY <1>2, PickDomain
<1>4. Pick(u, J) = IF n \in J THEN Append(Pick(s, J), x) ELSE Pick(s, J)
  <2> HIDE DEF J
  <2> QED BY PickAppend
<1> HIDE DEF I, J
<1>5. Pick(u, J) = IF x \in S THEN Append(Pick(s, I), x) ELSE Pick(s, I)
  BY <1>2, <1>3, <1>4
<1> USE DEF I, J
<1> QED BY <1>5 DEF Only

\* A sequence and then another.
LEMMA OnlyConcat ==
    ASSUME NEW A, NEW s \in Seq(A), NEW t \in Seq(A), NEW S
    PROVE  Only(s \o t, S) = Only(s, S) \o Only(t, S)
<1> DEFINE P == {u \in Seq(A) : Only(s \o u, S) = Only(s, S) \o Only(u, S)}
<1>1. <<>> \in P
  <2> DEFINE o == Only(s, S)
  <2>1. o \in Seq(A)
    BY OnlyType
  <2> HIDE DEF o
  <2>2. s \o <<>> = s /\ o \o <<>> = o
    BY <2>1
  <2>3. Only(<<>>, S) = <<>>
    BY OnlyEmpty
  <2>4. Only(s \o <<>>, S) = Only(s, S) \o Only(<<>>, S)
    BY <2>2, <2>3 DEF o
  <2> QED BY <2>4
<1>2. \A u \in Seq(A) : \A x \in A : u \in P => Append(u, x) \in P
  <2> SUFFICES ASSUME NEW u \in Seq(A), NEW x \in A, u \in P
               PROVE  Append(u, x) \in P
    <3> HIDE DEF P
    <3> QED OBVIOUS
  <2>1. s \o Append(u, x) = Append(s \o u, x) /\ s \o u \in Seq(A)
    OBVIOUS
  <2>2. Only(s, S) \in Seq(A) /\ Only(u, S) \in Seq(A)
    BY OnlyType
  <2>3. Only(s, S) \o Append(Only(u, S), x) = Append(Only(s, S) \o Only(u, S), x)
    <3> DEFINE o == Only(s, S)
               p == Only(u, S)
    <3>1. o \in Seq(A) /\ p \in Seq(A)
      BY <2>2
    <3> HIDE DEF o, p
    <3>2. o \o Append(p, x) = Append(o \o p, x)
      BY <3>1
    <3> QED BY <3>2 DEF o, p
  <2>4. Only(Append(s \o u, x), S) = IF x \in S THEN Append(Only(s \o u, S), x) ELSE Only(s \o u, S)
    <3> DEFINE v == s \o u
    <3>1. v \in Seq(A)
      BY <2>1
    <3> HIDE DEF v
    <3>2. Only(Append(v, x), S) = IF x \in S THEN Append(Only(v, S), x) ELSE Only(v, S)
      BY <3>1, OnlyAppend
    <3> QED BY <3>2 DEF v
  <2>5. Only(Append(u, x), S) = IF x \in S THEN Append(Only(u, S), x) ELSE Only(u, S)
    BY OnlyAppend
  <2>6. Only(s \o Append(u, x), S) = Only(s, S) \o Only(Append(u, x), S)
    BY <2>1, <2>3, <2>4, <2>5
  <2> QED BY <2>6
<1> HIDE DEF P
<1>3. t \in P
  BY <1>1, <1>2, SeqInduction
<1> QED BY <1>3 DEF P

\* Flattening goes through the sequences from the first to the last.
Flattens(f, A, ss) ==
    /\ f \in [1 .. Len(ss) -> Seq(A)]
    /\ \A n \in 1 .. Len(ss) : f[n] = IF n = 1 THEN ss[n] ELSE f[n - 1] \o ss[n]

\* FlattenSeq is the last value of a function by recursion over prefixes.
LEMMA FlattenIs ==
    ASSUME NEW A, NEW ss \in Seq(Seq(A))
    PROVE  \E f : Flattens(f, A, ss) /\ FlattenSeq(ss) = IF Len(ss) = 0 THEN ss ELSE f[Len(ss)]
<1> DEFINE V == Seq(A)
           N == Len(ss)
           none == <<>>
           step == [p \in Nat \X V |-> IF p[1] + 1 \in 1 .. N THEN p[2] \o ss[p[1] + 1] ELSE p[2]]
           F(g) == [n \in 1 .. N |-> IF n = 1 THEN ss[n] ELSE g[n - 1] \o ss[n]]
           f == CHOOSE g : g = F(g)
<1>1. N \in Nat /\ none \in V /\ \A n \in 1 .. N : ss[n] \in V
  OBVIOUS
<1>2. step \in [Nat \X V -> V]
  <2> SUFFICES ASSUME NEW p \in Nat \X V
               PROVE  (IF p[1] + 1 \in 1 .. N THEN p[2] \o ss[p[1] + 1] ELSE p[2]) \in V
    OBVIOUS
  <2>1. p[1] \in Nat /\ p[2] \in V
    OBVIOUS
  <2>2. \A v, w \in V : v \o w \in V
    OBVIOUS
  <2> HIDE DEF V
  <2> QED BY <1>1, <2>1, <2>2
<1> HIDE DEF step, none, V
<1>3. PICK g : Follows(g, V, none, step)
  BY <1>1, <1>2, Recursion
<1>4. g \in [Nat -> V] /\ g[0] = none /\ \A n \in Nat : g[n + 1] = step[<<n, g[n]>>]
  BY <1>3 DEF Follows
<1>5. \A n \in 1 .. N : g[n] = g[n - 1] \o ss[n]
  <2> SUFFICES ASSUME NEW n \in 1 .. N PROVE g[n] = g[n - 1] \o ss[n]
    OBVIOUS
  <2>1. n - 1 \in Nat /\ (n - 1) + 1 = n
    BY <1>1
  <2>2. g[n] = step[<<n - 1, g[n - 1]>>] /\ g[n - 1] \in V
    BY <1>4, <2>1
  <2> QED BY <2>1, <2>2 DEF step
<1>6. N > 0 => g[1] = ss[1]
  <2>1. \A v \in V : none \o v = v
    BY DEF none, V
  <2> SUFFICES ASSUME N > 0 PROVE g[1] = ss[1]
    OBVIOUS
  <2>2. 1 \in 1 .. N /\ 1 - 1 = 0
    BY <1>1
  <2>3. g[1] = g[1 - 1] \o ss[1] /\ ss[1] \in V
    BY <1>1, <1>5, <2>2
  <2>4. g[1 - 1] = none
    BY <1>4
  <2> QED BY <2>1, <2>3, <2>4
<1> DEFINE h == [n \in 1 .. N |-> g[n]]
<1>7. h = F(h)
  <2>1. ASSUME NEW n \in 1 .. N PROVE g[n] = IF n = 1 THEN ss[n] ELSE h[n - 1] \o ss[n]
    <3>1. CASE n = 1
      BY <1>1, <1>6, <3>1
    <3>2. CASE n # 1
      <4>1. n - 1 \in 1 .. N
        BY <1>1, <3>2
      <4>2. h[n - 1] = g[n - 1]
        BY <4>1
      <4> QED BY <1>5, <3>2, <4>2
    <3> QED BY <3>1, <3>2
  <2> QED BY <2>1
<1> HIDE DEF h
<1>8. f = F(f)
  BY <1>7
<1>9. FlattenSeq(ss) = IF Len(ss) = 0 THEN ss ELSE f[N]
  BY DEF FlattenSeq
<1> HIDE DEF f
<1>10. \A n \in 1 .. N : f[n] = IF n = 1 THEN ss[n] ELSE f[n - 1] \o ss[n]
  BY <1>8
<1> DEFINE S == {n \in Nat : n \in 1 .. N => f[n] \in V}
<1>11. 0 \in S
  OBVIOUS
<1>12. \A n \in Nat : n \in S => n + 1 \in S
  <2> SUFFICES ASSUME NEW n \in Nat, n \in S, n + 1 \in 1 .. N PROVE f[n + 1] \in V
    <3> HIDE DEF N
    <3>1. \A n \in Nat : n + 1 \in Nat /\ (n \in S <=> (n \in 1 .. N => f[n] \in V))
      OBVIOUS
    <3> HIDE DEF S
    <3> QED BY <3>1
  <2>1. f[n + 1] = IF n + 1 = 1 THEN ss[n + 1] ELSE f[n] \o ss[n + 1]
    BY <1>10
  <2>2. CASE n = 0
    BY <1>1, <2>1, <2>2
  <2>3. CASE n # 0
    <3>1. f[n] \in V /\ ss[n + 1] \in V
      BY <1>1, <2>3
    <3>2. \A v, w \in V : v \o w \in V
      BY DEF V
    <3> QED BY <2>1, <2>3, <3>1, <3>2
  <2> QED BY <2>2, <2>3
<1>13. \A n \in 1 .. N : f[n] \in V
  <2> HIDE DEF S
  <2>1. \A n \in Nat : n \in S
    BY <1>11, <1>12, Induction
  <2> QED BY <1>1, <2>1 DEF S
<1>14. f \in [1 .. N -> V]
  BY <1>8, <1>13
<1> QED BY <1>9, <1>10, <1>14 DEF Flattens, V

\* Nothing, flattened.
LEMMA FlattenEmpty == FlattenSeq(<<>>) = <<>>
BY DEF FlattenSeq

\* Sequences of items, flattened, are a sequence of items.
LEMMA FlattenType ==
    ASSUME NEW A, NEW ss \in Seq(Seq(A))
    PROVE  FlattenSeq(ss) \in Seq(A)
<1>1. PICK f : Flattens(f, A, ss) /\ FlattenSeq(ss) = IF Len(ss) = 0 THEN ss ELSE f[Len(ss)]
  BY FlattenIs
<1>2. CASE Len(ss) = 0
  <2>1. ss = <<>>
    BY <1>2
  <2>2. <<>> \in Seq(A)
    OBVIOUS
  <2> QED BY <2>1, <2>2, FlattenEmpty
<1>3. CASE Len(ss) # 0
  <2>1. Len(ss) \in 1 .. Len(ss)
    BY <1>3
  <2>2. f[Len(ss)] \in Seq(A)
    BY <1>1, <2>1 DEF Flattens
  <2> QED BY <1>1, <1>3, <2>2
<1> QED BY <1>2, <1>3

\* One more sequence comes after what the others are.
LEMMA FlattenAppend ==
    ASSUME NEW A, NEW ss \in Seq(Seq(A)), NEW s \in Seq(A)
    PROVE  FlattenSeq(Append(ss, s)) = FlattenSeq(ss) \o s
<1> DEFINE N == Len(ss)
           tt == Append(ss, s)
<1>1. N \in Nat /\ tt \in Seq(Seq(A)) /\ Len(tt) = N + 1 /\ tt[N + 1] = s
      /\ \A n \in 1 .. N : tt[n] = ss[n]
  OBVIOUS
<1> HIDE DEF tt
<1>2. PICK f : Flattens(f, A, ss) /\ FlattenSeq(ss) = IF Len(ss) = 0 THEN ss ELSE f[Len(ss)]
  BY FlattenIs
<1>3. PICK g : Flattens(g, A, tt) /\ FlattenSeq(tt) = IF Len(tt) = 0 THEN tt ELSE g[Len(tt)]
  BY <1>1, FlattenIs
<1>4. \A n \in 1 .. N : f[n] = IF n = 1 THEN ss[n] ELSE f[n - 1] \o ss[n]
  BY <1>2 DEF Flattens
<1>5. \A n \in 1 .. N + 1 : g[n] = IF n = 1 THEN tt[n] ELSE g[n - 1] \o tt[n]
  BY <1>1, <1>3 DEF Flattens
<1>6. FlattenSeq(tt) = g[N + 1]
  BY <1>1, <1>3
<1>7. CASE N = 0
  <2>1. ss = <<>>
    BY <1>7
  <2>2. <<>> \o s = s
    OBVIOUS
  <2>3. g[1] = s
    BY <1>1, <1>5, <1>7
  <2> QED BY <1>6, <1>7, <2>1, <2>2, <2>3, FlattenEmpty DEF tt
<1>8. CASE N # 0
  <2> DEFINE S == {n \in Nat : n \in 1 .. N => f[n] = g[n]}
  <2>1. 0 \in S
    OBVIOUS
  <2>2. \A n \in Nat : n \in S => n + 1 \in S
    <3> SUFFICES ASSUME NEW n \in Nat, n \in S, n + 1 \in 1 .. N PROVE f[n + 1] = g[n + 1]
      <4> HIDE DEF N
      <4>1. \A n \in Nat : n + 1 \in Nat /\ (n \in S <=> (n \in 1 .. N => f[n] = g[n]))
        OBVIOUS
      <4> HIDE DEF S
      <4> QED BY <4>1
    <3>1. n + 1 \in 1 .. N + 1 /\ tt[n + 1] = ss[n + 1] /\ (n + 1) - 1 = n
      BY <1>1
    <3>2. f[n + 1] = IF n + 1 = 1 THEN ss[n + 1] ELSE f[n] \o ss[n + 1]
      BY <1>4, <3>1
    <3>3. g[n + 1] = IF n + 1 = 1 THEN ss[n + 1] ELSE g[n] \o ss[n + 1]
      BY <1>5, <3>1
    <3>4. n # 0 => f[n] = g[n]
      BY <1>1
    <3> QED BY <3>2, <3>3, <3>4
  <2> HIDE DEF S
  <2>3. f[N] = g[N]
    <3>1. N \in S
      BY <1>1, <2>1, <2>2, Induction
    <3> QED BY <1>1, <1>8, <3>1 DEF S
  <2>4. g[N + 1] = g[N] \o s
    <3>1. N + 1 \in 1 .. N + 1 /\ N + 1 # 1 /\ (N + 1) - 1 = N
      BY <1>1, <1>8
    <3> QED BY <1>1, <1>5, <3>1
  <2> QED BY <1>2, <1>6, <1>8, <2>3, <2>4 DEF tt
<1> QED BY <1>7, <1>8

\* FlattenSeq has the items of all the sequences and no others.
LEMMA FlattenItems ==
    ASSUME NEW A, NEW ss \in Seq(Seq(A))
    PROVE  ToSet(FlattenSeq(ss)) = UNION {ToSet(ss[i]) : i \in DOMAIN ss}
<1> DEFINE all(tt) == UNION {ToSet(tt[i]) : i \in DOMAIN tt}
           P == {tt \in Seq(Seq(A)) : ToSet(FlattenSeq(tt)) = all(tt)}
<1>1. <<>> \in P
  <2>1. ToSet(<<>>) = {} /\ all(<<>>) = {}
    BY DEF ToSet
  <2> QED BY <2>1, FlattenEmpty
<1>2. \A tt \in Seq(Seq(A)) : \A s \in Seq(A) : tt \in P => Append(tt, s) \in P
  <2> SUFFICES ASSUME NEW tt \in Seq(Seq(A)), NEW s \in Seq(A), tt \in P
               PROVE  ToSet(FlattenSeq(Append(tt, s))) = all(Append(tt, s))
    <3> HIDE DEF all
    <3> QED OBVIOUS
  <2> DEFINE u == Append(tt, s)
             n == Len(tt) + 1
             p == FlattenSeq(tt)
  <2>1. DOMAIN u = DOMAIN tt \cup {n} /\ u[n] = s /\ (\A i \in DOMAIN tt : u[i] = tt[i])
    OBVIOUS
  <2>2. p \in Seq(A)
    BY FlattenType
  <2>3. FlattenSeq(u) = p \o s
    BY FlattenAppend
  <2> HIDE DEF u, n, p
  <2>4. ToSet(p \o s) = ToSet(p) \cup ToSet(s)
    BY <2>2, ConcatItems
  <2>5. all(u) = all(tt) \cup ToSet(s)
    BY <2>1
  <2>6. ToSet(p) = all(tt)
    BY DEF p
  <2> HIDE DEF all
  <2> QED BY <2>3, <2>4, <2>5, <2>6 DEF u
<1> HIDE DEF P
<1>3. ss \in P
  BY <1>1, <1>2, SeqInduction
<1> QED BY <1>3 DEF P

-----------------------------------------------------------------------------
(* Source files *)

\* The items of a sequence, and the positions they are at.
LEMMA Items ==
    ASSUME NEW A, NEW s \in Seq(A)
    PROVE  ToSet(s) \subseteq A /\ s \in Seq(ToSet(s)) /\ (\A i \in DOMAIN s : s[i] \in ToSet(s))
           /\ \A x \in ToSet(s) : \E i \in DOMAIN s : s[i] = x
BY DEF ToSet

\* FileAt finds a file where there is one.
LEMMA FileIs ==
    ASSUME NEW ws, IsSeq(ws.files), NEW path
    PROVE  /\ FileAt(ws, path) \in Seq(ToSet(ws.files))
           /\ FileAt(ws, path) # <<>> <=> path \in {f.path : f \in ToSet(ws.files)}
           /\ FileAt(ws, path) # <<>> =>
                 FileAt(ws, path)[1] \in ToSet(ws.files) /\ FileAt(ws, path)[1].path = path
<1> DEFINE s == ws.files
           F == ToSet(s)
           I == {i \in DOMAIN s : s[i].path = path}
           k == FileAt(ws, path)
<1>1. s \in Seq(F)
  BY DEF IsSeq
<1>2. k = Pick(s, I)
  BY DEF FileAt, Kept
<1> HIDE DEF k, I
<1>3. k \in Seq(F) /\ ToSet(k) = {s[i] : i \in I \cap DOMAIN s}
  BY <1>1, <1>2, PickType, PickItems
<1>4. ToSet(k) = {f \in F : f.path = path}
  <2>1. \A i \in DOMAIN s : s[i] \in F
    BY DEF ToSet
  <2>2. \A f \in F : \E i \in DOMAIN s : s[i] = f
    BY DEF ToSet
  <2> QED BY <1>3, <2>1, <2>2 DEF I
<1>5. k # <<>> => k[1] \in ToSet(k)
  <2>1. k # <<>> => 1 \in DOMAIN k
    BY <1>3
  <2> QED BY <2>1 DEF ToSet
<1>6. k = <<>> => ToSet(k) = {}
  BY DEF ToSet
<1> QED BY <1>3, <1>4, <1>5, <1>6 DEF k

-----------------------------------------------------------------------------
(* What files declare *)

PathsOf(ws) == {f.path : f \in ToSet(ws.files)}

\* The mod statements that are followed: those with no name that is refused.
LEMMA ExternalModsType ==
    ASSUME NEW file, IsSeq(file.mods)
    PROVE  /\ ExternalMods(file) \in Seq(ToSet(file.mods))
           /\ ToSet(ExternalMods(file)) =
                 {ref \in ToSet(file.mods) : \A i \in DOMAIN ref : ~IsRefused(ref[i])}
<1> DEFINE s == file.mods
           I == {i \in DOMAIN s : \A j \in DOMAIN s[i] : ~IsRefused(s[i][j])}
<1>1. s \in Seq(ToSet(s))
  BY DEF IsSeq
<1>2. ExternalMods(file) = Pick(s, I)
  BY DEF ExternalMods, Kept
<1> HIDE DEF I
<1>3. Pick(s, I) \in Seq(ToSet(s)) /\ ToSet(Pick(s, I)) = {s[i] : i \in I \cap DOMAIN s}
  BY <1>1, PickType, PickItems
<1>4. {s[i] : i \in I \cap DOMAIN s} =
        {ref \in ToSet(s) : \A j \in DOMAIN ref : ~IsRefused(ref[j])}
  BY DEF I, ToSet
<1> QED BY <1>2, <1>3, <1>4

\* The candidates for a module are a sequence.
LEMMA CandidatesType ==
    ASSUME NEW from, NEW ref
    PROVE  Candidates(from, ref) \in Seq(ToSet(Candidates(from, ref)))
<1> DEFINE c == Candidates(from, ref)
           dir == SearchDir(from, ref)
           named == dir \o FilesystemName(Last(ref))
<1>1. c = IF HasPath(Last(ref)) THEN <<named>> ELSE <<named, Append(named, "mod")>>
  BY DEF Candidates
<1> DEFINE other == Append(named, "mod")
<1> HIDE DEF named, other
<1>2. <<named>> \in Seq(ToSet(<<named>>))
  BY DEF ToSet
<1>3. <<named, other>> \in Seq(ToSet(<<named, other>>))
  BY DEF ToSet
<1> QED BY <1>1, <1>2, <1>3 DEF other

\* A statement names files that are there, and the first of its candidates if any is.
LEMMA FindIs ==
    ASSUME NEW ws, IsSeq(ws.files), NEW from, NEW ref
    PROVE  /\ FindModSource(ws, from, ref) \in Seq(PathsOf(ws))
           /\ ToSet(FindModSource(ws, from, ref)) \subseteq
                 {p \in ToSet(Candidates(from, ref)) : FileAt(ws, p) # <<>>}
           /\ (\E p \in ToSet(Candidates(from, ref)) : FileAt(ws, p) # <<>>) =>
                 ToSet(FindModSource(ws, from, ref)) # {}
<1> DEFINE c == Candidates(from, ref)
           I == {i \in DOMAIN c : FileAt(ws, c[i]) # <<>>}
           found == Pick(c, I)
           G == {p \in ToSet(c) : FileAt(ws, p) # <<>>}
           n == Min({1, Len(found)})
<1>1. FindModSource(ws, from, ref) = SubSeq(found, 1, n)
  BY DEF FindModSource, Kept
<1>2. c \in Seq(ToSet(c))
  BY CandidatesType
<1>3. \A p \in G : p \in PathsOf(ws)
  BY FileIs DEF PathsOf
<1> HIDE DEF c, I
<1>4. found \in Seq(ToSet(c)) /\ ToSet(found) = {c[i] : i \in I \cap DOMAIN c}
  BY <1>2, PickType, PickItems
<1>5. ToSet(found) = G
  BY <1>4 DEF I, ToSet
<1> HIDE DEF found, G
<1>6. n = IF Len(found) = 0 THEN 0 ELSE 1
  <2> DEFINE l == Len(found)
             Low(x, y) == x \in {1, y} /\ \A z \in {1, y} : x <= z
  <2>1. l \in Nat
    BY <1>4
  <2>2. Min({1, l}) = CHOOSE x : Low(x, l)
    BY DEF Min
  <2> HIDE DEF l
  <2>3. CASE l = 0
    <3>1. Low(0, l) /\ \A x : Low(x, l) => x = 0
      BY <2>3
    <3> HIDE DEF Low
    <3> QED BY <2>2, <2>3, <3>1 DEF l
  <2>4. CASE l # 0
    <3>1. Low(1, l) /\ \A x : Low(x, l) => x = 1
      BY <2>1, <2>4
    <3> HIDE DEF Low
    <3> QED BY <2>2, <2>4, <3>1 DEF l
  <2> QED BY <2>3, <2>4
<1>7. CASE Len(found) = 0
  <2>1. found = <<>>
    BY <1>4, <1>7
  <2>2. SubSeq(found, 1, 0) = <<>>
    BY <1>4
  <2>3. G = {}
    BY <1>5, <2>1 DEF ToSet
  <2>4. <<>> \in Seq(PathsOf(ws)) /\ ToSet(<<>>) = {}
    BY DEF ToSet
  <2> QED BY <1>1, <1>6, <1>7, <2>2, <2>3, <2>4 DEF G, c
<1>8. CASE Len(found) # 0
  <2>1. 1 \in DOMAIN found
    BY <1>4, <1>8
  <2>2. found[1] \in G
    BY <1>5, <2>1 DEF ToSet
  <2>3. SubSeq(found, 1, 1) = <<found[1]>>
    <3> DEFINE one == SubSeq(found, 1, 1)
    <3>1. Len(found) \in Nat /\ 1 <= Len(found)
      BY <1>4, <1>8
    <3>2. Len(one) = 1 /\ one[1] = found[1] /\ one \in Seq(ToSet(c))
      BY <1>4, <3>1
    <3> HIDE DEF one
    <3>3. one = <<one[1]>>
      BY <3>2
    <3> QED BY <3>2, <3>3 DEF one
  <2> DEFINE x == found[1]
  <2> HIDE DEF x
  <2>4. <<x>> \in Seq({x}) /\ ToSet(<<x>>) = {x}
    BY DEF ToSet
  <2>5. x \in PathsOf(ws)
    BY <1>3, <2>2 DEF x
  <2>6. <<x>> \in Seq(PathsOf(ws))
    BY <2>5
  <2> QED BY <1>1, <1>6, <1>8, <2>2, <2>3, <2>4, <2>6 DEF G, c, x
<1> QED BY <1>7, <1>8

\* The files that a file declares are there.
LEMMA ModSourcesType ==
    ASSUME NEW ws, IsWorkspace(ws), NEW from, from.path \in PathsOf(ws)
    PROVE  /\ ModSources(ws, from) \in Seq(PathsOf(ws))
           /\ ToSet(ModSources(ws, from)) =
                 UNION {ToSet(FindModSource(ws, from, ref)) :
                           ref \in ToSet(ExternalMods(FileAt(ws, from.path)[1]))}
<1> DEFINE file == FileAt(ws, from.path)[1]
           refs == ExternalMods(file)
           ss == [i \in DOMAIN refs |-> FindModSource(ws, from, refs[i])]
<1>1. IsSeq(ws.files)
  BY DEF IsWorkspace
<1>2. file \in ToSet(ws.files)
  BY <1>1, FileIs DEF PathsOf
<1>3. IsSeq(file.mods)
  BY <1>2 DEF IsWorkspace
<1> HIDE DEF file
<1>4. refs \in Seq(ToSet(file.mods))
  BY <1>3, ExternalModsType
<1> HIDE DEF refs
<1>5. \A ref : FindModSource(ws, from, ref) \in Seq(PathsOf(ws))
  BY <1>1, FindIs
<1>6. ss \in Seq(Seq(PathsOf(ws)))
  BY <1>4, <1>5
<1>7. ModSources(ws, from) = FlattenSeq(ss)
  BY DEF ModSources, refs, file
<1>8. UNION {ToSet(ss[i]) : i \in DOMAIN ss} =
        UNION {ToSet(FindModSource(ws, from, ref)) : ref \in ToSet(refs)}
  <2>1. DOMAIN ss = DOMAIN refs /\ \A i \in DOMAIN refs : ss[i] = FindModSource(ws, from, refs[i])
    OBVIOUS
  <2>2. ToSet(refs) = {refs[i] : i \in DOMAIN refs}
    BY DEF ToSet
  <2> HIDE DEF ss
  <2> QED BY <2>1, <2>2
<1> HIDE DEF ss
<1>9. FlattenSeq(ss) \in Seq(PathsOf(ws))
      /\ ToSet(FlattenSeq(ss)) = UNION {ToSet(ss[i]) : i \in DOMAIN ss}
  BY <1>6, FlattenType, FlattenItems
<1> QED BY <1>7, <1>8, <1>9 DEF refs, file

\* A package's top files, sorted, are its targets of the kinds that are mutated.
LEMMA TopSourcesType ==
    ASSUME NEW ws, IsWorkspace(ws), NEW package \in ToSet(ws.members)
    PROVE  /\ TopSources(ws, package) \in Seq(PathsOf(ws))
           /\ ToSet(TopSources(ws, package)) =
                 {t.path : t \in {t \in package.targets : t.kinds \cap MutatedKinds # {}}}
<1> DEFINE s == ws.files
           isTop(f) == \E t \in package.targets : t.path = f.path /\ t.kinds \cap MutatedKinds # {}
           I == {i \in DOMAIN s : isTop(s[i])}
           tops == Pick(s, I)
           paths == [i \in DOMAIN tops |-> tops[i].path]
<1>1. s \in Seq(ToSet(s))
  BY DEF IsWorkspace, IsSeq
<1>2. TopSources(ws, package) = paths
  BY DEF TopSources, Kept
<1> HIDE DEF I
<1>3. tops \in Seq(ToSet(s)) /\ ToSet(tops) = {s[i] : i \in I \cap DOMAIN s}
  BY <1>1, PickType, PickItems
<1>4. ToSet(tops) = {f \in ToSet(s) : isTop(f)}
  BY <1>3 DEF I, ToSet
<1> HIDE DEF tops, isTop
<1>5. paths \in Seq(PathsOf(ws))
  BY <1>3 DEF PathsOf
<1>6. ToSet(paths) = {f.path : f \in ToSet(tops)}
  BY <1>3 DEF ToSet
<1>7. \A t \in package.targets : t.path \in PathsOf(ws)
  BY FileIs DEF IsWorkspace, PathsOf
<1>8. ToSet(paths) = {t.path : t \in {t \in package.targets : t.kinds \cap MutatedKinds # {}}}
  BY <1>4, <1>6, <1>7 DEF isTop, PathsOf
<1> QED BY <1>2, <1>5, <1>8

-----------------------------------------------------------------------------
(* Packages *)

\* A set of numbers below a bound that is not empty has a greatest member.
LEMMA MaxIs ==
    ASSUME NEW n \in Nat, NEW S \in SUBSET (0 .. n), S # {}
    PROVE  Max(S) \in S /\ \A x \in S : x <= Max(S)
<1> DEFINE T == {n - x : x \in S}
<1>1. T \in SUBSET Nat /\ T # {}
  <2>1. \A x \in 0 .. n : n - x \in Nat
    OBVIOUS
  <2>2. PICK x \in S : TRUE
    OBVIOUS
  <2>3. n - x \in T
    OBVIOUS
  <2> QED BY <2>1, <2>3
<1>2. PICK y \in T : \A z \in T : y <= z
  <2> HIDE DEF T
  <2> QED BY <1>1, Least
<1>3. PICK m \in S : y = n - m
  BY <1>2
<1>4. \A x \in S : m >= x
  <2> SUFFICES ASSUME NEW x \in S PROVE m >= x
    OBVIOUS
  <2>1. n - m <= n - x
    BY <1>2, <1>3
  <2> QED BY <2>1
<1>5. Max(S) = CHOOSE x \in S : \A z \in S : x >= z
  BY DEF Max
<1>6. Max(S) \in S /\ \A x \in S : Max(S) >= x
  BY <1>4, <1>5
<1> QED BY <1>6

\* The packages that are looked at are the members inside the workspace.
LEMMA PackagesAre ==
    ASSUME NEW ws, IsWorkspace(ws)
    PROVE  /\ Packages(ws) \in Seq(ToSet(ws.members))
           /\ ToSet(Packages(ws)) = {p \in ToSet(ws.members) : p.inside}
<1> DEFINE s == ws.members
           I == {i \in DOMAIN s : s[i].inside}
<1>1. s \in Seq(ToSet(s))
  BY DEF IsWorkspace, IsSeq
<1>2. Packages(ws) = Pick(s, I)
  BY DEF Packages, Kept
<1> HIDE DEF I
<1>3. Pick(s, I) \in Seq(ToSet(s)) /\ ToSet(Pick(s, I)) = {s[i] : i \in I \cap DOMAIN s}
  BY <1>1, PickType, PickItems
<1>4. {s[i] : i \in I \cap DOMAIN s} = {p \in ToSet(s) : p.inside}
  BY DEF I, ToSet
<1> QED BY <1>2, <1>3, <1>4

\* --package picks by name.
LEMMA PackagesByNameAre ==
    ASSUME NEW ws, IsWorkspace(ws), NEW names, IsSeq(names)
    PROVE  /\ PackagesByName(ws, names) \in Seq(ToSet(ws.members))
           /\ ToSet(PackagesByName(ws, names)) =
                 {p \in ToSet(Packages(ws)) : p.name \in ToSet(names)}
<1> DEFINE P == Packages(ws)
           M == ToSet(ws.members)
           places(p) == {i \in DOMAIN names : names[i] = p.name}
           times(p) == Cardinality(places(p))
           ss == [i \in DOMAIN P |-> [j \in 1 .. times(P[i]) |-> P[i]]]
<1>1. PackagesByName(ws, names) = FlattenSeq(ss)
  BY DEF PackagesByName
<1>2. P \in Seq(M)
  BY PackagesAre
<1>3. names \in Seq(ToSet(names))
  BY DEF IsSeq
<1>4. ASSUME NEW p
      PROVE  times(p) \in Nat /\ (times(p) = 0 <=> p.name \notin ToSet(names))
  <2>1. DOMAIN names = 1 .. Len(names) /\ Len(names) \in Nat
    BY <1>3
  <2>2. IsFiniteSet(1 .. Len(names))
    BY <2>1, FS_Interval
  <2>3. places(p) \in SUBSET (1 .. Len(names))
    BY <2>1
  <2> DEFINE Q == places(p)
  <2>4. Q = {} <=> p.name \notin ToSet(names)
    BY DEF ToSet
  <2> HIDE DEF Q
  <2>5. IsFiniteSet(Q)
    BY <2>2, <2>3, FS_Subset DEF Q
  <2>6. Cardinality(Q) \in Nat /\ (Cardinality(Q) = 0 <=> Q = {})
    BY <2>5, FS_CardinalityType, FS_EmptySet
  <2> QED BY <2>4, <2>6 DEF Q
<1> HIDE DEF P, M, places
<1>5. ASSUME NEW i \in DOMAIN P
      PROVE  ss[i] \in Seq(M) /\ ToSet(ss[i]) = IF P[i].name \in ToSet(names) THEN {P[i]} ELSE {}
  <2> DEFINE n == times(P[i])
             t == [j \in 1 .. n |-> P[i]]
  <2>1. ss[i] = t
    OBVIOUS
  <2>2. n \in Nat /\ (n = 0 <=> P[i].name \notin ToSet(names))
    BY <1>4
  <2>3. P[i] \in M
    BY <1>2
  <2> HIDE DEF n
  <2>4. t \in Seq(M)
    BY <2>2, <2>3
  <2>5. ToSet(t) = IF n = 0 THEN {} ELSE {P[i]}
    <3>1. DOMAIN t = 1 .. n /\ \A j \in DOMAIN t : t[j] = P[i]
      OBVIOUS
    <3>2. n # 0 => 1 \in DOMAIN t
      BY <2>2
    <3>3. n = 0 => DOMAIN t = {}
      OBVIOUS
    <3> QED BY <3>1, <3>2, <3>3 DEF ToSet
  <2> QED BY <2>1, <2>2, <2>4, <2>5
<1>6. ss \in Seq(Seq(M))
  <2>1. DOMAIN P = 1 .. Len(P) /\ Len(P) \in Nat
    BY <1>2
  <2>2. DOMAIN ss = 1 .. Len(P) /\ ss = [i \in 1 .. Len(P) |-> ss[i]]
    BY <2>1
  <2> HIDE DEF ss
  <2> QED BY <1>5, <2>1, <2>2
<1>7. UNION {ToSet(ss[i]) : i \in DOMAIN ss} = {p \in ToSet(P) : p.name \in ToSet(names)}
  <2>1. DOMAIN ss = DOMAIN P
    OBVIOUS
  <2> HIDE DEF ss
  <2>2. ToSet(P) = {P[i] : i \in DOMAIN P}
    BY DEF ToSet
  <2> QED BY <1>5, <2>1, <2>2
<1> HIDE DEF ss
<1>8. FlattenSeq(ss) \in Seq(M) /\ ToSet(FlattenSeq(ss)) = UNION {ToSet(ss[i]) : i \in DOMAIN ss}
  BY <1>6, FlattenType, FlattenItems
<1> QED BY <1>1, <1>7, <1>8 DEF P, M

\* The packages whose directory is that of the manifest around dir.
LEMMA EnclosingAre ==
    ASSUME NEW ws, IsWorkspace(ws), NEW dir
    PROVE  /\ EnclosingPackages(ws, dir) \in Seq(ToSet(ws.members))
           /\ ToSet(EnclosingPackages(ws, dir)) =
                 {p \in ToSet(Packages(ws)) : p.dir = LocateProject(ws, dir)}
<1> DEFINE s == Packages(ws)
           d == LocateProject(ws, dir)
           I == {i \in DOMAIN s : s[i].dir = d}
<1>1. s \in Seq(ToSet(ws.members))
  BY PackagesAre
<1>2. EnclosingPackages(ws, dir) = Pick(s, I)
  BY DEF EnclosingPackages, Kept
<1> HIDE DEF I, s, d
<1>3. Pick(s, I) \in Seq(ToSet(ws.members)) /\ ToSet(Pick(s, I)) = {s[i] : i \in I \cap DOMAIN s}
  BY <1>1, PickType, PickItems
<1>4. {s[i] : i \in I \cap DOMAIN s} = {p \in ToSet(s) : p.dir = d}
  BY DEF I, ToSet
<1> QED BY <1>2, <1>3, <1>4 DEF s, d

\* Nothing between d and dir has a manifest.
Nearest(ws, dir, d) ==
    \E n \in 0 .. Len(dir) :
        /\ d = SubSeq(dir, 1, n)
        /\ \A m \in n + 1 .. Len(dir) : SubSeq(dir, 1, m) \notin ws.manifests

\* The directory of the nearest manifest.
LEMMA LocateIs ==
    ASSUME NEW ws, IsWorkspace(ws), NEW dir, IsSeq(dir), NEW d \in ws.manifests
    PROVE  d = LocateProject(ws, dir) <=> Nearest(ws, dir, d)
<1> DEFINE N == Len(dir)
           At(n) == SubSeq(dir, 1, n)
           S == {n \in 0 .. N : At(n) \in ws.manifests}
           g == Max(S)
<1>1. N \in Nat /\ At(0) = <<>>
  BY DEF IsSeq
<1>2. S \in SUBSET (0 .. N) /\ 0 \in S
  <2>1. <<>> \in ws.manifests
    BY DEF IsWorkspace
  <2>2. 0 \in 0 .. N
    BY <1>1
  <2> HIDE DEF N, At
  <2> QED BY <1>1, <2>1, <2>2
<1>3. g \in S /\ \A n \in S : n <= g
  <2> HIDE DEF N, At, S
  <2> QED BY <1>1, <1>2, MaxIs
<1>4. LocateProject(ws, dir) = At(g)
  BY DEF LocateProject
<1> HIDE DEF N, At, g
<1>5. ASSUME d = At(g)
      PROVE  \E n \in 0 .. N : d = At(n) /\ \A m \in n + 1 .. N : At(m) \notin ws.manifests
  <2>1. g \in 0 .. N
    BY <1>3
  <2>2. \A m \in g + 1 .. N : At(m) \notin ws.manifests
    <3> SUFFICES ASSUME NEW m \in g + 1 .. N, At(m) \in ws.manifests PROVE FALSE
      OBVIOUS
    <3>1. m \in S /\ ~(m <= g)
      BY <1>1, <2>1
    <3> QED BY <1>3, <3>1
  <2> QED BY <1>5, <2>1, <2>2
<1>6. ASSUME NEW n \in 0 .. N, d = At(n), \A m \in n + 1 .. N : At(m) \notin ws.manifests
      PROVE  d = At(g)
  <2>1. n \in S
    BY <1>6
  <2>2. n <= g /\ g \in 0 .. N /\ At(g) \in ws.manifests
    BY <1>3, <2>1
  <2>3. ~(g \in n + 1 .. N)
    BY <1>6, <2>2
  <2>4. n = g
    BY <1>1, <2>2, <2>3
  <2> QED BY <1>6, <2>4
<1>7. d = At(g) <=> \E n \in 0 .. N : d = At(n) /\ \A m \in n + 1 .. N : At(m) \notin ws.manifests
  BY <1>5, <1>6
<1> QED BY <1>4, <1>7 DEF At, N, Nearest

\* The packages that are walked, as a set.
LEMMA FilterPackagesAre ==
    ASSUME inv \in Invocations, Args.mode = "run"
    PROVE  /\ FilterPackages(Tree, Args) \in Seq(ToSet(Tree.members))
           /\ ToSet(FilterPackages(Tree, Args)) = Chosen
<1> DEFINE ws == Tree
           M == ToSet(ws.members)
           inside == {p \in M : p.inside}
           around == {p \in inside : Nearest(ws, Args.dir, p.dir)}
           E == EnclosingPackages(ws, Args.dir)
<1>1. IsWorkspace(ws) /\ IsSeq(Args.dir) /\ IsSeq(Args.packages)
  BY DiscoveryAssumption, InvocationsAssumption DEF Tree, Args
<1>2. Packages(ws) \in Seq(M) /\ ToSet(Packages(ws)) = inside
  BY <1>1, PackagesAre
<1>3. E \in Seq(M) /\ ToSet(E) = {p \in inside : p.dir = LocateProject(ws, Args.dir)}
  BY <1>1, <1>2, EnclosingAre
<1>4. \A p \in inside : p.dir \in ws.manifests
  BY <1>1 DEF IsWorkspace
<1>5. around = ToSet(E)
  BY <1>1, <1>3, <1>4, LocateIs
<1>6. \A p, q \in M : p.dir = q.dir => p = q
  BY <1>1 DEF IsWorkspace
<1>7. Chosen = CASE Args.packages # <<>> -> {p \in inside : p.name \in ToSet(Args.packages)}
                 [] Args.packages = <<>> /\ Args.workspace -> inside
                 [] OTHER -> IF around # {} THEN around
                             ELSE {p \in inside : ws.defaults # Unsupported =>
                                                      p.name \in ToSet(ws.defaults)}
  BY DEF Chosen, Nearest
<1>8. FilterPackages(ws, Args) = CASE Args.packages # <<>> -> PackagesByName(ws, Args.packages)
                 [] Args.packages = <<>> /\ Args.workspace -> Packages(ws)
                 [] OTHER -> AutoPackages(ws, Args.dir)
  BY DEF FilterPackages
<1>9. PackagesByName(ws, Args.packages) \in Seq(M)
      /\ ToSet(PackagesByName(ws, Args.packages)) = {p \in inside : p.name \in ToSet(Args.packages)}
  BY <1>1, <1>2, PackagesByNameAre
<1>10. DefaultPackages(ws) \in Seq(M)
       /\ ToSet(DefaultPackages(ws)) = {p \in inside : ws.defaults # Unsupported =>
                                                      p.name \in ToSet(ws.defaults)}
  <2>1. CASE ws.defaults = Unsupported
    BY <1>2, <2>1 DEF DefaultPackages
  <2>2. CASE ws.defaults # Unsupported
    <3>1. IsSeq(ws.defaults)
      BY <1>1, <2>2 DEF IsWorkspace
    <3>2. PackagesByName(ws, ws.defaults) \in Seq(M)
          /\ ToSet(PackagesByName(ws, ws.defaults)) = {p \in inside : p.name \in ToSet(ws.defaults)}
      BY <1>1, <1>2, <3>1, PackagesByNameAre
    <3> QED BY <2>2, <3>2 DEF DefaultPackages
  <2> QED BY <2>1, <2>2
<1>11. AutoPackages(ws, Args.dir) = IF E = <<>> THEN DefaultPackages(ws) ELSE <<Head(E)>>
  BY DEF AutoPackages
<1> HIDE DEF E, around, inside, M, ws
<1>12. E = <<>> <=> around = {}
  <2>1. E # <<>> => 1 \in DOMAIN E
    BY <1>3
  <2>2. E = <<>> => ToSet(E) = {}
    BY DEF ToSet
  <2> QED BY <1>5, <2>1, <2>2 DEF ToSet
<1>13. E # <<>> => <<Head(E)>> \in Seq(M) /\ ToSet(<<Head(E)>>) = around
  <2> SUFFICES ASSUME E # <<>> PROVE <<Head(E)>> \in Seq(M) /\ ToSet(<<Head(E)>>) = around
    OBVIOUS
  <2> DEFINE h == Head(E)
  <2>1. h \in ToSet(E) /\ h \in M
    <3>1. 1 \in DOMAIN E /\ h = E[1]
      BY <1>3
    <3> QED BY <1>3, <3>1 DEF ToSet
  <2> HIDE DEF h
  <2>2. \A p \in ToSet(E) : p = h
    BY <1>3, <1>6, <2>1 DEF inside
  <2>3. ToSet(E) = {h}
    BY <2>1, <2>2
  <2>4. <<h>> \in Seq(M) /\ ToSet(<<h>>) = {h}
    BY <2>1 DEF ToSet
  <2> QED BY <1>5, <2>3, <2>4 DEF h
<1>14. AutoPackages(ws, Args.dir) \in Seq(M)
       /\ ToSet(AutoPackages(ws, Args.dir)) =
             IF around # {} THEN around
             ELSE {p \in inside : ws.defaults # Unsupported => p.name \in ToSet(ws.defaults)}
  BY <1>10, <1>11, <1>12, <1>13
<1>15. FilterPackages(ws, Args) \in Seq(M) /\ ToSet(FilterPackages(ws, Args)) = Chosen
  BY <1>2, <1>7, <1>8, <1>9, <1>14
<1> QED BY <1>15 DEF ws, M

-----------------------------------------------------------------------------
(* Levels *)

WalkOf == [e \in Entries |-> Walk(e)]
PathOf == [e \in Entries |-> e.path]
OkEntries == {e \in Entries : Load(e) = "ok"}
Declared == [e \in Entries |-> LET found == ModSources(Tree, e)
                               IN  [j \in DOMAIN found |-> [path |-> found[j], is_top |-> FALSE]]]
Tops(package) == LET tops == TopSources(Tree, package)
                 IN  [i \in DOMAIN tops |-> [path |-> tops[i], is_top |-> TRUE]]
NextOf(entries) == FlattenSeq(Map(Declared, Only(entries, OkEntries)))
OkPaths(entries) == Map(PathOf, Only(entries, OkEntries))
AllowedPaths == {p \in Paths : AllowsSourceFilePath(p)}
Loads == {"ok", "outside", "unreadable", "panics"}
Results == {Unset} \cup {Walk(e) : e \in Entries}

\* The tree of an invocation is a workspace as assumed.
LEMMA TreeIs ==
    ASSUME inv \in Invocations
    PROVE  IsWorkspace(Tree) /\ IsResolved(Tree) /\ Paths = PathsOf(Tree) /\ IsSeq(Tree.files)
BY DiscoveryAssumption, ModulesAssumption, InvocationsAssumption DEF Tree, Paths, PathsOf, IsWorkspace

\* An entry, its file, and what a thread reports of it.
LEMMA EntryIs ==
    ASSUME inv \in Invocations, NEW e \in Entries
    PROVE  /\ e.path \in Paths /\ e.is_top \in BOOLEAN /\ e = [path |-> e.path, is_top |-> e.is_top]
           /\ Load(e) \in Loads /\ Walk(e) = [is |-> Load(e), entry |-> e] /\ Walk(e) # Unset
           /\ FileAt(Tree, e.path)[1] \in ToSet(Tree.files)
<1>1. e.path \in Paths /\ e.is_top \in BOOLEAN /\ e = [path |-> e.path, is_top |-> e.is_top]
  BY DEF Entries
<1>2. IsWorkspace(Tree) /\ IsSeq(Tree.files)
  BY TreeIs
<1>3. FileAt(Tree, e.path)[1] \in ToSet(Tree.files)
  BY <1>1, <1>2, FileIs DEF Paths
<1>4. \A f \in ToSet(Tree.files) : f.load \in Loads
  BY <1>2 DEF IsWorkspace, Loads
<1>5. Load(e) \in Loads
  BY <1>3, <1>4 DEF Load
<1>6. Walk(e) = [is |-> Load(e), entry |-> e]
  BY DEF Walk, Load
<1>7. Walk(e).is # "unset" /\ Unset.is = "unset"
  BY <1>5, <1>6 DEF Loads, Unset
<1> QED BY <1>1, <1>3, <1>5, <1>6, <1>7

\* Walking, naming and declaring, as functions on entries.
LEMMA EntrySets ==
    ASSUME inv \in Invocations
    PROVE  /\ WalkOf \in [Entries -> Results] /\ PathOf \in [Entries -> Paths]
           /\ Declared \in [Entries -> Seq(Entries)]
           /\ \A e \in Entries : ToSet(Declared[e]) =
                 {[path |-> p, is_top |-> FALSE] : p \in ToSet(ModSources(Tree, e))}
<1>1. WalkOf \in [Entries -> Results]
  BY DEF WalkOf, Results
<1>2. PathOf \in [Entries -> Paths]
  BY EntryIs DEF PathOf
<1>3. ASSUME NEW e \in Entries
      PROVE  /\ Declared[e] \in Seq(Entries)
             /\ ToSet(Declared[e]) = {[path |-> p, is_top |-> FALSE] : p \in ToSet(ModSources(Tree, e))}
  <2> DEFINE found == ModSources(Tree, e)
             d == [j \in DOMAIN found |-> [path |-> found[j], is_top |-> FALSE]]
  <2>1. e.path \in PathsOf(Tree) /\ IsWorkspace(Tree) /\ Paths = PathsOf(Tree)
    BY EntryIs, TreeIs
  <2>2. found \in Seq(Paths)
    BY <2>1, ModSourcesType
  <2>3. Declared[e] = d
    BY DEF Declared
  <2> HIDE DEF found
  <2>4. \A p \in Paths : [path |-> p, is_top |-> FALSE] \in Entries
    BY DEF Entries
  <2>5. d \in Seq(Entries)
    BY <2>2, <2>4
  <2>6. ToSet(d) = {[path |-> p, is_top |-> FALSE] : p \in ToSet(found)}
    BY DEF ToSet
  <2> QED BY <2>3, <2>5, <2>6 DEF found
<1>4. Declared \in [Entries -> Seq(Entries)]
  <2>1. Declared = [e \in Entries |-> Declared[e]]
    BY DEF Declared
  <2> QED BY <1>3, <2>1
<1> QED BY <1>1, <1>2, <1>3, <1>4

\* The first entries of a package are its targets of kinds that are mutated.
LEMMA TopsType ==
    ASSUME inv \in Invocations, NEW package \in ToSet(Tree.members)
    PROVE  /\ Tops(package) \in Seq(Entries)
           /\ ToSet(Tops(package)) = {[path |-> t.path, is_top |-> TRUE] :
                 t \in {t \in package.targets : t.kinds \cap MutatedKinds # {}}}
<1> DEFINE tops == TopSources(Tree, package)
           d == [i \in DOMAIN tops |-> [path |-> tops[i], is_top |-> TRUE]]
           T == {t \in package.targets : t.kinds \cap MutatedKinds # {}}
<1>1. tops \in Seq(Paths) /\ ToSet(tops) = {t.path : t \in T}
  BY TreeIs, TopSourcesType
<1>2. Tops(package) = d
  BY DEF Tops
<1> HIDE DEF tops, T
<1>3. \A p \in Paths : [path |-> p, is_top |-> TRUE] \in Entries
  BY DEF Entries
<1>4. d \in Seq(Entries)
  BY <1>1, <1>3
<1>5. ToSet(d) = {[path |-> p, is_top |-> TRUE] : p \in ToSet(tops)}
  BY DEF ToSet
<1>6. ToSet(d) = {[path |-> t.path, is_top |-> TRUE] : t \in T}
  BY <1>1, <1>5
<1> QED BY <1>2, <1>4, <1>6 DEF T

\* The files and entries that a level yields.
LEMMA NextOfType ==
    ASSUME inv \in Invocations, NEW entries \in Seq(Entries)
    PROVE  NextOf(entries) \in Seq(Entries) /\ OkPaths(entries) \in Seq(Paths)
           /\ Only(entries, OkEntries) \in Seq(Entries)
<1> DEFINE ok == Only(entries, OkEntries)
<1>1. ok \in Seq(Entries)
  BY OnlyType
<1> HIDE DEF ok
<1>2. Map(PathOf, ok) \in Seq(Paths)
  BY <1>1, EntrySets, MapType
<1>3. Map(Declared, ok) \in Seq(Seq(Entries))
  BY <1>1, EntrySets, MapType
<1>4. FlattenSeq(Map(Declared, ok)) \in Seq(Entries)
  <2> DEFINE m == Map(Declared, ok)
  <2> HIDE DEF m
  <2>1. m \in Seq(Seq(Entries))
    BY <1>3 DEF m
  <2>2. FlattenSeq(m) \in Seq(Entries)
    BY <2>1, FlattenType
  <2> QED BY <2>2 DEF m
<1> QED BY <1>1, <1>2, <1>4 DEF NextOf, OkPaths, ok

\* When every file has been walked, the results are those of the level in order.
LEMMA LevelResults ==
    ASSUME inv \in Invocations, level \in Seq(Entries), results = Map(WalkOf, level)
    PROVE  /\ Walked = Map(WalkOf, Only(level, OkEntries))
           /\ NextLevel = NextOf(level)
           /\ [i \in DOMAIN Allowed |-> Allowed[i].entry] =
                 Only(Only(level, OkEntries), {e \in Entries : e.path \in AllowedPaths})
           /\ DOMAIN Allowed = DOMAIN Only(Only(level, OkEntries), {e \in Entries : e.path \in AllowedPaths})
<1> DEFINE I == {i \in DOMAIN results : results[i].is = "ok"}
           J == {i \in DOMAIN level : level[i] \in OkEntries}
           ok == Only(level, OkEntries)
<1>1. DOMAIN results = DOMAIN level /\ \A i \in DOMAIN level : results[i] = Walk(level[i])
  BY DEF Map, WalkOf
<1>2. \A i \in DOMAIN level : level[i] \in Entries /\ (results[i].is = "ok" <=> level[i] \in OkEntries)
  BY <1>1, EntryIs DEF OkEntries
<1>3. I = J
  BY <1>1, <1>2
<1>4. Walked = Pick(results, I)
  BY DEF Walked, Kept
<1> HIDE DEF I, J
<1>a. WalkOf \in [Entries -> Results]
  BY EntrySets
<1>5. Pick(Map(WalkOf, level), J) = Map(WalkOf, Pick(level, J))
  BY PickMap
<1>6. ok = Pick(level, J)
  BY DEF Only, J
<1>7. Walked = Map(WalkOf, ok)
  BY <1>3, <1>4, <1>5, <1>6
<1>8. ok \in Seq(Entries)
  BY OnlyType
<1> HIDE DEF ok
<1>9. DOMAIN Walked = DOMAIN ok /\ \A i \in DOMAIN ok : Walked[i] = Walk(ok[i])
  BY <1>7, <1>8 DEF Map, WalkOf
<1>10. \A i \in DOMAIN ok : ok[i] \in Entries /\ Walked[i].entry = ok[i]
  BY <1>8, <1>9, EntryIs
<1>11. NextLevel = FlattenSeq(Map(Declared, ok))
  <2> DEFINE Dec(e) == LET found == ModSources(Tree, e)
                       IN  [j \in DOMAIN found |-> [path |-> found[j], is_top |-> FALSE]]
  <2>1. NextLevel = FlattenSeq([i \in DOMAIN Walked |-> Dec(Walked[i].entry)])
    BY DEF NextLevel
  <2>2. Map(Declared, ok) = [i \in DOMAIN ok |-> Declared[ok[i]]]
    BY DEF Map
  <2>3. \A e \in Entries : Declared[e] = Dec(e)
    BY DEF Declared
  <2> HIDE DEF Dec
  <2>4. [i \in DOMAIN Walked |-> Dec(Walked[i].entry)] = Map(Declared, ok)
    BY <1>9, <1>10, <2>2, <2>3
  <2> QED BY <2>1, <2>4
<1> DEFINE S == {e \in Entries : e.path \in AllowedPaths}
           K == {i \in DOMAIN Walked : AllowsSourceFilePath(Walked[i].entry.path)}
           L == {i \in DOMAIN ok : ok[i] \in S}
<1>12. Allowed = Pick(Walked, K)
  BY DEF Allowed, Kept
<1>13. K = L
  <2>1. \A e \in Entries : e \in S <=> AllowsSourceFilePath(e.path)
    BY EntryIs DEF AllowedPaths
  <2> HIDE DEF S
  <2> QED BY <1>9, <1>10, <2>1
<1> HIDE DEF K, L
<1>14. Pick(Map(WalkOf, ok), L) = Map(WalkOf, Pick(ok, L))
  BY <1>8, PickMap
<1>15. Only(ok, S) = Pick(ok, L)
  BY DEF Only, L
<1> DEFINE few == Only(ok, S)
<1>16. few \in Seq(Entries)
  BY <1>8, OnlyType
<1> HIDE DEF few, S
<1>17. Allowed = Map(WalkOf, few)
  BY <1>7, <1>12, <1>13, <1>14, <1>15 DEF few
<1>18. DOMAIN Allowed = DOMAIN few /\ \A i \in DOMAIN few : Allowed[i] = Walk(few[i])
  BY <1>16, <1>17 DEF Map, WalkOf
<1>19. \A i \in DOMAIN few : Allowed[i].entry = few[i]
  BY <1>16, <1>18, EntryIs
<1>20. [i \in DOMAIN Allowed |-> Allowed[i].entry] = few
  BY <1>16, <1>18, <1>19
<1> QED BY <1>7, <1>11, <1>18, <1>20 DEF few, S, ok, NextOf

-----------------------------------------------------------------------------
(* The window *)

LoadOf == [e \in Entries |-> Load(e)]
Distinct(s) == \A i, j \in DOMAIN s : s[i] = s[j] => i = j

\* Every thread that was started works, has just ended or has been heard of.
Window ==
    /\ next \in 1 .. Len(level) + 1
    /\ running \cap ToSet(sent) = {} /\ Distinct(sent)
    /\ running \cup ToSet(sent) = {i \in 1 .. next - 1 : results[i] = Unset}
    /\ \A i \in next .. Len(level) : results[i] = Unset
    /\ \A i \in 1 .. Len(level) : results[i] = Unset
                                  \/ (results[i] = WalkOf[level[i]] /\ LoadOf[level[i]] # "panics")
    /\ inFlight = Cardinality(running) + Len(sent)
    /\ inFlight <= Parallelism
    /\ inFlight < Parallelism => next = Len(level) + 1

WalkType ==
    /\ inv \in Invocations
    /\ stage \notin {"start", "ended"} => Args.mode = "run"
    /\ packages \in Seq(ToSet(Tree.members))
    /\ pending \in Seq(Entries) /\ level \in Seq(Entries)
    /\ results \in Seq(Results) /\ Len(results) = Len(level)
    /\ running \in SUBSET Nat /\ IsFiniteSet(running) /\ sent \in Seq(Nat)
    /\ stage \notin {"walking", "unwinding"} => running = {}
    /\ stage \notin {"walking", "unwinding", "ended"} => sent = <<>>

WalkInv == WalkType /\ (stage = "walking" => Window)

\* As many items as the sequence is long, if none comes twice.
LEMMA DistinctCount ==
    ASSUME NEW A, NEW s \in Seq(A), Distinct(s)
    PROVE  IsFiniteSet(ToSet(s)) /\ Cardinality(ToSet(s)) = Len(s)
<1> DEFINE P == {t \in Seq(A) : Distinct(t) =>
                    IsFiniteSet(ToSet(t)) /\ Cardinality(ToSet(t)) = Len(t)}
<1>1. <<>> \in P
  <2>1. ToSet(<<>>) = {}
    BY DEF ToSet
  <2> DEFINE none == <<>>
  <2>2. none \in Seq(A) /\ Len(none) = 0
    OBVIOUS
  <2>3. IsFiniteSet(ToSet(none)) /\ Cardinality(ToSet(none)) = 0
    BY <2>1, FS_EmptySet
  <2> HIDE DEF none
  <2>4. none \in P
    BY <2>2, <2>3
  <2> QED BY <2>4 DEF none
<1>2. \A t \in Seq(A) : \A x \in A : t \in P => Append(t, x) \in P
  <2> SUFFICES ASSUME NEW t \in Seq(A), NEW x \in A, t \in P, Distinct(Append(t, x))
               PROVE  IsFiniteSet(ToSet(Append(t, x))) /\
                      Cardinality(ToSet(Append(t, x))) = Len(Append(t, x))
    OBVIOUS
  <2> DEFINE u == Append(t, x)
  <2>1. DOMAIN u = DOMAIN t \cup {Len(t) + 1} /\ u[Len(t) + 1] = x
        /\ (\A i \in DOMAIN t : u[i] = t[i]) /\ Len(t) \in Nat /\ DOMAIN t = 1 .. Len(t)
        /\ Len(u) = Len(t) + 1
    OBVIOUS
  <2>2. ToSet(u) = ToSet(t) \cup {x}
    BY AppendItems
  <2> HIDE DEF u
  <2>3. Distinct(u)
    BY DEF u
  <2>4. Distinct(t)
    <3> SUFFICES ASSUME NEW i \in DOMAIN t, NEW j \in DOMAIN t, t[i] = t[j] PROVE i = j
      BY DEF Distinct
    <3>1. i \in DOMAIN u /\ j \in DOMAIN u /\ u[i] = u[j]
      BY <2>1
    <3> QED BY <2>3, <3>1 DEF Distinct
  <2>5. x \notin ToSet(t)
    <3> SUFFICES ASSUME NEW i \in DOMAIN t, t[i] = x PROVE FALSE
      BY DEF ToSet
    <3>1. i = Len(t) + 1
      BY <2>1, <2>3 DEF Distinct
    <3> QED BY <2>1, <3>1
  <2>6. IsFiniteSet(ToSet(t)) /\ Cardinality(ToSet(t)) = Len(t)
    BY <2>4
  <2>7. IsFiniteSet(ToSet(t) \cup {x}) /\ Cardinality(ToSet(t) \cup {x}) = Len(t) + 1
    BY <2>5, <2>6, FS_AddElement
  <2> QED BY <2>1, <2>2, <2>7 DEF u
<1> HIDE DEF P
<1>3. s \in P
  BY <1>1, <1>2, SeqInduction
<1> QED BY <1>3 DEF P

\* The tail of a sequence without repetition.
LEMMA DistinctTail ==
    ASSUME NEW A, NEW s \in Seq(A), Distinct(s), s # <<>>
    PROVE  /\ Tail(s) \in Seq(A) /\ Distinct(Tail(s)) /\ Len(Tail(s)) = Len(s) - 1
           /\ Head(s) \in ToSet(s) /\ ToSet(Tail(s)) = ToSet(s) \ {Head(s)}
<1> DEFINE t == Tail(s)
<1>1. t \in Seq(A) /\ Len(t) = Len(s) - 1 /\ Len(s) \in Nat \ {0} /\ Head(s) = s[1]
      /\ DOMAIN s = 1 .. Len(s) /\ DOMAIN t = 1 .. Len(s) - 1
      /\ \A i \in DOMAIN t : t[i] = s[i + 1]
  OBVIOUS
<1> HIDE DEF t
<1>2. \A i \in DOMAIN t : i + 1 \in DOMAIN s /\ i \in Nat
  BY <1>1
<1>3. Distinct(t)
  <2> SUFFICES ASSUME NEW i \in DOMAIN t, NEW j \in DOMAIN t, t[i] = t[j] PROVE i = j
    BY DEF Distinct
  <2>1. i + 1 \in DOMAIN s /\ j + 1 \in DOMAIN s /\ s[i + 1] = s[j + 1]
    BY <1>1, <1>2
  <2>2. i + 1 = j + 1
    BY <2>1 DEF Distinct
  <2> QED BY <1>2, <2>2
<1>4. 1 \in DOMAIN s
  BY <1>1
<1>5. \A x : x \in ToSet(t) <=> x \in ToSet(s) /\ x # s[1]
  <2>1. ASSUME NEW i \in DOMAIN t PROVE t[i] \in ToSet(s) /\ t[i] # s[1]
    <3>1. i + 1 \in DOMAIN s /\ i + 1 # 1 /\ t[i] = s[i + 1]
      BY <1>1, <1>2
    <3> QED BY <1>4, <3>1 DEF Distinct, ToSet
  <2>2. ASSUME NEW i \in DOMAIN s, s[i] # s[1] PROVE s[i] \in ToSet(t)
    <3>1. i - 1 \in DOMAIN t /\ (i - 1) + 1 = i
      BY <1>1, <2>2
    <3>2. s[i] = t[i - 1]
      BY <1>1, <3>1
    <3> QED BY <3>1, <3>2 DEF ToSet
  <2> QED BY <2>1, <2>2 DEF ToSet
<1>6. Head(s) \in ToSet(s)
  BY <1>1, <1>4 DEF ToSet
<1>7. ToSet(t) = ToSet(s) \ {Head(s)}
  BY <1>1, <1>5
<1> QED BY <1>1, <1>3, <1>6, <1>7 DEF t

\* The files without a result are those in flight and those not yet started.
LEMMA WindowCount ==
    ASSUME WalkInv, stage = "walking"
    PROVE  /\ Cardinality(running) \in Nat /\ Len(sent) \in Nat /\ inFlight \in Nat
           /\ Cardinality({i \in DOMAIN results : results[i] = Unset})
                 = inFlight + (Len(level) - next + 1)
<1> DEFINE N == Len(level)
           T == running \cup ToSet(sent)
           U == {i \in DOMAIN results : results[i] = Unset}
<1>1. N \in Nat /\ next \in 1 .. N + 1 /\ DOMAIN results = 1 .. N
  BY DEF WalkInv, WalkType, Window
<1>2. Window /\ running \in SUBSET Nat /\ IsFiniteSet(running) /\ sent \in Seq(Nat)
  BY DEF WalkInv, WalkType
<1>3. IsFiniteSet(ToSet(sent)) /\ Cardinality(ToSet(sent)) = Len(sent) /\ Len(sent) \in Nat
  BY <1>2, DistinctCount DEF Window
<1>4. Cardinality(running) \in Nat
  BY <1>2, FS_CardinalityType
<1>5. IsFiniteSet(T) /\ Cardinality(T) = Cardinality(running) + Len(sent)
  <2>1. IsFiniteSet(T) /\ Cardinality(T) = Cardinality(running) + Cardinality(ToSet(sent))
              - Cardinality(running \cap ToSet(sent))
    BY <1>2, <1>3, FS_Union
  <2>2. Cardinality(running \cap ToSet(sent)) = 0
    BY <1>2, FS_EmptySet DEF Window
  <2> QED BY <1>3, <1>4, <2>1, <2>2
<1>6. T = {i \in 1 .. next - 1 : results[i] = Unset}
  BY <1>2 DEF Window
<1> DEFINE R == next .. N
<1>7. U = T \cup R
  <2>1. \A i \in R : results[i] = Unset
    BY <1>2 DEF Window
  <2>2. 1 .. N = (1 .. next - 1) \cup R
    BY <1>1
  <2> HIDE DEF T, R
  <2> QED BY <1>1, <1>6, <2>1, <2>2
<1>8. T \cap R = {}
  <2>1. (1 .. next - 1) \cap R = {}
    BY <1>1
  <2> HIDE DEF T, R
  <2> QED BY <1>6, <2>1
<1>9. IsFiniteSet(R) /\ Cardinality(R) = N - next + 1
  <2>1. next \in Int /\ N \in Int /\ (next > N => N - next + 1 = 0)
    BY <1>1
  <2> HIDE DEF N
  <2>2. IsFiniteSet(next .. N) /\ Cardinality(next .. N) = IF next > N THEN 0 ELSE N - next + 1
    BY <2>1, FS_Interval
  <2> QED BY <2>1, <2>2
<1> HIDE DEF T, R, U
<1>10. Cardinality(T \cup R) = Cardinality(T) + Cardinality(R) - Cardinality(T \cap R)
  BY <1>5, <1>9, FS_Union
<1>11. Cardinality(T \cap R) = 0
  BY <1>8, FS_EmptySet
<1>12. inFlight = Cardinality(running) + Len(sent)
  BY <1>2 DEF Window
<1>13. Cardinality(U) = inFlight + (N - next + 1)
  BY <1>1, <1>3, <1>4, <1>5, <1>7, <1>9, <1>10, <1>11, <1>12
<1> QED BY <1>1, <1>3, <1>4, <1>12, <1>13 DEF U

\* The lesser of two numbers.
LEMMA MinOf ==
    ASSUME NEW a \in Nat, NEW b \in Nat
    PROVE  Min({a, b}) = IF a <= b THEN a ELSE b
<1> DEFINE Low(x) == x \in {a, b} /\ \A y \in {a, b} : x <= y
           m == IF a <= b THEN a ELSE b
<1>1. Min({a, b}) = CHOOSE x : Low(x)
  BY DEF Min
<1>2. Low(m) /\ \A x : Low(x) => x = m
  OBVIOUS
<1> HIDE DEF Low
<1> QED BY <1>1, <1>2

\* The invariant gives the window.
LEMMA WindowFull == WalkInv => WindowIsFull
<1> SUFFICES ASSUME WalkInv, stage = "walking"
             PROVE  LET left == Cardinality({i \in DOMAIN results : results[i] = Unset})
                    IN  /\ Cardinality(running) + Len(sent) = Min({Parallelism, left})
                        /\ Cardinality(running) + Len(sent) = inFlight
  BY DEF WindowIsFull
<1> DEFINE left == Cardinality({i \in DOMAIN results : results[i] = Unset})
<1>1. Cardinality(running) \in Nat /\ Len(sent) \in Nat /\ inFlight \in Nat
      /\ left = inFlight + (Len(level) - next + 1)
  BY WindowCount
<1>2. Len(level) \in Nat /\ next \in 1 .. Len(level) + 1 /\ inFlight <= Parallelism
      /\ (inFlight < Parallelism => next = Len(level) + 1)
      /\ inFlight = Cardinality(running) + Len(sent)
  BY DEF WalkInv, WalkType, Window
<1>3. Parallelism \in Nat
  BY DiscoveryAssumption
<1> HIDE DEF left
<1>4. left \in Nat
  BY <1>1, <1>2
<1>5. Min({Parallelism, left}) = IF Parallelism <= left THEN Parallelism ELSE left
  BY <1>3, <1>4, MinOf
<1>6. Min({Parallelism, left}) = inFlight
  BY <1>1, <1>2, <1>3, <1>4, <1>5
<1> QED BY <1>2, <1>6 DEF left

\* The invocation, and with it the tree, never changes.
LEMMA SameTree ==
    ASSUME inv' = inv
    PROVE  /\ Tree' = Tree /\ Args' = Args /\ Paths' = Paths /\ Entries' = Entries
           /\ Results' = Results /\ WalkOf' = WalkOf /\ LoadOf' = LoadOf
<1>1. Tree' = Tree /\ Args' = Args
  BY DEF Tree, Args
<1>2. Paths' = Paths
  BY <1>1 DEF Paths
<1>3. Entries' = Entries
  BY <1>2 DEF Entries
<1>4. \A e : FileAt(Tree', e.path) = FileAt(Tree, e.path)
  BY <1>1
<1>5. WalkOf' = WalkOf
  BY <1>3, <1>1 DEF WalkOf, Walk
<1>6. LoadOf' = LoadOf
  BY <1>3, <1>1 DEF LoadOf, Load
<1>7. Results' = Results
  BY <1>3, <1>1 DEF Results, Walk, Unset
<1> QED BY <1>1, <1>2, <1>3, <1>5, <1>6, <1>7

\* Before main starts.
LEMMA WalkInit == Init => WalkInv
<1> SUFFICES ASSUME Init PROVE WalkInv
  OBVIOUS
<1>1. stage = "start" /\ running = {} /\ inv \in Invocations
  BY DEF Init
<1> DEFINE none == <<>>
<1>2. packages = none /\ pending = none /\ level = none /\ results = none /\ sent = none
  BY DEF Init
<1>3. none \in Seq(ToSet(Tree.members)) /\ none \in Seq(Entries) /\ none \in Seq(Results)
      /\ none \in Seq(Nat)
  OBVIOUS
<1>4. IsFiniteSet({})
  BY FS_EmptySet
<1> HIDE DEF none
<1> QED BY <1>1, <1>2, <1>3, <1>4 DEF WalkInv, WalkType, none

\* What does not concern the walk.
LEMMA WalkStays ==
    ASSUME WalkInv, UNCHANGED <<inv, walkVars>>, stage' # "walking" \/ stage' = stage,
           stage' \notin {"start", "ended"} => Args.mode = "run",
           running = {} \/ stage' \in {"walking", "unwinding"},
           sent = <<>> \/ stage' \in {"walking", "unwinding", "ended"}
    PROVE  WalkInv'
<1>1. UNCHANGED <<inv, packages, pending, level, next, inFlight, running, sent, results>>
  BY DEF walkVars
<1>2. Tree' = Tree /\ Args' = Args /\ Entries' = Entries /\ Results' = Results
      /\ WalkOf' = WalkOf /\ LoadOf' = LoadOf
  BY <1>1, SameTree
<1>3. WalkType'
  BY <1>1, <1>2 DEF WalkInv, WalkType
<1>4. Window => Window'
  BY <1>1, <1>2 DEF Window
<1> QED BY <1>3, <1>4 DEF WalkInv

\* Opening the workspace sets the packages.
LEMMA OpenWorkspaceKeeps ==
    ASSUME WalkInv, OpenWorkspace
    PROVE  WalkInv'
<1>1. UNCHANGED <<inv, pending, level, next, inFlight, running, sent, results>>
      /\ stage = "start" /\ Args.mode = "run" /\ stage' \in {"ended", "package"}
      /\ (packages' = packages \/ packages' = FilterPackages(Tree, Args))
  BY DEF OpenWorkspace, End, walkVars
<1>2. Tree' = Tree /\ Args' = Args /\ Entries' = Entries /\ Results' = Results
      /\ WalkOf' = WalkOf /\ LoadOf' = LoadOf
  BY <1>1, SameTree
<1>3. FilterPackages(Tree, Args) \in Seq(ToSet(Tree.members))
  BY <1>1, FilterPackagesAre DEF WalkInv, WalkType
<1>4. WalkType'
  BY <1>1, <1>2, <1>3 DEF WalkInv, WalkType
<1> QED BY <1>1, <1>4 DEF WalkInv

\* A package starts with its targets.
LEMMA StartPackageKeeps ==
    ASSUME WalkInv, StartPackage
    PROVE  WalkInv' /\ pending' = Tops(Head(packages)) /\ Head(packages) \in ToSet(Tree.members)
<1>1. UNCHANGED <<inv, packages, level, next, inFlight, running, sent, results>>
      /\ stage = "package" /\ stage' = "level" /\ packages # <<>>
      /\ pending' = Tops(Head(packages))
  BY DEF StartPackage, Tops
<1>2. Tree' = Tree /\ Args' = Args /\ Entries' = Entries /\ Results' = Results
  BY <1>1, SameTree
<1>3. Head(packages) \in ToSet(Tree.members)
  <2>1. packages \in Seq(ToSet(Tree.members))
    BY DEF WalkInv, WalkType
  <2> QED BY <1>1, <2>1
<1>4. Tops(Head(packages)) \in Seq(Entries)
  BY <1>3, TopsType DEF WalkInv, WalkType
<1>5. WalkType'
  BY <1>1, <1>2, <1>4 DEF WalkInv, WalkType
<1> QED BY <1>1, <1>3, <1>5 DEF WalkInv

\* A package ends when its queue is empty.
LEMMA FinishPackageKeeps ==
    ASSUME WalkInv, FinishPackage
    PROVE  WalkInv'
<1>1. UNCHANGED <<inv, pending, level, next, inFlight, running, sent, results>>
      /\ stage = "level" /\ stage' = "package" /\ packages' = Tail(packages)
  BY DEF FinishPackage
<1>2. Tree' = Tree /\ Args' = Args /\ Entries' = Entries /\ Results' = Results
  BY <1>1, SameTree
<1>3. Tail(packages) \in Seq(ToSet(Tree.members))
  <2> DEFINE M == ToSet(Tree.members)
  <2>1. packages \in Seq(M)
    BY DEF WalkInv, WalkType
  <2> HIDE DEF M
  <2>2. CASE packages = <<>>
    <3>1. Tail(packages) = <<>> \/ packages # <<>>
      BY <2>2
    <3> QED BY <2>2, <3>1 DEF M
  <2>3. CASE packages # <<>>
    <3>1. Tail(packages) \in Seq(M)
      BY <2>1, <2>3
    <3> QED BY <3>1 DEF M
  <2> QED BY <2>2, <2>3
<1>4. WalkType'
  BY <1>1, <1>2, <1>3 DEF WalkInv, WalkType
<1> QED BY <1>1, <1>4 DEF WalkInv

\* A level starts with as many threads as the window has places.
LEMMA StartLevelKeeps ==
    ASSUME WalkInv, StartLevel
    PROVE  WalkInv'
<1>1. UNCHANGED <<inv, packages, sent>> /\ stage = "level" /\ stage' = "walking"
      /\ level' = pending /\ pending' = <<>> /\ inFlight' = Min({Parallelism, Len(pending)})
      /\ next' = inFlight' + 1 /\ running' = 1 .. inFlight'
      /\ results' = [i \in DOMAIN pending |-> Unset] /\ pending # <<>>
  BY DEF StartLevel
<1>2. Tree' = Tree /\ Args' = Args /\ Entries' = Entries /\ Results' = Results
      /\ WalkOf' = WalkOf /\ LoadOf' = LoadOf
  BY <1>1, SameTree
<1> DEFINE N == Len(pending)
           n == inFlight'
<1>3. pending \in Seq(Entries) /\ N \in Nat /\ sent = <<>> /\ running = {}
  BY <1>1 DEF WalkInv, WalkType
<1>4. n = IF Parallelism <= N THEN Parallelism ELSE N
  BY <1>1, <1>3, MinOf, DiscoveryAssumption
<1>5. n \in 0 .. N /\ n <= Parallelism /\ (n < Parallelism => n = N)
  BY <1>3, <1>4, DiscoveryAssumption
<1>6. results' \in Seq(Results) /\ Len(results') = N /\ \A i \in 1 .. N : results'[i] = Unset
  <2>1. Unset \in Results
    BY DEF Results
  <2> QED BY <1>1, <1>3, <2>1
<1>7. running' \in SUBSET Nat /\ IsFiniteSet(running') /\ Cardinality(running') = n
  <2>1. 1 \in Int /\ n \in Int
    BY <1>3, <1>5
  <2> HIDE DEF n
  <2>2. IsFiniteSet(1 .. n) /\ Cardinality(1 .. n) = IF 1 > n THEN 0 ELSE n - 1 + 1
    BY <2>1, FS_Interval
  <2>3. Cardinality(1 .. n) = n
    BY <1>3, <1>5, <2>2
  <2>4. running' = 1 .. n
    BY <1>1 DEF n
  <2> QED BY <1>3, <1>5, <2>2, <2>3, <2>4
<1>8. ToSet(sent) = {} /\ Distinct(sent) /\ Len(sent) = 0
  BY <1>3 DEF ToSet, Distinct
<1>9. <<>> \in Seq(Entries)
  OBVIOUS
<1>10. WalkType'
  BY <1>1, <1>2, <1>3, <1>6, <1>7, <1>9 DEF WalkInv, WalkType
<1>11. Window'
  <2>1. next' \in 1 .. N + 1 /\ next' - 1 = n
    BY <1>1, <1>3, <1>5
  <2>2. (running \cap ToSet(sent) = {})'
    BY <1>1, <1>8
  <2>3. Distinct(sent)'
    BY <1>1, <1>8
  <2>4. (running \cup ToSet(sent))' = {i \in 1 .. next' - 1 : results'[i] = Unset}
    <3>1. \A i \in 1 .. n : results'[i] = Unset
      BY <1>3, <1>5, <1>6
    <3>2. running' \cup ToSet(sent') = 1 .. n
      BY <1>1, <1>8
    <3> QED BY <2>1, <3>1, <3>2
  <2>5. \A i \in 1 .. N : results'[i] = Unset
    BY <1>6
  <2>6. \A i \in next' .. N : results'[i] = Unset
    BY <1>3, <2>1, <2>5
  <2>7. n = Cardinality(running') + Len(sent')
    BY <1>1, <1>5, <1>7, <1>8
  <2>8. n <= Parallelism /\ (n < Parallelism => next' = N + 1)
    BY <1>1, <1>5
  <2>9. Len(level') = N
    BY <1>1
  <2>10. (\A i \in 1 .. Len(level) : results[i] = Unset
                   \/ (results[i] = WalkOf[level[i]] /\ LoadOf[level[i]] # "panics"))'
    BY <2>5, <2>9
  <2> HIDE DEF N, n
  <2>11. (next \in 1 .. Len(level) + 1 /\ (\A i \in next .. Len(level) : results[i] = Unset))'
    BY <2>1, <2>6, <2>9
  <2>12. inFlight' = n
    BY DEF n
  <2> QED BY <2>2, <2>3, <2>4, <2>7, <2>8, <2>9, <2>10, <2>11, <2>12 DEF Window
<1> QED BY <1>10, <1>11 DEF WalkInv

\* A thread that ends moves to the channel.
LEMMA ThreadEndsKeeps ==
    ASSUME WalkInv, NEW i \in running, ThreadEnds(i)
    PROVE  WalkInv'
<1>1. UNCHANGED <<inv, stage, packages, pending, level, next, inFlight, results>>
      /\ running' = running \ {i} /\ sent' = Append(sent, i)
  BY DEF ThreadEnds
<1>2. Tree' = Tree /\ Args' = Args /\ Entries' = Entries /\ Results' = Results
      /\ WalkOf' = WalkOf /\ LoadOf' = LoadOf
  BY <1>1, SameTree
<1>3. running \in SUBSET Nat /\ IsFiniteSet(running) /\ sent \in Seq(Nat) /\ i \in Nat
      /\ stage \in {"walking", "unwinding"}
  BY DEF WalkInv, WalkType
<1>4. running' \in SUBSET Nat /\ IsFiniteSet(running') /\ Cardinality(running') = Cardinality(running) - 1
      /\ Cardinality(running) \in Nat
  BY <1>1, <1>3, FS_RemoveElement, FS_CardinalityType
<1>5. sent' \in Seq(Nat) /\ Len(sent') = Len(sent) + 1 /\ Len(sent) \in Nat
  BY <1>1, <1>3
<1>6. ToSet(sent') = ToSet(sent) \cup {i}
  BY <1>1, <1>3, AppendItems
<1>7. WalkType'
  BY <1>1, <1>2, <1>3, <1>4, <1>5 DEF WalkInv, WalkType
<1>8. ASSUME Window PROVE Window'
  <2>1. i \notin ToSet(sent) /\ running \cap ToSet(sent) = {} /\ Distinct(sent)
    BY <1>8 DEF Window
  <2>2. running' \cap ToSet(sent') = {} /\ running' \cup ToSet(sent') = running \cup ToSet(sent)
    BY <1>1, <1>6, <2>1
  <2>3. Distinct(sent')
    <3>1. DOMAIN sent' = DOMAIN sent \cup {Len(sent) + 1} /\ sent'[Len(sent) + 1] = i
          /\ (\A j \in DOMAIN sent : sent'[j] = sent[j])
      BY <1>1, <1>3
    <3>2. \A j \in DOMAIN sent : sent[j] # i
      BY <2>1 DEF ToSet
    <3> QED BY <2>1, <3>1, <3>2 DEF Distinct
  <2>4. inFlight = Cardinality(running') + Len(sent')
    BY <1>3, <1>4, <1>5, <1>8 DEF Window
  <2>5. (running \cap ToSet(sent))' = {} /\ Distinct(sent)'
    BY <2>2, <2>3
  <2> QED BY <1>1, <1>2, <1>8, <2>2, <2>3, <2>4, <2>5 DEF Window
<1> QED BY <1>1, <1>7, <1>8 DEF WalkInv

\* One thread is heard of, and the next file gets another.
LEMMA ReceiveKeeps ==
    ASSUME WalkInv, Receive
    PROVE  WalkInv'
<1> DEFINE h == Head(sent)
           N == Len(level)
<1>1. UNCHANGED <<inv, packages, pending, level>> /\ stage = "walking" /\ sent # <<>>
      /\ sent' = Tail(sent) /\ results' = [results EXCEPT ![h] = Walk(level[h])]
  BY DEF Receive, Placed
<1>2. IF Walk(level[h]).is = "panics"
      THEN stage' = "unwinding" /\ UNCHANGED <<next, inFlight, running>>
      ELSE Refill /\ UNCHANGED stage
  BY DEF Receive
<1>3. Tree' = Tree /\ Args' = Args /\ Entries' = Entries /\ Results' = Results
      /\ WalkOf' = WalkOf /\ LoadOf' = LoadOf
  BY <1>1, SameTree
<1>4. Window /\ running \in SUBSET Nat /\ IsFiniteSet(running) /\ sent \in Seq(Nat)
      /\ inv \in Invocations /\ level \in Seq(Entries) /\ results \in Seq(Results)
      /\ Len(results) = N /\ N \in Nat
  BY <1>1 DEF WalkInv, WalkType
<1>5. /\ Tail(sent) \in Seq(Nat) /\ Distinct(Tail(sent)) /\ Len(Tail(sent)) = Len(sent) - 1
      /\ h \in ToSet(sent) /\ ToSet(Tail(sent)) = ToSet(sent) \ {h}
  BY <1>1, <1>4, DistinctTail DEF Window
<1>6. next \in 1 .. N + 1 /\ h \in 1 .. next - 1 /\ results[h] = Unset /\ h \in 1 .. N
  <2>1. next \in 1 .. N + 1 /\ h \in {i \in 1 .. next - 1 : results[i] = Unset}
    BY <1>4, <1>5 DEF Window
  <2> QED BY <1>4, <2>1
<1>7. Walk(level[h]) = WalkOf[level[h]] /\ level[h] \in Entries
      /\ Walk(level[h]).is = LoadOf[level[h]] /\ Walk(level[h]) # Unset
      /\ Walk(level[h]) \in Results
  <2>1. level[h] \in Entries
    BY <1>4, <1>6
  <2>2. Walk(level[h]) = [is |-> Load(level[h]), entry |-> level[h]] /\ Walk(level[h]) # Unset
    BY <1>4, <2>1, EntryIs
  <2> QED BY <2>1, <2>2 DEF WalkOf, LoadOf, Results
<1>8. results' \in Seq(Results) /\ Len(results') = N /\ results'[h] = WalkOf[level[h]]
      /\ \A i \in 1 .. N : i # h => results'[i] = results[i]
  <2> DEFINE x == Walk(level[h])
  <2> HIDE DEF x
  <2>1. results' = [results EXCEPT ![h] = x] /\ x \in Results /\ x = WalkOf[level[h]]
    BY <1>1, <1>7 DEF x
  <2> QED BY <1>4, <1>6, <2>1
<1>9. results'[h] # Unset
  BY <1>7, <1>8
<1> HIDE DEF h
<1>10. CASE Walk(level[h]).is = "panics"
  <2>1. WalkType' /\ stage' = "unwinding"
    BY <1>1, <1>2, <1>3, <1>4, <1>5, <1>8, <1>10 DEF WalkInv, WalkType
  <2> QED BY <2>1 DEF WalkInv
<1>11. CASE Walk(level[h]).is # "panics"
  <2>1. Refill /\ stage' = stage
    BY <1>2, <1>11
  <2>2. ToSet(sent') = ToSet(sent) \ {h} /\ Distinct(sent') /\ Len(sent') = Len(sent) - 1
        /\ sent' \in Seq(Nat)
    BY <1>1, <1>5
  <2>3. running \cup ToSet(sent) = {i \in 1 .. next - 1 : results[i] = Unset}
        /\ running \cap ToSet(sent) = {} /\ (\A i \in next .. N : results[i] = Unset)
        /\ inFlight = Cardinality(running) + Len(sent) /\ inFlight <= Parallelism
        /\ (inFlight < Parallelism => next = N + 1)
    BY <1>4 DEF Window
  <2>4. Cardinality(running) \in Nat /\ Len(sent) \in Nat /\ Len(sent) # 0 /\ Parallelism \in Nat
    BY <1>1, <1>4, FS_CardinalityType, DiscoveryAssumption
  <2>5. running \cup ToSet(sent') = {i \in 1 .. next - 1 : results'[i] = Unset}
    <3>1. (running \cup ToSet(sent)) \ {h} = running \cup ToSet(sent')
      BY <1>5, <2>2, <2>3
    <3>2. \A i \in 1 .. next - 1 : i \in 1 .. N
      BY <1>6
    <3>3. \A i \in 1 .. next - 1 : results'[i] = Unset <=> (results[i] = Unset /\ i # h)
      BY <1>8, <1>9, <3>2
    <3> QED BY <2>3, <3>1, <3>3
  <2>6. \A i \in next .. N : results'[i] = Unset
    <3>1. \A i \in next .. N : i # h /\ i \in 1 .. N
      BY <1>6
    <3> QED BY <1>8, <2>3, <3>1
  <2>7. \A i \in 1 .. N : \/ results'[i] = Unset
                          \/ results'[i] = WalkOf[level[i]] /\ LoadOf[level[i]] # "panics"
    <3>1. \A i \in 1 .. N : \/ results[i] = Unset
                            \/ results[i] = WalkOf[level[i]] /\ LoadOf[level[i]] # "panics"
      BY <1>4 DEF Window
    <3> QED BY <1>7, <1>8, <1>11, <3>1
  <2>8. CASE next <= N
    <3>1. running' = running \cup {next} /\ next' = next + 1 /\ inFlight' = inFlight
      BY <2>1, <2>8 DEF Refill
    <3>2. next \notin running /\ next \notin ToSet(sent)
      <4>1. next \notin {i \in 1 .. next - 1 : results[i] = Unset}
        BY <1>6
      <4> QED BY <2>3, <4>1
    <3>3. running' \in SUBSET Nat /\ IsFiniteSet(running')
          /\ Cardinality(running') = Cardinality(running) + 1
      BY <1>4, <1>6, <3>1, <3>2, FS_AddElement
    <3>4. running' \cap ToSet(sent') = {}
      BY <2>2, <2>3, <3>1, <3>2
    <3>5. running' \cup ToSet(sent') = {i \in 1 .. next' - 1 : results'[i] = Unset}
      <4>1. next' - 1 = next /\ 1 .. next = (1 .. next - 1) \cup {next}
        BY <1>6, <3>1
      <4>2. results'[next] = Unset
        BY <1>6, <2>6, <2>8
      <4> HIDE DEF N
      <4> QED BY <2>5, <3>1, <4>1, <4>2
    <3>6. next' \in 1 .. N + 1 /\ \A i \in next' .. N : results'[i] = Unset
      BY <1>6, <2>6, <2>8, <3>1
    <3>7. inFlight' = Cardinality(running') + Len(sent') /\ inFlight' <= Parallelism
          /\ (inFlight' < Parallelism => next' = N + 1)
      <4>1. Cardinality(running') + Len(sent') = Cardinality(running) + Len(sent)
        <5> DEFINE a == Cardinality(running)
                   b == Len(sent)
        <5>1. Cardinality(running') = a + 1 /\ Len(sent') = b - 1 /\ a \in Nat /\ b \in Nat
          BY <2>2, <2>4, <3>3
        <5> HIDE DEF a, b
        <5>2. Cardinality(running') + Len(sent') = a + b
          BY <5>1
        <5> QED BY <5>2 DEF a, b
      <4>2. next # N + 1
        <5> HIDE DEF N
        <5> QED BY <1>4, <1>6, <2>8
      <4> QED BY <2>3, <3>1, <4>1, <4>2
    <3>8. level' = level /\ WalkOf' = WalkOf /\ LoadOf' = LoadOf
      BY <1>1, <1>3
    <3>9. Window'
      BY <2>2, <2>7, <3>4, <3>5, <3>6, <3>7, <3>8 DEF Window
    <3>10. WalkType'
      BY <1>1, <1>3, <1>8, <2>1, <2>2, <3>3 DEF WalkInv, WalkType
    <3> QED BY <3>9, <3>10 DEF WalkInv
  <2>9. CASE ~(next <= N)
    <3>1. running' = running /\ next' = next /\ inFlight' = inFlight - 1
      BY <2>1, <2>9 DEF Refill
    <3>2. next = N + 1
      BY <1>4, <1>6, <2>9
    <3>3. running' \cap ToSet(sent') = {}
      BY <2>2, <2>3, <3>1
    <3>4. inFlight' = Cardinality(running') + Len(sent') /\ inFlight' <= Parallelism
          /\ (inFlight' < Parallelism => next' = N + 1)
      BY <2>2, <2>3, <2>4, <3>1, <3>2
    <3>5. level' = level /\ WalkOf' = WalkOf /\ LoadOf' = LoadOf
      BY <1>1, <1>3
    <3>6. Window'
      BY <1>6, <2>2, <2>5, <2>6, <2>7, <3>1, <3>3, <3>4, <3>5 DEF Window
    <3>7. WalkType'
      BY <1>1, <1>3, <1>4, <1>8, <2>1, <2>2, <3>1 DEF WalkInv, WalkType
    <3> QED BY <3>6, <3>7 DEF WalkInv
  <2> QED BY <2>8, <2>9
<1> QED BY <1>10, <1>11

\* No thread is left when a level ends, and every file of it has its result.
LEMMA LevelDone ==
    ASSUME WalkInv, EndLevel
    PROVE  /\ results = Map(WalkOf, level) /\ running = {} /\ sent = <<>>
           /\ \A i \in DOMAIN level : Load(level[i]) # "panics"
<1>1. stage = "walking" /\ inFlight = 0
  BY DEF EndLevel
<1>2. Window /\ level \in Seq(Entries) /\ results \in Seq(Results) /\ Len(results) = Len(level)
      /\ running \in SUBSET Nat /\ IsFiniteSet(running) /\ sent \in Seq(Nat)
  BY <1>1 DEF WalkInv, WalkType
<1>3. Cardinality(running) = 0 /\ Len(sent) = 0
  BY <1>1, WindowCount DEF Window, WalkInv
<1>4. running = {} /\ sent = <<>>
  BY <1>2, <1>3, FS_EmptySet
<1>5. next = Len(level) + 1
  <2>1. Parallelism \in Nat \ {0}
    BY DiscoveryAssumption
  <2> QED BY <1>1, <1>2, <2>1 DEF Window
<1>6. {i \in 1 .. next - 1 : results[i] = Unset} = {}
  BY <1>2, <1>4 DEF Window, ToSet
<1>7. \A i \in 1 .. Len(level) : results[i] = WalkOf[level[i]] /\ LoadOf[level[i]] # "panics"
  BY <1>2, <1>5, <1>6 DEF Window
<1>8. results = Map(WalkOf, level)
  BY <1>2, <1>7 DEF Map
<1>9. \A i \in DOMAIN level : Load(level[i]) # "panics"
  <2>1. \A i \in DOMAIN level : level[i] \in Entries /\ LoadOf[level[i]] # "panics"
    BY <1>2, <1>7
  <2>2. \A e \in Entries : LoadOf[e] = Load(e)
    BY DEF LoadOf
  <2> QED BY <2>1, <2>2
<1> QED BY <1>4, <1>8, <1>9

\* A level ends with no thread left.
LEMMA EndLevelKeeps ==
    ASSUME WalkInv, EndLevel
    PROVE  WalkInv'
<1>1. UNCHANGED <<inv, packages, next, inFlight, running, sent>> /\ level' = <<>> /\ results' = <<>>
      /\ stage = "walking" /\ (\/ stage' = "ended" /\ pending' = pending
                               \/ stage' = "level" /\ pending' = NextLevel)
  BY DEF EndLevel, End
<1>2. Tree' = Tree /\ Args' = Args /\ Entries' = Entries /\ Results' = Results
  BY <1>1, SameTree
<1>3. running = {} /\ sent = <<>> /\ results = Map(WalkOf, level)
  BY LevelDone
<1>4. inv \in Invocations /\ level \in Seq(Entries) /\ pending \in Seq(Entries)
  BY DEF WalkInv, WalkType
<1>5. NextLevel \in Seq(Entries)
  BY <1>3, <1>4, LevelResults, NextOfType
<1> DEFINE none == <<>>
<1>6. none \in Seq(Entries) /\ none \in Seq(Results) /\ Len(none) = 0
  OBVIOUS
<1> HIDE DEF none
<1>7. level' = none /\ results' = none
  BY <1>1 DEF none
<1>8. WalkType'
  BY <1>1, <1>2, <1>3, <1>4, <1>5, <1>6, <1>7 DEF WalkInv, WalkType
<1> QED BY <1>1, <1>8 DEF WalkInv

\* Each step keeps the invariant of the walk.
LEMMA WalkKept ==
    ASSUME WalkInv, [Next]_vars
    PROVE  WalkInv'
<1> USE DEF WalkInv, WalkType
<1>1. CASE Answer
  BY <1>1, WalkStays DEF Answer, End
<1>2. CASE OpenWorkspace
  BY <1>2, OpenWorkspaceKeeps
<1>3. CASE StartPackage
  BY <1>3, StartPackageKeeps
<1>4. CASE FinishPackage
  BY <1>4, FinishPackageKeeps
<1>5. CASE StopLevel
  BY <1>5, WalkStays DEF StopLevel, End
<1>6. CASE StartLevel
  BY <1>6, StartLevelKeeps
<1>7. CASE Receive
  BY <1>7, ReceiveKeeps
<1>8. CASE Unwind
  BY <1>8, WalkStays DEF Unwind, End
<1>9. CASE EndLevel
  BY <1>9, EndLevelKeeps
<1>10. CASE Iterate
  BY <1>10, WalkStays DEF Iterate
<1>11. CASE ListFiles
  <2>1. stage' \in {"ended", "diff"} /\ stage = "files" /\ UNCHANGED <<inv, walkVars>>
    BY <1>11 DEF ListFiles, End
  <2> QED BY <2>1, WalkStays
<1>12. CASE FilterDiff
  <2>1. stage' \in {"ended", "shard"} /\ stage = "diff" /\ UNCHANGED <<inv, walkVars>>
    BY <1>12 DEF FilterDiff, End
  <2> QED BY <2>1, WalkStays
<1>13. CASE ListOrTest
  <2>1. stage' = "ended" /\ stage = "shard" /\ UNCHANGED <<inv, walkVars>>
    BY <1>13 DEF ListOrTest, End
  <2> QED BY <2>1, WalkStays
<1>14. ASSUME NEW i \in running, ThreadEnds(i) PROVE WalkInv'
  BY <1>14, ThreadEndsKeeps
<1>15. CASE Interrupt \/ Terminated \/ UNCHANGED vars
  <2>1. UNCHANGED <<inv, walkVars, stage>>
    BY <1>15 DEF Interrupt, Terminated, vars, walkVars
  <2> QED BY <2>1, WalkStays
<1> QED BY <1>1, <1>2, <1>3, <1>4, <1>5, <1>6, <1>7, <1>8, <1>9, <1>10, <1>11, <1>12, <1>13,
           <1>14, <1>15 DEF Next, Main

\* walk_files keeps account of a level: every file before next has a result, a
\* thread or a message in the channel, and every result is that of its own file.
THEOREM WalkSafe == Spec => []WalkInv
BY WalkInit, WalkKept, PTL DEF Spec

\* walk_files keeps the window full: until a level runs out, as many threads work
\* or have just reported as the machine runs at once (src/visit.rs:186).
THEOREM WindowTheorem == Spec => []WindowIsFull
BY WalkSafe, WindowFull, PTL

-----------------------------------------------------------------------------
(* A serial walk *)

\* A function whose value is given for some arguments, and for the others is that
\* for a next argument.
Unfolds(g, D, T, result, step) ==
    g = [a \in D |-> IF a \in T THEN result[a] ELSE g[step[a]]]

\* There is such a function, whether or not the arguments that follow each other
\* come to an end: the values of the least relation that is closed under the two
\* rules, and one value for the arguments that it leaves out.
LEMMA Unfolding ==
    ASSUME NEW D, NEW T \in SUBSET D, NEW V, NEW result \in [T -> V], NEW step \in [D \ T -> D]
    PROVE  \E g : Unfolds(g, D, T, result, step)
<1> DEFINE Closed(X) == /\ \A a \in T : <<a, result[a]>> \in X
                        /\ \A a \in D \ T : \A v \in V : <<step[a], v>> \in X => <<a, v>> \in X
           All == SUBSET (D \X V)
           S(a) == {v \in V : \A X \in All : Closed(X) => <<a, v>> \in X}
           g == [a \in D |-> CHOOSE v \in S(a) : TRUE]
<1>1. ASSUME NEW a \in D \ T, NEW v \in S(step[a]) PROVE v \in S(a)
  BY <1>1
<1>2. ASSUME NEW a \in T PROVE result[a] \in S(a)
  BY <1>2
<1>3. ASSUME NEW a \in T, NEW v \in S(a) PROVE v = result[a]
  <2> DEFINE X == {p \in D \X V : p[1] \in T => p[2] = result[p[1]]}
  <2>1. X \in All
    OBVIOUS
  <2>2. Closed(X)
    <3>1. ASSUME NEW b \in T PROVE <<b, result[b]>> \in X
      OBVIOUS
    <3>2. ASSUME NEW b \in D \ T, NEW w \in V PROVE <<b, w>> \in X
      OBVIOUS
    <3> HIDE DEF X
    <3> QED BY <3>1, <3>2
  <2>3. <<a, v>> \in X
    <3> HIDE DEF X, Closed, All
    <3> QED BY <1>3, <2>1, <2>2
  <2> QED BY <1>3, <2>3
<1>4. ASSUME NEW a \in D \ T, NEW v \in S(a) PROVE v \in S(step[a])
  <2> DEFINE X == {p \in D \X V : p[2] \in S(p[1]) /\ (p[1] \notin T => p[2] \in S(step[p[1]]))}
  <2>1. X \in All
    OBVIOUS
  <2> HIDE DEF S
  <2>2. Closed(X)
    <3>1. ASSUME NEW b \in T PROVE <<b, result[b]>> \in X
      BY <1>2
    <3>2. ASSUME NEW b \in D \ T, NEW w \in V, <<step[b], w>> \in X PROVE <<b, w>> \in X
      <4>1. step[b] \in D /\ w \in S(step[b])
        BY <3>2
      <4>2. w \in S(b)
        BY <1>1, <4>1
      <4> QED BY <4>1, <4>2
    <3> HIDE DEF X
    <3> QED BY <3>1, <3>2
  <2>3. <<a, v>> \in X
    <3> HIDE DEF X, Closed, All
    <3> USE DEF S
    <3> QED BY <1>4, <2>1, <2>2
  <2> QED BY <1>4, <2>3
<1> HIDE DEF S
<1>5. ASSUME NEW a \in T PROVE g[a] = result[a]
  <2>1. S(a) = {result[a]}
    BY <1>2, <1>3
  <2> QED BY <2>1
<1>6. ASSUME NEW a \in D \ T PROVE g[a] = g[step[a]]
  <2>1. S(a) = S(step[a])
    BY <1>1, <1>4
  <2>2. step[a] \in D
    OBVIOUS
  <2> QED BY <2>1, <2>2
<1>7. g = [a \in D |-> g[a]]
  OBVIOUS
<1> HIDE DEF g
<1>8. g = [a \in D |-> IF a \in T THEN result[a] ELSE g[step[a]]]
  BY <1>5, <1>6, <1>7
<1> QED BY <1>8 DEF Unfolds

Answers == {[is |-> "ok", value |-> d] : d \in Seq(Paths)}
             \cup {[is |-> l, value |-> p] : l \in Loads, p \in Paths}

WalkOn(queue, done) ==
    IF queue = <<>> THEN [is |-> "ok", value |-> done]
    ELSE IF Load(Head(queue)) = "ok"
    THEN SerialWalk[<<Tail(queue) \o Declared[Head(queue)], Append(done, Head(queue).path)>>]
    ELSE IF Load(Head(queue)) = "outside" THEN SerialWalk[<<Tail(queue), done>>]
    ELSE [is |-> Load(Head(queue)), value |-> Head(queue).path]

\* The serial walk unfolds one entry at a time, whether or not it ends.
LEMMA SerialWalkIs ==
    ASSUME inv \in Invocations
    PROVE  \A queue \in Seq(Entries), done \in Seq(Paths) :
              SerialWalk[<<queue, done>>] = WalkOn(queue, done)
<1> DEFINE Q == Seq(Entries)
           P == Seq(Paths)
           D == Q \X P
           Goes(w) == w[1] # <<>> /\ Load(Head(w[1])) \in {"ok", "outside"}
           T == {w \in D : ~Goes(w)}
           result == [w \in T |-> IF w[1] = <<>> THEN [is |-> "ok", value |-> w[2]]
                                  ELSE [is |-> Load(Head(w[1])), value |-> Head(w[1]).path]]
           step == [w \in D \ T |->
                      IF Load(Head(w[1])) = "ok"
                      THEN <<Tail(w[1]) \o Declared[Head(w[1])], Append(w[2], Head(w[1]).path)>>
                      ELSE <<Tail(w[1]), w[2]>>]
           Dec(e) == LET found == ModSources(Tree, e)
                     IN  [j \in DOMAIN found |-> [path |-> found[j], is_top |-> FALSE]]
           body(g) == [w \in D |->
                IF w[1] = <<>> THEN [is |-> "ok", value |-> w[2]]
                ELSE CASE Load(Head(w[1])) = "ok" ->
                            g[<<Tail(w[1]) \o Dec(Head(w[1])), Append(w[2], Head(w[1]).path)>>]
                       [] Load(Head(w[1])) = "outside" -> g[<<Tail(w[1]), w[2]>>]
                       [] OTHER -> [is |-> Load(Head(w[1])), value |-> Head(w[1]).path]]
<1>1. \A e \in Entries : Declared[e] = Dec(e)
  BY DEF Declared
<1>2. \A w \in D : w[1] \in Q /\ w[2] \in P /\ w = <<w[1], w[2]>>
  OBVIOUS
<1>3. \A q \in Q : q # <<>> => Head(q) \in Entries /\ Tail(q) \in Q
  OBVIOUS
<1>4. \A e \in Entries : e.path \in Paths /\ Load(e) \in Loads /\ Declared[e] \in Q
  BY EntryIs, EntrySets
<1>5. \A q, r \in Q : q \o r \in Q
  OBVIOUS
<1>6. \A d \in P : \A p \in Paths : Append(d, p) \in P
  OBVIOUS
<1> HIDE DEF Q, P, Dec
<1>7. result \in [T -> Answers]
  <2> SUFFICES ASSUME NEW w \in T
               PROVE  (IF w[1] = <<>> THEN [is |-> "ok", value |-> w[2]]
                       ELSE [is |-> Load(Head(w[1])), value |-> Head(w[1]).path]) \in Answers
    OBVIOUS
  <2>1. w \in D
    OBVIOUS
  <2> HIDE DEF D
  <2> QED BY <1>2, <1>3, <1>4, <2>1 DEF Answers, P
<1>8. step \in [D \ T -> D]
  <2> SUFFICES ASSUME NEW w \in D \ T
               PROVE  (IF Load(Head(w[1])) = "ok"
                       THEN <<Tail(w[1]) \o Declared[Head(w[1])], Append(w[2], Head(w[1]).path)>>
                       ELSE <<Tail(w[1]), w[2]>>) \in D
    OBVIOUS
  <2>1. w[1] \in Q /\ w[2] \in P /\ w[1] # <<>>
    BY <1>2
  <2>2. Head(w[1]) \in Entries /\ Tail(w[1]) \in Q
    BY <1>3, <2>1
  <2>3. Tail(w[1]) \o Declared[Head(w[1])] \in Q /\ Append(w[2], Head(w[1]).path) \in P
    BY <1>4, <1>5, <1>6, <2>1, <2>2
  <2> QED BY <2>1, <2>2, <2>3
<1> HIDE DEF result, step
<1>9. PICK g : Unfolds(g, D, T, result, step)
  <2>1. T \in SUBSET D
    OBVIOUS
  <2> HIDE DEF T, D
  <2> QED BY <1>7, <1>8, <2>1, Unfolding
<1>10. g = [w \in D |-> IF w \in T THEN result[w] ELSE g[step[w]]]
  BY <1>9 DEF Unfolds
<1>11. ASSUME NEW w \in D PROVE g[w] = body(g)[w]
  <2>1. w[1] \in Q /\ w[2] \in P
    BY <1>2
  <2>2. CASE w[1] = <<>>
    BY <1>10, <2>2 DEF result
  <2>3. CASE w[1] # <<>>
    <3>1. Head(w[1]) \in Entries
      BY <1>3, <2>1, <2>3
    <3>2. CASE Load(Head(w[1])) = "ok"
      <4>1. w \in D \ T
        BY <2>3, <3>2
      <4>2. g[w] = g[step[w]]
        BY <1>10, <4>1
      <4>3. step[w] = <<Tail(w[1]) \o Dec(Head(w[1])), Append(w[2], Head(w[1]).path)>>
        BY <1>1, <3>1, <3>2, <4>1 DEF step
      <4>4. body(g)[w] = g[<<Tail(w[1]) \o Dec(Head(w[1])), Append(w[2], Head(w[1]).path)>>]
        BY <2>3, <3>2
      <4> QED BY <4>2, <4>3, <4>4
    <3>3. CASE Load(Head(w[1])) = "outside"
      <4>1. w \in D \ T
        BY <2>3, <3>3
      <4>2. g[w] = g[step[w]]
        BY <1>10, <4>1
      <4>3. step[w] = <<Tail(w[1]), w[2]>>
        BY <3>3, <4>1 DEF step
      <4>4. body(g)[w] = g[<<Tail(w[1]), w[2]>>]
        BY <2>3, <3>3
      <4> QED BY <4>2, <4>3, <4>4
    <3>4. CASE Load(Head(w[1])) \notin {"ok", "outside"}
      <4>1. w \in T
        BY <3>4
      <4>2. g[w] = [is |-> Load(Head(w[1])), value |-> Head(w[1]).path]
        BY <1>10, <2>3, <4>1 DEF result
      <4>3. body(g)[w] = [is |-> Load(Head(w[1])), value |-> Head(w[1]).path]
        BY <2>3, <3>4
      <4> QED BY <4>2, <4>3
    <3> QED BY <3>2, <3>3, <3>4
  <2> QED BY <2>2, <2>3
<1>12. g = body(g)
  <2>1. g = [w \in D |-> g[w]]
    BY <1>10
  <2>2. body(g) = [w \in D |-> body(g)[w]]
    OBVIOUS
  <2> HIDE DEF body, D
  <2> QED BY <1>11, <2>1, <2>2
<1>13. SerialWalk = CHOOSE h : h = body(h)
  BY DEF SerialWalk, Q, P, Dec
<1>14. SerialWalk = body(SerialWalk)
  <2> HIDE DEF body
  <2> QED BY <1>12, <1>13
<1>15. ASSUME NEW queue \in Q, NEW done \in P
       PROVE  SerialWalk[<<queue, done>>] = WalkOn(queue, done)
  <2>1. <<queue, done>> \in D /\ <<queue, done>>[1] = queue /\ <<queue, done>>[2] = done
    OBVIOUS
  <2>2. SerialWalk[<<queue, done>>] = body(SerialWalk)[<<queue, done>>]
    <3> HIDE DEF body
    <3> QED BY <1>14
  <2>3. queue # <<>> => Head(queue) \in Entries
    BY <1>3
  <2> DEFINE e == Head(queue)
  <2>4. body(SerialWalk)[<<queue, done>>] =
           IF queue = <<>> THEN [is |-> "ok", value |-> done]
           ELSE CASE Load(e) = "ok" -> SerialWalk[<<Tail(queue) \o Dec(e), Append(done, e.path)>>]
                  [] Load(e) = "outside" -> SerialWalk[<<Tail(queue), done>>]
                  [] OTHER -> [is |-> Load(e), value |-> e.path]
    BY <2>1
  <2>5. queue # <<>> => Dec(e) = Declared[e]
    BY <1>1, <2>3
  <2> HIDE DEF e, body
  <2>6. WalkOn(queue, done) =
           IF queue = <<>> THEN [is |-> "ok", value |-> done]
           ELSE IF Load(e) = "ok" THEN SerialWalk[<<Tail(queue) \o Declared[e], Append(done, e.path)>>]
           ELSE IF Load(e) = "outside" THEN SerialWalk[<<Tail(queue), done>>]
           ELSE [is |-> Load(e), value |-> e.path]
    BY DEF WalkOn, e
  <2>7. CASE queue = <<>>
    BY <2>2, <2>4, <2>6, <2>7
  <2>8. CASE queue # <<>> /\ Load(e) = "ok"
    BY <2>2, <2>4, <2>5, <2>6, <2>8
  <2>9. CASE queue # <<>> /\ Load(e) = "outside"
    BY <2>2, <2>4, <2>6, <2>9
  <2>10. CASE queue # <<>> /\ Load(e) \notin {"ok", "outside"}
    BY <2>2, <2>4, <2>6, <2>10
  <2> QED BY <2>7, <2>8, <2>9, <2>10
<1> QED BY <1>15 DEF Q, P

Associates(s, t, x) == Append(s \o t, x) = s \o Append(t, x)

\* An item appended to a concatenation.
LEMMA AppendConcat ==
    ASSUME NEW A, NEW s \in Seq(A), NEW t \in Seq(A), NEW x \in A
    PROVE  Associates(s, t, x)
BY DEF Associates

\* A map of a concatenation.
LEMMA MapConcat ==
    ASSUME NEW A, NEW f, NEW s \in Seq(A), NEW t \in Seq(A)
    PROVE  Map(f, s \o t) = Map(f, s) \o Map(f, t)
<1> DEFINE P == {u \in Seq(A) : Map(f, s \o u) = Map(f, s) \o Map(f, u)}
           B == {f[x] : x \in A}
           m == Map(f, s)
<1>1. \A u \in Seq(A) : Map(f, u) \in Seq(B)
  BY DEF Map
<1>2. m \in Seq(B)
  BY <1>1
<1> HIDE DEF m
<1>3. <<>> \in P
  <2> DEFINE none == <<>>
  <2>1. none \in Seq(A) /\ s \o none = s /\ Map(f, none) = none /\ m \o none = m
    BY <1>2 DEF Map
  <2> HIDE DEF none
  <2>2. none \in P
    BY <2>1 DEF m
  <2> QED BY <2>2 DEF none
<1>4. \A u \in Seq(A) : \A x \in A : u \in P => Append(u, x) \in P
  <2> SUFFICES ASSUME NEW u \in Seq(A), NEW x \in A, u \in P
               PROVE  Map(f, s \o Append(u, x)) = m \o Map(f, Append(u, x))
    <3>1. \A u \in Seq(A) : \A x \in A : Append(u, x) \in Seq(A)
      OBVIOUS
    <3> QED BY <3>1 DEF m
  <2> DEFINE v == s \o u
             w == Map(f, u)
             y == f[x]
  <2>1. v \in Seq(A) /\ s \o Append(u, x) = Append(v, x)
    BY AppendConcat DEF Associates
  <2>2. w \in Seq(B) /\ y \in B
    BY <1>1
  <2>3. Map(f, v) = m \o w
    BY DEF m
  <2>4. Map(f, Append(u, x)) = Append(w, y)
    BY MapAppend
  <2> HIDE DEF v, w, y, B
  <2>5. Map(f, Append(v, x)) = Append(Map(f, v), y)
    BY <2>1, MapAppend DEF y
  <2>6. Append(m \o w, y) = m \o Append(w, y)
    <3>1. Associates(m, w, y)
      BY <1>2, <2>2, AppendConcat
    <3> QED BY <3>1 DEF Associates
  <2> QED BY <2>1, <2>3, <2>4, <2>5, <2>6
<1> HIDE DEF P
<1>5. t \in P
  BY <1>3, <1>4, SeqInduction
<1> QED BY <1>5 DEF P, m

\* A sequence cut before its k-th item.
LEMMA Split ==
    ASSUME NEW A, NEW s \in Seq(A), NEW k \in DOMAIN s
    PROVE  /\ SubSeq(s, 1, k - 1) \in Seq(A) /\ Len(SubSeq(s, 1, k - 1)) = k - 1
           /\ \A i \in 1 .. k - 1 : SubSeq(s, 1, k - 1)[i] = s[i]
           /\ SubSeq(s, k, Len(s)) \in Seq(A) /\ SubSeq(s, k, Len(s)) # <<>>
           /\ Head(SubSeq(s, k, Len(s))) = s[k]
           /\ s = SubSeq(s, 1, k - 1) \o SubSeq(s, k, Len(s))
<1> DEFINE u == SubSeq(s, 1, k - 1)
           v == SubSeq(s, k, Len(s))
<1>1. Len(s) \in Nat /\ k \in 1 .. Len(s)
  OBVIOUS
<1>2. u \in Seq(A) /\ Len(u) = k - 1 /\ \A i \in 1 .. k - 1 : u[i] = s[i]
  BY <1>1
<1>3. v \in Seq(A) /\ Len(v) = Len(s) - k + 1 /\ \A i \in 1 .. Len(s) - k + 1 : v[i] = s[k + i - 1]
  BY <1>1
<1> HIDE DEF u, v
<1>4. v # <<>> /\ Head(v) = s[k]
  <2>1. 1 \in 1 .. Len(s) - k + 1 /\ k + 1 - 1 = k
    BY <1>1
  <2>2. v[1] = s[k]
    BY <1>3, <2>1
  <2>3. Len(v) # 0
    BY <1>1, <1>3
  <2> QED BY <1>3, <2>2, <2>3
<1>5. u \o v \in Seq(A) /\ Len(u \o v) = Len(s)
  BY <1>1, <1>2, <1>3
<1>6. \A i \in 1 .. Len(s) : (u \o v)[i] = s[i]
  <2> SUFFICES ASSUME NEW i \in 1 .. Len(s) PROVE (u \o v)[i] = s[i]
    OBVIOUS
  <2>1. CASE i <= k - 1
    <3>1. i \in 1 .. k - 1
      BY <1>1, <2>1
    <3>2. (u \o v)[i] = u[i]
      BY <1>2, <1>3, <3>1
    <3> QED BY <1>2, <3>1, <3>2
  <2>2. CASE ~(i <= k - 1)
    <3>1. i - (k - 1) \in 1 .. Len(s) - k + 1 /\ k + (i - (k - 1)) - 1 = i
      BY <1>1, <2>2
    <3>2. (u \o v)[i] = v[i - Len(u)]
      <4>1. i \in 1 .. Len(u) + Len(v) /\ ~(i <= Len(u)) /\ Len(u) \in Nat /\ Len(v) \in Nat
        BY <1>1, <1>2, <1>3, <2>2
      <4>2. u \in Seq(A) /\ v \in Seq(A)
        BY <1>2, <1>3
      <4> QED BY <4>1, <4>2
    <3> QED BY <1>2, <1>3, <3>1, <3>2
  <2> QED BY <2>1, <2>2
<1>7. u \o v = s
  <2> DEFINE w == u \o v
  <2> HIDE DEF w
  <2>1. w \in Seq(A) /\ Len(w) = Len(s) /\ \A i \in 1 .. Len(s) : w[i] = s[i]
    BY <1>5, <1>6 DEF w
  <2>2. w = s
    BY <2>1
  <2> QED BY <2>2 DEF w
<1> QED BY <1>2, <1>3, <1>4, <1>7 DEF u, v

\* The entries and files that one more entry yields.
LEMMA NextOfAppend ==
    ASSUME inv \in Invocations, NEW entries \in Seq(Entries), NEW e \in Entries
    PROVE  /\ NextOf(Append(entries, e)) =
                 IF Load(e) = "ok" THEN NextOf(entries) \o Declared[e] ELSE NextOf(entries)
           /\ OkPaths(Append(entries, e)) =
                 IF Load(e) = "ok" THEN Append(OkPaths(entries), e.path) ELSE OkPaths(entries)
<1> DEFINE ok == Only(entries, OkEntries)
           dec == Map(Declared, ok)
<1>1. e \in OkEntries <=> Load(e) = "ok"
  BY DEF OkEntries
<1>2. ok \in Seq(Entries)
  BY OnlyType
<1>3. Only(Append(entries, e), OkEntries) = IF Load(e) = "ok" THEN Append(ok, e) ELSE ok
  BY <1>1, OnlyAppend
<1>4. Map(PathOf, Append(ok, e)) = Append(Map(PathOf, ok), PathOf[e])
  <2> HIDE DEF ok
  <2> QED BY <1>2, MapAppend
<1>5. Map(Declared, Append(ok, e)) = Append(dec, Declared[e])
  <2> HIDE DEF ok
  <2> QED BY <1>2, MapAppend
<1>6. dec \in Seq(Seq(Entries)) /\ Declared[e] \in Seq(Entries)
  <2> HIDE DEF ok
  <2>1. Declared \in [Entries -> Seq(Entries)]
    BY EntrySets
  <2> QED BY <1>2, <2>1, MapType
<1> HIDE DEF dec
<1>7. FlattenSeq(Append(dec, Declared[e])) = FlattenSeq(dec) \o Declared[e]
  BY <1>6, FlattenAppend
<1>8. PathOf[e] = e.path
  BY DEF PathOf
<1> HIDE DEF ok
<1>9. NextOf(entries) = FlattenSeq(dec) /\ OkPaths(entries) = Map(PathOf, ok)
  BY DEF NextOf, OkPaths, dec, ok
<1>10. NextOf(Append(entries, e)) = FlattenSeq(Map(Declared, IF Load(e) = "ok" THEN Append(ok, e) ELSE ok))
       /\ OkPaths(Append(entries, e)) = Map(PathOf, IF Load(e) = "ok" THEN Append(ok, e) ELSE ok)
  BY <1>3 DEF NextOf, OkPaths
<1> QED BY <1>4, <1>5, <1>7, <1>8, <1>9, <1>10 DEF dec

\* The files of entries put together.
LEMMA OkPathsConcat ==
    ASSUME inv \in Invocations, NEW s \in Seq(Entries), NEW t \in Seq(Entries)
    PROVE  OkPaths(s \o t) = OkPaths(s) \o OkPaths(t)
<1> DEFINE a == Only(s, OkEntries)
           b == Only(t, OkEntries)
<1>1. a \in Seq(Entries) /\ b \in Seq(Entries)
  BY OnlyType
<1>2. Only(s \o t, OkEntries) = a \o b
  BY OnlyConcat
<1> HIDE DEF a, b
<1>3. Map(PathOf, a \o b) = Map(PathOf, a) \o Map(PathOf, b)
  BY <1>1, MapConcat
<1> QED BY <1>2, <1>3 DEF OkPaths, a, b

\* No entries yield no files and no entries.
LEMMA NoEntries ==
    /\ NextOf(<<>>) = <<>> /\ OkPaths(<<>>) = <<>>
<1>1. Only(<<>>, OkEntries) = <<>>
  BY OnlyEmpty
<1>2. Map(Declared, <<>>) = <<>> /\ Map(PathOf, <<>>) = <<>>
  BY DEF Map
<1> QED BY <1>1, <1>2, FlattenEmpty DEF NextOf, OkPaths

Goes(e) == Load(e) \in {"ok", "outside"}

\* A level can be walked at once.
LEMMA WalkLevel ==
    ASSUME inv \in Invocations, NEW entries \in Seq(Entries),
           \A i \in DOMAIN entries : Goes(entries[i])
    PROVE  \A rest \in Seq(Entries), done \in Seq(Paths) :
              SerialWalk[<<entries \o rest, done>>]
                 = SerialWalk[<<rest \o NextOf(entries), done \o OkPaths(entries)>>]
<1> DEFINE Same(s, rest, done) == SerialWalk[<<s \o rest, done>>]
                                     = SerialWalk[<<rest \o NextOf(s), done \o OkPaths(s)>>]
           AllGo(s) == \A i \in DOMAIN s : Goes(s[i])
           P == {s \in Seq(Entries) : AllGo(s) => \A rest \in Seq(Entries), done \in Seq(Paths) :
                                                      Same(s, rest, done)}
<1>1. <<>> \in P
  <2> DEFINE none == <<>>
  <2>1. none \in Seq(Entries)
    OBVIOUS
  <2>2. ASSUME NEW rest \in Seq(Entries), NEW done \in Seq(Paths) PROVE Same(none, rest, done)
    <3>1. none \o rest = rest /\ rest \o none = rest /\ done \o none = done
      OBVIOUS
    <3>2. NextOf(none) = none /\ OkPaths(none) = none
      BY NoEntries
    <3> HIDE DEF none
    <3> QED BY <3>1, <3>2
  <2> HIDE DEF none, Same, AllGo
  <2>3. none \in P
    BY <2>1, <2>2
  <2> QED BY <2>3 DEF none
<1>2. \A s \in Seq(Entries) : \A e \in Entries : s \in P => Append(s, e) \in P
  <2> SUFFICES ASSUME NEW s \in Seq(Entries), NEW e \in Entries, s \in P, AllGo(Append(s, e)),
                      NEW rest \in Seq(Entries), NEW done \in Seq(Paths)
               PROVE  Same(Append(s, e), rest, done)
    <3> HIDE DEF Same, AllGo
    <3>1. \A s \in Seq(Entries) : \A e \in Entries : Append(s, e) \in Seq(Entries)
      OBVIOUS
    <3> QED BY <3>1
  <2> DEFINE u == Append(s, e)
  <2>1. DOMAIN u = DOMAIN s \cup {Len(s) + 1} /\ u[Len(s) + 1] = e
        /\ \A i \in DOMAIN s : u[i] = s[i]
    OBVIOUS
  <2> HIDE DEF u
  <2>2. Goes(e) /\ AllGo(s)
    BY <2>1 DEF u
  <2> DEFINE v == <<e>> \o rest
             x == rest \o NextOf(s)
             y == done \o OkPaths(s)
             o == NextOf(s)
             q == OkPaths(s)
  <2>3. o \in Seq(Entries) /\ q \in Seq(Paths)
    BY NextOfType
  <2>4. v \in Seq(Entries) /\ u \o rest = s \o v
    BY DEF u
  <2> HIDE DEF o, q
  <2>a. x = rest \o o /\ y = done \o q
    BY DEF o, q
  <2>b. \A d \in Seq(Entries) : (rest \o o) \o d = rest \o (o \o d)
    BY <2>3
  <2>c. \A p \in Paths : Append(done \o q, p) = done \o Append(q, p)
    <3>1. \A p \in Paths : Append(done \o q, p) = done \o Append(q, p)
      <4> SUFFICES ASSUME NEW p \in Paths PROVE Append(done \o q, p) = done \o Append(q, p)
        OBVIOUS
      <4>1. Associates(done, q, p)
        BY <2>3, AppendConcat
      <4> QED BY <4>1 DEF Associates
    <3> QED BY <3>1
  <2>5. x \in Seq(Entries) /\ y \in Seq(Paths)
    BY <2>3 DEF o, q
  <2>6. v \o o = <<e>> \o x
    BY <2>3 DEF o
  <2> HIDE DEF v
  <2>7. SerialWalk[<<s \o v, done>>] = SerialWalk[<<v \o o, y>>]
    BY <2>2, <2>4 DEF o
  <2> HIDE DEF x, y
  <2> DEFINE z == <<e>> \o x
  <2>8. z \in Seq(Entries) /\ z # <<>> /\ Head(z) = e /\ Tail(z) = x
    BY <2>5
  <2> HIDE DEF z
  <2>9. SerialWalk[<<z, y>>] = WalkOn(z, y)
    BY <2>5, <2>8, SerialWalkIs
  <2>10. SerialWalk[<<z, y>>] = IF Load(e) = "ok" THEN SerialWalk[<<x \o Declared[e], Append(y, e.path)>>]
                                ELSE SerialWalk[<<x, y>>]
    BY <2>2, <2>8, <2>9 DEF WalkOn, Goes
  <2>11. Declared[e] \in Seq(Entries) /\ e.path \in Paths
    BY EntrySets, EntryIs
  <2>12. NextOf(u) = (IF Load(e) = "ok" THEN o \o Declared[e] ELSE o)
         /\ OkPaths(u) = (IF Load(e) = "ok" THEN Append(q, e.path) ELSE q)
    BY NextOfAppend DEF u, o, q
  <2>13. SerialWalk[<<u \o rest, done>>] = SerialWalk[<<z, y>>]
    BY <2>4, <2>6, <2>7 DEF z
  <2>14. CASE Load(e) = "ok"
    <3>1. rest \o NextOf(u) = x \o Declared[e] /\ done \o OkPaths(u) = Append(y, e.path)
      BY <2>a, <2>b, <2>c, <2>11, <2>12, <2>14
    <3> QED BY <2>10, <2>13, <2>14, <3>1 DEF u
  <2>15. CASE Load(e) # "ok"
    <3>1. rest \o NextOf(u) = x /\ done \o OkPaths(u) = y
      BY <2>a, <2>12, <2>15
    <3> QED BY <2>10, <2>13, <2>15, <3>1 DEF u
  <2> QED BY <2>14, <2>15
<1> HIDE DEF P
<1>3. entries \in P
  BY <1>1, <1>2, SeqInduction
<1> USE DEF P
<1> HIDE DEF Same
<1>4. \A rest \in Seq(Entries), done \in Seq(Paths) : Same(entries, rest, done)
  BY <1>3
<1> QED BY <1>4 DEF Same

\* The level that has been walked is replaced by the next.
LEMMA WalkWhole ==
    ASSUME inv \in Invocations, NEW entries \in Seq(Entries),
           \A i \in DOMAIN entries : Goes(entries[i]), NEW done \in Seq(Paths)
    PROVE  SerialWalk[<<entries, done>>] = SerialWalk[<<NextOf(entries), done \o OkPaths(entries)>>]
<1> DEFINE none == <<>>
           n == NextOf(entries)
<1>1. none \in Seq(Entries) /\ entries \o none = entries
  OBVIOUS
<1>2. n \in Seq(Entries)
  BY NextOfType
<1> HIDE DEF n
<1>3. none \o n = n
  BY <1>2
<1> HIDE DEF none
<1>4. SerialWalk[<<entries \o none, done>>] = SerialWalk[<<none \o n, done \o OkPaths(entries)>>]
  BY <1>1, WalkLevel DEF n
<1> QED BY <1>1, <1>3, <1>4 DEF n

\* The walk ends with the first file that cannot be read.
LEMMA WalkStops ==
    ASSUME inv \in Invocations, NEW entries \in Seq(Entries), NEW done \in Seq(Paths),
           NEW k \in DOMAIN entries, ~Goes(entries[k]),
           \A i \in DOMAIN entries : i < k => Goes(entries[i])
    PROVE  SerialWalk[<<entries, done>>] = [is |-> Load(entries[k]), value |-> entries[k].path]
<1> DEFINE s == SubSeq(entries, 1, k - 1)
           t == SubSeq(entries, k, Len(entries))
           n == NextOf(s)
           d == done \o OkPaths(s)
<1>1. Len(entries) \in Nat /\ k \in 1 .. Len(entries)
  OBVIOUS
<1>2. s \in Seq(Entries) /\ Len(s) = k - 1 /\ \A i \in 1 .. k - 1 : s[i] = entries[i]
  BY Split
<1>3. t \in Seq(Entries) /\ t # <<>> /\ Head(t) = entries[k]
  BY Split
<1>4. entries = s \o t
  BY Split
<1> HIDE DEF s, t
<1>5. \A i \in DOMAIN s : Goes(s[i])
  <2> SUFFICES ASSUME NEW i \in DOMAIN s PROVE Goes(s[i])
    OBVIOUS
  <2>1. i \in 1 .. k - 1 /\ i \in DOMAIN entries /\ i < k
    BY <1>1, <1>2
  <2> QED BY <1>2, <2>1
<1>6. n \in Seq(Entries) /\ d \in Seq(Paths)
  <2> DEFINE q == OkPaths(s)
  <2>1. n \in Seq(Entries) /\ q \in Seq(Paths)
    BY <1>2, NextOfType
  <2> HIDE DEF q
  <2>2. done \o q \in Seq(Paths)
    BY <2>1
  <2> QED BY <2>1, <2>2 DEF q
<1>7. SerialWalk[<<s \o t, done>>] = SerialWalk[<<t \o n, d>>]
  BY <1>2, <1>3, <1>5, WalkLevel
<1> HIDE DEF n, d
<1> DEFINE z == t \o n
<1>8. z \in Seq(Entries) /\ z # <<>> /\ Head(z) = entries[k]
  BY <1>3, <1>6
<1> HIDE DEF z
<1>9. SerialWalk[<<z, d>>] = WalkOn(z, d)
  BY <1>6, <1>8, SerialWalkIs
<1> QED BY <1>4, <1>7, <1>8, <1>9 DEF WalkOn, Goes, z

-----------------------------------------------------------------------------
(* The crate *)

\* A sequence has finitely many items.
LEMMA ItemsFinite ==
    ASSUME NEW A, NEW s \in Seq(A)
    PROVE  IsFiniteSet(ToSet(s))
<1> DEFINE P == {t \in Seq(A) : IsFiniteSet(ToSet(t))}
<1>1. <<>> \in P
  <2>1. ToSet(<<>>) = {}
    BY DEF ToSet
  <2>2. IsFiniteSet({})
    BY FS_EmptySet
  <2>3. <<>> \in Seq(A)
    OBVIOUS
  <2> QED BY <2>1, <2>2, <2>3
<1>2. \A t \in Seq(A) : \A x \in A : t \in P => Append(t, x) \in P
  <2> SUFFICES ASSUME NEW t \in Seq(A), NEW x \in A, t \in P PROVE IsFiniteSet(ToSet(Append(t, x)))
    OBVIOUS
  <2>1. ToSet(Append(t, x)) = ToSet(t) \cup {x}
    BY AppendItems
  <2> QED BY <2>1, FS_AddElement
<1> HIDE DEF P
<1>3. s \in P
  BY <1>1, <1>2, SeqInduction
<1> QED BY <1>3 DEF P

\* So a workspace has finitely many files to walk.
LEMMA FilesFinite ==
    ASSUME inv \in Invocations
    PROVE  IsFiniteSet(RustFiles)
<1> DEFINE F == ToSet(Tree.files)
           path == [f \in F |-> f.path]
           made == [w \in Paths \X BOOLEAN |-> [path |-> w[1], owns_dir |-> w[2]]]
<1>1. IsFiniteSet(F)
  <2>1. Tree.files \in Seq(F)
    BY TreeIs DEF IsSeq
  <2> QED BY <2>1, ItemsFinite
<1>2. IsFiniteSet(Paths)
  <2>1. path \in Surjection(F, Paths)
    BY DEF Surjection, Paths
  <2> HIDE DEF path
  <2> QED BY <1>1, <2>1, FS_Surjection
<1>3. IsFiniteSet(BOOLEAN)
  <2>1. IsFiniteSet({}) /\ IsFiniteSet({} \cup {TRUE})
    BY FS_EmptySet, FS_AddElement
  <2>2. IsFiniteSet(({} \cup {TRUE}) \cup {FALSE})
    BY <2>1, FS_AddElement
  <2>3. BOOLEAN = ({} \cup {TRUE}) \cup {FALSE}
    OBVIOUS
  <2> QED BY <2>2, <2>3
<1>4. IsFiniteSet(Paths \X BOOLEAN)
  BY <1>2, <1>3, FS_Product
<1>5. made \in Surjection(Paths \X BOOLEAN, RustFiles)
  <2>1. \A w \in Paths \X BOOLEAN : made[w] \in RustFiles
    BY DEF RustFiles
  <2>2. \A r \in RustFiles : <<r.path, r.owns_dir>> \in Paths \X BOOLEAN
                            /\ made[<<r.path, r.owns_dir>>] = r
    BY DEF RustFiles
  <2> QED BY <2>1, <2>2 DEF Surjection
<1> HIDE DEF made
<1> QED BY <1>4, <1>5, FS_Surjection

\* The files that a set of files brings with it.
More(found) == found \cup UNION {RustModules(f) : f \in {f \in found : Load(f) = "ok"}}

\* The modules of a file are files of the workspace.
LEMMA RustModulesType ==
    ASSUME inv \in Invocations, NEW from
    PROVE  RustModules(from) \in SUBSET RustFiles
<1> DEFINE mods == ToSet(ExternalMods(FileAt(Tree, from.path)[1]))
           made(p, ref) == [path |-> p, owns_dir |-> Last(p) = "mod" \/ HasPath(Last(ref))]
<1>1. RustModules(from) = UNION {{made(p, ref) :
                   p \in {p \in RustPaths(from, ref) : FileAt(Tree, p) # <<>>}} : ref \in mods}
  BY DEF RustModules
<1>2. ASSUME NEW p, NEW ref, FileAt(Tree, p) # <<>> PROVE made(p, ref) \in RustFiles
  <2>1. p \in Paths
    BY <1>2, TreeIs, FileIs DEF Paths
  <2>2. (Last(p) = "mod" \/ HasPath(Last(ref))) \in BOOLEAN
    BY DEF HasPath
  <2> QED BY <2>1, <2>2 DEF RustFiles
<1> HIDE DEF made, mods
<1> QED BY <1>1, <1>2

\* A round of the closure only adds files.
LEMMA MoreType ==
    ASSUME inv \in Invocations, NEW found \in SUBSET RustFiles
    PROVE  More(found) \in SUBSET RustFiles /\ found \subseteq More(found)
BY RustModulesType DEF More

\* It adds no less to more.
LEMMA MoreGrows ==
    ASSUME NEW X, NEW Y, X \subseteq Y
    PROVE  More(X) \subseteq More(Y)
BY DEF More

\* The closure unfolds round by round.
LEMMA RustCrateIs ==
    ASSUME inv \in Invocations
    PROVE  \A X \in SUBSET RustFiles :
              RustCrate[X] = IF More(X) = X THEN X ELSE RustCrate[More(X)]
<1> DEFINE D == SUBSET RustFiles
           T == {X \in D : More(X) = X}
           result == [X \in T |-> X]
           step == [X \in D \ T |-> More(X)]
           body(g) == [X \in D |-> LET more == More(X) IN IF more = X THEN X ELSE g[more]]
<1>1. result \in [T -> D]
  OBVIOUS
<1>2. step \in [D \ T -> D]
  BY MoreType
<1> HIDE DEF result, step
<1>3. PICK g : Unfolds(g, D, T, result, step)
  <2>1. T \in SUBSET D
    OBVIOUS
  <2> HIDE DEF T, D
  <2> QED BY <1>1, <1>2, <2>1, Unfolding
<1>4. g = [a \in D |-> IF a \in T THEN result[a] ELSE g[step[a]]]
  BY <1>3 DEF Unfolds
<1>5. ASSUME NEW X \in D PROVE g[X] = IF More(X) = X THEN X ELSE g[More(X)]
  BY <1>4 DEF result, step
<1>6. g = body(g)
  <2>1. g = [X \in D |-> g[X]]
    BY <1>4
  <2>2. body(g) = [X \in D |-> IF More(X) = X THEN X ELSE g[More(X)]]
    OBVIOUS
  <2> HIDE DEF body, D
  <2> QED BY <1>5, <2>1, <2>2
<1>7. RustCrate = CHOOSE h : h = body(h)
  BY DEF RustCrate, More
<1>8. RustCrate = body(RustCrate)
  <2> HIDE DEF body
  <2> QED BY <1>6, <1>7
<1>9. ASSUME NEW X \in D PROVE RustCrate[X] = IF More(X) = X THEN X ELSE RustCrate[More(X)]
  <2>1. RustCrate[X] = body(RustCrate)[X]
    <3> HIDE DEF body
    <3> QED BY <1>8
  <2>2. body(RustCrate)[X] = IF More(X) = X THEN X ELSE RustCrate[More(X)]
    OBVIOUS
  <2> QED BY <2>1, <2>2
<1> QED BY <1>9

\* The least set of files that has some and is closed.
Closes(C, X) == /\ C \in SUBSET RustFiles /\ X \subseteq C /\ More(C) = C
                /\ \A Y \in SUBSET RustFiles : X \subseteq Y /\ More(Y) \subseteq Y => C \subseteq Y

\* RustCrate[X] is the least set that has X and the modules of its files.
LEMMA CrateCloses ==
    ASSUME inv \in Invocations, NEW X \in SUBSET RustFiles
    PROVE  Closes(RustCrate[X], X)
<1> DEFINE D == SUBSET RustFiles
           left(Y) == Cardinality(RustFiles \ Y)
           S == {n \in Nat : \A Y \in D : left(Y) <= n => Closes(RustCrate[Y], Y)}
<1>1. ASSUME NEW Y \in D
      PROVE  /\ IsFiniteSet(RustFiles \ Y) /\ left(Y) \in Nat
             /\ More(Y) \in D /\ Y \subseteq More(Y)
             /\ More(Y) # Y => left(More(Y)) < left(Y)
             /\ More(Y) # Y => left(Y) # 0
  <2>1. IsFiniteSet(RustFiles \ Y)
    BY FilesFinite, FS_Difference
  <2>2. left(Y) \in Nat
    BY <2>1, FS_CardinalityType
  <2>3. More(Y) \in D /\ Y \subseteq More(Y)
    BY MoreType
  <2>4. ASSUME More(Y) # Y PROVE left(More(Y)) < left(Y) /\ left(Y) # 0
    <3> DEFINE U == RustFiles \ Y
               W == RustFiles \ More(Y)
    <3>1. W \in SUBSET U /\ W # U
      BY <2>3, <2>4
    <3> HIDE DEF U, W
    <3>2. IsFiniteSet(U)
      BY <2>1 DEF U
    <3>3. IsFiniteSet(W) /\ Cardinality(W) <= Cardinality(U) /\ Cardinality(W) # Cardinality(U)
      BY <3>1, <3>2, FS_Subset
    <3>4. Cardinality(W) \in Nat /\ Cardinality(U) \in Nat
      BY <3>2, <3>3, FS_CardinalityType
    <3>5. Cardinality(W) < Cardinality(U) /\ Cardinality(U) # 0
      BY <3>3, <3>4
    <3> QED BY <3>5 DEF U, W
  <2> QED BY <2>1, <2>2, <2>3, <2>4
<1>2. ASSUME NEW Y \in D, More(Y) = Y PROVE Closes(RustCrate[Y], Y)
  <2>1. RustCrate[Y] = Y
    BY <1>2, RustCrateIs
  <2> QED BY <1>2, <2>1 DEF Closes
<1>3. ASSUME NEW Y \in D, More(Y) # Y, Closes(RustCrate[More(Y)], More(Y))
      PROVE  Closes(RustCrate[Y], Y)
  <2>1. RustCrate[Y] = RustCrate[More(Y)]
    BY <1>3, RustCrateIs
  <2>2. ASSUME NEW Z \in D, Y \subseteq Z, More(Z) \subseteq Z PROVE More(Y) \subseteq Z
    BY <2>2, MoreGrows
  <2>3. Y \subseteq More(Y)
    BY <1>1
  <2> QED BY <1>3, <2>1, <2>2, <2>3 DEF Closes
<1>a. \A Y \in D : left(Y) \in Nat
  BY <1>1
<1>b. \A Y \in D : More(Y) # Y => left(More(Y)) < left(Y) /\ left(Y) # 0
  BY <1>1
<1> HIDE DEF left
<1>4. 0 \in S
  <2> SUFFICES ASSUME NEW Y \in D, left(Y) <= 0 PROVE Closes(RustCrate[Y], Y)
    OBVIOUS
  <2>1. left(Y) = 0
    BY <1>a
  <2> QED BY <1>b, <1>2, <2>1
<1>5. \A n \in Nat : n \in S => n + 1 \in S
  <2> SUFFICES ASSUME NEW n \in Nat, n \in S, NEW Y \in D, left(Y) <= n + 1
               PROVE  Closes(RustCrate[Y], Y)
    <3> HIDE DEF D
    <3> QED OBVIOUS
  <2>1. CASE More(Y) = Y
    BY <1>2, <2>1
  <2>2. CASE More(Y) # Y
    <3>1. More(Y) \in D /\ left(More(Y)) < left(Y) /\ left(Y) \in Nat /\ left(More(Y)) \in Nat
      BY <1>1, <1>a, <1>b, <2>2
    <3>2. left(More(Y)) <= n
      BY <3>1
    <3>3. Closes(RustCrate[More(Y)], More(Y))
      BY <3>1, <3>2
    <3> QED BY <1>3, <2>2, <3>3
  <2> QED BY <2>1, <2>2
<1> HIDE DEF S
<1>6. \A n \in Nat : n \in S
  BY <1>4, <1>5, Induction
<1>7. left(X) \in S /\ left(X) \in Nat /\ left(X) <= left(X)
  BY <1>a, <1>6
<1> QED BY <1>7 DEF S

-----------------------------------------------------------------------------
(* The modules of one file, as the code finds them and as Rust says *)

Mods(e) == ToSet(ExternalMods(FileAt(Tree, e.path)[1]))
Named(e, ref) == {p \in ToSet(Candidates(e, ref)) : FileAt(Tree, p) # <<>>}

\* An entry of the walk and a file of the crate: where modules are looked for is
\* the same, if there are any.
Agree(e, r) ==
    /\ e.path = r.path
    /\ Mods(e) # {} => (r.owns_dir <=> (e.is_top \/ Last(e.path) = "mod"))

\* A mod statement and the parts of its path.
LEMMA RefIs ==
    ASSUME inv \in Invocations, NEW e \in Entries, NEW ref \in Mods(e)
    PROVE  /\ IsSeq(ref) /\ ref # <<>> /\ Len(ref) \in Nat \ {0}
           /\ \A i \in DOMAIN ref : IsSeq(FilesystemName(ref[i]))
           /\ IsSeq(e.path) /\ e.path # <<>>
<1> DEFINE file == FileAt(Tree, e.path)[1]
<1>1. file \in ToSet(Tree.files) /\ IsWorkspace(Tree) /\ e.path \in Paths
  BY EntryIs, TreeIs
<1>2. IsSeq(file.mods)
  BY <1>1 DEF IsWorkspace
<1>3. ref \in ToSet(file.mods) /\ \A i \in DOMAIN ref : ~IsRefused(ref[i])
  BY <1>2, ExternalModsType DEF Mods
<1>4. IsSeq(ref) /\ ref # <<>> /\ \A part \in ToSet(ref) : ~IsRefused(part) => IsSeq(FilesystemName(part))
  BY <1>1, <1>3 DEF IsWorkspace
<1>5. \A i \in DOMAIN ref : ref[i] \in ToSet(ref)
  BY DEF ToSet
<1>6. IsSeq(e.path) /\ e.path # <<>>
  BY <1>1 DEF IsWorkspace, Paths
<1>7. Len(ref) \in Nat \ {0}
  BY <1>4 DEF IsSeq
<1> QED BY <1>3, <1>4, <1>5, <1>6, <1>7

Extends(s, y, t) == DOMAIN t = DOMAIN s \cup {Len(s)+1} /\ t[Len(s)+1] = y /\ \A i \in DOMAIN s : t[i] = s[i]
\* What Append does, in a form that can be cited.
LEMMA ExtendsIs == ASSUME NEW A, NEW s \in Seq(A), NEW y \in A PROVE Extends(s, y, Append(s, y))
<1> DEFINE t == Append(s,y)
<1>1. DOMAIN t = DOMAIN s \cup {Len(s)+1} /\ t[Len(s)+1] = y /\ \A i \in DOMAIN s : t[i] = s[i]
  OBVIOUS
<1> QED BY <1>1 DEF Extends
IsPair(x, y) == Append(<<x>>, y) = <<x, y>>
\* The parts of a pair, in a form that can be cited.
LEMMA PairIs == ASSUME NEW x, NEW y PROVE IsPair(x, y)
<1> DEFINE S == {x, y}
           s == <<x>>
           t == Append(s, y)
           u == <<x, y>>
<1>1. s \in Seq(S) /\ Len(s) = 1 /\ s[1] = x /\ y \in S /\ DOMAIN s = {1}
  OBVIOUS
<1>2. u \in Seq(S) /\ Len(u) = 2 /\ u[1] = x /\ u[2] = y
  OBVIOUS
<1> HIDE DEF S, s, u
<1>3. t \in Seq(S) /\ Len(t) = Len(s) + 1
  BY <1>1
<1>4. Extends(s, y, t)
  BY <1>1, ExtendsIs
<1> HIDE DEF t
<1>5. Len(t) = 2 /\ t[1] = x /\ t[2] = y
  <2>1. t[1] = s[1]
    BY <1>1, <1>4 DEF Extends
  <2>2. t[Len(s) + 1] = y /\ Len(s) + 1 = 2
    BY <1>1, <1>4 DEF Extends
  <2>3. t[2] = y
    BY <2>2
  <2> QED BY <1>1, <1>3, <2>1, <2>2, <2>3
<1>6. t = u
  <2>1. \A i \in 1 .. 2 : t[i] = u[i]
    <3>1. \A i \in 1 .. 2 : i = 1 \/ i = 2
      OBVIOUS
    <3> QED BY <1>2, <1>5, <3>1
  <2> QED BY <1>2, <1>3, <1>5, <2>1
<1> QED BY <1>6 DEF t, u, s, IsPair

\* The names of the mod blocks around a statement.
Blocks(ref) == FlattenSeq([i \in 1 .. Len(ref) - 1 |-> FilesystemName(ref[i])])

\* The candidates of a mod statement are the paths that the Rust reference
\* gives.
LEMMA CandidatesAgree ==
    ASSUME inv \in Invocations, NEW e \in Entries, NEW r, NEW ref \in Mods(e), Agree(e, r)
    PROVE  ToSet(Candidates(e, ref)) = RustPaths(r, ref)
<1> DEFINE child == Last(ref)
           inParent == e.is_top \/ Last(e.path) = "mod"
           home == IF r.owns_dir THEN Front(e.path) ELSE e.path
           A == (ToSet(e.path) \cup UNION {ToSet(FilesystemName(ref[i])) : i \in DOMAIN ref})
                  \cup {child.name, "mod"}
           ss == [i \in 1 .. Len(ref) - 1 |-> FilesystemName(ref[i])]
<1>1. IsSeq(ref) /\ ref # <<>> /\ Len(ref) \in Nat \ {0} /\ IsSeq(e.path) /\ e.path # <<>>
      /\ \A i \in DOMAIN ref : IsSeq(FilesystemName(ref[i]))
  BY RefIs
<1>2. e.path = r.path /\ (r.owns_dir <=> inParent)
  BY DEF Agree
<1>3. \A X : ToSet(e.path) \subseteq X => e.path \in Seq(X) /\ Front(e.path) \in Seq(X)
  BY <1>1 DEF IsSeq, Front
<1>4. ASSUME NEW i \in DOMAIN ref PROVE FilesystemName(ref[i]) \in Seq(A)
  <2>1. ToSet(FilesystemName(ref[i])) \subseteq A
    OBVIOUS
  <2>2. FilesystemName(ref[i]) \in Seq(ToSet(FilesystemName(ref[i])))
    BY <1>1 DEF IsSeq
  <2> HIDE DEF A
  <2> QED BY <2>1, <2>2
<1>5. DOMAIN ref = 1 .. Len(ref)
  BY <1>1 DEF IsSeq
<1>6. home \in Seq(A)
  <2>1. ToSet(e.path) \subseteq A
    OBVIOUS
  <2> HIDE DEF A
  <2> QED BY <1>3, <2>1
<1>7. child.name \in A /\ "mod" \in A
  OBVIOUS
<1> HIDE DEF A
<1>8. ss \in Seq(Seq(A))
  <2>1. \A i \in 1 .. Len(ref) - 1 : i \in DOMAIN ref
    BY <1>1, <1>5
  <2> QED BY <1>1, <1>4, <2>1
<1>9. Blocks(ref) = FlattenSeq(ss)
  BY DEF Blocks
<1> HIDE DEF ss
<1>10. Blocks(ref) \in Seq(A)
  BY <1>8, <1>9, FlattenType
<1>11. child = ref[Len(ref)] /\ Len(ref) \in DOMAIN ref
  BY <1>1, <1>5 DEF Last
<1>12. FilesystemName(child) \in Seq(A)
  BY <1>4, <1>11
<1>13. SearchDir(e, ref) = (IF inParent \/ (HasPath(child) /\ Len(ref) = 1)
                            THEN Front(e.path) ELSE e.path) \o Blocks(ref)
  BY DEF SearchDir, IsInParentDir, Blocks
<1>14. Candidates(e, ref) = IF HasPath(child) THEN <<SearchDir(e, ref) \o FilesystemName(child)>>
          ELSE <<SearchDir(e, ref) \o FilesystemName(child),
                 Append(SearchDir(e, ref) \o FilesystemName(child), "mod")>>
  BY DEF Candidates
<1>15. RustPaths(r, ref) =
          CASE HasPath(child) /\ Len(ref) = 1 -> {Front(e.path) \o FilesystemName(child)}
            [] HasPath(child) /\ Len(ref) > 1 -> {home \o Blocks(ref) \o FilesystemName(child)}
            [] OTHER -> {home \o Blocks(ref) \o <<child.name>>,
                         home \o Blocks(ref) \o <<child.name, "mod">>}
  BY <1>2 DEF RustPaths, Blocks
<1> DEFINE b == Blocks(ref)
           f == FilesystemName(child)
           n == child.name
           front == Front(e.path)
           parts == <<n>>
<1>16. CASE HasPath(child) /\ Len(ref) = 1
  <2>1. b = <<>>
    <3>1. ss = <<>>
      BY <1>16 DEF ss
    <3> QED BY <1>9, <3>1, FlattenEmpty
  <2>2. front \in Seq(A)
    <3>1. ToSet(e.path) \subseteq A
      BY DEF A
    <3> QED BY <1>3, <3>1
  <2> HIDE DEF b, front, f
  <2>3. front \o b = front
    BY <2>1, <2>2
  <2>4. Candidates(e, ref) = <<front \o f>>
    BY <1>13, <1>14, <1>16, <2>3 DEF b, front, f
  <2>5. RustPaths(r, ref) = {front \o f}
    BY <1>15, <1>16 DEF front, f
  <2> DEFINE x == front \o f
  <2> HIDE DEF x
  <2>6. ToSet(<<x>>) = {x}
    BY DEF ToSet
  <2> QED BY <2>4, <2>5, <2>6 DEF x
<1>17. CASE HasPath(child) /\ Len(ref) # 1
  <2>1. Len(ref) > 1
    <3> DEFINE l == Len(ref)
    <3>1. l \in Nat \ {0} /\ l # 1
      BY <1>1, <1>17
    <3> HIDE DEF l
    <3>2. l > 1
      BY <3>1
    <3> QED BY <3>2 DEF l
  <2>2. SearchDir(e, ref) = home \o b
    BY <1>2, <1>13, <1>17
  <2> HIDE DEF home, b, f
  <2> DEFINE x == home \o b \o f
  <2>3. Candidates(e, ref) = <<x>> /\ RustPaths(r, ref) = {x}
    BY <1>14, <1>15, <1>17, <2>1, <2>2 DEF b, f
  <2> HIDE DEF x
  <2>4. ToSet(<<x>>) = {x}
    BY DEF ToSet
  <2> QED BY <2>3, <2>4
<1>18. CASE ~HasPath(child)
  <2>1. SearchDir(e, ref) = home \o b
    BY <1>2, <1>13, <1>18
  <2>2. f = parts
    BY <1>18 DEF FilesystemName
  <2>3. home \in Seq(A) /\ b \in Seq(A)
    BY <1>6, <1>10
  <2>4. RustPaths(r, ref) = {home \o b \o parts, home \o b \o <<n, "mod">>}
    BY <1>15, <1>18
  <2> HIDE DEF home, b, f
  <2> DEFINE d == home \o b
  <2>5. d \in Seq(A)
    BY <2>3
  <2>6. Candidates(e, ref) = <<d \o parts, Append(d \o parts, "mod")>>
    BY <1>14, <1>18, <2>1, <2>2 DEF f
  <2> HIDE DEF d, n
  <2>7. Append(d \o parts, "mod") = d \o <<n, "mod">>
    <3>1. Associates(d, parts, "mod")
      <4>1. n \in A /\ "mod" \in A
        BY <1>7 DEF n
      <4>2. parts \in Seq(A)
        BY <4>1
      <4> HIDE DEF parts
      <4> QED BY <2>5, <4>1, <4>2, AppendConcat
    <3>2. Append(parts, "mod") = <<n, "mod">>
      BY PairIs DEF IsPair
    <3> QED BY <3>1, <3>2 DEF Associates
  <2> DEFINE x == d \o parts
             y == d \o <<n, "mod">>
  <2>8. Candidates(e, ref) = <<x, y>> /\ RustPaths(r, ref) = {x, y}
    BY <2>4, <2>6, <2>7 DEF d
  <2> HIDE DEF x, y
  <2>9. ToSet(<<x, y>>) = {x, y}
    BY DEF ToSet
  <2> QED BY <2>8, <2>9
<1> QED BY <1>16, <1>17, <1>18

IsTop(e) == \E p \in ToSet(Tree.members) : \E t \in p.targets : t.path = e.path

\* What the files of a level declare, entry for entry.
LEMMA DeclaredAre ==
    ASSUME inv \in Invocations, NEW e \in Entries, e.is_top => IsTop(e)
    PROVE  /\ ToSet(Declared[e]) =
                 {[path |-> p, is_top |-> FALSE] : p \in UNION {Named(e, ref) : ref \in Mods(e)}}
           /\ \A ref \in Mods(e) : \A p \in Named(e, ref) :
                 p \in Paths /\ (HasPath(Last(ref)) =>
                     (Last(p) = "mod" \/ Mods([path |-> p, is_top |-> FALSE]) = {}))
<1> DEFINE file == FileAt(Tree, e.path)[1]
<1>1. IsWorkspace(Tree) /\ IsResolved(Tree) /\ Paths = PathsOf(Tree) /\ IsSeq(Tree.files)
  BY TreeIs
<1>2. e.path \in Paths /\ e.is_top \in BOOLEAN /\ e = [path |-> e.path, is_top |-> e.is_top]
      /\ file \in ToSet(Tree.files) /\ file.path = e.path
  BY <1>1, EntryIs, FileIs DEF PathsOf
<1>3. ASSUME NEW ref \in Mods(e)
      PROVE  /\ \A p, q \in Named(e, ref) : p = q
             /\ HasPath(Last(ref)) => \A p \in Named(e, ref) :
                   Last(p) = "mod" \/ ExternalMods(FileAt(Tree, p)[1]) = <<>>
  <2>1. ref \in ToSet(ExternalMods(file))
    BY DEF Mods
  <2> DEFINE from == [path |-> file.path, is_top |-> e.is_top]
  <2>2. from = e
    BY <1>2
  <2>3. e.is_top => \E p \in ToSet(Tree.members) : \E t \in p.targets : t.path = file.path
    BY <1>2 DEF IsTop
  <2> HIDE DEF file
  <2>4. LET named == {p \in ToSet(Candidates(from, ref)) : FileAt(Tree, p) # <<>>}
        IN  /\ \A p, q \in named : p = q
            /\ HasPath(Last(ref)) =>
                  \A p \in named : \/ Last(p) = "mod"
                                   \/ ExternalMods(FileAt(Tree, p)[1]) = <<>>
    BY <1>1, <1>2, <2>1, <2>3 DEF IsResolved
  <2> HIDE DEF from
  <2> QED BY <2>2, <2>4 DEF Named
<1>4. ASSUME NEW ref \in Mods(e) PROVE ToSet(FindModSource(Tree, e, ref)) = Named(e, ref)
  <2>1. ToSet(FindModSource(Tree, e, ref)) \subseteq Named(e, ref)
    BY <1>1, FindIs DEF Named
  <2>2. Named(e, ref) # {} => ToSet(FindModSource(Tree, e, ref)) # {}
    BY <1>1, FindIs DEF Named
  <2> DEFINE N == Named(e, ref)
             F == ToSet(FindModSource(Tree, e, ref))
  <2>3. \A p, q \in N : p = q
    BY <1>3
  <2> HIDE DEF N, F
  <2>4. F \subseteq N /\ (N # {} => F # {})
    BY <2>1, <2>2 DEF N, F
  <2>5. F = N
    BY <2>3, <2>4
  <2> QED BY <2>5 DEF F, N
<1>5. ToSet(ModSources(Tree, e)) = UNION {Named(e, ref) : ref \in Mods(e)}
  <2>1. ToSet(ModSources(Tree, e)) = UNION {ToSet(FindModSource(Tree, e, ref)) : ref \in Mods(e)}
    BY <1>1, <1>2, ModSourcesType DEF Mods
  <2> QED BY <1>4, <2>1
<1>6. ToSet(Declared[e]) = {[path |-> p, is_top |-> FALSE] : p \in ToSet(ModSources(Tree, e))}
  BY EntrySets
<1>7. ASSUME NEW ref \in Mods(e), NEW p \in Named(e, ref)
      PROVE  p \in Paths /\ (HasPath(Last(ref)) =>
                 (Last(p) = "mod" \/ Mods([path |-> p, is_top |-> FALSE]) = {}))
  <2>1. p \in Paths
    BY <1>1, FileIs DEF Named, PathsOf
  <2>2. ExternalMods(FileAt(Tree, p)[1]) = <<>> => Mods([path |-> p, is_top |-> FALSE]) = {}
    BY DEF Mods, ToSet
  <2> QED BY <1>3, <2>1, <2>2
<1> QED BY <1>5, <1>6, <1>7

\* What the walk declares and what Rust reads are the same files, with the
\* same right to have modules beside them.
LEMMA ModulesAgree ==
    ASSUME inv \in Invocations, NEW e \in Entries, e.is_top => IsTop(e), NEW r \in RustFiles, Agree(e, r)
    PROVE  /\ \A c \in ToSet(Declared[e]) : \E s \in RustModules(r) : Agree(c, s)
           /\ \A s \in RustModules(r) : \E c \in ToSet(Declared[e]) : Agree(c, s)
           /\ \A c \in ToSet(Declared[e]) : c \in Entries /\ ~c.is_top
<1> DEFINE child(p) == [path |-> p, is_top |-> FALSE]
           made(p, ref) == [path |-> p, owns_dir |-> Last(p) = "mod" \/ HasPath(Last(ref))]
<1>1. r.path = e.path
  BY DEF Agree
<1>2. \A ref \in Mods(e) : {p \in RustPaths(r, ref) : FileAt(Tree, p) # <<>>} = Named(e, ref)
  BY CandidatesAgree DEF Named
<1>3. RustModules(r) = UNION {{made(p, ref) :
                   p \in {p \in RustPaths(r, ref) : FileAt(Tree, p) # <<>>}} : ref \in Mods(e)}
  BY <1>1 DEF RustModules, Mods
<1>4. RustModules(r) = UNION {{made(p, ref) : p \in Named(e, ref)} : ref \in Mods(e)}
  <2> HIDE DEF made
  <2> QED BY <1>2, <1>3
<1>5. ToSet(Declared[e]) = {child(p) : p \in UNION {Named(e, ref) : ref \in Mods(e)}}
  BY DeclaredAre
<1>6. ASSUME NEW ref \in Mods(e), NEW p \in Named(e, ref)
      PROVE  Agree(child(p), made(p, ref)) /\ child(p) \in Entries /\ ~child(p).is_top
  <2>1. p \in Paths /\ (HasPath(Last(ref)) => (Last(p) = "mod" \/ Mods(child(p)) = {}))
    BY DeclaredAre
  <2>2. child(p) \in Entries
    BY <2>1 DEF Entries
  <2>3. child(p).path = p /\ made(p, ref).path = p /\ child(p).is_top = FALSE
    OBVIOUS
  <2>4. made(p, ref).owns_dir <=> (Last(p) = "mod" \/ HasPath(Last(ref)))
    OBVIOUS
  <2> HIDE DEF child, made
  <2> QED BY <2>1, <2>2, <2>3, <2>4 DEF Agree
<1> HIDE DEF child, made
<1>7. \A c \in ToSet(Declared[e]) : \E ref \in Mods(e) : \E p \in Named(e, ref) : c = child(p)
  BY <1>5
<1>8. \A ref \in Mods(e) : \A p \in Named(e, ref) :
         child(p) \in ToSet(Declared[e]) /\ made(p, ref) \in RustModules(r)
  BY <1>4, <1>5
<1>9. \A s \in RustModules(r) : \E ref \in Mods(e) : \E p \in Named(e, ref) : s = made(p, ref)
  BY <1>4
<1> QED BY <1>6, <1>7, <1>8, <1>9

-----------------------------------------------------------------------------
(* The packages of the tree and what the specification says of them *)

Members == ToSet(Tree.members)
Selected == FilterPackages(Tree, Args)

SerialOf == [p \in Members |-> SerialPackage(p)]
FilesOf == [p \in Members |-> IF \E d \in Seq(Paths) : SerialOf[p] = [is |-> "ok", value |-> d]
                              THEN SerialOf[p].value ELSE <<>>]

Roots == [p \in Members |-> {[path |-> t.path, owns_dir |-> TRUE] :
                                t \in {t \in p.targets : t.kinds \cap MutatedKinds # {}}}]
CrateOf == [p \in Members |-> RustCrate[Roots[p]]]
CrateFilesOf == [p \in Members |-> {f.path : f \in {f \in CrateOf[p] : Load(f) = "ok"}}]

\* A package of which all files are walked.
Complete ==
    {p \in Members : /\ SerialOf[p] = [is |-> "ok", value |-> FilesOf[p]]
                     /\ FilesOf[p] \in Seq(Paths)
                     /\ ToSet(FilesOf[p]) = CrateFilesOf[p]}

TopsOf == [p \in Members |-> Tops(p)]
Pairs == {x \in Entries \X RustFiles : Agree(x[1], x[2])}
TopEntries == {e \in Entries : e.is_top => IsTop(e)}

\* A package, its entries seen so far and those that are next: the rest of the
\* serial walk is theirs, and both are files of the crate, closed but for the next.
Trails ==
    {x \in Members \X Seq(Entries) \X Seq(Entries) :
        LET done == ToSet(x[2])
            known == ToSet(x[2]) \cup ToSet(x[3])
        IN  /\ SerialWalk[<<x[3], Map(PathOf, Only(x[2], OkEntries))>>] = SerialOf[x[1]]
            /\ ToSet(TopsOf[x[1]]) \subseteq known
            /\ \A e \in known : e \in TopEntries /\ \E r \in CrateOf[x[1]] : <<e, r>> \in Pairs
            /\ \A e \in done \cap OkEntries : ToSet(Declared[e]) \subseteq known}

\* What is told from the invocation stays with it.
LEMMA SameWalk ==
    ASSUME inv' = inv
    PROVE  /\ Members' = Members /\ Selected' = Selected /\ SerialOf' = SerialOf
           /\ FilesOf' = FilesOf /\ CrateFilesOf' = CrateFilesOf /\ Complete' = Complete
           /\ Trails' = Trails /\ AllowedPaths' = AllowedPaths
           /\ OkEntries' = OkEntries /\ PathOf' = PathOf
<1>1. Tree' = Tree /\ Args' = Args /\ Paths' = Paths /\ Entries' = Entries
  BY SameTree
<1>2. Members' = Members /\ Selected' = Selected
  BY <1>1 DEF Members, Selected
<1>3. SerialWalk' = SerialWalk
  BY <1>1 DEF SerialWalk, Load
<1>4. TopsOf' = TopsOf
  BY <1>1, <1>2 DEF TopsOf, Tops
<1>5. SerialOf' = SerialOf
  BY <1>1, <1>2, <1>3 DEF SerialOf, SerialPackage
<1>6. FilesOf' = FilesOf
  BY <1>1, <1>2, <1>5 DEF FilesOf
<1>7. RustCrate' = RustCrate
  BY <1>1, SMT DEF RustCrate, Load, RustModules, RustPaths, RustFiles
<1>8. Roots' = Roots
  BY <1>2 DEF Roots
<1>9. CrateOf' = CrateOf
  BY <1>2, <1>7, <1>8 DEF CrateOf
<1>10. CrateFilesOf' = CrateFilesOf
  BY <1>1, <1>2, <1>9 DEF CrateFilesOf, Load
<1>11. Complete' = Complete
  BY <1>1, <1>2, <1>5, <1>6, <1>10 DEF Complete
<1>12. AllowedPaths' = AllowedPaths /\ OkEntries' = OkEntries
  BY <1>1, SMT DEF OkEntries, AllowedPaths, AllowsSourceFilePath, ExamineGlobs, ExcludeGlobs, Load
<1>13. PathOf' = PathOf /\ Declared' = Declared
  BY <1>1 DEF PathOf, Declared
<1>14. Pairs' = Pairs
  BY <1>1 DEF Pairs, Agree, Mods, RustFiles
<1>15. TopEntries' = TopEntries
  BY <1>1 DEF TopEntries, IsTop
<1>16. Trails' = Trails
  BY <1>1, <1>2, <1>3, <1>4, <1>5, <1>9, <1>12, <1>13, <1>14, <1>15 DEF Trails
<1> QED BY <1>2, <1>5, <1>6, <1>10, <1>11, <1>12, <1>13, <1>16

-----------------------------------------------------------------------------
(* The walk of one package *)

Trail(h, seen, todo) ==
    /\ SerialWalk[<<todo, OkPaths(seen)>>] = SerialPackage(h)
    /\ ToSet(Tops(h)) \subseteq ToSet(seen) \cup ToSet(todo)
    /\ \A e \in ToSet(seen) \cup ToSet(todo) :
          (e.is_top => IsTop(e)) /\ \E r \in CrateOf[h] : Agree(e, r)
    /\ \A e \in ToSet(seen) : Load(e) = "ok" => ToSet(Declared[e]) \subseteq ToSet(seen) \cup ToSet(todo)

\* The crate of a package, as a function of it.
LEMMA CrateIs ==
    ASSUME inv \in Invocations, NEW h \in Members
    PROVE  Roots[h] \in SUBSET RustFiles /\ Closes(CrateOf[h], Roots[h])
           /\ CrateFilesOf[h] = CrateFiles(h)
<1>1. Roots[h] = {[path |-> t.path, owns_dir |-> TRUE] :
                     t \in {t \in h.targets : t.kinds \cap MutatedKinds # {}}}
  BY DEF Roots
<1>2. \A t \in h.targets : t.path \in Paths
  <2>1. IsWorkspace(Tree) /\ IsSeq(Tree.files) /\ Paths = PathsOf(Tree)
    BY TreeIs
  <2>2. \A t \in h.targets : FileAt(Tree, t.path) # <<>>
    BY <2>1 DEF IsWorkspace, Members
  <2> QED BY <2>1, <2>2, FileIs DEF PathsOf
<1>3. Roots[h] \in SUBSET RustFiles
  <2> SUFFICES ASSUME NEW r \in Roots[h] PROVE r \in RustFiles
    OBVIOUS
  <2>1. PICK t \in {t \in h.targets : t.kinds \cap MutatedKinds # {}} :
            r = [path |-> t.path, owns_dir |-> TRUE]
    BY <1>1
  <2> QED BY <1>2, <2>1 DEF RustFiles
<1>4. CrateOf[h] = RustCrate[Roots[h]]
  BY DEF CrateOf
<1>5. Closes(CrateOf[h], Roots[h])
  BY <1>3, <1>4, CrateCloses
<1>6. CrateFilesOf[h] = CrateFiles(h)
  BY <1>1, <1>4 DEF CrateFilesOf, CrateFiles
<1> QED BY <1>3, <1>5, <1>6

\* What it is to be a trail.
LEMMA TrailIs ==
    ASSUME inv \in Invocations, NEW h \in Members, NEW seen \in Seq(Entries), NEW todo \in Seq(Entries)
    PROVE  <<h, seen, todo>> \in Trails <=> Trail(h, seen, todo)
<1> DEFINE x == <<h, seen, todo>>
<1>1. x[1] = h /\ x[2] = seen /\ x[3] = todo /\ x \in Members \X Seq(Entries) \X Seq(Entries)
  OBVIOUS
<1> HIDE DEF x
<1>2. TopsOf[h] = Tops(h) /\ SerialOf[h] = SerialPackage(h)
  BY DEF TopsOf, SerialOf
<1>3. Map(PathOf, Only(seen, OkEntries)) = OkPaths(seen)
  BY DEF OkPaths
<1>4. ToSet(seen) \subseteq Entries /\ ToSet(todo) \subseteq Entries
  BY Items
<1>5. \A e \in ToSet(seen) \cup ToSet(todo) :
         /\ e \in TopEntries <=> (e.is_top => IsTop(e))
         /\ \A r \in RustFiles : <<e, r>> \in Pairs <=> Agree(e, r)
  BY <1>4 DEF TopEntries, Pairs
<1>6. CrateOf[h] \subseteq RustFiles
  BY CrateIs DEF Closes
<1>7. \A e \in ToSet(seen) : e \in OkEntries <=> Load(e) = "ok"
  BY <1>4 DEF OkEntries
<1>8. x \in Trails <=>
        LET done == ToSet(seen)
            known == ToSet(seen) \cup ToSet(todo)
        IN  /\ SerialWalk[<<todo, OkPaths(seen)>>] = SerialPackage(h)
            /\ ToSet(Tops(h)) \subseteq known
            /\ \A e \in known : e \in TopEntries /\ \E r \in CrateOf[h] : <<e, r>> \in Pairs
            /\ \A e \in done \cap OkEntries : ToSet(Declared[e]) \subseteq known
  BY <1>1, <1>2, <1>3 DEF Trails
<1> QED BY <1>5, <1>6, <1>7, <1>8 DEF Trail, x

\* The trail of a package starts at its targets.
LEMMA TrailStart ==
    ASSUME inv \in Invocations, NEW h \in Members
    PROVE  <<h, <<>>, Tops(h)>> \in Trails /\ Tops(h) \in Seq(Entries)
<1> DEFINE none == <<>>
           todo == Tops(h)
<1>1. todo \in Seq(Entries) /\ ToSet(todo) = {[path |-> t.path, is_top |-> TRUE] :
                  t \in {t \in h.targets : t.kinds \cap MutatedKinds # {}}}
  BY TopsType DEF Members
<1>2. none \in Seq(Entries) /\ ToSet(none) = {} /\ OkPaths(none) = <<>>
  BY NoEntries DEF ToSet
<1>3. SerialPackage(h) = SerialWalk[<<todo, <<>>>>]
  BY DEF SerialPackage, Tops
<1>4. Closes(CrateOf[h], Roots[h])
  BY CrateIs
<1>5. ASSUME NEW e \in ToSet(todo) PROVE IsTop(e) /\ \E r \in CrateOf[h] : Agree(e, r)
  <2>1. PICK t \in {t \in h.targets : t.kinds \cap MutatedKinds # {}} :
            e = [path |-> t.path, is_top |-> TRUE]
    BY <1>1
  <2>2. e.path = t.path /\ e.is_top = TRUE
    BY <2>1
  <2> DEFINE r == [path |-> t.path, owns_dir |-> TRUE]
  <2>3. r \in Roots[h] /\ r.path = t.path /\ r.owns_dir = TRUE
    BY DEF Roots
  <2>4. r \in CrateOf[h]
    BY <1>4, <2>3 DEF Closes
  <2> HIDE DEF r
  <2>5. Agree(e, r)
    BY <2>2, <2>3 DEF Agree
  <2>6. IsTop(e)
    BY <2>1, <2>2 DEF IsTop, Members
  <2> QED BY <2>4, <2>5, <2>6
<1> HIDE DEF none, todo
<1>6. Trail(h, none, todo)
  BY <1>2, <1>3, <1>5 DEF Trail, none, todo
<1>7. <<h, none, todo>> \in Trails
  BY <1>1, <1>2, <1>6, TrailIs
<1> QED BY <1>1, <1>7 DEF none, todo

\* A level that is read to its end moves the trail on.
LEMMA TrailLevel ==
    ASSUME inv \in Invocations, NEW h \in Members, NEW seen \in Seq(Entries), NEW todo \in Seq(Entries),
           <<h, seen, todo>> \in Trails, \A i \in DOMAIN todo : Goes(todo[i])
    PROVE  <<h, seen \o todo, NextOf(todo)>> \in Trails
           /\ seen \o todo \in Seq(Entries) /\ NextOf(todo) \in Seq(Entries)
<1> DEFINE all == seen \o todo
           more == NextOf(todo)
<1>1. Trail(h, seen, todo)
  BY TrailIs
<1>2. all \in Seq(Entries) /\ more \in Seq(Entries)
  BY NextOfType
<1>3. ToSet(all) = ToSet(seen) \cup ToSet(todo)
  BY ConcatItems
<1>4. OkPaths(all) = OkPaths(seen) \o OkPaths(todo) /\ OkPaths(seen) \in Seq(Paths)
  BY OkPathsConcat, NextOfType
<1>5. SerialWalk[<<todo, OkPaths(seen)>>] = SerialWalk[<<more, OkPaths(all)>>]
  BY <1>4, WalkWhole
<1>6. ToSet(more) = UNION {ToSet(Declared[e]) : e \in ToSet(todo) \cap OkEntries}
  <2> DEFINE ok == Only(todo, OkEntries)
             ss == Map(Declared, ok)
  <2>1. ok \in Seq(Entries) /\ ToSet(ok) = ToSet(todo) \cap OkEntries
    BY OnlyType
  <2>2. Declared \in [Entries -> Seq(Entries)]
    BY EntrySets
  <2> HIDE DEF ok
  <2>3. Map(Declared, ok) \in Seq(Seq(Entries))
    BY <2>1, EntrySets, MapType
  <2>4. DOMAIN ss = DOMAIN ok /\ \A i \in DOMAIN ss : ss[i] = Declared[ok[i]]
    BY DEF Map
  <2> HIDE DEF ss
  <2>5. ToSet(FlattenSeq(ss)) = UNION {ToSet(ss[i]) : i \in DOMAIN ss}
    <3>1. ss \in Seq(Seq(Entries))
      BY <2>3 DEF ss
    <3> QED BY <3>1, FlattenItems
  <2>6. UNION {ToSet(ss[i]) : i \in DOMAIN ss} = UNION {ToSet(Declared[e]) : e \in ToSet(ok)}
    <3>1. \A i \in DOMAIN ok : ToSet(ss[i]) = ToSet(Declared[ok[i]])
      BY <2>4
    <3>2. ToSet(ok) = {ok[i] : i \in DOMAIN ok}
      BY DEF ToSet
    <3> QED BY <2>4, <3>1, <3>2
  <2>7. more = FlattenSeq(ss)
    BY DEF NextOf, ss, ok
  <2> QED BY <2>1, <2>5, <2>6, <2>7
<1> HIDE DEF all, more
<1>7. \A e \in ToSet(todo) : e \in Entries /\ (e \in OkEntries <=> Load(e) = "ok")
  BY Items DEF OkEntries
<1>8. ASSUME NEW c \in ToSet(more)
      PROVE  (c.is_top => IsTop(c)) /\ \E s \in CrateOf[h] : Agree(c, s)
  <2>1. PICK e \in ToSet(todo) : e \in OkEntries /\ c \in ToSet(Declared[e])
    BY <1>6
  <2>2. e \in Entries /\ Load(e) = "ok" /\ (e.is_top => IsTop(e))
    BY <1>1, <1>7, <2>1 DEF Trail
  <2>3. PICK r \in CrateOf[h] : Agree(e, r)
    BY <1>1 DEF Trail
  <2>4. Closes(CrateOf[h], Roots[h])
    BY CrateIs
  <2>5. r \in RustFiles
    BY <2>4 DEF Closes
  <2>6. (\E s \in RustModules(r) : Agree(c, s)) /\ ~c.is_top
    BY <2>1, <2>2, <2>3, <2>5, ModulesAgree
  <2>7. Load(r) = "ok"
    BY <2>2, <2>3 DEF Load, Agree
  <2>8. RustModules(r) \subseteq CrateOf[h]
    BY <2>4, <2>7 DEF Closes, More
  <2> QED BY <2>6, <2>8
<1>9. Trail(h, all, more)
  <2>1. SerialWalk[<<more, OkPaths(all)>>] = SerialPackage(h)
    BY <1>1, <1>5 DEF Trail
  <2>2. ToSet(Tops(h)) \subseteq ToSet(all) \cup ToSet(more)
    BY <1>1, <1>3 DEF Trail
  <2>3. \A e \in ToSet(all) \cup ToSet(more) :
          (e.is_top => IsTop(e)) /\ \E r \in CrateOf[h] : Agree(e, r)
    BY <1>1, <1>3, <1>8 DEF Trail
  <2>4. \A e \in ToSet(all) : Load(e) = "ok" => ToSet(Declared[e]) \subseteq ToSet(all) \cup ToSet(more)
    BY <1>1, <1>3, <1>6, <1>7 DEF Trail
  <2> QED BY <2>1, <2>2, <2>3, <2>4 DEF Trail
<1>10. <<h, all, more>> \in Trails
  BY <1>2, <1>9, TrailIs
<1> QED BY <1>2, <1>10 DEF all, more

\* A trail with nothing left has walked the whole crate.
LEMMA TrailEnd ==
    ASSUME inv \in Invocations, NEW h \in Members, NEW seen \in Seq(Entries),
           <<h, seen, <<>>>> \in Trails
    PROVE  h \in Complete /\ FilesOf[h] = OkPaths(seen)
<1> DEFINE none == <<>>
           d == OkPaths(seen)
           C == CrateOf[h]
<1>1. none \in Seq(Entries) /\ ToSet(none) = {}
  BY DEF ToSet
<1>2. Trail(h, seen, none)
  BY <1>1, TrailIs
<1>3. d \in Seq(Paths)
  BY NextOfType
<1>4. SerialWalk[<<none, d>>] = [is |-> "ok", value |-> d]
  BY <1>1, <1>3, SerialWalkIs DEF WalkOn
<1>5. SerialOf[h] = [is |-> "ok", value |-> d]
  BY <1>2, <1>4 DEF Trail, SerialOf
<1>6. FilesOf[h] = d
  BY <1>3, <1>5 DEF FilesOf
<1>7. ToSet(d) = {e.path : e \in {e \in ToSet(seen) : Load(e) = "ok"}}
  <2> DEFINE ok == Only(seen, OkEntries)
  <2>1. ok \in Seq(Entries) /\ ToSet(ok) = ToSet(seen) \cap OkEntries
    BY OnlyType
  <2> HIDE DEF ok
  <2>2. DOMAIN Map(PathOf, ok) = DOMAIN ok /\ \A i \in DOMAIN ok : Map(PathOf, ok)[i] = PathOf[ok[i]]
    BY <2>1, EntrySets, MapType DEF Map
  <2>3. \A i \in DOMAIN ok : PathOf[ok[i]] = ok[i].path
    BY <2>1 DEF PathOf
  <2>4. ToSet(d) = {e.path : e \in ToSet(ok)}
    BY <2>2, <2>3 DEF ToSet, OkPaths, ok
  <2>5. ToSet(ok) = {e \in ToSet(seen) : Load(e) = "ok"}
    BY <2>1, Items DEF OkEntries
  <2> QED BY <2>4, <2>5
<1>8. Closes(C, Roots[h]) /\ Roots[h] \in SUBSET RustFiles
  BY CrateIs
<1>9. \A e \in ToSet(seen) : e \in Entries /\ (e.is_top => IsTop(e)) /\ \E r \in C : Agree(e, r)
  BY <1>2, Items DEF Trail
<1>10. \A e, r : Agree(e, r) => e.path = r.path /\ Load(e) = Load(r)
  BY DEF Agree, Load
<1> DEFINE Y == {r \in C : \E e \in ToSet(seen) : Agree(e, r)}
<1>11. Roots[h] \subseteq Y
  <2> SUFFICES ASSUME NEW r \in Roots[h] PROVE r \in Y
    OBVIOUS
  <2>1. PICK t \in {t \in h.targets : t.kinds \cap MutatedKinds # {}} :
            r = [path |-> t.path, owns_dir |-> TRUE]
    BY DEF Roots
  <2> DEFINE e == [path |-> t.path, is_top |-> TRUE]
  <2>2. e \in ToSet(Tops(h))
    BY TopsType DEF Members
  <2>3. e \in ToSet(seen)
    BY <1>1, <1>2, <2>2 DEF Trail
  <2>4. e.path = r.path /\ e.is_top = TRUE /\ r.owns_dir = TRUE
    BY <2>1
  <2> HIDE DEF e
  <2>5. Agree(e, r)
    BY <2>4 DEF Agree
  <2>6. r \in C
    BY <1>8 DEF Closes
  <2> QED BY <2>3, <2>5, <2>6
<1>12. More(Y) \subseteq Y
  <2> SUFFICES ASSUME NEW r \in Y, Load(r) = "ok", NEW s \in RustModules(r) PROVE s \in Y
    BY DEF More
  <2>1. PICK e \in ToSet(seen) : Agree(e, r)
    OBVIOUS
  <2>2. r \in C /\ r \in RustFiles
    BY <1>8 DEF Closes
  <2>3. Load(e) = "ok" /\ e \in Entries /\ (e.is_top => IsTop(e))
    BY <1>9, <1>10, <2>1
  <2>4. PICK c \in ToSet(Declared[e]) : Agree(c, s)
    BY <2>1, <2>2, <2>3, ModulesAgree
  <2>5. c \in ToSet(seen)
    BY <1>1, <1>2, <2>3 DEF Trail
  <2>6. s \in C
    BY <1>8, <2>2 DEF Closes, More
  <2> QED BY <2>4, <2>5, <2>6
<1>13. C \subseteq Y
  <2>1. Y \in SUBSET RustFiles
    BY <1>8 DEF Closes
  <2> HIDE DEF Y, C
  <2> QED BY <1>8, <1>11, <1>12, <2>1 DEF Closes
<1>14. CrateFilesOf[h] = {f.path : f \in {f \in C : Load(f) = "ok"}}
  BY DEF CrateFilesOf
<1>15. ToSet(d) = CrateFilesOf[h]
  <2> HIDE DEF d, C
  <2>1. \A r \in C : \E e \in ToSet(seen) : Agree(e, r)
    BY <1>13
  <2> QED BY <1>7, <1>9, <1>10, <1>14, <2>1
<1> QED BY <1>3, <1>5, <1>6, <1>15 DEF Complete

-----------------------------------------------------------------------------
(* What the walk has come to *)

\* The mutants in the files of a package, less those that globs leave out.
MutantsFrom ==
    [x \in Members \X SUBSET Paths |-> UNION {ToSet(MutantsOf(x[1], f)) : f \in x[2] \cap AllowedPaths}]

WholeMutants == [p \in Members |-> MutantsFrom[<<p, ToSet(FilesOf[p])>>]]

FilesAfter(before, seen) ==
    Only(FlattenSeq(Map(FilesOf, before)) \o OkPaths(seen), AllowedPaths)
MutantsAfter(before, rest, seen) ==
    (UNION {WholeMutants[p] : p \in ToSet(before)})
      \cup (IF rest = <<>> THEN {} ELSE MutantsFrom[<<Head(rest), ToSet(OkPaths(seen))>>])

\* After some packages, and some entries of the first of the rest.
FilesHeld == [x \in Seq(Members) \X Seq(Entries) |-> FilesAfter(x[1], x[2])]
MutantsHeld ==
    [x \in Seq(Members) \X Seq(Members) \X Seq(Entries) |-> MutantsAfter(x[1], x[2], x[3])]

Journey ==
    \E before \in Seq(Members), seen \in Seq(Entries) :
        /\ Selected = before \o packages
        /\ ToSet(before) \subseteq Complete
        /\ files = FilesHeld[<<before, seen>>]
        /\ ToSet(mutants) = MutantsHeld[<<before, packages, seen>>]
        /\ stage = "package" => seen = <<>>
        /\ stage \in {"level", "walking"} =>
              /\ packages # <<>>
              /\ <<Head(packages), seen, IF stage = "walking" THEN level ELSE pending>> \in Trails

\* The mutants of files, set by set.
LEMMA MutantsFromIs ==
    ASSUME inv \in Invocations, NEW p \in Members
    PROVE  /\ MutantsFrom[<<p, {}>>] = {}
           /\ \A F \in SUBSET Paths :
                 MutantsFrom[<<p, F>>] = UNION {ToSet(MutantsOf(p, f)) : f \in F \cap AllowedPaths}
           /\ \A F, G \in SUBSET Paths :
                 MutantsFrom[<<p, F \cup G>>] = MutantsFrom[<<p, F>>] \cup MutantsFrom[<<p, G>>]
<1>1. ASSUME NEW F \in SUBSET Paths
      PROVE  MutantsFrom[<<p, F>>] = UNION {ToSet(MutantsOf(p, f)) : f \in F \cap AllowedPaths}
  <2> DEFINE x == <<p, F>>
  <2>1. x \in Members \X SUBSET Paths /\ x[1] = p /\ x[2] = F
    OBVIOUS
  <2> HIDE DEF x
  <2>2. MutantsFrom[x] = UNION {ToSet(MutantsOf(x[1], f)) : f \in x[2] \cap AllowedPaths}
    BY <2>1 DEF MutantsFrom
  <2> QED BY <2>1, <2>2 DEF x
<1> DEFINE none == {}
<1>2. none \in SUBSET Paths /\ UNION {ToSet(MutantsOf(p, f)) : f \in none \cap AllowedPaths} = none
  OBVIOUS
<1> HIDE DEF none
<1>3. MutantsFrom[<<p, none>>] = none
  BY <1>1, <1>2
<1> QED BY <1>1, <1>3 DEF none

\* FilesHeld and MutantsHeld at their arguments.
LEMMA HeldIs ==
    ASSUME inv \in Invocations, NEW before \in Seq(Members), NEW rest \in Seq(Members),
           NEW seen \in Seq(Entries)
    PROVE  /\ FilesHeld[<<before, seen>>] = FilesAfter(before, seen)
           /\ MutantsHeld[<<before, rest, seen>>] = MutantsAfter(before, rest, seen)
<1> DEFINE x == <<before, seen>>
           y == <<before, rest, seen>>
<1>1. x \in Seq(Members) \X Seq(Entries) /\ x[1] = before /\ x[2] = seen
      /\ y \in Seq(Members) \X Seq(Members) \X Seq(Entries) /\ y[1] = before /\ y[2] = rest /\ y[3] = seen
  OBVIOUS
<1> HIDE DEF x, y
<1>2. FilesHeld[x] = FilesAfter(x[1], x[2])
  BY <1>1 DEF FilesHeld
<1>3. MutantsHeld[y] = MutantsAfter(y[1], y[2], y[3])
  BY <1>1 DEF MutantsHeld
<1> QED BY <1>1, <1>2, <1>3 DEF x, y

\* The files of each package are a sequence.
LEMMA FilesOfType ==
    ASSUME inv \in Invocations
    PROVE  FilesOf \in [Members -> Seq(Paths)]
<1> SUFFICES ASSUME NEW p \in Members PROVE FilesOf[p] \in Seq(Paths)
  BY DEF FilesOf
<1>1. CASE \E d \in Seq(Paths) : SerialOf[p] = [is |-> "ok", value |-> d]
  <2>1. PICK d \in Seq(Paths) : SerialOf[p] = [is |-> "ok", value |-> d]
    BY <1>1
  <2>2. FilesOf[p] = SerialOf[p].value
    BY <1>1 DEF FilesOf
  <2> QED BY <2>1, <2>2
<1>2. CASE ~\E d \in Seq(Paths) : SerialOf[p] = [is |-> "ok", value |-> d]
  <2>1. FilesOf[p] = <<>>
    BY <1>2 DEF FilesOf
  <2> QED BY <2>1
<1> QED BY <1>1, <1>2

\* The files of some packages, one package after the other.
LEMMA FilesBefore ==
    ASSUME inv \in Invocations, NEW before \in Seq(Members)
    PROVE  /\ Map(FilesOf, before) \in Seq(Seq(Paths))
           /\ FlattenSeq(Map(FilesOf, before)) \in Seq(Paths)
           /\ ToSet(FlattenSeq(Map(FilesOf, before))) = UNION {ToSet(FilesOf[p]) : p \in ToSet(before)}
<1> DEFINE ss == Map(FilesOf, before)
<1>1. Map(FilesOf, before) \in Seq(Seq(Paths))
  BY FilesOfType, MapType
<1>2. DOMAIN ss = DOMAIN before /\ \A i \in DOMAIN ss : ss[i] = FilesOf[before[i]]
  BY DEF Map
<1>3. ss \in Seq(Seq(Paths))
  BY <1>1
<1> HIDE DEF ss
<1>4. FlattenSeq(ss) \in Seq(Paths) /\ ToSet(FlattenSeq(ss)) = UNION {ToSet(ss[i]) : i \in DOMAIN ss}
  BY <1>3, FlattenType, FlattenItems
<1>5. UNION {ToSet(ss[i]) : i \in DOMAIN ss} = UNION {ToSet(FilesOf[p]) : p \in ToSet(before)}
  <2>1. \A i \in DOMAIN before : ToSet(ss[i]) = ToSet(FilesOf[before[i]])
    BY <1>2
  <2>2. ToSet(before) = {before[i] : i \in DOMAIN before}
    BY DEF ToSet
  <2> QED BY <1>2, <2>1, <2>2
<1> QED BY <1>3, <1>4, <1>5 DEF ss

\* At the start nothing is held.
LEMMA HeldStart ==
    ASSUME inv \in Invocations, NEW rest \in Seq(Members)
    PROVE  /\ FilesHeld[<<<<>>, <<>>>>] = <<>> /\ MutantsHeld[<<<<>>, rest, <<>>>>] = {}
           /\ <<>> \in Seq(Members) /\ <<>> \in Seq(Entries)
<1> DEFINE none == <<>>
<1>1. none \in Seq(Members) /\ none \in Seq(Entries) /\ none \in Seq(Paths) /\ none \o none = none
      /\ ToSet(none) = {} /\ Map(FilesOf, none) = none /\ OkPaths(none) = none
  BY NoEntries DEF ToSet, Map
<1>2. FlattenSeq(none) = none /\ Only(none, AllowedPaths) = none
  BY FlattenEmpty, OnlyEmpty
<1>3. rest # none => Head(rest) \in Members
  OBVIOUS
<1> HIDE DEF none
<1>4. FilesHeld[<<none, none>>] = none
  <2>1. FilesHeld[<<none, none>>] = FilesAfter(none, none)
    BY <1>1, HeldIs
  <2>2. FilesAfter(none, none) = none
    BY <1>1, <1>2 DEF FilesAfter
  <2> QED BY <2>1, <2>2
<1>5. MutantsHeld[<<none, rest, none>>] = {}
  <2>1. MutantsHeld[<<none, rest, none>>] =
           (UNION {WholeMutants[p] : p \in ToSet(none)})
             \cup (IF rest = none THEN {} ELSE MutantsFrom[<<Head(rest), ToSet(OkPaths(none))>>])
    <3>1. MutantsHeld[<<none, rest, none>>] = MutantsAfter(none, rest, none)
      BY <1>1, HeldIs
    <3> QED BY <3>1 DEF MutantsAfter, none
  <2>2. rest # none => MutantsFrom[<<Head(rest), {}>>] = {}
    BY <1>3, MutantsFromIs
  <2> QED BY <1>1, <2>1, <2>2
<1> QED BY <1>1, <1>4, <1>5 DEF none

\* When a package ends what is held is told from it as a whole.
LEMMA HeldPackage ==
    ASSUME inv \in Invocations, NEW before \in Seq(Members), NEW rest \in Seq(Members), rest # <<>>,
           NEW seen \in Seq(Entries), FilesOf[Head(rest)] = OkPaths(seen)
    PROVE  /\ Append(before, Head(rest)) \in Seq(Members) /\ Tail(rest) \in Seq(Members)
           /\ before \o rest = Append(before, Head(rest)) \o Tail(rest)
           /\ FilesHeld[<<Append(before, Head(rest)), <<>>>>] = FilesHeld[<<before, seen>>]
           /\ MutantsHeld[<<Append(before, Head(rest)), Tail(rest), <<>>>>]
                 = MutantsHeld[<<before, rest, seen>>]
<1> DEFINE h == Head(rest)
           b == Append(before, h)
           r == Tail(rest)
           none == <<>>
<1>1. h \in Members /\ r \in Seq(Members) /\ b \in Seq(Members) /\ before \o rest = b \o r
  OBVIOUS
<1>2. none \in Seq(Entries) /\ OkPaths(none) = none /\ ToSet(none) = {}
  BY NoEntries DEF ToSet
<1>3. OkPaths(seen) \in Seq(Paths) /\ OkPaths(seen) = FilesOf[h]
  BY NextOfType
<1>4. Map(FilesOf, b) = Append(Map(FilesOf, before), FilesOf[h])
  BY <1>1, MapAppend
<1>5. ToSet(b) = ToSet(before) \cup {h}
  BY <1>1, AppendItems
<1>6. Map(FilesOf, before) \in Seq(Seq(Paths)) /\ FlattenSeq(Map(FilesOf, b)) \in Seq(Paths)
  BY <1>1, FilesBefore
<1> HIDE DEF b, h, r, none
<1>7. FlattenSeq(Map(FilesOf, b)) = FlattenSeq(Map(FilesOf, before)) \o FilesOf[h]
  <2> DEFINE ss == Map(FilesOf, before)
             s == FilesOf[h]
  <2>1. ss \in Seq(Seq(Paths)) /\ s \in Seq(Paths)
    BY <1>3, <1>6
  <2> HIDE DEF ss, s
  <2>2. FlattenSeq(Append(ss, s)) = FlattenSeq(ss) \o s
    BY <2>1, FlattenAppend
  <2> QED BY <1>4, <2>2 DEF ss, s
<1>8. FilesHeld[<<b, none>>] = FilesHeld[<<before, seen>>]
  <2>1. FilesHeld[<<b, none>>] = Only(FlattenSeq(Map(FilesOf, b)) \o OkPaths(none), AllowedPaths)
    BY <1>1, <1>2, HeldIs DEF FilesAfter
  <2>2. FilesHeld[<<before, seen>>] = Only(FlattenSeq(Map(FilesOf, before)) \o OkPaths(seen), AllowedPaths)
    BY HeldIs DEF FilesAfter
  <2>3. FlattenSeq(Map(FilesOf, b)) \o OkPaths(none) = FlattenSeq(Map(FilesOf, b))
    BY <1>2, <1>6 DEF none
  <2> QED BY <1>3, <1>7, <2>1, <2>2, <2>3
<1>9. MutantsHeld[<<b, r, none>>] = MutantsHeld[<<before, rest, seen>>]
  <2>1. MutantsHeld[<<b, r, none>>] = (UNION {WholeMutants[p] : p \in ToSet(b)})
          \cup (IF r = <<>> THEN {} ELSE MutantsFrom[<<Head(r), ToSet(OkPaths(none))>>])
    <3>1. MutantsHeld[<<b, r, none>>] = MutantsAfter(b, r, none)
      BY <1>1, <1>2, HeldIs
    <3> QED BY <3>1 DEF MutantsAfter
  <2>2. MutantsHeld[<<before, rest, seen>>] = (UNION {WholeMutants[p] : p \in ToSet(before)})
          \cup MutantsFrom[<<Head(rest), ToSet(OkPaths(seen))>>]
    <3>1. MutantsHeld[<<before, rest, seen>>] = MutantsAfter(before, rest, seen)
      BY HeldIs
    <3> QED BY <3>1 DEF MutantsAfter
  <2>3. r # <<>> => MutantsFrom[<<Head(r), ToSet(OkPaths(none))>>] = {}
    <3>1. r # <<>> => Head(r) \in Members
      BY <1>1
    <3> QED BY <1>2, <3>1, MutantsFromIs
  <2>4. WholeMutants[h] = MutantsFrom[<<Head(rest), ToSet(OkPaths(seen))>>]
    BY <1>1, <1>3 DEF h, WholeMutants
  <2>5. (UNION {WholeMutants[p] : p \in ToSet(b)})
           = (UNION {WholeMutants[p] : p \in ToSet(before)}) \cup WholeMutants[h]
    <3> DEFINE S == ToSet(b)
               T == ToSet(before)
    <3>1. S = T \cup {h}
      BY <1>5
    <3> HIDE DEF S, T
    <3>2. UNION {WholeMutants[p] : p \in S} = (UNION {WholeMutants[p] : p \in T}) \cup WholeMutants[h]
      BY <3>1
    <3> QED BY <3>2 DEF S, T
  <2> QED BY <2>1, <2>2, <2>3, <2>4, <2>5
<1> QED BY <1>1, <1>8, <1>9 DEF b, h, r, none

Regroups(r, s, t) == (r \o s) \o t = r \o (s \o t)

\* Concatenation is associative.
LEMMA ConcatRegroups ==
    ASSUME NEW A, NEW r \in Seq(A), NEW s \in Seq(A), NEW t \in Seq(A)
    PROVE  Regroups(r, s, t)
BY DEF Regroups

Distributes(s, t, S) == Only(s \o t, S) = Only(s, S) \o Only(t, S)

\* Only, of a concatenation.
LEMMA OnlyDistributes ==
    ASSUME NEW A, NEW s \in Seq(A), NEW t \in Seq(A), NEW S
    PROVE  Distributes(s, t, S)
BY OnlyConcat DEF Distributes

Adds(p, F, G) == MutantsFrom[<<p, F \cup G>>] = MutantsFrom[<<p, F>>] \cup MutantsFrom[<<p, G>>]

\* The mutants of more files.
LEMMA MutantsAdd ==
    ASSUME inv \in Invocations, NEW p \in Members, NEW F \in SUBSET Paths, NEW G \in SUBSET Paths
    PROVE  Adds(p, F, G)
<1> DEFINE H == F \cup G
           M(X) == UNION {ToSet(MutantsOf(p, f)) : f \in X \cap AllowedPaths}
<1>1. H \in SUBSET Paths
  OBVIOUS
<1> HIDE DEF H
<1>2. MutantsFrom[<<p, H>>] = M(H) /\ MutantsFrom[<<p, F>>] = M(F) /\ MutantsFrom[<<p, G>>] = M(G)
  BY <1>1, MutantsFromIs
<1>3. M(H) = M(F) \cup M(G)
  BY DEF H
<1> QED BY <1>2, <1>3 DEF Adds, H

\* The mutants of a file are a sequence.
LEMMA MutantsOfIs ==
    ASSUME inv \in Invocations, NEW p, NEW f \in Paths
    PROVE  IsSeq(MutantsOf(p, f))
<1> DEFINE found == FileAt(Tree, f)[1].mutants
           made(m) == [package |-> p.name, path |-> f, name |-> m.name, first |-> m.first, last |-> m.last]
           s == [i \in DOMAIN found |-> made(found[i])]
           A == {made(m) : m \in ToSet(found)}
<1>1. MutantsOf(p, f) = s
  BY DEF MutantsOf
<1>2. FileAt(Tree, f)[1] \in ToSet(Tree.files)
  BY TreeIs, FileIs DEF PathsOf
<1>3. IsSeq(found)
  BY <1>2, TreeIs DEF IsWorkspace
<1> HIDE DEF found, made
<1>4. s \in Seq(A)
  BY <1>3 DEF IsSeq
<1> HIDE DEF s, A
<1>5. s \in Seq(ToSet(s))
  BY <1>4, Items
<1> QED BY <1>1, <1>5 DEF IsSeq

\* The items of two sequences of any kind.
LEMMA Together ==
    ASSUME NEW s, NEW t, IsSeq(s), IsSeq(t)
    PROVE  IsSeq(s \o t) /\ ToSet(s \o t) = ToSet(s) \cup ToSet(t)
<1> DEFINE A == ToSet(s) \cup ToSet(t)
           u == s \o t
<1>1. ToSet(s) \subseteq A /\ ToSet(t) \subseteq A /\ s \in Seq(ToSet(s)) /\ t \in Seq(ToSet(t))
  BY DEF IsSeq
<1> HIDE DEF A
<1>2. s \in Seq(A) /\ t \in Seq(A)
  BY <1>1
<1>3. s \o t \in Seq(A) /\ ToSet(s \o t) = ToSet(s) \cup ToSet(t)
  BY <1>2, ConcatItems
<1>4. u \in Seq(A)
  BY <1>3
<1> HIDE DEF u
<1>5. u \in Seq(ToSet(u))
  BY <1>4, Items
<1> QED BY <1>3, <1>5 DEF u, IsSeq

\* The files and mutants that a level adds.
LEMMA AllowedPathsAre ==
    ASSUME inv \in Invocations, level \in Seq(Entries), results = Map(WalkOf, level)
    PROVE  /\ [i \in DOMAIN Allowed |-> Allowed[i].entry.path] = Only(OkPaths(level), AllowedPaths)
           /\ OkPaths(level) \in Seq(Paths)
<1> DEFINE ok == Only(level, OkEntries)
           S == {e \in Entries : e.path \in AllowedPaths}
           a == Only(ok, S)
           I == {i \in DOMAIN ok : ok[i] \in S}
           J == {i \in DOMAIN Map(PathOf, ok) : Map(PathOf, ok)[i] \in AllowedPaths}
<1>1. ok \in Seq(Entries) /\ OkPaths(level) = Map(PathOf, ok) /\ OkPaths(level) \in Seq(Paths)
  BY NextOfType DEF OkPaths
<1>2. [i \in DOMAIN Allowed |-> Allowed[i].entry] = a /\ DOMAIN Allowed = DOMAIN a
  BY LevelResults
<1> HIDE DEF ok
<1>3. a \in Seq(Entries)
  BY <1>1, OnlyType
<1>4. I = J
  <2>1. DOMAIN Map(PathOf, ok) = DOMAIN ok /\ \A i \in DOMAIN ok : Map(PathOf, ok)[i] = PathOf[ok[i]]
    BY DEF Map
  <2>2. \A i \in DOMAIN ok : ok[i] \in Entries /\ PathOf[ok[i]] = ok[i].path
    BY <1>1 DEF PathOf
  <2>3. \A i \in DOMAIN ok : ok[i] \in S <=> Map(PathOf, ok)[i] \in AllowedPaths
    BY <2>1, <2>2
  <2> HIDE DEF S
  <2> QED BY <2>1, <2>3
<1>5. Only(Map(PathOf, ok), AllowedPaths) = Map(PathOf, a)
  <2>1. Only(Map(PathOf, ok), AllowedPaths) = Pick(Map(PathOf, ok), J)
    BY DEF Only
  <2>2. a = Pick(ok, I)
    BY DEF Only
  <2> HIDE DEF I, J, a
  <2>3. Pick(Map(PathOf, ok), I) = Map(PathOf, Pick(ok, I))
    BY <1>1, PickMap
  <2> QED BY <1>4, <2>1, <2>2, <2>3
<1> HIDE DEF a
<1>6. \A i \in DOMAIN a : Allowed[i].entry = a[i] /\ a[i] \in Entries
  BY <1>2, <1>3
<1>7. [i \in DOMAIN Allowed |-> Allowed[i].entry.path] = Map(PathOf, a)
  <2>1. \A i \in DOMAIN a : Allowed[i].entry.path = PathOf[a[i]]
    BY <1>6 DEF PathOf
  <2> QED BY <1>2, <2>1 DEF Map
<1> QED BY <1>1, <1>5, <1>7

\* What a level adds to files and mutants.
LEMMA HeldLevel ==
    ASSUME inv \in Invocations, level \in Seq(Entries), results = Map(WalkOf, level),
           packages \in Seq(Members), packages # <<>>, NEW before \in Seq(Members), NEW seen \in Seq(Entries),
           files = FilesHeld[<<before, seen>>], IsSeq(mutants),
           ToSet(mutants) = MutantsHeld[<<before, packages, seen>>],
           NEW fs, fs = files \o [i \in DOMAIN Allowed |-> Allowed[i].entry.path],
           NEW ms, ms = mutants \o FlattenSeq([i \in DOMAIN Allowed |->
                               MutantsOf(Head(packages), Allowed[i].entry.path)])
    PROVE  /\ fs = FilesHeld[<<before, seen \o level>>]
           /\ IsSeq(ms) /\ ToSet(ms) = MutantsHeld[<<before, packages, seen \o level>>]
<1> DEFINE ps == [i \in DOMAIN Allowed |-> Allowed[i].entry.path]
           all == seen \o level
           F == FlattenSeq(Map(FilesOf, before))
           s == OkPaths(seen)
           l == OkPaths(level)
           h == Head(packages)
<1>1. ps = Only(l, AllowedPaths) /\ l \in Seq(Paths)
  BY AllowedPathsAre
<1>2. F \in Seq(Paths) /\ s \in Seq(Paths)
  BY FilesBefore, NextOfType
<1>3. all \in Seq(Entries) /\ OkPaths(all) = s \o l
  BY OkPathsConcat
<1>4. h \in Members
  OBVIOUS
<1>5. ps \in Seq(Paths) /\ ToSet(ps) = ToSet(l) \cap AllowedPaths
  <2> HIDE DEF l, ps
  <2> QED BY <1>1, OnlyType
<1>6. ToSet(s \o l) = ToSet(s) \cup ToSet(l) /\ ToSet(s) \subseteq Paths /\ ToSet(l) \subseteq Paths
  <2> HIDE DEF s, l
  <2> QED BY <1>1, <1>2, ConcatItems, Items
<1>7. fs = FilesHeld[<<before, all>>]
  <2> DEFINE u == F \o s
  <2>1. u \in Seq(Paths) /\ u \o l = F \o (s \o l)
    <3> HIDE DEF F, s, l
    <3>1. F \o s \in Seq(Paths)
      BY <1>2
    <3>2. Regroups(F, s, l)
      BY <1>1, <1>2, ConcatRegroups
    <3> QED BY <3>1, <3>2 DEF Regroups
  <2>2. FilesHeld[<<before, seen>>] = Only(u, AllowedPaths)
    BY HeldIs DEF FilesAfter
  <2>3. FilesHeld[<<before, all>>] = Only(F \o OkPaths(all), AllowedPaths)
    <3> HIDE DEF all
    <3>1. FilesHeld[<<before, all>>] = FilesAfter(before, all)
      BY <1>3, HeldIs
    <3> QED BY <3>1 DEF FilesAfter
  <2>4. fs = FilesHeld[<<before, seen>>] \o ps
    OBVIOUS
  <2> HIDE DEF u, l, ps, all, F, s
  <2>5. Only(u \o l, AllowedPaths) = Only(u, AllowedPaths) \o Only(l, AllowedPaths)
    <3>1. Distributes(u, l, AllowedPaths)
      BY <1>1, <2>1, OnlyDistributes
    <3> QED BY <3>1 DEF Distributes
  <2> QED BY <1>1, <1>3, <2>1, <2>2, <2>3, <2>4, <2>5
<1> DEFINE mm == [i \in DOMAIN Allowed |-> MutantsOf(h, Allowed[i].entry.path)]
           W == UNION {ToSet(MutantsOf(h, f)) : f \in Paths}
<1>8. DOMAIN mm = DOMAIN ps /\ \A i \in DOMAIN mm : mm[i] = MutantsOf(h, ps[i])
  OBVIOUS
<1>9. ms = mutants \o FlattenSeq(mm)
  OBVIOUS
<1>10. \A f \in Paths : MutantsOf(h, f) \in Seq(W)
  <2> SUFFICES ASSUME NEW f \in Paths PROVE MutantsOf(h, f) \in Seq(W)
    OBVIOUS
  <2>1. ToSet(MutantsOf(h, f)) \subseteq W
    OBVIOUS
  <2>2. MutantsOf(h, f) \in Seq(ToSet(MutantsOf(h, f)))
    BY MutantsOfIs DEF IsSeq
  <2> HIDE DEF W, h
  <2> QED BY <2>1, <2>2
<1>11. mm \in Seq(Seq(W))
  <2> HIDE DEF W, h, ps
  <2>1. \A i \in DOMAIN ps : ps[i] \in Paths
    BY <1>5
  <2>2. \A i \in DOMAIN mm : mm[i] \in Seq(W)
    BY <1>8, <1>10, <2>1
  <2>3. mm = [i \in DOMAIN mm |-> mm[i]] /\ DOMAIN mm = 1 .. Len(ps) /\ Len(ps) \in Nat
    BY <1>5, <1>8
  <2> DEFINE n == Len(ps)
  <2> HIDE DEF mm, n
  <2>4. mm \in [1 .. n -> Seq(W)] /\ n \in Nat
    BY <2>2, <2>3 DEF n
  <2> QED BY <2>4
<1>12. ToSet(FlattenSeq(mm)) = MutantsFrom[<<h, ToSet(l)>>] /\ IsSeq(FlattenSeq(mm))
  <2>1. MutantsFrom[<<h, ToSet(l)>>] = UNION {ToSet(MutantsOf(h, f)) : f \in ToSet(l) \cap AllowedPaths}
    BY <1>4, <1>6, MutantsFromIs
  <2>2. UNION {ToSet(mm[i]) : i \in DOMAIN mm} = UNION {ToSet(MutantsOf(h, f)) : f \in ToSet(ps)}
    <3> HIDE DEF mm, ps, h
    <3>1. \A i \in DOMAIN ps : ToSet(mm[i]) = ToSet(MutantsOf(h, ps[i]))
      BY <1>8
    <3>2. ToSet(ps) = {ps[i] : i \in DOMAIN ps}
      BY DEF ToSet
    <3> QED BY <1>8, <3>1, <3>2
  <2> HIDE DEF mm, ps, h, W, l
  <2>3. FlattenSeq(mm) \in Seq(W) /\ ToSet(FlattenSeq(mm)) = UNION {ToSet(mm[i]) : i \in DOMAIN mm}
    BY <1>11, FlattenType, FlattenItems
  <2> DEFINE u == FlattenSeq(mm)
  <2>4. u \in Seq(W)
    BY <2>3
  <2> HIDE DEF u
  <2>5. u \in Seq(ToSet(u))
    BY <2>4, Items
  <2> QED BY <1>5, <2>1, <2>2, <2>3, <2>5 DEF u, IsSeq
<1>13. IsSeq(ms) /\ ToSet(ms) = ToSet(mutants) \cup ToSet(FlattenSeq(mm))
  <2> DEFINE u == FlattenSeq(mm)
  <2>1. IsSeq(u) /\ ms = mutants \o u
    BY <1>9, <1>12
  <2> HIDE DEF u, mm
  <2>2. IsSeq(mutants \o u) /\ ToSet(mutants \o u) = ToSet(mutants) \cup ToSet(u)
    BY <2>1, Together
  <2> QED BY <2>1, <2>2 DEF u
<1>14. ToSet(ms) = MutantsHeld[<<before, packages, all>>]
  <2> DEFINE U == UNION {WholeMutants[p] : p \in ToSet(before)}
  <2>1. MutantsHeld[<<before, packages, seen>>] = U \cup MutantsFrom[<<h, ToSet(s)>>]
    <3>1. MutantsHeld[<<before, packages, seen>>] = MutantsAfter(before, packages, seen)
      BY HeldIs
    <3> QED BY <3>1 DEF MutantsAfter
  <2>2. MutantsHeld[<<before, packages, all>>] = U \cup MutantsFrom[<<h, ToSet(s \o l)>>]
    <3> HIDE DEF all
    <3>1. MutantsHeld[<<before, packages, all>>] = MutantsAfter(before, packages, all)
      BY <1>3, HeldIs
    <3> QED BY <1>3, <3>1 DEF MutantsAfter
  <2>3. MutantsFrom[<<h, ToSet(s \o l)>>] = MutantsFrom[<<h, ToSet(s)>>] \cup MutantsFrom[<<h, ToSet(l)>>]
    <3> DEFINE A == ToSet(s)
               B == ToSet(l)
    <3>1. A \in SUBSET Paths /\ B \in SUBSET Paths /\ ToSet(s \o l) = A \cup B
      BY <1>6
    <3> HIDE DEF A, B, h
    <3>2. MutantsFrom[<<h, A \cup B>>] = MutantsFrom[<<h, A>>] \cup MutantsFrom[<<h, B>>]
      BY <1>4, <3>1, MutantsAdd DEF Adds
    <3> QED BY <3>1, <3>2 DEF A, B
  <2> HIDE DEF U, mm, all, h, s, l
  <2> QED BY <1>12, <1>13, <2>1, <2>2, <2>3
<1> QED BY <1>7, <1>13, <1>14

AllFiles == Only(FlattenSeq(Map(FilesOf, Selected)), AllowedPaths)
AllMutants == UNION {WholeMutants[p] : p \in ToSet(Selected)}
IteratedMutants == {m \in AllMutants : Args.iterate => m.name \notin inv.caught}
DueMutants == {m \in IteratedMutants : Args.in_diff.is # "none" => Touches(Args.in_diff.patches, m)}
Failure == Kept(Serial, LAMBDA r : r.is # "ok")[1]

\* When no package is left the journey has been through all.
LEMMA JourneyEnds ==
    ASSUME inv \in Invocations, Journey, stage = "package", packages = <<>>
    PROVE  files = AllFiles /\ ToSet(Selected) \subseteq Complete /\ ToSet(mutants) = AllMutants
<1> DEFINE none == <<>>
<1>1. PICK before \in Seq(Members) :
         /\ Selected = before \o packages /\ ToSet(before) \subseteq Complete
         /\ files = FilesHeld[<<before, none>>]
         /\ ToSet(mutants) = MutantsHeld[<<before, packages, none>>]
  BY DEF Journey
<1>2. Selected = before
  BY <1>1
<1>3. none \in Seq(Entries) /\ none \in Seq(Members) /\ OkPaths(none) = none /\ packages = none
  BY NoEntries
<1>4. FlattenSeq(Map(FilesOf, before)) \in Seq(Paths)
  BY FilesBefore
<1> DEFINE F == FlattenSeq(Map(FilesOf, before))
<1>5. F \o none = F
  <2> HIDE DEF F
  <2>1. F \in Seq(Paths)
    BY <1>4 DEF F
  <2> QED BY <2>1
<1> HIDE DEF none
<1>6. FilesHeld[<<before, none>>] = FilesAfter(before, none)
      /\ MutantsHeld[<<before, none, none>>] = MutantsAfter(before, none, none)
  BY <1>3, HeldIs
<1>7. FilesAfter(before, none) = AllFiles
  BY <1>2, <1>3, <1>5 DEF FilesAfter, AllFiles
<1>8. MutantsAfter(before, none, none) = AllMutants
  BY <1>2, <1>3 DEF MutantsAfter, AllMutants, none
<1> QED BY <1>1, <1>2, <1>3, <1>6, <1>7, <1>8

\* The error of the first package that has one.
LEMMA FailureIs ==
    ASSUME inv \in Invocations, NEW before \in Seq(Members), NEW rest \in Seq(Members), rest # <<>>,
           Selected = before \o rest, ToSet(before) \subseteq Complete,
           SerialPackage(Head(rest)).is # "ok"
    PROVE  Failure = SerialPackage(Head(rest))
<1> DEFINE R == {SerialPackage(p) : p \in Members}
           I == {i \in DOMAIN Serial : Serial[i].is # "ok"}
           k == Len(before) + 1
<1>1. Selected \in Seq(Members) /\ k \in DOMAIN Selected /\ Selected[k] = Head(rest)
      /\ \A i \in DOMAIN Selected : i < k => Selected[i] = before[i] /\ i \in DOMAIN before
  OBVIOUS
<1>2. Serial = [i \in DOMAIN Selected |-> SerialPackage(Selected[i])]
  BY DEF Serial, Selected
<1>3. Serial \in Seq(R) /\ DOMAIN Serial = DOMAIN Selected
  BY <1>1, <1>2
<1>4. \A p \in ToSet(before) : SerialPackage(p).is = "ok"
  <2>1. ASSUME NEW p \in Complete PROVE SerialOf[p].is = "ok" /\ p \in Members
    <3>1. SerialOf[p] = [is |-> "ok", value |-> FilesOf[p]] /\ p \in Members
      BY DEF Complete
    <3> QED BY <3>1
  <2>2. \A p \in Members : SerialOf[p] = SerialPackage(p)
    BY DEF SerialOf
  <2> QED BY <2>1, <2>2
<1>5. \A i \in DOMAIN before : before[i] \in ToSet(before)
  BY DEF ToSet
<1>6. k \in I /\ \A j \in I : k <= j
  <2>1. \A j \in DOMAIN Selected : j \in Nat
    BY <1>1
  <2>2. \A j \in I : ~(j < k)
    BY <1>1, <1>2, <1>3, <1>4, <1>5
  <2>3. k \in I
    BY <1>1, <1>2, <1>3
  <2>4. k \in Nat
    OBVIOUS
  <2> HIDE DEF k
  <2> QED BY <1>3, <2>1, <2>2, <2>3, <2>4
<1>7. Failure = Pick(Serial, I)[1]
  BY DEF Failure, Kept
<1> HIDE DEF R, I, k
<1>8. k \in I \cap DOMAIN Serial /\ \A j \in I \cap DOMAIN Serial : k <= j
  BY <1>1, <1>3, <1>6
<1>9. Pick(Serial, I)[1] = Serial[k]
  BY <1>3, <1>8, PickFirst
<1> QED BY <1>1, <1>2, <1>7, <1>9

\* The error of a level that is read to its end.
LEMMA LevelFails ==
    ASSUME inv \in Invocations, level \in Seq(Entries), results = Map(WalkOf, level),
           \A i \in DOMAIN level : Load(level[i]) # "panics",
           \E i \in DOMAIN results : results[i].is = "unreadable", NEW done \in Seq(Paths)
    PROVE  SerialWalk[<<level, done>>] =
              [is |-> "unreadable",
               value |-> Kept(results, LAMBDA r : r.is = "unreadable")[1].entry.path]
<1> DEFINE I == {i \in DOMAIN results : results[i].is = "unreadable"}
<1>1. DOMAIN results = DOMAIN level /\ \A i \in DOMAIN level : results[i] = WalkOf[level[i]]
  BY DEF Map
<1>2. \A i \in DOMAIN level : level[i] \in Entries /\ i \in Nat
  OBVIOUS
<1>3. ASSUME NEW i \in DOMAIN level
      PROVE  results[i].is = Load(level[i]) /\ results[i].entry = level[i] /\ Load(level[i]) \in Loads
  <2>1. level[i] \in Entries /\ results[i] = WalkOf[level[i]]
    BY <1>1, <1>2
  <2>2. WalkOf[level[i]] = Walk(level[i])
    BY <2>1 DEF WalkOf
  <2>3. Walk(level[i]) = [is |-> Load(level[i]), entry |-> level[i]] /\ Load(level[i]) \in Loads
    BY <2>1, EntryIs
  <2> QED BY <2>1, <2>2, <2>3
<1>4. I = {i \in DOMAIN level : ~Goes(level[i])}
  <2>1. \A i \in DOMAIN level : results[i].is = "unreadable" <=> ~Goes(level[i])
    BY <1>3 DEF Goes, Loads
  <2> QED BY <1>1, <2>1
<1>5. I \in SUBSET Nat /\ I # {}
  BY <1>1, <1>2
<1> HIDE DEF I
<1>6. PICK k \in I : \A j \in I : k <= j
  BY <1>5, Least
<1>7. k \in DOMAIN level /\ ~Goes(level[k]) /\ \A i \in DOMAIN level : i < k => Goes(level[i])
  <2>1. \A i \in DOMAIN level : i < k => i \notin I
    BY <1>2, <1>5, <1>6
  <2> QED BY <1>4, <1>6, <2>1
<1>8. SerialWalk[<<level, done>>] = [is |-> Load(level[k]), value |-> level[k].path]
  BY <1>7, WalkStops
<1>9. Load(level[k]) = "unreadable"
  BY <1>3, <1>7 DEF Goes, Loads
<1>10. results \in Seq(Results)
  BY EntrySets, MapType
<1>11. Pick(results, I)[1] = results[k]
  <2>1. k \in I \cap DOMAIN results /\ \A j \in I \cap DOMAIN results : k <= j
    BY <1>1, <1>6, <1>7
  <2> QED BY <1>10, <2>1, PickFirst
<1>12. Kept(results, LAMBDA r : r.is = "unreadable") = Pick(results, I)
  BY DEF Kept, I
<1>13. results[k].entry = level[k]
  BY <1>3, <1>7
<1> QED BY <1>8, <1>9, <1>11, <1>12, <1>13

\* What is due and what is held are told from the invocation.
LEMMA SameHeld ==
    ASSUME inv' = inv
    PROVE  /\ FilesHeld' = FilesHeld /\ MutantsHeld' = MutantsHeld
           /\ AllFiles' = AllFiles /\ IteratedMutants' = IteratedMutants
           /\ DueMutants' = DueMutants /\ Failure' = Failure
<1>1. Tree' = Tree /\ Args' = Args /\ Paths' = Paths /\ Entries' = Entries
  BY SameTree
<1>2. /\ Members' = Members /\ Selected' = Selected /\ FilesOf' = FilesOf
      /\ AllowedPaths' = AllowedPaths /\ OkEntries' = OkEntries /\ PathOf' = PathOf
  BY SameWalk
<1>3. MutantsFrom' = MutantsFrom
  BY <1>1, <1>2 DEF MutantsFrom, MutantsOf
<1>4. WholeMutants' = WholeMutants
  BY <1>2, <1>3 DEF WholeMutants
<1>5. FilesHeld' = FilesHeld
  BY <1>1, <1>2 DEF FilesHeld, FilesAfter, OkPaths
<1>6. MutantsHeld' = MutantsHeld
  BY <1>1, <1>2, <1>3, <1>4 DEF MutantsHeld, MutantsAfter, OkPaths
<1>7. AllFiles' = AllFiles
  BY <1>2 DEF AllFiles
<1>8. AllMutants' = AllMutants
  BY <1>2, <1>4 DEF AllMutants
<1>9. IteratedMutants' = IteratedMutants
  BY <1>1, <1>8 DEF IteratedMutants
<1>10. DueMutants' = DueMutants
  BY <1>1, <1>9 DEF DueMutants
<1>11. SerialWalk' = SerialWalk
  BY <1>1 DEF SerialWalk, Load
<1>12. Serial' = Serial
  BY <1>1, <1>11 DEF Serial, SerialPackage
<1>13. Failure' = Failure
  BY <1>12 DEF Failure, Kept
<1> QED BY <1>5, <1>6, <1>7, <1>9, <1>10, <1>13

-----------------------------------------------------------------------------
(* What holds at each stage *)

Mine == stage \in {"package", "level", "walking"} => Journey

Ready ==
    stage \in {"files", "diff", "shard"} \/ (Args.mode = "run" /\ output.is \in {"files", "listed", "tested"}) =>
        files = AllFiles /\ ToSet(Selected) \subseteq Complete

Left ==
    /\ IsSeq(mutants)
    /\ stage = "start" => files = <<>> /\ mutants = <<>>
    /\ stage \in {"files", "diff"} => ToSet(mutants) = IteratedMutants
    /\ stage = "shard" => ToSet(mutants) = DueMutants /\ Args.in_diff.is \in {"none", "diff"}

Out ==
    /\ stage # "ended" => output = NoOutput
    /\ output.is = "unreadable" => output = Failure
    /\ Args.mode = "run" /\ output.is \in {"listed", "tested"} =>
          /\ Args.in_diff.is \in {"none", "diff"}
          /\ ToSet(output.value) \subseteq DueMutants
          /\ Args.shard = <<>> => ToSet(output.value) = DueMutants
    /\ Args.mode = "run" /\ output.is = "exit" /\ output.value = "Success" =>
          /\ ToSet(Selected) \subseteq Complete /\ DueMutants = {}
          /\ Args.in_diff.is \in {"none", "diff"}

Progress == Mine /\ Ready /\ Left /\ Out

\* Before main starts nothing is held.
LEMMA ProgressInit == Init => Progress
<1> SUFFICES ASSUME Init PROVE Progress
  OBVIOUS
<1>1. stage = "start" /\ files = <<>> /\ mutants = <<>> /\ output = NoOutput
  BY DEF Init
<1>2. output.is = "none"
  BY <1>1 DEF NoOutput
<1>3. IsSeq(mutants)
  BY <1>1 DEF IsSeq
<1> QED BY <1>1, <1>2, <1>3 DEF Progress, Mine, Ready, Left, Out

\* What ends the program without output of these kinds.
LEMMA EndsOtherwise ==
    ASSUME Progress, inv' = inv, stage' = "ended", UNCHANGED <<files, mutants>>,
           \/ output'.is \in {"err", "panic"}
           \/ output'.is = "exit" /\ (Args.mode # "run" \/ output'.value # "Success")
           \/ output'.is = "listed" /\ Args.mode # "run"
    PROVE  Progress'
<1>1. Args' = Args
  BY SameTree
<1>2. IsSeq(mutants)'
  BY DEF Progress, Left
<1> QED BY <1>1, <1>2 DEF Progress, Mine, Ready, Left, Out

\* Nothing that it speaks of changes.
LEMMA ProgressStays ==
    ASSUME Progress, UNCHANGED <<inv, files, mutants, output, packages>>, stage # "ended" \/ stage' = stage,
           \/ stage' = stage /\ UNCHANGED <<pending, level>>
           \/ stage' = "unwinding"
    PROVE  Progress'
<1>1. /\ Selected' = Selected /\ Complete' = Complete /\ Trails' = Trails /\ Members' = Members
      /\ Entries' = Entries /\ Args' = Args
      /\ FilesHeld' = FilesHeld /\ MutantsHeld' = MutantsHeld
      /\ AllFiles' = AllFiles /\ IteratedMutants' = IteratedMutants
      /\ DueMutants' = DueMutants /\ Failure' = Failure
  BY SameTree, SameWalk, SameHeld
<1>2. IsSeq(mutants)' /\ IsSeq(mutants)
  BY DEF Progress, Left
<1>3. CASE stage' = "unwinding"
  <2>1. output = NoOutput /\ output' = NoOutput
    BY <1>3 DEF Progress, Out
  <2>2. output'.is = "none"
    BY <2>1 DEF NoOutput
  <2> QED BY <1>2, <1>3, <2>1, <2>2 DEF Progress, Mine, Ready, Left, Out
<1>4. CASE stage' = stage /\ UNCHANGED <<pending, level>>
  <2>1. Journey => Journey'
    BY <1>1, <1>4 DEF Journey
  <2>2. Mine'
    BY <1>4, <2>1 DEF Progress, Mine
  <2>3. Ready' /\ Left' /\ Out'
    BY <1>1, <1>2, <1>4 DEF Progress, Ready, Left, Out, NoOutput
  <2> QED BY <2>2, <2>3 DEF Progress
<1> QED BY <1>3, <1>4

\* The journey starts with no package behind it.
LEMMA OpenWorkspaceGoes ==
    ASSUME WalkInv, Progress, OpenWorkspace
    PROVE  Progress'
<1>1. inv' = inv /\ UNCHANGED <<files, mutants, pending, level>> /\ stage = "start" /\ inv \in Invocations
      /\ Args.mode = "run"
  BY DEF OpenWorkspace, WalkInv, WalkType
<1>2. \/ stage' = "ended" /\ output' \in {Err, Exit("Usage")}
      \/ stage' = "package" /\ packages' = FilterPackages(Tree, Args) /\ output' = output
  BY DEF OpenWorkspace, End
<1>3. CASE stage' = "ended" /\ output' \in {Err, Exit("Usage")}
  <2>1. \/ output'.is \in {"err", "panic"}
        \/ output'.is = "exit" /\ output'.value # "Success"
    BY <1>3 DEF Err, Exit
  <2> QED BY <1>1, <1>3, <2>1, EndsOtherwise
<1>4. CASE stage' = "package" /\ packages' = FilterPackages(Tree, Args) /\ output' = output
  <2> DEFINE none == <<>>
  <2>1. /\ Selected' = Selected /\ Complete' = Complete /\ Members' = Members
        /\ Entries' = Entries /\ Args' = Args /\ FilesHeld' = FilesHeld /\ MutantsHeld' = MutantsHeld
    BY <1>1, SameTree, SameWalk, SameHeld
  <2>2. Selected \in Seq(Members) /\ packages' = Selected
    BY <1>1, <1>4, FilterPackagesAre DEF Selected, Members
  <2>3. files = none /\ mutants = none /\ output = NoOutput
    BY <1>1 DEF Progress, Left, Out
  <2>4. /\ FilesHeld[<<none, none>>] = none /\ MutantsHeld[<<none, packages', none>>] = {}
        /\ none \in Seq(Members) /\ none \in Seq(Entries)
    BY <1>1, <2>2, HeldStart
  <2>5. Selected = none \o packages' /\ ToSet(none) = {}
    BY <2>2 DEF ToSet
  <2> HIDE DEF none
  <2>6. Journey'
    <3>1. /\ Selected = none \o packages' /\ ToSet(none) \subseteq Complete
          /\ files' = FilesHeld[<<none, none>>]
          /\ ToSet(mutants') = MutantsHeld[<<none, packages', none>>]
      BY <1>1, <2>3, <2>4, <2>5
    <3> QED BY <1>4, <2>1, <2>4, <3>1 DEF Journey, none
  <2>7. output'.is = "none"
    BY <1>4, <2>3 DEF NoOutput
  <2>8. IsSeq(mutants)'
    BY <1>1 DEF Progress, Left
  <2>9. NoOutput' = NoOutput
    BY DEF NoOutput
  <2> QED BY <1>1, <1>4, <2>3, <2>6, <2>7, <2>8, <2>9 DEF Progress, Mine, Ready, Left, Out
<1> QED BY <1>2, <1>3, <1>4

\* Steps of the walk end with this.
LEMMA WalkGoes ==
    ASSUME Progress, stage \notin {"start", "ended"}, UNCHANGED output, Journey', IsSeq(mutants)',
           stage' \in {"package", "level", "walking"}
    PROVE  Progress'
<1>1. output' = NoOutput
  BY DEF Progress, Out
<1>2. output'.is = "none"
  BY <1>1 DEF NoOutput
<1> QED BY <1>1, <1>2 DEF Progress, Mine, Ready, Left, Out, NoOutput

\* A trail starts.
LEMMA StartPackageGoes ==
    ASSUME WalkInv, Progress, StartPackage
    PROVE  Progress'
<1>1. UNCHANGED <<inv, packages, files, mutants, output>> /\ stage = "package" /\ stage' = "level"
      /\ packages # <<>> /\ inv \in Invocations
  BY DEF StartPackage, WalkInv, WalkType
<1>2. pending' = Tops(Head(packages)) /\ Head(packages) \in Members
  BY StartPackageKeeps DEF Members
<1>3. /\ Selected' = Selected /\ Complete' = Complete /\ Trails' = Trails /\ Members' = Members
      /\ Entries' = Entries /\ FilesHeld' = FilesHeld /\ MutantsHeld' = MutantsHeld
  BY <1>1, SameTree, SameWalk, SameHeld
<1> DEFINE none == <<>>
<1>4. PICK before \in Seq(Members) :
         /\ Selected = before \o packages /\ ToSet(before) \subseteq Complete
         /\ files = FilesHeld[<<before, none>>]
         /\ ToSet(mutants) = MutantsHeld[<<before, packages, none>>]
  BY <1>1 DEF Progress, Mine, Journey
<1>5. none \in Seq(Entries) /\ <<Head(packages), none, pending'>> \in Trails
  BY <1>1, <1>2, TrailStart
<1> HIDE DEF none
<1>6. Journey'
  BY <1>1, <1>3, <1>4, <1>5 DEF Journey
<1>7. IsSeq(mutants)'
  BY <1>1 DEF Progress, Left
<1> QED BY <1>1, <1>6, <1>7, WalkGoes

\* A trail ends, and its package is behind.
LEMMA FinishPackageGoes ==
    ASSUME WalkInv, Progress, FinishPackage
    PROVE  Progress'
<1>1. UNCHANGED <<inv, files, mutants, output>> /\ stage = "level" /\ stage' = "package"
      /\ pending = <<>> /\ packages' = Tail(packages) /\ inv \in Invocations /\ packages \in Seq(Members)
  BY DEF FinishPackage, WalkInv, WalkType, Members
<1>2. /\ Selected' = Selected /\ Complete' = Complete /\ Trails' = Trails /\ Members' = Members
      /\ Entries' = Entries /\ FilesHeld' = FilesHeld /\ MutantsHeld' = MutantsHeld
  BY <1>1, SameTree, SameWalk, SameHeld
<1>3. PICK before \in Seq(Members), seen \in Seq(Entries) :
         /\ Selected = before \o packages /\ ToSet(before) \subseteq Complete
         /\ files = FilesHeld[<<before, seen>>]
         /\ ToSet(mutants) = MutantsHeld[<<before, packages, seen>>]
         /\ packages # <<>> /\ <<Head(packages), seen, pending>> \in Trails
  BY <1>1 DEF Progress, Mine, Journey
<1> DEFINE none == <<>>
           h == Head(packages)
           b == Append(before, h)
<1>4. h \in Members
  BY <1>1, <1>3
<1>5. h \in Complete /\ FilesOf[h] = OkPaths(seen)
  BY <1>1, <1>3, <1>4, TrailEnd
<1>6. /\ b \in Seq(Members) /\ before \o packages = b \o packages'
      /\ FilesHeld[<<b, none>>] = FilesHeld[<<before, seen>>]
      /\ MutantsHeld[<<b, packages', none>>] = MutantsHeld[<<before, packages, seen>>]
  BY <1>1, <1>3, <1>5, HeldPackage
<1>7. ToSet(b) = ToSet(before) \cup {h}
  BY <1>4, AppendItems
<1>8. none \in Seq(Entries)
  OBVIOUS
<1> HIDE DEF b, h
<1>9. /\ Selected = b \o packages' /\ ToSet(b) \subseteq Complete
      /\ files' = FilesHeld[<<b, none>>]
      /\ ToSet(mutants') = MutantsHeld[<<b, packages', none>>]
  BY <1>1, <1>3, <1>5, <1>6, <1>7
<1> HIDE DEF none
<1>10. Journey'
  BY <1>1, <1>2, <1>6, <1>8, <1>9 DEF Journey, none
<1>11. IsSeq(mutants)'
  BY <1>1 DEF Progress, Left
<1> QED BY <1>1, <1>10, <1>11, WalkGoes

\* The queue becomes the level.
LEMMA StartLevelGoes ==
    ASSUME WalkInv, Progress, StartLevel
    PROVE  Progress'
<1>1. UNCHANGED <<inv, packages, files, mutants, output>> /\ stage = "level" /\ stage' = "walking"
      /\ level' = pending
  BY DEF StartLevel
<1>2. /\ Selected' = Selected /\ Complete' = Complete /\ Trails' = Trails /\ Members' = Members
      /\ Entries' = Entries /\ FilesHeld' = FilesHeld /\ MutantsHeld' = MutantsHeld
  BY <1>1, SameTree, SameWalk, SameHeld
<1>3. PICK before \in Seq(Members), seen \in Seq(Entries) :
         /\ Selected = before \o packages /\ ToSet(before) \subseteq Complete
         /\ files = FilesHeld[<<before, seen>>]
         /\ ToSet(mutants) = MutantsHeld[<<before, packages, seen>>]
         /\ packages # <<>> /\ <<Head(packages), seen, pending>> \in Trails
  BY <1>1 DEF Progress, Mine, Journey
<1>4. Journey'
  BY <1>1, <1>2, <1>3 DEF Journey
<1>5. IsSeq(mutants)'
  BY <1>1 DEF Progress, Left
<1> QED BY <1>1, <1>4, <1>5, WalkGoes

\* A level ends: the trail goes on, or its first error is the output.
LEMMA EndLevelGoes ==
    ASSUME WalkInv, Progress, EndLevel
    PROVE  Progress'
<1>1. UNCHANGED <<inv, packages>> /\ stage = "walking"
      /\ inv \in Invocations /\ packages \in Seq(Members) /\ level \in Seq(Entries)
  BY DEF EndLevel, WalkInv, WalkType, Members
<1>2. results = Map(WalkOf, level) /\ \A i \in DOMAIN level : Load(level[i]) # "panics"
  BY LevelDone
<1>3. /\ Selected' = Selected /\ Complete' = Complete /\ Trails' = Trails /\ Members' = Members
      /\ Entries' = Entries /\ FilesHeld' = FilesHeld /\ MutantsHeld' = MutantsHeld
      /\ Args' = Args /\ Failure' = Failure
  BY <1>1, SameTree, SameWalk, SameHeld
<1>4. PICK before \in Seq(Members), seen \in Seq(Entries) :
         /\ Selected = before \o packages /\ ToSet(before) \subseteq Complete
         /\ files = FilesHeld[<<before, seen>>]
         /\ ToSet(mutants) = MutantsHeld[<<before, packages, seen>>]
         /\ packages # <<>> /\ <<Head(packages), seen, level>> \in Trails
  BY <1>1 DEF Progress, Mine, Journey
<1> DEFINE h == Head(packages)
<1>5. h \in Members
  BY <1>1, <1>4
<1>6. CASE \E i \in DOMAIN results : results[i].is = "unreadable"
  <2> DEFINE out == [is |-> "unreadable",
                     value |-> Kept(results, LAMBDA r : r.is = "unreadable")[1].entry.path]
  <2>1. stage' = "ended" /\ output' = out /\ UNCHANGED <<files, mutants>>
    BY <1>6 DEF EndLevel, End
  <2>2. SerialWalk[<<level, OkPaths(seen)>>] = out
    BY <1>1, <1>2, <1>6, NextOfType, LevelFails
  <2>3. SerialPackage(h) = out
    BY <1>1, <1>4, <1>5, <2>2, TrailIs DEF Trail
  <2>4. out.is = "unreadable"
    OBVIOUS
  <2> HIDE DEF out
  <2>5. Failure = out
    BY <1>1, <1>4, <2>3, <2>4, FailureIs
  <2>6. IsSeq(mutants)'
    BY <2>1 DEF Progress, Left
  <2> QED BY <1>3, <2>1, <2>4, <2>5, <2>6 DEF Progress, Mine, Ready, Left, Out
<1>7. CASE ~\E i \in DOMAIN results : results[i].is = "unreadable"
  <2>1. /\ stage' = "level" /\ pending' = NextLevel /\ UNCHANGED output
        /\ mutants' = mutants \o FlattenSeq([i \in DOMAIN Allowed |->
                              MutantsOf(Head(packages), Allowed[i].entry.path)])
        /\ files' = files \o [i \in DOMAIN Allowed |-> Allowed[i].entry.path]
    BY <1>7 DEF EndLevel
  <2>2. NextLevel = NextOf(level)
    BY <1>1, <1>2, LevelResults
  <2>3. \A i \in DOMAIN level : Goes(level[i])
    <3> SUFFICES ASSUME NEW i \in DOMAIN level PROVE Goes(level[i])
      OBVIOUS
    <3>1. level[i] \in Entries /\ i \in DOMAIN results /\ results[i] = WalkOf[level[i]]
      BY <1>1, <1>2 DEF Map
    <3>2. WalkOf[level[i]] = Walk(level[i])
      BY <3>1 DEF WalkOf
    <3>3. Walk(level[i]) = [is |-> Load(level[i]), entry |-> level[i]] /\ Load(level[i]) \in Loads
      BY <1>1, <3>1, EntryIs
    <3>4. Load(level[i]) # "unreadable"
      BY <1>7, <3>1, <3>2, <3>3
    <3> QED BY <1>2, <3>3, <3>4 DEF Goes, Loads
  <2> DEFINE all == seen \o level
  <2>4. <<h, all, pending'>> \in Trails /\ all \in Seq(Entries)
    BY <1>1, <1>4, <1>5, <2>1, <2>2, <2>3, TrailLevel
  <2>5. /\ files' = FilesHeld[<<before, all>>]
        /\ IsSeq(mutants') /\ ToSet(mutants') = MutantsHeld[<<before, packages, all>>]
    <3>1. IsSeq(mutants)
      BY DEF Progress, Left
    <3> QED BY <1>1, <1>2, <1>4, <2>1, <3>1, HeldLevel
  <2> HIDE DEF all
  <2>6. Journey'
    BY <1>1, <1>3, <1>4, <2>1, <2>4, <2>5 DEF Journey
  <2>7. IsSeq(mutants)'
    BY <2>5 DEF IsSeq
  <2> QED BY <1>1, <2>1, <2>6, <2>7, WalkGoes
<1> QED BY <1>6, <1>7

\* What Kept keeps of the mutants.
LEMMA KeptMutants ==
    ASSUME IsSeq(mutants), NEW I
    PROVE  IsSeq(Pick(mutants, I)) /\ ToSet(Pick(mutants, I)) = {mutants[i] : i \in I \cap DOMAIN mutants}
<1> DEFINE A == ToSet(mutants)
           s == mutants
           u == Pick(s, I)
<1>1. s \in Seq(A)
  BY DEF IsSeq
<1> HIDE DEF A, s
<1>2. Pick(s, I) \in Seq(A) /\ ToSet(Pick(s, I)) = {s[i] : i \in I \cap DOMAIN s}
  BY <1>1, PickType, PickItems
<1>3. u \in Seq(A)
  BY <1>2
<1> HIDE DEF u
<1>4. u \in Seq(ToSet(u))
  BY <1>3, Items
<1> QED BY <1>2, <1>4 DEF IsSeq, u, s

\* Mutants caught before are dropped.
LEMMA IterateGoes ==
    ASSUME WalkInv, Progress, Iterate
    PROVE  Progress'
<1>1. UNCHANGED <<inv, files, output>> /\ stage = "package" /\ stage' = "files" /\ packages = <<>>
      /\ mutants' = (IF Args.iterate THEN RemovePreviouslyCaught ELSE mutants) /\ inv \in Invocations
  BY DEF Iterate, WalkInv, WalkType
<1>2. files = AllFiles /\ ToSet(Selected) \subseteq Complete /\ ToSet(mutants) = AllMutants
  BY <1>1, JourneyEnds DEF Progress, Mine
<1>3. AllFiles' = AllFiles /\ Selected' = Selected /\ Complete' = Complete /\ IteratedMutants' = IteratedMutants
      /\ Args' = Args
  BY <1>1, SameTree, SameWalk, SameHeld
<1> DEFINE I == {i \in DOMAIN mutants : mutants[i].name \notin inv.caught}
<1>4. RemovePreviouslyCaught = Pick(mutants, I)
  BY DEF RemovePreviouslyCaught, Kept
<1>5. IsSeq(mutants)
  BY DEF Progress, Left
<1>6. IsSeq(Pick(mutants, I)) /\ ToSet(Pick(mutants, I)) = {mutants[i] : i \in I \cap DOMAIN mutants}
  <2> HIDE DEF I
  <2> QED BY <1>5, KeptMutants
<1>7. {mutants[i] : i \in I \cap DOMAIN mutants} = {m \in ToSet(mutants) : m.name \notin inv.caught}
  BY DEF ToSet
<1>8. IsSeq(mutants') /\ ToSet(mutants') = IteratedMutants
  <2> HIDE DEF I
  <2>1. CASE Args.iterate
    BY <1>1, <1>2, <1>4, <1>6, <1>7, <2>1 DEF IteratedMutants
  <2>2. CASE ~Args.iterate
    BY <1>1, <1>2, <1>5, <2>2 DEF IteratedMutants
  <2> QED BY <2>1, <2>2
<1>9. output' = NoOutput /\ NoOutput' = NoOutput
  BY <1>1 DEF Progress, Out, NoOutput
<1>10. output'.is = "none"
  BY <1>9 DEF NoOutput
<1> QED BY <1>1, <1>2, <1>3, <1>8, <1>9, <1>10 DEF Progress, Mine, Ready, Left, Out, IsSeq

\* --list-files shows the files of the walk.
LEMMA ListFilesGoes ==
    ASSUME WalkInv, Progress, ListFiles
    PROVE  Progress'
<1>1. UNCHANGED <<inv, files, mutants>> /\ stage = "files"
      /\ \/ stage' = "ended" /\ output' = [is |-> "files", value |-> files]
         \/ stage' = "diff" /\ output' = output
  BY DEF ListFiles, End
<1>2. AllFiles' = AllFiles /\ Selected' = Selected /\ Complete' = Complete /\ IteratedMutants' = IteratedMutants
      /\ Args' = Args /\ NoOutput' = NoOutput
  BY <1>1, SameTree, SameWalk, SameHeld DEF NoOutput
<1>3. IsSeq(mutants)'
  BY <1>1 DEF Progress, Left
<1>4. output = NoOutput
  BY <1>1 DEF Progress, Out
<1>5. output'.is = IF stage' = "ended" THEN "files" ELSE "none"
  BY <1>1, <1>4 DEF NoOutput
<1> QED BY <1>1, <1>2, <1>3, <1>4, <1>5 DEF Progress, Mine, Ready, Left, Out

\* The diff leaves what it touches, or nothing and a success.
LEMMA FilterDiffGoes ==
    ASSUME WalkInv, Progress, FilterDiff
    PROVE  Progress'
<1> DEFINE diff == Args.in_diff
           I == {i \in DOMAIN mutants : Touches(diff.patches, mutants[i])}
           matched == Pick(mutants, I)
           filtered == DiffFilter(mutants, diff, Lengths)
           touched == {m \in IteratedMutants : Touches(diff.patches, m)}
<1>1. UNCHANGED <<inv, files>> /\ stage = "diff" /\ inv \in Invocations /\ Args.mode = "run"
  BY DEF FilterDiff, WalkInv, WalkType
<1>2. AllFiles' = AllFiles /\ Selected' = Selected /\ Complete' = Complete /\ DueMutants' = DueMutants
      /\ Args' = Args /\ NoOutput' = NoOutput
  BY <1>1, SameTree, SameWalk, SameHeld DEF NoOutput
<1>3. files = AllFiles /\ ToSet(Selected) \subseteq Complete /\ ToSet(mutants) = IteratedMutants
      /\ IsSeq(mutants) /\ output = NoOutput
  BY <1>1 DEF Progress, Ready, Left, Out
<1>4. diff.is \in {"none", "missing", "garbage", "diff"}
  BY <1>1, InvocationsAssumption DEF Args
<1>5. IsSeq(matched) /\ ToSet(matched) = touched
  <2>1. IsSeq(matched) /\ ToSet(matched) = {mutants[i] : i \in I \cap DOMAIN mutants}
    <3> HIDE DEF I
    <3> QED BY <1>3, KeptMutants
  <2>2. {mutants[i] : i \in I \cap DOMAIN mutants} = {m \in ToSet(mutants) : Touches(diff.patches, m)}
    BY DEF ToSet
  <2> HIDE DEF I, matched
  <2> QED BY <1>3, <2>1, <2>2
<1>6. filtered.mutants = matched
  BY DEF DiffFilter, Kept
<1>7. diff.is = "none" => DueMutants = IteratedMutants
  BY DEF DueMutants
<1>8. diff.is # "none" => DueMutants = touched
  BY DEF DueMutants
<1>9. filtered.error \in {"File", "InvalidDiff", "EmptyDiff", "MismatchedDiff", "None", "NoMutants", "NoSourceFiles"}
      /\ (filtered.error = "EmptyDiff" => diff.patches = <<>>)
      /\ (filtered.error \in {"NoMutants", "NoSourceFiles"} => matched = <<>>)
      /\ (filtered.error = "File" <=> diff.is = "missing")
      /\ (filtered.error = "InvalidDiff" <=> diff.is = "garbage")
  <2> DEFINE changesRs == \E i \in DOMAIN diff.patches : ChangesSource(diff.patches[i])
             error == CASE diff.is = "missing" -> "File"
                   [] diff.is = "garbage" -> "InvalidDiff"
                   [] diff.is = "diff" /\ diff.patches = <<>> -> "EmptyDiff"
                   [] OTHER -> IF ~TextMatches(diff.patches, mutants, Lengths) THEN "MismatchedDiff"
                               ELSE IF matched # <<>> THEN "None"
                               ELSE IF changesRs THEN "NoMutants" ELSE "NoSourceFiles"
  <2>1. filtered.error = error
    BY DEF DiffFilter, Kept
  <2> DEFINE rest == IF ~TextMatches(diff.patches, mutants, Lengths) THEN "MismatchedDiff"
                     ELSE IF matched # <<>> THEN "None"
                     ELSE IF changesRs THEN "NoMutants" ELSE "NoSourceFiles"
             none == <<>>
  <2>2. /\ rest \in {"MismatchedDiff", "None", "NoMutants", "NoSourceFiles"}
        /\ rest \in {"NoMutants", "NoSourceFiles"} => matched = none
    <3> HIDE DEF none, matched, changesRs
    <3> QED BY DEF none
  <2>3. error = IF diff.is = "missing" THEN "File" ELSE IF diff.is = "garbage" THEN "InvalidDiff"
                ELSE IF diff.is = "diff" /\ diff.patches = none THEN "EmptyDiff" ELSE rest
    <3> HIDE DEF rest, none
    <3>1. error = CASE diff.is = "missing" -> "File"
                    [] diff.is = "garbage" -> "InvalidDiff"
                    [] diff.is = "diff" /\ diff.patches = none -> "EmptyDiff"
                    [] OTHER -> rest
      BY DEF rest, none
    <3> HIDE DEF error
    <3> QED BY <3>1
  <2> HIDE DEF error, rest, none, changesRs, matched, diff, filtered
  <2>4. /\ filtered.error \in {"File", "InvalidDiff", "EmptyDiff", "MismatchedDiff", "None", "NoMutants", "NoSourceFiles"}
        /\ (filtered.error = "EmptyDiff" => diff.patches = none)
        /\ (filtered.error \in {"NoMutants", "NoSourceFiles"} => matched = none)
        /\ (filtered.error = "File" <=> diff.is = "missing")
        /\ (filtered.error = "InvalidDiff" <=> diff.is = "garbage")
    BY <2>1, <2>2, <2>3
  <2> QED BY <2>4 DEF none
<1>10. diff.patches = <<>> => touched = {}
  BY DEF Touches, LinesChanged
<1>14. Args.in_diff.is = diff.is
  OBVIOUS
<1>11. CASE stage' = "shard" /\ output' = output
            /\ \/ diff.is = "none" /\ mutants' = mutants
               \/ diff.is # "none" /\ filtered.error = "None" /\ mutants' = filtered.mutants
  <2>1. IsSeq(mutants') /\ ToSet(mutants') = DueMutants
    <3> HIDE DEF matched, filtered, touched, diff
    <3> QED BY <1>3, <1>5, <1>6, <1>7, <1>8, <1>11
  <2>2. output' = NoOutput
    BY <1>3, <1>11
  <2>3. output'.is = "none"
    BY <2>2 DEF NoOutput
  <2>4. diff.is \in {"none", "diff"}
    <3> HIDE DEF diff, filtered
    <3> QED BY <1>4, <1>9, <1>11
  <2> HIDE DEF matched, filtered, touched, diff
  <2> QED BY <1>1, <1>2, <1>3, <1>11, <1>14, <2>1, <2>2, <2>3, <2>4 DEF Progress, Mine, Ready, Left, Out, IsSeq
<1>12. CASE stage' = "ended" /\ output' = Exit(DiffExitCode(filtered.error)) /\ mutants' = mutants
            /\ diff.is # "none" /\ filtered.error # "None"
  <2>1. output'.is = "exit" /\ output'.value = DiffExitCode(filtered.error)
    BY <1>12 DEF Exit
  <2>2. output'.value = "Success" => DueMutants = {}
    <3> SUFFICES ASSUME output'.value = "Success" PROVE DueMutants = {}
      OBVIOUS
    <3>1. filtered.error \in {"EmptyDiff", "NoSourceFiles", "NoMutants"}
      <4> HIDE DEF filtered
      <4> QED BY <1>9, <1>12, <2>1 DEF DiffExitCode
    <3>2. matched = <<>> => touched = {}
      <4> HIDE DEF matched, touched
      <4> QED BY <1>5 DEF ToSet
    <3> HIDE DEF matched, touched, filtered, diff
    <3> QED BY <1>8, <1>9, <1>10, <1>12, <3>1, <3>2
  <2>3. IsSeq(mutants)'
    BY <1>3, <1>12 DEF IsSeq
  <2>4. output'.value = "Success" => diff.is \in {"none", "diff"}
    <3> SUFFICES ASSUME output'.value = "Success" PROVE diff.is \in {"none", "diff"}
      OBVIOUS
    <3>1. filtered.error \in {"EmptyDiff", "NoSourceFiles", "NoMutants"}
      <4> HIDE DEF filtered
      <4> QED BY <1>9, <1>12, <2>1 DEF DiffExitCode
    <3> HIDE DEF filtered, diff
    <3> QED BY <1>4, <1>9, <3>1
  <2> HIDE DEF matched, filtered, touched, diff
  <2> QED BY <1>1, <1>2, <1>3, <1>12, <1>14, <2>1, <2>2, <2>3, <2>4 DEF Progress, Mine, Ready, Left, Out
<1>13. \/ /\ stage' = "shard" /\ output' = output
          /\ \/ diff.is = "none" /\ mutants' = mutants
             \/ diff.is # "none" /\ filtered.error = "None" /\ mutants' = filtered.mutants
       \/ /\ stage' = "ended" /\ output' = Exit(DiffExitCode(filtered.error)) /\ mutants' = mutants
          /\ diff.is # "none" /\ filtered.error # "None"
  BY DEF FilterDiff, End
<1> QED BY <1>11, <1>12, <1>13

\* A shard has some of what is due, and all if there is one shard.
LEMMA ListOrTestGoes ==
    ASSUME WalkInv, Progress, ListOrTest
    PROVE  Progress'
<1> DEFINE I == {i \in DOMAIN mutants : Args.shard # <<>> => InShard(i, Args.shard[1])}
           sharded == Pick(mutants, I)
<1>1. UNCHANGED <<inv, files>> /\ stage = "shard" /\ stage' = "ended" /\ mutants' = sharded
      /\ output' = [is |-> IF Args.list THEN "listed" ELSE "tested", value |-> sharded]
  BY DEF ListOrTest, End
<1>2. AllFiles' = AllFiles /\ Selected' = Selected /\ Complete' = Complete /\ DueMutants' = DueMutants
      /\ Args' = Args
  BY <1>1, SameTree, SameWalk, SameHeld
<1>3. files = AllFiles /\ ToSet(Selected) \subseteq Complete /\ ToSet(mutants) = DueMutants
      /\ IsSeq(mutants) /\ Args.in_diff.is \in {"none", "diff"}
  BY <1>1 DEF Progress, Ready, Left, Out
<1>4. IsSeq(sharded) /\ ToSet(sharded) = {mutants[i] : i \in I \cap DOMAIN mutants}
  <2> HIDE DEF I
  <2> QED BY <1>3, KeptMutants
<1>5. {mutants[i] : i \in I \cap DOMAIN mutants} \subseteq ToSet(mutants)
      /\ (Args.shard = <<>> => {mutants[i] : i \in I \cap DOMAIN mutants} = ToSet(mutants))
  BY DEF ToSet
<1> HIDE DEF I, sharded
<1>6. output'.is \in {"listed", "tested"} /\ output'.value = sharded
  BY <1>1
<1>7. IsSeq(mutants)'
  BY <1>1, <1>4 DEF IsSeq
<1> QED BY <1>1, <1>2, <1>3, <1>4, <1>5, <1>6, <1>7 DEF Progress, Mine, Ready, Left, Out

\* Each step keeps Progress.
LEMMA ProgressKept ==
    ASSUME WalkInv, Progress, [Next]_vars
    PROVE  Progress'
<1>1. CASE Answer
  <2>1. stage' = "ended" /\ inv' = inv /\ UNCHANGED <<files, mutants>> /\ Args.mode # "run"
    BY <1>1 DEF Answer, End
  <2>2. output'.is \in {"exit", "listed", "err"}
    BY <1>1 DEF Answer, End, Exit, Err
  <2> QED BY <2>1, <2>2, EndsOtherwise
<1>2. CASE OpenWorkspace
  BY <1>2, OpenWorkspaceGoes
<1>3. CASE StartPackage
  BY <1>3, StartPackageGoes
<1>4. CASE FinishPackage
  BY <1>4, FinishPackageGoes
<1>5. CASE StopLevel
  <2>1. stage' = "ended" /\ inv' = inv /\ UNCHANGED <<files, mutants>> /\ output' = Err
    BY <1>5 DEF StopLevel, End
  <2>2. output'.is = "err"
    BY <2>1 DEF Err
  <2> QED BY <2>1, <2>2, EndsOtherwise
<1>6. CASE StartLevel
  BY <1>6, StartLevelGoes
<1>7. CASE Receive
  <2>1. UNCHANGED <<inv, packages, pending, level, mutants, files, output>> /\ stage = "walking"
        /\ stage' \in {"unwinding", stage}
    BY <1>7 DEF Receive
  <2> QED BY <2>1, ProgressStays
<1>8. CASE Unwind
  <2>1. stage' = "ended" /\ inv' = inv /\ UNCHANGED <<files, mutants>> /\ output' = [is |-> "panic"]
    BY <1>8 DEF Unwind, End
  <2>2. output'.is = "panic"
    BY <2>1
  <2> QED BY <2>1, <2>2, EndsOtherwise
<1>9. CASE EndLevel
  BY <1>9, EndLevelGoes
<1>10. CASE Iterate
  BY <1>10, IterateGoes
<1>11. CASE ListFiles
  BY <1>11, ListFilesGoes
<1>12. CASE FilterDiff
  BY <1>12, FilterDiffGoes
<1>13. CASE ListOrTest
  BY <1>13, ListOrTestGoes
<1>14. ASSUME NEW i \in running, ThreadEnds(i) PROVE Progress'
  <2>1. UNCHANGED <<inv, stage, packages, pending, level, mutants, files, output>>
    BY <1>14 DEF ThreadEnds
  <2> QED BY <2>1, ProgressStays
<1>15. CASE Interrupt \/ Terminated \/ UNCHANGED vars
  <2>1. UNCHANGED <<inv, stage, packages, pending, level, mutants, files, output>>
    BY <1>15 DEF Interrupt, Terminated, vars, walkVars
  <2> QED BY <2>1, ProgressStays
<1> QED BY <1>1, <1>2, <1>3, <1>4, <1>5, <1>6, <1>7, <1>8, <1>9, <1>10, <1>11, <1>12, <1>13,
           <1>14, <1>15 DEF Next, Main

\* walk_tree's mutants and files are, at every moment, those of the packages before
\* and of as much of this one as a serial walk would have done by then.
THEOREM ProgressSafe == Spec => []Progress
<1>1. Init => Progress
  BY ProgressInit
<1>2. WalkInv /\ Progress /\ [Next]_vars => Progress'
  BY ProgressKept
<1> QED BY <1>1, <1>2, WalkSafe, PTL DEF Spec

\* After the walk all chosen packages are complete.
LEMMA WalkedMeans ==
    ASSUME WalkInv, Progress, Args.mode = "run", HasWalked
    PROVE  /\ files = AllFiles /\ ToSet(Selected) \subseteq Complete
           /\ Selected \in Seq(Members) /\ ToSet(Selected) = Chosen
<1>1. inv \in Invocations
  BY DEF WalkInv, WalkType
<1>2. files = AllFiles /\ ToSet(Selected) \subseteq Complete
  BY DEF Progress, Ready, HasWalked
<1> QED BY <1>1, <1>2, FilterPackagesAre DEF Selected, Members

\* The serial walks of complete packages yield their files.
LEMMA SerialValues ==
    ASSUME inv \in Invocations, Selected \in Seq(Members), ToSet(Selected) \subseteq Complete
    PROVE  [i \in DOMAIN Serial |-> Serial[i].value] = Map(FilesOf, Selected)
<1>1. Serial = [i \in DOMAIN Selected |-> SerialPackage(Selected[i])]
  BY DEF Serial, Selected
<1>2. ASSUME NEW i \in DOMAIN Selected PROVE Serial[i].value = FilesOf[Selected[i]]
  <2>1. Selected[i] \in Complete
    BY DEF ToSet
  <2>2. SerialOf[Selected[i]] = [is |-> "ok", value |-> FilesOf[Selected[i]]]
    BY <2>1 DEF Complete
  <2>3. SerialOf[Selected[i]] = SerialPackage(Selected[i])
    BY <2>1 DEF SerialOf, Complete
  <2>4. Serial[i] = SerialPackage(Selected[i])
    BY <1>1
  <2> QED BY <2>2, <2>3, <2>4
<1>3. DOMAIN Serial = DOMAIN Selected
  BY <1>1
<1> QED BY <1>2, <1>3 DEF Map

\* The files of the selected packages, in two ways.
LEMMA AllFilesAre ==
    ASSUME inv \in Invocations, Selected \in Seq(Members)
    PROVE  /\ Kept(FlattenSeq(Map(FilesOf, Selected)), AllowsSourceFilePath) = AllFiles
           /\ ToSet(AllFiles) = (UNION {ToSet(FilesOf[p]) : p \in ToSet(Selected)}) \cap AllowedPaths
<1> DEFINE F == FlattenSeq(Map(FilesOf, Selected))
           I == {i \in DOMAIN F : AllowsSourceFilePath(F[i])}
           J == {i \in DOMAIN F : F[i] \in AllowedPaths}
<1>1. FlattenSeq(Map(FilesOf, Selected)) \in Seq(Paths)
      /\ ToSet(FlattenSeq(Map(FilesOf, Selected))) = UNION {ToSet(FilesOf[p]) : p \in ToSet(Selected)}
  BY FilesBefore
<1>2. F \in Seq(Paths) /\ ToSet(F) = UNION {ToSet(FilesOf[p]) : p \in ToSet(Selected)}
  BY <1>1
<1>3. Kept(F, AllowsSourceFilePath) = Pick(F, I) /\ AllFiles = Pick(F, J) /\ AllFiles = Only(F, AllowedPaths)
  BY DEF Kept, AllFiles, Only
<1> HIDE DEF F
<1>4. I = J
  BY <1>2 DEF AllowedPaths
<1>5. ToSet(Only(F, AllowedPaths)) = ToSet(F) \cap AllowedPaths
  BY <1>2, OnlyType
<1> HIDE DEF I, J
<1> QED BY <1>2, <1>3, <1>4, <1>5 DEF F

\* Whatever the order in which threads end.
LEMMA WalkedSerially ==
    ASSUME WalkInv, Progress
    PROVE  WalkIsSerial
<1>1. inv \in Invocations
  BY DEF WalkInv, WalkType
<1>2. ASSUME Args.mode = "run", HasWalked
      PROVE  files = Kept(FlattenSeq([i \in DOMAIN Serial |-> Serial[i].value]), AllowsSourceFilePath)
  <2>1. files = AllFiles /\ ToSet(Selected) \subseteq Complete /\ Selected \in Seq(Members)
    BY <1>2, WalkedMeans
  <2>2. [i \in DOMAIN Serial |-> Serial[i].value] = Map(FilesOf, Selected)
    BY <1>1, <2>1, SerialValues
  <2>3. Kept(FlattenSeq(Map(FilesOf, Selected)), AllowsSourceFilePath) = AllFiles
    BY <1>1, <2>1, AllFilesAre
  <2> QED BY <2>1, <2>2, <2>3
<1>3. output.is = "unreadable" => output = Kept(Serial, LAMBDA r : r.is # "ok")[1]
  BY DEF Progress, Out, Failure
<1> QED BY <1>2, <1>3 DEF WalkIsSerial

\* The files that are found are those of the crates.
LEMMA WalkedAsRust ==
    ASSUME WalkInv, Progress
    PROVE  ModulesFollowRust
<1>1. inv \in Invocations
  BY DEF WalkInv, WalkType
<1>2. ASSUME Args.mode = "run", HasWalked
      PROVE  ToSet(files) = {p \in UNION {CrateFiles(package) : package \in Chosen} : AllowsSourceFilePath(p)}
  <2>1. files = AllFiles /\ ToSet(Selected) \subseteq Complete /\ Selected \in Seq(Members)
        /\ ToSet(Selected) = Chosen
    BY <1>2, WalkedMeans
  <2>2. ToSet(AllFiles) = (UNION {ToSet(FilesOf[p]) : p \in ToSet(Selected)}) \cap AllowedPaths
    BY <1>1, <2>1, AllFilesAre
  <2>3. \A p \in Chosen : ToSet(FilesOf[p]) = CrateFiles(p) /\ ToSet(FilesOf[p]) \subseteq Paths
    <3> SUFFICES ASSUME NEW p \in Chosen
                 PROVE  ToSet(FilesOf[p]) = CrateFiles(p) /\ ToSet(FilesOf[p]) \subseteq Paths
      OBVIOUS
    <3>1. p \in Members /\ FilesOf[p] \in Seq(Paths) /\ ToSet(FilesOf[p]) = CrateFilesOf[p]
      BY <2>1 DEF Complete
    <3>2. CrateFilesOf[p] = CrateFiles(p)
      BY <1>1, <3>1, CrateIs
    <3> QED BY <3>1, <3>2, Items
  <2>4. ToSet(AllFiles) = (UNION {CrateFiles(p) : p \in Chosen}) \cap AllowedPaths
        /\ UNION {CrateFiles(p) : p \in Chosen} \subseteq Paths
    BY <2>1, <2>2, <2>3
  <2>5. \A p : p \in AllowedPaths <=> p \in Paths /\ AllowsSourceFilePath(p)
    BY DEF AllowedPaths
  <2> DEFINE U == UNION {CrateFiles(p) : p \in Chosen}
  <2> HIDE DEF U
  <2>6. ToSet(AllFiles) = U \cap AllowedPaths /\ U \subseteq Paths
    BY <2>4 DEF U
  <2>7. ToSet(AllFiles) = {p \in U : AllowsSourceFilePath(p)}
    BY <2>5, <2>6
  <2> QED BY <2>1, <2>7 DEF U
<1> QED BY <1>2 DEF ModulesFollowRust

\* Whatever the order in which threads end, walk_tree comes to the files of a
\* serial walk in its order, and fails with the first file that cannot be read.
THEOREM WalkTheorem == Spec => []WalkIsSerial
BY WalkSafe, ProgressSafe, WalkedSerially, PTL

\* The files that walk_package finds are those that the compiler reads for the
\* chosen packages, less those that globs leave out: in trees where a mod statement
\* names one file at most, and where a file that #[path] names declares no modules
\* unless it is a mod.rs (ModulesAssumption).  Of the trees that the last part leaves
\* out the same is false, as find_mod_source takes another directory than rustc.
THEOREM ModulesTheorem == Spec => []ModulesFollowRust
BY WalkSafe, ProgressSafe, WalkedAsRust, PTL

-----------------------------------------------------------------------------
(* Diffs: the lines of one edit *)

Del(script, i) == i \in DOMAIN script /\ script[i].op = "delete"
Ins(script, i) == i \in DOMAIN script /\ script[i].op = "insert"

\* An edit script, line by line.
LEMMA ScriptIs ==
    ASSUME NEW script, IsScript(script)
    PROVE  /\ DOMAIN script = 1 .. Len(script) /\ Len(script) \in Nat
           /\ \A i \in DOMAIN script : /\ i \in Nat /\ i # 0
                                       /\ script[i].op \in {"context", "insert", "delete"}
                                       /\ (Del(script, i) <=> script[i].op = "delete")
                                       /\ (Ins(script, i) <=> script[i].op = "insert")
BY DEF IsScript, Del, Ins

\* The number of lines of the new file grows by one at each line that stays.
LEMMA NewLineStep ==
    ASSUME NEW script, IsScript(script)
    PROVE  /\ NewLine(script, 0) = 0
           /\ \A i \in DOMAIN script :
                 NewLine(script, i) = NewLine(script, i - 1) + (IF Del(script, i) THEN 0 ELSE 1)
           /\ \A i \in 0 .. Len(script) : NewLine(script, i) \in Nat
<1> DEFINE n == Len(script)
           at(i) == {j \in 1 .. i : script[j].op # "delete"}
<1>1. DOMAIN script = 1 .. n /\ n \in Nat /\ \A i \in DOMAIN script : Del(script, i) <=> script[i].op = "delete"
  BY ScriptIs
<1>2. \A i : NewLine(script, i) = Cardinality(at(i))
  BY DEF NewLine
<1> HIDE DEF n
<1>3. \A i \in Nat : IsFiniteSet(at(i))
  <2> SUFFICES ASSUME NEW i \in Nat PROVE IsFiniteSet(at(i))
    OBVIOUS
  <2>1. IsFiniteSet(1 .. i)
    BY FS_Interval
  <2>2. at(i) \subseteq 1 .. i
    OBVIOUS
  <2> HIDE DEF at
  <2> QED BY <2>1, <2>2, FS_Subset
<1>4. NewLine(script, 0) = 0
  <2>1. at(0) = {}
    OBVIOUS
  <2> QED BY <1>2, <2>1, FS_EmptySet
<1>5. \A i \in 0 .. n : NewLine(script, i) \in Nat
  <2> HIDE DEF at
  <2> QED BY <1>1, <1>2, <1>3, FS_CardinalityType
<1>6. ASSUME NEW i \in DOMAIN script
      PROVE  NewLine(script, i) = NewLine(script, i - 1) + (IF Del(script, i) THEN 0 ELSE 1)
  <2>1. i \in Nat /\ i - 1 \in Nat /\ 1 .. i = (1 .. i - 1) \cup {i} /\ i \notin 1 .. i - 1
    BY <1>1
  <2>2. at(i) = at(i - 1) \cup (IF Del(script, i) THEN {} ELSE {i}) /\ i \notin at(i - 1)
    BY <1>1, <2>1
  <2>3. IsFiniteSet(at(i - 1))
    BY <1>3, <2>1
  <2> DEFINE a == at(i - 1)
             b == at(i)
  <2>4. NewLine(script, i) = Cardinality(b) /\ NewLine(script, i - 1) = Cardinality(a)
    BY <1>2
  <2>5. b = a \cup (IF Del(script, i) THEN {} ELSE {i}) /\ i \notin a /\ IsFiniteSet(a)
    BY <2>2, <2>3
  <2> HIDE DEF a, b, at
  <2>6. CASE Del(script, i)
    <3>1. b = a /\ Cardinality(a) \in Nat
      BY <2>5, <2>6, FS_CardinalityType
    <3> QED BY <2>4, <2>6, <3>1
  <2>7. CASE ~Del(script, i)
    <3>1. b = a \cup {i}
      BY <2>5, <2>7
    <3>2. Cardinality(a \cup {i}) = Cardinality(a) + 1
      BY <2>5, FS_AddElement
    <3> QED BY <2>4, <2>7, <3>1, <3>2
  <2> QED BY <2>6, <2>7
<1> QED BY <1>4, <1>5, <1>6 DEF n

-----------------------------------------------------------------------------
(* The lines that are marked up to a place of the script *)

Places(script, i) ==
    {k \in DOMAIN script :
        /\ k <= i /\ ~Del(script, k)
        /\ Ins(script, k) \/ Del(script, k - 1) \/ (k + 1 <= i /\ Del(script, k + 1))}
Marked(script, i) == {NewLine(script, k) : k \in Places(script, i)}

\* Sets with the same members are the same.
LEMMA SameSet ==
    ASSUME NEW L, NEW R, \A x : x \in L <=> x \in R
    PROVE  L = R
OBVIOUS

\* A line that stays is marked when it is new or follows a deletion; a deletion
\* marks the line before it.
LEMMA MarkedStep ==
    ASSUME NEW script, IsScript(script), NEW i \in DOMAIN script
    PROVE  /\ ~Del(script, i) =>
                 Marked(script, i) = IF Ins(script, i) \/ Del(script, i - 1)
                                     THEN Marked(script, i - 1) \cup {NewLine(script, i)}
                                     ELSE Marked(script, i - 1)
           /\ Del(script, i) =>
                 Marked(script, i) = IF i > 1 /\ ~Del(script, i - 1)
                                     THEN Marked(script, i - 1) \cup {NewLine(script, i - 1)}
                                     ELSE Marked(script, i - 1)
<1> DEFINE P == Places(script, i)
           Q == Places(script, i - 1)
           n == Len(script)
<1>1. DOMAIN script = 1 .. n /\ n \in Nat /\ i \in 1 .. n
      /\ \A k \in DOMAIN script : ~(Del(script, k) /\ Ins(script, k))
  BY ScriptIs DEF Del, Ins
<1> HIDE DEF n
<1>2. ~Del(script, i) => P = IF Ins(script, i) \/ Del(script, i - 1) THEN Q \cup {i} ELSE Q
  <2> SUFFICES ASSUME ~Del(script, i)
               PROVE  P = IF Ins(script, i) \/ Del(script, i - 1) THEN Q \cup {i} ELSE Q
    OBVIOUS
  <2>1. \A k \in 1 .. n : k # i => (k \in P <=> k \in Q)
    BY <1>1 DEF Places
  <2>2. i \in P <=> Ins(script, i) \/ Del(script, i - 1)
    BY <1>1 DEF Places
  <2>3. i \notin Q /\ P \subseteq 1 .. n /\ Q \subseteq 1 .. n
    BY <1>1 DEF Places
  <2> DEFINE R == IF Ins(script, i) \/ Del(script, i - 1) THEN Q \cup {i} ELSE Q
  <2> HIDE DEF P, Q
  <2>4. \A k : k \in P <=> k \in R
    BY <1>1, <2>1, <2>2, <2>3
  <2> HIDE DEF R
  <2>5. P = R
    BY <2>4, SameSet
  <2> QED BY <2>5 DEF R
<1>3. Del(script, i) => P = IF i > 1 /\ ~Del(script, i - 1) THEN Q \cup {i - 1} ELSE Q
  <2> SUFFICES ASSUME Del(script, i)
               PROVE  P = IF i > 1 /\ ~Del(script, i - 1) THEN Q \cup {i - 1} ELSE Q
    OBVIOUS
  <2>1. \A k \in 1 .. n : k # i - 1 => (k \in P <=> k \in Q)
    BY <1>1 DEF Places
  <2>2. i - 1 \in P <=> i > 1 /\ ~Del(script, i - 1)
    BY <1>1 DEF Places
  <2>3. P \subseteq 1 .. n /\ Q \subseteq 1 .. n /\ (i - 1 \in Q => i > 1 /\ ~Del(script, i - 1))
    BY <1>1 DEF Places
  <2> DEFINE R == IF i > 1 /\ ~Del(script, i - 1) THEN Q \cup {i - 1} ELSE Q
  <2> HIDE DEF P, Q
  <2>4. \A k : k \in P <=> k \in R
    BY <1>1, <2>1, <2>2, <2>3
  <2> HIDE DEF R
  <2>5. P = R
    BY <2>4, SameSet
  <2> QED BY <2>5 DEF R
<1>4. Marked(script, i) = {NewLine(script, k) : k \in P} /\ Marked(script, i - 1) = {NewLine(script, k) : k \in Q}
  BY DEF Marked
<1> HIDE DEF P, Q
<1> QED BY <1>2, <1>3, <1>4

\* Nothing is marked at first, and at the end what the edit changes.
LEMMA MarkedEnds ==
    ASSUME NEW script, IsScript(script)
    PROVE  Marked(script, 0) = {} /\ Marked(script, Len(script)) = ChangedLines(script)
<1> DEFINE n == Len(script)
           C == {i \in DOMAIN script :
                   /\ script[i].op # "delete"
                   /\ \/ script[i].op = "insert"
                      \/ \E j \in {i - 1, i + 1} \cap DOMAIN script : script[j].op = "delete"}
<1>1. DOMAIN script = 1 .. n /\ n \in Nat
  BY ScriptIs
<1> HIDE DEF n
<1>2. Places(script, 0) = {}
  BY <1>1 DEF Places
<1>3. Places(script, n) = C
  <2>1. \A k \in 1 .. n : k <= n /\ (Del(script, k + 1) => k + 1 <= n)
    BY <1>1 DEF Del
  <2>2. \A k \in 1 .. n : k \in Places(script, n) <=> k \in C
    BY <1>1, <2>1 DEF Places, Del, Ins
  <2>3. Places(script, n) \subseteq 1 .. n /\ C \subseteq 1 .. n
    BY <1>1 DEF Places
  <2> HIDE DEF C
  <2> QED BY <2>2, <2>3
<1>4. ChangedLines(script) = {NewLine(script, k) : k \in C}
  BY DEF ChangedLines
<1> HIDE DEF C
<1> QED BY <1>2, <1>3, <1>4 DEF Marked, n

-----------------------------------------------------------------------------
(* Lines in order *)

Ascending(lines) == \A a, b \in DOMAIN lines : a < b => lines[a] < lines[b]
Ordered(lines, set, n) ==
    /\ lines \in Seq(Nat) /\ Ascending(lines) /\ ToSet(lines) = set
    /\ \A x \in set : x <= n

\* A larger number goes to the end.
LEMMA AppendIs ==
    ASSUME NEW lines, NEW set, NEW n \in Nat, NEW m \in Nat, Ordered(lines, set, n), n < m
    PROVE  Ordered(Append(lines, m), set \cup {m}, m)
<1> DEFINE u == Append(lines, m)
<1>1. lines \in Seq(Nat) /\ \A k \in DOMAIN lines : lines[k] \in Nat /\ lines[k] \in set
  BY DEF Ordered, ToSet
<1>2. \A x \in set : x \in Nat /\ x < m
  BY DEF Ordered, ToSet
<1>3. ToSet(u) = set \cup {m}
  <2>1. ToSet(u) = ToSet(lines) \cup {m}
    BY <1>1, AppendItems
  <2> QED BY <2>1 DEF Ordered
<1>4. u \in Seq(Nat) /\ DOMAIN u = 1 .. Len(lines) + 1 /\ u[Len(lines) + 1] = m
      /\ (\A k \in DOMAIN lines : u[k] = lines[k]) /\ DOMAIN lines = 1 .. Len(lines) /\ Len(lines) \in Nat
  BY <1>1
<1>5. Ascending(u)
  <2> SUFFICES ASSUME NEW a \in DOMAIN u, NEW b \in DOMAIN u, a < b PROVE u[a] < u[b]
    BY DEF Ascending
  <2> HIDE DEF u
  <2>1. a \in DOMAIN lines
    BY <1>4
  <2>2. CASE b \in DOMAIN lines
    BY <1>4, <2>1, <2>2 DEF Ordered, Ascending
  <2>3. CASE b \notin DOMAIN lines
    <3>1. b = Len(lines) + 1
      BY <1>4, <2>3
    <3> QED BY <1>1, <1>2, <1>4, <2>1, <3>1
  <2> QED BY <2>2, <2>3
<1>6. \A x \in set \cup {m} : x <= m
  BY <1>2
<1> HIDE DEF u
<1> QED BY <1>3, <1>4, <1>5, <1>6 DEF Ordered, u

\* What is pushed is there once.
LEMMA PushNewIs ==
    ASSUME NEW lines, NEW set, NEW n \in Nat, Ordered(lines, set, n)
    PROVE  Ordered(PushNew(lines, n), set \cup {n}, n)
<1>1. lines \in Seq(Nat) /\ ToSet(lines) = set /\ \A k \in DOMAIN lines : lines[k] \in Nat /\ lines[k] \in set
  BY DEF Ordered, ToSet
<1>2. CASE lines # <<>> /\ Last(lines) = n
  <2>1. Last(lines) = lines[Len(lines)] /\ Len(lines) \in DOMAIN lines
    BY <1>1, <1>2 DEF Last
  <2>2. n \in set
    BY <1>1, <1>2, <2>1
  <2>3. set \cup {n} = set
    BY <2>2
  <2>4. PushNew(lines, n) = lines
    BY <1>2 DEF PushNew
  <2> QED BY <2>3, <2>4
<1>3. CASE ~(lines # <<>> /\ Last(lines) = n)
  <2>1. PushNew(lines, n) = Append(lines, n)
    BY <1>3 DEF PushNew
  <2>2. n \notin set
    <3> SUFFICES ASSUME n \in set PROVE FALSE
      OBVIOUS
    <3>1. PICK k \in DOMAIN lines : lines[k] = n
      BY <1>1 DEF ToSet
    <3>2. Last(lines) = lines[Len(lines)] /\ Len(lines) \in DOMAIN lines /\ DOMAIN lines = 1 .. Len(lines)
          /\ lines # <<>> /\ Len(lines) \in Nat
      BY <1>1, <3>1 DEF Last
    <3>3. k # Len(lines)
      BY <1>3, <3>1, <3>2
    <3>4. lines[k] < lines[Len(lines)]
      BY <3>1, <3>2, <3>3 DEF Ordered, Ascending
    <3>5. lines[Len(lines)] <= n
      BY <1>1, <3>2 DEF Ordered
    <3> QED BY <1>1, <3>1, <3>2, <3>4, <3>5
  <2>3. CASE n = 0
    <3>1. set = {}
      <4>1. \A x \in set : x \in Nat /\ x <= 0 /\ x # 0
        BY <1>1, <2>2, <2>3 DEF Ordered, ToSet
      <4> QED BY <4>1
    <3> DEFINE one == Append(lines, n)
    <3>2. lines = <<>>
      <4> SUFFICES ASSUME lines # <<>> PROVE FALSE
        OBVIOUS
      <4>1. 1 \in DOMAIN lines
        BY <1>1
      <4> QED BY <1>1, <3>1, <4>1
    <3>3. one = <<n>>
      BY <3>2
    <3>4. one \in Seq(Nat) /\ DOMAIN one = {1} /\ one[1] = n
      BY <3>3
    <3>5. ToSet(one) = {n}
      <4> HIDE DEF one
      <4> QED BY <3>4 DEF ToSet
    <3>6. Ascending(one)
      <4> HIDE DEF one
      <4> QED BY <3>4 DEF Ascending
    <3>7. set \cup {n} = {n} /\ \A x \in {n} : x <= n
      BY <3>1
    <3> HIDE DEF one
    <3>8. Ordered(one, {n}, n)
      BY <3>4, <3>5, <3>6, <3>7 DEF Ordered
    <3> QED BY <2>1, <3>7, <3>8 DEF one
  <2>4. CASE n # 0
    <3> DEFINE p == n - 1
    <3>1. p \in Nat /\ p < n
      BY <2>4
    <3>2. \A x \in set : x <= p
      <4>1. \A x \in set : x \in Nat /\ x <= n /\ x # n
        BY <1>1, <2>2 DEF Ordered, ToSet
      <4> QED BY <4>1
    <3> HIDE DEF p
    <3>3. Ordered(lines, set, p)
      BY <3>2 DEF Ordered
    <3>4. Ordered(Append(lines, n), set \cup {n}, n)
      BY <3>1, <3>3, AppendIs
    <3> QED BY <2>1, <3>4
  <2> QED BY <2>3, <2>4
<1> QED BY <1>2, <1>3

\* What affected_lines has come to after the first i lines of a script.
Good(script, lines, i) ==
    /\ Ordered(lines, Marked(script, i), NewLine(script, i))
    /\ Del(script, i) /\ NewLine(script, i) # 0 => NewLine(script, i) \in Marked(script, i)
At(script, lines, i) ==
    [lines |-> lines, lineno |-> NewLine(script, i) + 1, removed |-> Del(script, i)]

\* A larger bound is a bound.
LEMMA OrderedMore ==
    ASSUME NEW lines, NEW set, NEW n \in Nat, NEW m \in Nat, Ordered(lines, set, n), n <= m
    PROVE  Ordered(lines, set, m)
<1>1. \A x \in set : x \in Nat /\ x <= n
  BY DEF Ordered, ToSet
<1>2. \A x \in set : x <= m
  BY <1>1
<1> QED BY <1>2 DEF Ordered

\* The line of a script that is not shown is neither changed nor beside a change.
LEMMA SkipGood ==
    ASSUME NEW script, IsScript(script), NEW i \in DOMAIN script, NEW lines,
           Good(script, lines, i - 1), ~Del(script, i), ~Ins(script, i), ~Del(script, i - 1)
    PROVE  Good(script, lines, i)
<1>1. i \in 1 .. Len(script) /\ Len(script) \in Nat
  BY ScriptIs
<1>2. NewLine(script, i) = NewLine(script, i - 1) + 1 /\ NewLine(script, i - 1) \in Nat /\ NewLine(script, i) \in Nat
  BY <1>1, NewLineStep
<1>3. Marked(script, i) = Marked(script, i - 1)
  BY MarkedStep
<1> QED BY <1>2, <1>3, OrderedMore DEF Good

\* A line of the script keeps Good.
LEMMA StepGood ==
    ASSUME NEW script, IsScript(script), NEW i \in DOMAIN script, NEW lines, Good(script, lines, i - 1)
    PROVE  \E more : /\ Affected(At(script, lines, i - 1), script[i].op) = At(script, more, i)
                     /\ Good(script, more, i)
<1> DEFINE acc == At(script, lines, i - 1)
           n == NewLine(script, i - 1)
           op == script[i].op
           M == Marked(script, i - 1)
           marked == IF Del(script, i - 1) THEN Append(lines, n + 1) ELSE lines
<1>1. i \in 1 .. Len(script) /\ Len(script) \in Nat /\ op \in {"context", "insert", "delete"}
      /\ (Del(script, i) <=> op = "delete") /\ (Ins(script, i) <=> op = "insert")
  BY ScriptIs
<1>2. NewLine(script, i) = n + (IF Del(script, i) THEN 0 ELSE 1) /\ n \in Nat /\ NewLine(script, i) \in Nat
  BY <1>1, NewLineStep
<1>3. acc.lines = lines /\ acc.lineno = n + 1 /\ acc.removed = Del(script, i - 1)
  BY DEF At
<1>4. Ordered(lines, M, n)
  BY DEF Good
<1>5. Ordered(marked, IF Del(script, i - 1) THEN M \cup {n + 1} ELSE M, n + 1)
  <2>1. n + 1 \in Nat /\ n < n + 1 /\ n <= n + 1
    BY <1>2
  <2> DEFINE m == n + 1
  <2>2. m \in Nat /\ n < m /\ n <= m
    BY <2>1
  <2> HIDE DEF n, M, m
  <2>3. CASE Del(script, i - 1)
    <3>1. Ordered(Append(lines, m), M \cup {m}, m)
      BY <1>2, <1>4, <2>2, AppendIs
    <3> QED BY <2>3, <3>1 DEF m
  <2>4. CASE ~Del(script, i - 1)
    <3>1. Ordered(lines, M, m)
      BY <1>2, <1>4, <2>2, OrderedMore
    <3> QED BY <2>4, <3>1 DEF m
  <2> QED BY <2>3, <2>4
<1>6. CASE op = "context"
  <2>1. ~Del(script, i) /\ ~Ins(script, i) /\ Del(script, i) = FALSE
    BY <1>1, <1>6 DEF Del
  <2>2. Marked(script, i) = IF Del(script, i - 1) THEN M \cup {n + 1} ELSE M
    BY <1>2, <2>1, MarkedStep
  <2>3. Affected(acc, op) = [lines |-> marked, lineno |-> n + 1 + 1, removed |-> FALSE]
    <3> HIDE DEF acc, n, op
    <3> QED BY <1>3, <1>6 DEF Affected
  <2>4. Affected(acc, op) = At(script, marked, i)
    <3>1. NewLine(script, i) + 1 = n + 1 + 1
      BY <1>2, <2>1
    <3> HIDE DEF n, marked, acc
    <3> QED BY <2>1, <2>3, <3>1 DEF At
  <2>5. Good(script, marked, i)
    <3>1. NewLine(script, i) = n + 1
      BY <1>2, <2>1
    <3> HIDE DEF n, marked, acc, M
    <3> QED BY <1>5, <2>1, <2>2, <3>1 DEF Good
  <2> QED BY <2>4, <2>5
<1>7. CASE op = "insert"
  <2> DEFINE more == PushNew(marked, n + 1)
  <2>1. ~Del(script, i) /\ Ins(script, i) /\ Del(script, i) = FALSE
    BY <1>1, <1>7 DEF Del
  <2>2. Marked(script, i) = M \cup {n + 1}
    BY <1>2, <2>1, MarkedStep
  <2>3. Affected(acc, op) = [lines |-> more, lineno |-> n + 1 + 1, removed |-> FALSE]
    <3> HIDE DEF acc, n, op
    <3> QED BY <1>3, <1>7 DEF Affected
  <2>4. Affected(acc, op) = At(script, more, i)
    <3>1. NewLine(script, i) + 1 = n + 1 + 1
      BY <1>2, <2>1
    <3> HIDE DEF n, more, acc
    <3> QED BY <2>1, <2>3, <3>1 DEF At
  <2>5. Ordered(more, M \cup {n + 1}, n + 1)
    <3> DEFINE m == n + 1
               N == IF Del(script, i - 1) THEN M \cup {m} ELSE M
    <3>1. m \in Nat
      BY <1>2
    <3>2. N \cup {m} = M \cup {m}
      OBVIOUS
    <3>3. Ordered(marked, N, m)
      BY <1>5
    <3> HIDE DEF m, N, marked
    <3>4. Ordered(PushNew(marked, m), N \cup {m}, m)
      BY <3>1, <3>3, PushNewIs
    <3>5. Ordered(PushNew(marked, m), M \cup {m}, m)
      BY <3>2, <3>4
    <3> QED BY <3>5 DEF m
  <2>6. Good(script, more, i)
    <3>1. NewLine(script, i) = n + 1
      BY <1>2, <2>1
    <3> HIDE DEF n, more, acc, M
    <3> QED BY <2>1, <2>2, <2>5, <3>1 DEF Good
  <2> QED BY <2>4, <2>6
<1>8. CASE op = "delete"
  <2> DEFINE more == IF n + 1 > 1 THEN PushNew(lines, n) ELSE lines
  <2>1. Del(script, i) /\ Del(script, i) = TRUE /\ NewLine(script, i) = n
    BY <1>1, <1>2, <1>8 DEF Del
  <2>2. Marked(script, i) = IF i > 1 /\ ~Del(script, i - 1) THEN M \cup {n} ELSE M
    BY <2>1, MarkedStep
  <2>4. Affected(acc, op) = [lines |-> more, lineno |-> n + 1, removed |-> TRUE]
    <3> DEFINE m == n + 1
               kept == IF m > 1 THEN PushNew(lines, n) ELSE lines
               result == [lines |-> kept, lineno |-> m, removed |-> TRUE]
    <3>3. m - 1 = n
      BY <1>2
    <3> HIDE DEF acc, n, op
    <3>1. acc.lines = lines /\ acc.lineno = m
      BY <1>3
    <3> HIDE DEF m
    <3>2. Affected(acc, op) = result
      BY <3>1, <3>3, <1>8 DEF Affected
    <3> QED BY <3>2 DEF m
  <2>5. Affected(acc, op) = At(script, more, i)
    <3> HIDE DEF n, more, acc
    <3> QED BY <2>1, <2>4 DEF At
  <2>6. CASE n # 0
    <3>1. more = PushNew(lines, n)
      BY <1>2, <2>6
    <3>2. Marked(script, i) = M \cup {n}
      <4>1. CASE Del(script, i - 1)
        <5>1. n \in M
          BY <2>6, <4>1 DEF Good
        <5> QED BY <2>2, <4>1, <5>1
      <4>2. CASE ~Del(script, i - 1)
        <5>1. i # 1
          BY <2>6, NewLineStep
        <5> QED BY <1>1, <2>2, <4>2, <5>1
      <4> QED BY <4>1, <4>2
    <3> HIDE DEF n, M, more, acc
    <3>3. Ordered(more, M \cup {n}, n)
      BY <1>2, <1>4, <3>1, PushNewIs
    <3>4. Good(script, more, i)
      BY <2>1, <3>2, <3>3 DEF Good
    <3> QED BY <2>5, <3>4 DEF acc
  <2>7. CASE n = 0
    <3>1. more = lines
      BY <1>2, <2>7
    <3>2. Marked(script, i) = M
      <4>1. CASE i = 1
        BY <2>2, <4>1
      <4>2. CASE i # 1 /\ ~Del(script, i - 1)
        <5> DEFINE j == i - 1
        <5>1. j \in DOMAIN script /\ j \in 0 .. Len(script) /\ j - 1 \in 0 .. Len(script)
          BY <1>1, <4>2, ScriptIs
        <5>2. NewLine(script, j) = NewLine(script, j - 1) + 1 /\ NewLine(script, j - 1) \in Nat
          <6> HIDE DEF j, n
          <6>1. ~Del(script, j)
            BY <4>2 DEF j
          <6> QED BY <5>1, <6>1, NewLineStep
        <5> QED BY <2>7, <5>2
      <4>3. CASE Del(script, i - 1)
        BY <2>2, <4>3
      <4> QED BY <4>1, <4>2, <4>3
    <3> HIDE DEF n, M, more, acc
    <3>3. Good(script, more, i)
      BY <1>4, <2>1, <2>7, <3>1, <3>2 DEF Good
    <3> QED BY <2>5, <3>3 DEF acc
  <2> QED BY <2>6, <2>7
<1> QED BY <1>1, <1>6, <1>7, <1>8

-----------------------------------------------------------------------------
(* The loops of affected_lines *)

Acc == [lines : Seq(Nat), lineno : Nat, removed : BOOLEAN]

\* PushNew on line numbers.
LEMMA PushNewType ==
    ASSUME NEW lines \in Seq(Nat), NEW n \in Nat
    PROVE  PushNew(lines, n) \in Seq(Nat)
BY DEF PushNew

\* A step of affected_lines has its type.
LEMMA AffectedType ==
    ASSUME NEW acc \in Acc, NEW op \in {"context", "insert", "delete"}
    PROVE  Affected(acc, op) \in Acc
<1> DEFINE marked == IF acc.removed THEN Append(acc.lines, acc.lineno) ELSE acc.lines
           n == acc.lineno
<1>1. acc.lines \in Seq(Nat) /\ n \in Nat /\ acc.removed \in BOOLEAN
  BY DEF Acc
<1>2. marked \in Seq(Nat)
  BY <1>1
<1>3. n + 1 \in Nat /\ (n > 1 => n - 1 \in Nat)
  BY <1>1
<1>4. CASE op = "context"
  <2>1. Affected(acc, op) = [lines |-> marked, lineno |-> n + 1, removed |-> FALSE]
    BY <1>4 DEF Affected
  <2> HIDE DEF marked, n
  <2> QED BY <1>2, <1>3, <2>1 DEF Acc
<1>5. CASE op = "insert"
  <2>1. Affected(acc, op) = [lines |-> PushNew(marked, n), lineno |-> n + 1, removed |-> FALSE]
    BY <1>5 DEF Affected
  <2> HIDE DEF marked, n
  <2>2. PushNew(marked, n) \in Seq(Nat)
    BY <1>1, <1>2, PushNewType
  <2> QED BY <1>3, <2>1, <2>2 DEF Acc
<1>6. CASE op = "delete"
  <2> DEFINE kept == IF n > 1 THEN PushNew(acc.lines, n - 1) ELSE acc.lines
  <2>1. Affected(acc, op) = [lines |-> kept, lineno |-> n, removed |-> TRUE]
    BY <1>6 DEF Affected
  <2>2. kept \in Seq(Nat)
    <3>1. CASE n > 1
      <4>1. PushNew(acc.lines, n - 1) \in Seq(Nat)
        <5> DEFINE m == n - 1
        <5>1. m \in Nat
          BY <1>3, <3>1
        <5> HIDE DEF m
        <5>2. PushNew(acc.lines, m) \in Seq(Nat)
          BY <1>1, <5>1, PushNewType
        <5> QED BY <5>2 DEF m
      <4> QED BY <3>1, <4>1
    <3>2. CASE ~(n > 1)
      BY <1>1, <3>2
    <3> QED BY <3>1, <3>2
  <2> HIDE DEF kept, n
  <2> QED BY <1>1, <2>1, <2>2 DEF Acc
<1> QED BY <1>4, <1>5, <1>6

IsHunk(hunk) ==
    /\ hunk.start \in Nat /\ Len(hunk.lines) \in Nat
    /\ \A n \in 1 .. Len(hunk.lines) : hunk.lines[n].op \in {"context", "insert", "delete"}

Affects(f, lines, hunk) ==
    /\ f[0] = [lines |-> lines, lineno |-> hunk.start, removed |-> FALSE]
    /\ \A n \in 1 .. Len(hunk.lines) : f[n] = Affected(f[n - 1], hunk.lines[n].op)
    /\ \A n \in 0 .. Len(hunk.lines) : f[n] \in Acc

\* The lines of a hunk are gone through one after the other.
LEMMA HunkIs ==
    ASSUME NEW lines \in Seq(Nat), NEW hunk, IsHunk(hunk)
    PROVE  \E f : Affects(f, lines, hunk) /\ AffectedInHunk(lines, hunk) = f[Len(hunk.lines)].lines
<1> DEFINE N == Len(hunk.lines)
           op(n) == hunk.lines[n].op
           base == [lines |-> lines, lineno |-> hunk.start, removed |-> FALSE]
           step == [p \in Nat \X Acc |-> IF p[1] + 1 \in 1 .. N THEN Affected(p[2], op(p[1] + 1)) ELSE p[2]]
           F(g) == [n \in 0 .. N |-> IF n = 0 THEN base ELSE Affected(g[n - 1], op(n))]
           f == CHOOSE g : g = F(g)
<1>1. N \in Nat /\ \A n \in 1 .. N : op(n) \in {"context", "insert", "delete"}
  BY DEF IsHunk
<1>2. base \in Acc
  BY DEF IsHunk, Acc
<1>3. AffectedInHunk(lines, hunk) = f[N].lines
  BY DEF AffectedInHunk
<1> HIDE DEF N, op, base
<1>4. step \in [Nat \X Acc -> Acc]
  <2> SUFFICES ASSUME NEW n \in Nat, NEW acc \in Acc
               PROVE  (IF n + 1 \in 1 .. N THEN Affected(acc, op(n + 1)) ELSE acc) \in Acc
    OBVIOUS
  <2>1. CASE n + 1 \in 1 .. N
    <3> DEFINE o == op(n + 1)
    <3>1. o \in {"context", "insert", "delete"}
      BY <1>1, <2>1
    <3> HIDE DEF o
    <3>2. Affected(acc, o) \in Acc
      BY <3>1, AffectedType
    <3> QED BY <2>1, <3>2 DEF o
  <2>2. CASE n + 1 \notin 1 .. N
    BY <2>2
  <2> QED BY <2>1, <2>2
<1> DEFINE V == Acc
<1>5. base \in V /\ step \in [Nat \X V -> V]
  BY <1>2, <1>4
<1> HIDE DEF step, V
<1>6. PICK g : Follows(g, V, base, step)
  BY <1>5, Recursion
<1>7. g \in [Nat -> V] /\ g[0] = base /\ \A n \in Nat : g[n + 1] = step[<<n, g[n]>>]
  BY <1>6 DEF Follows
<1> DEFINE h == [n \in 0 .. N |-> g[n]]
<1>8. \A n \in 1 .. N : g[n] = Affected(g[n - 1], op(n))
  <2> SUFFICES ASSUME NEW n \in 1 .. N PROVE g[n] = Affected(g[n - 1], op(n))
    OBVIOUS
  <2>1. n - 1 \in Nat /\ (n - 1) + 1 = n
    BY <1>1
  <2>2. g[n] = step[<<n - 1, g[n - 1]>>] /\ g[n - 1] \in V
    BY <1>7, <2>1
  <2> QED BY <2>1, <2>2 DEF step, V
<1>9. h = F(h)
  <2>1. ASSUME NEW n \in 0 .. N
        PROVE  g[n] = IF n = 0 THEN base ELSE Affected(h[n - 1], op(n))
    <3>1. CASE n = 0
      BY <1>7, <3>1
    <3>2. CASE n # 0
      <4>1. n \in 1 .. N /\ n - 1 \in 0 .. N
        BY <1>1, <3>2
      <4>2. h[n - 1] = g[n - 1]
        BY <4>1
      <4> QED BY <1>8, <3>2, <4>1, <4>2
    <3> QED BY <3>1, <3>2
  <2> QED BY <2>1
<1> HIDE DEF h
<1>10. f = F(f)
  BY <1>9
<1> HIDE DEF f
<1>11. \A n \in 0 .. N : f[n] = IF n = 0 THEN base ELSE Affected(f[n - 1], op(n))
  BY <1>10
<1>12. f[0] = base /\ \A n \in 1 .. N : f[n] = Affected(f[n - 1], op(n))
  BY <1>1, <1>11
<1> DEFINE S == {n \in Nat : n \in 0 .. N => f[n] \in Acc}
<1>13. 0 \in S
  BY <1>2, <1>12
<1>14. \A n \in Nat : n \in S => n + 1 \in S
  <2> SUFFICES ASSUME NEW n \in Nat, n \in S, n + 1 \in 0 .. N PROVE f[n + 1] \in Acc
    OBVIOUS
  <2> DEFINE m == n + 1
             o == op(m)
             a == f[n]
  <2>1. m \in 1 .. N /\ m - 1 = n /\ a \in Acc
    BY <1>1
  <2>2. o \in {"context", "insert", "delete"}
    BY <1>1, <2>1
  <2>3. f[m] = Affected(a, o)
    BY <1>12, <2>1
  <2> HIDE DEF a, o
  <2>4. Affected(a, o) \in Acc
    BY <2>1, <2>2, AffectedType
  <2> QED BY <2>3, <2>4
<1>15. \A n \in 0 .. N : f[n] \in Acc
  <2> HIDE DEF S
  <2>1. \A n \in Nat : n \in S
    BY <1>13, <1>14, Induction
  <2> QED BY <1>1, <2>1 DEF S
<1>16. Affects(f, lines, hunk)
  BY <1>12, <1>15 DEF Affects, base, N, op
<1> QED BY <1>3, <1>16 DEF N

\* A hunk adds line numbers.
LEMMA HunkType ==
    ASSUME NEW lines \in Seq(Nat), NEW hunk, IsHunk(hunk)
    PROVE  AffectedInHunk(lines, hunk) \in Seq(Nat)
<1>1. PICK f : Affects(f, lines, hunk) /\ AffectedInHunk(lines, hunk) = f[Len(hunk.lines)].lines
  BY HunkIs
<1>2. Len(hunk.lines) \in 0 .. Len(hunk.lines)
  BY DEF IsHunk
<1>3. f[Len(hunk.lines)] \in Acc
  BY <1>1, <1>2 DEF Affects
<1> QED BY <1>1, <1>3 DEF Acc

Marks(f, patch) ==
    /\ f[0] = <<>>
    /\ \A n \in 1 .. Len(patch.hunks) : f[n] = AffectedInHunk(f[n - 1], patch.hunks[n])

\* So are the hunks of a patch.
LEMMA LinesIs ==
    ASSUME NEW patch, Len(patch.hunks) \in Nat, \A n \in 1 .. Len(patch.hunks) : IsHunk(patch.hunks[n])
    PROVE  \E f : Marks(f, patch) /\ AffectedLines(patch) = f[Len(patch.hunks)]
<1> DEFINE N == Len(patch.hunks)
           hunk(n) == patch.hunks[n]
           V == Seq(Nat)
           base == <<>>
           step == [p \in Nat \X V |-> IF p[1] + 1 \in 1 .. N THEN AffectedInHunk(p[2], hunk(p[1] + 1)) ELSE p[2]]
           F(g) == [n \in 0 .. N |-> IF n = 0 THEN base ELSE AffectedInHunk(g[n - 1], hunk(n))]
           f == CHOOSE g : g = F(g)
<1>1. N \in Nat /\ \A n \in 1 .. N : IsHunk(hunk(n))
  OBVIOUS
<1>2. base \in V
  OBVIOUS
<1>3. AffectedLines(patch) = f[N]
  BY DEF AffectedLines
<1> HIDE DEF N, hunk, base
<1>4. step \in [Nat \X V -> V]
  <2> SUFFICES ASSUME NEW n \in Nat, NEW lines \in V
               PROVE  (IF n + 1 \in 1 .. N THEN AffectedInHunk(lines, hunk(n + 1)) ELSE lines) \in V
    OBVIOUS
  <2>1. CASE n + 1 \in 1 .. N
    <3> DEFINE o == hunk(n + 1)
    <3>1. IsHunk(o)
      BY <1>1, <2>1
    <3> HIDE DEF o
    <3>2. AffectedInHunk(lines, o) \in V
      BY <3>1, HunkType
    <3> QED BY <2>1, <3>2 DEF o
  <2>2. CASE n + 1 \notin 1 .. N
    BY <2>2
  <2> QED BY <2>1, <2>2
<1> HIDE DEF step, V
<1>6. PICK g : Follows(g, V, base, step)
  BY <1>2, <1>4, Recursion
<1>7. g \in [Nat -> V] /\ g[0] = base /\ \A n \in Nat : g[n + 1] = step[<<n, g[n]>>]
  BY <1>6 DEF Follows
<1> DEFINE h == [n \in 0 .. N |-> g[n]]
<1>8. \A n \in 1 .. N : g[n] = AffectedInHunk(g[n - 1], hunk(n))
  <2> SUFFICES ASSUME NEW n \in 1 .. N PROVE g[n] = AffectedInHunk(g[n - 1], hunk(n))
    OBVIOUS
  <2>1. n - 1 \in Nat /\ (n - 1) + 1 = n
    BY <1>1
  <2>2. g[n] = step[<<n - 1, g[n - 1]>>] /\ g[n - 1] \in V
    BY <1>7, <2>1
  <2> QED BY <2>1, <2>2 DEF step
<1>9. h = F(h)
  <2>1. ASSUME NEW n \in 0 .. N
        PROVE  g[n] = IF n = 0 THEN base ELSE AffectedInHunk(h[n - 1], hunk(n))
    <3>1. CASE n = 0
      BY <1>7, <3>1
    <3>2. CASE n # 0
      <4>1. n \in 1 .. N /\ n - 1 \in 0 .. N
        BY <1>1, <3>2
      <4>2. h[n - 1] = g[n - 1]
        BY <4>1
      <4> QED BY <1>8, <3>2, <4>1, <4>2
    <3> QED BY <3>1, <3>2
  <2> QED BY <2>1
<1> HIDE DEF h
<1>10. f = F(f)
  BY <1>9
<1> HIDE DEF f
<1>11. \A n \in 0 .. N : f[n] = IF n = 0 THEN base ELSE AffectedInHunk(f[n - 1], hunk(n))
  BY <1>10
<1>12. f[0] = base /\ \A n \in 1 .. N : f[n] = AffectedInHunk(f[n - 1], hunk(n))
  BY <1>1, <1>11
<1>13. Marks(f, patch)
  BY <1>12 DEF Marks, base, N, hunk
<1> QED BY <1>3, <1>13 DEF N

-----------------------------------------------------------------------------
(* One hunk *)

\* The lines of a hunk are those of the script from first to last.
LEMMA HunkLines ==
    ASSUME NEW script, IsScript(script), NEW a \in DOMAIN script, NEW b \in DOMAIN script, a <= b
    PROVE  /\ Len(Hunk(script, a, b).lines) = b - a + 1
           /\ \A k \in 1 .. b - a + 1 : /\ a - 1 + k \in a .. b
                                        /\ a - 1 + k \in DOMAIN script
                                        /\ Hunk(script, a, b).lines[k] = script[a - 1 + k]
           /\ IsHunk(Hunk(script, a, b))
<1> DEFINE hunk == Hunk(script, a, b)
           s == SubSeq(script, a, b)
           n == Len(script)
           T == ToSet(script)
<1>1. script \in Seq(T) /\ DOMAIN script = 1 .. n /\ n \in Nat
  BY ScriptIs DEF IsScript
<1>2. hunk.lines = s
  BY DEF Hunk
<1>3. a \in 1 .. n /\ b \in 1 .. n
  BY <1>1
<1> HIDE DEF n, T
<1>4. Len(s) = b - a + 1 /\ \A k \in 1 .. b - a + 1 : s[k] = script[a + k - 1]
  BY <1>1, <1>3
<1>5. \A k \in 1 .. b - a + 1 : a - 1 + k \in a .. b /\ a - 1 + k \in 1 .. n /\ a - 1 + k = a + k - 1
  BY <1>1, <1>3
<1>6. \A k \in 1 .. b - a + 1 : s[k] = script[a - 1 + k] /\ a - 1 + k \in DOMAIN script
  BY <1>1, <1>4, <1>5
<1>7. hunk.start \in Nat
  <2> DEFINE x == NewLine(script, b)
             y == NewLine(script, a - 1)
  <2>1. b \in 0 .. n /\ a - 1 \in 0 .. n
    BY <1>1, <1>3
  <2>2. x \in Nat /\ y \in Nat
    BY <2>1, NewLineStep DEF n
  <2>3. hunk.start = IF x = y THEN x ELSE y + 1
    BY DEF Hunk
  <2> HIDE DEF x, y, hunk
  <2> QED BY <2>2, <2>3
<1>8. \A k \in 1 .. b - a + 1 : s[k].op \in {"context", "insert", "delete"}
  BY <1>6, ScriptIs
<1>9. IsHunk(hunk)
  <2>1. b - a + 1 \in Nat
    BY <1>1, <1>3
  <2> HIDE DEF hunk, s
  <2> QED BY <1>2, <1>4, <1>7, <1>8, <2>1 DEF IsHunk
<1> HIDE DEF s, hunk
<1> QED BY <1>2, <1>4, <1>5, <1>6, <1>9 DEF hunk

\* A hunk that shows lines of the new file begins at the first of them.
LEMMA HunkGood ==
    ASSUME NEW script, IsScript(script), NEW a \in DOMAIN script, NEW b \in DOMAIN script, a <= b,
           NEW lines, Good(script, lines, a - 1), ~Del(script, a - 1),
           NewLine(script, b) # NewLine(script, a - 1)
    PROVE  Good(script, AffectedInHunk(lines, Hunk(script, a, b)), b)
<1> DEFINE hunk == Hunk(script, a, b)
           N == b - a + 1
           Held(f, k) == \E more : f[k] = At(script, more, a - 1 + k) /\ Good(script, more, a - 1 + k)
<1>1. a \in Nat /\ b \in Nat /\ N \in Nat /\ lines \in Seq(Nat) /\ a - 1 + N = b
  BY ScriptIs DEF Good, Ordered
<1>2. IsHunk(hunk) /\ Len(hunk.lines) = N
      /\ \A k \in 1 .. N : a - 1 + k \in DOMAIN script /\ hunk.lines[k] = script[a - 1 + k]
  BY HunkLines
<1>3. hunk.start = NewLine(script, a - 1) + 1
  BY DEF Hunk
<1> HIDE DEF hunk, N
<1>4. PICK f : Affects(f, lines, hunk) /\ AffectedInHunk(lines, hunk) = f[Len(hunk.lines)].lines
  BY <1>1, <1>2, HunkIs
<1>5. f[0] = [lines |-> lines, lineno |-> hunk.start, removed |-> FALSE]
      /\ \A n \in 1 .. N : f[n] = Affected(f[n - 1], hunk.lines[n].op)
  BY <1>2, <1>4 DEF Affects
<1> DEFINE S == {k \in Nat : k \in 0 .. N => Held(f, k)}
<1>6. 0 \in S
  <2>1. a - 1 + 0 = a - 1
    BY <1>1
  <2>2. Del(script, a - 1) = FALSE
    BY DEF Del
  <2>3. f[0] = At(script, lines, a - 1)
    BY <1>3, <1>5, <2>2 DEF At
  <2> QED BY <2>1, <2>3
<1>7. \A k \in Nat : k \in S => k + 1 \in S
  <2> SUFFICES ASSUME NEW k \in Nat, Held(f, k), k + 1 \in 1 .. N
               PROVE  Held(f, k + 1)
    <3>1. \A k \in Nat : /\ k + 1 \in Nat /\ (k \in S <=> (k \in 0 .. N => Held(f, k)))
                         /\ (k + 1 \in S <=> (k + 1 \in 0 .. N => Held(f, k + 1)))
                         /\ (k + 1 \in 0 .. N => k \in 0 .. N /\ k + 1 \in 1 .. N)
      <4> HIDE DEF Held
      <4> QED BY <1>1
    <3> HIDE DEF S, Held
    <3> QED BY <3>1
  <2> DEFINE i == a + k
  <2>1. i - 1 = a - 1 + k /\ a - 1 + (k + 1) = i /\ (k + 1) - 1 = k
    BY <1>1
  <2>2. i \in DOMAIN script /\ hunk.lines[k + 1] = script[i]
    BY <1>2, <2>1
  <2>3. f[k + 1] = Affected(f[k], script[i].op)
    BY <1>5, <2>1, <2>2
  <2> HIDE DEF i
  <2>4. PICK more : f[k] = At(script, more, i - 1) /\ Good(script, more, i - 1)
    BY <2>1
  <2>5. PICK then : Affected(At(script, more, i - 1), script[i].op) = At(script, then, i) /\ Good(script, then, i)
    BY <2>2, <2>4, StepGood
  <2>6. f[k + 1] = At(script, then, i) /\ Good(script, then, i)
    BY <2>3, <2>4, <2>5
  <2> QED BY <2>1, <2>6
<1>8. Held(f, N)
  <2> HIDE DEF S
  <2>1. \A k \in Nat : k \in S
    BY <1>6, <1>7, Induction
  <2>2. N \in S /\ N \in 0 .. N
    BY <1>1, <2>1
  <2> HIDE DEF Held
  <2> QED BY <2>2 DEF S
<1>9. PICK more : f[N] = At(script, more, b) /\ Good(script, more, b)
  BY <1>1, <1>8
<1>10. AffectedInHunk(lines, hunk) = more
  BY <1>2, <1>4, <1>9 DEF At
<1> QED BY <1>9, <1>10 DEF hunk

\* A hunk that deletes the whole file is given the line before the first.
LEMMA HunkEmpties ==
    ASSUME NEW script, IsScript(script), NEW b \in DOMAIN script, NEW lines, Good(script, lines, 0),
           \A i \in 1 .. b : Del(script, i), NewLine(script, b) = 0
    PROVE  Good(script, AffectedInHunk(lines, Hunk(script, 1, b)), b)
<1> DEFINE hunk == Hunk(script, 1, b)
<1>1. 1 \in DOMAIN script /\ b \in Nat /\ 1 <= b /\ b - 1 + 1 = b /\ lines \in Seq(Nat)
  BY ScriptIs DEF Good, Ordered
<1>2. IsHunk(hunk) /\ Len(hunk.lines) = b /\ \A k \in 1 .. b : hunk.lines[k] = script[1 - 1 + k]
  BY <1>1, HunkLines
<1>3. \A k \in 1 .. b : hunk.lines[k].op = "delete"
  <2>1. \A k \in 1 .. b : 1 - 1 + k = k
    BY <1>1
  <2> QED BY <1>2, <2>1 DEF Del
<1>4. hunk.start = 0
  <2>1. 1 - 1 = 0 /\ NewLine(script, 0) = 0
    BY NewLineStep
  <2> QED BY <2>1 DEF Hunk
<1> HIDE DEF hunk
<1>5. PICK f : Affects(f, lines, hunk) /\ AffectedInHunk(lines, hunk) = f[Len(hunk.lines)].lines
  BY <1>1, <1>2, HunkIs
<1>6. f[0] = [lines |-> lines, lineno |-> 0, removed |-> FALSE]
      /\ \A n \in 1 .. b : f[n] = Affected(f[n - 1], "delete")
  BY <1>2, <1>3, <1>4, <1>5 DEF Affects
<1> DEFINE Held(k) == f[k].lines = lines /\ f[k].lineno = 0
           S == {k \in Nat : k \in 0 .. b => Held(k)}
<1>7. 0 \in S
  BY <1>6
<1>8. \A k \in Nat : k \in S => k + 1 \in S
  <2> SUFFICES ASSUME NEW k \in Nat, Held(k), k + 1 \in 1 .. b
               PROVE  Held(k + 1)
    <3>1. \A k \in Nat : /\ k + 1 \in Nat /\ (k \in S <=> (k \in 0 .. b => Held(k)))
                         /\ (k + 1 \in S <=> (k + 1 \in 0 .. b => Held(k + 1)))
                         /\ (k + 1 \in 0 .. b => k \in 0 .. b /\ k + 1 \in 1 .. b)
      <4> HIDE DEF Held
      <4> QED BY <1>1
    <3> HIDE DEF S, Held
    <3> QED BY <3>1
  <2> DEFINE acc == f[k]
  <2>1. f[k + 1] = Affected(acc, "delete")
    <3>1. (k + 1) - 1 = k
      OBVIOUS
    <3> QED BY <1>6, <3>1
  <2>2. acc.lines = lines /\ acc.lineno = 0
    OBVIOUS
  <2> HIDE DEF acc
  <2>3. Affected(acc, "delete") = [lines |-> lines, lineno |-> 0, removed |-> TRUE]
    BY <2>2 DEF Affected
  <2> QED BY <2>1, <2>3
<1>9. Held(b)
  <2> HIDE DEF S
  <2>1. \A k \in Nat : k \in S
    BY <1>7, <1>8, Induction
  <2>2. b \in S /\ b \in 0 .. b
    BY <1>1, <2>1
  <2> HIDE DEF Held
  <2> QED BY <2>2 DEF S
<1>10. AffectedInHunk(lines, hunk) = lines
  BY <1>2, <1>5, <1>9
<1>11. Marked(script, 0) = {} /\ Marked(script, b) = {}
  <2>1. Places(script, b) = {}
    <3>1. \A k \in Places(script, b) : k \in 1 .. b /\ ~Del(script, k)
      BY <1>1, ScriptIs DEF Places
    <3> QED BY <3>1
  <2> QED BY <2>1, MarkedEnds DEF Marked
<1>12. Good(script, lines, b)
  <2>1. NewLine(script, 0) = 0
    BY NewLineStep
  <2> QED BY <1>11, <2>1 DEF Good
<1> QED BY <1>10, <1>12 DEF hunk

-----------------------------------------------------------------------------
(* The hunks of a script *)

\* Line numbers of the new file grow with the script.
LEMMA NewLineGrows ==
    ASSUME NEW script, IsScript(script), NEW i \in 0 .. Len(script), NEW j \in 0 .. Len(script), i <= j
    PROVE  NewLine(script, i) <= NewLine(script, j)
<1> DEFINE n == Len(script)
           S == {k \in Nat : k \in i .. n => NewLine(script, i) <= NewLine(script, k)}
<1>1. n \in Nat /\ DOMAIN script = 1 .. n /\ i \in 0 .. n /\ j \in 0 .. n
  BY ScriptIs
<1> HIDE DEF n
<1>2. \A k \in 0 .. n : NewLine(script, k) \in Nat
  BY NewLineStep DEF n
<1>3. 0 \in S
  BY <1>1, <1>2
<1>4. \A k \in Nat : k \in S => k + 1 \in S
  <2> SUFFICES ASSUME NEW k \in Nat, k \in S, k + 1 \in i .. n PROVE NewLine(script, i) <= NewLine(script, k + 1)
    OBVIOUS
  <2>1. CASE k + 1 = i
    BY <1>1, <1>2, <2>1
  <2>2. CASE k + 1 # i
    <3> DEFINE m == k + 1
    <3>1. k \in i .. n /\ k \in 0 .. n /\ m \in DOMAIN script /\ m - 1 = k /\ m \in 0 .. n
      BY <1>1, <2>2
    <3>2. NewLine(script, i) <= NewLine(script, k)
      BY <3>1
    <3>3. NewLine(script, m) = NewLine(script, m - 1) + (IF Del(script, m) THEN 0 ELSE 1)
      BY <3>1, NewLineStep
    <3> HIDE DEF m
    <3>4. NewLine(script, i) \in Nat /\ NewLine(script, k) \in Nat /\ NewLine(script, m) \in Nat
      BY <1>1, <1>2, <3>1
    <3>5. NewLine(script, i) <= NewLine(script, m)
      BY <3>1, <3>2, <3>3, <3>4
    <3> QED BY <3>5 DEF m
  <2> QED BY <2>1, <2>2
<1>5. j \in S
  <2> HIDE DEF S
  <2>1. \A k \in Nat : k \in S
    BY <1>3, <1>4, Induction
  <2> QED BY <1>1, <2>1
<1> QED BY <1>1, <1>5

\* What is not shown is context, with context on both sides.
LEMMA HiddenIs ==
    ASSUME NEW script, IsScript(script), NEW context \in Nat \ {0}
    PROVE  /\ Shown(script, context) \subseteq DOMAIN script
           /\ \A i \in DOMAIN script \ Shown(script, context) :
                 \A j \in {i - 1, i, i + 1} : ~Del(script, j) /\ ~Ins(script, j)
<1>1. DOMAIN script = 1 .. Len(script) /\ Len(script) \in Nat
  BY ScriptIs
<1>2. ASSUME NEW i \in DOMAIN script \ Shown(script, context), NEW j \in {i - 1, i, i + 1},
             Del(script, j) \/ Ins(script, j)
      PROVE  FALSE
  <2>1. j \in Changes(script)
    BY <1>2 DEF Changes, Del, Ins
  <2>2. i \in Nat /\ i <= j + context /\ j <= i + context
    BY <1>1, <1>2
  <2> QED BY <2>1, <2>2 DEF Shown
<1> QED BY <1>2 DEF Shown

\* Nothing is shown between a place after which nothing is and the next first line.
LEMMA Gap ==
    ASSUME NEW shown \in SUBSET Nat, NEW low \in Nat, NEW high,
           low + 1 \in shown => low \notin shown,
           \A x \in shown : x - 1 \notin shown /\ low < x => high <= x,
           high \in Nat
    PROVE  \A x \in shown : ~(low < x /\ x < high)
<1> DEFINE T == {x \in shown : low < x /\ x < high}
<1> SUFFICES ASSUME T # {} PROVE FALSE
  OBVIOUS
<1>1. T \in SUBSET Nat
  OBVIOUS
<1>2. PICK x \in T : \A y \in T : x <= y
  <2> HIDE DEF T
  <2> QED BY <1>1, Least
<1>3. x \in shown /\ x \in Nat /\ low < x /\ x < high
  BY <1>2
<1>4. x - 1 \in shown
  BY <1>3
<1>5. x - 1 \notin T
  BY <1>2, <1>3
<1>6. x - 1 \in Nat /\ x - 1 <= low
  BY <1>3, <1>4, <1>5
<1>7. x = low + 1 /\ x - 1 = low
  BY <1>3, <1>6
<1> QED BY <1>3, <1>4, <1>7

\* Lines that are not shown change nothing.
LEMMA SkipTo ==
    ASSUME NEW script, IsScript(script), NEW context \in Nat \ {0},
           NEW low \in 0 .. Len(script), NEW high \in 0 .. Len(script), low <= high,
           NEW lines, Good(script, lines, low),
           \A x \in Shown(script, context) : ~(low < x /\ x <= high)
    PROVE  Good(script, lines, high)
<1> DEFINE n == Len(script)
           S == {k \in Nat : k \in low .. high => Good(script, lines, k)}
<1>1. n \in Nat /\ DOMAIN script = 1 .. n /\ low \in 0 .. n /\ high \in 0 .. n
  BY ScriptIs
<1> HIDE DEF n
<1>2. 0 \in S
  BY <1>1
<1>3. \A k \in Nat : k \in S => k + 1 \in S
  <2> SUFFICES ASSUME NEW k \in Nat, k \in S, k + 1 \in low .. high PROVE Good(script, lines, k + 1)
    OBVIOUS
  <2>1. CASE k + 1 = low
    BY <2>1
  <2>2. CASE k + 1 # low
    <3> DEFINE m == k + 1
    <3>1. k \in low .. high /\ m \in DOMAIN script /\ m - 1 = k /\ low < m /\ m <= high
      BY <1>1, <2>2
    <3>2. Good(script, lines, k)
      BY <3>1
    <3> HIDE DEF m, S
    <3>3. m \in DOMAIN script \ Shown(script, context)
      BY <3>1
    <3>4. ~Del(script, m) /\ ~Ins(script, m) /\ ~Del(script, m - 1)
      BY <3>3, HiddenIs
    <3>5. Good(script, lines, m)
      BY <3>1, <3>2, <3>4, SkipGood
    <3> QED BY <3>5 DEF m
  <2> QED BY <2>1, <2>2
<1>4. high \in S
  <2> HIDE DEF S
  <2>1. \A k \in Nat : k \in S
    BY <1>2, <1>3, Induction
  <2> QED BY <1>1, <2>1
<1> QED BY <1>1, <1>4

\* A hunk leads over the lines from its first to its last.
LEMMA HunkLeads ==
    ASSUME NEW script, IsScript(script), NEW context \in Nat \ {0},
           NEW a \in Shown(script, context), a - 1 \notin Shown(script, context),
           NEW b \in DOMAIN script, a <= b, NEW lines, Good(script, lines, a - 1)
    PROVE  Good(script, AffectedInHunk(lines, Hunk(script, a, b)), b)
<1> DEFINE n == Len(script)
<1>1. DOMAIN script = 1 .. n /\ n \in Nat /\ a \in DOMAIN script
  BY ScriptIs, HiddenIs
<1> HIDE DEF n
<1>2. a # 1 => a - 1 \in DOMAIN script
  BY <1>1
<1>3. ~Del(script, a - 1) /\ (a # 1 => ~Del(script, a))
  <2>1. CASE a = 1
    <3>1. 0 \notin DOMAIN script /\ a - 1 = 0
      BY <1>1, <2>1
    <3> QED BY <2>1, <3>1 DEF Del
  <2>2. CASE a # 1
    <3> DEFINE p == a - 1
    <3>1. p \in DOMAIN script \ Shown(script, context) /\ p + 1 = a
      BY <1>1, <1>2, <2>2
    <3> HIDE DEF p
    <3>2. ~Del(script, p) /\ ~Del(script, p + 1)
      BY <3>1, HiddenIs
    <3> QED BY <3>1, <3>2 DEF p
  <2> QED BY <2>1, <2>2
<1>4. CASE NewLine(script, b) # NewLine(script, a - 1)
  BY <1>1, <1>3, <1>4, HunkGood
<1>5. CASE NewLine(script, b) = NewLine(script, a - 1)
  <2>1. ASSUME NEW i \in a .. b, ~Del(script, i) PROVE FALSE
    <3>1. i \in DOMAIN script /\ i \in 0 .. n /\ i - 1 \in 0 .. n /\ a - 1 \in 0 .. n /\ b \in 0 .. n
          /\ a - 1 <= i - 1 /\ i <= b
      BY <1>1
    <3> DEFINE w == NewLine(script, a - 1)
               x == NewLine(script, i - 1)
               y == NewLine(script, i)
               z == NewLine(script, b)
    <3>2. w \in Nat /\ x \in Nat /\ y \in Nat /\ z \in Nat
      BY <3>1, NewLineStep DEF n
    <3>3. y = x + 1
      BY <2>1, <3>1, NewLineStep
    <3>4. w <= x
      <4> DEFINE p == a - 1
                 q == i - 1
      <4>1. p \in 0 .. Len(script) /\ q \in 0 .. Len(script) /\ p <= q
        BY <3>1 DEF n
      <4> HIDE DEF p, q
      <4>2. NewLine(script, p) <= NewLine(script, q)
        BY <4>1, NewLineGrows
      <4> QED BY <4>2 DEF p, q
    <3>5. y <= z
      BY <3>1, NewLineGrows DEF n
    <3>6. z = w
      BY <1>5
    <3> HIDE DEF w, x, y, z
    <3> QED BY <3>2, <3>3, <3>4, <3>5, <3>6
  <2>2. a = 1 /\ a - 1 = 0
    <3>1. a \in a .. b
      BY <1>1
    <3>2. Del(script, a)
      BY <2>1, <3>1
    <3> QED BY <1>3, <3>2
  <2>3. NewLine(script, b) = 0 /\ Good(script, lines, 0) /\ \A i \in 1 .. b : Del(script, i)
    BY <1>5, <2>1, <2>2, NewLineStep
  <2>4. Good(script, AffectedInHunk(lines, Hunk(script, 1, b)), b)
    BY <2>3, HunkEmpties
  <2> QED BY <2>2, <2>4
<1> QED BY <1>4, <1>5

\* Numbers that are picked from 1, 2, 3, ... come in their order.
LEMMA PickNumbers ==
    ASSUME NEW n \in Nat, NEW I
    PROVE  Ordered(Pick([i \in 1 .. n |-> i], I), I \cap (1 .. n), n)
<1> DEFINE id(m) == [i \in 1 .. m |-> i]
           picked(m) == Pick(id(m), I)
           in(m) == I \cap (1 .. m)
           S == {m \in Nat : Ordered(picked(m), in(m), m)}
<1>1. \A m \in Nat : id(m) \in Seq(Nat) /\ Len(id(m)) = m /\ id(m + 1) = Append(id(m), m + 1)
  OBVIOUS
<1>2. 0 \in S
  <2> DEFINE none == <<>>
  <2>1. id(0) = none
    OBVIOUS
  <2>2. picked(0) = none
    BY <2>1, PickEmpty
  <2>3. in(0) = {}
    OBVIOUS
  <2>4. none \in Seq(Nat) /\ ToSet(none) = {} /\ Ascending(none)
    BY DEF ToSet, Ascending
  <2> HIDE DEF none, picked, in
  <2>5. Ordered(none, {}, 0)
    BY <2>4 DEF Ordered
  <2> QED BY <2>2, <2>3, <2>5
<1>3. \A m \in Nat : m \in S => m + 1 \in S
  <2> SUFFICES ASSUME NEW m \in Nat, Ordered(picked(m), in(m), m)
               PROVE  Ordered(picked(m + 1), in(m + 1), m + 1)
    <3>1. \A m \in Nat : m + 1 \in Nat
      OBVIOUS
    <3> HIDE DEF picked, in
    <3> QED BY <3>1
  <2> DEFINE k == m + 1
             s == id(m)
             p == picked(m)
             J == in(m)
  <2>1. k \in Nat /\ m < k /\ m <= k
    OBVIOUS
  <2>2. s \in Seq(Nat) /\ Len(s) = m /\ id(k) = Append(s, k)
    BY <1>1
  <2>3. picked(k) = Pick(Append(s, k), I)
    BY <2>2
  <2> HIDE DEF s, k
  <2>4. Pick(Append(s, k), I) = IF Len(s) + 1 \in I THEN Append(Pick(s, I), k) ELSE Pick(s, I)
    BY <2>1, <2>2, PickAppend
  <2>5. picked(k) = IF k \in I THEN Append(p, k) ELSE p
    BY <2>2, <2>3, <2>4 DEF s, k
  <2>6. in(k) = IF k \in I THEN J \cup {k} ELSE J
    <3>1. 1 .. k = (1 .. m) \cup {k}
      BY DEF k
    <3>2. in(k) = I \cap (1 .. k) /\ J = I \cap (1 .. m)
      OBVIOUS
    <3> HIDE DEF k, in, J
    <3> QED BY <3>1, <3>2
  <2>7. Ordered(p, J, m)
    OBVIOUS
  <2> HIDE DEF k, p, J, picked, in, id
  <2>8. CASE k \in I
    <3>1. Ordered(Append(p, k), J \cup {k}, k)
      BY <2>1, <2>7, AppendIs
    <3> QED BY <2>5, <2>6, <2>8, <3>1 DEF k
  <2>9. CASE k \notin I
    <3>1. Ordered(p, J, k)
      BY <2>1, <2>7, OrderedMore
    <3> QED BY <2>5, <2>6, <2>9, <3>1 DEF k
  <2> QED BY <2>8, <2>9
<1>4. n \in S
  <2> HIDE DEF S
  <2> QED BY <1>2, <1>3, Induction
<1> QED BY <1>4

\* The last line of the hunk that begins at a.
LastShown(shown, a) == Max({j \in shown : j >= a /\ a .. j \subseteq shown})

\* The last line of a run of shown lines.
LEMMA LastShownIs ==
    ASSUME NEW n \in Nat, NEW shown \in SUBSET (1 .. n), NEW a \in shown
    PROVE  LET b == LastShown(shown, a)
           IN  b \in shown /\ a <= b /\ a .. b \subseteq shown /\ b + 1 \notin shown
<1> DEFINE T == {j \in shown : j >= a /\ a .. j \subseteq shown}
           b == Max(T)
<1>1. T \in SUBSET (0 .. n) /\ a \in T
  <2>1. a \in Nat /\ a .. a \subseteq {a} /\ a >= a
    OBVIOUS
  <2>2. a .. a \subseteq shown
    BY <2>1
  <2>3. a \in T
    BY <2>1, <2>2
  <2>4. T \subseteq shown
    OBVIOUS
  <2>5. \A x \in shown : x \in 0 .. n
    OBVIOUS
  <2> HIDE DEF T
  <2> QED BY <2>3, <2>4, <2>5
<1>2. b \in T /\ \A x \in T : x <= b
  <2> HIDE DEF T
  <2> QED BY <1>1, MaxIs
<1>3. b + 1 \notin shown
  <2> SUFFICES ASSUME b + 1 \in shown PROVE FALSE
    OBVIOUS
  <2> DEFINE c == b + 1
  <2> HIDE DEF b
  <2>1. b \in shown /\ b \in Nat /\ a \in Nat /\ a <= b /\ a .. b \subseteq shown
    BY <1>2
  <2>2. a .. c = (a .. b) \cup {c} /\ c >= a
    BY <2>1
  <2>3. c \in T
    BY <2>1, <2>2
  <2>4. c <= b
    BY <1>2, <2>3
  <2> QED BY <2>1, <2>4
<1>4. LastShown(shown, a) = b
  BY DEF LastShown
<1>5. b \in shown /\ a <= b /\ a .. b \subseteq shown
  BY <1>2
<1> HIDE DEF b
<1> QED BY <1>3, <1>4, <1>5

\* Hunks start where a shown line follows a hidden one, and end with the run.
LEMMA HunksAre ==
    ASSUME NEW script, IsScript(script), NEW context \in Nat \ {0}
    PROVE  LET n == Len(script)
               shown == Shown(script, context)
               starts == {i \in shown : i - 1 \notin shown}
               firsts == Pick([i \in 1 .. n |-> i], starts)
           IN  /\ n \in Nat /\ DOMAIN script = 1 .. n /\ shown \in SUBSET (1 .. n)
               /\ Ordered(firsts, starts, n)
               /\ Len(Hunks(script, context)) = Len(firsts)
               /\ \A h \in 1 .. Len(firsts) :
                     Hunks(script, context)[h] = Hunk(script, firsts[h], LastShown(shown, firsts[h]))
<1> DEFINE n == Len(script)
           shown == Shown(script, context)
           starts == {i \in shown : i - 1 \notin shown}
           firsts == Pick([i \in 1 .. n |-> i], starts)
           hunks == [h \in DOMAIN firsts |-> Hunk(script, firsts[h], LastShown(shown, firsts[h]))]
<1>1. DOMAIN script = 1 .. n /\ n \in Nat
  BY ScriptIs
<1>2. shown \in SUBSET (1 .. n)
  BY <1>1, HiddenIs
<1>3. Hunks(script, context) = hunks
  BY <1>1 DEF Hunks, LastShown
<1> HIDE DEF n, shown
<1>4. starts \cap (1 .. n) = starts
  BY <1>2
<1>5. Ordered(firsts, starts, n)
  <2> HIDE DEF starts
  <2>1. Ordered(Pick([i \in 1 .. n |-> i], starts), starts \cap (1 .. n), n)
    BY <1>1, PickNumbers
  <2> QED BY <1>4, <2>1
<1> HIDE DEF starts, firsts
<1>6. DOMAIN firsts = 1 .. Len(firsts) /\ Len(firsts) \in Nat
  BY <1>5 DEF Ordered
<1>7. Len(hunks) = Len(firsts) /\ \A h \in 1 .. Len(firsts) : hunks[h] = Hunk(script, firsts[h], LastShown(shown, firsts[h]))
  BY <1>6
<1> HIDE DEF hunks
<1> QED BY <1>1, <1>2, <1>3, <1>5, <1>7 DEF n, shown, starts, firsts

\* Numbers in order have none between two neighbours.
LEMMA Neighbours ==
    ASSUME NEW lines, NEW set, NEW n, Ordered(lines, set, n), NEW x \in set
    PROVE  /\ Len(lines) \in Nat /\ Len(lines) # 0 /\ lines[1] <= x /\ x <= lines[Len(lines)]
           /\ \A h \in 1 .. Len(lines) : h # Len(lines) => x <= lines[h] \/ lines[h + 1] <= x
<1>1. lines \in Seq(Nat) /\ Ascending(lines) /\ ToSet(lines) = set
  BY DEF Ordered
<1>2. PICK g \in DOMAIN lines : lines[g] = x
  BY <1>1 DEF ToSet
<1>3. DOMAIN lines = 1 .. Len(lines) /\ Len(lines) \in Nat /\ g \in 1 .. Len(lines)
      /\ \A k \in 1 .. Len(lines) : lines[k] \in Nat
  BY <1>1, <1>2
<1>4. \A a \in 1 .. Len(lines) : \A b \in 1 .. Len(lines) : a <= b => lines[a] <= lines[b]
  <2> SUFFICES ASSUME NEW a \in 1 .. Len(lines), NEW b \in 1 .. Len(lines), a <= b PROVE lines[a] <= lines[b]
    OBVIOUS
  <2>1. CASE a = b
    BY <1>3, <2>1
  <2>2. CASE a # b
    <3>1. a < b
      BY <1>3, <2>2
    <3>2. lines[a] < lines[b]
      BY <1>1, <1>3, <3>1 DEF Ascending
    <3> QED BY <1>3, <3>2
  <2> QED BY <2>1, <2>2
<1>5. 1 \in 1 .. Len(lines) /\ Len(lines) \in 1 .. Len(lines) /\ 1 <= g /\ g <= Len(lines)
  BY <1>3
<1>6. lines[1] <= x /\ x <= lines[Len(lines)]
  BY <1>2, <1>3, <1>4, <1>5
<1>7. ASSUME NEW h \in 1 .. Len(lines), h # Len(lines) PROVE x <= lines[h] \/ lines[h + 1] <= x
  <2> DEFINE N == Len(lines)
             m == h + 1
  <2>1. N \in Nat /\ g \in 1 .. N /\ h \in 1 .. N /\ h # N
    BY <1>3, <1>7
  <2> HIDE DEF N
  <2>2. m \in 1 .. N /\ (g <= h \/ m <= g)
    BY <2>1
  <2> HIDE DEF m
  <2>3. CASE g <= h
    <3>1. lines[g] <= lines[h]
      BY <1>4, <2>1, <2>3 DEF N
    <3> QED BY <1>2, <3>1
  <2>4. CASE m <= g
    <3>1. lines[m] <= lines[g]
      BY <1>4, <2>1, <2>2, <2>4 DEF N
    <3> QED BY <1>2, <3>1 DEF m
  <2> QED BY <2>2, <2>3, <2>4
<1>8. Len(lines) \in Nat /\ Len(lines) # 0
  BY <1>3
<1>9. \A h \in 1 .. Len(lines) : h # Len(lines) => x <= lines[h] \/ lines[h + 1] <= x
  BY <1>7
<1> QED BY <1>6, <1>8, <1>9

\* affected_lines, over the hunks of a diff, comes to the lines that are marked.
LEMMA HunksMark ==
    ASSUME NEW script, IsScript(script), NEW context \in Nat \ {0},
           NEW patch, patch.hunks = Hunks(script, context)
    PROVE  Good(script, AffectedLines(patch), Len(script))
<1> DEFINE n == Len(script)
           shown == Shown(script, context)
           starts == {i \in shown : i - 1 \notin shown}
           firsts == Pick([i \in 1 .. n |-> i], starts)
           hunks == Hunks(script, context)
           H == Len(firsts)
           last(h) == LastShown(shown, firsts[h])
           e(h) == IF h = H THEN n ELSE firsts[h + 1] - 1
<1>1. n \in Nat /\ DOMAIN script = 1 .. n /\ shown \in SUBSET (1 .. n)
  BY HunksAre
<1>2. Ordered(firsts, starts, n)
  BY HunksAre
<1>3. Len(hunks) = H /\ \A h \in 1 .. H : hunks[h] = Hunk(script, firsts[h], last(h))
  BY HunksAre
<1> HIDE DEF n, shown, firsts, hunks, H
<1>4. H \in Nat /\ \A h \in 1 .. H : firsts[h] \in shown /\ firsts[h] - 1 \notin shown
                                     /\ firsts[h] \in 1 .. n /\ firsts[h] - 1 \in 0 .. n
  <2>1. firsts \in Seq(Nat) /\ ToSet(firsts) = starts
    BY <1>2 DEF Ordered
  <2>2. H \in Nat /\ \A h \in 1 .. H : firsts[h] \in starts
    <3> HIDE DEF starts
    <3>1. DOMAIN firsts = 1 .. H /\ H \in Nat
      BY <2>1 DEF H
    <3> QED BY <2>1, <3>1 DEF ToSet
  <2>3. \A x \in starts : x \in shown /\ x - 1 \notin shown /\ x \in 1 .. n /\ x - 1 \in 0 .. n
    BY <1>1
  <2> HIDE DEF starts
  <2> QED BY <2>2, <2>3
<1>5. \A h \in 1 .. H : /\ last(h) \in shown /\ firsts[h] <= last(h) /\ last(h) + 1 \notin shown
                        /\ last(h) \in 1 .. n /\ firsts[h] .. last(h) \subseteq shown
  <2> SUFFICES ASSUME NEW h \in 1 .. H
               PROVE  /\ last(h) \in shown /\ firsts[h] <= last(h) /\ last(h) + 1 \notin shown
                      /\ last(h) \in 1 .. n /\ firsts[h] .. last(h) \subseteq shown
    OBVIOUS
  <2> DEFINE a == firsts[h]
  <2>1. a \in shown
    BY <1>4
  <2> HIDE DEF a
  <2> DEFINE b == LastShown(shown, a)
  <2>2. b \in shown /\ a <= b /\ a .. b \subseteq shown /\ b + 1 \notin shown
    BY <1>1, <2>1, LastShownIs
  <2> HIDE DEF b
  <2>3. b \in 1 .. n
    BY <1>1, <2>2
  <2> QED BY <2>2, <2>3 DEF a, b
<1>6. \A h \in 1 .. H : IsHunk(hunks[h])
  <2> SUFFICES ASSUME NEW h \in 1 .. H PROVE IsHunk(hunks[h])
    OBVIOUS
  <2> DEFINE a == firsts[h]
             b == last(h)
  <2>1. a \in DOMAIN script /\ b \in DOMAIN script /\ a <= b /\ hunks[h] = Hunk(script, a, b)
    BY <1>1, <1>3, <1>4, <1>5
  <2> HIDE DEF a, b
  <2>2. IsHunk(Hunk(script, a, b))
    BY <2>1, HunkLines
  <2> QED BY <2>1, <2>2
<1>7. PICK f : Marks(f, patch) /\ AffectedLines(patch) = f[Len(patch.hunks)]
  <2>1. patch.hunks = hunks
    BY DEF hunks
  <2>2. Len(patch.hunks) \in Nat /\ \A k \in 1 .. Len(patch.hunks) : IsHunk(patch.hunks[k])
    BY <1>3, <1>4, <1>6, <2>1
  <2> QED BY <2>2, LinesIs
<1>8. f[0] = <<>> /\ (\A h \in 1 .. H : f[h] = AffectedInHunk(f[h - 1], hunks[h])) /\ AffectedLines(patch) = f[H]
  BY <1>3, <1>7 DEF Marks, hunks
\* No hunk begins before the first, or between one and the next, or after the last.
<1>9. \A x \in starts : /\ H # 0 /\ firsts[1] <= x
                        /\ x <= firsts[H]
                        /\ \A h \in 1 .. H : h # H => x <= firsts[h] \/ firsts[h + 1] <= x
  <2> HIDE DEF starts
  <2> QED BY <1>2, Neighbours DEF H
<1>10. \A h \in 0 .. H : e(h) \in 0 .. n
  <2> SUFFICES ASSUME NEW h \in 0 .. H PROVE e(h) \in 0 .. n
    OBVIOUS
  <2>1. h # H => h + 1 \in 1 .. H
    BY <1>4
  <2> QED BY <1>1, <1>4, <2>1
<1> DEFINE S == {h \in Nat : h \in 0 .. H => Good(script, f[h], e(h))}
\* From a place to the next first line nothing is shown.
<1>11. ASSUME NEW h \in 0 .. H, NEW low \in 0 .. n, low <= e(h), NEW lines, Good(script, lines, low),
              low + 1 \in shown => low \notin shown,
              \A x \in starts : low < x => e(h) < x
       PROVE  Good(script, lines, e(h))
  <2> DEFINE top == e(h)
             high == top + 1
  <2>1. top \in 0 .. n /\ high \in Nat /\ low \in Nat
    BY <1>1, <1>10
  <2>2. low <= top /\ \A x \in starts : low < x => top < x
    BY <1>11
  <2> HIDE DEF top
  <2>3. \A x \in shown : x - 1 \notin shown /\ low < x => high <= x
    BY <1>1, <2>1, <2>2
  <2>4. shown \in SUBSET Nat
    BY <1>1
  <2> HIDE DEF high
  <2>5. \A x \in shown : ~(low < x /\ x < high)
    BY <1>11, <2>1, <2>3, <2>4, Gap
  <2>6. \A x \in shown : ~(low < x /\ x <= top)
    BY <1>1, <2>1, <2>5 DEF high
  <2>7. low \in 0 .. Len(script) /\ top \in 0 .. Len(script)
    BY <2>1 DEF n
  <2>8. Good(script, lines, top)
    BY <1>11, <2>2, <2>6, <2>7, SkipTo DEF shown
  <2> QED BY <2>8 DEF top
<1>12. 0 \in S
  <2> DEFINE none == <<>>
  <2>1. Good(script, none, 0)
    <3>1. none \in Seq(Nat) /\ ToSet(none) = {} /\ Ascending(none)
      BY DEF ToSet, Ascending
    <3>2. ~Del(script, 0)
      BY <1>1 DEF Del
    <3> HIDE DEF none
    <3>3. Ordered(none, {}, NewLine(script, 0))
      BY <3>1 DEF Ordered
    <3> QED BY <3>2, <3>3, MarkedEnds DEF Good
  <2>2. f[0] = none
    BY <1>8
  <2> HIDE DEF none
  <2>3. 0 \in 0 .. H /\ 0 \in 0 .. n /\ 0 <= e(0) /\ 0 \notin shown
    <3>1. 0 \in 0 .. H /\ 0 \in 0 .. n /\ 0 \notin shown
      BY <1>1, <1>4
    <3>2. e(0) \in 0 .. n
      BY <1>10, <3>1
    <3> HIDE DEF e
    <3> QED BY <1>1, <3>1, <3>2
  <2>4. \A x \in starts : 0 < x => e(0) < x
    <3> SUFFICES ASSUME NEW x \in starts PROVE e(0) < x
      OBVIOUS
    <3>1. H # 0 /\ firsts[1] <= x /\ 1 \in 1 .. H
      BY <1>4, <1>9
    <3>2. firsts[1] \in Nat /\ x \in Nat /\ e(0) = firsts[1] - 1
      <4>1. 0 # H /\ 0 + 1 = 1
        BY <3>1
      <4> QED BY <1>1, <1>4, <3>1, <4>1
    <3> HIDE DEF e
    <3> QED BY <3>1, <3>2
  <2> HIDE DEF e
  <2>5. Good(script, none, e(0))
    BY <1>11, <2>1, <2>3, <2>4
  <2> QED BY <2>2, <2>5
<1>13. \A h \in Nat : h \in S => h + 1 \in S
  <2> SUFFICES ASSUME NEW h \in Nat, Good(script, f[h], e(h)), h + 1 \in 1 .. H
               PROVE  Good(script, f[h + 1], e(h + 1))
    <3>1. \A k \in Nat : /\ k + 1 \in Nat /\ (k \in S <=> (k \in 0 .. H => Good(script, f[k], e(k))))
                         /\ (k + 1 \in S <=> (k + 1 \in 0 .. H => Good(script, f[k + 1], e(k + 1))))
                         /\ (k + 1 \in 0 .. H => k \in 0 .. H /\ k + 1 \in 1 .. H)
      <4> HIDE DEF e
      <4> QED BY <1>4
    <3> HIDE DEF S, e
    <3> QED BY <3>1
  <2> DEFINE g == h + 1
             a == firsts[g]
             b == last(g)
             lines == f[h]
             more == f[g]
  <2>1. g \in 1 .. H /\ g \in 0 .. H /\ g - 1 = h /\ h # H
    BY <1>4
  <2>2. e(h) = a - 1
    BY <2>1
  <2>3. a \in shown /\ a - 1 \notin shown /\ a \in 1 .. n /\ b \in 1 .. n /\ b \in shown /\ a <= b /\ b + 1 \notin shown
    BY <1>4, <1>5, <2>1
  <2>4. more = AffectedInHunk(lines, Hunk(script, a, b))
    BY <1>3, <1>8, <2>1
  <2>5. Good(script, lines, a - 1)
    BY <2>2
  <2>6. b <= e(g) /\ \A x \in starts : b < x => e(g) < x
    <3>1. CASE g = H
      <4>1. e(g) = n
        BY <3>1
      <4>2. \A x \in starts : x <= a
        BY <1>9, <3>1
      <4> HIDE DEF e, a, b
      <4> QED BY <1>1, <2>3, <4>1, <4>2
    <3>2. CASE g # H
      <4> DEFINE c == firsts[g + 1]
      <4>1. g + 1 \in 1 .. H
        BY <1>4, <2>1, <3>2
      <4>2. e(g) = c - 1 /\ c \in 1 .. n /\ c \in shown /\ c - 1 \notin shown
        BY <1>4, <3>2, <4>1
      <4>3. \A x \in starts : x <= a \/ c <= x
        BY <1>9, <2>1, <3>2
      <4>4. a < c
        <5>1. firsts \in Seq(Nat) /\ Ascending(firsts)
          BY <1>2 DEF Ordered
        <5>2. DOMAIN firsts = 1 .. H /\ g < g + 1
          BY <2>1, <5>1 DEF H
        <5> QED BY <2>1, <4>1, <5>1, <5>2 DEF Ascending
      <4>5. a .. b \subseteq shown
        BY <1>5, <2>1
      <4> HIDE DEF e, a, b, c
      <4>6. b < c
        <5> SUFFICES ASSUME c <= b PROVE FALSE
          BY <1>1, <2>3, <4>2
        <5>1. c - 1 \in a .. b
          BY <1>1, <2>3, <4>2, <4>4
        <5> QED BY <4>2, <4>5, <5>1
      <4> QED BY <1>1, <2>3, <4>2, <4>3, <4>6
    <3> QED BY <3>1, <3>2
  <2> HIDE DEF a, b, lines, more, g, e
  <2>7. a \in DOMAIN script /\ b \in DOMAIN script /\ b \in 0 .. n
    BY <1>1, <2>3
  <2>8. Good(script, AffectedInHunk(lines, Hunk(script, a, b)), b)
    BY <2>3, <2>5, <2>7, HunkLeads DEF shown
  <2>9. Good(script, more, e(g))
    BY <1>11, <2>1, <2>3, <2>4, <2>6, <2>7, <2>8
  <2> QED BY <2>9 DEF g, more
<1>14. Good(script, f[H], e(H))
  <2> HIDE DEF S, e
  <2>1. \A h \in Nat : h \in S
    BY <1>12, <1>13, Induction
  <2>2. H \in S /\ H \in 0 .. H
    BY <1>4, <2>1
  <2> QED BY <2>2 DEF S
<1> QED BY <1>8, <1>14 DEF n

\* The lines of a patch are those that its edit changes, in order.
LEMMA PatchMarks ==
    ASSUME inv \in Invocations, Args.in_diff.is = "diff", NEW i \in DOMAIN Args.in_diff.edits
    PROVE  LET lines == AffectedLines(Args.in_diff.patches[i])
           IN  lines \in Seq(Nat) /\ Ascending(lines)
               /\ ToSet(lines) = ChangedLines(Args.in_diff.edits[i].script)
<1> DEFINE diff == Args.in_diff
           script == diff.edits[i].script
           patch == diff.patches[i]
           lines == AffectedLines(patch)
<1>1. IsDiff(diff)
  BY InvocationsAssumption DEF Args
<1>2. diff.context \in Nat \ {0} /\ IsSeq(diff.edits) /\ (\A edit \in ToSet(diff.edits) : IsScript(edit.script))
      /\ diff.patches = GitDiff(diff.edits, diff.context)
  <2> HIDE DEF diff
  <2> QED BY <1>1 DEF IsDiff
<1>3. IsScript(script)
  <2>1. diff.edits[i] \in ToSet(diff.edits)
    BY DEF ToSet
  <2> QED BY <1>2, <2>1
<1>4. patch.hunks = Hunks(script, diff.context)
  BY <1>2 DEF GitDiff
<1> DEFINE context == diff.context
<1> HIDE DEF script, patch, context
<1>5. Good(script, AffectedLines(patch), Len(script))
  <2>1. context \in Nat \ {0} /\ patch.hunks = Hunks(script, context)
    BY <1>2, <1>4 DEF context
  <2> QED BY <1>3, <2>1, HunksMark
<1>6. Ordered(lines, ChangedLines(script), NewLine(script, Len(script)))
  BY <1>3, <1>5, MarkedEnds DEF Good
<1>7. lines \in Seq(Nat) /\ Ascending(lines) /\ ToSet(lines) = ChangedLines(script)
  <2> HIDE DEF lines
  <2> QED BY <1>6 DEF Ordered
<1> QED BY <1>7 DEF lines, script, patch

\* And so in each patch of a diff.
LEMMA DiffsMark ==
    ASSUME inv \in Invocations
    PROVE  DiffMarksEveryChange
<1> SUFFICES ASSUME Args.in_diff.is = "diff", NEW i \in DOMAIN Args.in_diff.edits
             PROVE  LET lines == AffectedLines(Args.in_diff.patches[i])
                    IN  /\ ToSet(lines) = ChangedLines(Args.in_diff.edits[i].script)
                        /\ \A a, b \in DOMAIN lines : a < b => lines[a] < lines[b]
  BY DEF DiffMarksEveryChange
<1> DEFINE lines == AffectedLines(Args.in_diff.patches[i])
<1>1. Ascending(lines) /\ ToSet(lines) = ChangedLines(Args.in_diff.edits[i].script)
  BY PatchMarks
<1> HIDE DEF lines
<1>2. \A a, b \in DOMAIN lines : a < b => lines[a] < lines[b]
  BY <1>1 DEF Ascending
<1> QED BY <1>1, <1>2 DEF lines

\* Wherever hunks begin and end, affected_lines finds the lines that the edit
\* changes, in order and once each, as the binary search of diff_filter needs them.
THEOREM DiffTheorem == Spec => []DiffMarksEveryChange
<1>1. WalkInv => DiffMarksEveryChange
  BY DiffsMark DEF WalkInv, WalkType
<1> QED BY <1>1, WalkSafe, PTL

-----------------------------------------------------------------------------
(* What is due *)

\* The mutant of a file as the walk makes it.
Made(p, f, m) ==
    [package |-> p.name, path |-> f, name |-> m.name, first |-> m.first, last |-> m.last]

\* The mutants of a file, as the walk makes them.
LEMMA MadeIs ==
    ASSUME inv \in Invocations, NEW p, NEW f \in Paths
    PROVE  ToSet(MutantsOf(p, f)) = {Made(p, f, m) : m \in ToSet(FileAt(Tree, f)[1].mutants)}
<1> DEFINE found == FileAt(Tree, f)[1].mutants
           s == [i \in DOMAIN found |-> Made(p, f, found[i])]
<1>1. MutantsOf(p, f) = s
  BY DEF MutantsOf, Made
<1> HIDE DEF found
<1>2. ToSet(s) = {Made(p, f, m) : m \in ToSet(found)}
  BY DEF ToSet
<1> HIDE DEF s
<1> QED BY <1>1, <1>2 DEF found

\* The filter keeps what the edits touch.
LEMMA TouchesIs ==
    ASSUME inv \in Invocations, Args.in_diff.is = "diff", NEW f \in Paths, NEW p, NEW m
    PROVE  Touches(Args.in_diff.patches, Made(p, f, m)) <=> InSomeEdit(f, m)
<1> DEFINE diff == Args.in_diff
           edits == diff.edits
           patches == diff.patches
           range == m.first .. m.last
           I == {i \in DOMAIN patches : ChangesSource(patches[i]) /\ patches[i].path = f}
           L(i) == ToSet(AffectedLines(patches[i]))
           C(i) == ChangedLines(edits[i].script)
<1>1. IsDiff(diff)
  BY InvocationsAssumption DEF Args
<1>2. patches = GitDiff(edits, diff.context)
  <2> HIDE DEF diff
  <2> QED BY <1>1 DEF IsDiff
<1>3. f # NoPath
  <2>1. IsWorkspace(Tree)
    BY TreeIs
  <2> QED BY <2>1 DEF IsWorkspace, Paths, NoPath
<1>4. DOMAIN patches = DOMAIN edits
      /\ \A i \in DOMAIN edits : /\ patches[i].rs = edits[i].rs
                                 /\ patches[i].path = IF edits[i].removed THEN NoPath ELSE edits[i].path
  <2> HIDE DEF edits, patches
  <2> QED BY <1>2 DEF GitDiff
<1>5. \A i \in DOMAIN edits : L(i) = C(i)
  <2> SUFFICES ASSUME NEW i \in DOMAIN edits PROVE L(i) = C(i)
    OBVIOUS
  <2> QED BY PatchMarks
<1>6. Touches(patches, Made(p, f, m)) <=> range \cap UNION {L(i) : i \in I} # {}
  <2>1. Made(p, f, m).path = f /\ Made(p, f, m).first = m.first /\ Made(p, f, m).last = m.last
    BY DEF Made
  <2> HIDE DEF patches
  <2> QED BY <2>1 DEF Touches, LinesChanged
<1>7. InSomeEdit(f, m) <=> \E i \in DOMAIN edits : /\ edits[i].rs /\ ~edits[i].removed /\ edits[i].path = f
                                                   /\ range \cap C(i) # {}
  BY DEF InSomeEdit
<1> HIDE DEF edits, patches, L, C, range
<1>8. \A i \in DOMAIN edits : i \in I <=> edits[i].rs /\ ~edits[i].removed /\ edits[i].path = f
  BY <1>3, <1>4 DEF ChangesSource
<1>9. I \subseteq DOMAIN edits
  BY <1>4
<1> HIDE DEF I
<1>10. range \cap UNION {L(i) : i \in I} # {} <=> \E i \in I : range \cap L(i) # {}
  OBVIOUS
<1>11. (\E i \in I : range \cap L(i) # {}) <=> InSomeEdit(f, m)
  BY <1>5, <1>7, <1>8, <1>9
<1> QED BY <1>6, <1>10, <1>11 DEF patches

\* A file of a chosen package that the globs leave in, and what the options say
\* of a mutant in it.
Examined(p, f) == p \in Chosen /\ f \in CrateFiles(p) /\ AllowsSourceFilePath(f)
Found(f) == ToSet(FileAt(Tree, f)[1].mutants)
Passes(f, m) ==
    /\ Args.iterate => m.name \notin inv.caught
    /\ Args.in_diff.is # "none" => InSomeEdit(f, m)
Reported(m) == [package |-> m.package, name |-> m.name]

\* The files of complete packages are those of their crates.
LEMMA CompleteFiles ==
    ASSUME inv \in Invocations, NEW p \in Complete
    PROVE  /\ p \in Members /\ ToSet(FilesOf[p]) = CrateFiles(p) /\ CrateFiles(p) \subseteq Paths
           /\ \A x : x \in WholeMutants[p] <=>
                 \E f : f \in CrateFiles(p) /\ AllowsSourceFilePath(f) /\ x \in ToSet(MutantsOf(p, f))
<1>1. p \in Members /\ FilesOf[p] \in Seq(Paths) /\ ToSet(FilesOf[p]) = CrateFilesOf[p]
  BY DEF Complete
<1>2. ToSet(FilesOf[p]) = CrateFiles(p) /\ CrateFiles(p) \subseteq Paths
  <2>1. CrateFilesOf[p] = CrateFiles(p)
    BY <1>1, CrateIs
  <2> QED BY <1>1, <2>1, Items
<1> DEFINE F == CrateFiles(p)
<1>3. WholeMutants[p] = MutantsFrom[<<p, ToSet(FilesOf[p])>>]
  BY <1>1 DEF WholeMutants
<1>4. F \in SUBSET Paths /\ ToSet(FilesOf[p]) = F
  BY <1>2
<1> HIDE DEF F
<1>5. MutantsFrom[<<p, F>>] = UNION {ToSet(MutantsOf(p, f)) : f \in F \cap AllowedPaths}
  BY <1>1, <1>4, MutantsFromIs
<1>6. \A f : f \in F \cap AllowedPaths <=> f \in F /\ AllowsSourceFilePath(f)
  BY <1>4 DEF AllowedPaths
<1>7. \A x : x \in WholeMutants[p] <=>
         \E f : f \in F /\ AllowsSourceFilePath(f) /\ x \in ToSet(MutantsOf(p, f))
  <2> DEFINE G == F \cap AllowedPaths
  <2>1. \A x : x \in UNION {ToSet(MutantsOf(p, f)) : f \in G} <=> \E f \in G : x \in ToSet(MutantsOf(p, f))
    <3> HIDE DEF G
    <3> QED OBVIOUS
  <2>2. WholeMutants[p] = UNION {ToSet(MutantsOf(p, f)) : f \in G}
    BY <1>3, <1>4, <1>5
  <2>3. \A f : f \in G <=> f \in F /\ AllowsSourceFilePath(f)
    BY <1>6
  <2> HIDE DEF G
  <2> QED BY <2>1, <2>2, <2>3
<1> QED BY <1>1, <1>2, <1>7 DEF F

\* The mutants before any filter but globs.
LEMMA AllMutantsAre ==
    ASSUME inv \in Invocations, ToSet(Selected) = Chosen, ToSet(Selected) \subseteq Complete
    PROVE  \A x : x \in AllMutants <=>
              \E p, f : Examined(p, f) /\ f \in Paths /\ \E m \in Found(f) : x = Made(p, f, m)
<1>1. \A x : x \in AllMutants <=> \E p \in Chosen : x \in WholeMutants[p]
  BY DEF AllMutants
<1>2. \A p \in Chosen : /\ CrateFiles(p) \subseteq Paths
                        /\ \A x : x \in WholeMutants[p] <=>
                              \E f : f \in CrateFiles(p) /\ AllowsSourceFilePath(f) /\ x \in ToSet(MutantsOf(p, f))
  <2> SUFFICES ASSUME NEW p \in Chosen
               PROVE  /\ CrateFiles(p) \subseteq Paths
                      /\ \A x : x \in WholeMutants[p] <=>
                            \E f : f \in CrateFiles(p) /\ AllowsSourceFilePath(f) /\ x \in ToSet(MutantsOf(p, f))
    OBVIOUS
  <2>1. p \in Complete
    OBVIOUS
  <2> QED BY <2>1, CompleteFiles
<1>3. \A p : \A f \in Paths : ToSet(MutantsOf(p, f)) = {Made(p, f, m) : m \in Found(f)}
  BY MadeIs DEF Found
<1>4. \A p : \A f \in Paths : \A x : x \in ToSet(MutantsOf(p, f)) <=> \E m \in Found(f) : x = Made(p, f, m)
  BY <1>3
<1>5. \A x : x \in AllMutants <=>
         \E p, f : p \in Chosen /\ f \in CrateFiles(p) /\ AllowsSourceFilePath(f) /\ f \in Paths
                   /\ x \in ToSet(MutantsOf(p, f))
  BY <1>1, <1>2
<1> SUFFICES ASSUME NEW x
             PROVE  x \in AllMutants <=>
                       \E p, f : Examined(p, f) /\ f \in Paths /\ \E m \in Found(f) : x = Made(p, f, m)
  OBVIOUS
<1>6. ASSUME x \in AllMutants
      PROVE  \E p, f : Examined(p, f) /\ f \in Paths /\ \E m \in Found(f) : x = Made(p, f, m)
  <2>1. PICK p, f : p \in Chosen /\ f \in CrateFiles(p) /\ AllowsSourceFilePath(f) /\ f \in Paths
                    /\ x \in ToSet(MutantsOf(p, f))
    BY <1>5, <1>6
  <2>2. Examined(p, f) /\ f \in Paths
    BY <2>1 DEF Examined
  <2>3. \E m \in Found(f) : x = Made(p, f, m)
    BY <1>4, <2>1
  <2> QED BY <2>2, <2>3
<1>7. ASSUME NEW p, NEW f, Examined(p, f), f \in Paths, \E m \in Found(f) : x = Made(p, f, m)
      PROVE  x \in AllMutants
  <2>1. p \in Chosen /\ f \in CrateFiles(p) /\ AllowsSourceFilePath(f) /\ f \in Paths
    BY <1>7 DEF Examined
  <2>2. x \in ToSet(MutantsOf(p, f))
    BY <1>4, <1>7
  <2> QED BY <1>5, <2>1, <2>2
<1> QED BY <1>6, <1>7

\* The filters look at what a mutant is and not at where it stands in the list.
LEMMA DueMutantsAre ==
    ASSUME inv \in Invocations, ToSet(Selected) = Chosen, ToSet(Selected) \subseteq Complete,
           Args.in_diff.is \in {"none", "diff"}
    PROVE  \A x : x \in DueMutants <=>
              \E p, f : Examined(p, f) /\ \E m \in Found(f) : Passes(f, m) /\ x = Made(p, f, m)
<1> DEFINE Kind == Args.in_diff.is # "none"
           Patches == Args.in_diff.patches
<1>1. \A x : x \in DueMutants <=>
         x \in AllMutants /\ (Args.iterate => x.name \notin inv.caught) /\ (Kind => Touches(Patches, x))
  BY DEF DueMutants, IteratedMutants
<1>2. \A p : \A f \in Paths : \A m :
         /\ Made(p, f, m).name = m.name
         /\ Kind => (Touches(Patches, Made(p, f, m)) <=> InSomeEdit(f, m))
  <2> SUFFICES ASSUME NEW p, NEW f \in Paths, NEW m
               PROVE  /\ Made(p, f, m).name = m.name
                      /\ Kind => (Touches(Patches, Made(p, f, m)) <=> InSomeEdit(f, m))
    OBVIOUS
  <2>1. Made(p, f, m).name = m.name
    BY DEF Made
  <2>2. Kind => (Touches(Patches, Made(p, f, m)) <=> InSomeEdit(f, m))
    BY TouchesIs
  <2> QED BY <2>1, <2>2
<1> HIDE DEF Kind, Patches
<1>3. \A p : \A f \in Paths : \A m :
         Passes(f, m) <=> /\ Args.iterate => Made(p, f, m).name \notin inv.caught
                          /\ Kind => Touches(Patches, Made(p, f, m))
  BY <1>2 DEF Passes, Kind
<1>4. \A x : x \in AllMutants <=>
         \E p, f : Examined(p, f) /\ f \in Paths /\ \E m \in Found(f) : x = Made(p, f, m)
  BY AllMutantsAre
<1>5. \A p, f : Examined(p, f) => f \in Paths
  <2> SUFFICES ASSUME NEW p, NEW f, Examined(p, f) PROVE f \in Paths
    OBVIOUS
  <2>1. p \in Complete /\ f \in CrateFiles(p)
    BY DEF Examined
  <2> QED BY <2>1, CompleteFiles
<1> SUFFICES ASSUME NEW x
             PROVE  x \in DueMutants <=>
                       \E p, f : Examined(p, f) /\ \E m \in Found(f) : Passes(f, m) /\ x = Made(p, f, m)
  OBVIOUS
<1>6. ASSUME x \in DueMutants
      PROVE  \E p, f : Examined(p, f) /\ \E m \in Found(f) : Passes(f, m) /\ x = Made(p, f, m)
  <2>1. x \in AllMutants /\ (Args.iterate => x.name \notin inv.caught) /\ (Kind => Touches(Patches, x))
    BY <1>1, <1>6
  <2>2. PICK p, f : Examined(p, f) /\ f \in Paths /\ \E m \in Found(f) : x = Made(p, f, m)
    BY <1>4, <2>1
  <2>3. PICK m \in Found(f) : x = Made(p, f, m)
    BY <2>2
  <2>4. Passes(f, m)
    BY <1>3, <2>1, <2>2, <2>3
  <2> QED BY <2>2, <2>3, <2>4
<1>7. ASSUME NEW p, NEW f, Examined(p, f), NEW m \in Found(f), Passes(f, m), x = Made(p, f, m)
      PROVE  x \in DueMutants
  <2>1. f \in Paths
    BY <1>5, <1>7
  <2>2. x \in AllMutants
    BY <1>4, <1>7, <2>1
  <2>3. (Args.iterate => x.name \notin inv.caught) /\ (Kind => Touches(Patches, x))
    BY <1>3, <1>7, <2>1
  <2> QED BY <1>1, <2>2, <2>3
<1> QED BY <1>6, <1>7

\* Due, file by file and mutant by mutant.
LEMMA DueAre ==
    \A d : d \in Due <=>
        \E p, f : Examined(p, f) /\ \E m \in Found(f) : Passes(f, m) /\ d = Reported(Made(p, f, m))
<1>1. \A p, f, m : Reported(Made(p, f, m)) = [package |-> p.name, name |-> m.name]
  BY DEF Reported, Made
<1> DEFINE M(f) == {m \in Found(f) : Passes(f, m)}
           In(p, f) == {[package |-> p.name, name |-> m.name] : m \in M(f)}
           F(p) == {f \in CrateFiles(p) : AllowsSourceFilePath(f)}
           Of(p) == UNION {In(p, f) : f \in F(p)}
<1>2. Due = UNION {Of(p) : p \in Chosen}
  BY DEF Due, Found, Passes
<1>3. \A f, m : m \in M(f) <=> m \in Found(f) /\ Passes(f, m)
  OBVIOUS
<1>4. \A p, f : f \in F(p) <=> f \in CrateFiles(p) /\ AllowsSourceFilePath(f)
  OBVIOUS
<1> HIDE DEF M, F
<1>5. \A p, f, d : d \in In(p, f) <=> \E m \in M(f) : d = [package |-> p.name, name |-> m.name]
  OBVIOUS
<1> HIDE DEF In
<1>6. \A p, d : d \in Of(p) <=> \E f \in F(p) : d \in In(p, f)
  OBVIOUS
<1> HIDE DEF Of
<1>7. \A d : d \in Due <=> \E p \in Chosen : d \in Of(p)
  BY <1>2
<1> SUFFICES ASSUME NEW d
             PROVE  d \in Due <=>
                       \E p, f : Examined(p, f) /\ \E m \in Found(f) : Passes(f, m) /\ d = Reported(Made(p, f, m))
  OBVIOUS
<1>8. ASSUME d \in Due
      PROVE  \E p, f : Examined(p, f) /\ \E m \in Found(f) : Passes(f, m) /\ d = Reported(Made(p, f, m))
  <2>1. PICK p \in Chosen : d \in Of(p)
    BY <1>7, <1>8
  <2>2. PICK f \in F(p) : d \in In(p, f)
    BY <1>6, <2>1
  <2>3. PICK m \in M(f) : d = [package |-> p.name, name |-> m.name]
    BY <1>5, <2>2
  <2>4. Examined(p, f)
    BY <1>4, <2>1, <2>2 DEF Examined
  <2>5. m \in Found(f) /\ Passes(f, m) /\ d = Reported(Made(p, f, m))
    BY <1>1, <1>3, <2>3
  <2> QED BY <2>4, <2>5
<1>9. ASSUME NEW p, NEW f, Examined(p, f), NEW m \in Found(f), Passes(f, m), d = Reported(Made(p, f, m))
      PROVE  d \in Due
  <2>1. p \in Chosen /\ f \in F(p)
    BY <1>4, <1>9 DEF Examined
  <2>2. m \in M(f) /\ d = [package |-> p.name, name |-> m.name]
    BY <1>1, <1>3, <1>9
  <2>3. d \in In(p, f)
    BY <1>5, <2>2
  <2> QED BY <1>6, <1>7, <2>1, <2>3
<1> QED BY <1>8, <1>9

\* What the filters leave, by the names that it is reported under.
LEMMA DueIs ==
    ASSUME inv \in Invocations, ToSet(Selected) = Chosen, ToSet(Selected) \subseteq Complete,
           Args.in_diff.is \in {"none", "diff"}
    PROVE  \A d : d \in Due <=> \E x \in DueMutants : d = Reported(x)
<1>1. \A x : x \in DueMutants <=>
         \E p, f : Examined(p, f) /\ \E m \in Found(f) : Passes(f, m) /\ x = Made(p, f, m)
  BY DueMutantsAre
<1>2. \A d : d \in Due <=>
         \E p, f : Examined(p, f) /\ \E m \in Found(f) : Passes(f, m) /\ d = Reported(Made(p, f, m))
  BY DueAre
<1>3. ASSUME NEW d \in Due PROVE \E x \in DueMutants : d = Reported(x)
  <2>1. PICK p, f : Examined(p, f) /\ \E m \in Found(f) : Passes(f, m) /\ d = Reported(Made(p, f, m))
    BY <1>2
  <2>2. PICK m \in Found(f) : Passes(f, m) /\ d = Reported(Made(p, f, m))
    BY <2>1
  <2>3. Made(p, f, m) \in DueMutants
    BY <1>1, <2>1, <2>2
  <2> QED BY <2>2, <2>3
<1>4. ASSUME NEW d, NEW x \in DueMutants, d = Reported(x) PROVE d \in Due
  <2>1. PICK p, f : Examined(p, f) /\ \E m \in Found(f) : Passes(f, m) /\ x = Made(p, f, m)
    BY <1>1
  <2> QED BY <1>2, <1>4, <2>1
<1> QED BY <1>3, <1>4

\* What is tested, and a success without tests, against what is due.
LEMMA TestedAreDue ==
    ASSUME WalkInv, Progress
    PROVE  TestsWhatIsDue
<1>1. inv \in Invocations
  BY DEF WalkInv, WalkType
<1>2. ASSUME Args.mode = "run", output.is \in {"listed", "tested"}
      PROVE  LET done == {[package |-> m.package, name |-> m.name] : m \in ToSet(output.value)}
             IN  done \subseteq Due /\ (Args.shard = <<>> => done = Due)
  <2>1. ToSet(Selected) \subseteq Complete /\ ToSet(Selected) = Chosen
    BY <1>2, WalkedMeans DEF HasWalked
  <2>2. /\ Args.in_diff.is \in {"none", "diff"}
        /\ ToSet(output.value) \subseteq DueMutants
        /\ Args.shard = <<>> => ToSet(output.value) = DueMutants
    BY <1>2 DEF Progress, Out
  <2>3. \A d : d \in Due <=> \E x \in DueMutants : d = Reported(x)
    BY <1>1, <2>1, <2>2, DueIs
  <2> DEFINE done == {[package |-> m.package, name |-> m.name] : m \in ToSet(output.value)}
  <2>4. \A d : d \in done <=> \E x \in ToSet(output.value) : d = Reported(x)
    BY DEF Reported
  <2> HIDE DEF done
  <2>5. done \subseteq Due
    BY <2>2, <2>3, <2>4
  <2>6. ASSUME Args.shard = <<>> PROVE done = Due
    <3>1. ToSet(output.value) = DueMutants
      BY <2>2, <2>6
    <3>2. \A d : d \in done <=> d \in Due
      BY <2>3, <2>4, <3>1
    <3> QED BY <3>2
  <2> QED BY <2>5, <2>6 DEF done
<1>3. ASSUME Args.mode = "run", output.is = "exit", output.value = "Success"
      PROVE  Due = {}
  <2>1. /\ ToSet(Selected) \subseteq Complete /\ DueMutants = {}
        /\ Args.in_diff.is \in {"none", "diff"}
    BY <1>3 DEF Progress, Out
  <2>2. ToSet(Selected) = Chosen
    BY <1>1, <1>3, FilterPackagesAre DEF Selected
  <2>3. \A d : d \in Due <=> \E x \in DueMutants : d = Reported(x)
    BY <1>1, <2>1, <2>2, DueIs
  <2> QED BY <2>1, <2>3
<1> QED BY <1>2, <1>3 DEF TestsWhatIsDue

\* The mutants that are listed or tested are those of the chosen packages that
\* no option leaves out, less those of other shards; and a run that tests
\* nothing and says that it succeeded had none to test.
THEOREM DueTheorem == Spec => []TestsWhatIsDue
BY WalkSafe, ProgressSafe, TestedAreDue, PTL

=============================================================================

----------------------------- MODULE ShardProofs -----------------------------
(***************************************************************************)
(* The shards partition the list, whatever its length, the number of       *)
(* shards and the method, and round-robin deals it out evenly.             *)
(***************************************************************************)
EXTENDS Shard, FiniteSetTheorems, TLAPS

\* The chunks have room for every mutant.
LEMMA ChunkCovers ==
    ASSUME TypeOK
    PROVE  ChunkSize \in Nat /\ total <= n * ChunkSize
<1>1. total \in Nat /\ n \in Nat \ {0}
  BY ShardAssumption DEF TypeOK
<1> DEFINE a == total + n - 1
<1>2. a \in Nat
  BY <1>1
<1> HIDE DEF a
<1>3. a \div n \in Nat /\ a < n * ((a \div n) + 1)
  BY <1>1, <1>2
<1>4. ChunkSize = a \div n
  BY DEF ChunkSize, a
<1>5. a < n * ChunkSize + n
  BY <1>1, <1>3, <1>4
<1> QED BY <1>1, <1>3, <1>4, <1>5 DEF a

\* The mutants of a slice are those of its chunk.
LEMMA SliceIsChunk ==
    ASSUME TypeOK, NEW k \in Shards, NEW i \in Mutants
    PROVE  i \in Slice(k) <=> k * ChunkSize <= i /\ i < (k + 1) * ChunkSize
<1>1. total \in Nat /\ n \in Nat \ {0} /\ k \in Nat /\ i \in Nat /\ i < total
  BY ShardAssumption DEF TypeOK, Shards, Mutants
<1>2. ChunkSize \in Nat
  BY ChunkCovers
<1> DEFINE start == k * ChunkSize
           end == (k + 1) * ChunkSize
<1>3. start \in Nat /\ end \in Nat
  BY <1>1, <1>2
<1>4. i \in Slice(k) <=> start < total /\ i \in start .. SliceEnd(k) - 1
  BY <1>1, <1>3 DEF Slice
<1>5. SliceEnd(k) = IF end < total THEN end ELSE total
  BY DEF SliceEnd
<1> HIDE DEF start, end
<1>6. i \in Slice(k) <=> start <= i /\ i < end
  BY <1>1, <1>3, <1>4, <1>5
<1> QED BY <1>6 DEF start, end

\* No mutant is in two slices.
LEMMA SlicesDisjoint ==
    ASSUME TypeOK, NEW j \in Shards, NEW k \in Shards, j < k,
           NEW i \in Mutants, i \in Slice(j), i \in Slice(k)
    PROVE  FALSE
<1>1. j \in Nat /\ k \in Nat /\ i \in Nat /\ ChunkSize \in Nat
  BY ChunkCovers, ShardAssumption DEF TypeOK, Shards, Mutants
<1>2. k * ChunkSize <= i /\ i < (j + 1) * ChunkSize
  BY SliceIsChunk
<1>3. (j + 1) * ChunkSize <= k * ChunkSize
  BY <1>1
<1> QED BY <1>1, <1>2, <1>3

\* Every mutant is in a slice.
LEMMA SlicesCover ==
    ASSUME TypeOK, NEW i \in Mutants
    PROVE  \E k \in Shards : i \in Slice(k)
<1>1. total \in Nat /\ n \in Nat \ {0} /\ i \in Nat /\ i < total
  BY ShardAssumption DEF TypeOK, Mutants
<1>2. ChunkSize \in Nat /\ total <= n * ChunkSize
  BY ChunkCovers
<1>3. ChunkSize # 0
  BY <1>1, <1>2
<1> DEFINE k == i \div ChunkSize
<1>4. k \in Nat /\ ChunkSize * k <= i /\ i < ChunkSize * (k + 1)
  BY <1>1, <1>2, <1>3
<1> HIDE DEF k
<1>5. k < n
  <2>1. SUFFICES ASSUME n <= k PROVE FALSE
    BY <1>1, <1>4
  <2>2. n * ChunkSize <= k * ChunkSize
    BY <1>1, <1>2, <1>4, <2>1
  <2> QED BY <1>1, <1>2, <1>4, <2>2
<1>6. k \in Shards
  BY <1>1, <1>4, <1>5 DEF Shards
<1>7. i \in Slice(k)
  BY <1>1, <1>2, <1>4, <1>6, SliceIsChunk
<1> QED BY <1>6, <1>7

\* Each mutant is selected by one shard.
LEMMA Partition ==
    ASSUME TypeOK
    PROVE  /\ \A k \in Shards : Select(k) \subseteq Mutants
           /\ \A j, k \in Shards : j # k => Select(j) \cap Select(k) = {}
           /\ \A i \in Mutants : \E k \in Shards : i \in Select(k)
<1>1. total \in Nat /\ n \in Nat \ {0} /\ ChunkSize \in Nat
  BY ChunkCovers, ShardAssumption DEF TypeOK
<1>2. CASE sharding = "RoundRobin"
  <2>1. \A k \in Shards : Select(k) = {i \in Mutants : i % n = k}
    BY <1>2 DEF Select, RoundRobin
  <2>2. \A i \in Mutants : i % n \in Shards
    BY <1>1 DEF Mutants, Shards
  <2> QED BY <2>1, <2>2
<1>3. CASE sharding # "RoundRobin"
  <2>1. \A k \in Shards : Select(k) = Slice(k)
    BY <1>3 DEF Select
  <2>2. \A k \in Shards : Slice(k) \subseteq Mutants
    <3> SUFFICES ASSUME NEW k \in Shards, NEW i \in Slice(k) PROVE i \in Mutants
      OBVIOUS
    <3>1. k * ChunkSize \in Nat /\ (k + 1) * ChunkSize \in Nat
      BY <1>1 DEF Shards
    <3>2. SliceEnd(k) \in Nat /\ SliceEnd(k) <= total
      BY <1>1, <3>1 DEF SliceEnd
    <3>3. i \in k * ChunkSize .. SliceEnd(k) - 1
      BY <1>1, <3>1 DEF Slice
    <3> QED BY <1>1, <3>1, <3>2, <3>3 DEF Mutants
  <2>3. \A j, k \in Shards : j # k => Slice(j) \cap Slice(k) = {}
    <3> SUFFICES ASSUME NEW j \in Shards, NEW k \in Shards, j # k,
                        NEW i \in Slice(j), i \in Slice(k)
                 PROVE  FALSE
      OBVIOUS
    <3>1. i \in Mutants
      BY <2>2
    <3>2. j < k \/ k < j
      BY <1>1 DEF Shards
    <3> QED BY <3>1, <3>2, SlicesDisjoint
  <2> QED BY <2>1, <2>2, <2>3, SlicesCover
<1> QED BY <1>2, <1>3

\* What a shard has tested is what it selects.
ShardInv ==
    /\ TypeOK
    /\ \A k \in Shards : tested[k] = IF k \in ran THEN Select(k) ELSE {}

\* The invariant holds throughout.
LEMMA ShardAlways == Spec => []ShardInv
<1>1. Init => ShardInv
  BY ShardAssumption DEF Init, ShardInv, TypeOK
<1>2. ShardInv /\ [Next]_vars => ShardInv'
  <2> SUFFICES ASSUME ShardInv, [Next]_vars PROVE ShardInv'
    OBVIOUS
  <2>1. ASSUME NEW k \in Shards, RunShard(k) PROVE ShardInv'
    <3>1. UNCHANGED <<total, n, sharding>>
      BY <2>1 DEF RunShard
    <3>2. Shards' = Shards /\ Mutants' = Mutants /\ \A j \in Shards : Select(j)' = Select(j)
      BY <3>1 DEF Shards, Mutants, Select, RoundRobin, Slice, SliceEnd, ChunkSize
    <3>3. Select(k) \subseteq Mutants
      BY Partition DEF ShardInv
    <3>4. TypeOK'
      BY <2>1, <3>1, <3>2, <3>3 DEF ShardInv, TypeOK, RunShard
    <3>5. \A j \in Shards : tested'[j] = IF j \in ran' THEN Select(j) ELSE {}
      BY <2>1 DEF ShardInv, TypeOK, RunShard
    <3> QED BY <3>2, <3>4, <3>5 DEF ShardInv
  <2>2. CASE UNCHANGED vars
    BY <2>2 DEF vars, ShardInv, TypeOK, Shards, Mutants, Select, RoundRobin, Slice,
                SliceEnd, ChunkSize
  <2> QED BY <2>1, <2>2 DEF Next
<1> QED BY <1>1, <1>2, PTL DEF Spec

\* Independent machines that agree on the list and on n test each mutant once.
THEOREM ShardsOnce == Spec => []EachMutantOnce
<1>1. ShardInv => EachMutantOnce
  <2> SUFFICES ASSUME ShardInv PROVE EachMutantOnce
    OBVIOUS
  <2>1. \A j, k \in Shards : j # k => tested[j] \cap tested[k] = {}
    BY Partition DEF ShardInv
  <2>2. ASSUME ran = Shards PROVE UNION {tested[k] : k \in Shards} = Mutants
    <3>1. \A k \in Shards : tested[k] = Select(k)
      BY <2>2 DEF ShardInv
    <3> QED BY <3>1, Partition DEF ShardInv
  <2> QED BY <2>1, <2>2 DEF EachMutantOnce
<1> QED BY <1>1, ShardAlways, PTL

-----------------------------------------------------------------------------

\* A quotient and a remainder determine each other.
LEMMA ModUnique ==
    ASSUME NEW m \in Nat \ {0}, NEW q \in Nat, NEW k \in 0 .. m - 1
    PROVE  (q * m + k) % m = k
<1> DEFINE a == q * m + k
<1>1. a \in Nat
  OBVIOUS
<1> HIDE DEF a
<1> DEFINE d == a \div m
           r == a % m
<1>2. d \in Nat /\ r \in 0 .. m - 1 /\ a = m * d + r
  BY <1>1
<1> HIDE DEF d, r
<1>3. q * m + k = m * d + r
  BY <1>2 DEF a
<1>4. q = d
  <2>1. CASE q < d
    <3>1. m * (q + 1) <= m * d
      BY <1>2, <2>1
    <3> QED BY <1>2, <1>3, <3>1
  <2>2. CASE d < q
    <3>1. m * (d + 1) <= m * q
      BY <1>2, <2>2
    <3> QED BY <1>2, <1>3, <3>1
  <2> QED BY <1>2, <2>1, <2>2
<1>5. r = k
  BY <1>2, <1>3, <1>4
<1> QED BY <1>5 DEF r, a

\* Dealing n mutants back from one of shard j, and as many to the left or right as
\* shard k is, gives one of shard k.
LEMMA DealtBefore ==
    ASSUME TypeOK, NEW j \in Shards, NEW k \in Shards, NEW i \in RoundRobin(j), i # j
    PROVE  i >= n /\ (i - n) + k - j \in RoundRobin(k)
<1>1. total \in Nat /\ n \in Nat \ {0} /\ j \in 0 .. n - 1 /\ k \in 0 .. n - 1
  BY ShardAssumption DEF TypeOK, Shards
<1>2. i \in 0 .. total - 1 /\ i % n = j
  BY DEF RoundRobin, Mutants
<1> DEFINE q == i \div n
<1>3. q \in Nat /\ i = n * q + j
  BY <1>1, <1>2
<1> HIDE DEF q
<1>4. q # 0
  BY <1>1, <1>3
<1>5. (i - n) + k - j = (q - 1) * n + k /\ q - 1 \in Nat
  BY <1>1, <1>3, <1>4
<1>6. ((q - 1) * n + k) % n = k
  BY <1>1, <1>5, ModUnique
<1>7. n <= n * q
  BY <1>1, <1>3, <1>4
<1>8. i >= n
  BY <1>1, <1>3, <1>7
<1>9. (i - n) + k - j \in 0 .. total - 1
  <2>1. (i - n) + k - j >= 0
    BY <1>1, <1>5
  <2>2. (i - n) + k - j <= i
    BY <1>1, <1>2
  <2> QED BY <1>1, <1>2, <2>1, <2>2
<1> QED BY <1>5, <1>6, <1>8, <1>9 DEF RoundRobin, Mutants

\* Round-robin gives no shard two mutants more than another.
LEMMA DealtEvenly ==
    ASSUME TypeOK, NEW j \in Shards, NEW k \in Shards
    PROVE  Cardinality(RoundRobin(j)) <= Cardinality(RoundRobin(k)) + 1
<1> DEFINE S == RoundRobin(j) \ {j}
           T == RoundRobin(k)
           f == [i \in S |-> (i - n) + k - j]
<1>1. total \in Nat /\ n \in Nat \ {0} /\ j \in Nat /\ k \in Nat
  BY ShardAssumption DEF TypeOK, Shards
<1>2. ASSUME NEW l \in Shards
      PROVE  IsFiniteSet(RoundRobin(l)) /\ Cardinality(RoundRobin(l)) \in Nat
  <2>1. IsFiniteSet(0 .. total - 1)
    BY <1>1, FS_Interval
  <2>2. RoundRobin(l) \subseteq 0 .. total - 1
    BY DEF RoundRobin, Mutants
  <2> QED BY <2>1, <2>2, FS_Subset, FS_CardinalityType
<1>3. \A i \in S : /\ i \in Nat /\ i >= n /\ (i - n) + k - j \in T
                   /\ f[i] = (i - n) + k - j
  <2> SUFFICES ASSUME NEW i \in RoundRobin(j), i # j
               PROVE  i \in Nat /\ i >= n /\ (i - n) + k - j \in RoundRobin(k)
    OBVIOUS
  <2> QED BY DealtBefore DEF RoundRobin, Mutants
<1>4. f \in [S -> T]
  BY <1>3
<1>5. \A a, b \in S : f[a] = f[b] => a = b
  <2> SUFFICES ASSUME NEW a \in S, NEW b \in S, f[a] = f[b] PROVE a = b
    OBVIOUS
  <2> HIDE DEF f, S
  <2> QED BY <1>1, <1>3
<1> HIDE DEF f
<1>6. f \in Injection(S, T)
  BY <1>4, <1>5 DEF Injection, IsInjective
<1>7. Cardinality(S) <= Cardinality(T)
  BY <1>2, <1>6, FS_Injection
<1>8. Cardinality(S) = IF j \in RoundRobin(j) THEN Cardinality(RoundRobin(j)) - 1
                       ELSE Cardinality(RoundRobin(j))
  BY <1>2, FS_RemoveElement
<1> QED BY <1>2, <1>7, <1>8

\* Round-robin sharding gives any two machines numbers of mutants that differ by one
\* at most, for every length of the list and number of shards.
THEOREM RoundRobinEven == Spec => []RoundRobinIsEven
<1>1. ShardInv => RoundRobinIsEven
  <2> SUFFICES ASSUME ShardInv, sharding = "RoundRobin", NEW j \in ran, NEW k \in ran
               PROVE  Cardinality(tested[j]) <= Cardinality(tested[k]) + 1
    BY DEF RoundRobinIsEven
  <2>1. /\ j \in Shards /\ k \in Shards
        /\ tested[j] = RoundRobin(j) /\ tested[k] = RoundRobin(k)
    BY DEF ShardInv, TypeOK, Select
  <2> QED BY <2>1, DealtEvenly DEF ShardInv
<1> QED BY <1>1, ShardAlways, PTL

=============================================================================

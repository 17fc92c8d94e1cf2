-------------------------------- MODULE Shard --------------------------------
(***************************************************************************)
(* Sharding (src/shard.rs): machines that share nothing but the list of    *)
(* mutants and the number of shards each select the mutants of one shard   *)
(* and test them.  A mutant is its index in the list.                      *)
(***************************************************************************)
EXTENDS Naturals, FiniteSets

CONSTANTS Totals,     \* the lengths of the list
          Counts      \* the numbers of shards

ASSUME ShardAssumption == Totals \subseteq Nat /\ Counts \subseteq Nat \ {0}

Sharding == {"RoundRobin", "Slice"}

VARIABLES
    total,    \* the number of mutants
    n,        \* the number of shards
    sharding,
    ran,      \* the shards that have run
    tested    \* the mutants each has tested

vars == <<total, n, sharding, ran, tested>>

Mutants == 0 .. total - 1

\* Shard::from_str wants k < n.
Shards == 0 .. n - 1

TypeOK ==
    /\ total \in Totals
    /\ n \in Counts
    /\ sharding \in Sharding
    /\ ran \subseteq Shards
    /\ tested \in [Shards -> SUBSET Mutants]

Init ==
    /\ total \in Totals
    /\ n \in Counts
    /\ sharding \in Sharding
    /\ ran = {}
    /\ tested = [k \in Shards |-> {}]

-----------------------------------------------------------------------------

\* Variant of RoundRobin: quotient for remainder.
RoundRobinQuotient(k) == {i \in Mutants : i \div n = k}

RoundRobin(k) == {i \in Mutants : i % n = k}

\* Variant of ChunkSize: rounded down.
ChunkFloor == total \div n

\* total.div_ceil(n)
ChunkSize == (total + n - 1) \div n

SliceEnd(k) ==
    LET end == (k + 1) * ChunkSize IN IF end < total THEN end ELSE total

Slice(k) ==
    LET start == k * ChunkSize
    IN  IF start >= total THEN {} ELSE start .. SliceEnd(k) - 1

Select(k) == IF sharding = "RoundRobin" THEN RoundRobin(k) ELSE Slice(k)

\* One machine runs its shard; it may run it again.
RunShard(k) ==
    /\ ran' = ran \cup {k}
    /\ tested' = [tested EXCEPT ![k] = Select(k)]
    /\ UNCHANGED <<total, n, sharding>>

Next == \E k \in Shards : RunShard(k)

Spec == Init /\ [][Next]_vars

-----------------------------------------------------------------------------
(* Properties *)

\* No two shards test the same mutant, and when all have run, in any order and
\* with any repetition, none has been left out.
EachMutantOnce ==
    /\ \A j, k \in Shards : j # k => tested[j] \cap tested[k] = {}
    /\ ran = Shards => UNION {tested[k] : k \in Shards} = Mutants

\* round-robin: the shards that have run differ by one mutant at most.
RoundRobinIsEven ==
    sharding = "RoundRobin" =>
        \A j, k \in ran : Cardinality(tested[j]) <= Cardinality(tested[k]) + 1

=============================================================================

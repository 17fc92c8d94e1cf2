------------------------------ MODULE MCShard ------------------------------
(***************************************************************************)
(* Lists and numbers of shards for TLC: fewer, as many and more mutants    *)
(* than shards, with and without a remainder.                              *)
(***************************************************************************)
EXTENDS Shard

UpToNine == 0 .. 9
UpToFive == 1 .. 5

=============================================================================

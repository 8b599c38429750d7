-------------------------- MODULE MCShardCtrler --------------------------
(***************************************************************************)
(* ShardCtrler for TLC: the replicas are interchangeable.                  *)
(***************************************************************************)
EXTENDS ShardCtrler

Symmetry == Permutations(Replica)
=============================================================================

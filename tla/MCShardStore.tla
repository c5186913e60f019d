---------------------------- MODULE MCShardStore ----------------------------
(***************************************************************************)
(* Instances of ShardStore.  Keys are model values and interchangeable.    *)
(***************************************************************************)
EXTENDS ShardStore, TLC

KeySymmetry == Permutations(Keys)
=============================================================================

----------------------------- MODULE MCKVStore ------------------------------
(***************************************************************************)
(* Keys and values are opaque to the store, so TLC may permute them.       *)
(***************************************************************************)
EXTENDS KVStore, TLC

StoreSymmetry == Permutations(Key) \cup Permutations(Value)
=============================================================================

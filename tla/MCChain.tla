------------------------------ MODULE MCChain -------------------------------
(***************************************************************************)
(* Addresses are opaque to the chain, so TLC may permute them.             *)
(***************************************************************************)
EXTENDS Chain, TLC

AddressSymmetry == Permutations(Address)
=============================================================================

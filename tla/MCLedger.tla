------------------------------ MODULE MCLedger ------------------------------
(***************************************************************************)
(* The ledger alone, with two-bit words so that balances wrap.             *)
(***************************************************************************)
EXTENDS Ledger, TLC

AddressSymmetry == Permutations(Address)
=============================================================================

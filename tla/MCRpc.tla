------------------------------- MODULE MCRpc --------------------------------
(***************************************************************************)
(* Small systems for Rpc.tla: one client per node.                         *)
(***************************************************************************)
EXTENDS Rpc, TLC

CONSTANTS c1, c2, n1, n2, s

OnePerNode == (c1 :> n1) @@ (c2 :> n2)
=============================================================================

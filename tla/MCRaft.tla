------------------------------- MODULE MCRaft -------------------------------
(***************************************************************************)
(* The symmetry of the nodes, for TLC.  The node ids are model values: the *)
(* protocol never orders or computes with them.                            *)
(***************************************************************************)
EXTENDS Raft, TLC

NodeSymmetry == Permutations(Node)
=============================================================================

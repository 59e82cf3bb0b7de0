--------------------------- MODULE MCRaftCluster ----------------------------
(***************************************************************************)
(* RaftCluster for TLC.  Node ids are numbers: the loops of tick() run in  *)
(* id order, so there is no symmetry to use.  With the one link cut, nodes *)
(* 1 and 2 hear of each other only through node 3.                         *)
(***************************************************************************)
EXTENDS RaftCluster

OneLink == {<<1, 2>>}
=============================================================================

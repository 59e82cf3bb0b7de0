------------------------------- MODULE MCHeap -------------------------------
(***************************************************************************)
(* Heap for TLC: a page of 120 bytes, so that a segment holds up to four   *)
(* blocks, and words of 256.                                               *)
(***************************************************************************)
EXTENDS Heap
=============================================================================

---------------------------- MODULE MCScheduler -----------------------------
(***************************************************************************)
(* Scheduler for TLC.                                                      *)
(***************************************************************************)
EXTENDS Scheduler

\* Boot tasks that fill a table of four or of three slots.
TwoKernelOneUser == <<"kernel", "kernel", "user">>
TwoKernel == <<"kernel", "kernel">>
=============================================================================

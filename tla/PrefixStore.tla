---------------------------- MODULE PrefixStore -----------------------------
(***************************************************************************)
(* What the write-ahead log lets a store promise, without files, records   *)
(* or replay.  The store stands for the sequence `log' of the operations   *)
(* that made it.  An operation goes to the end of the log; a restart may   *)
(* forget a suffix of it, never anything else, and never one of the first  *)
(* `safe' operations.  While the log file is intact every operation is     *)
(* safe; once a fragment of a record lies in the file no later operation   *)
(* becomes safe any more.                                                  *)
(***************************************************************************)
EXTENDS Naturals, Sequences

CONSTANT Record     \* the operations

VARIABLES log, safe, intact, open

pvars == <<log, safe, intact, open>>

PInit ==
    /\ log = <<>>
    /\ safe = 0
    /\ intact = TRUE
    /\ open = FALSE

\* An acknowledged operation.
Commit(r) ==
    /\ open
    /\ log' = Append(log, r)
    /\ safe' = IF intact THEN safe + 1 ELSE safe
    /\ UNCHANGED <<intact, open>>

\* A write that leaves a fragment behind; the process may or may not survive it.
Tear ==
    /\ open
    /\ intact' = FALSE
    /\ open' \in BOOLEAN
    /\ UNCHANGED <<log, safe>>

\* The process dies.  The operation it was at may have reached the file whole.
Die ==
    /\ open
    /\ open' = FALSE
    /\ UNCHANGED intact
    /\ \/ UNCHANGED <<log, safe>>
       \/ \E r \in Record :
             /\ log' = Append(log, r)
             /\ safe' = IF intact THEN safe + 1 ELSE safe

\* A stored byte changes: what was safe from there on is safe no longer.
Decay ==
    /\ intact' = FALSE
    /\ safe' \in 0..safe
    /\ UNCHANGED <<log, open>>

\* A restart finds the safe operations and forgets the others.
Reopen ==
    /\ ~open
    /\ open' = TRUE
    /\ log' = SubSeq(log, 1, safe)
    /\ UNCHANGED <<safe, intact>>

PNext ==
    \/ \E r \in Record : Commit(r)
    \/ Tear
    \/ Die
    \/ Decay
    \/ Reopen

PSpec == PInit /\ [][PNext]_pvars
=============================================================================

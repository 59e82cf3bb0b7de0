------------------------------- MODULE Ledger -------------------------------
(***************************************************************************)
(* The account ledger of the L1 chain: 23-blockchain/l1/ledger.cpp.        *)
(* Balances and nonces are unsigned integers of Width bits (64 in the      *)
(* code) and wrap like them.                                               *)
(***************************************************************************)
EXTENDS Integers, Sequences, FiniteSets, FiniteSetsExt

CONSTANTS
    Address,
    Amount,         \* the amounts transactions carry
    Width,          \* bits of a uint64_t
    MaxApplied      \* bound on the transactions one behaviour applies

ASSUME AddressAssumption == IsFiniteSet(Address)
ASSUME WidthAssumption == Width \in Nat \ {0}
ASSUME AmountAssumption == Amount \subseteq 0..(2^Width - 1)
ASSUME MaxAppliedAssumption == MaxApplied \in 0..(2^Width - 1)

VARIABLES
    accounts,       \* Ledger::accounts: the addresses seen so far
    applied         \* history: the transactions apply() answered with Ok

ledgerVars == <<accounts, applied>>

Word == 0..(2^Width - 1)
AccountState == [balance : Word, nonce : Word]
AccountMap == UNION {[A -> AccountState] : A \in SUBSET Address}
Transaction == [from : Address, to : Address, amount : Amount, nonce : Word]

NoAccounts == [a \in {} |-> [balance |-> 0, nonce |-> 0]]

\* Ledger::get: a never-seen address reads as {0, 0}.
get(accts, a) == IF a \in DOMAIN accts THEN accts[a] ELSE [balance |-> 0, nonce |-> 0]

\* accounts[a] = state, which creates the entry if need be.
store(accts, a, state) ==
    [b \in DOMAIN accts \cup {a} |-> IF b = a THEN state ELSE accts[b]]

(***************************************************************************)
(* Ledger::apply.  The recipient is read after the sender was written, so  *)
(* a transfer to oneself gives back what it took.                          *)
(***************************************************************************)
\* Seeded bug: the nonce is not compared.
validAnyNonce(accts, tx) == get(accts, tx.from).balance >= tx.amount

valid(accts, tx) ==
    /\ tx.nonce = get(accts, tx.from).nonce
    /\ get(accts, tx.from).balance >= tx.amount

debited(accts, tx) ==
    LET sender == get(accts, tx.from) IN
    store(accts, tx.from, [balance |-> sender.balance - tx.amount,
                           nonce |-> (sender.nonce + 1) % 2^Width])

credited(accts, tx, recipient) ==
    store(accts, tx.to, [recipient EXCEPT !.balance = (@ + tx.amount) % 2^Width])

\* Seeded bug: the recipient is read before the sender is written.
transferredReadEarly(accts, tx) == credited(debited(accts, tx), tx, get(accts, tx.to))

transferred(accts, tx) ==
    LET afterDebit == debited(accts, tx) IN
    credited(afterDebit, tx, get(afterDebit, tx.to))

applyOk(tx) ==
    /\ Len(applied) < MaxApplied
    /\ valid(accounts, tx)
    /\ accounts' = transferred(accounts, tx)
    /\ applied' = Append(applied, tx)

\* loadSnapshot replaces everything; the chain calls it on an empty ledger.
loadSnapshot(entries) ==
    /\ accounts = NoAccounts
    /\ applied = <<>>
    /\ accounts' = entries
    /\ UNCHANGED applied

LedgerInit == accounts = NoAccounts /\ applied = <<>>

\* Snapshots as snapshot() writes them, with fresh nonces.
Snapshot == UNION { [A -> [balance : Word, nonce : {0}]] : A \in SUBSET Address }

LedgerNext ==
    \/ \E tx \in Transaction : applyOk(tx)
    \/ \E entries \in Snapshot : loadSnapshot(entries)

LedgerSpec == LedgerInit /\ [][LedgerNext]_ledgerVars

-----------------------------------------------------------------------------
\* Accounts are words, and the history holds transactions.
LedgerTypeOK ==
    /\ accounts \in AccountMap
    /\ applied \in Seq(Transaction)

Total(accts) == MapThenSumSet(LAMBDA a : accts[a].balance, DOMAIN accts)

\* apply() moves money and never makes or destroys any, to oneself as little as
\* to others; with the wrap of uint64_t that is conservation modulo 2^Width, and
\* exact for a supply that fits a word.
SupplyConserved ==
    [][applied' # applied
          => /\ (Total(accounts') - Total(accounts)) % 2^Width = 0
             /\ Total(accounts) < 2^Width => Total(accounts') = Total(accounts)]_ledgerVars

\* "A transaction can only ever be applied once" (ADR 0021): no two applied
\* transactions of a sender carry the same nonce, and they come in nonce order.
AppliedInNonceOrder ==
    \A i, j \in DOMAIN applied :
        i < j /\ applied[i].from = applied[j].from
            => applied[i].nonce < applied[j].nonce
=============================================================================

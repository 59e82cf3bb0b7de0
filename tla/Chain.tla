------------------------------- MODULE Chain --------------------------------
(***************************************************************************)
(* The single-node L1 chain: 23-blockchain/l1/chain.cpp, on the ledger of  *)
(* Ledger.tla and a store whose puts are each durable and take effect in   *)
(* order (PrefixStore.tla, with an intact log).                            *)
(*                                                                         *)
(* A block is persisted by four separate puts: block:<height>, height,     *)
(* tip, state_snapshot.  The process may die between any two of them; what *)
(* was put stays, what was in memory is gone.                              *)
(*                                                                         *)
(* SHA-256 is taken as collision free: the hash of a header is the header, *)
(* the state root is the account map and the tx root the transactions.     *)
(***************************************************************************)
EXTENDS Ledger

CONSTANTS
    Nil,            \* a key that is not in the store, and ZERO_HASH32
    MaxHeight       \* bound on the height of the chain

ASSUME MaxHeightAssumption == MaxHeight \in Nat
ASSUME NilAssumption == Nil \notin Nat /\ Nil \notin AccountMap

VARIABLES
    blocks,         \* store: block:<height> -> block
    kvHeight,       \* store: "height"
    kvTip,          \* store: "tip"
    kvSnapshot,     \* store: "state_snapshot"
    pending,        \* Chain::pending
    currentHeight,  \* Chain::currentHeight
    currentTip,     \* Chain::currentTip
    making,         \* the block being persisted
    pc,             \* "down", "ready", or the put that comes next
    cutShort        \* history: the process has died with the height put
                    \* and the tip or the snapshot not yet

chainVars == <<accounts, applied, blocks, kvHeight, kvTip, kvSnapshot, pending,
               currentHeight, currentTip, making, pc, cutShort>>

ZERO_HASH32 == Nil
blockHash(b) == b.header
Block(h, previous, root, txs) ==
    [header |-> [height |-> h, previousHash |-> previous,
                 stateRoot |-> root, txRoot |-> txs],
     transactions |-> txs]

Persisting == {"putBlock", "putHeight", "putTip", "putSnapshot"}

ChainInit ==
    /\ LedgerInit
    /\ blocks = [h \in {} |-> Nil]
    /\ kvHeight = Nil
    /\ kvTip = Nil
    /\ kvSnapshot = Nil
    /\ pending = <<>>
    /\ currentHeight = 0
    /\ currentTip = ZERO_HASH32
    /\ making = Nil
    /\ pc = "down"
    /\ cutShort = FALSE

(***************************************************************************)
(* initializeGenesisOrLoad.  A chain exists once "height" does; "tip" and  *)
(* "state_snapshot" are read if they are there.                            *)
(***************************************************************************)
load ==
    /\ pc = "down"
    /\ kvHeight # Nil
    /\ currentHeight' = kvHeight
    /\ currentTip' = IF kvTip # Nil THEN kvTip ELSE ZERO_HASH32
    /\ accounts' = IF kvSnapshot # Nil THEN kvSnapshot ELSE NoAccounts
    /\ pending' = <<>>
    /\ making' = Nil
    /\ pc' = "ready"
    /\ UNCHANGED <<applied, blocks, kvHeight, kvTip, kvSnapshot, cutShort>>

initializeGenesis ==
    /\ pc = "down"
    /\ kvHeight = Nil
    /\ accounts' = NoAccounts
    /\ pending' = <<>>
    /\ currentHeight' = 0
    /\ currentTip' = ZERO_HASH32
    /\ making' = Block(0, ZERO_HASH32, NoAccounts, <<>>)
    /\ pc' = "putBlock"
    /\ UNCHANGED <<applied, blocks, kvHeight, kvTip, kvSnapshot, cutShort>>

\* Seeded bug: the state is saved with every transaction.
submitTransactionSaves(tx) ==
    /\ pc = "ready"
    /\ applyOk(tx)
    /\ pending' = Append(pending, tx)
    /\ kvSnapshot' = accounts'
    /\ UNCHANGED <<blocks, kvHeight, kvTip, currentHeight, currentTip, making, pc, cutShort>>

submitTransaction(tx) ==
    /\ pc = "ready"
    /\ applyOk(tx)
    /\ pending' = Append(pending, tx)
    /\ UNCHANGED <<blocks, kvHeight, kvTip, kvSnapshot, currentHeight, currentTip,
                   making, pc, cutShort>>

\* Seeded bug: previousHash is left at its default.
produceBlockUnlinked ==
    /\ pc = "ready"
    /\ currentHeight < MaxHeight
    /\ making' = Block(currentHeight + 1, ZERO_HASH32, accounts, pending)
    /\ pc' = "putBlock"
    /\ UNCHANGED <<accounts, applied, blocks, kvHeight, kvTip, kvSnapshot, pending,
                   currentHeight, currentTip, cutShort>>

produceBlock ==
    /\ pc = "ready"
    /\ currentHeight < MaxHeight
    /\ making' = Block(currentHeight + 1, currentTip, accounts, pending)
    /\ pc' = "putBlock"
    /\ UNCHANGED <<accounts, applied, blocks, kvHeight, kvTip, kvSnapshot, pending,
                   currentHeight, currentTip, cutShort>>

(***************************************************************************)
(* persistBlock, the assignments after it, and the three puts of           *)
(* persistSnapshotAndTip.                                                  *)
(***************************************************************************)
heightOf(b) == b.header.height

\* Seeded bug: the block is stored under the height before it.
storedAtOldHeight(b) == currentHeight

blockKey(b) == heightOf(b)

persistBlock ==
    /\ pc = "putBlock"
    /\ blocks' = [h \in DOMAIN blocks \cup {blockKey(making)} |->
                     IF h = blockKey(making) THEN making ELSE blocks[h]]
    /\ currentHeight' = heightOf(making)
    /\ currentTip' = blockHash(making)
    /\ pc' = "putHeight"
    /\ UNCHANGED <<accounts, applied, kvHeight, kvTip, kvSnapshot, pending,
                   making, cutShort>>

persistHeight ==
    /\ pc = "putHeight"
    /\ kvHeight' = currentHeight
    /\ pc' = "putTip"
    /\ UNCHANGED <<accounts, applied, blocks, kvTip, kvSnapshot, pending,
                   currentHeight, currentTip, making, cutShort>>

persistTip ==
    /\ pc = "putTip"
    /\ kvTip' = currentTip
    /\ pc' = "putSnapshot"
    /\ UNCHANGED <<accounts, applied, blocks, kvHeight, kvSnapshot, pending,
                   currentHeight, currentTip, making, cutShort>>

\* Seeded bug: the snapshot of the block before.
persistStaleSnapshot ==
    /\ pc = "putSnapshot"
    /\ UNCHANGED kvSnapshot
    /\ pending' = <<>>
    /\ making' = Nil
    /\ pc' = "ready"
    /\ UNCHANGED <<accounts, applied, blocks, kvHeight, kvTip,
                   currentHeight, currentTip, cutShort>>

persistSnapshot ==
    /\ pc = "putSnapshot"
    /\ kvSnapshot' = accounts
    /\ pending' = <<>>
    /\ making' = Nil
    /\ pc' = "ready"
    /\ UNCHANGED <<accounts, applied, blocks, kvHeight, kvTip,
                   currentHeight, currentTip, cutShort>>

\* The process ends, in order or not.  Nothing of it is left but the store.
die ==
    /\ pc # "down"
    /\ pc' = "down"
    /\ accounts' = NoAccounts
    /\ pending' = <<>>
    /\ currentHeight' = 0
    /\ currentTip' = ZERO_HASH32
    /\ making' = Nil
    /\ cutShort' = (cutShort \/ pc \in {"putTip", "putSnapshot"})
    /\ UNCHANGED <<applied, blocks, kvHeight, kvTip, kvSnapshot>>

ChainNext ==
    \/ load
    \/ initializeGenesis
    \/ \E tx \in Transaction : submitTransaction(tx)
    \/ produceBlock
    \/ persistBlock
    \/ persistHeight
    \/ persistTip
    \/ persistSnapshot
    \/ die

ChainSpec == ChainInit /\ [][ChainNext]_chainVars

-----------------------------------------------------------------------------
(***************************************************************************)
(* Properties.                                                             *)
(***************************************************************************)

\* Heights are within their bound, blocks are stored under their own height and
\* the accounts are words.
ChainTypeOK ==
    /\ LedgerTypeOK
    /\ DOMAIN blocks \subseteq 0..MaxHeight
    /\ \A h \in DOMAIN blocks : heightOf(blocks[h]) = h
    /\ kvHeight \in 0..MaxHeight \cup {Nil}
    /\ currentHeight \in 0..MaxHeight
    /\ pending \in Seq(Transaction)
    /\ pc \in {"down", "ready"} \cup Persisting

\* "Restarting a Chain against the same storagePath recovers the identical
\* height, tip hash, and every account" (ADR 0021), for a process that ends
\* between calls, or before the new height is put: the stored tip is the stored
\* block at the stored height and commits to the stored snapshot.
OrderlyRestart ==
    ~cutShort /\ pc \notin {"putTip", "putSnapshot"} /\ kvHeight # Nil
        => /\ kvTip = blockHash(blocks[kvHeight])
           /\ kvSnapshot = blocks[kvHeight].header.stateRoot

\* The header of block h names the block stored below it.
Linked(h) ==
    blocks[h].header.previousHash =
        IF h = 0 THEN ZERO_HASH32 ELSE blockHash(blocks[h - 1])

\* The stored chain is linked for as long as no block was cut short; a block that
\* was put without its height is replaced by the next one and does no harm.
LinkedUnlessCut ==
    ~cutShort => \A h \in DOMAIN blocks : h - 1 \in DOMAIN blocks \cup {-1} /\ Linked(h)

\* Whatever was cut short: every height up to the recorded one can be read back
\* with getBlock, and the snapshot a restart loads is the state some stored block
\* committed to, never a mixture and never the state of pending transactions.
StoreUsable ==
    /\ kvHeight # Nil => \A h \in 0..kvHeight : h \in DOMAIN blocks
    /\ kvSnapshot # Nil =>
         \E h \in DOMAIN blocks : blocks[h].header.stateRoot = kvSnapshot

\* "A transaction can only ever be applied once" (ADR 0021), which holds for as
\* long as no block was cut short between height and snapshot: no transaction is
\* in two blocks of the chain, across any number of restarts.
OnceUnlessCut ==
    ~cutShort /\ kvHeight # Nil =>
        \A g, h \in 0..kvHeight : \A i \in DOMAIN blocks[g].transactions :
            \A j \in DOMAIN blocks[h].transactions :
                blocks[g].transactions[i] = blocks[h].transactions[j]
                    => g = h /\ i = j
=============================================================================

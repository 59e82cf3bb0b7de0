---------------------------- MODULE ChainProofs -----------------------------
(***************************************************************************)
(* Proofs about Ledger.tla and Chain.tla for every set of addresses and    *)
(* amounts, every width of a word and every height of the chain.           *)
(***************************************************************************)
EXTENDS Chain, FiniteSetTheorems, SequenceTheorems, NaturalsInduction, WellFoundedInduction, TLAPS

(***************************************************************************)
(* Words and account maps.                                                 *)
(***************************************************************************)

\* A word has at least one value.
LEMMA WordSize == 2^Width \in Nat \ {0}
<1> DEFINE S == 1..Width
<1>1. IsFiniteSet(S) /\ Cardinality(S) = Width
  BY FS_Interval, WidthAssumption
<1>2. IsFiniteSet(SUBSET S) /\ Cardinality(SUBSET S) = 2^Width
  BY <1>1, FS_SUBSET
<1>3. SUBSET S # {}
  OBVIOUS
<1> QED
  BY <1>2, <1>3, FS_EmptySet, FS_CardinalityType

\* An account map read anywhere gives an account.
LEMMA GetType ==
    ASSUME NEW m \in AccountMap, NEW a
    PROVE  /\ get(m, a) \in AccountState
           /\ get(m, a).balance \in Word /\ get(m, a).nonce \in Word
           /\ get(m, a).balance \in 0..(2^Width - 1) /\ get(m, a).nonce \in Nat
<1>1. 0 \in Word
  BY WordSize DEF Word
<1>2. PICK A \in SUBSET Address : m \in [A -> AccountState]
  BY DEF AccountMap
<1>3. get(m, a) \in AccountState
  BY <1>1, <1>2 DEF get, AccountState
<1> QED
  BY <1>3, WordSize DEF AccountState, Word

\* store writes one account and leaves the others.
LEMMA StoreIs ==
    ASSUME NEW m \in AccountMap, NEW a \in Address, NEW st \in AccountState
    PROVE  /\ store(m, a, st) \in AccountMap
           /\ \A b : get(store(m, a, st), b) = IF b = a THEN st ELSE get(m, b)
<1>1. PICK A \in SUBSET Address : m \in [A -> AccountState]
  BY DEF AccountMap
<1>2. A \cup {a} \in SUBSET Address
  OBVIOUS
<1>3. store(m, a, st) \in [A \cup {a} -> AccountState]
  BY <1>1 DEF store
<1>4. store(m, a, st) \in AccountMap
  BY <1>2, <1>3 DEF AccountMap
<1>5. \A b : get(store(m, a, st), b) = IF b = a THEN st ELSE get(m, b)
  BY <1>1 DEF get, store
<1> QED
  BY <1>4, <1>5

\* Ledger::apply on a valid transaction: accounts stay words, the sender's nonce
\* is the next one and nobody else's changes.
LEMMA TransferredIs ==
    ASSUME NEW m \in AccountMap, NEW tx \in Transaction, valid(m, tx)
    PROVE  /\ transferred(m, tx) \in AccountMap
           /\ \A b : get(transferred(m, tx), b).nonce =
                       IF b = tx.from THEN (get(m, b).nonce + 1) % 2^Width
                       ELSE get(m, b).nonce
<1> DEFINE sender == get(m, tx.from)
           less == [balance |-> sender.balance - tx.amount,
                    nonce |-> (sender.nonce + 1) % 2^Width]
           d == debited(m, tx)
           recipient == get(d, tx.to)
           more == [recipient EXCEPT !.balance = (@ + tx.amount) % 2^Width]
<1>1. sender.balance \in 0..(2^Width - 1) /\ sender.nonce \in Nat
  BY GetType
<1>2. /\ tx.from \in Address /\ tx.to \in Address
      /\ tx.amount \in Nat /\ tx.amount <= sender.balance
  <2>1. tx.from \in Address /\ tx.to \in Address /\ tx.amount \in Amount
    BY DEF Transaction
  <2>2. tx.amount \in 0..(2^Width - 1)
    BY <2>1, AmountAssumption
  <2> QED
    BY <1>1, <2>1, <2>2, WordSize DEF valid
<1>3. less \in AccountState
  <2>1. sender.balance - tx.amount \in Word
    BY <1>2, <1>1, WordSize DEF Word
  <2>2. (sender.nonce + 1) % 2^Width \in Word
    BY <1>1, WordSize DEF Word
  <2> QED
    BY <2>1, <2>2 DEF AccountState
<1>4. d = store(m, tx.from, less)
  BY DEF debited
<1>5. d \in AccountMap /\ \A b : get(d, b) = IF b = tx.from THEN less ELSE get(m, b)
  BY <1>2, <1>3, <1>4, StoreIs
<1> HIDE DEF d
<1>6. more \in AccountState /\ more.nonce = recipient.nonce
  <2>1. recipient \in AccountState /\ recipient.balance \in 0..(2^Width - 1)
    BY <1>5, GetType
  <2>2. (recipient.balance + tx.amount) % 2^Width \in Word
    BY <1>2, <2>1, WordSize DEF Word
  <2> QED
    BY <2>1, <2>2 DEF AccountState
<1>7. transferred(m, tx) = store(d, tx.to, more)
  BY DEF transferred, credited, d
<1>8. /\ transferred(m, tx) \in AccountMap
      /\ \A b : get(transferred(m, tx), b) = IF b = tx.to THEN more ELSE get(d, b)
  BY <1>2, <1>5, <1>6, <1>7, StoreIs
<1>9. ASSUME NEW b
      PROVE  get(transferred(m, tx), b).nonce =
                IF b = tx.from THEN (get(m, b).nonce + 1) % 2^Width ELSE get(m, b).nonce
  <2>1. get(transferred(m, tx), b).nonce = get(d, b).nonce
    BY <1>6, <1>8
  <2> QED
    BY <1>5, <2>1
<1> QED
  BY <1>8, <1>9

\* The sender of a transaction in a list is an address and its nonce a number.
LEMMA TransactionType ==
    ASSUME NEW txs \in Seq(Transaction)
    PROVE  \A i \in DOMAIN txs : txs[i].from \in Address /\ txs[i].nonce \in Nat
<1>1. \A tx \in Transaction : tx.from \in Address /\ tx.nonce \in Nat
  BY WordSize DEF Transaction, Word
<1>2. \A i \in DOMAIN txs : txs[i] \in Transaction
  OBVIOUS
<1> QED
  BY <1>1, <1>2

(***************************************************************************)
(* The ledger.                                                             *)
(***************************************************************************)

\* A nonce that has not used up the word does not wrap.
LEMMA NoWrap ==
    ASSUME NEW n \in Nat, n < MaxApplied
    PROVE  (n + 1) % 2^Width = n + 1
<1>1. \A d \in Nat \ {0} : \A x \in 0..(d - 1) : x % d = x
  OBVIOUS
<1>2. n + 1 \in 0..(2^Width - 1)
  BY WordSize, MaxAppliedAssumption
<1> QED
  BY <1>1, <1>2, WordSize

\* No account's nonce is beyond the number of applied transactions, and every
\* applied transaction's nonce is behind its sender's.
LedgerInv ==
    /\ LedgerTypeOK
    /\ Len(applied) <= MaxApplied
    /\ \A a \in Address : get(accounts, a).nonce <= Len(applied)
    /\ \A i \in DOMAIN applied : applied[i].nonce < get(accounts, applied[i].from).nonce
    /\ AppliedInNonceOrder

LEMMA LedgerInitInv == LedgerInit => LedgerInv
<1> SUFFICES ASSUME LedgerInit PROVE LedgerInv
  OBVIOUS
<1>1. accounts \in [{} -> AccountState]
  BY DEF LedgerInit, NoAccounts
<1>2. accounts \in AccountMap
  BY <1>1 DEF AccountMap
<1>3. \A a : get(accounts, a).nonce = 0
  BY DEF LedgerInit, NoAccounts, get
<1> QED
  BY <1>2, <1>3, MaxAppliedAssumption, WordSize
  DEF LedgerInit, LedgerInv, LedgerTypeOK, AppliedInNonceOrder

LEMMA ApplyInv ==
    ASSUME LedgerInv, NEW tx \in Transaction, applyOk(tx)
    PROVE  LedgerInv'
<1>1. /\ accounts \in AccountMap /\ applied \in Seq(Transaction)
      /\ Len(applied) \in Nat /\ Len(applied) < MaxApplied
      /\ accounts' = transferred(accounts, tx) /\ applied' = Append(applied, tx)
      /\ valid(accounts, tx)
  BY DEF LedgerInv, LedgerTypeOK, applyOk
<1>2. /\ applied' \in Seq(Transaction)
      /\ Len(applied') = Len(applied) + 1
      /\ \A i \in 1..Len(applied) : applied'[i] = applied[i]
      /\ applied'[Len(applied) + 1] = tx
  BY <1>1
<1>3. \A a : get(accounts, a).nonce \in Nat
  BY <1>1, GetType
<1>4. tx.from \in Address /\ tx.nonce = get(accounts, tx.from).nonce
  BY <1>1 DEF Transaction, valid
<1>5. get(accounts, tx.from).nonce < MaxApplied
  BY <1>1, <1>3, <1>4, MaxAppliedAssumption, WordSize DEF LedgerInv
<1>6. /\ accounts' \in AccountMap
      /\ \A b : get(accounts', b).nonce = IF b = tx.from THEN get(accounts, b).nonce + 1
                                          ELSE get(accounts, b).nonce
  BY <1>1, <1>3, <1>5, TransferredIs, NoWrap
<1>7. \A i \in 1..Len(applied) : applied[i].nonce \in Nat
  BY <1>1, TransactionType
<1>8. \A i \in DOMAIN applied' : applied'[i].nonce < get(accounts', applied'[i].from).nonce
  <2>1. ASSUME NEW i \in 1..Len(applied)
        PROVE  applied'[i].nonce < get(accounts', applied'[i].from).nonce
    <3>1. applied'[i] = applied[i] /\ i \in DOMAIN applied
      BY <1>1, <1>2
    <3>2. applied[i].nonce < get(accounts, applied[i].from).nonce
      BY <3>1 DEF LedgerInv
    <3>3. get(accounts, applied[i].from).nonce <= get(accounts', applied[i].from).nonce
      BY <1>3, <1>6
    <3>4. get(accounts', applied[i].from).nonce \in Nat
      BY <1>3, <1>6
    <3> QED
      BY <1>3, <1>7, <3>1, <3>2, <3>3, <3>4
  <2>2. tx.nonce < get(accounts', tx.from).nonce
    BY <1>3, <1>4, <1>6
  <2>3. \A i \in DOMAIN applied' : i \in 1..Len(applied) \/ i = Len(applied) + 1
    BY <1>1, <1>2
  <2> QED
    BY <1>2, <2>1, <2>2, <2>3
<1>9. AppliedInNonceOrder'
  <2> SUFFICES ASSUME NEW i \in DOMAIN applied', NEW j \in DOMAIN applied', i < j,
                      applied'[i].from = applied'[j].from
               PROVE  applied'[i].nonce < applied'[j].nonce
    BY DEF AppliedInNonceOrder
  <2>1. i \in 1..Len(applied) /\ j \in 1..(Len(applied) + 1)
    BY <1>1, <1>2
  <2>2. CASE j \in 1..Len(applied)
    BY <1>1, <1>2, <2>1, <2>2 DEF LedgerInv, AppliedInNonceOrder
  <2>3. CASE j = Len(applied) + 1
    BY <1>1, <1>2, <1>4, <2>1, <2>3 DEF LedgerInv
  <2> QED
    BY <2>1, <2>2, <2>3
<1>10. \A a \in Address : get(accounts', a).nonce <= Len(applied')
  BY <1>1, <1>2, <1>3, <1>6 DEF LedgerInv
<1>11. Len(applied') <= MaxApplied
  BY <1>1, <1>2, MaxAppliedAssumption, WordSize
<1> QED
  BY <1>2, <1>6, <1>8, <1>9, <1>10, <1>11 DEF LedgerInv, LedgerTypeOK

LEMMA LoadSnapshotInv ==
    ASSUME LedgerInv, NEW entries \in Snapshot, loadSnapshot(entries)
    PROVE  LedgerInv'
<1>1. PICK A \in SUBSET Address : entries \in [A -> [balance : Word, nonce : {0}]]
  BY DEF Snapshot
<1>2. 0 \in Word
  BY WordSize DEF Word
<1>3. entries \in [A -> AccountState]
  BY <1>1, <1>2 DEF AccountState
<1>4. entries \in AccountMap /\ \A a : get(entries, a).nonce = 0
  BY <1>1, <1>3 DEF AccountMap, get
<1> QED
  BY <1>4 DEF LedgerInv, LedgerTypeOK, AppliedInNonceOrder, loadSnapshot

LEMMA LedgerInvariant == LedgerSpec => []LedgerInv
<1>1. LedgerInv /\ [LedgerNext]_ledgerVars => LedgerInv'
  <2> SUFFICES ASSUME LedgerInv, [LedgerNext]_ledgerVars PROVE LedgerInv'
    OBVIOUS
  <2>1. CASE \E tx \in Transaction : applyOk(tx)
    BY <2>1, ApplyInv
  <2>2. CASE \E entries \in Snapshot : loadSnapshot(entries)
    BY <2>2, LoadSnapshotInv
  <2>3. CASE UNCHANGED ledgerVars
    BY <2>3 DEF ledgerVars, LedgerInv, LedgerTypeOK, AppliedInNonceOrder
  <2> QED
    BY <2>1, <2>2, <2>3 DEF LedgerNext
<1> QED
  BY <1>1, LedgerInitInv, PTL DEF LedgerSpec

\* Ledger::apply: a sender's transactions are applied in the order of their
\* nonces, so none is applied twice, whatever snapshot the ledger began with.
THEOREM NonceOrder == LedgerSpec => []AppliedInNonceOrder
<1>1. LedgerInv => AppliedInNonceOrder
  BY DEF LedgerInv
<1> QED
  BY <1>1, LedgerInvariant, PTL

(***************************************************************************)
(* Sums over the accounts.  Total is a fold that takes the accounts in the *)
(* order CHOOSE gives; a table of the sums of all subsets of D says what   *)
(* that fold computes, and that the order does not matter.                 *)
(***************************************************************************)
pick(A) == CHOOSE x \in A : TRUE
Entry(f, b, A) == IF A = {} THEN 0 ELSE b[pick(A)] + f[A \ {pick(A)}]
IsSum(f, b, D) == \A A \in SUBSET D : f[A] = Entry(f, b, A)

\* A set of numbers that is not empty has a least member.
LEMMA LeastNumber ==
    ASSUME NEW S \in SUBSET Nat, S # {}
    PROVE  \E x \in S : \A y \in S : x <= y
<1>1. PICK x \in S : \A y \in S : ~(<<y, x>> \in OpToRel(<, Nat))
  BY NatLessThanWellFounded, WFMin
<1>2. ASSUME NEW y \in S PROVE ~(y < x)
  <2>1. <<y, x>> \in Nat \X Nat
    OBVIOUS
  <2>2. y < x => <<y, x>> \in OpToRel(<, Nat)
    BY <2>1, Zenon DEF OpToRel
  <2> QED
    BY <1>1, <2>2
<1> QED
  BY <1>2

\* Of the subsets of a finite set with some defect, one has no such proper subset.
LEMMA SmallestSet ==
    ASSUME NEW D, IsFiniteSet(D), NEW Bad \in SUBSET (SUBSET D), Bad # {}
    PROVE  \E A \in Bad : \A B \in Bad : B \subseteq A => B = A
<1>1. \A A \in SUBSET D : IsFiniteSet(A) /\ Cardinality(A) \in Nat
  BY FS_Subset, FS_CardinalityType
<1> DEFINE S == {Cardinality(A) : A \in Bad}
<1>2. S \in SUBSET Nat /\ S # {}
  BY <1>1
<1>3. PICK n \in S : \A k \in S : n <= k
  <2> HIDE DEF S
  <2> QED
    BY <1>2, LeastNumber
<1>4. PICK A \in Bad : Cardinality(A) = n
  BY <1>3
<1>5. ASSUME NEW B \in Bad, B \subseteq A PROVE B = A
  <2>1. Cardinality(A) <= Cardinality(B)
    BY <1>3, <1>4
  <2>2. IsFiniteSet(A) /\ B \in SUBSET A
    BY <1>1, <1>5
  <2>3. Cardinality(B) <= Cardinality(A) /\ (Cardinality(A) = Cardinality(B) => A = B)
    BY <2>2, FS_Subset
  <2>4. Cardinality(A) \in Nat /\ Cardinality(B) \in Nat
    BY <1>1
  <2>5. Cardinality(A) = Cardinality(B)
    BY <2>1, <2>3, <2>4
  <2> QED
    BY <2>3, <2>5
<1> QED
  BY <1>5

LEMMA PickIn == ASSUME NEW A, A # {} PROVE pick(A) \in A
  BY DEF pick

\* A table that is right for n members gives one that is right for n + 1.
LEMMA SumExists ==
    ASSUME NEW D, IsFiniteSet(D), NEW b \in [D -> Nat]
    PROVE  \E f \in [SUBSET D -> Nat] : IsSum(f, b, D)
<1> DEFINE Right(f, n) == \A A \in SUBSET D : Cardinality(A) <= n => f[A] = Entry(f, b, A)
           Bad == {n \in Nat : ~ \E f \in [SUBSET D -> Nat] : Right(f, n)}
<1>1. \A A \in SUBSET D : IsFiniteSet(A) /\ Cardinality(A) \in Nat /\ Cardinality(A) <= Cardinality(D)
  BY FS_Subset, FS_CardinalityType
<1>2. Bad = {}
  <2>1. SUFFICES ASSUME Bad # {} PROVE FALSE
    OBVIOUS
  <2>2. PICK n \in Bad : \A k \in Bad : n <= k
    <3>1. Bad \in SUBSET Nat
      OBVIOUS
    <3> HIDE DEF Bad
    <3> QED
      BY <2>1, <3>1, LeastNumber
  <2>3. n # 0
    <3> DEFINE f == [A \in SUBSET D |-> 0]
    <3>1. f \in [SUBSET D -> Nat]
      OBVIOUS
    <3>2. ASSUME NEW A \in SUBSET D, Cardinality(A) <= 0 PROVE f[A] = Entry(f, b, A)
      <4>1. Cardinality(A) = 0
        BY <1>1, <3>2
      <4>2. A = {}
        BY <1>1, <4>1, FS_EmptySet
      <4> QED
        BY <4>2 DEF Entry
    <3> HIDE DEF f
    <3> QED
      BY <3>1, <3>2
  <2>4. n - 1 \in Nat /\ ~(n <= n - 1)
    BY <2>3
  <2>5. PICK f \in [SUBSET D -> Nat] : Right(f, n - 1)
    BY <2>2, <2>4
  <2> DEFINE g == [A \in SUBSET D |-> Entry(f, b, A)]
  <2>6. ASSUME NEW A \in SUBSET D, A # {}
        PROVE  A \ {pick(A)} \in SUBSET D /\ pick(A) \in A /\ pick(A) \in D
               /\ Cardinality(A \ {pick(A)}) = Cardinality(A) - 1
    <3>1. pick(A) \in A
      BY <2>6, PickIn
    <3> QED
      BY <1>1, <3>1, FS_RemoveElement
  <2>7. g \in [SUBSET D -> Nat]
    <3>1. ASSUME NEW A \in SUBSET D PROVE Entry(f, b, A) \in Nat
      <4>1. CASE A = {}
        BY <4>1 DEF Entry
      <4>2. CASE A # {}
        <5>1. f[A \ {pick(A)}] \in Nat /\ b[pick(A)] \in Nat
          BY <2>6, <4>2
        <5> QED
          BY <4>2, <5>1 DEF Entry
      <4> QED
        BY <4>1, <4>2
    <3> QED
      BY <3>1
  <2>8. ASSUME NEW A \in SUBSET D, Cardinality(A) <= n PROVE g[A] = Entry(g, b, A)
    <3>1. CASE A = {}
      BY <3>1 DEF Entry
    <3>2. CASE A # {}
      <4>1. PICK B \in SUBSET D : B = A \ {pick(A)} /\ Cardinality(B) <= n - 1
        <5>1. A \ {pick(A)} \in SUBSET D /\ Cardinality(A \ {pick(A)}) = Cardinality(A) - 1
          BY <2>6, <3>2
        <5>2. Cardinality(A) - 1 <= n - 1
          BY <1>1, <2>4, <2>8
        <5> QED
          BY <5>1, <5>2
      <4>2. f[B] = Entry(f, b, B)
        BY <2>5, <4>1
      <4>3. g[B] = f[B]
        BY <4>2
      <4>4. g[A] = b[pick(A)] + f[B]
        BY <3>2, <4>1 DEF Entry
      <4> HIDE DEF g
      <4> QED
        BY <3>2, <4>1, <4>3, <4>4 DEF Entry
    <3> QED
      BY <3>1, <3>2
  <2> HIDE DEF g
  <2>9. Right(g, n)
    BY <2>8
  <2> QED
    BY <2>2, <2>7, <2>9
<1>3. Cardinality(D) \in Nat
  BY FS_CardinalityType
<1>4. PICK f \in [SUBSET D -> Nat] : Right(f, Cardinality(D))
  BY <1>2, <1>3
<1> QED
  BY <1>1, <1>4 DEF IsSum

\* The sum does not depend on which member is taken first.
FirstAndRest(f, b, D, x) == f[D] = b[x] + f[D \ {x}]
LEMMA SumAny ==
    ASSUME NEW D, IsFiniteSet(D), NEW b \in [D -> Nat], NEW f \in [SUBSET D -> Nat], IsSum(f, b, D),
           NEW x \in D
    PROVE  FirstAndRest(f, b, D, x)
<1> DEFINE Ok(B, y) == f[B] = b[y] + f[B \ {y}]
           Bad == {B \in SUBSET D : \E y \in B : ~Ok(B, y)}
<1>1. SUFFICES ASSUME Bad # {} PROVE FALSE
  <2>1. D \in SUBSET D
    OBVIOUS
  <2> QED
    BY <2>1 DEF FirstAndRest
<1>2. PICK B \in Bad : \A C \in Bad : C \subseteq B => C = B
  <2>1. Bad \in SUBSET (SUBSET D)
    OBVIOUS
  <2> HIDE DEF Bad
  <2> QED
    BY <1>1, <2>1, SmallestSet
<1>3. PICK y \in B : ~Ok(B, y)
  BY <1>2
<1>4. PICK z \in B : z = pick(B)
  BY <1>3, PickIn
<1>5. f[B] = b[z] + f[B \ {z}]
  BY <1>3, <1>4 DEF IsSum, Entry
<1>6. z # y
  BY <1>3, <1>5
<1>7. B \ {z} \notin Bad /\ B \ {y} \notin Bad /\ B \ {z} \in SUBSET D /\ B \ {y} \in SUBSET D
  <2>1. B \ {z} # B /\ B \ {y} # B /\ B \ {z} \subseteq B /\ B \ {y} \subseteq B
    BY <1>3, <1>4
  <2>2. B \ {z} \in SUBSET D /\ B \ {y} \in SUBSET D
    OBVIOUS
  <2> HIDE DEF Bad
  <2> QED
    BY <1>2, <2>1, <2>2
<1>8. Ok(B \ {z}, y) /\ Ok(B \ {y}, z)
  BY <1>3, <1>4, <1>6, <1>7
<1>9. (B \ {z}) \ {y} = (B \ {y}) \ {z}
  OBVIOUS
<1>10. b[z] \in Nat /\ b[y] \in Nat /\ f[(B \ {z}) \ {y}] \in Nat
  OBVIOUS
<1>11. f[B \ {z}] = b[y] + f[(B \ {z}) \ {y}] /\ f[B \ {y}] = b[z] + f[(B \ {z}) \ {y}]
  BY <1>8, <1>9
<1>12. f[B] = b[y] + f[B \ {y}]
  BY <1>5, <1>10, <1>11
<1> QED
  BY <1>3, <1>12

\* The sum of a set depends on its members' values alone.
LEMMA SumLocal ==
    ASSUME NEW D, IsFiniteSet(D), NEW b, NEW f, IsSum(f, b, D),
           NEW E, NEW c, NEW g, IsSum(g, c, E),
           NEW A \in SUBSET D, A \in SUBSET E, \A x \in A : b[x] = c[x]
    PROVE  f[A] = g[A]
<1> DEFINE Bad == {B \in SUBSET A : f[B] # g[B]}
<1>1. SUFFICES ASSUME Bad # {} PROVE FALSE
  OBVIOUS
<1>2. PICK B \in Bad : \A C \in Bad : C \subseteq B => C = B
  <2>1. Bad \in SUBSET (SUBSET A) /\ IsFiniteSet(A)
    BY FS_Subset
  <2> HIDE DEF Bad
  <2> QED
    BY <1>1, <2>1, SmallestSet
<1>3. f[B] = Entry(f, b, B) /\ g[B] = Entry(g, c, B)
  BY DEF IsSum
<1>4. CASE B = {}
  BY <1>3, <1>4 DEF Entry
<1>5. CASE B # {}
  <2>1. PICK z \in B : z = pick(B)
    BY <1>5, PickIn
  <2>2. B \ {z} \notin Bad
    <3>1. B \ {z} # B /\ B \ {z} \subseteq B
      BY <2>1
    <3> HIDE DEF Bad
    <3> QED
      BY <1>2, <3>1
  <2>3. f[B \ {z}] = g[B \ {z}] /\ b[z] = c[z]
    BY <2>1, <2>2
  <2> QED
    BY <1>2, <1>3, <1>5, <2>1, <2>3 DEF Entry
<1> QED
  BY <1>4, <1>5

\* What Total computes.
balances(m) == [a \in DOMAIN m |-> m[a].balance]
LEMMA TotalIs ==
    ASSUME NEW m \in AccountMap
    PROVE  /\ IsFiniteSet(DOMAIN m) /\ balances(m) \in [DOMAIN m -> Nat]
           /\ \E f \in [SUBSET DOMAIN m -> Nat] :
                 IsSum(f, balances(m), DOMAIN m) /\ Total(m) = f[DOMAIN m]
<1> DEFINE D == DOMAIN m
           b == balances(m)
           eq(f) == [A \in SUBSET D |-> IF A = {} THEN 0 ELSE m[pick(A)].balance + f[A \ {pick(A)}]]
           iter == CHOOSE f : f = eq(f)
<1>1. PICK A \in SUBSET Address : m \in [A -> AccountState]
  BY DEF AccountMap
<1>2. IsFiniteSet(D)
  BY <1>1, AddressAssumption, FS_Subset
<1>3. b \in [D -> Nat]
  BY <1>1, WordSize DEF AccountState, Word, balances
<1>4. PICK f \in [SUBSET D -> Nat] : IsSum(f, b, D)
  <2> HIDE DEF D, b
  <2> QED
    BY <1>2, <1>3, SumExists
<1>5. \A B \in SUBSET D : B # {} => pick(B) \in D /\ b[pick(B)] = m[pick(B)].balance
  BY PickIn DEF balances
<1>6. f = eq(f)
  <2>1. \A B \in SUBSET D : f[B] = eq(f)[B]
    BY <1>4, <1>5 DEF IsSum, Entry
  <2> QED
    BY <2>1
<1>7. iter = eq(iter)
  BY <1>6
<1>8. Total(m) = iter[D]
  BY DEF Total, MapThenSumSet, MapThenFoldSet, pick
<1>9. IsSum(iter, b, D)
  <2> HIDE DEF iter
  <2>1. \A B \in SUBSET D : iter[B] = eq(iter)[B]
    BY <1>7
  <2> QED
    BY <1>5, <2>1 DEF IsSum, Entry
<1>10. iter[D] = f[D]
  <2>1. D \in SUBSET D
    OBVIOUS
  <2> HIDE DEF iter, b, D
  <2> QED
    BY <1>2, <1>4, <1>9, <2>1, SumLocal
<1> HIDE DEF iter
<1> QED
  BY <1>2, <1>3, <1>4, <1>8, <1>10

\* Writing one account changes the total by what it changes there.
LEMMA TotalStore ==
    ASSUME NEW m \in AccountMap, NEW a \in Address, NEW st \in AccountState
    PROVE  /\ Total(m) \in Nat /\ Total(store(m, a, st)) \in Nat
           /\ Total(store(m, a, st)) + get(m, a).balance = Total(m) + st.balance
<1>1. PICK n \in AccountMap : n = store(m, a, st)
  BY StoreIs
<1>2. PICK D, E, b, c : D = DOMAIN m /\ E = DOMAIN n /\ b = balances(m) /\ c = balances(n)
  OBVIOUS
<1>3. PICK f \in [SUBSET D -> Nat] : IsSum(f, b, D) /\ Total(m) = f[D]
  BY <1>2, TotalIs
<1>4. PICK g \in [SUBSET E -> Nat] : IsSum(g, c, E) /\ Total(n) = g[E]
  BY <1>1, <1>2, TotalIs
<1>5. IsFiniteSet(D) /\ b \in [D -> Nat] /\ IsFiniteSet(E) /\ c \in [E -> Nat]
  BY <1>1, <1>2, TotalIs
<1>6. E = D \cup {a}
  BY <1>1, <1>2 DEF store
<1>7. \A x \in D \ {a} : b[x] = c[x]
  BY <1>1, <1>2 DEF balances, store
<1>8. c[a] = st.balance
  BY <1>1, <1>2 DEF balances, store
<1>9. PICK R : R = D \ {a} /\ R = E \ {a} /\ R \in SUBSET D /\ R \in SUBSET E
  <2>1. D \ {a} = E \ {a} /\ D \ {a} \in SUBSET D /\ E \ {a} \in SUBSET E
    BY <1>6
  <2> QED
    BY <2>1
<1>10. f[R] = g[R]
  BY <1>3, <1>4, <1>5, <1>7, <1>9, SumLocal
<1>11. g[E] = c[a] + g[R]
  <2>1. E \in SUBSET E /\ a \in E
    BY <1>6
  <2>2. FirstAndRest(g, c, E, a)
    BY <1>4, <1>5, <2>1, SumAny, Zenon
  <2> QED
    BY <1>9, <2>2 DEF FirstAndRest
<1>12. f[D] = get(m, a).balance + f[R]
  <2>1. CASE a \in D
    <3>1. D \in SUBSET D /\ get(m, a).balance = b[a]
      BY <1>2, <2>1 DEF get, balances
    <3>2. FirstAndRest(f, b, D, a)
      BY <1>3, <1>5, <2>1, SumAny, Zenon
    <3> QED
      BY <1>9, <3>1, <3>2 DEF FirstAndRest
  <2>2. CASE a \notin D
    <3>1. R = D /\ get(m, a).balance = 0
      BY <1>2, <1>9, <2>2 DEF get
    <3>2. f[D] \in Nat
      OBVIOUS
    <3> QED
      BY <3>1, <3>2
  <2> QED
    BY <2>1, <2>2
<1>13. f[R] \in Nat /\ f[D] \in Nat /\ g[E] \in Nat /\ g[R] \in Nat
  BY <1>9
<1>14. get(m, a).balance \in Nat /\ st.balance \in Nat
  <2>1. get(m, a).balance \in 0..(2^Width - 1)
    BY GetType
  <2> QED
    BY <2>1, WordSize DEF AccountState, Word
<1>15. g[E] + get(m, a).balance = f[D] + st.balance
  BY <1>8, <1>10, <1>11, <1>12, <1>13, <1>14
<1> QED
  BY <1>1, <1>3, <1>4, <1>13, <1>15

\* A sum of two words is below two words, and wraps once at most.
LEMMA WrapsOnce ==
    ASSUME NEW w \in Nat \ {0}, NEW x \in 0..(w - 1), NEW y \in 0..(w - 1)
    PROVE  (x + y) % w = x + y \/ (x + y) % w = (x + y) - w
<1>1. CASE x + y < w
  <2>1. \A z \in 0..(w - 1) : z % w = z
    OBVIOUS
  <2>2. x + y \in 0..(w - 1)
    BY <1>1
  <2> QED
    BY <2>1, <2>2
<1>2. CASE ~(x + y < w)
  <2>1. \A z \in 0..(w - 1) : (z + w) % w = z
    OBVIOUS
  <2>2. (x + y) - w \in 0..(w - 1) /\ ((x + y) - w) + w = x + y
    BY <1>2
  <2> QED
    BY <2>1, <2>2
<1> QED
  BY <1>1, <1>2

\* Ledger::apply on a valid transaction leaves the total as it is, or one word lower.
LEMMA TotalTransferred ==
    ASSUME NEW m \in AccountMap, NEW tx \in Transaction, valid(m, tx)
    PROVE  /\ Total(m) \in Nat /\ Total(transferred(m, tx)) \in Nat
           /\ \/ Total(transferred(m, tx)) = Total(m)
              \/ Total(transferred(m, tx)) = Total(m) - 2^Width
<1>1. PICK w \in Nat \ {0} : w = 2^Width
  BY WordSize
<1>2. PICK x, s : x = tx.amount /\ s = get(m, tx.from).balance
  OBVIOUS
<1>3. /\ tx.from \in Address /\ tx.to \in Address
      /\ x \in 0..(w - 1) /\ s \in 0..(w - 1) /\ x <= s
  <2>1. tx.from \in Address /\ tx.to \in Address /\ tx.amount \in Amount
    BY DEF Transaction
  <2>2. x \in 0..(w - 1)
    BY <1>1, <1>2, <2>1, AmountAssumption
  <2>3. s \in 0..(w - 1)
    BY <1>1, <1>2, GetType
  <2> QED
    BY <1>2, <2>1, <2>2, <2>3 DEF valid
<1>4. PICK less \in AccountState : debited(m, tx) = store(m, tx.from, less) /\ less.balance = s - x
  <2> DEFINE less == [balance |-> s - x, nonce |-> (get(m, tx.from).nonce + 1) % 2^Width]
  <2>1. s - x \in Word
    BY <1>1, <1>3 DEF Word
  <2>2. get(m, tx.from).nonce \in Nat
    BY GetType
  <2>3. (get(m, tx.from).nonce + 1) % 2^Width \in Word
    BY <2>2, WordSize DEF Word
  <2>4. less \in AccountState /\ debited(m, tx) = store(m, tx.from, less) /\ less.balance = s - x
    BY <1>2, <2>1, <2>3 DEF AccountState, debited
  <2> QED
    BY <2>4
<1>5. PICK d \in AccountMap : d = debited(m, tx)
  BY <1>3, <1>4, StoreIs
<1>6. Total(m) \in Nat /\ Total(d) \in Nat /\ Total(d) + s = Total(m) + (s - x)
  BY <1>2, <1>3, <1>4, <1>5, TotalStore
<1>7. PICK rcpt \in AccountState : rcpt = get(d, tx.to)
  BY GetType
<1>8. rcpt.balance \in 0..(w - 1)
  BY <1>1, <1>7, GetType
<1>9. PICK more \in AccountState :
         more.balance = (rcpt.balance + x) % w /\ transferred(m, tx) = store(d, tx.to, more)
  <2> DEFINE more == [rcpt EXCEPT !.balance = (@ + x) % w]
  <2>1. (rcpt.balance + x) % w \in Word
    BY <1>1, <1>3, <1>8 DEF Word
  <2>2. more \in AccountState /\ more.balance = (rcpt.balance + x) % w
    BY <2>1 DEF AccountState
  <2>3. transferred(m, tx) = store(d, tx.to, more)
    BY <1>1, <1>2, <1>5, <1>7 DEF transferred, credited
  <2> QED
    BY <2>2, <2>3
<1>10. PICK t \in Nat : t = Total(transferred(m, tx))
                        /\ t + rcpt.balance = Total(d) + more.balance
  BY <1>3, <1>7, <1>9, TotalStore
<1>11. more.balance = rcpt.balance + x \/ more.balance = (rcpt.balance + x) - w
  BY <1>3, <1>8, <1>9, WrapsOnce
<1>12. t = Total(m) \/ t = Total(m) - w
  <2>1. PICK u \in Nat, v \in Nat, r \in Nat : u = Total(m) /\ v = Total(d) /\ r = rcpt.balance
    BY <1>6, <1>8
  <2>2. v + s = u + (s - x) /\ (t + r = v + (r + x) \/ t + r = v + ((r + x) - w))
    BY <1>6, <1>10, <1>11, <2>1
  <2>3. s \in Nat /\ x \in Nat
    BY <1>3
  <2>4. t = u \/ t = u - w
    BY <2>2, <2>3
  <2> QED
    BY <2>1, <2>4
<1> QED
  BY <1>1, <1>6, <1>10, <1>12

\* Ledger::apply moves money and makes or destroys none: to oneself as little as
\* to others, modulo 2^Width always and exactly while the supply fits a word.
THEOREM Supply == LedgerSpec => SupplyConserved
<1> DEFINE conserved == /\ (Total(accounts') - Total(accounts)) % 2^Width = 0
                        /\ Total(accounts) < 2^Width => Total(accounts') = Total(accounts)
<1>1. ASSUME LedgerInv, [LedgerNext]_ledgerVars, applied' # applied PROVE conserved
  <2>1. PICK tx \in Transaction : applyOk(tx)
    BY <1>1 DEF LedgerNext, ledgerVars, loadSnapshot
  <2>2. PICK m \in AccountMap : m = accounts /\ valid(m, tx) /\ accounts' = transferred(m, tx)
    BY <1>1, <2>1 DEF applyOk, LedgerInv, LedgerTypeOK
  <2>3. PICK w \in Nat \ {0}, t \in Nat, u \in Nat :
           w = 2^Width /\ t = Total(m) /\ u = Total(accounts') /\ (u = t \/ u = t - w)
    BY <2>2, WordSize, TotalTransferred
  <2>4. u - t = 0 \/ u - t = 0 - w
    BY <2>3
  <2>5. 0 % w = 0 /\ (0 - w) % w = 0
    OBVIOUS
  <2>6. (u - t) % w = 0
    BY <2>4, <2>5
  <2>7. t < w => u = t
    BY <2>3
  <2> QED
    BY <2>2, <2>3, <2>6, <2>7
<1>2. LedgerInv /\ [LedgerNext]_ledgerVars => [applied' # applied => conserved]_ledgerVars
  BY <1>1
<1> QED
  BY <1>2, LedgerInvariant, PTL DEF LedgerSpec, SupplyConserved

(***************************************************************************)
(* The chain.  What the process has in hand, what the store holds and what *)
(* the transactions of the stored blocks say of the snapshot, at every     *)
(* point between two puts.                                                 *)
(***************************************************************************)

\* The accounts a restart would load.
Base == IF kvSnapshot # Nil THEN kvSnapshot ELSE NoAccounts

\* The nonces of a list of transactions against a state of the accounts.
Spent(txs, m) == \A i \in DOMAIN txs : txs[i].nonce < get(m, txs[i].from).nonce
Fresh(txs, m) == \A i \in DOMAIN txs : get(m, txs[i].from).nonce <= txs[i].nonce
Increasing(txs) == \A i, j \in DOMAIN txs :
                       i < j /\ txs[i].from = txs[j].from => txs[i].nonce < txs[j].nonce

TypeInv ==
    /\ ChainTypeOK
    /\ kvSnapshot \in AccountMap \cup {Nil}
    /\ cutShort \in BOOLEAN
    /\ \A h \in DOMAIN blocks : blocks[h].transactions \in Seq(Transaction)
    /\ pc = "down" => accounts = NoAccounts /\ pending = <<>>

\* No nonce has used up its word.
NonceInv ==
    /\ Len(applied) <= MaxApplied
    /\ \A a \in Address : get(accounts, a).nonce <= Len(applied)
    /\ \A a \in Address : get(Base, a).nonce <= Len(applied)

\* The block being persisted is the pending transactions on top of the stored
\* chain, and the puts before the present one are done.
MakingInv ==
    pc \in Persisting =>
        /\ heightOf(making) \in 0..MaxHeight
        /\ making.header.stateRoot = accounts
        /\ making.transactions = pending
        /\ pc = "putBlock" => making.header.previousHash = currentTip
        /\ pc # "putBlock" => /\ currentHeight = heightOf(making)
                              /\ currentTip = blockHash(making)
                              /\ heightOf(making) \in DOMAIN blocks
                              /\ blocks[heightOf(making)] = making
        /\ pc \in {"putBlock", "putHeight"} =>
              \/ kvHeight = Nil /\ heightOf(making) = 0
              \/ kvHeight # Nil /\ heightOf(making) = kvHeight + 1
        /\ pc = "putBlock" => currentTip = IF kvHeight = Nil THEN ZERO_HASH32 ELSE kvTip
        /\ pc \in {"putTip", "putSnapshot"} => kvHeight = heightOf(making)
        /\ pc = "putSnapshot" => kvTip = blockHash(making)

ReadyInv == pc = "ready" => kvHeight # Nil /\ currentHeight = kvHeight /\ currentTip = kvTip

\* One block at most is ahead of the stored height.
HeightsInv ==
    IF kvHeight = Nil
    THEN DOMAIN blocks \subseteq {0}
    ELSE 0..kvHeight \subseteq DOMAIN blocks /\ DOMAIN blocks \subseteq 0..(kvHeight + 1)

SnapshotInv ==
    kvSnapshot # Nil => /\ kvHeight # Nil
                        /\ \E h \in 0..kvHeight : blocks[h].header.stateRoot = kvSnapshot

\* The heights whose transactions are in the stored snapshot.
Settled == IF kvHeight = Nil THEN {}
           ELSE IF pc \in {"putTip", "putSnapshot"} THEN 0..(kvHeight - 1) ELSE 0..kvHeight

\* The stored snapshot is past the transactions of every settled block.
SpentInv == ~cutShort => \A h \in Settled : Spent(blocks[h].transactions, Base)

\* The pending transactions lead from the stored snapshot to the accounts.
PendingInv ==
    pc # "down" => /\ \A a \in Address : get(Base, a).nonce <= get(accounts, a).nonce
                   /\ Fresh(pending, Base)
                   /\ Spent(pending, accounts)
                   /\ Increasing(pending)

BlockOrderInv == \A h \in DOMAIN blocks : Increasing(blocks[h].transactions)

ChainInv ==
    /\ TypeInv
    /\ NonceInv
    /\ MakingInv
    /\ ReadyInv
    /\ HeightsInv
    /\ SnapshotInv
    /\ SpentInv
    /\ PendingInv
    /\ BlockOrderInv
    /\ OrderlyRestart
    /\ LinkedUnlessCut
    /\ OnceUnlessCut
\* The empty ledger reads as nonce 0 everywhere.
LEMMA NoAccountsIs == NoAccounts \in AccountMap /\ \A a : get(NoAccounts, a).nonce = 0
<1>1. NoAccounts \in [{} -> AccountState]
  BY DEF NoAccounts
<1> QED
  BY <1>1 DEF AccountMap, NoAccounts, get

LEMMA BaseType == TypeInv => Base \in AccountMap
  BY NoAccountsIs DEF TypeInv, Base

LEMMA ChainInitInv == ChainInit => ChainInv
<1> SUFFICES ASSUME ChainInit PROVE ChainInv
  OBVIOUS
<1>1. TypeInv
  <2>1. DOMAIN blocks = {}
    BY DEF ChainInit
  <2>2. 0 \in 0..MaxHeight
    BY MaxHeightAssumption
  <2>3. LedgerTypeOK /\ pending \in Seq(Transaction)
    BY NoAccountsIs DEF ChainInit, LedgerInit, LedgerTypeOK
  <2>4. ChainTypeOK
    BY <2>1, <2>2, <2>3 DEF ChainInit, ChainTypeOK
  <2>5. cutShort \in BOOLEAN
    BY DEF ChainInit
  <2> QED
    BY <2>1, <2>4, <2>5 DEF ChainInit, LedgerInit, TypeInv
<1>2. NonceInv
  BY NoAccountsIs, MaxAppliedAssumption, WordSize DEF ChainInit, LedgerInit, NonceInv, Base
<1>3. HeightsInv /\ SnapshotInv /\ BlockOrderInv /\ LinkedUnlessCut
  BY DEF ChainInit, HeightsInv, SnapshotInv, BlockOrderInv, LinkedUnlessCut
<1>4. MakingInv /\ ReadyInv /\ PendingInv /\ SpentInv /\ OrderlyRestart /\ OnceUnlessCut
  BY DEF ChainInit, MakingInv, Persisting, ReadyInv, PendingInv, SpentInv, Settled,
         OrderlyRestart, OnceUnlessCut
<1> QED
  BY <1>1, <1>2, <1>3, <1>4 DEF ChainInv

LEMMA LoadInv == ChainInv /\ load => ChainInv'
<1> SUFFICES ASSUME ChainInv, load PROVE ChainInv'
  OBVIOUS
<1>1. accounts' = Base /\ Base' = Base /\ pending' = <<>> /\ pc' = "ready"
  BY DEF load, Base
<1>2. Base \in AccountMap
  BY BaseType DEF ChainInv
<1>3. TypeInv'
  BY <1>1, <1>2, MaxHeightAssumption
  DEF ChainInv, load, TypeInv, ChainTypeOK, LedgerTypeOK, Persisting, heightOf
<1>4. NonceInv'
  BY <1>1 DEF ChainInv, NonceInv, load
<1>5. MakingInv' /\ ReadyInv'
  BY <1>1 DEF load, MakingInv, ReadyInv, Persisting, ZERO_HASH32
<1>6. HeightsInv' /\ SnapshotInv' /\ BlockOrderInv' /\ LinkedUnlessCut'
  BY DEF load, ChainInv, HeightsInv, SnapshotInv, BlockOrderInv, LinkedUnlessCut, Linked
<1>7. SpentInv'
  BY <1>1 DEF load, ChainInv, SpentInv, Settled
<1>8. PendingInv'
  <2>1. \A a \in Address : get(Base, a).nonce \in Nat
    BY <1>2, GetType
  <2> QED
    BY <1>1, <2>1 DEF PendingInv, Fresh, Spent, Increasing
<1>9. OrderlyRestart' /\ OnceUnlessCut'
  BY DEF load, ChainInv, OrderlyRestart, OnceUnlessCut
<1> QED
  BY <1>3, <1>4, <1>5, <1>6, <1>7, <1>8, <1>9 DEF ChainInv

LEMMA GenesisInv == ChainInv /\ initializeGenesis => ChainInv'
<1> SUFFICES ASSUME ChainInv, initializeGenesis PROVE ChainInv'
  OBVIOUS
<1>1. kvSnapshot = Nil /\ Base' = NoAccounts /\ Base = NoAccounts /\ kvHeight = Nil
  BY DEF initializeGenesis, ChainInv, SnapshotInv, Base
<1>2. accounts' = NoAccounts /\ pending' = <<>> /\ pc' = "putBlock"
  BY DEF initializeGenesis
<1>3. TypeInv'
  BY <1>2, NoAccountsIs, MaxHeightAssumption
  DEF ChainInv, initializeGenesis, TypeInv, ChainTypeOK, LedgerTypeOK, Persisting, heightOf
<1>4. NonceInv'
  BY <1>1, <1>2 DEF ChainInv, NonceInv, initializeGenesis
<1>5. MakingInv' /\ ReadyInv'
  BY <1>1, MaxHeightAssumption
  DEF initializeGenesis, MakingInv, ReadyInv, Persisting, Block, heightOf, ZERO_HASH32
<1>6. HeightsInv' /\ SnapshotInv' /\ BlockOrderInv' /\ LinkedUnlessCut'
  BY DEF initializeGenesis, ChainInv, HeightsInv, SnapshotInv, BlockOrderInv,
         LinkedUnlessCut, Linked
<1>7. SpentInv' /\ OrderlyRestart' /\ OnceUnlessCut'
  BY <1>1 DEF initializeGenesis, SpentInv, Settled, OrderlyRestart, OnceUnlessCut
<1>8. PendingInv'
  BY <1>1, <1>2, NoAccountsIs DEF PendingInv, Fresh, Spent, Increasing
<1> QED
  BY <1>3, <1>4, <1>5, <1>6, <1>7, <1>8 DEF ChainInv

LEMMA SubmitInv ==
    ASSUME ChainInv, NEW tx \in Transaction, submitTransaction(tx)
    PROVE  ChainInv'
<1>1. /\ accounts \in AccountMap /\ applied \in Seq(Transaction) /\ pending \in Seq(Transaction)
      /\ Len(applied) < MaxApplied /\ valid(accounts, tx)
      /\ accounts' = transferred(accounts, tx) /\ applied' = Append(applied, tx)
      /\ pending' = Append(pending, tx) /\ pc = "ready" /\ pc' = "ready"
      /\ Base' = Base
  BY DEF ChainInv, TypeInv, ChainTypeOK, LedgerTypeOK, submitTransaction, applyOk, Base
<1>2. (\A a : get(accounts, a).nonce \in Nat) /\ (\A a : get(Base, a).nonce \in Nat)
  BY <1>1, GetType, BaseType DEF ChainInv
<1>3. tx.from \in Address /\ tx.nonce = get(accounts, tx.from).nonce /\ tx.nonce \in Nat
  BY <1>1, <1>2 DEF Transaction, valid
<1>4. get(accounts, tx.from).nonce < MaxApplied
  BY <1>1, <1>2, <1>3, MaxAppliedAssumption, WordSize DEF ChainInv, NonceInv
<1>5. /\ accounts' \in AccountMap
      /\ \A b : get(accounts', b).nonce = IF b = tx.from THEN get(accounts, b).nonce + 1
                                          ELSE get(accounts, b).nonce
  BY <1>1, <1>2, <1>4, TransferredIs, NoWrap
<1>6. TypeInv'
  BY <1>1, <1>5
  DEF ChainInv, submitTransaction, TypeInv, ChainTypeOK, LedgerTypeOK, Persisting, heightOf
<1>7. NonceInv'
  <2>1. Len(applied) \in Nat /\ Len(applied') = Len(applied) + 1
    BY <1>1
  <2>2. Len(applied') <= MaxApplied
    BY <1>1, <2>1, MaxAppliedAssumption, WordSize
  <2>3. \A a \in Address : get(accounts', a).nonce <= Len(applied')
    BY <1>2, <1>5, <2>1 DEF ChainInv, NonceInv
  <2>4. \A a \in Address : get(Base, a).nonce <= Len(applied')
    BY <1>2, <2>1 DEF ChainInv, NonceInv
  <2> QED
    BY <1>1, <2>2, <2>3, <2>4 DEF NonceInv
<1>8. MakingInv' /\ ReadyInv'
  BY <1>1 DEF submitTransaction, ChainInv, MakingInv, ReadyInv, Persisting
<1>9. HeightsInv' /\ SnapshotInv' /\ BlockOrderInv' /\ LinkedUnlessCut'
  BY DEF submitTransaction, ChainInv, HeightsInv, SnapshotInv, BlockOrderInv,
         LinkedUnlessCut, Linked
<1>10. SpentInv' /\ OrderlyRestart' /\ OnceUnlessCut'
  BY <1>1 DEF submitTransaction, ChainInv, SpentInv, Settled, OrderlyRestart, OnceUnlessCut
<1>11. PendingInv'
  <2>1. /\ DOMAIN pending' = 1..(Len(pending) + 1) /\ Len(pending) \in Nat
        /\ DOMAIN pending = 1..Len(pending)
        /\ \A i \in DOMAIN pending : pending'[i] = pending[i]
        /\ pending'[Len(pending) + 1] = tx
    BY <1>1
  <2>2. \A i \in DOMAIN pending : pending[i].from \in Address /\ pending[i].nonce \in Nat
    BY <1>1, TransactionType
  <2>3. /\ \A a \in Address : get(Base, a).nonce <= get(accounts, a).nonce
        /\ Fresh(pending, Base) /\ Spent(pending, accounts) /\ Increasing(pending)
    BY <1>1 DEF ChainInv, PendingInv
  <2>4. \A a \in Address : get(Base, a).nonce <= get(accounts', a).nonce
    BY <1>2, <1>5, <2>3
  <2>5. Fresh(pending', Base)
    BY <1>3, <2>1, <2>3 DEF Fresh
  <2>6. Spent(pending', accounts')
    <3>1. ASSUME NEW i \in DOMAIN pending
          PROVE  pending'[i].nonce < get(accounts', pending'[i].from).nonce
      BY <1>2, <1>5, <2>1, <2>2, <2>3 DEF Spent
    <3>2. tx.nonce < get(accounts', tx.from).nonce
      BY <1>2, <1>3, <1>5
    <3>3. \A i \in DOMAIN pending' : i \in DOMAIN pending \/ i = Len(pending) + 1
      BY <2>1
    <3> QED
      BY <2>1, <3>1, <3>2, <3>3 DEF Spent
  <2>7. Increasing(pending')
    <3> SUFFICES ASSUME NEW i \in DOMAIN pending', NEW j \in DOMAIN pending', i < j,
                        pending'[i].from = pending'[j].from
                 PROVE  pending'[i].nonce < pending'[j].nonce
      BY DEF Increasing
    <3>1. CASE j \in DOMAIN pending
      BY <2>1, <2>3, <3>1 DEF Increasing
    <3>2. CASE j = Len(pending) + 1
      BY <1>3, <2>1, <2>3, <3>2 DEF Spent
    <3> QED
      BY <2>1, <3>1, <3>2
  <2> QED
    BY <1>1, <2>4, <2>5, <2>6, <2>7 DEF PendingInv
<1> QED
  BY <1>6, <1>7, <1>8, <1>9, <1>10, <1>11 DEF ChainInv

LEMMA ProduceInv == ChainInv /\ produceBlock => ChainInv'
<1> SUFFICES ASSUME ChainInv, produceBlock PROVE ChainInv'
  OBVIOUS
<1>1. /\ pc = "ready" /\ pc' = "putBlock" /\ Base' = Base
      /\ kvHeight \in 0..MaxHeight /\ currentHeight = kvHeight /\ currentTip = kvTip
      /\ kvHeight # Nil /\ currentHeight < MaxHeight
  BY DEF produceBlock, ChainInv, ReadyInv, Base, TypeInv, ChainTypeOK
<1>2. TypeInv'
  BY <1>1
  DEF ChainInv, produceBlock, TypeInv, ChainTypeOK, LedgerTypeOK, Persisting, heightOf
<1>3. NonceInv'
  BY <1>1 DEF ChainInv, NonceInv, produceBlock
<1>4. MakingInv' /\ ReadyInv'
  BY <1>1, MaxHeightAssumption
  DEF produceBlock, MakingInv, ReadyInv, Persisting, Block, heightOf
<1>5. HeightsInv' /\ SnapshotInv' /\ BlockOrderInv' /\ LinkedUnlessCut'
  BY DEF produceBlock, ChainInv, HeightsInv, SnapshotInv, BlockOrderInv,
         LinkedUnlessCut, Linked
<1>6. SpentInv' /\ OrderlyRestart' /\ OnceUnlessCut' /\ PendingInv'
  BY <1>1 DEF produceBlock, ChainInv, SpentInv, Settled, OrderlyRestart, OnceUnlessCut,
         PendingInv
<1> QED
  BY <1>2, <1>3, <1>4, <1>5, <1>6 DEF ChainInv

LEMMA PersistBlockInv == ChainInv /\ persistBlock => ChainInv'
<1> SUFFICES ASSUME ChainInv, persistBlock PROVE ChainInv'
  OBVIOUS
<1> DEFINE n == heightOf(making)
<1>1. /\ pc = "putBlock" /\ pc' = "putHeight" /\ Base' = Base
      /\ kvHeight \in 0..MaxHeight \cup {Nil}
      /\ n \in 0..MaxHeight /\ making.transactions = pending
      /\ \/ kvHeight = Nil /\ n = 0
         \/ kvHeight # Nil /\ n = kvHeight + 1
      /\ making.header.previousHash = IF kvHeight = Nil THEN ZERO_HASH32 ELSE kvTip
  BY DEF persistBlock, ChainInv, MakingInv, Base, Persisting, TypeInv, ChainTypeOK
<1>2. /\ DOMAIN blocks' = DOMAIN blocks \cup {n}
      /\ blocks'[n] = making
      /\ \A h \in DOMAIN blocks : h # n => blocks'[h] = blocks[h]
  BY DEF persistBlock, blockKey
<1>3. /\ kvHeight # Nil => /\ 0..kvHeight \subseteq DOMAIN blocks
                           /\ n \notin 0..kvHeight
                           /\ \A h \in 0..kvHeight : blocks'[h] = blocks[h]
      /\ kvHeight' = kvHeight /\ kvTip' = kvTip /\ kvSnapshot' = kvSnapshot
      /\ cutShort' = cutShort
  <2>1. kvHeight # Nil => 0..kvHeight \subseteq DOMAIN blocks /\ n \notin 0..kvHeight
    BY <1>1 DEF ChainInv, HeightsInv
  <2>2. kvHeight # Nil => \A h \in 0..kvHeight : blocks'[h] = blocks[h]
    BY <1>2, <2>1
  <2> QED
    BY <2>1, <2>2 DEF persistBlock
<1> HIDE DEF n
<1>4. TypeInv'
  <2>1. \A h \in DOMAIN blocks' : heightOf(blocks'[h]) = h
    BY <1>2 DEF ChainInv, TypeInv, ChainTypeOK, n
  <2>2. \A h \in DOMAIN blocks' : blocks'[h].transactions \in Seq(Transaction)
    BY <1>1, <1>2 DEF ChainInv, TypeInv, ChainTypeOK
  <2>3. DOMAIN blocks' \subseteq 0..MaxHeight
    BY <1>1, <1>2 DEF ChainInv, TypeInv, ChainTypeOK
  <2> QED
    BY <1>1, <1>3, <2>1, <2>2, <2>3
    DEF ChainInv, TypeInv, ChainTypeOK, LedgerTypeOK, Persisting, persistBlock, n
<1>5. NonceInv'
  BY <1>1 DEF ChainInv, NonceInv, persistBlock
<1>6. MakingInv' /\ ReadyInv'
  BY <1>1, <1>2 DEF ChainInv, MakingInv, ReadyInv, persistBlock, n, Persisting
<1>7. HeightsInv'
  BY <1>1, <1>2, <1>3 DEF ChainInv, HeightsInv
<1>8. SnapshotInv'
  BY <1>1, <1>3 DEF ChainInv, SnapshotInv
<1>9. SpentInv'
  BY <1>1, <1>3 DEF ChainInv, SpentInv, Settled
<1>10. PendingInv'
  BY <1>1 DEF ChainInv, PendingInv, persistBlock
<1>11. BlockOrderInv'
  <2>1. Increasing(pending)
    BY <1>1 DEF ChainInv, PendingInv
  <2> QED
    BY <1>1, <1>2, <2>1 DEF ChainInv, BlockOrderInv
<1>12. OrderlyRestart'
  BY <1>1, <1>3 DEF ChainInv, OrderlyRestart
<1>13. LinkedUnlessCut'
  <2> SUFFICES ASSUME ~cutShort, NEW h \in DOMAIN blocks'
               PROVE  h - 1 \in DOMAIN blocks' \cup {-1} /\ Linked(h)'
    BY <1>3 DEF LinkedUnlessCut
  <2>1. kvHeight # Nil => kvTip = blockHash(blocks[kvHeight])
    BY <1>1 DEF ChainInv, OrderlyRestart
  <2>2. CASE h = n
    <3>1. CASE kvHeight = Nil
      BY <1>1, <1>2, <2>2, <3>1 DEF Linked
    <3>2. CASE kvHeight # Nil
      <4>1. n = kvHeight + 1 /\ kvHeight \in Nat /\ kvHeight \in 0..kvHeight
        BY <1>1, <3>2
      <4>2. n - 1 = kvHeight /\ n # 0
        BY <4>1
      <4>3. kvHeight \in DOMAIN blocks /\ blocks'[kvHeight] = blocks[kvHeight]
        BY <1>3, <3>2, <4>1
      <4> QED
        BY <1>1, <1>2, <2>1, <2>2, <3>2, <4>2, <4>3 DEF Linked, blockHash
    <3> QED
      BY <3>1, <3>2
  <2>3. CASE h # n
    <3>1. h \in DOMAIN blocks /\ h - 1 \in DOMAIN blocks \cup {-1} /\ Linked(h)
      BY <1>2, <2>3 DEF ChainInv, LinkedUnlessCut
    <3>2. h \in Nat /\ h - 1 # n
      BY <1>1, <2>3, <3>1 DEF ChainInv, HeightsInv
    <3> QED
      BY <1>2, <2>3, <3>1, <3>2 DEF Linked, blockHash
  <2> QED
    BY <2>2, <2>3
<1>14. OnceUnlessCut'
  BY <1>1, <1>3 DEF ChainInv, OnceUnlessCut
<1> QED
  BY <1>4, <1>5, <1>6, <1>7, <1>8, <1>9, <1>10, <1>11, <1>12, <1>13, <1>14 DEF ChainInv
LEMMA PersistHeightInv == ChainInv /\ persistHeight => ChainInv'
<1> SUFFICES ASSUME ChainInv, persistHeight PROVE ChainInv'
  OBVIOUS
<1> DEFINE n == heightOf(making)
<1>1. /\ pc = "putHeight" /\ pc' = "putTip" /\ Base' = Base /\ blocks' = blocks
      /\ n \in 0..MaxHeight /\ n \in DOMAIN blocks /\ blocks[n] = making
      /\ making.transactions = pending
      /\ kvHeight' = n /\ kvHeight \in 0..MaxHeight \cup {Nil}
      /\ \/ kvHeight = Nil /\ n = 0
         \/ kvHeight # Nil /\ n = kvHeight + 1
  BY DEF persistHeight, ChainInv, MakingInv, Base, Persisting, TypeInv, ChainTypeOK
<1> HIDE DEF n
<1>2. n # Nil
  BY <1>1, NilAssumption
<1>3. 0..(n - 1) = IF kvHeight = Nil THEN {} ELSE 0..kvHeight
  BY <1>1
<1>4. TypeInv'
  BY <1>1 DEF ChainInv, persistHeight, TypeInv, ChainTypeOK, LedgerTypeOK, Persisting
<1>5. NonceInv'
  BY <1>1 DEF ChainInv, NonceInv, persistHeight
<1>6. MakingInv' /\ ReadyInv'
  BY <1>1 DEF persistHeight, ChainInv, MakingInv, ReadyInv, Persisting, n
<1>7. HeightsInv'
  BY <1>1, <1>2 DEF ChainInv, HeightsInv
<1>8. SnapshotInv'
  BY <1>1, <1>2 DEF ChainInv, SnapshotInv, persistHeight
<1>9. SpentInv'
  <2>1. Settled = 0..(n - 1) /\ Settled' = 0..(n - 1)
    BY <1>1, <1>2, <1>3 DEF Settled
  <2> QED
    BY <1>1, <2>1 DEF ChainInv, SpentInv, persistHeight
<1>10. PendingInv' /\ BlockOrderInv' /\ LinkedUnlessCut' /\ OrderlyRestart'
  BY <1>1 DEF persistHeight, ChainInv, PendingInv, BlockOrderInv, LinkedUnlessCut, Linked,
     OrderlyRestart
<1>11. OnceUnlessCut'
  <2> SUFFICES ASSUME ~cutShort, NEW g \in 0..n, NEW h \in 0..n,
                      NEW i \in DOMAIN blocks[g].transactions,
                      NEW j \in DOMAIN blocks[h].transactions,
                      blocks[g].transactions[i] = blocks[h].transactions[j]
               PROVE  g = h /\ i = j
    BY <1>1 DEF OnceUnlessCut, persistHeight
  <2>1. /\ g \in 0..(n - 1) \/ g = n
        /\ h \in 0..(n - 1) \/ h = n
    BY <1>1
  \* A block below the new one is settled, so its nonces are behind the snapshot's.
  <2>2. ASSUME NEW k \in 0..(n - 1)
        PROVE  k \in DOMAIN blocks /\ Spent(blocks[k].transactions, Base)
    BY <1>1, <1>3 DEF ChainInv, HeightsInv, SpentInv, Settled
  \* The new block's are not.
  <2>3. Fresh(blocks[n].transactions, Base) /\ Increasing(blocks[n].transactions)
    BY <1>1 DEF ChainInv, PendingInv
  <2>4. ASSUME NEW k \in 0..(n - 1),
               NEW x \in DOMAIN blocks[k].transactions,
               NEW y \in DOMAIN blocks[n].transactions,
               blocks[k].transactions[x] = blocks[n].transactions[y]
        PROVE  FALSE
    <3> DEFINE tx == blocks[n].transactions[y]
    <3>1. tx.nonce \in Nat
      BY <1>1, TransactionType DEF ChainInv, TypeInv, ChainTypeOK
    <3>2. get(Base, tx.from).nonce \in Nat
      BY GetType, BaseType DEF ChainInv
    <3>3. tx.nonce < get(Base, tx.from).nonce
      BY <2>2, <2>4 DEF Spent
    <3>4. get(Base, tx.from).nonce <= tx.nonce
      BY <2>3 DEF Fresh
    <3> QED
      BY <3>1, <3>2, <3>3, <3>4
  <2>5. CASE g = n /\ h = n
    <3>1. pending \in Seq(Transaction) /\ blocks[n].transactions = pending
      BY <1>1 DEF ChainInv, TypeInv, ChainTypeOK
    <3>2. i \in Nat /\ j \in Nat
      BY <2>5, <3>1
    <3>3. pending[i].nonce \in Nat /\ i \in DOMAIN pending /\ j \in DOMAIN pending
      BY <2>5, <3>1, TransactionType
    <3>4. pending[i] = pending[j]
      BY <2>5, <3>1
    <3>5. Increasing(pending)
      BY <2>3, <3>1
    <3>6. i < j => FALSE
      BY <3>3, <3>4, <3>5 DEF Increasing
    <3>7. j < i => FALSE
      BY <3>3, <3>4, <3>5 DEF Increasing
    <3> QED
      BY <2>5, <3>2, <3>6, <3>7
  <2>6. CASE g \in 0..(n - 1) /\ h \in 0..(n - 1)
    BY <1>3, <2>6 DEF ChainInv, OnceUnlessCut
  <2> QED
    BY <2>1, <2>4, <2>5, <2>6
<1> QED
  BY <1>4, <1>5, <1>6, <1>7, <1>8, <1>9, <1>10, <1>11 DEF ChainInv

LEMMA PersistTipInv == ChainInv /\ persistTip => ChainInv'
<1> SUFFICES ASSUME ChainInv, persistTip PROVE ChainInv'
  OBVIOUS
<1>1. pc = "putTip" /\ pc' = "putSnapshot" /\ Base' = Base
  BY DEF persistTip, Base
<1>2. TypeInv'
  BY <1>1 DEF ChainInv, persistTip, TypeInv, ChainTypeOK, LedgerTypeOK, Persisting
<1>3. NonceInv'
  BY <1>1 DEF ChainInv, NonceInv, persistTip
<1>4. MakingInv' /\ ReadyInv'
  BY <1>1 DEF persistTip, ChainInv, MakingInv, ReadyInv, Persisting
<1>5. HeightsInv' /\ SnapshotInv' /\ BlockOrderInv' /\ LinkedUnlessCut'
  BY DEF persistTip, ChainInv, HeightsInv, SnapshotInv, BlockOrderInv, LinkedUnlessCut, Linked
<1>6. SpentInv' /\ OrderlyRestart' /\ OnceUnlessCut' /\ PendingInv'
  BY <1>1 DEF persistTip, ChainInv, SpentInv, Settled, OrderlyRestart, OnceUnlessCut,
     PendingInv
<1> QED
  BY <1>2, <1>3, <1>4, <1>5, <1>6 DEF ChainInv

LEMMA PersistSnapshotInv == ChainInv /\ persistSnapshot => ChainInv'
<1> SUFFICES ASSUME ChainInv, persistSnapshot PROVE ChainInv'
  OBVIOUS
<1> DEFINE n == heightOf(making)
<1>1. /\ pc = "putSnapshot" /\ pc' = "ready" /\ blocks' = blocks
      /\ kvHeight' = kvHeight /\ cutShort' = cutShort
      /\ accounts \in AccountMap /\ accounts' = accounts /\ kvSnapshot' = accounts
      /\ pending' = <<>>
      /\ n \in 0..MaxHeight /\ n \in DOMAIN blocks /\ blocks[n] = making
      /\ making.transactions = pending /\ making.header.stateRoot = accounts
      /\ kvHeight = n /\ kvTip = making.header /\ kvTip' = kvTip
      /\ currentHeight' = n /\ currentTip' = kvTip
  BY DEF persistSnapshot, ChainInv, MakingInv, Persisting, TypeInv, ChainTypeOK,
     LedgerTypeOK, blockHash
<1> HIDE DEF n
<1>2. n # Nil /\ accounts # Nil
  BY <1>1, NilAssumption
<1>3. Base' = accounts
  BY <1>1, <1>2 DEF Base
<1>4. \A a : get(accounts, a).nonce \in Nat /\ get(Base, a).nonce \in Nat
  BY <1>1, GetType, BaseType DEF ChainInv
<1>5. TypeInv'
  BY <1>1 DEF ChainInv, persistSnapshot, TypeInv, ChainTypeOK, LedgerTypeOK, Persisting
<1>6. NonceInv'
  BY <1>1, <1>3 DEF ChainInv, NonceInv, persistSnapshot
<1>7. MakingInv' /\ ReadyInv'
  BY <1>1, <1>2 DEF MakingInv, ReadyInv, Persisting
<1>8. HeightsInv' /\ BlockOrderInv' /\ LinkedUnlessCut'
  BY <1>1 DEF ChainInv, HeightsInv, BlockOrderInv, LinkedUnlessCut, Linked
<1>9. SnapshotInv'
  BY <1>1, <1>2 DEF SnapshotInv
<1>10. SpentInv'
  <2> SUFFICES ASSUME ~cutShort, NEW h \in 0..n
               PROVE  Spent(blocks[h].transactions, accounts)
    BY <1>1, <1>2, <1>3 DEF SpentInv, Settled
  <2>1. CASE h = n
    BY <1>1, <2>1 DEF ChainInv, PendingInv
  <2>2. CASE h # n
    <3>1. h \in Settled /\ h \in DOMAIN blocks
      BY <1>1, <1>2, <2>2 DEF ChainInv, Settled, HeightsInv
    <3>2. Spent(blocks[h].transactions, Base)
      BY <3>1 DEF ChainInv, SpentInv
    <3>3. \A i \in DOMAIN blocks[h].transactions :
             /\ blocks[h].transactions[i].nonce \in Nat
             /\ blocks[h].transactions[i].from \in Address
      BY <3>1, TransactionType DEF ChainInv, TypeInv
    <3>4. \A a \in Address : get(Base, a).nonce <= get(accounts, a).nonce
      BY <1>1 DEF ChainInv, PendingInv
    <3> QED
      BY <1>4, <3>2, <3>3, <3>4 DEF Spent
  <2> QED
    BY <2>1, <2>2
<1>11. PendingInv'
  BY <1>1, <1>3, <1>4 DEF PendingInv, Fresh, Spent, Increasing
<1>12. OrderlyRestart' /\ OnceUnlessCut'
  BY <1>1 DEF ChainInv, OrderlyRestart, OnceUnlessCut, blockHash
<1> QED
  BY <1>5, <1>6, <1>7, <1>8, <1>9, <1>10, <1>11, <1>12 DEF ChainInv

LEMMA DieInv == ChainInv /\ die => ChainInv'
<1> SUFFICES ASSUME ChainInv, die PROVE ChainInv'
  OBVIOUS
<1>1. /\ pc' = "down" /\ Base' = Base /\ accounts' = NoAccounts /\ pending' = <<>>
      /\ blocks' = blocks /\ kvHeight' = kvHeight /\ kvTip' = kvTip
      /\ kvSnapshot' = kvSnapshot /\ applied' = applied
      /\ cutShort' = (cutShort \/ pc \in {"putTip", "putSnapshot"})
  BY DEF die, Base
<1>2. TypeInv'
  BY <1>1, NoAccountsIs, MaxHeightAssumption
  DEF ChainInv, die, TypeInv, ChainTypeOK, LedgerTypeOK
<1>3. NonceInv'
  <2>1. Len(applied) \in Nat
    BY DEF ChainInv, TypeInv, ChainTypeOK, LedgerTypeOK
  <2> QED
    BY <1>1, <2>1, NoAccountsIs DEF ChainInv, NonceInv
<1>4. MakingInv' /\ ReadyInv' /\ PendingInv'
  BY <1>1 DEF MakingInv, ReadyInv, PendingInv, Persisting
<1>5. HeightsInv' /\ SnapshotInv' /\ BlockOrderInv'
  BY <1>1 DEF ChainInv, HeightsInv, SnapshotInv, BlockOrderInv
<1>6. LinkedUnlessCut' /\ OnceUnlessCut' /\ OrderlyRestart'
  <2>1. LinkedUnlessCut'
    BY <1>1 DEF ChainInv, LinkedUnlessCut, Linked
  <2>2. OnceUnlessCut'
    <3> SUFFICES ASSUME ~cutShort', kvHeight' # Nil,
                        NEW g \in 0..kvHeight', NEW h \in 0..kvHeight',
                        NEW i \in DOMAIN blocks'[g].transactions,
                        NEW j \in DOMAIN blocks'[h].transactions,
                        blocks'[g].transactions[i] = blocks'[h].transactions[j]
                 PROVE  g = h /\ i = j
      BY DEF OnceUnlessCut
    <3>1. ~cutShort /\ blocks' = blocks /\ kvHeight' = kvHeight
      BY <1>1
    <3>2. OnceUnlessCut
      BY DEF ChainInv
    <3> QED
      BY <3>1, <3>2 DEF OnceUnlessCut
  <2>3. OrderlyRestart'
    BY <1>1 DEF ChainInv, OrderlyRestart
  <2> QED
    BY <2>1, <2>2, <2>3
<1>7. SpentInv'
  BY <1>1 DEF ChainInv, SpentInv, Settled
<1> QED
  BY <1>2, <1>3, <1>4, <1>5, <1>6, <1>7 DEF ChainInv

LEMMA ChainStep == ChainInv /\ [ChainNext]_chainVars => ChainInv'
<1> SUFFICES ASSUME ChainInv, [ChainNext]_chainVars PROVE ChainInv'
  OBVIOUS
<1>1. CASE UNCHANGED chainVars
  <2>1. TypeInv' /\ NonceInv' /\ MakingInv' /\ ReadyInv'
    BY <1>1 DEF chainVars, ChainInv, TypeInv, ChainTypeOK, LedgerTypeOK, NonceInv, Base,
       MakingInv, ReadyInv
  <2>2. HeightsInv' /\ SnapshotInv' /\ BlockOrderInv' /\ LinkedUnlessCut'
    BY <1>1 DEF chainVars, ChainInv, HeightsInv, SnapshotInv, BlockOrderInv,
       LinkedUnlessCut, Linked
  <2>3. SpentInv' /\ OrderlyRestart' /\ OnceUnlessCut' /\ PendingInv'
    BY <1>1 DEF chainVars, ChainInv, SpentInv, Settled, Base, OrderlyRestart,
       OnceUnlessCut, PendingInv
  <2> QED
    BY <2>1, <2>2, <2>3 DEF ChainInv
<1> QED
  BY <1>1, LoadInv, GenesisInv, SubmitInv, ProduceInv, PersistBlockInv, PersistHeightInv,
     PersistTipInv, PersistSnapshotInv, DieInv
  DEF ChainNext

LEMMA ChainInvariant == ChainSpec => []ChainInv
  BY ChainInitInv, ChainStep, PTL DEF ChainSpec

\* Heights, nonces and balances stay what the code's types say, through any
\* number of deaths and restarts of the process.
THEOREM ChainTypeCorrect == ChainSpec => []ChainTypeOK
<1>1. ChainInv => ChainTypeOK
  BY DEF ChainInv, TypeInv
<1> QED
  BY <1>1, ChainInvariant, PTL

\* A process that ends between calls, or before the new height is put, restarts
\* from a tip, a block and a snapshot that agree.
THEOREM Restart == ChainSpec => []OrderlyRestart
<1>1. ChainInv => OrderlyRestart
  BY DEF ChainInv
<1> QED
  BY <1>1, ChainInvariant, PTL

\* Every stored block names the block stored below it, for as long as no block
\* was cut short between its height and its snapshot.
THEOREM ChainLinked == ChainSpec => []LinkedUnlessCut
<1>1. ChainInv => LinkedUnlessCut
  BY DEF ChainInv
<1> QED
  BY <1>1, ChainInvariant, PTL

\* Whatever was cut short, every recorded height can be read back and the stored
\* snapshot is the state some stored block committed to.
THEOREM Usable == ChainSpec => []StoreUsable
<1>1. ChainInv => StoreUsable
  <2> SUFFICES ASSUME ChainInv PROVE StoreUsable
    OBVIOUS
  <2>1. kvHeight # Nil => 0..kvHeight \subseteq DOMAIN blocks
    BY DEF ChainInv, HeightsInv
  <2> QED
    BY <2>1 DEF ChainInv, SnapshotInv, StoreUsable
<1> QED
  BY <1>1, ChainInvariant, PTL

\* No transaction is in two blocks of the chain, across any number of restarts,
\* for as long as no block was cut short between its height and its snapshot.
THEOREM Once == ChainSpec => []OnceUnlessCut
<1>1. ChainInv => OnceUnlessCut
  BY DEF ChainInv
<1> QED
  BY <1>1, ChainInvariant, PTL
=============================================================================

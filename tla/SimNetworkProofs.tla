-------------------------- MODULE SimNetworkProofs --------------------------
(***************************************************************************)
(* What SimulatedNetwork's operations do to the messages under way, for    *)
(* the proofs about the components that run over it: tick() neither makes  *)
(* up nor repeats nor loses a message, and send() puts at most two copies  *)
(* of one message under way.                                               *)
(***************************************************************************)
EXTENDS SimNetwork, FiniteSetTheorems, NaturalsInduction, WellFoundedInduction, TLAPS

-----------------------------------------------------------------------------
(***************************************************************************)
(* kept(s, P): the recursion over the positions of s is well defined, and  *)
(* its result is s read at the positions of P, in order and each once.     *)
(***************************************************************************)

\* A set of numbers that is not empty has a least member.
LEMMA LeastExists ==
    ASSUME NEW S \in SUBSET Nat, S # {}
    PROVE  \E x \in S : \A y \in S : x <= y
<1>1. PICK x \in S : \A y \in S : ~(<<y, x>> \in OpToRel(<, Nat))
  BY NatLessThanWellFounded, WFMin
<1>2. \A y \in S : ~(y < x)
  <2> TAKE y \in S
  <2>1. <<y, x>> \in Nat \X Nat
    OBVIOUS
  <2>2. y < x => <<y, x>> \in OpToRel(<, Nat)
    BY <2>1, Zenon DEF OpToRel
  <2> QED
    BY <1>1, <2>2
<1> QED
  BY <1>2

\* One round of the loop of tick(): what it appends to.
KeepRound(f, s, P, i) == IF i \in P THEN Append(f[i - 1], s[i]) ELSE f[i - 1]

\* f is the loop's result after each of its first k rounds.
KeepRuns(f, s, P, k) == f[0] = <<>> /\ \A i \in 1..k : f[i] = KeepRound(f, s, P, i)

LEMMA KeepRunExists ==
    ASSUME NEW T, NEW s \in Seq(T), NEW P, NEW n \in 0..Len(s)
    PROVE  \E f \in [0..n -> Seq(T)] : KeepRuns(f, s, P, n)
<1> DEFINE Good(k) == \E f \in [0..k -> Seq(T)] : KeepRuns(f, s, P, k)
           Bad == {k \in 0..Len(s) : ~Good(k)}
<1>1. SUFFICES ASSUME Bad # {} PROVE FALSE
  BY DEF KeepRuns
<1>2. PICK k \in Bad : \A j \in Bad : k <= j
  <2>1. Bad \in SUBSET Nat
    OBVIOUS
  <2> HIDE DEF Bad
  <2> QED
    BY <1>1, <2>1, LeastExists
<1>3. k # 0
  <2>1. [i \in 0..0 |-> <<>>] \in [0..0 -> Seq(T)]
    OBVIOUS
  <2>2. KeepRuns([i \in 0..0 |-> <<>>], s, P, 0)
    BY DEF KeepRuns
  <2> QED
    BY <2>1, <2>2
<1>4. k - 1 \in 0..Len(s) /\ k \in 1..Len(s) /\ k - 1 \notin Bad
  <2>1. Len(s) \in Nat /\ k \in 0..Len(s)
    OBVIOUS
  <2>2. \A l \in Nat : \A i \in 0..l : i # 0 => i - 1 \in 0..l /\ i \in 1..l /\ ~(i <= i - 1)
    OBVIOUS
  <2> QED
    BY <1>2, <1>3, <2>1, <2>2, Zenon
<1>5. PICK f \in [0..(k - 1) -> Seq(T)] : KeepRuns(f, s, P, k - 1)
  BY <1>4
<1> DEFINE g == [i \in 0..k |-> IF i = k THEN KeepRound(f, s, P, k) ELSE f[i]]
<1>6. f[k - 1] \in Seq(T) /\ s[k] \in T
  BY <1>4
<1>7. KeepRound(f, s, P, k) \in Seq(T)
  BY <1>6 DEF KeepRound
<1>8. g \in [0..k -> Seq(T)]
  BY <1>4, <1>7
<1>9. g[0] = <<>>
  BY <1>4, <1>5 DEF KeepRuns
<1>10. ASSUME NEW i \in 1..k PROVE g[i] = KeepRound(g, s, P, i)
  <2>1. i - 1 \in 0..k /\ i - 1 # k /\ g[i - 1] = f[i - 1]
    BY <1>4
  <2>2. KeepRound(g, s, P, i) = KeepRound(f, s, P, i)
    BY <2>1 DEF KeepRound
  <2>3. i # k => i \in 1..(k - 1) /\ i \in 0..k
    BY <1>4
  <2>4. CASE i = k
    BY <1>4, <2>2, <2>4
  <2>5. CASE i # k
    <3>1. g[i] = f[i] /\ f[i] = KeepRound(f, s, P, i)
      BY <1>5, <2>3, <2>5 DEF KeepRuns
    <3> QED
      BY <3>1, <2>2
  <2> QED
    BY <2>4, <2>5
<1> HIDE DEF g
<1>11. Good(k)
  BY <1>8, <1>9, <1>10 DEF KeepRuns
<1> QED
  BY <1>2, <1>11

\* The recursive function of kept is such a run.
LEMMA KeptIs ==
    ASSUME NEW T, NEW s \in Seq(T), NEW P
    PROVE  \E f \in [0..Len(s) -> Seq(T)] : KeepRuns(f, s, P, Len(s)) /\ kept(s, P) = f[Len(s)]
<1> DEFINE n == Len(s)
           eq(f) == [i \in 0..n |-> IF i = 0 THEN <<>>
                                    ELSE IF i \in P THEN Append(f[i - 1], s[i]) ELSE f[i - 1]]
           upTo == CHOOSE f : f = eq(f)
<1>0. n \in Nat /\ n \in 0..n /\ \A i \in 0..n : i # 0 => i \in 1..n
  OBVIOUS
<1>1. PICK f \in [0..n -> Seq(T)] : KeepRuns(f, s, P, n)
  BY <1>0, KeepRunExists
<1>2. f = eq(f)
  <2>1. \A i \in 0..n : f[i] = eq(f)[i]
    BY <1>0, <1>1 DEF KeepRuns, KeepRound
  <2> QED
    BY <2>1
<1>3. upTo = eq(upTo)
  BY <1>2
<1>4. kept(s, P) = upTo[n]
  BY DEF kept
<1> QED
  <2> HIDE DEF upTo
  <2>1. \A i \in 0..n : upTo[i] = eq(upTo)[i] /\ f[i] = eq(f)[i]
    BY <1>2, <1>3
  <2>2. ASSUME NEW k \in 0..n PROVE upTo[k] = f[k]
    <3> DEFINE Bad == {j \in 0..n : upTo[j] # f[j]}
    <3>1. SUFFICES ASSUME Bad # {} PROVE FALSE
      OBVIOUS
    <3>2. PICK j \in Bad : \A i \in Bad : j <= i
      <4>1. Bad \in SUBSET Nat
        OBVIOUS
      <4> HIDE DEF Bad
      <4> QED
        BY <3>1, <4>1, LeastExists
    <3>3. j # 0
      BY <2>1
    <3>4. j - 1 \in 0..n /\ ~(j <= j - 1)
      BY <1>0, <3>3
    <3>5. upTo[j - 1] = f[j - 1]
      BY <3>2, <3>4
    <3> QED
      BY <2>1, <3>3, <3>5
  <2> QED
    BY <1>0, <1>1, <1>4, <2>2
\* Places(g, r, D, s): g maps the positions of r one to one onto D, where s has
\* the same elements in the same order.
Places(g, r, D, s) ==
    /\ g \in [1..Len(r) -> D]
    /\ \A x, y \in 1..Len(r) : x < y => g[x] < g[y]
    /\ \A p \in D : \E x \in 1..Len(r) : g[x] = p
    /\ \A x \in 1..Len(r) : r[x] = s[g[x]]

\* The positions of P up to k.
LEMMA UpToIs ==
    ASSUME NEW n \in Nat, NEW P \in SUBSET (1..n)
    PROVE  LET upTo(k) == {p \in P : p <= k}
           IN  /\ upTo(0) = {} /\ upTo(n) = P
               /\ \A k \in 1..n : /\ upTo(k - 1) \subseteq upTo(k) /\ upTo(k) \subseteq Nat
                                  /\ \A p \in upTo(k - 1) : p < k
                                  /\ \A p \in upTo(k) : p = k \/ p \in upTo(k - 1)
                                  /\ k \in P => k \in upTo(k)
                                  /\ k \notin P => upTo(k) = upTo(k - 1)
<1> DEFINE upTo(k) == {p \in P : p <= k}
<1>1. \A p \in P : p \in Nat /\ p # 0 /\ p <= n
  OBVIOUS
<1>2. upTo(0) = {} /\ upTo(n) = P
  <2>1. \A p \in Nat : p # 0 => ~(p <= 0)
    OBVIOUS
  <2> QED
    BY <1>1, <2>1, Zenon
<1>3. ASSUME NEW k \in 1..n
      PROVE  /\ upTo(k - 1) \subseteq upTo(k) /\ upTo(k) \subseteq Nat
             /\ \A p \in upTo(k - 1) : p < k
             /\ \A p \in upTo(k) : p = k \/ p \in upTo(k - 1)
             /\ k \in P => k \in upTo(k)
             /\ k \notin P => upTo(k) = upTo(k - 1)
  <2>1. \A p \in Nat : (p <= k - 1 => p <= k /\ p < k) /\ (p <= k => p = k \/ p <= k - 1)
    OBVIOUS
  <2>2. k <= k
    OBVIOUS
  <2> QED
    BY <1>1, <2>1, <2>2, Zenon
<1> QED
  BY <1>2, <1>3

\* The elements of kept(s, P) are those of s at the positions of P, each once
\* and in order: tick() neither makes up, nor repeats, nor loses a message.
LEMMA KeptPlaces ==
    ASSUME NEW T, NEW s \in Seq(T), NEW P \in SUBSET (1..Len(s))
    PROVE  kept(s, P) \in Seq(T) /\ \E g : Places(g, kept(s, P), P, s)
<1>len. PICK n \in Nat : n = Len(s)
  OBVIOUS
<1> DEFINE upTo(k) == {p \in P : p <= k}
<1>0. n \in 0..n /\ (\A i \in 0..n : i # 0 => i \in 1..n) /\ P \subseteq 1..n
  BY <1>len
<1>u. /\ upTo(0) = {} /\ upTo(n) = P
      /\ \A k \in 1..n : /\ upTo(k - 1) \subseteq upTo(k) /\ upTo(k) \subseteq Nat
                         /\ \A p \in upTo(k - 1) : p < k
                         /\ \A p \in upTo(k) : p = k \/ p \in upTo(k - 1)
                         /\ k \in P => k \in upTo(k)
                         /\ k \notin P => upTo(k) = upTo(k - 1)
  BY <1>0, UpToIs
<1> HIDE DEF upTo
<1>1. PICK f \in [0..n -> Seq(T)] : KeepRuns(f, s, P, n) /\ kept(s, P) = f[n]
  BY <1>len, KeptIs
<1> DEFINE Good(k) == \E g : Places(g, f[k], upTo(k), s)
           Bad == {k \in 0..n : ~Good(k)}
<1>2. Bad = {}
  <2>1. SUFFICES ASSUME Bad # {} PROVE FALSE
    OBVIOUS
  <2>2. PICK k \in Bad : \A i \in Bad : k <= i
    <3>1. Bad \in SUBSET Nat
      OBVIOUS
    <3> HIDE DEF Bad
    <3> QED
      BY <2>1, <3>1, LeastExists
  <2>3. k # 0
    <3>1. f[0] = <<>> /\ Len(f[0]) = 0
      BY <1>1 DEF KeepRuns
    <3>2. [x \in 1..0 |-> 0] \in [1..0 -> {}]
      OBVIOUS
    <3>3. Places([x \in 1..0 |-> 0], f[0], upTo(0), s)
      BY <1>u, <3>1, <3>2 DEF Places
    <3> QED
      BY <3>3
  <2>4. k \in 1..n /\ k - 1 \in 0..n /\ ~(k <= k - 1)
    BY <1>0, <2>3
  <2>5. PICK g : Places(g, f[k - 1], upTo(k - 1), s)
    BY <2>2, <2>4
  <2> DEFINE r == f[k - 1]
  <2>6. r \in Seq(T) /\ Len(r) \in Nat /\ s[k] \in T
    BY <1>len, <1>1, <2>4
  <2>7. f[k] = KeepRound(f, s, P, k)
    BY <1>1, <2>4 DEF KeepRuns
  <2>8. CASE k \notin P
    <3>1. f[k] = r
      BY <2>7, <2>8 DEF KeepRound
    <3>2. upTo(k) = upTo(k - 1)
      BY <1>u, <2>4, <2>8
    <3> QED
      BY <2>5, <3>1, <3>2
  <2>9. CASE k \in P
    <3> DEFINE l == Len(r)
               h == [x \in 1..(l + 1) |-> IF x = l + 1 THEN k ELSE g[x]]
    <3>1. f[k] = Append(r, s[k])
      BY <2>7, <2>9 DEF KeepRound
    <3>2. Len(f[k]) = l + 1 /\ f[k][l + 1] = s[k] /\ \A x \in 1..l : f[k][x] = r[x]
      <4> HIDE DEF r
      <4> QED
        BY <2>6, <3>1
    <3>3. l \in Nat
      BY <2>6
    <3> DEFINE U == upTo(k)
               V == upTo(k - 1)
    <3>6. g \in [1..l -> V] /\ (\A x, y \in 1..l : x < y => g[x] < g[y])
          /\ (\A p \in V : \E x \in 1..l : g[x] = p) /\ (\A x \in 1..l : r[x] = s[g[x]])
      BY <2>5 DEF Places
    <3>7. V \subseteq U /\ U \subseteq Nat /\ k \in U /\ (\A p \in V : p < k)
          /\ \A p \in U : p = k \/ p \in V
      BY <1>u, <2>4, <2>9
    <3> DEFINE q == f[k]
    <3>71. Len(q) = l + 1 /\ q[l + 1] = s[k] /\ \A x \in 1..l : q[x] = r[x]
      BY <3>2
    <3> HIDE DEF U, V, r, l, q
    <3>8. \A x \in 1..(l + 1) : x = l + 1 \/ x \in 1..l
      BY <3>3
    <3>9. h \in [1..(l + 1) -> U]
      BY <3>6, <3>7, <3>8
    <3>10. \A x \in 1..l : h[x] = g[x] /\ x # l + 1 /\ x \in 1..(l + 1)
      BY <3>3
    <3>11. h[l + 1] = k /\ l + 1 \in 1..(l + 1)
      BY <3>3
    <3> HIDE DEF h
    <3>12. ASSUME NEW x \in 1..(l + 1), NEW y \in 1..(l + 1), x < y PROVE h[x] < h[y]
      <4>1. x \in 1..l
        BY <3>3, <3>12
      <4>2. h[x] = g[x] /\ g[x] \in V
        BY <3>6, <3>10, <4>1
      <4>3. CASE y = l + 1
        BY <3>7, <3>11, <4>2, <4>3
      <4>4. CASE y \in 1..l
        BY <3>6, <3>10, <3>12, <4>1, <4>4
      <4> QED
        BY <3>8, <4>3, <4>4
    <3>13. ASSUME NEW p \in U PROVE \E x \in 1..(l + 1) : h[x] = p
      BY <3>6, <3>7, <3>10, <3>11
    <3>14. ASSUME NEW x \in 1..(l + 1) PROVE q[x] = s[h[x]]
      BY <3>6, <3>71, <3>8, <3>10, <3>11
    <3>15. Places(h, q, U, s)
      BY <3>71, <3>9, <3>12, <3>13, <3>14 DEF Places
    <3> QED
      BY <3>15 DEF q, U
  <2> QED
    BY <2>8, <2>9
<1>3. Good(n) /\ upTo(n) = P
  BY <1>u, <1>0, <1>2
<1> QED
  BY <1>0, <1>1, <1>3
\* What is read off at positions of P are elements of s there.
LEMMA KeptIn ==
    ASSUME NEW T, NEW s \in Seq(T), NEW P \in SUBSET (1..Len(s))
    PROVE  /\ kept(s, P) \in Seq(T)
           /\ \A x \in 1..Len(kept(s, P)) : \E p \in P : kept(s, P)[x] = s[p]
<1>1. PICK g : Places(g, kept(s, P), P, s)
  BY KeptPlaces
<1>2. \A x \in 1..Len(kept(s, P)) : g[x] \in P /\ kept(s, P)[x] = s[g[x]]
  BY <1>1 DEF Places
<1> QED
  BY <1>2, KeptPlaces

-----------------------------------------------------------------------------
(***************************************************************************)
(* The messages on their way to the address a, and in its inbox, are       *)
(* letters of W[a].                                                        *)
(***************************************************************************)
Delay == 1..(1 + MaxExtraDelay)
Flying(L) == {m \in [from : {l.from : l \in L}, body : {l.body : l \in L}, wait : Delay] :
                 letter(m) \in L}

FlightType(W) == inFlight = [a \in Addr |-> inFlight[a]]
                 /\ \A a \in Addr : inFlight[a] \in Seq(Flying(W[a]))
BoxType(W) == inboxes = [a \in Addr |-> inboxes[a]]
              /\ \A a \in Addr : inboxes[a] \in Seq(W[a])

\* A sequence over a set is one over any larger set.
LEMMA SeqMonotone == ASSUME NEW S, NEW T, S \subseteq T, NEW s \in Seq(S) PROVE s \in Seq(T)
<1>1. s \in [1..Len(s) -> S] /\ Len(s) \in Nat
  OBVIOUS
<1>2. s \in [1..Len(s) -> T]
  BY <1>1
<1> QED
  BY <1>1, <1>2

LEMMA CarriesMore ==
    ASSUME NEW W, NEW V, \A a \in Addr : W[a] \subseteq V[a]
    PROVE  (FlightType(W) => FlightType(V)) /\ (BoxType(W) => BoxType(V))
<1>1. \A a \in Addr : Flying(W[a]) \subseteq Flying(V[a])
  BY DEF Flying
<1>2. ASSUME FlightType(W) PROVE FlightType(V)
  BY <1>1, <1>2, SeqMonotone DEF FlightType
<1>3. ASSUME BoxType(W) PROVE BoxType(V)
  BY <1>1, <1>3, SeqMonotone DEF BoxType
<1> QED
  BY <1>2, <1>3

LEMMA NetInitCarries == ASSUME NEW W, NetInit PROVE FlightType(W) /\ BoxType(W)
  BY DEF NetInit, FlightType, BoxType

\* Each fate of a message is a sequence of copies of it.
LEMMA FatesAre ==
    ASSUME NEW from, NEW to, NEW body, NEW L, [from |-> from, body |-> body] \in L
    PROVE  \A s \in fates(from, to, body) : s \in Seq(Flying(L))
<1>1. copies(from, body) \subseteq Flying(L)
  <2>1. from \in {l.from : l \in L} /\ body \in {l.body : l \in L}
    OBVIOUS
  <2> QED
    BY <2>1 DEF copies, Flying, Delay, letter
<1>2. ASSUME NEW s \in fates(from, to, body)
      PROVE  \/ s = <<>>
             \/ \E c \in copies(from, body) : s = <<c>>
             \/ \E c, d \in copies(from, body) : s = <<c, d>>
  BY DEF fates
<1>3. \A c, d \in Flying(L) : <<c>> \in Seq(Flying(L)) /\ <<c, d>> \in Seq(Flying(L))
  OBVIOUS
<1>4. <<>> \in Seq(Flying(L))
  OBVIOUS
<1>5. ASSUME NEW s \in fates(from, to, body) PROVE s \in Seq(Flying(L))
  <2>1. CASE s = <<>>
    BY <1>4, <2>1
  <2>2. ASSUME NEW c \in copies(from, body), s = <<c>> PROVE s \in Seq(Flying(L))
    BY <1>1, <1>3, <2>2, Zenon
  <2>3. ASSUME NEW c \in copies(from, body), NEW d \in copies(from, body), s = <<c, d>>
        PROVE  s \in Seq(Flying(L))
    BY <1>1, <1>3, <2>3, Zenon
  <2> QED
    BY <1>2, <2>1, <2>2, <2>3, Zenon
<1> QED
  BY <1>5

LEMMA ConcatIn == ASSUME NEW S, NEW s \in Seq(S), NEW t \in Seq(S) PROVE s \o t \in Seq(S)
  OBVIOUS

LEMMA SendCarries ==
    ASSUME NEW W, FlightType(W), NEW from, NEW to \in Addr, NEW body,
           [from |-> from, body |-> body] \in W[to], send(from, to, body)
    PROVE  FlightType(W)'
<1>1. PICK s \in fates(from, to, body) : inFlight' = [inFlight EXCEPT ![to] = @ \o s]
  BY DEF send
<1>2. s \in Seq(Flying(W[to]))
  BY <1>1, FatesAre
<1>3. inFlight = [a \in Addr |-> inFlight[a]] /\ \A a \in Addr : inFlight[a] \in Seq(Flying(W[a]))
  BY DEF FlightType
<1>4. \A a \in Addr : inFlight'[a] = IF a = to THEN inFlight[to] \o s ELSE inFlight[a]
  BY <1>1, <1>3
<1>5. inFlight[to] \o s \in Seq(Flying(W[to]))
  BY <1>2, <1>3, ConcatIn
<1>6. \A a \in Addr : inFlight'[a] \in Seq(Flying(W[a]))
  BY <1>3, <1>4, <1>5
<1>7. inFlight' = [a \in Addr |-> inFlight'[a]]
  BY <1>1, <1>3
<1> QED
  BY <1>6, <1>7 DEF FlightType

LEMMA BroadcastCarries ==
    ASSUME NEW W, FlightType(W), NEW from, NEW group \in SUBSET Node, NEW body,
           \A p \in group : [from |-> from, body |-> body[p]] \in W[plain(p)],
           broadcast(from, group, body)
    PROVE  FlightType(W)'
<1>1. PICK s : /\ \A p \in group : s[p] \in fates(from, plain(p), body[p])
               /\ inFlight' = [a \in Addr |->
                                 IF a.port = "request" /\ a.node \in group
                                 THEN inFlight[a] \o s[a.node] ELSE inFlight[a]]
  BY DEF broadcast
<1>2. \A p \in group : s[p] \in Seq(Flying(W[plain(p)]))
  BY <1>1, FatesAre
<1>3. \A a \in Addr : inFlight[a] \in Seq(Flying(W[a]))
  BY DEF FlightType
<1>4. ASSUME NEW a \in Addr PROVE inFlight'[a] \in Seq(Flying(W[a]))
  <2>1. CASE a.port = "request" /\ a.node \in group
    <3>1. a = plain(a.node)
      BY <2>1 DEF Addr, plain
    <3>2. s[a.node] \in Seq(Flying(W[a]))
      BY <1>2, <2>1, <3>1
    <3>3. inFlight[a] \o s[a.node] \in Seq(Flying(W[a]))
      BY <1>3, <3>2, ConcatIn
    <3> QED
      BY <1>1, <2>1, <3>3
  <2>2. CASE ~(a.port = "request" /\ a.node \in group)
    BY <1>1, <1>3, <2>2
  <2> QED
    BY <2>1, <2>2
<1>5. inFlight' = [a \in Addr |-> inFlight'[a]]
  BY <1>1
<1> QED
  BY <1>4, <1>5 DEF FlightType

\* A message of the network is the letter it carries and the ticks it waits.
LEMMA OneTickLess ==
    ASSUME NEW L, NEW m \in Flying(L)
    PROVE  letter(m) \in L /\ (~(m.wait <= 1) => [m EXCEPT !.wait = @ - 1] \in Flying(L))
<1>1. letter(m) \in L
  BY DEF Flying
<1>2. ASSUME ~(m.wait <= 1) PROVE [m EXCEPT !.wait = @ - 1] \in Flying(L)
  <2>1. \A v \in 1..(1 + MaxExtraDelay) : ~(v <= 1) => v - 1 \in 1..(1 + MaxExtraDelay)
    BY FaultAssumption
  <2>2. m.wait \in Delay /\ m.wait - 1 \in Delay
    BY <1>2, <2>1 DEF Flying, Delay
  <2>3. [m EXCEPT !.wait = @ - 1] \in
           [from : {l.from : l \in L}, body : {l.body : l \in L}, wait : Delay]
    BY <2>2 DEF Flying
  <2>4. letter([m EXCEPT !.wait = @ - 1]) = letter(m)
    BY DEF letter, Flying
  <2> QED
    BY <1>1, <2>3, <2>4 DEF Flying
<1> QED
  BY <1>1, <1>2

\* tick() delivers what was under way, to where it was going.
LEMMA TickCarries ==
    ASSUME NEW W, FlightType(W), BoxType(W), netTick
    PROVE  FlightType(W)' /\ BoxType(W)'
<1>1. \A a \in Addr : inFlight[a] \in Seq(Flying(W[a])) /\ inboxes[a] \in Seq(W[a])
  BY DEF FlightType, BoxType
<1>2. ASSUME NEW a \in Addr
      PROVE  inboxes'[a] \in Seq(W[a]) /\ inFlight'[a] \in Seq(Flying(W[a]))
  <2> DEFINE s == inFlight[a]
             due == kept(s, duePositions(s))
             rest == kept(s, DOMAIN s \ duePositions(s))
  <2>1. s \in Seq(Flying(W[a])) /\ inboxes[a] \in Seq(W[a])
    BY <1>1
  <2>2. DOMAIN s = 1..Len(s)
    BY <2>1
  <2>3. duePositions(s) \in SUBSET (1..Len(s)) /\ DOMAIN s \ duePositions(s) \in SUBSET (1..Len(s))
    BY <2>2 DEF duePositions
  <2>4. due \in Seq(Flying(W[a])) /\ rest \in Seq(Flying(W[a]))
    BY <2>1, <2>3, KeptIn
  <2>5. \A x \in 1..Len(rest) : \E p \in DOMAIN s \ duePositions(s) : rest[x] = s[p]
    BY <2>1, <2>3, KeptIn
  <2>6. inboxes'[a] = inboxes[a] \o [i \in DOMAIN due |-> letter(due[i])]
        /\ inFlight'[a] = [i \in DOMAIN rest |-> [rest[i] EXCEPT !.wait = @ - 1]]
    BY DEF netTick
  <2>7. [i \in DOMAIN due |-> letter(due[i])] \in Seq(W[a])
    <3>1. DOMAIN due = 1..Len(due) /\ Len(due) \in Nat /\ \A i \in DOMAIN due : due[i] \in Flying(W[a])
      BY <2>4
    <3>2. \A m \in Flying(W[a]) : letter(m) \in W[a]
      BY OneTickLess
    <3> QED
      BY <3>1, <3>2
  <2>8. inFlight'[a] \in Seq(Flying(W[a]))
    <3>1. DOMAIN rest = 1..Len(rest) /\ Len(rest) \in Nat
      BY <2>4
    <3>2. ASSUME NEW i \in DOMAIN rest PROVE [rest[i] EXCEPT !.wait = @ - 1] \in Flying(W[a])
      <4>1. PICK p \in DOMAIN s \ duePositions(s) : rest[i] = s[p]
        BY <2>5, <3>1, <3>2
      <4>2. rest[i] \in Flying(W[a]) /\ ~(rest[i].wait <= 1)
        BY <2>1, <4>1 DEF duePositions, isDue
      <4> QED
        BY <4>2, OneTickLess
    <3> HIDE DEF rest
    <3> QED
      BY <2>6, <3>1, <3>2
  <2>9. inboxes'[a] \in Seq(W[a])
    <3> DEFINE new == [i \in DOMAIN due |-> letter(due[i])]
    <3>1. new \in Seq(W[a]) /\ inboxes'[a] = inboxes[a] \o new
      BY <2>6, <2>7
    <3> HIDE DEF new
    <3> QED
      BY <2>1, <3>1, ConcatIn
  <2> QED
    BY <2>8, <2>9
<1>3. inFlight' = [a \in Addr |-> inFlight'[a]] /\ inboxes' = [a \in Addr |-> inboxes'[a]]
  BY DEF netTick
<1> QED
  BY <1>2, <1>3 DEF FlightType, BoxType

\* Taking the first letter of an inbox leaves letters there.
LEMMA TakeCarries ==
    ASSUME NEW W, BoxType(W), NEW a \in Addr, inboxes[a] # <<>>,
           inboxes' = [inboxes EXCEPT ![a] = Tail(@)]
    PROVE  Head(inboxes[a]) \in W[a] /\ BoxType(W)'
<1>1. inboxes = [b \in Addr |-> inboxes[b]] /\ \A b \in Addr : inboxes[b] \in Seq(W[b])
  BY DEF BoxType
<1>2. ASSUME NEW S, NEW s \in Seq(S), s # <<>> PROVE Head(s) \in S /\ Tail(s) \in Seq(S)
  BY <1>2
<1>3. Head(inboxes[a]) \in W[a] /\ Tail(inboxes[a]) \in Seq(W[a])
  BY <1>1, <1>2
<1>4. \A b \in Addr : inboxes'[b] = IF b = a THEN Tail(inboxes[a]) ELSE inboxes[b]
  BY <1>1
<1>5. inboxes' = [b \in Addr |-> inboxes'[b]]
  BY <1>1
<1> QED
  BY <1>1, <1>3, <1>4, <1>5 DEF BoxType
-----------------------------------------------------------------------------
(***************************************************************************)
(* Counting the places of a value in a sequence.                           *)
(***************************************************************************)
hits(q, v) == {x \in DOMAIN q : q[x] = v}

LEMMA SameSize ==
    ASSUME NEW S, NEW T, NEW f \in [S -> T], IsFiniteSet(S),
           \A x, y \in S : f[x] = f[y] => x = y,
           \A t \in T : \E x \in S : f[x] = t
    PROVE  IsFiniteSet(T) /\ Cardinality(T) = Cardinality(S)
<1>1. f \in Bijection(S, T)
  BY DEF Bijection, Injection, Surjection, IsInjective
<1> QED
  BY <1>1, FS_Bijection DEF ExistsBijection

LEMMA HitsFinite ==
    ASSUME NEW T, NEW q \in Seq(T), NEW v
    PROVE  IsFiniteSet(hits(q, v)) /\ Cardinality(hits(q, v)) \in Nat /\ hits(q, v) \subseteq 1..Len(q)
<1>1. hits(q, v) \in SUBSET (1..Len(q)) /\ Len(q) \in Nat
  BY DEF hits
<1>2. IsFiniteSet(1..Len(q))
  BY <1>1, FS_Interval
<1> QED
  BY <1>1, <1>2, FS_Subset, FS_CardinalityType

\* A set in two parts.
LEMMA TwoParts ==
    ASSUME NEW S, IsFiniteSet(S), NEW P
    PROVE  Cardinality(S) = Cardinality(S \cap P) + Cardinality(S \ P)
<1>1. IsFiniteSet(S \cap P) /\ IsFiniteSet(S \ P)
      /\ Cardinality(S \ P) = Cardinality(S) - Cardinality(S \cap P)
  BY FS_Difference, FS_Intersection
<1>2. Cardinality(S) \in Nat /\ Cardinality(S \cap P) \in Nat
  BY <1>1, FS_CardinalityType
<1> QED
  BY <1>1, <1>2

\* The places in q \o r are those in q and those in r.
LEMMA HitsConcat ==
    ASSUME NEW T, NEW q \in Seq(T), NEW r \in Seq(T), NEW v
    PROVE  Cardinality(hits(q \o r, v)) = Cardinality(hits(q, v)) + Cardinality(hits(r, v))
<1>1. PICK m \in Nat, n \in Nat : m = Len(q) /\ n = Len(r)
  OBVIOUS
<1>2. /\ DOMAIN q = 1..m /\ DOMAIN r = 1..n /\ DOMAIN (q \o r) = 1..(m + n)
      /\ \A x \in 1..m : (q \o r)[x] = q[x]
      /\ \A x \in 1..(m + n) : x > m => (q \o r)[x] = r[x - m]
      /\ q \o r \in Seq(T)
  BY <1>1
<1> DEFINE H == hits(q \o r, v)
           shift == [x \in hits(r, v) |-> x + m]
<1>3. IsFiniteSet(H) /\ IsFiniteSet(hits(r, v))
  BY <1>2, HitsFinite
<1>4. H \cap (1..m) = hits(q, v)
  <2>1. \A x \in 1..m : x \in 1..(m + n)
    OBVIOUS
  <2> QED
    BY <1>2, <2>1 DEF hits
<1>5. \A x \in hits(r, v) : x \in 1..n /\ r[x] = v
  BY <1>2 DEF hits
<1>6. \A x \in 1..n : x + m \in 1..(m + n) /\ x + m > m /\ (x + m) - m = x /\ x + m \notin 1..m
  OBVIOUS
<1>7. shift \in [hits(r, v) -> H \ (1..m)]
  <2>1. ASSUME NEW x \in hits(r, v) PROVE x + m \in H \ (1..m)
    BY <1>2, <1>5, <1>6 DEF hits
  <2> QED
    BY <2>1
<1>8. \A x, y \in hits(r, v) : shift[x] = shift[y] => x = y
  <2>1. \A x, y \in 1..n : x + m = y + m => x = y
    OBVIOUS
  <2> QED
    BY <1>5, <2>1
<1>9. ASSUME NEW y \in H \ (1..m) PROVE \E x \in hits(r, v) : shift[x] = y
  <2>1. y \in 1..(m + n) /\ y \notin 1..m /\ (q \o r)[y] = v
    BY <1>2 DEF hits
  <2>2. y > m /\ y - m \in 1..n /\ (y - m) + m = y
    BY <2>1
  <2>3. y - m \in hits(r, v)
    BY <1>2, <2>1, <2>2 DEF hits
  <2> QED
    BY <2>2, <2>3
<1> HIDE DEF H, shift
<1>10. Cardinality(H \ (1..m)) = Cardinality(hits(r, v))
  <2> DEFINE G == H \ (1..m)
  <2>1. shift \in [hits(r, v) -> G] /\ \A y \in G : \E x \in hits(r, v) : shift[x] = y
    BY <1>7, <1>9
  <2> HIDE DEF G
  <2>2. Cardinality(G) = Cardinality(hits(r, v))
    BY <1>3, <1>8, <2>1, SameSize, ZenonT(40)
  <2> QED
    BY <2>2 DEF G
<1>11. Cardinality(H) = Cardinality(H \cap (1..m)) + Cardinality(H \ (1..m))
  BY <1>3, TwoParts
<1> QED
  BY <1>4, <1>10, <1>11 DEF H

LEMMA HitsSingle ==
    ASSUME NEW c, NEW v
    PROVE  Cardinality(hits(<<c>>, v)) = IF c = v THEN 1 ELSE 0
<1>1. hits(<<c>>, v) = IF c = v THEN {1} ELSE {}
  BY DEF hits
<1> QED
  BY <1>1, FS_Singleton, FS_EmptySet

LEMMA HitsEmpty == ASSUME NEW v PROVE Cardinality(hits(<<>>, v)) = 0
<1>1. hits(<<>>, v) = {}
  BY DEF hits
<1> QED
  BY <1>1, FS_EmptySet

\* What is read off at P has a value as often as s has it at P.
LEMMA PlacesHits ==
    ASSUME NEW T, NEW s \in Seq(T), NEW P \in SUBSET (1..Len(s)), NEW v, NEW U, NEW q \in Seq(U),
           NEW r \in Seq(U), Len(q) = Len(s), NEW g, Places(g, r, P, q)
    PROVE  Cardinality(hits(r, v)) = Cardinality(hits(q, v) \cap P)
<1>1. /\ g \in [1..Len(r) -> P] /\ DOMAIN r = 1..Len(r) /\ DOMAIN q = 1..Len(q)
      /\ P \subseteq 1..Len(q) /\ P \subseteq Nat
      /\ \A x, y \in 1..Len(r) : x < y => g[x] < g[y]
      /\ \A p \in P : \E x \in 1..Len(r) : g[x] = p
      /\ \A x \in 1..Len(r) : r[x] = q[g[x]]
  <2>1. DOMAIN r = 1..Len(r) /\ DOMAIN q = 1..Len(q)
    OBVIOUS
  <2>2. P \subseteq 1..Len(q) /\ P \subseteq Nat
    OBVIOUS
  <2> QED
    BY <2>1, <2>2, Zenon DEF Places
<1> DEFINE f == [x \in hits(r, v) |-> g[x]]
<1>2. \A x \in hits(r, v) : x \in 1..Len(r) /\ r[x] = v
  BY <1>1 DEF hits
<1>3. f \in [hits(r, v) -> hits(q, v) \cap P]
  BY <1>1, <1>2 DEF hits
<1>4. ASSUME NEW x \in hits(r, v), NEW y \in hits(r, v), f[x] = f[y] PROVE x = y
  <2>1. x \in 1..Len(r) /\ y \in 1..Len(r) /\ g[x] = g[y] /\ g[x] \in Nat
    BY <1>1, <1>2, <1>4
  <2>2. \A a \in Nat : ~(a < a)
    OBVIOUS
  <2>3. ~(x < y) /\ ~(y < x)
    BY <1>1, <2>1, <2>2
  <2>4. \A a, b \in Nat : ~(a < b) /\ ~(b < a) => a = b
    OBVIOUS
  <2>5. x \in Nat /\ y \in Nat
    BY <2>1
  <2> QED
    BY <2>3, <2>4, <2>5, Zenon
<1>5. ASSUME NEW p \in hits(q, v) \cap P PROVE \E x \in hits(r, v) : f[x] = p
  <2>1. PICK x \in 1..Len(r) : g[x] = p
    BY <1>1
  <2>2. x \in hits(r, v)
    BY <1>1, <2>1 DEF hits
  <2> QED
    BY <2>1, <2>2
<1>6. IsFiniteSet(hits(r, v))
  BY HitsFinite
<1> HIDE DEF f
<1> QED
  BY <1>3, <1>4, <1>5, <1>6, SameSize
=============================================================================

----------------------------- MODULE RpcProofs ------------------------------
(***************************************************************************)
(* Proofs about Rpc.tla for every number of clients, calls and ticks, every*)
(* delay and every choice of the network's faults, when no two RpcClients  *)
(* run on the same node (OnePerNode).  Two clients on one node would share *)
(* a response port and count their request ids from 1 each, so that one    *)
(* could take the other's answer.                                          *)
(***************************************************************************)
EXTENDS Rpc, SimNetworkProofs, FiniteSetTheorems

OnePerNode == \A c, d \in Client : home[c] = home[d] => c = d

(***************************************************************************)
(* The inductive invariant.  It says that there is a log of the calls made *)
(* so far, log[i] for the i-th one, and a set `out' of those whose request *)
(* was not cut off by a partition, such that everything in the system      *)
(* agrees with them.                                                       *)
(***************************************************************************)
Entry == [client : Client, id : Nat \ {0}, method : Method]
started == Len(results) + IF stage = "idle" THEN 0 ELSE 1
ran(i) == \E e \in DOMAIN executed : executed[e] = i

\* The request of call i as it travels, and the answer to it.
RequestOf(log, i) ==
    [from |-> home[log[i].client],
     body |-> [id |-> log[i].id, method |-> log[i].method, call |-> i]]
AnswerTo(log, i) ==
    [from |-> Server,
     body |-> [id |-> log[i].id, ok |-> log[i].method = "registered", call |-> i]]

\* The calls whose answer may be under way to node n: an answer that says ok
\* follows the execution.
answered(log, out, n) ==
    {i \in out : home[log[i].client] = n /\ (log[i].method = "registered" => ran(i))}

Post(log, out) ==
    [a \in Addr |-> IF a = plain(Server) THEN {RequestOf(log, i) : i \in out}
                    ELSE IF a.port = "response"
                         THEN {AnswerTo(log, i) : i \in answered(log, out, a.node)}
                         ELSE {}]
PostInv(log, out) == FlightType(Post(log, out)) /\ BoxType(Post(log, out))

CountersInv ==
    /\ nextRequestId \in [Client -> Nat \ {0}]
    /\ \A c \in Client : nextRequestId[c] <= started + 1
    /\ stage \in {"idle", "tick", "pump", "receive"}
    /\ ticksLeft \in 0..MaxTicks
    /\ stage # "idle" => ticksLeft > 0
    /\ started <= MaxCalls

\* The ids of one client's calls differ, and the call in progress is the last.
LogInv(log, out) ==
    /\ Len(log) = started
    /\ out \subseteq DOMAIN log
    /\ \A i \in DOMAIN log : log[i].id < nextRequestId[log[i].client]
    /\ \A i, j \in DOMAIN log : log[i].client = log[j].client /\ log[i].id = log[j].id => i = j
    /\ stage # "idle" => current = [client |-> log[Len(log)].client, id |-> log[Len(log)].id,
                                    call |-> Len(log)]

\* Only calls of the registered method run, and a call returns what its answer says.
HistoryInv(log, out) ==
    /\ executed \in Seq(out)
    /\ \A e \in DOMAIN executed : log[executed[e]].method = "registered"
    /\ results \in Seq([call : Nat, outcome : {"Success", "Error", "TimedOut"}, answered : Nat])
    /\ \A i \in DOMAIN results :
          /\ results[i].call = i
          /\ results[i].outcome # "TimedOut" => results[i].answered = i
          /\ results[i].outcome = "Success" => ran(i)
          /\ results[i].outcome = "Error" => log[i].method = "unknown"

\* A call that starts behind a partition sends nothing.
CutInv(out) ==
    stage # "idle" /\ isPartitioned(plain(home[current.client]), plain(Server))
        => current.call \notin out

\* The copies of a request under way, in the server's inbox and executed.
MaxCopies == IF MayDuplicate THEN 2 ELSE 1
calls(s) == [x \in DOMAIN s |-> s[x].body.call]
copiesOf(i) == Cardinality(hits(calls(inFlight[plain(Server)]), i))
               + Cardinality(hits(calls(inboxes[plain(Server)]), i))
               + Cardinality(hits(executed, i))
CopiesInv == \A i \in 1..MaxCalls : copiesOf(i) <= MaxCopies

Agrees(log, out) ==
    PostInv(log, out) /\ LogInv(log, out) /\ HistoryInv(log, out) /\ CutInv(out)

RpcInv == /\ CountersInv
          /\ CopiesInv
          /\ \E log \in Seq(Entry) : \E out \in SUBSET Nat : Agrees(log, out)
-----------------------------------------------------------------------------
(***************************************************************************)
(* The calls of the messages in a sequence.                                *)
(***************************************************************************)
LEMMA CallsAre ==
    ASSUME NEW T, NEW s \in Seq(T)
    PROVE  \A x \in 1..Len(s) : calls(s)[x] = s[x].body.call
<1>1. DOMAIN s = 1..Len(s)
  OBVIOUS
<1> QED
  BY <1>1 DEF calls

LEMMA CallsIn ==
    ASSUME NEW T, NEW N, NEW s \in Seq(T), \A e \in T : e.body.call \in N
    PROVE  /\ calls(s) \in Seq(N) /\ Len(calls(s)) = Len(s) /\ DOMAIN s = 1..Len(s)
           /\ \A x \in 1..Len(s) : calls(s)[x] = s[x].body.call
<1>1. DOMAIN s = 1..Len(s) /\ Len(s) \in Nat /\ \A x \in 1..Len(s) : s[x] \in T
  OBVIOUS
<1>2. calls(s) \in [1..Len(s) -> N]
  BY <1>1 DEF calls
<1>3. calls(s) \in Seq(N) /\ Len(calls(s)) = Len(s)
  BY <1>1, <1>2
<1> QED
  BY <1>1, <1>3 DEF calls

LEMMA ConcatIs ==
    ASSUME NEW S, NEW u \in Seq(S), NEW v \in Seq(S), NEW m \in Nat, NEW n \in Nat,
           m = Len(u), n = Len(v)
    PROVE  /\ u \o v \in Seq(S) /\ Len(u \o v) = m + n
           /\ \A x \in 1..m : (u \o v)[x] = u[x]
           /\ \A x \in 1..(m + n) : x > m => (u \o v)[x] = v[x - m]
  OBVIOUS

LEMMA CallsConcat ==
    ASSUME NEW T, NEW s \in Seq(T), NEW t \in Seq(T)
    PROVE  calls(s \o t) = calls(s) \o calls(t)
<1>n. PICK N : \A e \in T : e.body.call \in N
  <2>1. \A e \in T : e.body.call \in {d.body.call : d \in T}
    OBVIOUS
  <2> QED
    BY <2>1
<1>0. PICK m \in Nat, n \in Nat : m = Len(s) /\ n = Len(t)
  OBVIOUS
<1>1. /\ s \o t \in Seq(T) /\ Len(s \o t) = m + n
      /\ \A x \in 1..m : (s \o t)[x] = s[x]
      /\ \A x \in 1..(m + n) : x > m => (s \o t)[x] = t[x - m]
  BY <1>0, ConcatIs
<1>2. PICK u, v, w : u = calls(s) /\ v = calls(t) /\ w = calls(s \o t)
  OBVIOUS
<1>3. /\ u \in Seq(N) /\ Len(u) = m /\ v \in Seq(N) /\ Len(v) = n
      /\ \A x \in 1..m : u[x] = s[x].body.call
      /\ \A x \in 1..n : v[x] = t[x].body.call
  BY <1>n, <1>0, <1>2, CallsIn
<1>4. /\ w \in Seq(N) /\ Len(w) = m + n
      /\ \A x \in 1..(m + n) : w[x] = (s \o t)[x].body.call
  <2>1. PICK z \in Seq(T) : z = s \o t /\ Len(z) = m + n /\ w = calls(z)
    BY <1>1, <1>2
  <2>2. calls(z) \in Seq(N) /\ Len(calls(z)) = Len(z)
    BY <1>n, CallsIn
  <2>3. \A x \in 1..Len(z) : calls(z)[x] = z[x].body.call
    BY CallsAre
  <2> QED
    BY <2>1, <2>2, <2>3
<1>5. /\ u \o v \in Seq(N) /\ Len(u \o v) = m + n
      /\ \A x \in 1..m : (u \o v)[x] = u[x]
      /\ \A x \in 1..(m + n) : x > m => (u \o v)[x] = v[x - m]
  <2>1. u \in Seq(N) /\ v \in Seq(N) /\ m = Len(u) /\ n = Len(v)
    BY <1>3
  <2> QED
    BY <2>1, ConcatIs
<1>7. PICK y : y = u \o v
  OBVIOUS
<1>8. ASSUME NEW x \in 1..(m + n) PROVE w[x] = y[x]
  <2>1. CASE x \in 1..m
    <3>1. w[x] = s[x].body.call
      BY <1>1, <1>4, <2>1
    <3>2. y[x] = u[x]
      BY <1>5, <1>7, <2>1
    <3> QED
      BY <1>3, <2>1, <3>1, <3>2
  <2>2. CASE x > m
    <3>1. x - m \in 1..n
      BY <2>2
    <3>2. w[x] = t[x - m].body.call
      BY <1>1, <1>4, <2>2
    <3>3. y[x] = v[x - m]
      BY <1>5, <1>7, <2>2
    <3> QED
      BY <1>3, <3>1, <3>2, <3>3
  <2> QED
    BY <2>1, <2>2
<1>9. ASSUME NEW l \in Nat, NEW a \in Seq(N), NEW b \in Seq(N), Len(a) = l, Len(b) = l,
             \A x \in 1..l : a[x] = b[x]
      PROVE  a = b
  BY <1>9
<1>10. m + n \in Nat /\ y \in Seq(N) /\ Len(y) = m + n
  BY <1>5, <1>7
<1>11. w = y
  BY <1>4, <1>8, <1>9, <1>10
<1> QED
  BY <1>2, <1>7, <1>11

\* tick() moves a message from the network to its inbox or leaves it there.
LEMMA TickCounts ==
    ASSUME NEW T, NEW N, NEW s \in Seq(T), \A e \in T : e.body.call \in N, NEW i,
           NEW P \in SUBSET (1..Len(s))
    PROVE  Cardinality(hits(calls(kept(s, P)), i))
           + Cardinality(hits(calls(kept(s, DOMAIN s \ P)), i)) = Cardinality(hits(calls(s), i))
<1> DEFINE Q == DOMAIN s \ P
           H == hits(calls(s), i)
<1>1. calls(s) \in Seq(N) /\ Len(calls(s)) = Len(s) /\ DOMAIN s = 1..Len(s)
  BY CallsIn
<1>2. ASSUME NEW D \in SUBSET (1..Len(s))
      PROVE  Cardinality(hits(calls(kept(s, D)), i)) = Cardinality(H \cap D)
  <2>1. PICK r, g : r = kept(s, D) /\ r \in Seq(T) /\ Places(g, r, D, s)
    BY KeptPlaces
  <2>2. /\ calls(r) \in Seq(N) /\ Len(calls(r)) = Len(r)
        /\ \A x \in 1..Len(r) : calls(r)[x] = r[x].body.call
    BY <2>1, CallsIn
  <2>3. Places(g, calls(r), D, calls(s))
    <3>1. \A x \in 1..Len(r) : g[x] \in D /\ r[x] = s[g[x]]
      BY <2>1 DEF Places
    <3>2. \A x \in 1..Len(s) : calls(s)[x] = s[x].body.call
      BY CallsAre
    <3>3. \A x \in 1..Len(r) : calls(r)[x] = calls(s)[g[x]]
      BY <2>2, <3>1, <3>2
    <3> QED
      BY <2>1, <2>2, <3>3 DEF Places
  <2>4. Cardinality(hits(calls(r), i)) = Cardinality(hits(calls(s), i) \cap D)
    BY <1>1, <2>2, <2>3, PlacesHits
  <2> QED
    BY <2>1, <2>4
<1>3. Q \in SUBSET (1..Len(s))
  BY <1>1
<1>4. IsFiniteSet(H) /\ H \subseteq 1..Len(s)
  BY <1>1, HitsFinite
<1>5. H \cap Q = H \ P
  BY <1>1, <1>4
<1>6. Cardinality(H) = Cardinality(H \cap P) + Cardinality(H \ P)
  BY <1>4, TwoParts
<1> QED
  BY <1>2, <1>3, <1>5, <1>6
-----------------------------------------------------------------------------
(***************************************************************************)
(* What may be under way, and the counts of it.                            *)
(***************************************************************************)
LEMMA Addresses ==
    /\ Server \in Node /\ plain(Server) \in Addr
    /\ \A n \in Node : responsePort(n) \in Addr /\ responsePort(n) # plain(Server)
    /\ \A c \in Client : home[c] \in Node
  BY ClientAssumption DEF Addr, plain, responsePort

LEMMA PostIs ==
    ASSUME NEW log, NEW out
    PROVE  /\ Post(log, out)[plain(Server)] = {RequestOf(log, i) : i \in out}
           /\ \A n \in Node : Post(log, out)[responsePort(n)]
                              = {AnswerTo(log, i) : i \in answered(log, out, n)}
<1>1. \A n \in Node : responsePort(n).port = "response" /\ responsePort(n).node = n
  BY DEF responsePort
<1> QED
  BY <1>1, Addresses DEF Post

\* More calls made, more of them not cut off, more of them executed: more messages.
LEMMA PostGrows ==
    ASSUME NEW log, NEW log2, NEW out, NEW out2, out \subseteq out2,
           \A i \in out : log2[i] = log[i],
           \A i \in out : ran(i) => ran(i)'
    PROVE  \A a \in Addr : Post(log, out)[a] \subseteq Post(log2, out2)'[a]
<1>1. \A i \in out : RequestOf(log2, i) = RequestOf(log, i) /\ AnswerTo(log2, i) = AnswerTo(log, i)
  BY DEF RequestOf, AnswerTo
<1>2. {RequestOf(log, i) : i \in out} \subseteq {RequestOf(log2, i) : i \in out2}
  BY <1>1
<1>3. ASSUME NEW n
      PROVE  answered(log, out, n) \subseteq answered(log2, out2, n)' /\ answered(log, out, n) \subseteq out
  BY DEF answered
<1>4. ASSUME NEW n
      PROVE  {AnswerTo(log, i) : i \in answered(log, out, n)}
             \subseteq {AnswerTo(log2, i) : i \in answered(log2, out2, n)'}
  BY <1>1, <1>3
<1>5. ASSUME NEW a \in Addr PROVE Post(log, out)[a] \subseteq Post(log2, out2)'[a]
  <2>1. Post(log2, out2)'[a] = IF a = plain(Server) THEN {RequestOf(log2, i) : i \in out2}
                    ELSE IF a.port = "response"
                         THEN {AnswerTo(log2, i) : i \in answered(log2, out2, a.node)'}
                         ELSE {}
    BY DEF Post, RequestOf, AnswerTo
  <2>2. Post(log, out)[a] = IF a = plain(Server) THEN {RequestOf(log, i) : i \in out}
                    ELSE IF a.port = "response"
                         THEN {AnswerTo(log, i) : i \in answered(log, out, a.node)}
                         ELSE {}
    BY DEF Post
  <2> QED
    BY <1>2, <1>4, <2>1, <2>2
<1> QED
  BY <1>5

\* Every request under way to the server, or in its inbox, is of a call of out.
Letters(log, out) == {RequestOf(log, i) : i \in out}
LEMMA LetterCalls ==
    ASSUME NEW log, NEW out
    PROVE  /\ \A e \in Letters(log, out) : e.body.call \in out
           /\ \A e \in Flying(Letters(log, out)) : e.body.call \in out
<1>1. \A e \in Letters(log, out) : e.body.call \in out
  BY DEF Letters, RequestOf
<1>2. \A e \in Flying(Letters(log, out)) : letter(e) \in Letters(log, out) /\ letter(e).body = e.body
  BY DEF Flying, letter
<1> QED
  BY <1>1, <1>2

LEMMA ServerMail ==
    ASSUME NEW log, NEW out, PostInv(log, out)
    PROVE  /\ inFlight[plain(Server)] \in Seq(Flying(Letters(log, out)))
           /\ inboxes[plain(Server)] \in Seq(Letters(log, out))
  BY Addresses, PostIs DEF PostInv, FlightType, BoxType, Letters

flights(i) == Cardinality(hits(calls(inFlight[plain(Server)]), i))
waits(i) == Cardinality(hits(calls(inboxes[plain(Server)]), i))
runsOf(i) == Cardinality(hits(executed, i))

\* Each count is a number, and 0 for a call that is not in out.
LEMMA CountsAre ==
    ASSUME NEW log, NEW out, PostInv(log, out), executed \in Seq(out), NEW i
    PROVE  /\ flights(i) \in Nat /\ waits(i) \in Nat /\ runsOf(i) \in Nat
           /\ i \notin out => flights(i) = 0 /\ waits(i) = 0 /\ runsOf(i) = 0
<1>1. calls(inFlight[plain(Server)]) \in Seq(out) /\ calls(inboxes[plain(Server)]) \in Seq(out)
  BY ServerMail, LetterCalls, CallsIn
<1>2. ASSUME NEW q \in Seq(out)
      PROVE  Cardinality(hits(q, i)) \in Nat /\ (i \notin out => Cardinality(hits(q, i)) = 0)
  <2>1. Cardinality(hits(q, i)) \in Nat
    BY HitsFinite
  <2>2. i \notin out => hits(q, i) = {}
    BY DEF hits
  <2> QED
    BY <2>1, <2>2, FS_EmptySet
<1> QED
  BY <1>1, <1>2 DEF flights, waits, runsOf

LEMMA CopiesAre == \A i : copiesOf(i) = flights(i) + waits(i) + runsOf(i)
  BY DEF copiesOf, flights, waits, runsOf

\* A message is put under way at most MaxCopies times.
LEMMA FateCounts ==
    ASSUME NEW from, NEW to, NEW body, NEW s \in fates(from, to, body), NEW i
    PROVE  /\ Cardinality(hits(calls(s), i)) \in 0..MaxCopies
           /\ i # body.call => Cardinality(hits(calls(s), i)) = 0
<1>1. \/ s = <<>>
      \/ \E c \in copies(from, body) : s = <<c>>
      \/ MayDuplicate /\ \E c, d \in copies(from, body) : s = <<c, d>>
  BY DEF fates
<1>2. \A c \in copies(from, body) : c.body = body
  BY DEF copies
<1> DEFINE k == body.call
<1>3. \/ calls(s) = <<>>
      \/ calls(s) = <<k>>
      \/ MayDuplicate /\ calls(s) = <<k>> \o <<k>>
  <2>1. CASE s = <<>>
    BY <2>1 DEF calls
  <2>2. ASSUME NEW c \in copies(from, body), s = <<c>> PROVE calls(s) = <<k>>
    BY <1>2, <2>2 DEF calls
  <2>3. ASSUME NEW c \in copies(from, body), NEW d \in copies(from, body), s = <<c, d>>
        PROVE  calls(s) = <<k>> \o <<k>>
    BY <1>2, <2>3 DEF calls
  <2> QED
    BY <1>1, <2>1, <2>2, <2>3
<1> HIDE DEF k
<1>4. Cardinality(hits(<<k>>, i)) = IF k = i THEN 1 ELSE 0
  BY HitsSingle
<1>5. Cardinality(hits(<<k>> \o <<k>>, i)) = Cardinality(hits(<<k>>, i)) + Cardinality(hits(<<k>>, i))
  <2>1. <<k>> \in Seq({k})
    OBVIOUS
  <2> QED
    BY <2>1, HitsConcat
<1>6. Cardinality(hits(<<>>, i)) = 0
  BY HitsEmpty
<1>7. PICK h : h = Cardinality(hits(calls(s), i))
  OBVIOUS
<1>8. \/ h = 0
      \/ h = IF k = i THEN 1 ELSE 0
      \/ MayDuplicate /\ h = (IF k = i THEN 1 ELSE 0) + (IF k = i THEN 1 ELSE 0)
  BY <1>3, <1>4, <1>5, <1>6, <1>7
<1>9. h \in 0..MaxCopies /\ (i # k => h = 0)
  BY <1>8 DEF MaxCopies
<1> QED
  BY <1>7, <1>9 DEF k
-----------------------------------------------------------------------------
(***************************************************************************)
(* Every step keeps the invariant.                                         *)
(***************************************************************************)
LEMMA InitRpcInv == ASSUME Init PROVE RpcInv
<1> DEFINE s0 == plain(Server)
<1>1. /\ inFlight[s0] = <<>> /\ inboxes[s0] = <<>> /\ results = <<>> /\ executed = <<>> /\ stage = "idle"
      /\ ticksLeft = 0 /\ nextRequestId = [c \in Client |-> 1] /\ Len(results) = 0
  BY Addresses DEF Init, NetInit
<1>2. started = 0
  BY <1>1 DEF started
<1>3. CountersInv
  BY <1>1, <1>2, BudgetAssumption DEF CountersInv
<1>4. CopiesInv
  <2>1. calls(<<>>) = <<>>
    BY DEF calls
  <2>2. \A i : copiesOf(i) = 0
    BY <1>1, <2>1, HitsEmpty DEF copiesOf
  <2> QED
    BY <2>2 DEF CopiesInv, MaxCopies
<1>5. Agrees(<<>>, {})
  <2>1. PostInv(<<>>, {})
    <3>1. NetInit
      BY DEF Init
    <3> QED
      BY <3>1, NetInitCarries DEF PostInv
  <2>2. LogInv(<<>>, {})
    BY <1>1, <1>2 DEF LogInv
  <2>3. HistoryInv(<<>>, {})
    BY <1>1 DEF HistoryInv
  <2>4. CutInv({})
    BY <1>1 DEF CutInv
  <2> QED
    BY <2>1, <2>2, <2>3, <2>4 DEF Agrees
<1>6. <<>> \in Seq(Entry) /\ {} \in SUBSET Nat
  OBVIOUS
<1> QED
  BY <1>3, <1>4, <1>5, <1>6 DEF RpcInv

\* Steps that move no message: only the stage, or the partitions between calls.
LEMMA QuietStep ==
    ASSUME RpcInv, UNCHANGED <<inFlight, inboxes, executed>>, UNCHANGED clientVars,
           stage' \in {"idle", "tick", "pump", "receive"}, stage' = "idle" <=> stage = "idle",
           stage' # "idle" => partitions' = partitions
    PROVE  RpcInv'
<1>1. PICK log \in Seq(Entry), out \in SUBSET Nat : Agrees(log, out)
  BY DEF RpcInv
<1>2. UNCHANGED <<inFlight, inboxes, executed, nextRequestId, current, ticksLeft, results>>
  BY DEF clientVars
<1>3. UNCHANGED started
  BY <1>2 DEF started
<1>4. CountersInv'
  BY <1>2, <1>3 DEF RpcInv, CountersInv
<1>5. CopiesInv'
  BY <1>2 DEF RpcInv, CopiesInv, copiesOf
<1>6. PostInv(log, out)'
  <2>1. PICK W : W = Post(log, out)
    OBVIOUS
  <2>2. Post(log, out)' = W
    BY <1>2, <2>1 DEF Post, answered, ran
  <2>3. FlightType(W) /\ BoxType(W)
    BY <1>1, <2>1 DEF Agrees, PostInv
  <2>4. FlightType(W)' /\ BoxType(W)'
    BY <1>2, <2>3 DEF FlightType, BoxType
  <2> QED
    BY <2>2, <2>4 DEF PostInv, FlightType, BoxType
<1>7. LogInv(log, out)'
  BY <1>1, <1>2, <1>3 DEF Agrees, LogInv
<1>8. HistoryInv(log, out)'
  BY <1>1, <1>2 DEF Agrees, HistoryInv, ran
<1>9. CutInv(out)'
  BY <1>1, <1>2 DEF Agrees, CutInv, isPartitioned
<1> QED
  BY <1>4, <1>5, <1>6, <1>7, <1>8, <1>9 DEF RpcInv, Agrees

LEMMA QuietSteps ==
    ASSUME RpcInv,
           pumpDone \/ (\E c \in Client : cut(c)) \/ (\E c \in Client : heal(c)) \/ UNCHANGED vars
    PROVE  RpcInv'
<1>1. CASE pumpDone
  BY <1>1, QuietStep DEF pumpDone, netVars
<1>2. CASE UNCHANGED vars
  <2>1. stage \in {"idle", "tick", "pump", "receive"}
    BY DEF RpcInv, CountersInv
  <2> QED
    BY <1>2, <2>1, QuietStep DEF vars, clientVars
<1>3. ASSUME NEW c \in Client, cut(c) \/ heal(c) PROVE RpcInv'
  <2>1. UNCHANGED <<inFlight, inboxes, executed>> /\ UNCHANGED clientVars /\ stage = "idle" /\ stage' = "idle"
    BY <1>3 DEF cut, heal, partition, healPartition, clientVars
  <2> QED
    BY <2>1, QuietStep
<1> QED
  BY <1>1, <1>2, <1>3
\* tick() moves messages and makes none.
LEMMA TickStep == ASSUME RpcInv, tick PROVE RpcInv'
<1>1. PICK log \in Seq(Entry), out \in SUBSET Nat : Agrees(log, out)
  BY DEF RpcInv
<1>2. /\ UNCHANGED <<executed, nextRequestId, current, ticksLeft, results, partitions>>
      /\ stage = "tick" /\ stage' = "pump" /\ netTick
  BY DEF tick, netTick
<1>3. UNCHANGED started
  BY <1>2 DEF started
<1>4. CountersInv'
  BY <1>2, <1>3 DEF RpcInv, CountersInv
<1>5. PostInv(log, out)'
  <2>1. PICK W : W = Post(log, out)
    OBVIOUS
  <2>2. Post(log, out)' = W
    BY <1>2, <2>1 DEF Post, answered, ran
  <2>3. FlightType(W)' /\ BoxType(W)'
    BY <1>1, <1>2, <2>1, TickCarries DEF Agrees, PostInv
  <2> QED
    BY <2>2, <2>3 DEF PostInv, FlightType, BoxType
<1>6. LogInv(log, out)' /\ HistoryInv(log, out)' /\ CutInv(out)'
  BY <1>1, <1>2, <1>3 DEF Agrees, LogInv, HistoryInv, ran, CutInv, isPartitioned
<1>7. CopiesInv'
  <2> DEFINE s == inFlight[plain(Server)]
             P == duePositions(s)
             due == kept(s, P)
             rest == kept(s, DOMAIN s \ P)
             new == [i \in DOMAIN due |-> letter(due[i])]
             F == Flying(Letters(log, out))
  <2>1. PostInv(log, out) /\ executed \in Seq(out) /\ s \in Seq(F)
        /\ inboxes[plain(Server)] \in Seq(Letters(log, out))
    BY <1>1, ServerMail DEF Agrees, HistoryInv
  <2>2. /\ inboxes'[plain(Server)] = inboxes[plain(Server)] \o new
        /\ inFlight'[plain(Server)] = [i \in DOMAIN rest |-> [rest[i] EXCEPT !.wait = @ - 1]]
    BY <1>2, Addresses DEF netTick
  <2>3. DOMAIN s = 1..Len(s) /\ P \in SUBSET (1..Len(s)) /\ DOMAIN s \ P \in SUBSET (1..Len(s))
    <3>1. DOMAIN s = 1..Len(s)
      BY <2>1
    <3> QED
      BY <3>1 DEF duePositions
  <2>4. due \in Seq(F) /\ rest \in Seq(F)
    BY <2>1, <2>3, KeptIn
  <2>5. calls(inFlight'[plain(Server)]) = calls(rest)
    <3>1. DOMAIN rest = 1..Len(rest) /\ \A x \in 1..Len(rest) : rest[x] \in F
      <4> HIDE DEF rest, F
      <4> QED
        BY <2>4
    <3>2. \A e \in F : [e EXCEPT !.wait = @ - 1].body.call = e.body.call
      BY DEF Flying
    <3> HIDE DEF rest, F
    <3> QED
      BY <2>2, <3>1, <3>2 DEF calls
  <2>6. new \in Seq(Letters(log, out))
    <3>1. DOMAIN due = 1..Len(due) /\ Len(due) \in Nat /\ \A i \in DOMAIN due : due[i] \in F
      BY <2>4
    <3>2. \A m \in F : letter(m) \in Letters(log, out)
      BY OneTickLess
    <3> HIDE DEF due, F
    <3> QED
      BY <3>1, <3>2
  <2>7. calls(new) = calls(due)
    <3> HIDE DEF due
    <3> QED
      BY DEF calls, letter
  <2>8. calls(inboxes'[plain(Server)]) = calls(inboxes[plain(Server)]) \o calls(new)
    <3> HIDE DEF new
    <3>2. calls(inboxes[plain(Server)] \o new) = calls(inboxes[plain(Server)]) \o calls(new)
      BY <2>1, <2>6, CallsConcat
    <3> QED
      BY <2>2, <3>2
  <2>9. calls(inboxes[plain(Server)]) \in Seq(out) /\ calls(due) \in Seq(out) /\ calls(rest) \in Seq(out)
    <3> HIDE DEF due, rest
    <3> QED
      BY <2>1, <2>4, LetterCalls, CallsIn
  <2> HIDE DEF new, due, rest, s, P
  <2>10. ASSUME NEW i \in 1..MaxCalls PROVE copiesOf(i)' <= MaxCopies
    <3>1. Cardinality(hits(calls(due), i)) + Cardinality(hits(calls(rest), i))
          = Cardinality(hits(calls(s), i))
      <4>1. s \in Seq(F) /\ (\A e \in F : e.body.call \in out) /\ P \in SUBSET (1..Len(s))
        BY <2>1, <2>3, LetterCalls
      <4> HIDE DEF F
      <4> QED
        BY <4>1, TickCounts DEF due, rest
    <3>2. waits(i)' = waits(i) + Cardinality(hits(calls(due), i))
      BY <2>7, <2>8, <2>9, HitsConcat DEF waits
    <3>3. flights(i)' = Cardinality(hits(calls(rest), i)) /\ flights(i) = Cardinality(hits(calls(s), i))
      BY <2>5 DEF flights, s
    <3>4. runsOf(i)' = runsOf(i)
      BY <1>2 DEF runsOf
    <3>5. /\ flights(i) \in Nat /\ waits(i) \in Nat /\ runsOf(i) \in Nat
          /\ flights(i)' \in Nat /\ Cardinality(hits(calls(due), i)) \in Nat
      <4>1. flights(i) \in Nat /\ waits(i) \in Nat /\ runsOf(i) \in Nat
        BY <2>1, CountsAre
      <4>3. flights(i)' \in Nat
        BY <2>9, <3>3, HitsFinite
      <4>4. Cardinality(hits(calls(due), i)) \in Nat
        BY <2>9, HitsFinite
      <4> QED
        BY <4>1, <4>3, <4>4
    <3>6. copiesOf(i)' = copiesOf(i)
      <4>1. copiesOf(i) = flights(i) + waits(i) + runsOf(i)
        BY CopiesAre
      <4>2. copiesOf(i)' = flights(i)' + waits(i)' + runsOf(i)'
        BY DEF copiesOf, flights, waits, runsOf
      <4> QED
        BY <3>1, <3>2, <3>3, <3>4, <3>5, <4>1, <4>2
    <3> QED
      BY <3>6 DEF RpcInv, CopiesInv
  <2> QED
    BY <2>10 DEF CopiesInv, MaxCopies
<1> QED
  BY <1>4, <1>5, <1>6, <1>7 DEF RpcInv, Agrees
\* The server takes a request: it runs it if it knows the method, and answers it.
LEMMA PumpStep == ASSUME RpcInv, pumpServer PROVE RpcInv'
<1>1. PICK log \in Seq(Entry), out \in SUBSET Nat : Agrees(log, out)
  BY DEF RpcInv
<1>2. PICK W : W = Post(log, out)
  OBVIOUS
<1>3. FlightType(W) /\ BoxType(W) /\ W[plain(Server)] = Letters(log, out)
  BY <1>1, <1>2, PostIs DEF Agrees, PostInv, Letters
<1>4. /\ stage = "pump" /\ inboxes[plain(Server)] # <<>>
      /\ inboxes' = [inboxes EXCEPT ![plain(Server)] = Tail(@)]
      /\ UNCHANGED <<partitions, stage, nextRequestId, current, ticksLeft, results>>
  BY DEF pumpServer, drained, clientVars
<1>5. Head(inboxes[plain(Server)]) \in Letters(log, out) /\ BoxType(W)'
  BY <1>3, <1>4, Addresses, TakeCarries
<1>6. PICK k \in out : Head(inboxes[plain(Server)]) = RequestOf(log, k)
  BY <1>5 DEF Letters
<1>7. Len(log) \in Nat /\ DOMAIN log = 1..Len(log) /\ out \subseteq DOMAIN log /\ log[k] \in Entry
      /\ log[k].client \in Client /\ home[log[k].client] \in Node
  <2>1. out \subseteq DOMAIN log /\ Len(log) \in Nat /\ DOMAIN log = 1..Len(log)
    BY <1>1 DEF Agrees, LogInv
  <2>2. log[k] \in Entry
    BY <2>1
  <2> QED
    BY <2>1, <2>2, Addresses DEF Entry
<1> DEFINE reg == log[k].method = "registered"
           port == responsePort(home[log[k].client])
<1>8. /\ executed' = IF reg THEN Append(executed, k) ELSE executed
      /\ send(Server, port, AnswerTo(log, k).body)
  BY <1>6 DEF pumpServer, RequestOf, AnswerTo, runs
<1>9. executed \in Seq(out) /\ executed' \in Seq(out)
  <2>1. executed \in Seq(out)
    BY <1>1 DEF Agrees, HistoryInv
  <2> QED
    BY <1>8, <2>1
<1>10. (\A i : ran(i) => ran(i)') /\ (reg => ran(k)')
  <2>1. CASE reg
    <3>1. executed' = Append(executed, k)
      BY <1>8, <2>1
    <3>2. PICK n \in Nat : n = Len(executed) /\ DOMAIN executed = 1..n
      BY <1>9
    <3>3. DOMAIN executed' = 1..(n + 1) /\ executed'[n + 1] = k /\ \A e \in 1..n : executed'[e] = executed[e]
      BY <1>9, <3>1, <3>2
    <3>4. n + 1 \in 1..(n + 1) /\ \A e \in 1..n : e \in 1..(n + 1)
      OBVIOUS
    <3> QED
      BY <3>2, <3>3, <3>4 DEF ran
  <2>2. CASE ~reg
    <3>1. executed' = executed
      BY <1>8, <2>2
    <3> QED
      BY <2>2, <3>1 DEF ran
  <2> QED
    BY <2>1, <2>2
<1>11. PICK V : V = Post(log, out)'
  OBVIOUS
<1>12. \A a \in Addr : W[a] \subseteq V[a]
  BY <1>2, <1>10, <1>11, PostGrows
<1>13. [from |-> Server, body |-> AnswerTo(log, k).body] \in V[port]
  <2>1. k \in answered(log, out, home[log[k].client])'
    BY <1>10 DEF answered
  <2>2. V[port] = {AnswerTo(log, i) : i \in answered(log, out, home[log[k].client])'}
    <3>1. port \in Addr /\ port # plain(Server) /\ port.port = "response"
          /\ port.node = home[log[k].client]
      BY <1>7, Addresses DEF responsePort
    <3>2. V = [a \in Addr |-> IF a = plain(Server) THEN {RequestOf(log, i) : i \in out}
                    ELSE IF a.port = "response"
                         THEN {AnswerTo(log, i) : i \in answered(log, out, a.node)'}
                         ELSE {}]
      BY <1>11 DEF Post, AnswerTo, RequestOf
    <3> HIDE DEF port
    <3> QED
      BY <3>1, <3>2
  <2>3. AnswerTo(log, k) = [from |-> Server, body |-> AnswerTo(log, k).body]
    BY DEF AnswerTo
  <2> QED
    BY <2>1, <2>2, <2>3
<1>14. PostInv(log, out)'
  <2>1. FlightType(V)
    BY <1>3, <1>12, CarriesMore
  <2>2. port \in Addr
    BY <1>7, Addresses
  <2>3. FlightType(V)'
    BY <1>8, <1>13, <2>1, <2>2, SendCarries
  <2>4. BoxType(V)'
    <3>1. inboxes' = [a \in Addr |-> inboxes'[a]] /\ \A a \in Addr : inboxes'[a] \in Seq(W[a])
      BY <1>5 DEF BoxType
    <3>2. \A a \in Addr : inboxes'[a] \in Seq(V[a])
      BY <1>12, <3>1, SeqMonotone
    <3> QED
      BY <3>1, <3>2 DEF BoxType
  <2> QED
    BY <1>11, <2>3, <2>4 DEF PostInv, FlightType, BoxType
<1>15. UNCHANGED started
  BY <1>4 DEF started
<1>16. CountersInv'
  BY <1>4, <1>15 DEF RpcInv, CountersInv
<1>17. LogInv(log, out)' /\ CutInv(out)'
  BY <1>1, <1>4, <1>15 DEF Agrees, LogInv, CutInv, isPartitioned
<1>18. HistoryInv(log, out)'
  <2>1. \A e \in DOMAIN executed' : log[executed'[e]].method = "registered"
    <3>1. \A e \in DOMAIN executed : log[executed[e]].method = "registered"
      BY <1>1 DEF Agrees, HistoryInv
    <3>2. CASE reg
      <4>1. \A e \in DOMAIN Append(executed, k) :
               \/ e \in DOMAIN executed /\ Append(executed, k)[e] = executed[e]
               \/ Append(executed, k)[e] = k
        <5>1. PICK n \in Nat : n = Len(executed) /\ DOMAIN executed = 1..n
          BY <1>9
        <5>2. /\ DOMAIN Append(executed, k) = 1..(n + 1) /\ Append(executed, k)[n + 1] = k
              /\ \A e \in 1..n : Append(executed, k)[e] = executed[e]
          BY <1>9, <5>1
        <5>3. \A e \in 1..(n + 1) : e \in 1..n \/ e = n + 1
          OBVIOUS
        <5> QED
          BY <5>1, <5>2, <5>3, Zenon
      <4> QED
        BY <1>8, <3>1, <3>2, <4>1
    <3>3. CASE ~reg
      BY <1>8, <3>1, <3>3
    <3> QED
      BY <3>2, <3>3
  <2> QED
    BY <1>1, <1>4, <1>9, <1>10, <2>1 DEF Agrees, HistoryInv
<1>19. CopiesInv'
  <2>1. PICK q \in Seq(Letters(log, out)) : q = inboxes[plain(Server)]
    BY <1>1, ServerMail DEF Agrees
  <2>2. q = <<Head(q)>> \o Tail(q) /\ Tail(q) \in Seq(Letters(log, out))
        /\ <<Head(q)>> \in Seq(Letters(log, out))
    BY <1>4, <2>1
  <2>3. PICK r \in Seq(Letters(log, out)), h \in Seq(Letters(log, out)) :
              r = Tail(q) /\ h = <<Head(q)>> /\ q = h \o r
    BY <2>2
  <2>4. calls(q) = calls(h) \o calls(r)
    BY <2>3, CallsConcat
  <2>5. calls(h) = <<k>>
    <3>1. Head(q).body.call = k
      BY <1>6, <2>1 DEF RequestOf
    <3> QED
      BY <2>3, <3>1 DEF calls
  <2>6. calls(h) \in Seq(out) /\ calls(r) \in Seq(out)
    BY LetterCalls, CallsIn
  <2>7. inboxes'[plain(Server)] = r
    <3>1. inboxes = [a \in Addr |-> inboxes[a]]
      BY <1>3 DEF BoxType
    <3> QED
      BY <1>4, <2>1, <2>3, <3>1, Addresses
  <2>8. inFlight'[plain(Server)] = inFlight[plain(Server)]
    <3>1. inFlight = [a \in Addr |-> inFlight[a]] /\ port # plain(Server) /\ plain(Server) \in Addr
      BY <1>3, <1>7, Addresses DEF FlightType
    <3>2. PICK s : inFlight' = [inFlight EXCEPT ![port] = @ \o s]
      BY <1>8 DEF send
    <3> HIDE DEF port
    <3> QED
      BY <3>1, <3>2
  <2>9. ASSUME NEW i \in 1..MaxCalls PROVE copiesOf(i)' <= MaxCopies
    <3> DEFINE one == IF k = i THEN 1 ELSE 0
    <3>1. Cardinality(hits(<<k>>, i)) = one
      BY HitsSingle
    <3>2. waits(i) = one + waits(i)'
      <4>1. Cardinality(hits(calls(h) \o calls(r), i))
            = Cardinality(hits(calls(h), i)) + Cardinality(hits(calls(r), i))
        BY <2>6, HitsConcat
      <4>2. waits(i) = Cardinality(hits(calls(h) \o calls(r), i)) /\ waits(i)' = Cardinality(hits(calls(r), i))
        BY <2>1, <2>4, <2>7 DEF waits
      <4> QED
        BY <2>5, <3>1, <4>1, <4>2
    <3>3. flights(i)' = flights(i)
      BY <2>8 DEF flights
    <3>4. runsOf(i)' = IF reg THEN runsOf(i) + one ELSE runsOf(i)
      <4>1. CASE reg
        <5>1. <<k>> \in Seq(out) /\ Append(executed, k) = executed \o <<k>>
          BY <1>9
        <5>2. runsOf(i)' = Cardinality(hits(executed \o <<k>>, i))
          BY <1>8, <4>1, <5>1 DEF runsOf
        <5>3. Cardinality(hits(executed \o <<k>>, i))
              = Cardinality(hits(executed, i)) + Cardinality(hits(<<k>>, i))
          BY <1>9, <5>1, HitsConcat
        <5> QED
          BY <3>1, <4>1, <5>2, <5>3 DEF runsOf
      <4>2. CASE ~reg
        BY <1>8, <4>2 DEF runsOf
      <4> HIDE DEF one, reg
      <4> QED
        BY <4>1, <4>2
    <3>5. flights(i) \in Nat /\ waits(i) \in Nat /\ runsOf(i) \in Nat
      BY <1>1, <1>9, CountsAre DEF Agrees
    <3>6. waits(i)' \in Nat
      BY <2>6, <2>7, HitsFinite DEF waits
    <3>7. copiesOf(i) = flights(i) + waits(i) + runsOf(i)
      BY CopiesAre
    <3>8. copiesOf(i)' = flights(i)' + waits(i)' + runsOf(i)'
      BY DEF copiesOf, flights, waits, runsOf
    <3>9. copiesOf(i) <= MaxCopies
      BY DEF RpcInv, CopiesInv
    <3>10. MaxCopies \in Nat
      BY DEF MaxCopies
    <3>11. copiesOf(i)' <= copiesOf(i)
      <4>1. one \in {0, 1}
        OBVIOUS
      <4>2. waits(i)' + one = waits(i) /\ waits(i)' <= waits(i)
        <5> HIDE DEF one
        <5> QED
          BY <3>2, <3>5, <3>6, <4>1
      <4> HIDE DEF one, reg
      <4>3. CASE reg
        <5>1. runsOf(i)' = runsOf(i) + one
          BY <3>4, <4>3
        <5> QED
          BY <3>3, <3>5, <3>6, <3>7, <3>8, <4>1, <4>2, <5>1, SMTT(40)
      <4>4. CASE ~reg
        <5>1. runsOf(i)' = runsOf(i)
          BY <3>4, <4>4
        <5> QED
          BY <3>3, <3>5, <3>6, <3>7, <3>8, <4>2, <5>1, SMTT(40)
      <4> QED
        BY <4>3, <4>4
    <3>12. copiesOf(i) \in Nat /\ copiesOf(i)' \in Nat
      <4>1. flights(i)' \in Nat
        BY <3>3, <3>5
      <4>2. runsOf(i)' \in Nat
        BY <3>4, <3>5
      <4> QED
        BY <3>5, <3>6, <3>7, <3>8, <4>1, <4>2, SMTT(40)
    <3> HIDE DEF reg, one
    <3> QED
      BY <3>9, <3>10, <3>11, <3>12
  <2> QED
    BY <2>9 DEF CopiesInv, MaxCopies
<1> QED
  BY <1>14, <1>16, <1>17, <1>18, <1>19 DEF RpcInv, Agrees
\* A call starts: its request goes out unless a partition cuts it off.
LEMMA StartStep ==
    ASSUME RpcInv, NEW c \in Client, NEW method \in Method, startCall(c, method)
    PROVE  RpcInv'
<1>1. PICK log \in Seq(Entry), out \in SUBSET Nat : Agrees(log, out)
  BY DEF RpcInv
<1>res. results \in Seq([call : Nat, outcome : {"Success", "Error", "TimedOut"}, answered : Nat])
  BY <1>1 DEF Agrees, HistoryInv
<1>len. PICK l \in Nat : l = Len(results) /\ DOMAIN results = 1..l
  BY <1>res
<1>2. PICK id : id = nextRequestId[c]
  OBVIOUS
<1>3. id \in Nat \ {0} /\ nextRequestId \in [Client -> Nat \ {0}]
  BY <1>2 DEF RpcInv, CountersInv
<1> DEFINE n == l + 1
           body == [id |-> id, method |-> method, call |-> n]
           e == [client |-> c, id |-> id, method |-> method]
           blocked == isPartitioned(plain(home[c]), plain(Server))
<1>4. /\ stage = "idle" /\ l < MaxCalls /\ stage' = "tick" /\ ticksLeft' = MaxTicks
      /\ nextRequestId' = [nextRequestId EXCEPT ![c] = @ + 1]
      /\ current' = [client |-> c, id |-> id, call |-> n]
      /\ send(home[c], plain(Server), body)
      /\ UNCHANGED <<inboxes, partitions, results, executed>>
  BY <1>2, <1>len DEF startCall
<1>5. started = l /\ started' = n
  BY <1>4, <1>len DEF started
<1>6. Len(log) = l /\ DOMAIN log = 1..l /\ out \subseteq 1..l /\ executed \in Seq(out) /\ n \in Nat
      /\ n \notin 1..l /\ n \notin out
  <2>1. Len(log) = l /\ DOMAIN log = 1..Len(log) /\ out \subseteq DOMAIN log
    BY <1>1, <1>5 DEF Agrees, LogInv
  <2>2. executed \in Seq(out)
    BY <1>1 DEF Agrees, HistoryInv
  <2>3. n \in Nat /\ n \notin 1..l
    OBVIOUS
  <2> QED
    BY <2>1, <2>2, <2>3
<1>7. e \in Entry
  BY <1>3 DEF Entry
<1> HIDE DEF e
<1>8. PICK log2 \in Seq(Entry) : log2 = Append(log, e)
  <2>1. ASSUME NEW S, NEW q \in Seq(S), NEW x \in S PROVE Append(q, x) \in Seq(S)
    OBVIOUS
  <2>2. Append(log, e) \in Seq(Entry)
    BY <1>7, <2>1
  <2> QED
    BY <2>2
<1>9. Len(log2) = n /\ DOMAIN log2 = 1..n /\ log2[n] = e /\ \A i \in 1..l : log2[i] = log[i]
  BY <1>6, <1>7, <1>8
<1>10. PICK out2 : out2 = IF blocked THEN out ELSE out \cup {n}
  OBVIOUS
<1>11. out \subseteq out2 /\ out2 \subseteq 1..n /\ out2 \in SUBSET Nat
  <2>1. \A i \in 1..l : i \in 1..n
    OBVIOUS
  <2>2. n \in 1..n
    OBVIOUS
  <2>3. 1..n \subseteq Nat
    OBVIOUS
  <2> QED
    BY <1>6, <1>10, <2>1, <2>2, <2>3
<1>12. \A i \in 1..n : i \in 1..l \/ i = n
  OBVIOUS
<1>13. PICK W, V : W = Post(log, out) /\ V = Post(log2, out2)'
  OBVIOUS
<1>14. FlightType(W) /\ BoxType(W)
  BY <1>1, <1>13 DEF Agrees, PostInv
<1>15. \A a \in Addr : W[a] \subseteq V[a]
  <2>1. \A i \in out : log2[i] = log[i]
    BY <1>6, <1>9
  <2>2. \A i : ran(i) => ran(i)'
    BY <1>4 DEF ran
  <2> QED
    BY <1>11, <1>13, <2>1, <2>2, PostGrows
<1>16. FlightType(V) /\ BoxType(V)
  BY <1>14, <1>15, CarriesMore
<1>17. FlightType(V)'
  <2>1. CASE blocked
    <3>1. inFlight' = [inFlight EXCEPT ![plain(Server)] = @ \o <<>>]
      BY <1>4, <2>1 DEF send, fates
    <3>2. \A a \in Addr : inFlight[a] \in Seq(Flying(W[a])) /\ inFlight = [b \in Addr |-> inFlight[b]]
      BY <1>14 DEF FlightType
    <3>3. ASSUME NEW S, NEW q \in Seq(S) PROVE q \o <<>> = q
      BY <3>3
    <3>4. inFlight[plain(Server)] \o <<>> = inFlight[plain(Server)]
      BY <3>2, <3>3, Addresses
    <3>5. inFlight' = inFlight
      BY <3>1, <3>2, <3>4, Addresses
    <3> QED
      BY <1>16, <3>5 DEF FlightType
  <2>2. CASE ~blocked
    <3>1. n \in out2
      BY <1>10, <2>2
    <3>2. V[plain(Server)] = {RequestOf(log2, i) : i \in out2}
      BY <1>13, Addresses DEF Post, RequestOf
    <3>3. RequestOf(log2, n) = [from |-> home[c], body |-> body]
      BY <1>9 DEF RequestOf, e
    <3>4. [from |-> home[c], body |-> body] \in V[plain(Server)]
      BY <3>1, <3>2, <3>3
    <3> QED
      BY <1>4, <1>16, <3>4, Addresses, SendCarries
  <2> QED
    BY <2>1, <2>2
<1>18. PostInv(log2, out2)'
  <2>1. BoxType(V)'
    BY <1>4, <1>16 DEF BoxType
  <2> QED
    BY <1>13, <1>17, <2>1 DEF PostInv, FlightType, BoxType
<1>19. CountersInv'
  <2>1. \A d \in Client : nextRequestId[d] \in Nat /\ nextRequestId[d] <= l + 1
    BY <1>5 DEF RpcInv, CountersInv
  <2>2. \A d \in Client : nextRequestId'[d] = IF d = c THEN nextRequestId[c] + 1 ELSE nextRequestId[d]
    BY <1>3, <1>4
  <2>3. \A d \in Client : nextRequestId'[d] <= n + 1 /\ nextRequestId'[d] \in Nat \ {0}
    BY <1>3, <2>1, <2>2
  <2>4. nextRequestId' \in [Client -> Nat \ {0}]
    BY <1>3, <1>4, <2>3
  <2>5. MaxTicks \in 0..MaxTicks /\ MaxTicks > 0 /\ n <= MaxCalls
    BY <1>4, BudgetAssumption
  <2> QED
    BY <1>4, <1>5, <2>3, <2>4, <2>5 DEF CountersInv
<1>20. LogInv(log2, out2)'
  <2>1. /\ \A i \in 1..l : log[i].id < nextRequestId[log[i].client]
        /\ \A i, j \in 1..l : log[i].client = log[j].client /\ log[i].id = log[j].id => i = j
    BY <1>1, <1>6 DEF Agrees, LogInv
  <2>2. \A i \in 1..l : log[i].client \in Client /\ log[i].id \in Nat
    <3>1. \A i \in 1..l : log[i] \in Entry
      BY <1>6
    <3> QED
      BY <3>1 DEF Entry
  <2>3. e.client = c /\ e.id = id
    BY DEF e
  <2>4. \A d \in Client : nextRequestId'[d] = IF d = c THEN id + 1 ELSE nextRequestId[d]
    BY <1>2, <1>3, <1>4
  <2>5. ASSUME NEW i \in 1..l PROVE log2[i].id < nextRequestId'[log2[i].client]
    <3>1. log[i].id < nextRequestId[log[i].client] /\ log2[i] = log[i]
      BY <1>9, <2>1
    <3>2. CASE log[i].client = c
      BY <1>2, <1>3, <2>2, <2>4, <3>1, <3>2
    <3>3. CASE log[i].client # c
      BY <2>2, <2>4, <3>1, <3>3
    <3> QED
      BY <3>2, <3>3
  <2>6. log2[n].id < nextRequestId'[log2[n].client]
    BY <1>3, <1>9, <2>3, <2>4
  <2>7. \A i \in 1..l : ~(log[i].client = c /\ log[i].id = id)
    <3>1. \A x \in Nat : ~(x < x)
      OBVIOUS
    <3> QED
      BY <1>2, <1>3, <2>1, <3>1
  <2>8. ASSUME NEW i \in 1..n, NEW j \in 1..n, log2[i].client = log2[j].client, log2[i].id = log2[j].id
        PROVE  i = j
    <3>1. CASE i \in 1..l /\ j \in 1..l
      BY <1>9, <2>1, <2>8, <3>1
    <3>2. CASE i = n
      BY <1>9, <1>12, <2>3, <2>7, <2>8, <3>2
    <3>3. CASE j = n
      BY <1>9, <1>12, <2>3, <2>7, <2>8, <3>3
    <3> QED
      BY <1>12, <3>1, <3>2, <3>3
  <2>9. \A i \in 1..n : log2[i].id < nextRequestId'[log2[i].client]
    BY <1>12, <2>5, <2>6
  <2> QED
    BY <1>4, <1>5, <1>9, <1>11, <2>3, <2>8, <2>9 DEF LogInv
<1>21. HistoryInv(log2, out2)'
  <2>1. executed' \in Seq(out2)
    BY <1>4, <1>6, <1>11, SeqMonotone
  <2>2. ASSUME NEW x \in DOMAIN executed PROVE log2[executed[x]].method = "registered"
    <3>1. executed[x] \in out
      BY <1>6
    <3>2. executed[x] \in 1..l
      BY <1>6, <3>1
    <3> QED
      BY <1>1, <1>9, <3>2 DEF Agrees, HistoryInv
  <2>3. \A i \in DOMAIN results : log2[i] = log[i]
    BY <1>9, <1>len
  <2>4. \A i \in DOMAIN results :
          /\ results[i].call = i
          /\ results[i].outcome # "TimedOut" => results[i].answered = i
          /\ results[i].outcome = "Success" => ran(i)'
          /\ results[i].outcome = "Error" => log2[i].method = "unknown"
    <3>1. \A i : ran(i) <=> ran(i)'
      BY <1>4 DEF ran
    <3>2. \A i \in DOMAIN results :
            /\ results[i].call = i
            /\ results[i].outcome # "TimedOut" => results[i].answered = i
            /\ results[i].outcome = "Success" => ran(i)
            /\ results[i].outcome = "Error" => log[i].method = "unknown"
      BY <1>1 DEF Agrees, HistoryInv
    <3> QED
      BY <2>3, <3>1, <3>2
  <2>5. executed' = executed /\ results' = results
    BY <1>4
  <2> QED
    BY <1>res, <2>1, <2>2, <2>4, <2>5 DEF HistoryInv
<1>22. CutInv(out2)'
  BY <1>4, <1>6, <1>10 DEF CutInv, isPartitioned
<1>23. CopiesInv'
  <2>1. PICK s \in fates(home[c], plain(Server), body) :
             inFlight' = [inFlight EXCEPT ![plain(Server)] = @ \o s]
    BY <1>4 DEF send
  <2>2. PICK q \in Seq(Flying(Letters(log, out))) : q = inFlight[plain(Server)]
    BY <1>1, ServerMail DEF Agrees
  <2>3. inFlight'[plain(Server)] = q \o s
    <3>1. inFlight = [a \in Addr |-> inFlight[a]]
      BY <1>14 DEF FlightType
    <3> QED
      BY <2>1, <2>2, <3>1, Addresses
  <2>4. PICK M : q \in Seq(M) /\ s \in Seq(M)
    <3> DEFINE L == Letters(log, out) \cup {[from |-> home[c], body |-> body]}
    <3>1. s \in Seq(Flying(L))
      <4>1. [from |-> home[c], body |-> body] \in L
        OBVIOUS
      <4> HIDE DEF L, body
      <4> QED
        BY <4>1, FatesAre
    <3>2. Flying(Letters(log, out)) \subseteq Flying(L)
      BY DEF Flying
    <3>3. q \in Seq(Flying(L))
      BY <3>2, SeqMonotone
    <3> QED
      BY <3>1, <3>3
  <2>5. calls(q \o s) = calls(q) \o calls(s)
    BY <2>4, CallsConcat
  <2>6. PICK N : calls(q) \in Seq(N) /\ calls(s) \in Seq(N)
    <3>1. \A x \in M : x.body.call \in {y.body.call : y \in M}
      OBVIOUS
    <3> QED
      BY <2>4, <3>1, CallsIn
  <2>7. ASSUME NEW i \in 1..MaxCalls PROVE copiesOf(i)' <= MaxCopies
    <3>1. PICK k : k = Cardinality(hits(calls(s), i))
      OBVIOUS
    <3>2. k \in 0..MaxCopies /\ (i # n => k = 0)
      BY <2>1, <3>1, FateCounts
    <3>3. flights(i)' = flights(i) + k
      <4>1. Cardinality(hits(calls(q) \o calls(s), i)) = Cardinality(hits(calls(q), i)) + k
        BY <2>6, <3>1, HitsConcat
      <4> QED
        BY <2>2, <2>3, <2>5, <4>1 DEF flights
    <3>4. waits(i)' = waits(i) /\ runsOf(i)' = runsOf(i)
      BY <1>4 DEF waits, runsOf
    <3>5. /\ flights(i) \in Nat /\ waits(i) \in Nat /\ runsOf(i) \in Nat
          /\ i \notin out => flights(i) = 0 /\ waits(i) = 0 /\ runsOf(i) = 0
      BY <1>1, <1>6, CountsAre DEF Agrees
    <3>6. copiesOf(i) = flights(i) + waits(i) + runsOf(i) /\ copiesOf(i) <= MaxCopies
      BY CopiesAre DEF RpcInv, CopiesInv
    <3>7. copiesOf(i)' = flights(i)' + waits(i)' + runsOf(i)'
      BY DEF copiesOf, flights, waits, runsOf
    <3>8. MaxCopies \in Nat
      BY DEF MaxCopies
    <3>9. CASE i = n
      <4>1. flights(i) = 0 /\ waits(i) = 0 /\ runsOf(i) = 0
        BY <1>6, <3>5, <3>9
      <4> QED
        BY <3>2, <3>3, <3>4, <3>7, <3>8, <4>1
    <3>10. CASE i # n
      BY <3>2, <3>3, <3>4, <3>5, <3>6, <3>7, <3>8, <3>10
    <3> QED
      BY <3>9, <3>10
  <2> QED
    BY <2>7 DEF CopiesInv, MaxCopies
<1> QED
  BY <1>11, <1>18, <1>19, <1>20, <1>21, <1>22, <1>23 DEF RpcInv, Agrees
\* What the client finds in its inbox with the id of its call is the answer to it:
\* the ids of its calls differ, and nobody else's answers come to its node.
Found(x) == inboxes[responsePort(home[current.client])][x]
LEMMA AnswerFound ==
    ASSUME OnePerNode, NEW log \in Seq(Entry), NEW out \in SUBSET Nat, Agrees(log, out),
           stage = "receive", NEW x \in DOMAIN inboxes[responsePort(home[current.client])],
           Found(x).body.id = current.id
    PROVE  /\ Found(x).body = AnswerTo(log, Len(log)).body
           /\ log[Len(log)].method = "registered" => ran(Len(log))
           /\ Len(log) \in out
<1>1. /\ Len(log) = started /\ out \subseteq DOMAIN log /\ DOMAIN log = 1..Len(log) /\ Len(log) \in Nat
      /\ \A i, j \in DOMAIN log : log[i].client = log[j].client /\ log[i].id = log[j].id => i = j
      /\ current = [client |-> log[Len(log)].client, id |-> log[Len(log)].id, call |-> Len(log)]
  BY DEF Agrees, LogInv
<1>2. Len(log) \in DOMAIN log
  <2>1. Len(results) \in Nat
    <3>1. results \in Seq([call : Nat, outcome : {"Success", "Error", "TimedOut"}, answered : Nat])
      BY DEF Agrees, HistoryInv
    <3> QED
      BY <3>1
  <2>2. PICK l \in Nat : l = Len(results)
    BY <2>1
  <2>3. started = l + 1
    BY <2>2 DEF started
  <2>4. Len(log) = l + 1 /\ l + 1 \in 1..(l + 1)
    BY <1>1, <2>3
  <2> QED
    BY <1>1, <2>4
<1>3. \A i \in DOMAIN log : log[i] \in Entry /\ log[i].client \in Client
  <2>1. \A i \in DOMAIN log : log[i] \in Entry
    BY <1>1
  <2> QED
    BY <2>1 DEF Entry
<1>4. PICK c \in Client : c = current.client /\ c = log[Len(log)].client
  BY <1>1, <1>2, <1>3
<1>5. Found(x) \in {AnswerTo(log, i) : i \in answered(log, out, home[c])}
  <2>1. inboxes[responsePort(home[c])] \in Seq(Post(log, out)[responsePort(home[c])])
    BY Addresses DEF Agrees, PostInv, BoxType
  <2>2. Post(log, out)[responsePort(home[c])] = {AnswerTo(log, i) : i \in answered(log, out, home[c])}
    BY Addresses, PostIs
  <2>3. PICK S, q : q \in Seq(S) /\ q = inboxes[responsePort(home[c])]
                    /\ S = {AnswerTo(log, i) : i \in answered(log, out, home[c])}
    BY <2>1, <2>2
  <2>4. x \in DOMAIN q
    BY <1>4, <2>3
  <2>5. q[x] \in S
    BY <2>3, <2>4
  <2> QED
    BY <1>4, <2>3, <2>5 DEF Found
<1>6. PICK i \in out : /\ Found(x) = AnswerTo(log, i) /\ home[log[i].client] = home[c]
                       /\ log[i].method = "registered" => ran(i)
  BY <1>5 DEF answered
<1>7. log[i].client = c /\ i \in DOMAIN log
  BY <1>1, <1>3, <1>6 DEF OnePerNode
<1>8. log[i].id = log[Len(log)].id
  BY <1>1, <1>6 DEF AnswerTo
<1>9. i = Len(log)
  BY <1>1, <1>2, <1>4, <1>7, <1>8
<1> QED
  BY <1>6, <1>9

\* The rest of the round: the answer is taken, or the call waits on or gives up.
LEMMA ReceiveStep == ASSUME OnePerNode, RpcInv, receive PROVE RpcInv'
<1>1. PICK log \in Seq(Entry), out \in SUBSET Nat : Agrees(log, out)
  BY DEF RpcInv
<1> DEFINE R == [call : Nat, outcome : {"Success", "Error", "TimedOut"}, answered : Nat]
<1>res. results \in Seq(R)
  BY <1>1 DEF Agrees, HistoryInv
<1>len. PICK l \in Nat : l = Len(results) /\ DOMAIN results = 1..l
  BY <1>res
<1>2. PICK port : port = responsePort(home[current.client])
  OBVIOUS
<1> DEFINE found == {i \in DOMAIN inboxes[port] : inboxes[port][i].body.id = current.id}
<1>3. /\ stage = "receive" /\ inboxes' = [inboxes EXCEPT ![port] = <<>>]
      /\ UNCHANGED <<inFlight, partitions, nextRequestId, executed>>
  BY <1>2 DEF receive
<1>4. /\ Len(log) = l + 1 /\ started = l + 1 /\ DOMAIN log = 1..(l + 1)
      /\ current = [client |-> log[l + 1].client, id |-> log[l + 1].id, call |-> l + 1]
      /\ log[l + 1] \in Entry /\ l + 1 \in 1..(l + 1)
  <2>1. started = l + 1
    BY <1>3, <1>len DEF started
  <2>2. Len(log) = l + 1 /\ DOMAIN log = 1..(l + 1) /\ l + 1 \in 1..(l + 1)
    BY <1>1, <2>1 DEF Agrees, LogInv
  <2>3. current = [client |-> log[l + 1].client, id |-> log[l + 1].id, call |-> l + 1]
    BY <1>1, <1>3, <2>2 DEF Agrees, LogInv
  <2>4. log[l + 1] \in Entry
    BY <2>2
  <2> QED
    BY <2>1, <2>2, <2>3, <2>4
<1>5. port \in Addr /\ port # plain(Server)
  BY <1>2, <1>4, Addresses DEF Entry
<1>6. PostInv(log, out)' /\ inboxes'[plain(Server)] = inboxes[plain(Server)]
  <2>1. PICK W : W = Post(log, out)
    OBVIOUS
  <2>2. Post(log, out)' = W
    BY <1>3, <2>1 DEF Post, answered, ran
  <2>3. FlightType(W)' /\ inboxes = [a \in Addr |-> inboxes[a]]
        /\ \A a \in Addr : inboxes[a] \in Seq(W[a])
    BY <1>1, <1>3, <2>1 DEF Agrees, PostInv, FlightType, BoxType
  <2>4. \A a \in Addr : inboxes'[a] = IF a = port THEN <<>> ELSE inboxes[a]
    BY <1>3, <2>3
  <2>5. inboxes' = [a \in Addr |-> inboxes'[a]]
    BY <1>3, <2>3
  <2>6. BoxType(W)'
    <3>1. ASSUME NEW a \in Addr PROVE inboxes'[a] \in Seq(W[a])
      <4>1. <<>> \in Seq(W[a]) /\ inboxes[a] \in Seq(W[a])
        BY <2>3
      <4> QED
        BY <2>4, <4>1
    <3> QED
      BY <2>5, <3>1 DEF BoxType
  <2> QED
    BY <1>5, <2>2, <2>3, <2>4, <2>6, Addresses DEF PostInv, FlightType, BoxType
<1>7. CopiesInv'
  BY <1>3, <1>6 DEF RpcInv, CopiesInv, copiesOf
<1>8. /\ nextRequestId \in [Client -> Nat \ {0}]
      /\ \A c \in Client : nextRequestId[c] <= l + 2
      /\ ticksLeft \in 0..MaxTicks /\ ticksLeft > 0 /\ l + 1 <= MaxCalls /\ l + 1 \in Nat
  BY <1>3, <1>4 DEF RpcInv, CountersInv
<1>9. ASSUME NEW o \in {"Success", "Error", "TimedOut"}, NEW a \in Nat, return(o, a),
             o # "TimedOut" => a = l + 1, o = "Success" => ran(l + 1),
             o = "Error" => log[l + 1].method = "unknown"
      PROVE  RpcInv'
  <2>1. /\ results' = Append(results, [call |-> l + 1, outcome |-> o, answered |-> a])
        /\ stage' = "idle" /\ ticksLeft' = 0
    BY <1>4, <1>9 DEF return
  <2>2. PICK r \in R : r = [call |-> l + 1, outcome |-> o, answered |-> a]
    <3>1. [call |-> l + 1, outcome |-> o, answered |-> a] \in R
      OBVIOUS
    <3> QED
      BY <3>1
  <2>3. results' \in Seq(R) /\ Len(results') = l + 1 /\ DOMAIN results' = 1..(l + 1)
        /\ results'[l + 1] = r /\ \A i \in 1..l : results'[i] = results[i]
    <3> HIDE DEF R
    <3> QED
      BY <1>res, <1>len, <2>1, <2>2
  <2>4. started' = l + 1
    BY <2>1, <2>3 DEF started
  <2>5. CountersInv'
    BY <1>3, <1>8, <2>1, <2>4, BudgetAssumption DEF CountersInv
  <2>6. LogInv(log, out)'
    BY <1>1, <1>3, <1>4, <2>1, <2>4 DEF Agrees, LogInv
  <2>7. \A i \in DOMAIN results' :
          /\ results'[i].call = i
          /\ results'[i].outcome # "TimedOut" => results'[i].answered = i
          /\ results'[i].outcome = "Success" => ran(i)'
          /\ results'[i].outcome = "Error" => log[i].method = "unknown"
    <3>1. \A i : ran(i) <=> ran(i)'
      BY <1>3 DEF ran
    <3>2. \A i \in 1..l :
          /\ results[i].call = i
          /\ results[i].outcome # "TimedOut" => results[i].answered = i
          /\ results[i].outcome = "Success" => ran(i)
          /\ results[i].outcome = "Error" => log[i].method = "unknown"
      BY <1>1, <1>len DEF Agrees, HistoryInv
    <3>3. \A i \in 1..(l + 1) : i \in 1..l \/ i = l + 1
      OBVIOUS
    <3>4. /\ r.call = l + 1
          /\ r.outcome # "TimedOut" => r.answered = l + 1
          /\ r.outcome = "Success" => ran(l + 1)
          /\ r.outcome = "Error" => log[l + 1].method = "unknown"
      BY <1>9, <2>2
    <3>5. ASSUME NEW i \in 1..l
          PROVE  /\ results'[i].call = i
                 /\ results'[i].outcome # "TimedOut" => results'[i].answered = i
                 /\ results'[i].outcome = "Success" => ran(i)'
                 /\ results'[i].outcome = "Error" => log[i].method = "unknown"
      <4>1. results'[i] = results[i]
        BY <2>3
      <4> QED
        BY <3>1, <3>2, <4>1
    <3>6. /\ results'[l + 1].call = l + 1
          /\ results'[l + 1].outcome # "TimedOut" => results'[l + 1].answered = l + 1
          /\ results'[l + 1].outcome = "Success" => ran(l + 1)'
          /\ results'[l + 1].outcome = "Error" => log[l + 1].method = "unknown"
      <4>1. results'[l + 1] = r
        BY <2>3
      <4> QED
        BY <3>1, <3>4, <4>1
    <3> QED
      BY <2>3, <3>3, <3>5, <3>6, Zenon
  <2>8. HistoryInv(log, out)'
    BY <1>1, <1>3, <2>3, <2>7 DEF Agrees, HistoryInv
  <2>9. CutInv(out)'
    BY <2>1 DEF CutInv
  <2> QED
    BY <1>6, <1>7, <2>5, <2>6, <2>8, <2>9 DEF RpcInv, Agrees
<1>10. CASE found # {}
  <2>1. found \in SUBSET Nat
    <3>1. inboxes[port] \in Seq(Post(log, out)[port])
      BY <1>1, <1>5 DEF Agrees, PostInv, BoxType
    <3>2. DOMAIN inboxes[port] \subseteq Nat
      BY <3>1
    <3> QED
      BY <3>2
  <2>2. PICK x : x = CHOOSE i \in found : \A j \in found : i <= j
    OBVIOUS
  <2>3. x \in found
    <3>1. \E i \in found : \A j \in found : i <= j
      <4> HIDE DEF found
      <4> QED
        BY <1>10, <2>1, LeastExists
    <3> QED
      BY <2>2, <3>1
  <2>4. return(IF inboxes[port][x].body.ok THEN "Success" ELSE "Error", inboxes[port][x].body.call)
    BY <1>2, <1>10, <2>2 DEF receive, matches
  <2>5. /\ inboxes[port][x].body = AnswerTo(log, l + 1).body
        /\ log[l + 1].method = "registered" => ran(l + 1)
    <3>1. x \in DOMAIN inboxes[responsePort(home[current.client])] /\ Found(x).body.id = current.id
      BY <1>2, <2>3 DEF Found
    <3>2. /\ Found(x).body = AnswerTo(log, Len(log)).body
          /\ log[Len(log)].method = "registered" => ran(Len(log))
      BY <1>1, <1>2, <1>3, <1>4, <3>1, AnswerFound
    <3> QED
      BY <1>2, <1>4, <3>2 DEF Found
  <2>6. inboxes[port][x].body.ok = (log[l + 1].method = "registered") /\ inboxes[port][x].body.call = l + 1
    BY <2>5 DEF AnswerTo
  <2>7. log[l + 1].method \in {"registered", "unknown"}
    BY <1>4 DEF Entry, Method
  <2>8. CASE log[l + 1].method = "registered"
    <3>1. return("Success", l + 1)
      BY <2>4, <2>6, <2>8
    <3> QED
      BY <1>8, <1>9, <2>5, <2>8, <3>1
  <2>9. CASE log[l + 1].method = "unknown"
    <3>1. return("Error", l + 1)
      BY <2>4, <2>6, <2>9
    <3> QED
      BY <1>8, <1>9, <2>9, <3>1
  <2> QED
    BY <2>7, <2>8, <2>9
<1>11. CASE found = {} /\ ~moreTicks(ticksLeft)
  <2>1. return("TimedOut", 0)
    BY <1>2, <1>11 DEF receive, matches
  <2> QED
    BY <1>9, <2>1
<1>12. CASE found = {} /\ moreTicks(ticksLeft)
  <2>1. ticksLeft' = ticksLeft - 1 /\ stage' = "tick" /\ UNCHANGED <<results, current>> /\ ticksLeft > 1
    BY <1>2, <1>12 DEF receive, matches, moreTicks, spend
  <2>2. started' = l + 1
    BY <1>len, <2>1 DEF started
  <2>3. CountersInv'
    BY <1>3, <1>8, <2>1, <2>2, BudgetAssumption DEF CountersInv
  <2>4. LogInv(log, out)'
    BY <1>1, <1>3, <1>4, <2>1, <2>2 DEF Agrees, LogInv
  <2>5. HistoryInv(log, out)'
    BY <1>1, <1>3, <2>1 DEF Agrees, HistoryInv, ran
  <2>6. CutInv(out)'
    BY <1>1, <1>3, <2>1 DEF Agrees, CutInv, isPartitioned
  <2> QED
    BY <1>6, <1>7, <2>3, <2>4, <2>5, <2>6 DEF RpcInv, Agrees
<1> QED
  BY <1>10, <1>11, <1>12
LEMMA NextRpcInv == ASSUME OnePerNode, RpcInv, [Next]_vars PROVE RpcInv'
<1>1. CASE \E c \in Client, method \in Method : startCall(c, method)
  BY <1>1, StartStep
<1>2. CASE tick
  BY <1>2, TickStep
<1>3. CASE pumpServer
  BY <1>3, PumpStep
<1>4. CASE receive
  BY <1>4, ReceiveStep
<1>5. CASE pumpDone \/ (\E c \in Client : cut(c)) \/ (\E c \in Client : heal(c)) \/ UNCHANGED vars
  BY <1>5, QuietSteps
<1> QED
  BY <1>1, <1>2, <1>3, <1>4, <1>5 DEF Next, Step

LEMMA RpcInvariant == ASSUME OnePerNode PROVE Spec => []RpcInv
<1>1. Init => RpcInv
  BY InitRpcInv
<1>2. RpcInv /\ [Next]_vars => RpcInv'
  BY NextRpcInv
<1> QED
  BY <1>1, <1>2, PTL DEF Spec
-----------------------------------------------------------------------------
(***************************************************************************)
(* What the calls and the server can rely on.                              *)
(***************************************************************************)

\* Type correctness: request ids, tick budgets and histories of RpcClient::call
\* stay within their bounds, and the i-th result is that of the i-th call.
THEOREM RpcTypeCorrect == ASSUME OnePerNode PROVE Spec => []TypeOK
<1>1. ASSUME RpcInv PROVE TypeOK
  <2>1. PICK log \in Seq(Entry), out \in SUBSET Nat : Agrees(log, out)
    BY <1>1 DEF RpcInv
  <2>2. results \in Seq([call : Nat, outcome : {"Success", "Error", "TimedOut"}, answered : Nat])
        /\ \A i \in DOMAIN results : results[i].call = i
    BY <2>1 DEF Agrees, HistoryInv
  <2>3. PICK l \in Nat : l = Len(results)
    BY <2>2
  <2>4. started \in {l, l + 1} /\ started <= MaxCalls
    BY <1>1, <2>3 DEF started, RpcInv, CountersInv
  <2>5. l <= MaxCalls
    BY <2>4, BudgetAssumption
  <2>6. \A c \in Client : nextRequestId[c] \in 1..(MaxCalls + 1)
    <3>1. \A c \in Client : nextRequestId[c] \in Nat \ {0} /\ nextRequestId[c] <= started + 1
      BY <1>1 DEF RpcInv, CountersInv
    <3>2. PICK k \in Nat : k = started
      BY <2>4
    <3> QED
      BY <2>4, <3>1, <3>2, BudgetAssumption
  <2>7. nextRequestId \in [Client -> 1..(MaxCalls + 1)]
    BY <1>1, <2>6 DEF RpcInv, CountersInv
  <2> QED
    BY <1>1, <2>2, <2>3, <2>5, <2>7 DEF TypeOK, RpcInv, CountersInv
<1> QED
  BY <1>1, RpcInvariant, PTL

\* What call() returns tells what happened: the answer it takes is to its own
\* request, Success means that the handler ran for it and Error that it did
\* not, and no request runs more often than it was put under way.
THEOREM Outcome == ASSUME OnePerNode PROVE Spec => []OutcomeTellsExecution
<1>1. ASSUME RpcInv PROVE OutcomeTellsExecution
  <2>1. PICK log \in Seq(Entry), out \in SUBSET Nat : Agrees(log, out)
    BY <1>1 DEF RpcInv
  <2>2. executed \in Seq(out)
        /\ \A e \in DOMAIN executed : log[executed[e]].method = "registered"
    BY <2>1 DEF Agrees, HistoryInv
  <2>3. \A i \in DOMAIN results :
          /\ results[i].outcome # "TimedOut" => results[i].answered = i
          /\ results[i].outcome = "Success" => ran(i)
          /\ results[i].outcome = "Error" => log[i].method = "unknown"
    BY <2>1 DEF Agrees, HistoryInv
  <2>4. ASSUME NEW i
        PROVE  /\ {e \in DOMAIN executed : executed[e] = i} = hits(executed, i)
               /\ IsFiniteSet(hits(executed, i)) /\ runsOf(i) = Cardinality(hits(executed, i))
               /\ runsOf(i) \in Nat
    <3>1. {e \in DOMAIN executed : executed[e] = i} = hits(executed, i)
      BY DEF hits
    <3> QED
      BY <2>2, <3>1, HitsFinite DEF runsOf
  <2>5. \A i : ran(i) => runsOf(i) > 0
    <3>1. ASSUME NEW i, ran(i) PROVE runsOf(i) > 0
      <4>1. hits(executed, i) # {}
        BY <3>1 DEF ran, hits
      <4>2. runsOf(i) # 0
        BY <2>4, <4>1, FS_EmptySet
      <4> QED
        BY <2>4, <4>2
    <3> QED
      BY <3>1
  <2>6. \A i : log[i].method = "unknown" => runsOf(i) = 0
    <3>1. ASSUME NEW i, log[i].method = "unknown" PROVE runsOf(i) = 0
      <4>1. hits(executed, i) = {}
        BY <2>2, <3>1 DEF hits
      <4> QED
        BY <2>4, <4>1, FS_EmptySet
    <3> QED
      BY <3>1
  <2>7. ASSUME NEW i \in 1..MaxCalls PROVE runsOf(i) <= IF MayDuplicate THEN 2 ELSE 1
    <3>1. flights(i) \in Nat /\ waits(i) \in Nat /\ runsOf(i) \in Nat
      BY <2>1, <2>2, CountsAre DEF Agrees
    <3>2. copiesOf(i) = flights(i) + waits(i) + runsOf(i) /\ copiesOf(i) <= MaxCopies
      BY <1>1, CopiesAre DEF RpcInv, CopiesInv
    <3>3. PICK m \in Nat : m = (IF MayDuplicate THEN 2 ELSE 1) /\ MaxCopies = m
      BY DEF MaxCopies
    <3>4. runsOf(i) <= m
      BY <3>1, <3>2, <3>3
    <3> QED
      BY <3>3, <3>4
  <2> DEFINE times(i) == Cardinality({e \in DOMAIN executed : executed[e] = i})
  <2>8. \A i : times(i) = runsOf(i)
    BY <2>4
  <2> HIDE DEF times
  <2>9. \A i \in DOMAIN results :
             /\ results[i].outcome # "TimedOut" => results[i].answered = i
             /\ results[i].outcome = "Success" => times(i) > 0
             /\ results[i].outcome = "Error" => times(i) = 0
    BY <2>3, <2>5, <2>6, <2>8
  <2>10. \A i \in 1..MaxCalls : times(i) <= IF MayDuplicate THEN 2 ELSE 1
    BY <2>7, <2>8
  <2> QED
    BY <2>9, <2>10, Zenon DEF OutcomeTellsExecution, times
<1> QED
  BY <1>1, RpcInvariant, PTL

\* A call from a node that is cut off from the server runs nothing there and can
\* only time out, whatever older requests and answers are still under way.
THEOREM CutOff == ASSUME OnePerNode PROVE Spec => CutOffCallsFail
<1> DEFINE behind == stage # "idle" /\ isPartitioned(plain(home[current.client]), plain(Server))
           fails == /\ executed' # Append(executed, current.call)
                    /\ stage' = "idle" => results'[Len(results')].outcome = "TimedOut"
<1>1. ASSUME RpcInv, [Next]_vars, behind, ~UNCHANGED vars PROVE fails
  <2>1. PICK log \in Seq(Entry), out \in SUBSET Nat : Agrees(log, out)
    BY <1>1 DEF RpcInv
  <2>2. current.call = Len(log) /\ Len(log) \notin out /\ executed \in Seq(out)
    BY <1>1, <2>1 DEF Agrees, LogInv, CutInv, HistoryInv
  <2>3. executed' # Append(executed, current.call)
    <3>1. ASSUME NEW S, NEW q \in Seq(S), NEW x, NEW y, Append(q, x) = Append(q, y) PROVE x = y
      <4>1. PICK n \in Nat : n = Len(q)
        BY <3>1
      <4>2. Append(q, x)[n + 1] = x /\ Append(q, y)[n + 1] = y
        BY <4>1
      <4> QED
        BY <3>1, <4>2
    <3>2. ASSUME NEW S, NEW q \in Seq(S), NEW x PROVE Append(q, x) # q
      <4>1. PICK n \in Nat : n = Len(q)
        BY <3>2
      <4>2. Len(Append(q, x)) = n + 1
        BY <4>1
      <4> QED
        BY <4>1, <4>2
    <3>3. executed' = executed \/ \E k \in out : executed' = Append(executed, k)
      <4>1. CASE pumpServer
        <5>1. Head(inboxes[plain(Server)]) \in Letters(log, out)
          <6>1. PICK q \in Seq(Letters(log, out)) : q = inboxes[plain(Server)]
            BY <2>1, ServerMail DEF Agrees
          <6>2. q # <<>>
            BY <4>1, <6>1 DEF pumpServer
          <6>3. Head(q) \in Letters(log, out)
            BY <6>2
          <6> QED
            BY <6>1, <6>3
        <5>2. Head(inboxes[plain(Server)]).body.call \in out
          BY <5>1, LetterCalls
        <5> QED
          BY <4>1, <5>2 DEF pumpServer
      <4>2. CASE ~pumpServer
        BY <1>1, <4>2 DEF Next, Step, startCall, tick, pumpDone, receive, cut, heal, vars
      <4> QED
        BY <4>1, <4>2
    <3>4. executed' # Append(executed, Len(log))
      <4>1. CASE executed' = executed
        BY <2>2, <3>2, <4>1
      <4>2. ASSUME NEW k \in out, executed' = Append(executed, k) PROVE executed' # Append(executed, Len(log))
        BY <2>2, <3>1, <4>2
      <4> QED
        BY <3>3, <4>1, <4>2
    <3> QED
      BY <2>2, <3>4
  <2>4. ASSUME stage' = "idle" PROVE results'[Len(results')].outcome = "TimedOut"
    <3>1. receive /\ stage = "receive"
      BY <1>1, <2>4 DEF Next, Step, startCall, tick, pumpServer, pumpDone, receive, cut, heal, vars
    <3>2. \A x \in DOMAIN inboxes[responsePort(home[current.client])] : Found(x).body.id # current.id
      BY <2>1, <2>2, <3>1, AnswerFound
    <3>3. return("TimedOut", 0)
      BY <2>4, <3>1, <3>2 DEF receive, matches, Found
    <3>4. results' = Append(results, [call |-> current.call, outcome |-> "TimedOut", answered |-> 0])
      BY <3>3 DEF return
    <3>5. results \in Seq([call : Nat, outcome : {"Success", "Error", "TimedOut"}, answered : Nat])
      BY <2>1 DEF Agrees, HistoryInv
    <3>6. ASSUME NEW S, NEW q \in Seq(S), NEW x PROVE Append(q, x)[Len(Append(q, x))] = x
      <4>1. PICK n \in Nat : n = Len(q)
        BY <3>6
      <4>2. Len(Append(q, x)) = n + 1 /\ Append(q, x)[n + 1] = x
        BY <4>1
      <4> QED
        BY <4>2
    <3>7. PICK r : r = [call |-> current.call, outcome |-> "TimedOut", answered |-> 0]
      OBVIOUS
    <3>8. results'[Len(results')] = r
      BY <3>4, <3>5, <3>6, <3>7
    <3> QED
      BY <3>7, <3>8
  <2> QED
    BY <2>3, <2>4
<1>2. RpcInv /\ [Next]_vars => [behind => fails]_vars
  BY <1>1
<1> QED
  BY <1>2, RpcInvariant, PTL DEF Spec, CutOffCallsFail
=============================================================================

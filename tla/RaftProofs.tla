----------------------------- MODULE RaftProofs -----------------------------
(***************************************************************************)
(* Proofs about Raft.tla for every cluster and every bound on the terms.   *)
(* The argument: a vote granted in the node's present term still stands    *)
(* (StandingVoteInv), so a node votes for at most one other node in a      *)
(* term; two majorities share a node; and the three ways in which that     *)
(* node could have served both leaders of one term are each excluded by    *)
(* LeaderInv or StandingVoteInv.                                           *)
(***************************************************************************)
EXTENDS Raft, FiniteSetTheorems, TLAPS

\* Two sets of nodes of majority size share a node: the "clusterSize / 2 + 1"
\* of processIncomingResponses really is a majority.
LEMMA MajoritiesMeet ==
    ASSUME NEW P \in SUBSET Node, NEW Q \in SUBSET Node,
           Cardinality(P) >= majority, Cardinality(Q) >= majority
    PROVE  P \cap Q # {}
<1>1. IsFiniteSet(Node)
  BY NodeAssumption
<1>2. Cardinality(Node) \in Nat
  BY <1>1, FS_CardinalityType
<1>3. Cardinality(P) \in Nat /\ Cardinality(Q) \in Nat
  BY <1>1, FS_Subset, FS_CardinalityType
<1>4. Cardinality(P) + Cardinality(Q) > Cardinality(Node)
  BY <1>2, <1>3 DEF majority
<1> QED
  BY <1>1, <1>4, FS_MajoritiesIntersect

\* A cluster of one node is its own majority (startElection with no peers).
LEMMA LonelyNode ==
    ASSUME NEW n \in Node, peers(n) = {}
    PROVE  Cardinality({n}) >= majority
<1>1. Node = {n}
  BY DEF peers
<1>2. Cardinality({n}) = 1
  BY FS_Singleton
<1> QED
  BY <1>1, <1>2 DEF majority

-----------------------------------------------------------------------------
\* The initial state satisfies the inductive invariant.
LEMMA InitIInv == Init => IInv
<1> SUFFICES ASSUME Init PROVE IInv
  OBVIOUS
<1> USE NodeAssumption, MaxTermAssumption DEF Init
<1>1. TypeOK
  BY DEF TypeOK, Role, Term
<1>2. SenderInv /\ OwnVoteInv /\ TallyInv /\ AckInv
  BY DEF SenderInv, OwnVoteInv, TallyInv, AckInv
<1>3. \A n, c \in Node, t \in Term : ~Voted(n, c, t) /\ ~Elected(n, t)
  BY DEF Voted, Elected
<1>4. StandingVoteInv /\ LeaderInv /\ OneVotePerTerm /\ AtMostOneLeaderPerTerm
  BY <1>3 DEF StandingVoteInv, LeaderInv, OneVotePerTerm, AtMostOneLeaderPerTerm
<1> QED
  BY <1>1, <1>2, <1>4 DEF IInv

\* What a message of the network carries, by the handler that reads it.
LEMMA MessageTypes ==
    ASSUME TypeOK, NEW m \in msgs
    PROVE  /\ m.from \in Node /\ m.to \in Node /\ m.term \in Term
           /\ m.type = "Response" => m \in Response
           /\ m.type # "Response" => m \in Request
BY DEF TypeOK, Request, Response

\* A handler's answer is a well-formed response.
LEMMA ResponseType ==
    ASSUME NEW m \in Request, NEW t \in Term, NEW ok \in BOOLEAN
    PROVE  ResponseTo(m, t, ok) \in Response
BY DEF Request, Response, ResponseTo

\* Type correctness is preserved by every handler.
LEMMA TypeStep ==
    ASSUME TypeOK, [Next]_vars
    PROVE  TypeOK'
<1> USE NodeAssumption, MaxTermAssumption
<1>1. ASSUME NEW n \in Node, startElection(n) PROVE TypeOK'
  <2>1. currentTerm[n] + 1 \in Term
    BY <1>1 DEF startElection, TypeOK, Term
  <2>2. {VoteRequest(n, p, currentTerm[n] + 1) : p \in peers(n)} \subseteq Request
    BY <2>1 DEF VoteRequest, peers, Request
  <2> QED
    BY <1>1, <2>1, <2>2 DEF startElection, TypeOK, Role
<1>2. ASSUME NEW m \in msgs, grantVote(m) PROVE TypeOK'
  <2>1. m \in Request /\ m.from \in Node /\ m.to \in Node /\ m.term \in Term
    BY <1>2, MessageTypes DEF grantVote
  <2>2. ResponseTo(m, m.term, TRUE) \in Response
    BY <2>1, ResponseType
  <2> QED
    BY <1>2, <2>1, <2>2 DEF grantVote, TypeOK, Role
<1>3. ASSUME NEW m \in msgs, refuseVote(m) PROVE TypeOK'
  <2>1. m \in Request /\ m.to \in Node
    BY <1>3, MessageTypes DEF refuseVote
  <2>2. ResponseTo(m, currentTerm[m.to], FALSE) \in Response
    BY <2>1, ResponseType DEF TypeOK
  <2> QED
    BY <1>3, <2>2 DEF refuseVote, TypeOK
<1>4. ASSUME NEW m \in msgs, refuseHeartbeat(m) PROVE TypeOK'
  <2>1. m \in Request /\ m.to \in Node
    BY <1>4, MessageTypes DEF refuseHeartbeat
  <2>2. ResponseTo(m, currentTerm[m.to], FALSE) \in Response
    BY <2>1, ResponseType DEF TypeOK
  <2> QED
    BY <1>4, <2>2 DEF refuseHeartbeat, TypeOK
<1>5. ASSUME NEW m \in msgs, acceptHeartbeat(m) PROVE TypeOK'
  <2>1. m \in Request /\ m.to \in Node /\ m.term \in Term
    BY <1>5, MessageTypes DEF acceptHeartbeat
  <2>2. ResponseTo(m, m.term, TRUE) \in Response
    BY <2>1, ResponseType
  <2> QED
    BY <1>5, <2>1, <2>2 DEF acceptHeartbeat, becomeFollower, TypeOK, Role
<1>6. ASSUME NEW m \in msgs, observeNewerTerm(m) PROVE TypeOK'
  <2>1. m.to \in Node /\ m.term \in Term
    BY MessageTypes
  <2> QED
    BY <1>6, <2>1 DEF observeNewerTerm, becomeFollower, TypeOK, Role
<1>7. ASSUME NEW m \in msgs, countVote(m) PROVE TypeOK'
  <2>1. m.to \in Node /\ m.from \in Node
    BY MessageTypes
  <2>2. {HeartbeatMsg(m.to, p, currentTerm[m.to]) : p \in peers(m.to)} \subseteq Request
    BY <2>1 DEF HeartbeatMsg, peers, Request, TypeOK
  <2> QED
    BY <1>7, <2>1, <2>2 DEF countVote, TypeOK, Role
<1>8. CASE UNCHANGED vars
  BY <1>8 DEF vars, TypeOK
<1> QED
  BY <1>1, <1>2, <1>3, <1>4, <1>5, <1>6, <1>7, <1>8 DEF Next

\* The handlers of a running cluster never leave their types.
THEOREM TypeCorrect == Spec => []TypeOK
<1>1. Init => TypeOK
  BY InitIInv DEF IInv
<1>2. TypeOK /\ [Next]_vars => TypeOK'
  BY TypeStep
<1> QED
  BY <1>1, <1>2, PTL DEF Spec

-----------------------------------------------------------------------------
\* The messages msgs' adds to msgs are neither votes nor heartbeats.
AddsNoVote ==
    /\ msgs \subseteq msgs'
    /\ \A m \in msgs' \ msgs :
          /\ m.type # "Heartbeat"
          /\ ~(m.type = "Response" /\ m.method = "RequestVote" /\ m.ok)

\* Votes are read off the messages, so such a step changes no vote.
LEMMA VotesKept ==
    ASSUME AddsNoVote
    PROVE  \A n, c \in Node, t \in Term : Voted(n, c, t)' <=> Voted(n, c, t)
BY DEF AddsNoVote, Voted

\* A step that only answers without a vote (refuseVote, refuseHeartbeat, and
\* acceptHeartbeat on a Follower of that term) keeps the invariant.
LEMMA AnswerStep ==
    ASSUME IInv, TypeOK', SenderInv', AckInv', AddsNoVote,
           UNCHANGED <<role, currentTerm, votedFor, votesReceived>>
    PROVE  IInv'
<1>1. \A n, c \in Node, t \in Term : Voted(n, c, t)' <=> Voted(n, c, t)
  BY VotesKept
<1>2. \A n \in Node, t \in Term : Elected(n, t)' <=> Elected(n, t)
  BY DEF AddsNoVote, Elected
<1>3. OwnVoteInv' /\ StandingVoteInv'
  BY <1>1 DEF IInv, OwnVoteInv, StandingVoteInv
<1>4. TallyInv'
  BY <1>1 DEF IInv, TallyInv, TypeOK
<1>5. LeaderInv'
  BY <1>1, <1>2 DEF IInv, LeaderInv, LedTerm
<1>6. OneVotePerTerm' /\ AtMostOneLeaderPerTerm'
  BY <1>1, <1>2 DEF IInv, OneVotePerTerm, AtMostOneLeaderPerTerm
<1> QED
  BY <1>3, <1>4, <1>5, <1>6 DEF IInv

\* becomeFollower(n, t) keeps the invariant when t is a later term, or the
\* present one of a Candidate (acceptHeartbeat and observeNewerTerm).
LEMMA DemotionStep ==
    ASSUME IInv, TypeOK', SenderInv', AckInv', AddsNoVote,
           NEW n \in Node, NEW t \in Term, becomeFollower(n, t),
           t >= currentTerm[n],
           t = currentTerm[n] => role[n] = "Candidate"
    PROVE  IInv'
<1> USE DEF Term
<1>1. \A v, c \in Node, u \in Term : Voted(v, c, u)' <=> Voted(v, c, u)
  BY VotesKept
<1>2. \A l \in Node, u \in Term : Elected(l, u)' => Elected(l, u)
  BY DEF AddsNoVote, Elected, becomeFollower, IInv, TypeOK
<1>3. OwnVoteInv' /\ TallyInv'
  BY <1>1 DEF IInv, OwnVoteInv, TallyInv, TypeOK, becomeFollower
<1>4. StandingVoteInv'
  <2> SUFFICES ASSUME NEW v \in Node, NEW c \in Node, Voted(v, c, currentTerm'[v]),
                      currentTerm'[v] \in Term
               PROVE  votedFor'[v] = c /\ role'[v] = "Follower"
    BY <1>1 DEF StandingVoteInv
  <2>1. CASE v = n
    <3>1. t <= currentTerm[n]
      BY <2>1 DEF IInv, SenderInv, Voted, becomeFollower, TypeOK
    <3>2. currentTerm[n] = t /\ role[n] = "Candidate"
      BY <3>1 DEF IInv, TypeOK
    <3>3. FALSE
      BY <2>1, <3>2 DEF IInv, StandingVoteInv, becomeFollower, TypeOK
    <3> QED
      BY <3>3
  <2>2. CASE v # n
    BY <2>2 DEF IInv, StandingVoteInv, becomeFollower, TypeOK
  <2> QED
    BY <2>1, <2>2
<1>5. LeaderInv'
  <2> SUFFICES ASSUME NEW l \in Node, NEW u \in Term, Elected(l, u)
               PROVE  LedTerm(l, u)'
    BY <1>2 DEF LeaderInv
  <2>1. LedTerm(l, u)
    BY DEF IInv, LeaderInv
  <2>2. currentTerm'[l] >= u
    BY <2>1 DEF LedTerm, becomeFollower, IInv, TypeOK
  <2>3. currentTerm'[l] = u => role'[l] = "Leader"
    BY <2>1 DEF LedTerm, becomeFollower, IInv, TypeOK
  <2> QED
    BY <1>1, <2>1, <2>2, <2>3 DEF LedTerm
<1>6. OneVotePerTerm' /\ AtMostOneLeaderPerTerm'
  BY <1>1, <1>2 DEF IInv, OneVotePerTerm, AtMostOneLeaderPerTerm
<1> QED
  BY <1>3, <1>4, <1>5, <1>6 DEF IInv

\* The invariant survives an election timeout.
LEMMA ElectionStep ==
    ASSUME IInv, TypeOK', NEW n \in Node, startElection(n)
    PROVE  IInv'
<1> USE DEF Term
<1>0. currentTerm[n] \in Nat /\ currentTerm'[n] = currentTerm[n] + 1
  BY DEF IInv, TypeOK, startElection
<1>1. AddsNoVote
  BY DEF AddsNoVote, startElection, VoteRequest
<1>2. \A v, c \in Node, u \in Term : Voted(v, c, u)' <=> Voted(v, c, u)
  BY <1>1, VotesKept
<1>3. SenderInv'
  <2> SUFFICES ASSUME NEW m \in msgs' PROVE m.from # m.to /\ m.term <= currentTerm'[m.from]
    BY DEF SenderInv
  <2>1. CASE m \in msgs
    BY <2>1, <1>0, MessageTypes DEF IInv, SenderInv, startElection, TypeOK
  <2>2. CASE m \notin msgs
    BY <2>2, <1>0 DEF startElection, VoteRequest, peers
  <2> QED
    BY <2>1, <2>2
<1>4. \A c \in Node : ~Voted(n, c, currentTerm'[n])
  BY <1>0 DEF IInv, SenderInv, Voted
<1>5. \A l \in Node, u \in Term :
         Elected(l, u)' => \/ Elected(l, u)
                           \/ l = n /\ u = currentTerm'[n] /\ peers(n) = {}
  BY <1>1 DEF Elected, AddsNoVote, startElection, IInv, TypeOK
<1>6. OwnVoteInv' /\ TallyInv'
  BY <1>2 DEF IInv, OwnVoteInv, TallyInv, TypeOK, startElection
<1>7. StandingVoteInv'
  BY <1>2, <1>4 DEF IInv, StandingVoteInv, TypeOK, startElection
<1>8. AckInv'
  BY DEF IInv, AckInv, startElection, VoteRequest
<1>9. LeaderInv'
  <2> SUFFICES ASSUME NEW l \in Node, NEW u \in Term, Elected(l, u)'
               PROVE  LedTerm(l, u)'
    BY DEF LeaderInv
  <2>1. CASE Elected(l, u)
    <3>1. LedTerm(l, u)
      BY <2>1 DEF IInv, LeaderInv
    <3>2. currentTerm'[l] >= u /\ (currentTerm'[l] = u => role'[l] = "Leader")
      BY <3>1, <1>0 DEF LedTerm, startElection, IInv, TypeOK
    <3> QED
      BY <1>2, <3>1, <3>2 DEF LedTerm
  <2>2. CASE l = n /\ u = currentTerm'[n] /\ peers(n) = {}
    <3>1. role'[n] = "Leader"
      BY <2>2 DEF startElection, IInv, TypeOK
    <3>2. Cardinality({n}) >= majority
      BY <2>2, LonelyNode
    <3> QED
      BY <1>0, <1>2, <1>4, <2>2, <3>1, <3>2 DEF LedTerm
  <2> QED
    BY <1>5, <2>1, <2>2
<1>10. OneVotePerTerm' /\ AtMostOneLeaderPerTerm'
  BY <1>2, <1>5 DEF IInv, OneVotePerTerm, AtMostOneLeaderPerTerm, peers
<1> QED
  BY <1>3, <1>6, <1>7, <1>8, <1>9, <1>10 DEF IInv

\* The invariant survives a granted vote.
LEMMA GrantStep ==
    ASSUME IInv, TypeOK', NEW m \in msgs, grantVote(m)
    PROVE  IInv'
<1> DEFINE n == m.to
           c == m.from
           T == m.term
<1> USE DEF Term
<1>1. n \in Node /\ c \in Node /\ T \in Term /\ c # n /\ T >= currentTerm[n]
  BY MessageTypes DEF IInv, SenderInv, grantVote
<1>2. currentTerm[n] = T => votedFor[n] \in {None, c}
  BY <1>1 DEF grantVote, voteFree
<1>3. currentTerm[n] = T => role[n] = "Follower"
  BY <1>1, <1>2, NodeAssumption DEF IInv, OwnVoteInv
<1>4. /\ currentTerm' = [currentTerm EXCEPT ![n] = T]
      /\ role' = [role EXCEPT ![n] = "Follower"]
      /\ votedFor' = [votedFor EXCEPT ![n] = c]
      /\ \A v \in Node \ {n} : votesReceived'[v] = votesReceived[v]
  BY <1>1, <1>3 DEF grantVote, IInv, TypeOK
<1>5. msgs' = msgs \cup {ResponseTo(m, T, TRUE)} /\ m.type = "RequestVote"
  BY DEF grantVote
<1>6. \A v, d \in Node, u \in Term :
         Voted(v, d, u)' <=> Voted(v, d, u) \/ (v = n /\ d = c /\ u = T)
  <2> DEFINE r == ResponseTo(m, T, TRUE)
  <2>1. /\ r.type = "Response" /\ r.method = "RequestVote" /\ r.ok
        /\ r.from = n /\ r.to = c /\ r.term = T
    BY <1>5 DEF ResponseTo
  <2>2. msgs' = msgs \cup {r}
    BY <1>5
  <2> HIDE DEF r
  <2> QED
    BY <2>1, <2>2 DEF Voted
<1>7. \A l \in Node, u \in Term : Elected(l, u)' => Elected(l, u)
  BY <1>1, <1>4, <1>5 DEF Elected, ResponseTo, IInv, TypeOK
<1>8. \A u \in Term : Elected(n, u) => u < T
  <2> SUFFICES ASSUME NEW u \in Term, Elected(n, u), u >= T PROVE FALSE
    BY <1>1
  <2>1. currentTerm[n] >= u /\ (currentTerm[n] = u => role[n] = "Leader")
    BY <1>1 DEF IInv, LeaderInv, LedTerm
  <2> QED
    BY <1>1, <1>3, <2>1 DEF IInv, TypeOK
<1>9. SenderInv'
  BY <1>1, <1>4, <1>5, MessageTypes DEF IInv, SenderInv, ResponseTo, TypeOK
<1>10. OwnVoteInv' /\ TallyInv'
  BY <1>1, <1>4, <1>6 DEF IInv, OwnVoteInv, TallyInv, TypeOK
<1>11. OneVotePerTerm'
  <2>1. \A d \in Node : Voted(n, d, T) => d = c
    <3> SUFFICES ASSUME NEW d \in Node, Voted(n, d, T) PROVE d = c
      OBVIOUS
    <3>1. T <= currentTerm[n]
      BY DEF IInv, SenderInv, Voted
    <3>2. currentTerm[n] = T
      BY <1>1, <3>1 DEF IInv, TypeOK
    <3> QED
      BY <1>1, <1>2, <3>2, NodeAssumption DEF IInv, StandingVoteInv
  <2> QED
    BY <1>6, <2>1 DEF IInv, OneVotePerTerm
<1>12. StandingVoteInv'
  <2> SUFFICES ASSUME NEW v \in Node, NEW d \in Node, NEW u \in Term,
                      u = currentTerm'[v], Voted(v, d, u)'
               PROVE  votedFor'[v] = d /\ role'[v] = "Follower"
    BY DEF StandingVoteInv
  <2>1. CASE v = n
    <3>1. Voted(n, c, T)'
      BY <1>1, <1>6
    <3>2. currentTerm'[n] = T
      BY <1>1, <1>4 DEF IInv, TypeOK
    <3>3. d = c
      BY <1>1, <1>11, <2>1, <3>1, <3>2 DEF OneVotePerTerm
    <3> QED
      BY <1>1, <1>4, <2>1, <3>3 DEF IInv, TypeOK
  <2>2. CASE v # n
    BY <1>1, <1>4, <1>6, <2>2 DEF IInv, StandingVoteInv, TypeOK
  <2> QED
    BY <2>1, <2>2
<1>13. AckInv'
  BY <1>5 DEF IInv, AckInv, ResponseTo
<1>14. LeaderInv'
  <2> SUFFICES ASSUME NEW l \in Node, NEW u \in Term, Elected(l, u)
               PROVE  LedTerm(l, u)'
    BY <1>7 DEF LeaderInv
  <2>1. LedTerm(l, u)
    BY DEF IInv, LeaderInv
  <2>2. currentTerm'[l] >= u /\ (currentTerm'[l] = u => role'[l] = "Leader")
    BY <1>1, <1>4, <1>8, <2>1 DEF LedTerm, IInv, TypeOK
  <2>3. \A d \in Node : ~Voted(l, d, u)'
    BY <1>6, <1>8, <2>1 DEF LedTerm
  <2> QED
    BY <1>6, <2>1, <2>2, <2>3 DEF LedTerm
<1>15. AtMostOneLeaderPerTerm'
  BY <1>7 DEF IInv, AtMostOneLeaderPerTerm
<1> QED
  BY <1>9, <1>10, <1>11, <1>12, <1>13, <1>14, <1>15 DEF IInv

\* The invariant survives a refused vote or a refused heartbeat.
LEMMA RefuseStep ==
    ASSUME IInv, TypeOK', NEW m \in msgs, refuseVote(m) \/ refuseHeartbeat(m)
    PROVE  IInv'
<1> DEFINE r == ResponseTo(m, currentTerm[m.to], FALSE)
<1>1. m.from \in Node /\ m.to \in Node /\ m.from # m.to
  BY MessageTypes DEF IInv, SenderInv
<1>2. /\ r.type = "Response" /\ ~r.ok /\ r.from = m.to /\ r.to = m.from
      /\ r.term = currentTerm[m.to]
  BY DEF ResponseTo
<1>3. /\ msgs' = msgs \cup {r}
      /\ UNCHANGED <<role, currentTerm, votedFor, votesReceived>>
  BY DEF refuseVote, refuseHeartbeat
<1> HIDE DEF r
<1>4. AddsNoVote
  BY <1>2, <1>3 DEF AddsNoVote
<1>5. SenderInv'
  BY <1>1, <1>2, <1>3 DEF IInv, SenderInv, TypeOK, Term
<1>6. AckInv'
  BY <1>2, <1>3 DEF IInv, AckInv
<1> QED
  BY <1>3, <1>4, <1>5, <1>6, AnswerStep

\* The invariant survives an accepted heartbeat: in the node's present term it
\* comes from the one leader of that term, so it never demotes a Leader.
LEMMA AcceptStep ==
    ASSUME IInv, TypeOK', NEW m \in msgs, acceptHeartbeat(m)
    PROVE  IInv'
<1> DEFINE n == m.to
           r == ResponseTo(m, m.term, TRUE)
<1> USE DEF Term
<1>1. m.from \in Node /\ n \in Node /\ m.from # n /\ m.term \in Term
      /\ m.type = "Heartbeat" /\ m.term >= currentTerm[n]
  BY MessageTypes DEF IInv, SenderInv, acceptHeartbeat
<1>2. /\ r.type = "Response" /\ r.method = "Heartbeat" /\ r.from = n
      /\ r.to = m.from /\ r.term = m.term
  BY <1>1 DEF ResponseTo
<1>3. msgs' = msgs \cup {r}
  BY DEF acceptHeartbeat
<1> HIDE DEF r
<1>4. AddsNoVote
  BY <1>2, <1>3 DEF AddsNoVote
<1>5. currentTerm'[n] = m.term /\ \A v \in Node \ {n} : currentTerm'[v] = currentTerm[v]
  BY <1>1 DEF acceptHeartbeat, becomeFollower, stepsDown, IInv, TypeOK
<1>6. SenderInv'
  BY <1>1, <1>2, <1>3, <1>5, MessageTypes DEF IInv, SenderInv, TypeOK
<1>7. AckInv'
  BY <1>1, <1>2, <1>3 DEF IInv, AckInv
<1>8. CASE stepsDown(n, m)
  <2>1. becomeFollower(n, m.term)
    BY <1>8 DEF acceptHeartbeat
  <2>2. m.term = currentTerm[n] => role[n] # "Leader"
    BY <1>1 DEF IInv, AtMostOneLeaderPerTerm, Elected
  <2>3. m.term = currentTerm[n] => role[n] = "Candidate"
    BY <1>1, <1>8, <2>2 DEF stepsDown, IInv, TypeOK, Role
  <2> QED
    BY <1>1, <1>4, <1>6, <1>7, <2>1, <2>3, DemotionStep
<1>9. CASE ~stepsDown(n, m)
  <2>1. UNCHANGED <<role, currentTerm, votedFor, votesReceived>>
    BY <1>9 DEF acceptHeartbeat
  <2> QED
    BY <1>4, <1>6, <1>7, <2>1, AnswerStep
<1> QED
  BY <1>8, <1>9

\* The invariant survives a response of a later term.
LEMMA ObserveStep ==
    ASSUME IInv, TypeOK', NEW m \in msgs, observeNewerTerm(m)
    PROVE  IInv'
<1>1. m.to \in Node /\ m.term \in Term /\ m.term > currentTerm[m.to]
      /\ becomeFollower(m.to, m.term) /\ UNCHANGED msgs
  BY MessageTypes DEF IInv, observeNewerTerm, newerTerm
<1>2. AddsNoVote /\ AckInv'
  BY <1>1 DEF AddsNoVote, IInv, AckInv
<1>3. SenderInv'
  BY <1>1, MessageTypes DEF IInv, SenderInv, TypeOK, becomeFollower, Term
<1>4. m.term >= currentTerm[m.to] /\ m.term # currentTerm[m.to]
  BY <1>1 DEF IInv, TypeOK, Term
<1> QED
  BY <1>1, <1>2, <1>3, <1>4, DemotionStep

\* The invariant survives a counted response.  It is a vote and no heartbeat
\* ack (AckInv), and when it completes a majority no other node has led or will
\* lead this term.
LEMMA CountStep ==
    ASSUME IInv, TypeOK', NEW m \in msgs, countVote(m)
    PROVE  IInv'
<1> DEFINE n == m.to
           T == currentTerm[n]
           votes == votesReceived[n] \cup {m.from}
           wins == Cardinality(votes) >= majority
<1> USE DEF Term
<1>1. /\ n \in Node /\ m.from \in Node /\ m.from # n /\ T \in Term
      /\ role[n] = "Candidate" /\ m.term = T /\ m.ok /\ m.type = "Response"
  BY MessageTypes DEF IInv, SenderInv, countVote, TypeOK
<1>2. /\ votesReceived' = [votesReceived EXCEPT ![n] = votes]
      /\ UNCHANGED <<currentTerm, votedFor>>
      /\ wins => /\ role' = [role EXCEPT ![n] = "Leader"]
                 /\ msgs' = msgs \cup {HeartbeatMsg(n, p, T) : p \in peers(n)}
      /\ ~wins => UNCHANGED <<role, msgs>>
  BY DEF countVote
<1>3. \A h \in msgs' : h \in msgs \/ (/\ wins /\ h.type = "Heartbeat"
                                       /\ h.from = n /\ h.term = T /\ h.to \in peers(n))
  BY <1>2 DEF HeartbeatMsg
<1>4. msgs \subseteq msgs'
  BY <1>2
<1>5. ~Elected(n, T)
  BY <1>1 DEF IInv, LeaderInv, LedTerm
<1>6. Voted(m.from, n, T)
  <2>1. m.method = "RequestVote"
    BY <1>1, <1>5, MessageTypes DEF IInv, AckInv, Elected, Response
  <2> QED
    BY <1>1, <2>1 DEF Voted
<1>7. n \in votes /\ votes \subseteq Node /\ \A v \in votes \ {n} : Voted(v, n, T)
  BY <1>1, <1>6 DEF IInv, TallyInv, TypeOK
<1>8. \A c \in Node : ~Voted(n, c, T)
  BY <1>1 DEF IInv, StandingVoteInv
<1> HIDE DEF wins, votes
<1>9. \A v, c \in Node, u \in Term : Voted(v, c, u)' <=> Voted(v, c, u)
  BY <1>3, <1>4 DEF Voted
<1>10. \A l \in Node, u \in Term :
          Elected(l, u)' => Elected(l, u) \/ (wins /\ l = n /\ u = T)
  BY <1>1, <1>2, <1>3 DEF Elected, IInv, TypeOK
<1>11. SenderInv'
  BY <1>1, <1>2, <1>3 DEF IInv, SenderInv, TypeOK, peers
<1>12. OwnVoteInv' /\ StandingVoteInv'
  BY <1>1, <1>2, <1>8, <1>9 DEF IInv, OwnVoteInv, StandingVoteInv, TypeOK
<1>13. TallyInv'
  BY <1>1, <1>2, <1>7, <1>9 DEF IInv, TallyInv, TypeOK
<1>14. AckInv'
  BY <1>3, <1>4 DEF IInv, AckInv
<1>15. OneVotePerTerm'
  BY <1>9 DEF IInv, OneVotePerTerm
<1>16. LeaderInv'
  <2> SUFFICES ASSUME NEW l \in Node, NEW u \in Term, Elected(l, u)'
               PROVE  LedTerm(l, u)'
    BY DEF LeaderInv
  <2>1. CASE Elected(l, u)
    <3>1. LedTerm(l, u)
      BY <2>1 DEF IInv, LeaderInv
    <3>2. currentTerm'[l] >= u /\ (currentTerm'[l] = u => role'[l] = "Leader")
      BY <1>1, <1>2, <3>1 DEF LedTerm, IInv, TypeOK
    <3> QED
      BY <1>9, <3>1, <3>2 DEF LedTerm
  <2>2. CASE wins /\ l = n /\ u = T
    <3>1. currentTerm'[n] = T /\ role'[n] = "Leader" /\ T \in Nat
      BY <1>1, <1>2, <2>2 DEF IInv, TypeOK
    <3>2. Cardinality(votes) >= majority
      BY <2>2 DEF wins
    <3> QED
      BY <1>7, <1>8, <1>9, <2>2, <3>1, <3>2 DEF LedTerm
  <2> QED
    BY <1>10, <2>1, <2>2
<1>17. ASSUME wins, NEW l \in Node, Elected(l, T) PROVE l = n
  <2>1. LedTerm(l, T)
    BY <1>1, <1>17 DEF IInv, LeaderInv
  <2>2. PICK Q \in SUBSET Node : /\ l \in Q
                                 /\ Cardinality(Q) >= majority
                                 /\ \A v \in Q \ {l} : Voted(v, l, T)
    BY <2>1 DEF LedTerm
  <2>3. PICK v \in Node : v \in Q /\ v \in votes
    BY <1>7, <1>17, <2>2, MajoritiesMeet DEF wins
  <2>4. CASE v = l
    BY <1>1, <1>7, <2>1, <2>3, <2>4 DEF LedTerm
  <2>5. CASE v = n
    BY <1>1, <1>8, <2>2, <2>3, <2>5
  <2>6. CASE v # l /\ v # n
    BY <1>1, <1>7, <2>2, <2>3, <2>6 DEF IInv, OneVotePerTerm
  <2> QED
    BY <2>4, <2>5, <2>6
<1>18. AtMostOneLeaderPerTerm'
  BY <1>1, <1>10, <1>17 DEF IInv, AtMostOneLeaderPerTerm
<1> QED
  BY <1>11, <1>12, <1>13, <1>14, <1>15, <1>16, <1>18 DEF IInv

-----------------------------------------------------------------------------
\* IInv is inductive: one case per handler.
LEMMA InductiveStep ==
    ASSUME IInv, [Next]_vars
    PROVE  IInv'
<1>1. TypeOK'
  BY TypeStep DEF IInv
<1>2. CASE \E n \in Node : startElection(n)
  BY <1>1, <1>2, ElectionStep
<1>3. CASE \E m \in msgs : grantVote(m)
  BY <1>1, <1>3, GrantStep
<1>4. CASE \E m \in msgs : refuseVote(m) \/ refuseHeartbeat(m)
  BY <1>1, <1>4, RefuseStep
<1>5. CASE \E m \in msgs : acceptHeartbeat(m)
  BY <1>1, <1>5, AcceptStep
<1>6. CASE \E m \in msgs : observeNewerTerm(m)
  BY <1>1, <1>6, ObserveStep
<1>7. CASE \E m \in msgs : countVote(m)
  BY <1>1, <1>7, CountStep
<1>8. CASE UNCHANGED vars
  <2>1. AddsNoVote /\ SenderInv' /\ AckInv'
    BY <1>8 DEF vars, AddsNoVote, IInv, SenderInv, AckInv
  <2> QED
    BY <1>1, <1>8, <2>1, AnswerStep DEF vars
<1> QED
  BY <1>2, <1>3, <1>4, <1>5, <1>6, <1>7, <1>8 DEF Next

\* Every reachable state satisfies the inductive invariant.
THEOREM Inductive == Spec => []IInv
<1>1. Init => IInv
  BY InitIInv
<1>2. IInv /\ [Next]_vars => IInv'
  BY InductiveStep
<1> QED
  BY <1>1, <1>2, PTL DEF Spec

\* Election safety (ADR 0009): a term never has two leaders, in clusters of any
\* size, whatever the network drops, repeats, delays or reorders.
THEOREM ElectionSafety == Spec => []AtMostOneLeaderPerTerm
<1>1. IInv => AtMostOneLeaderPerTerm
  BY DEF IInv
<1> QED
  BY <1>1, Inductive, PTL

\* A node votes for at most one other node in a term, although becomeFollower
\* forgets votedForThisTerm when a Candidate hears a heartbeat of its own term.
THEOREM VoteSafety == Spec => []OneVotePerTerm
<1>1. IInv => OneVotePerTerm
  BY DEF IInv
<1> QED
  BY <1>1, Inductive, PTL

\* No step of a handler demotes a Leader that stays in its term: the
\* "(implausibly, but handled) a stale Leader" branch is dead code.
THEOREM LeaderStays == Spec => LeaderKeepsTerm
<1> DEFINE Stays == \A n \in Node : role[n] = "Leader" /\ currentTerm'[n] = currentTerm[n]
                                       => role'[n] = "Leader"
<1>1. ASSUME IInv, IInv', [Next]_vars PROVE Stays
  <2> SUFFICES ASSUME NEW n \in Node, role[n] = "Leader", currentTerm'[n] = currentTerm[n]
               PROVE  role'[n] = "Leader"
    OBVIOUS
  <2> USE <1>1 DEF Term
  <2>1. \A i \in Node : role[i] \in Role /\ currentTerm[i] \in Nat
    BY DEF IInv, TypeOK
  <2>2. CASE \E i \in Node : startElection(i)
    BY <2>1, <2>2 DEF startElection, IInv, TypeOK
  <2>3. ASSUME NEW m \in msgs, grantVote(m) PROVE role'[n] = "Leader"
    BY <2>1, <2>3, MessageTypes DEF grantVote, IInv, TypeOK
  <2>4. CASE \E m \in msgs : refuseVote(m) \/ refuseHeartbeat(m)
    BY <2>4 DEF refuseVote, refuseHeartbeat
  <2>5. ASSUME NEW m \in msgs, acceptHeartbeat(m) PROVE role'[n] = "Leader"
    <3>1. m.to \in Node /\ m.from \in Node /\ m.term \in Term /\ m.from # m.to
      BY MessageTypes DEF IInv, SenderInv
    <3>2. ~(m.to = n /\ m.term = currentTerm[n])
      BY <2>5, <3>1 DEF acceptHeartbeat, IInv, AtMostOneLeaderPerTerm, Elected
    <3> QED
      BY <2>1, <2>5, <3>1, <3>2 DEF acceptHeartbeat, becomeFollower, IInv, TypeOK
  <2>6. ASSUME NEW m \in msgs, observeNewerTerm(m) PROVE role'[n] = "Leader"
    BY <2>1, <2>6, MessageTypes
       DEF observeNewerTerm, newerTerm, becomeFollower, IInv, TypeOK
  <2>7. ASSUME NEW m \in msgs, countVote(m) PROVE role'[n] = "Leader"
    BY <2>1, <2>7, MessageTypes DEF countVote, IInv, TypeOK
  <2>8. CASE UNCHANGED vars
    BY <2>8 DEF vars
  <2> QED
    BY <2>2, <2>3, <2>4, <2>5, <2>6, <2>7, <2>8 DEF Next
<1>2. IInv /\ IInv' /\ [Next]_vars => [Stays]_vars
  BY <1>1
<1> QED
  BY <1>2, Inductive, PTL DEF Spec, LeaderKeepsTerm

\* Terms never go back, and a Follower's vote is final within its term.
THEOREM VoteStays == Spec => VoteIsFinal
<1> DEFINE Final == \A n \in Node :
              /\ currentTerm'[n] >= currentTerm[n]
              /\ (currentTerm'[n] = currentTerm[n] /\ role[n] = "Follower"
                      /\ votedFor[n] # None)
                     => votedFor'[n] = votedFor[n]
<1>1. ASSUME IInv, IInv', [Next]_vars PROVE Final
  <2> SUFFICES ASSUME NEW n \in Node
               PROVE  /\ currentTerm'[n] >= currentTerm[n]
                      /\ (currentTerm'[n] = currentTerm[n] /\ role[n] = "Follower"
                              /\ votedFor[n] # None)
                             => votedFor'[n] = votedFor[n]
    OBVIOUS
  <2> DEFINE Goal == /\ currentTerm'[n] >= currentTerm[n]
                     /\ (currentTerm'[n] = currentTerm[n] /\ role[n] = "Follower"
                             /\ votedFor[n] # None)
                            => votedFor'[n] = votedFor[n]
  <2> USE <1>1 DEF Term
  <2>1. \A i \in Node : currentTerm[i] \in Nat
    BY DEF IInv, TypeOK
  <2>2. CASE \E i \in Node : startElection(i)
    BY <2>1, <2>2 DEF startElection, IInv, TypeOK
  <2>3. ASSUME NEW m \in msgs, grantVote(m) PROVE Goal
    BY <2>1, <2>3, MessageTypes DEF grantVote, voteFree, IInv, TypeOK
  <2>4. CASE \E m \in msgs : refuseVote(m) \/ refuseHeartbeat(m)
    <3>1. UNCHANGED <<currentTerm, votedFor>>
      BY <2>4 DEF refuseVote, refuseHeartbeat
    <3> QED
      BY <2>1, <3>1
  <2>5. ASSUME NEW m \in msgs, acceptHeartbeat(m) PROVE Goal
    BY <2>1, <2>5, MessageTypes
       DEF acceptHeartbeat, stepsDown, becomeFollower, IInv, TypeOK
  <2>6. ASSUME NEW m \in msgs, observeNewerTerm(m) PROVE Goal
    BY <2>1, <2>6, MessageTypes
       DEF observeNewerTerm, newerTerm, becomeFollower, IInv, TypeOK
  <2>7. ASSUME NEW m \in msgs, countVote(m) PROVE Goal
    BY <2>1, <2>7, MessageTypes DEF countVote, IInv, TypeOK
  <2>8. CASE UNCHANGED vars
    BY <2>1, <2>8 DEF vars
  <2> QED
    BY <2>2, <2>3, <2>4, <2>5, <2>6, <2>7, <2>8 DEF Next
<1>2. IInv /\ IInv' /\ [Next]_vars => [Final]_vars
  BY <1>1
<1> QED
  BY <1>2, Inductive, PTL DEF Spec, VoteIsFinal

\* Both together: a node takes back neither its leadership nor its vote within a
\* term, for any finite cluster.
THEOREM PromisesKept == Spec => NothingTakenBack
BY LeaderStays, VoteStays DEF NothingTakenBack
=============================================================================

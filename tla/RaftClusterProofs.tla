------------------------- MODULE RaftClusterProofs --------------------------
(***************************************************************************)
(* Proofs about RaftCluster.tla for every set of nodes, every range of the *)
(* timers, every delay and every choice of the network's faults: the timers*)
(* and terms stay in range, and the cluster with its ticks, timers and     *)
(* network implements the election of Raft.tla.  What RaftProofs.tla says  *)
(* of the election therefore holds of the cluster.                         *)
(* And when nothing is dropped and the shortest election timeout outlasts  *)
(* a heartbeat's interval and delay, a leader everyone hears stays.        *)
(***************************************************************************)
EXTENDS RaftCluster, SimNetworkProofs, FiniteSetTheorems

(***************************************************************************)
(* The inductive invariant.                                                *)
(***************************************************************************)
Role == {"Follower", "Candidate", "Leader"}
Term == 0..MaxTerm
NodeState == [role : Role, term : Term, votedFor : Node \cup {None}, votes : SUBSET Node,
              electionTimer : 1..MaxTimeout, heartbeatTimer : 1..HeartbeatInterval]

Request == [type : {"RequestVote", "Heartbeat"}, term : Term, from : Node, to : Node]
Response == [type : {"Response"}, method : {"RequestVote", "Heartbeat"},
             term : Term, ok : BOOLEAN, from : Node, to : Node]

TypeInv ==
    /\ node \in [Node -> NodeState]
    /\ phase \in {"deliver", "pump", "responses", "timers"}
    /\ todo \subseteq Node
    /\ sent \subseteq Request \cup Response

\* What may be under way to the address a: what was sent to its node, requests
\* to the plain id and responses to the response port.
Bodies(a) == {m \in sent : /\ m.to = a.node
                           /\ m \in IF a.port = "request" THEN Request ELSE Response}
Mail == [a \in Addr |-> [from : Node, body : Bodies(a)]]

\* The network holds nothing that was not sent.
MailInv == FlightType(Mail) /\ BoxType(Mail)

\* A Leader has sent every peer a heartbeat of its term, so that repeating it
\* says nothing new.
LeadInv ==
    \A n \in Node : node[n].role = "Leader" =>
        \A p \in peers(n) : HeartbeatMsg(n, node[n].term, p) \in sent

ClusterInv == TypeInv /\ MailInv /\ LeadInv
-----------------------------------------------------------------------------
(***************************************************************************)
(* The handlers, and the node a loop visits next.                          *)
(***************************************************************************)

LEMMA FirstIs == ASSUME NEW S \in SUBSET Node, S # {} PROVE first(S) \in S
<1>1. PICK x \in S : \A y \in S : x <= y
  BY NodeIds, LeastExists
<1> QED
  BY <1>1 DEF first

LEMMA Compare ==
    \A a, b \in Nat : /\ a >= b <=> ~(a < b)
                      /\ a > b => a >= b /\ a # b
                      /\ a = b => a >= b /\ ~(a > b)
                      /\ a >= b /\ ~(a > b) => a = b
                      /\ a <= b <=> ~(a > b)
  OBVIOUS

\* Raft.tla counts as this module does.
LEMMA SameCardinality == \A S : Election!Cardinality(S) = Cardinality(S)
  BY DEF Cardinality, Election!Cardinality

LEMMA TermsAre == Term \subseteq Nat /\ 0 \in Term
  BY ClusterBounds DEF Term

LEMMA TimeoutsAre == Timeout \subseteq 1..MaxTimeout /\ HeartbeatInterval \in 1..HeartbeatInterval
  BY TimerAssumption DEF Timeout

LEMMA DemotedIs ==
    ASSUME NEW st \in NodeState, NEW t \in Term
    PROVE  /\ becomeFollower(st, t) \in NodeState
           /\ becomeFollower(st, t).term = t /\ becomeFollower(st, t).role = "Follower"
           /\ becomeFollower(st, t).votedFor = None /\ becomeFollower(st, t).votes = {}
  BY DEF becomeFollower, NodeState, Role

\* The node may vote for the sender of the request m.
free(st, m) == m.term >= st.term /\ (m.term > st.term \/ st.votedFor \in {None, m.from})

\* handleRequestVote in the two cases of Raft.tla: the vote is granted or refused.
VoteOutcome(st, m, h) ==
    /\ h.state \in NodeState /\ h.term \in Term /\ h.ok \in BOOLEAN
    /\ free(st, m) => /\ h.ok = TRUE /\ h.term = m.term /\ h.state.term = m.term
                      /\ h.state.votedFor = m.from
    /\ free(st, m) /\ m.term > st.term => h.state.role = "Follower" /\ h.state.votes = {}
    /\ free(st, m) /\ ~(m.term > st.term) => h.state.role = st.role /\ h.state.votes = st.votes
    /\ ~free(st, m) => h.ok = FALSE /\ h.state = st /\ h.term = st.term

LEMMA VoteHandled ==
    ASSUME NEW st \in NodeState, NEW m \in Request, NEW timeout \in Timeout
    PROVE  VoteOutcome(st, m, handleRequestVote(st, m, timeout))
<1> DEFINE h == handleRequestVote(st, m, timeout)
<1> DEFINE fresh == becomeFollower(st, m.term)
<1>1. m.term \in Term /\ st.term \in Term /\ m.from \in Node
  BY DEF Request, NodeState
<1>n. /\ m.term >= st.term <=> ~(m.term < st.term)
      /\ m.term > st.term => m.term >= st.term /\ m.term # st.term
      /\ m.term = st.term => m.term >= st.term /\ ~(m.term > st.term)
      /\ m.term >= st.term /\ ~(m.term > st.term) => m.term = st.term
  BY <1>1, TermsAre, Compare, Zenon
<1>2. timeout \in 1..MaxTimeout
  BY TimeoutsAre
<1>3. fresh \in NodeState /\ fresh.term = m.term /\ fresh.role = "Follower"
      /\ fresh.votedFor = None /\ fresh.votes = {}
  BY <1>1, DemotedIs
<1>4. \A s \in NodeState :
        LET g == [s EXCEPT !.votedFor = m.from, !.electionTimer = timeout]
        IN  g \in NodeState /\ g.term = s.term /\ g.votedFor = m.from
            /\ g.role = s.role /\ g.votes = s.votes
  BY <1>1, <1>2 DEF NodeState
<1> HIDE DEF fresh
<1>5. CASE m.term > st.term
  <2>1. PICK g : g = [fresh EXCEPT !.votedFor = m.from, !.electionTimer = timeout]
    OBVIOUS
  <2>3. h = [state |-> g, term |-> m.term, ok |-> TRUE]
    BY <2>1, <1>3, <1>5 DEF handleRequestVote, fresh
  <2>4. /\ g \in NodeState /\ g.term = fresh.term /\ g.role = fresh.role
        /\ g.votes = fresh.votes /\ g.votedFor = m.from
    BY <1>3, <1>4, <2>1
  <2> QED
    BY <1>1, <1>n, <1>3, <1>5, <2>3, <2>4 DEF free, VoteOutcome
<1>6. CASE ~(m.term > st.term) /\ m.term = st.term /\ st.votedFor \in {None, m.from}
  <2>1. PICK g : g = [st EXCEPT !.votedFor = m.from, !.electionTimer = timeout]
    OBVIOUS
  <2>3. h = [state |-> g, term |-> st.term, ok |-> TRUE]
    BY <2>1, <1>6 DEF handleRequestVote
  <2>4. /\ g \in NodeState /\ g.term = st.term /\ g.role = st.role
        /\ g.votes = st.votes /\ g.votedFor = m.from
    BY <1>4, <2>1
  <2> QED
    BY <1>1, <1>n, <1>6, <2>3, <2>4 DEF free, VoteOutcome
<1>7. CASE ~(m.term > st.term) /\ ~(m.term = st.term /\ st.votedFor \in {None, m.from})
  <2>1. h = [state |-> st, term |-> st.term, ok |-> FALSE]
    BY <1>7 DEF handleRequestVote
  <2>2. m.term >= st.term => m.term = st.term
    BY <1>n, <1>7
  <2> QED
    BY <1>1, <1>n, <1>7, <2>1, <2>2 DEF free, VoteOutcome
<1> QED
  BY <1>5, <1>6, <1>7

\* A heartbeat that is not stale makes the node a follower anew.
down(st, m) == m.term > st.term \/ st.role # "Follower"

\* handleHeartbeat: refused, obeyed by stepping down, or obeyed.
HeartbeatOutcome(st, m, h) ==
    /\ h.state \in NodeState /\ h.term \in Term /\ h.ok \in BOOLEAN
    /\ m.term < st.term => h.ok = FALSE /\ h.state = st /\ h.term = st.term
    /\ m.term >= st.term => h.ok = TRUE /\ h.term = m.term /\ h.state.term = m.term
                            /\ h.state.role = "Follower"
    /\ m.term >= st.term /\ down(st, m) => h.state.votedFor = None /\ h.state.votes = {}
    /\ m.term >= st.term /\ ~down(st, m) =>
          h.state.votedFor = st.votedFor /\ h.state.votes = st.votes

LEMMA HeartbeatHandled ==
    ASSUME NEW st \in NodeState, NEW m \in Request, NEW timeout \in Timeout
    PROVE  HeartbeatOutcome(st, m, handleHeartbeat(st, m, timeout))
<1> DEFINE h == handleHeartbeat(st, m, timeout)
<1> DEFINE fresh == becomeFollower(st, m.term)
<1>1. m.term \in Term /\ st.term \in Term
  BY DEF Request, NodeState
<1>n. /\ m.term >= st.term <=> ~(m.term < st.term)
      /\ m.term > st.term => m.term >= st.term /\ m.term # st.term
      /\ m.term = st.term => m.term >= st.term /\ ~(m.term > st.term)
      /\ m.term >= st.term /\ ~(m.term > st.term) => m.term = st.term
  BY <1>1, TermsAre, Compare, Zenon
<1>2. timeout \in 1..MaxTimeout
  BY TimeoutsAre
<1>3. fresh \in NodeState /\ fresh.term = m.term /\ fresh.role = "Follower"
      /\ fresh.votedFor = None /\ fresh.votes = {}
  BY <1>1, DemotedIs
<1>4. \A s \in NodeState :
        LET g == [s EXCEPT !.electionTimer = timeout]
        IN  g \in NodeState /\ g.term = s.term /\ g.votedFor = s.votedFor
            /\ g.role = s.role /\ g.votes = s.votes
  BY <1>2 DEF NodeState
<1> HIDE DEF fresh
<1>5. CASE m.term < st.term
  <2>1. h = [state |-> st, term |-> st.term, ok |-> FALSE]
    BY <1>5 DEF handleHeartbeat
  <2>2. ~(m.term >= st.term)
    BY <1>n, <1>5
  <2> QED
    BY <1>1, <1>n, <1>5, <2>1, <2>2 DEF down, HeartbeatOutcome
<1>6. CASE ~(m.term < st.term) /\ (m.term > st.term \/ st.role # "Follower")
  <2>1. PICK g : g = [fresh EXCEPT !.electionTimer = timeout]
    OBVIOUS
  <2>3. h = [state |-> g, term |-> m.term, ok |-> TRUE]
    BY <2>1, <1>3, <1>6 DEF handleHeartbeat, fresh
  <2>4. /\ g \in NodeState /\ g.term = fresh.term /\ g.role = fresh.role
        /\ g.votes = fresh.votes /\ g.votedFor = fresh.votedFor
    BY <1>3, <1>4, <2>1
  <2> QED
    BY <1>1, <1>n, <1>3, <1>6, <2>3, <2>4 DEF down, HeartbeatOutcome
<1>7. CASE ~(m.term < st.term) /\ ~(m.term > st.term \/ st.role # "Follower")
  <2>1. PICK g : g = [st EXCEPT !.electionTimer = timeout]
    OBVIOUS
  <2>2. m.term = st.term
    BY <1>n, <1>7
  <2>3. h = [state |-> g, term |-> st.term, ok |-> TRUE]
    BY <2>1, <1>7 DEF handleHeartbeat
  <2>4. /\ g \in NodeState /\ g.term = st.term /\ g.role = st.role
        /\ g.votes = st.votes /\ g.votedFor = st.votedFor
    BY <1>4, <2>1
  <2> QED
    BY <1>1, <1>n, <1>7, <2>2, <2>3, <2>4 DEF down, HeartbeatOutcome
<1> QED
  BY <1>5, <1>6, <1>7
-----------------------------------------------------------------------------
(***************************************************************************)
(* The variables of Raft.tla, as RaftCluster's state defines them, after a *)
(* step that changes one node.                                             *)
(***************************************************************************)
roles == [n \in Node |-> node[n].role]
terms == [n \in Node |-> node[n].term]
ballots == [n \in Node |-> node[n].votedFor]
tallies == [n \in Node |-> node[n].votes]

Mapped(n, st) ==
    /\ roles' = [roles EXCEPT ![n] = st.role]
    /\ terms' = [terms EXCEPT ![n] = st.term]
    /\ ballots' = [ballots EXCEPT ![n] = st.votedFor]
    /\ tallies' = [tallies EXCEPT ![n] = st.votes]
    /\ st.role = node[n].role => roles' = roles
    /\ st.term = node[n].term => terms' = terms
    /\ st.votedFor = node[n].votedFor => ballots' = ballots
    /\ st.votes = node[n].votes => tallies' = tallies

LEMMA MappedStep ==
    ASSUME node \in [Node -> NodeState], NEW n \in Node, NEW st,
           node' = [node EXCEPT ![n] = st]
    PROVE  Mapped(n, st)
<1>1. \A k \in Node : node'[k] = IF k = n THEN st ELSE node[k]
  OBVIOUS
<1> QED
  BY <1>1 DEF Mapped, roles, terms, ballots, tallies

LEMMA MappedSame == ASSUME node' = node
                    PROVE  roles' = roles /\ terms' = terms /\ ballots' = ballots /\ tallies' = tallies
  BY DEF roles, terms, ballots, tallies

\* A step of the election, or none.
Refines == [Election!Next]_(Election!vars)

LEMMA ElectionStutters ==
    ASSUME roles' = roles, terms' = terms, ballots' = ballots, tallies' = tallies, sent' = sent
    PROVE  Refines
  BY DEF Refines, Election!vars, roles, terms, ballots, tallies

-----------------------------------------------------------------------------
(***************************************************************************)
(* The parts of the invariant that follow from what a step sends.          *)
(***************************************************************************)

LEMMA MailGrows ==
    ASSUME sent \subseteq sent'
    PROVE  \A a \in Addr : Mail[a] \subseteq Mail'[a]
  BY DEF Mail, Bodies

LEMMA MailIs ==
    ASSUME NEW n \in Node
    PROVE  /\ plain(n) \in Addr /\ responsePort(n) \in Addr
           /\ \A m : m \in Bodies(plain(n)) <=> m \in sent /\ m.to = n /\ m \in Request
           /\ \A m : m \in Bodies(responsePort(n)) <=> m \in sent /\ m.to = n /\ m \in Response
<1>1. plain(n) \in Addr /\ plain(n).node = n /\ plain(n).port = "request"
  BY DEF plain, Addr
<1>2. responsePort(n) \in Addr /\ responsePort(n).node = n /\ responsePort(n).port = "response"
  BY DEF responsePort, Addr
<1> QED
  BY <1>1, <1>2 DEF Bodies

\* Nothing changes but the network, by a tick.
LEMMA DeliverStep == ASSUME ClusterInv, deliver PROVE ClusterInv' /\ Refines
<1>1. UNCHANGED <<node, todo, sent>> /\ phase' = "pump" /\ netTick
  BY DEF deliver
<1>2. PICK W : W = Mail
  OBVIOUS
<1>3. Mail' = W
  BY <1>1, <1>2 DEF Mail, Bodies
<1>4. FlightType(W)' /\ BoxType(W)'
  BY <1>1, <1>2, TickCarries DEF ClusterInv, MailInv
<1>5. MailInv'
  BY <1>3, <1>4 DEF MailInv, FlightType, BoxType
<1>6. TypeInv' /\ LeadInv'
  BY <1>1 DEF ClusterInv, TypeInv, LeadInv
<1>7. Refines
  BY <1>1, MappedSame, ElectionStutters
<1> QED
  BY <1>5, <1>6, <1>7 DEF ClusterInv
\* Loops that end, and links that change: nothing the invariant is about.
LEMMA QuietStep ==
    ASSUME ClusterInv, UNCHANGED <<inFlight, inboxes, node, sent>>,
           phase' \in {"deliver", "pump", "responses", "timers"}, todo' \subseteq Node
    PROVE  ClusterInv' /\ Refines
<1>1. Mail' = Mail
  BY DEF Mail, Bodies
<1>2. MailInv'
  BY <1>1 DEF ClusterInv, MailInv, FlightType, BoxType
<1>3. TypeInv' /\ LeadInv'
  BY DEF ClusterInv, TypeInv, LeadInv
<1>4. Refines
  BY MappedSame, ElectionStutters
<1> QED
  BY <1>2, <1>3, <1>4 DEF ClusterInv

\* A Leader that stays Leader in its term keeps what it has sent.
LEMMA LeadKept ==
    ASSUME ClusterInv, NEW n \in Node, NEW st, node' = [node EXCEPT ![n] = st],
           sent \subseteq sent',
           st.role = "Leader" => node[n].role = "Leader" /\ st.term = node[n].term
    PROVE  LeadInv'
<1>1. \A k \in Node : node'[k] = IF k = n THEN st ELSE node[k]
  BY DEF ClusterInv, TypeInv
<1> QED
  BY <1>1 DEF ClusterInv, LeadInv, peers, HeartbeatMsg

\* The letter a node takes from its inbox was sent to it.
LEMMA TakenIs ==
    ASSUME ClusterInv, NEW port \in {"request", "response"}, waiting(port) # {},
           NEW n, n = first(waiting(port)), NEW a, a = [node |-> n, port |-> port]
    PROVE  /\ n \in Node /\ a \in Addr /\ inboxes[a] # <<>>
           /\ Head(inboxes[a]).body \in Bodies(a)
<1>1. n \in Node /\ inboxes[a] # <<>>
  BY FirstIs DEF waiting
<1>2. a \in Addr
  BY <1>1 DEF Addr
<1>3. inboxes[a] \in Seq(Mail[a])
  BY <1>2 DEF ClusterInv, MailInv, BoxType
<1>4. Head(inboxes[a]) \in Mail[a]
  BY <1>1, <1>3
<1> QED
  BY <1>1, <1>2, <1>4 DEF Mail

\* pumpServer is one of Raft's four answers to a request.
LEMMA PumpStep == ASSUME ClusterInv, pumpServer PROVE ClusterInv' /\ Refines
<1>1. PICK n : n = first(waiting("request"))
  OBVIOUS
<1>2. PICK m : m = Head(inboxes[plain(n)]).body
  OBVIOUS
<1>3. PICK timeout \in Timeout :
         LET h == handle(node[n], m, timeout)
             response == [type |-> "Response", method |-> m.type, term |-> h.term,
                          ok |-> h.ok, from |-> n, to |-> m.from]
         IN /\ node' = [node EXCEPT ![n] = h.state]
            /\ sent' = sent \cup {response}
            /\ send(n, responsePort(m.from), response)
  BY <1>1, <1>2 DEF pumpServer
<1>4. PICK h : h = handle(node[n], m, timeout)
  OBVIOUS
<1>5. PICK r : r = [type |-> "Response", method |-> m.type, term |-> h.term,
                    ok |-> h.ok, from |-> n, to |-> m.from]
  OBVIOUS
<1>6. /\ node' = [node EXCEPT ![n] = h.state] /\ sent' = sent \cup {r}
      /\ send(n, responsePort(m.from), r)
  BY <1>3, <1>4, <1>5
<1>7. /\ phase = "pump" /\ waiting("request") # {} /\ UNCHANGED <<partitions, phase, todo>>
      /\ inboxes' = [inboxes EXCEPT ![plain(n)] = Tail(@)]
  BY <1>1 DEF pumpServer
<1>8. n \in Node /\ plain(n) \in Addr /\ inboxes[plain(n)] # <<>> /\ m \in Bodies(plain(n))
  BY <1>1, <1>2, <1>7, TakenIs DEF plain
<1>9. m \in sent /\ m.to = n /\ m \in Request
  BY <1>8, MailIs
<1>10. node[n] \in NodeState /\ node \in [Node -> NodeState]
  BY <1>8 DEF ClusterInv, TypeInv
<1>11. m.from \in Node /\ m.type \in {"RequestVote", "Heartbeat"} /\ m.term \in Term
  BY <1>9 DEF Request
<1>12. m.type = "RequestVote" => h = handleRequestVote(node[n], m, timeout)
  BY <1>4 DEF handle
<1>13. m.type = "Heartbeat" => h = handleHeartbeat(node[n], m, timeout)
  BY <1>4 DEF handle
<1>14. h.state \in NodeState /\ h.term \in Term /\ h.ok \in BOOLEAN
  <2>1. CASE m.type = "RequestVote"
    <3>1. h = handleRequestVote(node[n], m, timeout)
      BY <1>12, <2>1
    <3> QED
      BY <1>9, <1>10, <3>1, VoteHandled DEF VoteOutcome
  <2>2. CASE m.type = "Heartbeat"
    <3>1. h = handleHeartbeat(node[n], m, timeout)
      BY <1>13, <2>2
    <3> QED
      BY <1>9, <1>10, <3>1, HeartbeatHandled DEF HeartbeatOutcome
  <2> QED
    BY <1>11, <2>1, <2>2
<1>15. r \in Response /\ r.to = m.from
  BY <1>5, <1>8, <1>11, <1>14 DEF Response
<1>16. TypeInv'
  BY <1>6, <1>7, <1>14, <1>15 DEF ClusterInv, TypeInv
<1>17. PICK V : V = Mail'
  OBVIOUS
<1>18. \A a \in Addr : Mail[a] \subseteq V[a]
  BY <1>6, <1>17, MailGrows
<1>19. FlightType(V) /\ BoxType(V)
  BY <1>18, CarriesMore DEF ClusterInv, MailInv
<1>20. [from |-> n, body |-> r] \in V[responsePort(m.from)] /\ responsePort(m.from) \in Addr
  <2>1. responsePort(m.from) \in Addr /\ responsePort(m.from).node = m.from
        /\ responsePort(m.from).port = "response"
    BY <1>11 DEF responsePort, Addr
  <2>2. r \in sent'
    BY <1>6
  <2> QED
    BY <1>8, <1>15, <1>17, <2>1, <2>2 DEF Mail, Bodies
<1>21. FlightType(V)'
  BY <1>6, <1>8, <1>19, <1>20, SendCarries
<1>22. BoxType(V)'
  BY <1>7, <1>8, <1>19, TakeCarries
<1>23. MailInv'
  BY <1>17, <1>21, <1>22 DEF MailInv, FlightType, BoxType
<1>map. Mapped(n, h.state)
  BY <1>6, <1>8, <1>10, MappedStep
<1>24. CASE m.type = "RequestVote"
  <2>0. /\ free(node[n], m) => /\ h.ok = TRUE /\ h.term = m.term /\ h.state.term = m.term
                               /\ h.state.votedFor = m.from
        /\ free(node[n], m) /\ m.term > node[n].term =>
              h.state.role = "Follower" /\ h.state.votes = {}
        /\ free(node[n], m) /\ ~(m.term > node[n].term) =>
              h.state.role = node[n].role /\ h.state.votes = node[n].votes
        /\ ~free(node[n], m) => h.ok = FALSE /\ h.state = node[n] /\ h.term = node[n].term
    <3>1. h = handleRequestVote(node[n], m, timeout)
      BY <1>12, <1>24
    <3>2. VoteOutcome(node[n], m, h)
      BY <1>9, <1>10, <3>1, VoteHandled
    <3> QED
      BY <3>2 DEF VoteOutcome
  <2>n. node[n].term \in Nat /\ m.term \in Nat
    BY <1>10, <1>11, TermsAre DEF NodeState
  <2>c. /\ m.term >= node[n].term <=> ~(m.term < node[n].term)
        /\ m.term >= node[n].term /\ ~(m.term > node[n].term) => m.term = node[n].term
    BY <2>n, Compare, Zenon
  <2>1. h.state.role = "Leader" => node[n].role = "Leader" /\ h.state.term = node[n].term
    BY <2>0, <2>c DEF free
  <2>2. LeadInv'
    BY <1>6, <1>8, <2>1, LeadKept
  <2>3. ASSUME free(node[n], m) PROVE Refines
    <3>1. r = [type |-> "Response", method |-> m.type, term |-> m.term, ok |-> TRUE,
               from |-> m.to, to |-> m.from]
      BY <1>5, <1>9, <2>0, <2>3
    <3>2. /\ roles' = [roles EXCEPT ![n] = h.state.role]
          /\ terms' = [terms EXCEPT ![n] = m.term]
          /\ ballots' = [ballots EXCEPT ![n] = m.from]
          /\ tallies' = [tallies EXCEPT ![n] = h.state.votes]
          /\ ~(m.term > node[n].term) => roles' = roles /\ tallies' = tallies
      <4>1. h.state.term = m.term /\ h.state.votedFor = m.from
        BY <2>0, <2>3
      <4> QED
        BY <1>map, <2>0, <2>3, <4>1 DEF Mapped
    <3>3. roles[n] = node[n].role /\ terms[n] = node[n].term /\ ballots[n] = node[n].votedFor
      BY <1>8 DEF roles, terms, ballots
    <3>4. m.term > terms[n] => roles' = [roles EXCEPT ![n] = "Follower"]
                               /\ tallies' = [tallies EXCEPT ![n] = {}]
      BY <2>0, <2>3, <3>2, <3>3
    <3>5. m.term >= terms[n] /\ (m.term > terms[n] \/ ballots[n] \in {None, m.from})
      BY <2>3, <3>3 DEF free
    <3>6. sent' = sent \cup {Election!ResponseTo(m, m.term, TRUE)}
      BY <1>6, <3>1 DEF Election!ResponseTo
    <3>7. Election!grantVote(m)
      BY <1>9, <1>24, <3>2, <3>3, <3>4, <3>5, <3>6
         DEF Election!grantVote, Election!voteFree, roles, terms, ballots, tallies
    <3> QED
      BY <1>9, <3>7 DEF Refines, Election!Next
  <2>4. ASSUME ~free(node[n], m) PROVE Refines
    <3>1. r = [type |-> "Response", method |-> m.type, term |-> node[n].term, ok |-> FALSE,
               from |-> m.to, to |-> m.from]
      BY <1>5, <1>9, <2>0, <2>4
    <3>2. roles' = roles /\ terms' = terms /\ ballots' = ballots /\ tallies' = tallies
      BY <1>map, <2>0, <2>4 DEF Mapped
    <3>3. Election!refuseVote(m)
      BY <1>6, <1>8, <1>9, <1>24, <2>c, <2>4, <3>1, <3>2
         DEF free, Election!refuseVote, Election!voteFree, Election!ResponseTo, roles, terms, ballots,
             tallies
    <3> QED
      BY <1>9, <3>3 DEF Refines, Election!Next
  <2> QED
    BY <1>16, <1>23, <2>2, <2>3, <2>4 DEF ClusterInv
<1>25. CASE m.type = "Heartbeat"
  <2>0. HeartbeatOutcome(node[n], m, h)
    <3>1. h = handleHeartbeat(node[n], m, timeout)
      BY <1>13, <1>25
    <3> QED
      BY <1>9, <1>10, <3>1, HeartbeatHandled
  <2>n. node[n].term \in Nat /\ m.term \in Nat
    BY <1>10, <1>11, TermsAre DEF NodeState
  <2>c. m.term >= node[n].term <=> ~(m.term < node[n].term)
    BY <2>n, Compare, Zenon
  <2>d. m.term >= node[n].term /\ ~(m.term > node[n].term) => m.term = node[n].term
    BY <2>n, Compare, Zenon
  <2>1. h.state.role = "Leader" => node[n].role = "Leader" /\ h.state.term = node[n].term
    BY <2>0, <2>c DEF HeartbeatOutcome
  <2>2. LeadInv'
    BY <1>6, <1>8, <2>1, LeadKept
  <2>3. roles[n] = node[n].role /\ terms[n] = node[n].term /\ ballots[n] = node[n].votedFor
    BY <1>8 DEF roles, terms, ballots
  <2>4. ASSUME m.term < node[n].term PROVE Refines
    <3>1. h.ok = FALSE /\ h.state = node[n] /\ h.term = node[n].term
      BY <2>0, <2>4 DEF HeartbeatOutcome
    <3>2. sent' = sent \cup {Election!ResponseTo(m, node[n].term, FALSE)}
      BY <1>5, <1>6, <1>9, <3>1 DEF Election!ResponseTo
    <3>3. roles' = roles /\ terms' = terms /\ ballots' = ballots /\ tallies' = tallies
      BY <1>map, <3>1 DEF Mapped
    <3>4. Election!refuseHeartbeat(m)
      BY <1>9, <1>25, <2>3, <2>4, <3>2, <3>3
         DEF Election!refuseHeartbeat, roles, terms, ballots, tallies
    <3> QED
      BY <1>9, <3>4 DEF Refines, Election!Next
  <2>5. ASSUME m.term >= node[n].term PROVE Refines
    <3>1. h.ok = TRUE /\ h.term = m.term /\ h.state.term = m.term /\ h.state.role = "Follower"
      BY <2>0, <2>5 DEF HeartbeatOutcome
    <3>2. sent' = sent \cup {Election!ResponseTo(m, m.term, TRUE)}
      BY <1>5, <1>6, <1>9, <3>1 DEF Election!ResponseTo
    <3>3. CASE down(node[n], m)
      <4>1. h.state.votedFor = None /\ h.state.votes = {}
        BY <2>0, <2>5, <3>3 DEF HeartbeatOutcome
      <4>2. /\ roles' = [roles EXCEPT ![n] = "Follower"] /\ terms' = [terms EXCEPT ![n] = m.term]
            /\ ballots' = [ballots EXCEPT ![n] = None] /\ tallies' = [tallies EXCEPT ![n] = {}]
        BY <1>map, <3>1, <4>1 DEF Mapped
      <4>3. m.term > terms[n] \/ roles[n] # "Follower"
        BY <2>3, <3>3 DEF down
      <4>4. Election!acceptHeartbeat(m)
        BY <1>9, <1>25, <2>3, <2>5, <3>2, <4>2, <4>3
           DEF Election!acceptHeartbeat, Election!stepsDown, Election!becomeFollower,
               roles, terms, ballots, tallies
      <4> QED
        BY <1>9, <4>4 DEF Refines, Election!Next
    <3>4. CASE ~down(node[n], m)
      <4>1. h.state.votedFor = node[n].votedFor /\ h.state.votes = node[n].votes
        BY <2>0, <2>5, <3>4 DEF HeartbeatOutcome
      <4>2. node[n].role = "Follower" /\ node[n].term = m.term /\ ~(m.term > node[n].term)
        BY <2>d, <2>5, <3>4 DEF down
      <4>3. roles' = roles /\ terms' = terms /\ ballots' = ballots /\ tallies' = tallies
        BY <1>map, <3>1, <4>1, <4>2 DEF Mapped
      <4>4. Election!acceptHeartbeat(m)
        BY <1>9, <1>25, <2>3, <2>5, <3>2, <4>2, <4>3
           DEF Election!acceptHeartbeat, Election!stepsDown, roles, terms, ballots, tallies
      <4> QED
        BY <1>9, <4>4 DEF Refines, Election!Next
    <3> QED
      BY <3>3, <3>4
  <2> QED
    BY <1>16, <1>23, <2>c, <2>2, <2>4, <2>5 DEF ClusterInv
<1> QED
  BY <1>11, <1>24, <1>25
\* A request to every peer is under way only once it is sent.
LEMMA BroadcastMail ==
    ASSUME ClusterInv, NEW n \in Node, NEW f, \A p \in peers(n) : f[p] \in Request /\ f[p].to = p,
           sent' = sent \cup {f[p] : p \in peers(n)}, broadcast(n, peers(n), f)
    PROVE  FlightType(Mail)'
<1>1. PICK V : V = Mail'
  OBVIOUS
<1>2. \A a \in Addr : Mail[a] \subseteq V[a]
  BY <1>1, MailGrows
<1>3. FlightType(V)
  BY <1>2, CarriesMore DEF ClusterInv, MailInv
<1>4. ASSUME NEW p \in peers(n) PROVE [from |-> n, body |-> f[p]] \in V[plain(p)]
  <2>1. plain(p) \in Addr /\ plain(p).node = p /\ plain(p).port = "request"
    BY DEF plain, Addr, peers
  <2>2. f[p] \in sent' /\ f[p] \in Request /\ f[p].to = p
    OBVIOUS
  <2> QED
    BY <1>1, <2>1, <2>2 DEF Mail, Bodies
<1>5. peers(n) \in SUBSET Node
  BY DEF peers
<1>6. FlightType(V)'
  BY <1>3, <1>4, <1>5, BroadcastCarries
<1> QED
  BY <1>1, <1>6 DEF FlightType

\* Inboxes that are only read hold what was sent.
LEMMA BoxMail ==
    ASSUME ClusterInv, sent \subseteq sent',
           \/ UNCHANGED inboxes
           \/ \E a \in Addr : inboxes[a] # <<>> /\ inboxes' = [inboxes EXCEPT ![a] = Tail(@)]
    PROVE  BoxType(Mail)'
<1>1. PICK V : V = Mail'
  OBVIOUS
<1>2. \A a \in Addr : Mail[a] \subseteq V[a]
  BY <1>1, MailGrows
<1>3. BoxType(V)
  BY <1>2, CarriesMore DEF ClusterInv, MailInv
<1>4. BoxType(V)'
  <2>1. CASE UNCHANGED inboxes
    BY <1>3, <2>1 DEF BoxType
  <2>2. CASE \E a \in Addr : inboxes[a] # <<>> /\ inboxes' = [inboxes EXCEPT ![a] = Tail(@)]
    BY <1>3, <2>2, TakeCarries
  <2> QED
    BY <2>1, <2>2
<1> QED
  BY <1>1, <1>4 DEF BoxType

LEMMA FlightMail ==
    ASSUME ClusterInv, UNCHANGED <<inFlight, sent>>
    PROVE  FlightType(Mail)'
<1>1. Mail' = Mail
  BY DEF Mail, Bodies
<1> QED
  BY <1>1 DEF ClusterInv, MailInv, FlightType

LEMMA HeartbeatMsgIs ==
    ASSUME NEW n \in Node, NEW t \in Term, NEW p \in peers(n)
    PROVE  HeartbeatMsg(n, t, p) \in Request /\ HeartbeatMsg(n, t, p).to = p
  BY DEF HeartbeatMsg, Request, peers

LEMMA VoteRequestIs ==
    ASSUME NEW n \in Node, NEW t \in Term, NEW p \in peers(n)
    PROVE  VoteRequest(n, t, p) \in Request /\ VoteRequest(n, t, p).to = p
  BY DEF VoteRequest, Request, peers

\* A node that has just sent its heartbeats may lead.
LEMMA LeadBegun ==
    ASSUME ClusterInv, NEW n \in Node, NEW st, node' = [node EXCEPT ![n] = st],
           sent' = sent \cup {HeartbeatMsg(n, st.term, p) : p \in peers(n)}
    PROVE  LeadInv'
<1>1. \A k \in Node : node'[k] = IF k = n THEN st ELSE node[k]
  BY DEF ClusterInv, TypeInv
<1>2. \A k \in Node : k # n /\ node'[k].role = "Leader" =>
         \A p \in peers(k) : HeartbeatMsg(k, node'[k].term, p) \in sent'
  BY <1>1 DEF ClusterInv, LeadInv
<1>3. \A p \in peers(n) : HeartbeatMsg(n, node'[n].term, p) \in sent'
  BY <1>1
<1> QED
  BY <1>2, <1>3 DEF LeadInv

\* processIncomingResponses: a newer term, a vote that counts, or nothing.
LEMMA ResponseStep == ASSUME ClusterInv, processResponse PROVE ClusterInv' /\ Refines
<1>1. PICK n : n = first(waiting("response"))
  OBVIOUS
<1>2. PICK m : m = Head(inboxes[responsePort(n)]).body
  OBVIOUS
<1>3. PICK st : st = node[n]
  OBVIOUS
<1>4. PICK won : won = tally(st, m.from)
  OBVIOUS
<1>5. /\ phase = "responses" /\ waiting("response") # {}
      /\ inboxes' = [inboxes EXCEPT ![responsePort(n)] = Tail(@)]
      /\ UNCHANGED <<partitions, phase, todo>>
  BY <1>1 DEF processResponse
<1>6. n \in Node /\ responsePort(n) \in Addr /\ inboxes[responsePort(n)] # <<>>
      /\ m \in Bodies(responsePort(n))
  BY <1>1, <1>2, <1>5, TakenIs DEF responsePort
<1>7. m \in sent /\ m.to = n /\ m \in Response
  BY <1>6, MailIs
<1>8. st \in NodeState /\ node \in [Node -> NodeState]
  BY <1>3, <1>6 DEF ClusterInv, TypeInv
<1>9. m.from \in Node /\ m.type = "Response" /\ m.term \in Term /\ m.ok \in BOOLEAN
  BY <1>7 DEF Response
<1>10. /\ won \in NodeState /\ won.role = st.role /\ won.term = st.term
       /\ won.votedFor = st.votedFor /\ won.votes = st.votes \cup {m.from}
  BY <1>4, <1>8, <1>9 DEF tally, NodeState
<1>11. roles[n] = st.role /\ terms[n] = st.term /\ ballots[n] = st.votedFor /\ tallies[n] = st.votes
  BY <1>3, <1>6 DEF roles, terms, ballots, tallies
<1>12. st.term \in Nat /\ m.term \in Nat /\ (m.term <= st.term <=> ~(m.term > st.term))
  <2>1. st.term \in Nat /\ m.term \in Nat
    BY <1>8, <1>9, TermsAre DEF NodeState
  <2> QED
    BY <2>1, Compare, Zenon
<1>13. ASSUME NEW S \in NodeState, node' = [node EXCEPT ![n] = S], UNCHANGED sent PROVE TypeInv'
  BY <1>5, <1>8, <1>13 DEF ClusterInv, TypeInv
<1>14. sent \subseteq sent' => BoxType(Mail)'
  BY <1>5, <1>6, BoxMail
<1>15. \/ /\ m.term > st.term
          /\ node' = [node EXCEPT ![n] = becomeFollower(st, m.term)]
          /\ UNCHANGED <<inFlight, sent>>
       \/ /\ m.term <= st.term /\ ~counts(st, m)
          /\ UNCHANGED <<inFlight, node, sent>>
       \/ /\ m.term <= st.term /\ counts(st, m) /\ ~wins(won)
          /\ node' = [node EXCEPT ![n] = won]
          /\ UNCHANGED <<inFlight, sent>>
       \/ /\ m.term <= st.term /\ counts(st, m) /\ wins(won)
          /\ node' = [node EXCEPT ![n] = becomeLeader(won)]
          /\ broadcast(n, peers(n), [p \in peers(n) |-> HeartbeatMsg(n, st.term, p)])
          /\ sent' = sent \cup {HeartbeatMsg(n, st.term, p) : p \in peers(n)}
  BY <1>1, <1>2, <1>3, <1>4 DEF processResponse
<1>16. CASE /\ m.term > st.term
            /\ node' = [node EXCEPT ![n] = becomeFollower(st, m.term)]
            /\ UNCHANGED <<inFlight, sent>>
  <2>1. PICK S : S = becomeFollower(st, m.term)
    OBVIOUS
  <2>2. S \in NodeState /\ S.term = m.term /\ S.role = "Follower" /\ S.votedFor = None /\ S.votes = {}
    BY <1>8, <1>9, <2>1, DemotedIs
  <2>3. node' = [node EXCEPT ![n] = S] /\ UNCHANGED <<inFlight, sent>>
    BY <1>16, <2>1
  <2>4. MailInv' /\ TypeInv'
    BY <1>13, <1>14, <2>2, <2>3, FlightMail DEF MailInv
  <2>5. LeadInv'
    BY <1>6, <2>2, <2>3, LeadKept
  <2>6. Mapped(n, S)
    BY <1>6, <1>8, <2>3, MappedStep
  <2>7. /\ roles' = [roles EXCEPT ![n] = "Follower"] /\ terms' = [terms EXCEPT ![n] = m.term]
        /\ ballots' = [ballots EXCEPT ![n] = None] /\ tallies' = [tallies EXCEPT ![n] = {}]
    BY <2>2, <2>6 DEF Mapped
  <2>8. Election!observeNewerTerm(m)
    BY <1>7, <1>9, <1>11, <1>16, <2>7
       DEF Election!observeNewerTerm, Election!newerTerm, Election!becomeFollower,
           roles, terms, ballots, tallies
  <2>9. Refines
    BY <1>7, <2>8 DEF Refines, Election!Next
  <2> QED
    BY <2>4, <2>5, <2>9 DEF ClusterInv
<1>17. CASE m.term <= st.term /\ ~counts(st, m) /\ UNCHANGED <<inFlight, node, sent>>
  <2>1. MailInv'
    BY <1>14, <1>17, FlightMail DEF MailInv
  <2>2. TypeInv' /\ LeadInv'
    BY <1>5, <1>17 DEF ClusterInv, TypeInv, LeadInv
  <2>3. Refines
    BY <1>17, MappedSame, ElectionStutters
  <2> QED
    BY <2>1, <2>2, <2>3 DEF ClusterInv
<1>18. ASSUME counts(st, m)
       PROVE  st.role = "Candidate" /\ m.term = st.term /\ m.ok
  BY <1>18 DEF counts
<1>19. wins(won) <=> Cardinality(tallies[n] \cup {m.from}) >= Election!majority
  <2>1. won.votes = tallies[n] \cup {m.from}
    BY <1>10, <1>11
  <2>2. majority = Election!majority
    BY SameCardinality DEF majority, Election!majority
  <2> QED
    BY <2>1, <2>2 DEF wins
<1>20. CASE /\ m.term <= st.term /\ counts(st, m) /\ ~wins(won)
            /\ node' = [node EXCEPT ![n] = won]
            /\ UNCHANGED <<inFlight, sent>>
  <2>1. MailInv' /\ TypeInv'
    BY <1>10, <1>13, <1>14, <1>20, FlightMail DEF MailInv
  <2>2. LeadInv'
    BY <1>3, <1>6, <1>10, <1>20, LeadKept
  <2>3. Mapped(n, won)
    BY <1>6, <1>8, <1>20, MappedStep
  <2>4. roles' = roles /\ terms' = terms /\ ballots' = ballots
        /\ tallies' = [tallies EXCEPT ![n] = tallies[n] \cup {m.from}]
    BY <1>3, <1>10, <1>11, <2>3 DEF Mapped
  <2>5. ~(m.term > terms[n]) /\ roles[n] = "Candidate" /\ m.term = terms[n] /\ m.ok
    BY <1>11, <1>12, <1>18, <1>20
  <2>6. Election!countVote(m)
    BY <1>7, <1>9, <1>19, <1>20, <2>4, <2>5, SameCardinality
       DEF Election!countVote, Election!newerTerm, roles, terms, ballots, tallies
  <2>7. Refines
    BY <1>7, <2>6 DEF Refines, Election!Next
  <2> QED
    BY <2>1, <2>2, <2>7 DEF ClusterInv
<1>21. CASE /\ m.term <= st.term /\ counts(st, m) /\ wins(won)
            /\ node' = [node EXCEPT ![n] = becomeLeader(won)]
            /\ broadcast(n, peers(n), [p \in peers(n) |-> HeartbeatMsg(n, st.term, p)])
            /\ sent' = sent \cup {HeartbeatMsg(n, st.term, p) : p \in peers(n)}
  <2>1. PICK S : S = becomeLeader(won)
    OBVIOUS
  <2>2. /\ S \in NodeState /\ S.term = st.term /\ S.role = "Leader" /\ S.votedFor = st.votedFor
        /\ S.votes = st.votes \cup {m.from}
    BY <1>10, <2>1, TimeoutsAre DEF becomeLeader, NodeState, Role
  <2>3. PICK f : f = [p \in peers(n) |-> HeartbeatMsg(n, st.term, p)]
    OBVIOUS
  <2>4. st.term \in Term
    BY <1>8 DEF NodeState
  <2>5. \A p \in peers(n) : f[p] = HeartbeatMsg(n, st.term, p) /\ f[p] \in Request /\ f[p].to = p
    BY <1>6, <2>3, <2>4, HeartbeatMsgIs
  <2>6. sent' = sent \cup {f[p] : p \in peers(n)} /\ broadcast(n, peers(n), f)
    BY <1>21, <2>3, <2>5
  <2>7. MailInv'
    BY <1>6, <1>14, <2>5, <2>6, BroadcastMail DEF MailInv
  <2>8. node' = [node EXCEPT ![n] = S]
        /\ sent' = sent \cup {HeartbeatMsg(n, S.term, p) : p \in peers(n)}
    BY <1>21, <2>1, <2>2
  <2>9. LeadInv'
    BY <1>6, <2>8, LeadBegun
  <2>10. TypeInv'
    <3>1. sent' \subseteq Request \cup Response
      BY <2>5, <2>6 DEF ClusterInv, TypeInv
    <3> QED
      BY <1>5, <1>8, <2>2, <2>8, <3>1 DEF ClusterInv, TypeInv
  <2>11. Mapped(n, S)
    BY <1>6, <1>8, <2>8, MappedStep
  <2>12. roles' = [roles EXCEPT ![n] = "Leader"] /\ terms' = terms /\ ballots' = ballots
         /\ tallies' = [tallies EXCEPT ![n] = tallies[n] \cup {m.from}]
    BY <1>3, <1>11, <2>2, <2>11 DEF Mapped
  <2>13. ~(m.term > terms[n]) /\ roles[n] = "Candidate" /\ m.term = terms[n] /\ m.ok
    BY <1>11, <1>12, <1>18, <1>21
  <2>14. sent' = sent \cup {Election!HeartbeatMsg(n, p, terms[n]) : p \in Election!peers(n)}
    BY <1>11, <1>21 DEF HeartbeatMsg, Election!HeartbeatMsg, peers, Election!peers
  <2>15. Election!countVote(m)
    BY <1>7, <1>9, <1>19, <1>21, <2>12, <2>13, <2>14, SameCardinality
       DEF Election!countVote, Election!newerTerm, roles, terms, ballots, tallies
  <2>16. Refines
    BY <1>7, <2>15 DEF Refines, Election!Next
  <2> QED
    BY <2>7, <2>9, <2>10, <2>16 DEF ClusterInv
<1> QED
  BY <1>15, <1>16, <1>17, <1>20, <1>21
\* What the timer loop leaves alone.
LEMMA VisitedIs ==
    ASSUME ClusterInv, NEW n \in Node, phase = "timers", visited(n)
    PROVE  /\ phase' \in {"deliver", "pump", "responses", "timers"} /\ todo' \subseteq Node
           /\ UNCHANGED inboxes
  BY DEF visited, ClusterInv, TypeInv

\* countDown: the timer that is due next stays positive.
LEMMA CountDownStep ==
    ASSUME ClusterInv, NEW n \in Node, phase = "timers", countDown(n), visited(n)
    PROVE  ClusterInv' /\ Refines
<1>1. node \in [Node -> NodeState] /\ node[n] \in NodeState
  BY DEF ClusterInv, TypeInv
<1>2. UNCHANGED <<inFlight, inboxes, sent>>
  BY VisitedIs DEF countDown
<1>3. \A i \in 1..MaxTimeout : i > 1 => i - 1 \in 1..MaxTimeout
  BY TimerAssumption
<1>4. \A i \in 1..HeartbeatInterval : i > 1 => i - 1 \in 1..HeartbeatInterval
  BY TimerAssumption
<1>5. PICK S : S = IF node[n].role = "Leader"
                   THEN [node[n] EXCEPT !.heartbeatTimer = @ - 1]
                   ELSE [node[n] EXCEPT !.electionTimer = @ - 1]
  OBVIOUS
<1>6. node' = [node EXCEPT ![n] = S]
  BY <1>1, <1>5 DEF countDown
<1>7. node[n].electionTimer \in 1..MaxTimeout /\ node[n].heartbeatTimer \in 1..HeartbeatInterval
  BY <1>1 DEF NodeState
<1>8. /\ S \in NodeState /\ S.role = node[n].role /\ S.term = node[n].term
      /\ S.votedFor = node[n].votedFor /\ S.votes = node[n].votes
  <2>1. CASE node[n].role = "Leader"
    <3>1. node[n].heartbeatTimer - 1 \in 1..HeartbeatInterval
      BY <1>4, <1>7, <2>1 DEF countDown
    <3> QED
      BY <1>1, <1>5, <2>1, <3>1 DEF NodeState
  <2>2. CASE node[n].role # "Leader"
    <3>1. node[n].electionTimer - 1 \in 1..MaxTimeout
      BY <1>3, <1>7, <2>2 DEF countDown
    <3> QED
      BY <1>1, <1>5, <2>2, <3>1 DEF NodeState
  <2> QED
    BY <2>1, <2>2
<1>9. TypeInv'
  BY <1>1, <1>2, <1>6, <1>8, VisitedIs DEF ClusterInv, TypeInv
<1>10. MailInv'
  BY <1>2, FlightMail, BoxMail DEF MailInv
<1>11. LeadInv'
  BY <1>2, <1>6, <1>8, LeadKept
<1>12. Mapped(n, S)
  BY <1>1, <1>6, MappedStep
<1>13. Refines
  <2>1. roles' = roles /\ terms' = terms /\ ballots' = ballots /\ tallies' = tallies
    BY <1>8, <1>12 DEF Mapped
  <2> QED
    BY <1>2, <2>1, ElectionStutters
<1> QED
  BY <1>9, <1>10, <1>11, <1>13 DEF ClusterInv

\* sendHeartbeats repeats what becomeLeader has sent: the election stutters.
LEMMA HeartbeatsStep ==
    ASSUME ClusterInv, NEW n \in Node, phase = "timers", sendHeartbeats(n), visited(n)
    PROVE  ClusterInv' /\ Refines
<1>1. node \in [Node -> NodeState] /\ node[n] \in NodeState /\ node[n].term \in Term
  BY DEF ClusterInv, TypeInv, NodeState
<1>2. PICK f : f = [p \in peers(n) |-> HeartbeatMsg(n, node[n].term, p)]
  OBVIOUS
<1>3. \A p \in peers(n) : /\ f[p] = HeartbeatMsg(n, node[n].term, p) /\ f[p] \in sent
                          /\ f[p] \in Request /\ f[p].to = p
  BY <1>1, <1>2, HeartbeatMsgIs DEF sendHeartbeats, ClusterInv, LeadInv
<1>4. broadcast(n, peers(n), f) /\ sent' = sent \cup {f[p] : p \in peers(n)}
  BY <1>2, <1>3 DEF sendHeartbeats
<1>5. sent' = sent
  BY <1>3, <1>4
<1>6. PICK S : S = [node[n] EXCEPT !.heartbeatTimer = HeartbeatInterval]
  OBVIOUS
<1>7. node' = [node EXCEPT ![n] = S]
  BY <1>1, <1>6 DEF sendHeartbeats
<1>8. /\ S \in NodeState /\ S.role = node[n].role /\ S.term = node[n].term
      /\ S.votedFor = node[n].votedFor /\ S.votes = node[n].votes
  BY <1>1, <1>6, TimeoutsAre DEF NodeState
<1>9. TypeInv'
  BY <1>1, <1>5, <1>7, <1>8, VisitedIs DEF ClusterInv, TypeInv
<1>10. MailInv'
  BY <1>3, <1>4, <1>5, BroadcastMail, BoxMail, VisitedIs DEF MailInv
<1>11. LeadInv'
  BY <1>5, <1>7, <1>8, LeadKept
<1>12. Mapped(n, S)
  BY <1>1, <1>7, MappedStep
<1>13. Refines
  <2>1. roles' = roles /\ terms' = terms /\ ballots' = ballots /\ tallies' = tallies
    BY <1>8, <1>12 DEF Mapped
  <2> QED
    BY <1>5, <2>1, ElectionStutters
<1> QED
  BY <1>9, <1>10, <1>11, <1>13 DEF ClusterInv

\* startElection: a lone node leads at once and has nobody to tell.
LEMMA ElectionBegins ==
    ASSUME ClusterInv, NEW n \in Node, phase = "timers", startElection(n), visited(n)
    PROVE  ClusterInv' /\ Refines
<1>1. node \in [Node -> NodeState] /\ node[n] \in NodeState /\ node[n].term \in Term
  BY DEF ClusterInv, TypeInv, NodeState
<1>2. PICK t : t = node[n].term + 1
  OBVIOUS
<1>3. PICK timeout \in Timeout :
        node' = [node EXCEPT ![n] =
                   LET standing == [node[n] EXCEPT !.term = t, !.role = "Candidate",
                                      !.votedFor = n, !.votes = {n}, !.electionTimer = timeout]
                   IN  IF peers(n) = {} THEN becomeLeader(standing) ELSE standing]
  BY <1>2 DEF startElection
<1>4. PICK S : S = LET standing == [node[n] EXCEPT !.term = t, !.role = "Candidate",
                                      !.votedFor = n, !.votes = {n}, !.electionTimer = timeout]
                   IN  IF peers(n) = {} THEN becomeLeader(standing) ELSE standing
  OBVIOUS
<1>5. node' = [node EXCEPT ![n] = S]
  BY <1>3, <1>4
<1>6. t <= MaxTerm /\ t \in Term /\ node[n].term < MaxTerm
  <2>1. \A i \in 0..MaxTerm : i + 1 <= MaxTerm => i + 1 \in 0..MaxTerm /\ i < MaxTerm
    BY ClusterBounds
  <2>2. t <= MaxTerm
    BY <1>2 DEF startElection
  <2> QED
    BY <1>1, <1>2, <2>1, <2>2 DEF Term
<1>7. timeout \in 1..MaxTimeout
  BY TimeoutsAre
<1>8. /\ S \in NodeState /\ S.term = t /\ S.votedFor = n /\ S.votes = {n}
      /\ S.role = IF peers(n) = {} THEN "Leader" ELSE "Candidate"
  <2>1. PICK standing : standing = [node[n] EXCEPT !.term = t, !.role = "Candidate",
                                      !.votedFor = n, !.votes = {n}, !.electionTimer = timeout]
    OBVIOUS
  <2>2. /\ standing \in NodeState /\ standing.term = t /\ standing.votedFor = n
        /\ standing.votes = {n} /\ standing.role = "Candidate"
    BY <1>1, <1>6, <1>7, <2>1 DEF NodeState, Role
  <2>3. /\ becomeLeader(standing) \in NodeState /\ becomeLeader(standing).term = t
        /\ becomeLeader(standing).votedFor = n /\ becomeLeader(standing).votes = {n}
        /\ becomeLeader(standing).role = "Leader"
    BY <2>2, TimeoutsAre DEF becomeLeader, NodeState, Role
  <2>4. S = IF peers(n) = {} THEN becomeLeader(standing) ELSE standing
    BY <1>4, <2>1
  <2> QED
    BY <2>2, <2>3, <2>4
<1>9. PICK f : f = [p \in peers(n) |-> VoteRequest(n, t, p)]
  OBVIOUS
<1>10. \A p \in peers(n) : f[p] = VoteRequest(n, t, p) /\ f[p] \in Request /\ f[p].to = p
  BY <1>6, <1>9, VoteRequestIs
<1>11. broadcast(n, peers(n), f) /\ sent' = sent \cup {f[p] : p \in peers(n)}
  BY <1>2, <1>9, <1>10 DEF startElection
<1>12. TypeInv'
  <2>1. sent' \subseteq Request \cup Response
    BY <1>10, <1>11 DEF ClusterInv, TypeInv
  <2> QED
    BY <1>1, <1>5, <1>8, <2>1, VisitedIs DEF ClusterInv, TypeInv
<1>13. MailInv'
  BY <1>10, <1>11, BroadcastMail, BoxMail, VisitedIs DEF MailInv
<1>14. LeadInv'
  <2>1. CASE peers(n) = {}
    <3>1. sent' = sent \cup {HeartbeatMsg(n, S.term, p) : p \in peers(n)}
      BY <1>11, <2>1
    <3> QED
      BY <1>5, <3>1, LeadBegun
  <2>2. CASE peers(n) # {}
    BY <1>5, <1>8, <1>11, <2>2, LeadKept
  <2> QED
    BY <2>1, <2>2
<1>15. Mapped(n, S)
  BY <1>1, <1>5, MappedStep
<1>16. Refines
  <2>1. roles[n] = node[n].role /\ terms[n] = node[n].term
    BY DEF roles, terms
  <2>2. /\ roles' = [roles EXCEPT ![n] = IF Election!peers(n) = {} THEN "Leader" ELSE "Candidate"]
        /\ terms' = [terms EXCEPT ![n] = terms[n] + 1]
        /\ ballots' = [ballots EXCEPT ![n] = n] /\ tallies' = [tallies EXCEPT ![n] = {n}]
    BY <1>2, <1>8, <1>15, <2>1 DEF Mapped, peers, Election!peers
  <2>3. sent' = sent \cup {Election!VoteRequest(n, p, terms[n] + 1) : p \in Election!peers(n)}
    <3>1. Election!peers(n) = peers(n) /\ terms[n] + 1 = t
      BY <1>2, <2>1 DEF peers, Election!peers
    <3>2. \A p \in peers(n) : f[p] = Election!VoteRequest(n, p, t)
      BY <1>10 DEF VoteRequest, Election!VoteRequest
    <3> QED
      BY <1>11, <3>1, <3>2
  <2>4. roles[n] # "Leader" /\ terms[n] < MaxTerm
    BY <1>6, <2>1 DEF startElection
  <2>5. Election!startElection(n)
    BY <2>2, <2>3, <2>4 DEF Election!startElection, roles, terms, ballots, tallies
  <2> QED
    BY <2>5 DEF Refines, Election!Next
<1> QED
  BY <1>12, <1>13, <1>14, <1>16 DEF ClusterInv

-----------------------------------------------------------------------------
(***************************************************************************)
(* The theorems.                                                           *)
(***************************************************************************)

LEMMA InitCluster == Init => ClusterInv /\ Election!Init
<1> SUFFICES ASSUME Init PROVE ClusterInv /\ Election!Init
  OBVIOUS
<1>1. PICK t \in [Node -> Timeout] : node = [n \in Node |-> FreshNode(t[n])]
  BY DEF Init
<1>2. \A n \in Node : FreshNode(t[n]) \in NodeState /\ FreshNode(t[n]).role = "Follower"
                      /\ FreshNode(t[n]).term = 0 /\ FreshNode(t[n]).votedFor = None
                      /\ FreshNode(t[n]).votes = {}
  BY TimeoutsAre, TermsAre DEF FreshNode, NodeState, Role
<1>3. TypeInv /\ LeadInv
  BY <1>1, <1>2 DEF Init, TypeInv, LeadInv
<1>4. MailInv
  BY NetInitCarries DEF Init, MailInv
<1>5. Election!Init
  BY <1>1, <1>2 DEF Init, Election!Init
<1> QED
  BY <1>3, <1>4, <1>5 DEF ClusterInv

LEMMA ClusterStep == ASSUME ClusterInv, [Next]_vars PROVE ClusterInv' /\ Refines
<1>1. CASE deliver
  BY <1>1, DeliverStep
<1>2. CASE pumpServer
  BY <1>2, PumpStep
<1>3. CASE pumpDone
  BY <1>3, QuietStep DEF pumpDone, netVars, ClusterInv, TypeInv
<1>4. CASE processResponse
  BY <1>4, ResponseStep
<1>5. CASE responsesDone
  BY <1>5, QuietStep DEF responsesDone, netVars, ClusterInv, TypeInv
<1>6. ASSUME NEW n \in Node, onTick(n) PROVE ClusterInv' /\ Refines
  <2>1. phase = "timers" /\ visited(n) /\ (countDown(n) \/ sendHeartbeats(n) \/ startElection(n))
    BY <1>6 DEF onTick
  <2> QED
    BY <2>1, CountDownStep, HeartbeatsStep, ElectionBegins
<1>7. ASSUME NEW m \in Node, NEW n \in Node, cut(m, n) \/ heal(m, n) PROVE ClusterInv' /\ Refines
  BY <1>7, QuietStep DEF cut, heal, partition, healPartition, ClusterInv, TypeInv
<1>8. CASE UNCHANGED vars
  BY <1>8, QuietStep DEF vars, ClusterInv, TypeInv
<1> QED
  BY <1>1, <1>2, <1>3, <1>4, <1>5, <1>6, <1>7, <1>8 DEF Next

LEMMA ClusterInductive == Spec => []ClusterInv
<1>1. Init => ClusterInv
  BY InitCluster
<1>2. ClusterInv /\ [Next]_vars => ClusterInv'
  BY ClusterStep
<1> QED
  BY <1>1, <1>2, PTL DEF Spec

\* Every timer that onTick reads is positive and within its range, and no node
\* takes over a term that nobody started: for every cluster and every network.
THEOREM ClusterTypeCorrect == Spec => []TypeOK
<1>1. ClusterInv => TypeOK
  BY DEF ClusterInv, TypeInv, TypeOK, NodeState, Term
<1> QED
  BY <1>1, ClusterInductive, PTL

\* RaftCluster::tick with its timers, inboxes and network implements the election
\* of Raft.tla: every step is a step of the election or leaves it alone.
THEOREM ClusterImplementsRaft == Spec => ImplementsRaft
<1>1. Init => Election!Init
  BY InitCluster
<1>2. ClusterInv /\ [Next]_vars => [Election!Next]_(Election!vars)
  BY ClusterStep DEF Refines
<1> QED
  BY <1>1, <1>2, ClusterInductive, PTL DEF Spec, ImplementsRaft, Election!Spec
-----------------------------------------------------------------------------
(***************************************************************************)
(* What RaftProofs.tla proves of the election, carried over to the cluster.*)
(***************************************************************************)
Elected == INSTANCE RaftProofs WITH
               role <- [n \in Node |-> node[n].role],
               currentTerm <- [n \in Node |-> node[n].term],
               votedFor <- [n \in Node |-> node[n].votedFor],
               votesReceived <- [n \in Node |-> node[n].votes],
               msgs <- sent

LEMMA SameElection ==
    /\ Election!Init => Elected!Init
    /\ [Election!Next]_(Election!vars) => [Elected!Next]_(Elected!vars)
<1>1. Election!Init => Elected!Init
  BY DEF Election!Init, Elected!Init
<1>2. Election!vars' = Election!vars => Elected!vars' = Elected!vars
  BY DEF Election!vars, Elected!vars
<1>3. \A S : Election!Cardinality(S) = Elected!Cardinality(S)
  BY DEF Election!Cardinality, Elected!Cardinality
<1>4. Election!Next => Elected!Next
  BY <1>3
     DEF Election!Next, Elected!Next, Election!startElection, Elected!startElection,
         Election!grantVote, Elected!grantVote, Election!refuseVote, Elected!refuseVote,
         Election!refuseHeartbeat, Elected!refuseHeartbeat, Election!acceptHeartbeat,
         Elected!acceptHeartbeat, Election!observeNewerTerm, Elected!observeNewerTerm,
         Election!countVote, Elected!countVote, Election!becomeFollower,
         Elected!becomeFollower, Election!voteFree, Elected!voteFree, Election!stepsDown,
         Elected!stepsDown, Election!newerTerm, Elected!newerTerm, Election!peers,
         Elected!peers, Election!majority, Elected!majority, Election!VoteRequest,
         Elected!VoteRequest, Election!HeartbeatMsg, Elected!HeartbeatMsg,
         Election!ResponseTo, Elected!ResponseTo, Election!Cardinality, Elected!Cardinality
<1> QED
  BY <1>1, <1>2, <1>4

LEMMA ClusterElects == Spec => Elected!Spec
<1>1. Election!Spec => Elected!Spec
  BY SameElection, PTL DEF Election!Spec, Elected!Spec
<1> QED
  BY <1>1, ClusterImplementsRaft, PTL DEF ImplementsRaft

LEMMA ElectedAssumptions ==
    MaxTerm \in Nat /\ Elected!IsFiniteSet(Node) /\ Node # {} /\ None \notin Node
<1>1. Elected!IsFiniteSet(Node) <=> IsFiniteSet(Node)
  BY DEF Elected!IsFiniteSet, IsFiniteSet
<1> QED
  BY <1>1, NodeIds, ClusterBounds

\* ADR 0009's safety property of the cluster as it runs, with its ticks, timers
\* and network: a term never has two leaders, not even one after the other.
THEOREM ClusterElectionSafety == Spec => []Election!AtMostOneLeaderPerTerm
<1>1. MaxTerm \in Nat
  BY ElectedAssumptions
<1>2. Elected!IsFiniteSet(Node) /\ Node # {} /\ None \notin Node
  BY ElectedAssumptions
<1>3. Elected!Spec => []Elected!AtMostOneLeaderPerTerm
  BY <1>1, <1>2, Elected!ElectionSafety, PTL
<1>4. Elected!AtMostOneLeaderPerTerm => Election!AtMostOneLeaderPerTerm
  BY DEF Elected!AtMostOneLeaderPerTerm, Election!AtMostOneLeaderPerTerm, Elected!Elected,
         Election!Elected, Elected!Term, Election!Term
<1> QED
  BY <1>3, <1>4, ClusterElects, PTL
\* What a node of the cluster has become or promised in a term it does not take
\* back in that term, whatever the network repeats or delivers late.
THEOREM ClusterPromisesKept == Spec => Election!NothingTakenBack
<1>1. MaxTerm \in Nat
  BY ElectedAssumptions
<1>2. Elected!IsFiniteSet(Node) /\ Node # {} /\ None \notin Node
  BY ElectedAssumptions
<1>3. Elected!Spec => Elected!NothingTakenBack
  BY <1>1, <1>2, Elected!PromisesKept, PTL
<1>4. Elected!NothingTakenBack => Election!NothingTakenBack
  BY PTL DEF Elected!NothingTakenBack, Election!NothingTakenBack, Elected!LeaderKeepsTerm,
             Election!LeaderKeepsTerm, Elected!VoteIsFinal, Election!VoteIsFinal,
             Elected!vars, Election!vars
<1> QED
  BY <1>3, <1>4, ClusterElects, PTL
-----------------------------------------------------------------------------
(***************************************************************************)
(* A leader everyone hears stays.  What RaftProofs.tla says of messages    *)
(* and leaders, in the cluster's variables: a message's term was reached   *)
(* by its sender, and whoever sent a heartbeat leads its term, alone, as   *)
(* long as it is in it.                                                    *)
(***************************************************************************)
Elections ==
    /\ \A m \in sent : m.from # m.to /\ m.term <= node[m.from].term
    /\ \A m \in sent : m.type = "Heartbeat" =>
          /\ node[m.from].term = m.term => node[m.from].role = "Leader"
          /\ \A l \in Node : node[l].role = "Leader" /\ node[l].term = m.term => l = m.from

LEMMA ElectionsFollow == ASSUME TypeInv, Elected!IInv PROVE Elections
<1>1. \A m \in sent : m.from \in Node /\ m.term \in Term
  BY DEF TypeInv, Request, Response
<1>2. \A m \in sent : m.from # m.to /\ m.term <= node[m.from].term
  BY <1>1 DEF Elected!IInv, Elected!SenderInv
<1>3. ASSUME NEW m \in sent, m.type = "Heartbeat" PROVE Elected!Elected(m.from, m.term)
  BY <1>3 DEF Elected!Elected
<1>4. Elected!Term = Term
  BY DEF Elected!Term, Term
<1>5. ASSUME NEW m \in sent, m.type = "Heartbeat", node[m.from].term = m.term
      PROVE  node[m.from].role = "Leader"
  <2>1. Elected!LedTerm(m.from, m.term)
    BY <1>1, <1>3, <1>4, <1>5 DEF Elected!IInv, Elected!LeaderInv
  <2> QED
    BY <1>1, <1>5, <2>1 DEF Elected!LedTerm
<1>6. ASSUME NEW m \in sent, m.type = "Heartbeat", NEW l \in Node,
             node[l].role = "Leader", node[l].term = m.term
      PROVE  l = m.from
  <2>1. Elected!Elected(l, m.term)
    BY <1>6 DEF Elected!Elected
  <2> QED
    BY <1>1, <1>3, <1>4, <1>6, <2>1 DEF Elected!IInv, Elected!AtMostOneLeaderPerTerm
<1> QED
  BY <1>2, <1>5, <1>6 DEF Elections

LEMMA ClusterElections == Spec => []Elections
<1>1. MaxTerm \in Nat
  BY ElectedAssumptions
<1>2. Elected!IsFiniteSet(Node) /\ Node # {} /\ None \notin Node
  BY ElectedAssumptions
<1>3. Elected!Spec => []Elected!IInv
  BY <1>1, <1>2, Elected!Inductive, PTL
<1>4. ClusterInv /\ Elected!IInv => Elections
  BY ElectionsFollow DEF ClusterInv
<1> QED
  BY <1>3, <1>4, ClusterElects, ClusterInductive, PTL

\* What a step does to terms, roles and messages, as the election allows it.
LEMMA TermsGrow ==
    ASSUME TypeInv, TypeInv', Refines
    PROVE  /\ sent \subseteq sent'
           /\ \A k \in Node : node[k].term <= node'[k].term
           /\ \A k \in Node : node'[k].term = node[k].term /\ node[k].role = "Follower"
                                 => node'[k].role = "Follower"
<1> DEFINE R == [n \in Node |-> node[n].role]
           C == [n \in Node |-> node[n].term]
<1>0. /\ \A k \in Node : R[k] = node[k].role /\ C[k] = node[k].term /\ C[k] \in Nat
      /\ \A k \in Node : R'[k] = node'[k].role /\ C'[k] = node'[k].term
      /\ R = [k \in Node |-> R[k]] /\ C = [k \in Node |-> C[k]]
      /\ \A k \in Node : C[k] <= C[k]
  <2>1. \A k \in Node : node[k].term \in Nat
    BY TermsAre DEF TypeInv, NodeState
  <2>2. \A k \in Node : R[k] = node[k].role /\ C[k] = node[k].term /\ C[k] \in Nat
    BY <2>1
  <2>3. \A k \in Node : R'[k] = node'[k].role /\ C'[k] = node'[k].term
    OBVIOUS
  <2>4. R = [k \in Node |-> R[k]] /\ C = [k \in Node |-> C[k]]
    OBVIOUS
  <2> HIDE DEF R, C
  <2> QED
    BY <2>2, <2>3, <2>4
<1>1. \A m \in sent : m.to \in Node /\ m.term \in Nat
  BY TermsAre DEF TypeInv, Request, Response
<1> SUFFICES /\ sent \subseteq sent'
             /\ \A k \in Node : C[k] <= C'[k]
             /\ \A k \in Node : C'[k] = C[k] /\ R[k] = "Follower" => R'[k] = "Follower"
  BY <1>0
<1> HIDE DEF R, C
<1>2. ASSUME NEW n \in Node, Election!startElection(n)
      PROVE  /\ sent \subseteq sent'
             /\ \A k \in Node : C[k] <= C'[k]
             /\ \A k \in Node : C'[k] = C[k] /\ R[k] = "Follower" => R'[k] = "Follower"
  <2>1. C' = [C EXCEPT ![n] = C[n] + 1] /\ (\E x : R' = [R EXCEPT ![n] = x]) /\ sent \subseteq sent'
    BY <1>2 DEF Election!startElection, R, C
  <2> QED
    BY <1>0, <2>1
<1>3. ASSUME NEW m \in sent, Election!grantVote(m)
      PROVE  /\ sent \subseteq sent'
             /\ \A k \in Node : C[k] <= C'[k]
             /\ \A k \in Node : C'[k] = C[k] /\ R[k] = "Follower" => R'[k] = "Follower"
  <2>1. /\ C' = [C EXCEPT ![m.to] = m.term] /\ m.term >= C[m.to] /\ sent \subseteq sent'
        /\ R' = [R EXCEPT ![m.to] = "Follower"] \/ R' = R
    BY <1>3 DEF Election!grantVote, R, C
  <2> QED
    BY <1>0, <1>1, <2>1
<1>4. ASSUME NEW m \in sent, Election!refuseVote(m) \/ Election!refuseHeartbeat(m)
      PROVE  sent \subseteq sent' /\ C' = C /\ R' = R
  BY <1>4 DEF Election!refuseVote, Election!refuseHeartbeat, R, C
<1>5. ASSUME NEW m \in sent, Election!acceptHeartbeat(m) \/ Election!observeNewerTerm(m)
      PROVE  /\ sent \subseteq sent'
             /\ \A k \in Node : C[k] <= C'[k]
             /\ \A k \in Node : C'[k] = C[k] /\ R[k] = "Follower" => R'[k] = "Follower"
  <2>1. /\ sent \subseteq sent'
        /\ \/ C' = C /\ R' = R
           \/ /\ C' = [C EXCEPT ![m.to] = m.term] /\ (m.term >= C[m.to] \/ m.term > C[m.to])
              /\ R' = [R EXCEPT ![m.to] = "Follower"]
    BY <1>5 DEF Election!acceptHeartbeat, Election!observeNewerTerm, Election!becomeFollower,
                Election!newerTerm, R, C
  <2> QED
    BY <1>0, <1>1, <2>1
<1>6. ASSUME NEW m \in sent, Election!countVote(m)
      PROVE  /\ sent \subseteq sent'
             /\ \A k \in Node : C[k] <= C'[k]
             /\ \A k \in Node : C'[k] = C[k] /\ R[k] = "Follower" => R'[k] = "Follower"
  <2>1. /\ C' = C /\ R[m.to] = "Candidate" /\ sent \subseteq sent'
        /\ R' = R \/ R' = [R EXCEPT ![m.to] = "Leader"]
    BY <1>6 DEF Election!countVote, R, C
  <2> QED
    BY <1>0, <1>1, <2>1
<1>7. ASSUME UNCHANGED Election!vars PROVE sent \subseteq sent' /\ C' = C /\ R' = R
  BY <1>7 DEF Election!vars, R, C
<1> QED
  BY <1>0, <1>2, <1>3, <1>4, <1>5, <1>6, <1>7 DEF Refines, Election!Next

\* The handlers leave the heartbeat timer alone; the election timer is kept or
\* restarted, and restarted by every heartbeat that is accepted.
LEMMA HandlerTimers ==
    ASSUME NEW st \in NodeState, NEW m \in Request, NEW timeout \in Timeout,
           NEW h, h = handle(st, m, timeout)
    PROVE  /\ h.state.heartbeatTimer = st.heartbeatTimer
           /\ h.state.electionTimer = st.electionTimer \/ h.state.electionTimer = timeout
           /\ m.type = "Heartbeat" /\ ~(m.term < st.term) => h.state.electionTimer = timeout
<1>1. \A s \in NodeState, t \in Term :
        /\ becomeFollower(s, t) \in NodeState
        /\ becomeFollower(s, t).heartbeatTimer = s.heartbeatTimer
        /\ becomeFollower(s, t).electionTimer = s.electionTimer
  BY DEF becomeFollower, NodeState, Role
<1>2. m.term \in Term /\ m.type \in {"RequestVote", "Heartbeat"}
  BY DEF Request
<1>3. \A s \in NodeState :
        /\ [s EXCEPT !.electionTimer = timeout].electionTimer = timeout
        /\ [s EXCEPT !.electionTimer = timeout].heartbeatTimer = s.heartbeatTimer
        /\ [s EXCEPT !.votedFor = m.from, !.electionTimer = timeout].electionTimer = timeout
        /\ [s EXCEPT !.votedFor = m.from, !.electionTimer = timeout].heartbeatTimer = s.heartbeatTimer
  BY DEF NodeState
<1>4. PICK f \in NodeState : /\ f = becomeFollower(st, m.term)
                             /\ f.heartbeatTimer = st.heartbeatTimer /\ f.electionTimer = st.electionTimer
  BY <1>1, <1>2
<1>5. CASE m.type = "RequestVote"
  <2>1. PICK s \in NodeState : /\ s = IF m.term > st.term THEN f ELSE st
                               /\ s.heartbeatTimer = st.heartbeatTimer /\ s.electionTimer = st.electionTimer
    BY <1>4
  <2>2. h.state = s \/ h.state = [s EXCEPT !.votedFor = m.from, !.electionTimer = timeout]
    BY <1>4, <1>5, <2>1 DEF handle, handleRequestVote
  <2> QED
    BY <1>3, <1>5, <2>1, <2>2
<1>6. CASE m.type = "Heartbeat"
  <2>1. PICK s \in NodeState : /\ s = IF m.term > st.term \/ st.role # "Follower" THEN f ELSE st
                               /\ s.heartbeatTimer = st.heartbeatTimer /\ s.electionTimer = st.electionTimer
    BY <1>4
  <2>2. h.state = IF m.term < st.term THEN st ELSE [s EXCEPT !.electionTimer = timeout]
    BY <1>4, <1>6, <2>1 DEF handle, handleHeartbeat
  <2> QED
    BY <1>3, <1>6, <2>1, <2>2
<1> QED
  BY <1>2, <1>5, <1>6

-----------------------------------------------------------------------------
(***************************************************************************)
(* A follower's election timer e and its leader's heartbeat timer h.  The  *)
(* timer loop of the current tick has still to visit the follower if an =  *)
(* 1, and the leader if al = 1.  The timer is timely if it outlasts the    *)
(* leader's next heartbeat x and its slowest way through the network, or a *)
(* heartbeat is under way that arrives before it runs out, or one waits in *)
(* the inbox.                                                              *)
(***************************************************************************)
Timely(e, h, an, al, flight, box, x) ==
    \/ e > an - al + h + MaxExtraDelay
    \/ \E i \in DOMAIN flight : flight[i].body = x /\ e >= an + flight[i].wait
    \/ \E i \in DOMAIN box : box[i].body = x

\* More messages under way do no harm.
LEMMA TimelyGrows ==
    ASSUME NEW e, NEW h, NEW an, NEW al, NEW box, NEW x, NEW F, NEW f \in Seq(F), NEW s \in Seq(F),
           Timely(e, h, an, al, f, box, x)
    PROVE  Timely(e, h, an, al, f \o s, box, x)
<1>1. \A i \in DOMAIN f : i \in DOMAIN (f \o s) /\ (f \o s)[i] = f[i]
  OBVIOUS
<1> QED
  BY <1>1 DEF Timely

\* The follower's visit takes a tick from its timer.
LEMMA TimelyVisit ==
    ASSUME NEW e \in Nat, NEW h \in Nat \ {0}, NEW al \in {0, 1}, NEW L, NEW f \in Seq(Flying(L)),
           NEW box, DOMAIN box = {}, NEW x, Timely(e, h, 1, al, f, box, x)
    PROVE  e > 1 /\ Timely(e - 1, h, 0, al, f, box, x)
<1>1. MaxExtraDelay \in Nat
  BY FaultAssumption
<1>2. CASE e > 1 - al + h + MaxExtraDelay
  BY <1>1, <1>2 DEF Timely
<1>3. ASSUME NEW i \in DOMAIN f, f[i].body = x, e >= 1 + f[i].wait
      PROVE  e > 1 /\ Timely(e - 1, h, 0, al, f, box, x)
  <2>1. f[i].wait \in Nat \ {0}
    BY <1>1, <1>3 DEF Flying, Delay
  <2>2. e > 1 /\ e - 1 >= 0 + f[i].wait
    BY <1>3, <2>1
  <2> QED
    BY <1>3, <2>2 DEF Timely
<1> QED
  BY <1>2, <1>3 DEF Timely

\* The leader's visit takes a tick from its own.
LEMMA TimelyLeaderVisit ==
    ASSUME NEW e \in Nat, NEW h \in Nat, NEW an \in {0, 1}, NEW f, NEW box, NEW x,
           Timely(e, h, an, 1, f, box, x)
    PROVE  Timely(e, h - 1, an, 0, f, box, x)
<1>1. an - 1 + h + MaxExtraDelay = an - 0 + (h - 1) + MaxExtraDelay
  BY FaultAssumption
<1> QED
  BY <1>1 DEF Timely

\* The leader's timer is up: a heartbeat leaves that arrives in time.
LEMMA TimelySent ==
    ASSUME NEW e \in Nat, NEW an \in {0, 1}, NEW h, NEW L, NEW f \in Seq(Flying(L)),
           NEW s \in Seq(Flying(L)), NEW box, NEW x, Timely(e, 1, an, 1, f, box, x),
           \E j \in DOMAIN s : s[j].body = x /\ s[j].wait <= 1 + MaxExtraDelay
    PROVE  Timely(e, h, an, 0, f \o s, box, x)
<1>1. MaxExtraDelay \in Nat
  BY FaultAssumption
<1>2. CASE e > an - 1 + 1 + MaxExtraDelay
  <2>1. PICK j \in DOMAIN s : s[j].body = x /\ s[j].wait <= 1 + MaxExtraDelay
    OBVIOUS
  <2>2. j + Len(f) \in DOMAIN (f \o s) /\ (f \o s)[j + Len(f)] = s[j]
    BY <2>1
  <2>3. s[j].wait \in Nat
    BY <1>1, <2>1 DEF Flying, Delay
  <2>4. e >= an + s[j].wait
    BY <1>1, <1>2, <2>1, <2>3
  <2> QED
    BY <2>1, <2>2, <2>4 DEF Timely
<1>3. \A i \in DOMAIN f : i \in DOMAIN (f \o s) /\ (f \o s)[i] = f[i]
  OBVIOUS
<1> QED
  BY <1>2, <1>3 DEF Timely

\* Every chosen position is read off.
LEMMA PlacesReach ==
    ASSUME NEW g, NEW r, NEW D, NEW s, Places(g, r, D, s)
    PROVE  \A p \in D : \E y \in 1..Len(r) : r[y] = s[p]
  BY DEF Places

\* Where the elements of q \o s are.
LEMMA ConcatPlaces ==
    ASSUME NEW B, NEW q \in Seq(B), NEW T, NEW s \in Seq(T)
    PROVE  /\ \A i \in DOMAIN q : i \in DOMAIN (q \o s) /\ (q \o s)[i] = q[i]
           /\ \A i \in DOMAIN s : Len(q) + i \in DOMAIN (q \o s) /\ (q \o s)[Len(q) + i] = s[i]
<1>1. PICK a \in Nat, b \in Nat : a = Len(q) /\ b = Len(s)
  OBVIOUS
<1>2. DOMAIN q = 1..a /\ DOMAIN s = 1..b /\ DOMAIN (q \o s) = 1..(a + b)
  BY <1>1
<1>3. \A i \in 1..a : i \in 1..(a + b)
  BY <1>1
<1>4. \A i \in 1..b : a + i \in 1..(a + b)
  BY <1>1
<1> QED
  BY <1>1, <1>2, <1>3, <1>4

\* A tick: what is due reaches the inbox, the rest comes closer.
LEMMA TimelyTick ==
    ASSUME NEW e \in Nat, NEW h \in Nat, NEW L, NEW f \in Seq(Flying(L)), NEW B, NEW box \in Seq(B),
           NEW x, Timely(e, h, 0, 0, f, box, x), NEW due, due = kept(f, duePositions(f)),
           NEW rest, rest = kept(f, DOMAIN f \ duePositions(f)),
           NEW g, g = [i \in DOMAIN rest |-> [rest[i] EXCEPT !.wait = @ - 1]],
           NEW new, new = [i \in DOMAIN due |-> letter(due[i])]
    PROVE  Timely(e, h, 1, 1, g, box \o new, x)
<1>1. DOMAIN f = 1..Len(f) /\ duePositions(f) \in SUBSET (1..Len(f))
      /\ DOMAIN f \ duePositions(f) \in SUBSET (1..Len(f))
  BY DEF duePositions
<1>2. due \in Seq(Flying(L)) /\ \E q : Places(q, due, duePositions(f), f)
  BY <1>1, KeptPlaces
<1>3. rest \in Seq(Flying(L)) /\ \E q : Places(q, rest, DOMAIN f \ duePositions(f), f)
  BY <1>1, KeptPlaces
<1>4. /\ \A p \in duePositions(f) : \E y \in 1..Len(due) : due[y] = f[p]
      /\ \A p \in DOMAIN f \ duePositions(f) : \E y \in 1..Len(rest) : rest[y] = f[p]
  <2>1. PICK q : Places(q, due, duePositions(f), f)
    BY <1>2
  <2>2. PICK r : Places(r, rest, DOMAIN f \ duePositions(f), f)
    BY <1>3
  <2>3. \A p \in duePositions(f) : \E y \in 1..Len(due) : due[y] = f[p]
    BY <2>1, PlacesReach
  <2>4. PICK P : P = DOMAIN f \ duePositions(f)
    OBVIOUS
  <2>5. \A p \in P : \E y \in 1..Len(rest) : rest[y] = f[p]
    BY <2>2, <2>4, PlacesReach
  <2> QED
    BY <2>3, <2>4, <2>5
<1>5. DOMAIN due = 1..Len(due) /\ DOMAIN rest = 1..Len(rest)
  BY <1>2, <1>3
<1>6. ASSUME NEW T, NEW s \in Seq(T)
      PROVE  /\ \A i \in DOMAIN box : i \in DOMAIN (box \o s) /\ (box \o s)[i] = box[i]
             /\ \A i \in DOMAIN s : Len(box) + i \in DOMAIN (box \o s) /\ (box \o s)[Len(box) + i] = s[i]
  BY <1>6, ConcatPlaces
<1>7. new \in Seq({letter(due[i]) : i \in DOMAIN due}) /\ DOMAIN new = DOMAIN due
  <2>1. Len(due) \in Nat /\ new \in [1..Len(due) -> {letter(due[i]) : i \in DOMAIN due}]
    BY <1>2, <1>5
  <2> QED
    BY <1>5, <2>1
<1>8. CASE e > 0 - 0 + h + MaxExtraDelay
  <2>1. e > 1 - 1 + h + MaxExtraDelay
    BY <1>8, FaultAssumption
  <2> QED
    BY <2>1 DEF Timely
<1>9. ASSUME NEW i \in DOMAIN f, f[i].body = x, e >= 0 + f[i].wait, i \in duePositions(f)
      PROVE  Timely(e, h, 1, 1, g, box \o new, x)
  <2>1. PICK y \in DOMAIN due : due[y] = f[i]
    BY <1>4, <1>5, <1>9
  <2>2. new[y].body = x /\ y \in DOMAIN new
    BY <1>7, <1>9, <2>1 DEF letter
  <2>3. \E j \in DOMAIN (box \o new) : (box \o new)[j].body = x
    BY <1>6, <1>7, <2>2
  <2> QED
    BY <2>3 DEF Timely
<1>10. ASSUME NEW i \in DOMAIN f, f[i].body = x, e >= 0 + f[i].wait, i \notin duePositions(f)
       PROVE  Timely(e, h, 1, 1, g, box \o new, x)
  <2>1. PICK y \in DOMAIN rest : rest[y] = f[i]
    BY <1>4, <1>5, <1>10
  <2>2. f[i] \in Flying(L) /\ f[i].wait \in Nat
    BY FaultAssumption DEF Flying, Delay
  <2>3. g[y].body = x /\ g[y].wait = f[i].wait - 1 /\ y \in DOMAIN g
    BY <1>10, <2>1, <2>2 DEF Flying
  <2>4. e >= 1 + g[y].wait
    BY <1>10, <2>2, <2>3
  <2> QED
    BY <2>3, <2>4 DEF Timely
<1>11. ASSUME NEW i \in DOMAIN box, box[i].body = x PROVE Timely(e, h, 1, 1, g, box \o new, x)
  <2>1. \E j \in DOMAIN (box \o new) : (box \o new)[j].body = x
    BY <1>6, <1>7, <1>11
  <2> QED
    BY <2>1 DEF Timely
<1> QED
  BY <1>8, <1>9, <1>10, <1>11 DEF Timely

\* The follower takes a letter that is not the heartbeat.
LEMMA TimelyOther ==
    ASSUME NEW e, NEW h, NEW an, NEW al, NEW f, NEW B, NEW box \in Seq(B), box # <<>>, NEW x,
           Timely(e, h, an, al, f, box, x), Head(box).body # x
    PROVE  Timely(e, h, an, al, f, Tail(box), x)
<1>1. ASSUME NEW i \in DOMAIN box, box[i].body = x
      PROVE  \E j \in DOMAIN Tail(box) : Tail(box)[j].body = x
  <2>1. i # 1 /\ i \in 1..Len(box) /\ Head(box) = box[1]
    BY <1>1
  <2>2. i - 1 \in DOMAIN Tail(box) /\ Tail(box)[i - 1] = box[i]
    BY <2>1
  <2> QED
    BY <1>1, <2>2
<1> QED
  BY <1>1 DEF Timely

(***************************************************************************)
(* The premise: nothing is dropped, and the shortest election timeout      *)
(* exceeds the interval of the heartbeats and their largest delay.         *)
(***************************************************************************)
Prompt == ~MayDrop /\ MinTimeout > HeartbeatInterval + MaxExtraDelay

\* A timer that was restarted in the loops before the timers is timely.
LEMMA TimelyRestarted ==
    ASSUME Prompt, NEW e \in Timeout, NEW h \in 1..HeartbeatInterval, NEW a \in {0, 1}, NEW f, NEW box, NEW x
    PROVE  Timely(e, h, a, a, f, box, x)
<1>1. e > a - a + h + MaxExtraDelay
  BY TimerAssumption, FaultAssumption DEF Prompt, Timeout
<1> QED
  BY <1>1 DEF Timely

-----------------------------------------------------------------------------
(***************************************************************************)
(* The invariant.                                                          *)
(***************************************************************************)

\* 1 if the timer loop of this tick has still to visit n, or 0.
ahead(n) == IF phase \in {"pump", "responses"} \/ n \in todo THEN 1 ELSE 0

\* n has accepted a heartbeat of the leader l, and no link is cut or was since.
Follows(n, l) ==
    /\ partitions = {} /\ node[l].role = "Leader" /\ node[n].role = "Follower"
    /\ node[n].term = node[l].term /\ heard[n] = node[l].term

Beats(l, n) ==
    Timely(node[n].electionTimer, node[l].heartbeatTimer, ahead(n), ahead(l),
           inFlight[plain(n)], inboxes[plain(n)], HeartbeatMsg(l, node[l].term, n))

TimelyInv == \A l \in Node : \A n \in peers(l) : Follows(n, l) => Beats(l, n)

PhaseInv ==
    /\ phase # "timers" => todo = {}
    /\ phase # "pump" => \A n \in Node : inboxes[plain(n)] = <<>>

HeardInv ==
    /\ heard \in [Node -> {-1} \cup Term]
    /\ \A n \in Node :
          /\ heard[n] <= node[n].term
          /\ heard[n] = node[n].term => node[n].role = "Follower"
          /\ heard[n] # -1 => \E m \in sent : m.type = "Heartbeat" /\ m.term = heard[n]

StableInv == PhaseInv /\ HeardInv /\ TimelyInv

\* What every step keeps, as shown above.
Kept == ClusterInv /\ ClusterInv' /\ Refines /\ Elections /\ Elections'

LEMMA HeardKept == ASSUME Kept, HeardInv, heard' = heard PROVE HeardInv'
<1>1. /\ sent \subseteq sent'
      /\ \A k \in Node : node[k].term <= node'[k].term
      /\ \A k \in Node : node'[k].term = node[k].term /\ node[k].role = "Follower"
                            => node'[k].role = "Follower"
  BY TermsGrow DEF Kept, ClusterInv
<1>2. \A k \in Node : node[k].term \in Nat /\ node'[k].term \in Nat
  BY TermsAre DEF Kept, ClusterInv, TypeInv, NodeState
<1>3. \A k \in Node : heard[k] \in Int
  <2>1. {-1} \cup Term \subseteq Int
    BY TermsAre
  <2> QED
    BY <2>1 DEF HeardInv
<1>4. \A k \in Node : /\ heard[k] <= node'[k].term
                      /\ heard[k] = node'[k].term => node'[k].term = node[k].term
  BY <1>1, <1>2, <1>3 DEF HeardInv
<1>5. ASSUME NEW n \in Node
      PROVE  /\ heard'[n] <= node'[n].term
             /\ heard'[n] = node'[n].term => node'[n].role = "Follower"
             /\ heard'[n] # -1 => \E m \in sent' : m.type = "Heartbeat" /\ m.term = heard'[n]
  BY <1>1, <1>4 DEF HeardInv
<1> QED
  BY <1>5 DEF HeardInv

LEMMA HeardForgotten == ASSUME ClusterInv', heard' = [i \in Node |-> -1] PROVE HeardInv'
<1>1. \A k \in Node : node'[k].term \in Nat
  BY TermsAre DEF ClusterInv, TypeInv, NodeState
<1>2. \A t \in Nat : -1 <= t /\ -1 # t
  OBVIOUS
<1> QED
  BY <1>1, <1>2 DEF HeardInv

\* Who follows after a step in which nothing was heard and no link changed did so
\* before: nobody comes to lead a term of which a heartbeat was heard.
LEMMA FollowsBack ==
    ASSUME Kept, HeardInv, NEW l \in Node, NEW n \in peers(l), partitions' = partitions,
           heard'[n] = heard[n], Follows(n, l)'
    PROVE  Follows(n, l) /\ node'[l].term = node[l].term
<1>1. /\ sent \subseteq sent'
      /\ \A k \in Node : node[k].term <= node'[k].term
  BY TermsGrow DEF Kept, ClusterInv
<1>2. \A k \in Node : node[k].term \in Nat /\ node'[k].term \in Nat
  BY TermsAre DEF Kept, ClusterInv, TypeInv, NodeState
<1>3. n \in Node
  BY DEF peers
<1>4. PICK T \in Nat : T = node'[l].term
  BY <1>2
<1>5. /\ partitions = {} /\ node'[l].role = "Leader" /\ node'[n].term = T /\ heard[n] = T
  BY <1>4 DEF Follows
<1>6. node[n].term = T /\ node[n].role = "Follower"
  <2>1. T <= node[n].term /\ node[n].term <= T
    BY <1>1, <1>3, <1>5 DEF HeardInv
  <2>2. node[n].term = T
    BY <1>2, <1>3, <1>4, <2>1
  <2> QED
    BY <1>3, <1>5, <2>2 DEF HeardInv
<1>7. PICK m \in sent : m.type = "Heartbeat" /\ m.term = T
  <2>1. T # -1
    BY <1>4
  <2> QED
    BY <1>3, <1>5, <2>1 DEF HeardInv
<1>8. m.from = l
  BY <1>1, <1>4, <1>5, <1>7 DEF Kept, Elections
<1>9. node[l].term = T
  <2>1. T <= node[l].term /\ node[l].term <= T
    BY <1>1, <1>4, <1>7, <1>8 DEF Kept, Elections
  <2> QED
    BY <1>2, <2>1
<1>10. node[l].role = "Leader"
  BY <1>7, <1>8, <1>9 DEF Kept, Elections
<1> QED
  BY <1>4, <1>5, <1>6, <1>9, <1>10 DEF Follows

\* The numbers and queues Timely is about.
LEMMA TimersAre ==
    ASSUME ClusterInv, NEW k \in Node
    PROVE  /\ node[k].electionTimer \in Nat \ {0} /\ node[k].heartbeatTimer \in 1..HeartbeatInterval
           /\ node[k].heartbeatTimer \in Nat \ {0} /\ ahead(k) \in {0, 1}
           /\ plain(k) \in Addr
           /\ inFlight[plain(k)] \in Seq(Flying(Mail[plain(k)]))
           /\ inboxes[plain(k)] \in Seq(Mail[plain(k)])
<1>1. plain(k) \in Addr
  BY DEF plain, Addr
<1>2. node[k].electionTimer \in 1..MaxTimeout /\ node[k].heartbeatTimer \in 1..HeartbeatInterval
  BY DEF ClusterInv, TypeInv, NodeState
<1>3. \A i \in 1..MaxTimeout : i \in Nat \ {0}
  BY TimerAssumption
<1>4. \A i \in 1..HeartbeatInterval : i \in Nat \ {0}
  BY TimerAssumption
<1> QED
  BY <1>1, <1>2, <1>3, <1>4 DEF ClusterInv, MailInv, FlightType, BoxType, ahead

LEMMA PlainsAre ==
    /\ \A j, k : plain(j) = plain(k) => j = k
    /\ \A j, k : plain(j) # responsePort(k)
<1>1. \A j : plain(j).node = j /\ plain(j).port = "request" /\ responsePort(j).port = "response"
  BY DEF plain, responsePort
<1> QED
  BY <1>1

\* A broadcast adds to what is under way.
LEMMA BroadcastGrows ==
    ASSUME ClusterInv, NEW from, NEW group \in SUBSET Node, NEW body, broadcast(from, group, body),
           NEW n \in Node
    PROVE  \E L : \E s \in Seq(Flying(L)) :
              /\ inFlight[plain(n)] \in Seq(Flying(L))
              /\ inFlight'[plain(n)] = inFlight[plain(n)] \o s
              /\ n \in group => s \in fates(from, plain(n), body[n])
<1>1. PICK s : /\ \A p \in group : s[p] \in fates(from, plain(p), body[p])
               /\ inFlight' = [a \in Addr |->
                                 IF a.port = "request" /\ a.node \in group
                                 THEN inFlight[a] \o s[a.node] ELSE inFlight[a]]
  BY DEF broadcast
<1>2. PICK f : f = inFlight[plain(n)] /\ f \in Seq(Flying(Mail[plain(n)]))
  BY TimersAre
<1>3. plain(n) \in Addr /\ plain(n).port = "request" /\ plain(n).node = n
  BY DEF plain, Addr
<1>4. inFlight'[plain(n)] = IF n \in group THEN f \o s[n] ELSE f
  BY <1>1, <1>2, <1>3
<1>5. PICK L : L = Mail[plain(n)] \cup {[from |-> from, body |-> body[n]]}
  OBVIOUS
<1>6. f \in Seq(Flying(L))
  <2>1. Flying(Mail[plain(n)]) \subseteq Flying(L)
    BY <1>5 DEF Flying
  <2> QED
    BY <1>2, <2>1, SeqMonotone
<1>7. CASE n \in group
  <2>1. s[n] \in Seq(Flying(L))
    BY <1>1, <1>5, <1>7, FatesAre
  <2> QED
    BY <1>1, <1>2, <1>4, <1>6, <1>7, <2>1
<1>8. CASE n \notin group
  <2>1. <<>> \in Seq(Flying(L)) /\ f \o <<>> = f
    BY <1>6
  <2> QED
    BY <1>2, <1>4, <1>6, <1>8, <2>1
<1> QED
  BY <1>7, <1>8

\* Where nothing is dropped or cut off, a copy of every message leaves.
LEMMA FateArrives ==
    ASSUME ~MayDrop, partitions = {}, NEW from, NEW to, NEW body, NEW s \in fates(from, to, body)
    PROVE  \E j \in DOMAIN s : s[j].body = body /\ s[j].wait <= 1 + MaxExtraDelay
<1>1. \A c \in copies(from, body) : c.body = body /\ c.wait <= 1 + MaxExtraDelay
  BY FaultAssumption DEF copies
<1>2. \/ \E c \in copies(from, body) : s = <<c>>
      \/ \E c, d \in copies(from, body) : s = <<c, d>>
  BY DEF fates, isPartitioned
<1>3. \A c, d : 1 \in DOMAIN <<c>> /\ <<c>>[1] = c /\ 1 \in DOMAIN <<c, d>> /\ <<c, d>>[1] = c
  OBVIOUS
<1> QED
  BY <1>1, <1>2, <1>3

-----------------------------------------------------------------------------
(***************************************************************************)
(* One lemma per loop of a tick.                                           *)
(***************************************************************************)

\* A step that leaves both timers, their visits and the inbox alone, and may add
\* to what is under way.
LEMMA BeatsKept ==
    ASSUME ClusterInv, NEW l \in Node, NEW n \in peers(l), Beats(l, n),
           node'[n].electionTimer = node[n].electionTimer,
           node'[l].heartbeatTimer = node[l].heartbeatTimer, node'[l].term = node[l].term,
           ahead(n)' = ahead(n), ahead(l)' = ahead(l), inboxes'[plain(n)] = inboxes[plain(n)],
           \/ inFlight'[plain(n)] = inFlight[plain(n)]
           \/ \E from, body : \E group \in SUBSET Node : broadcast(from, group, body)
    PROVE  Beats(l, n)'
<1>1. n \in Node
  BY DEF peers
<1>2. PICK x : x = HeartbeatMsg(l, node[l].term, n) /\ x = HeartbeatMsg(l, node'[l].term, n)
  OBVIOUS
<1>3. Timely(node[n].electionTimer, node[l].heartbeatTimer, ahead(n), ahead(l),
             inFlight[plain(n)], inboxes[plain(n)], x)
  BY <1>2 DEF Beats
<1>4. Timely(node[n].electionTimer, node[l].heartbeatTimer, ahead(n), ahead(l),
             inFlight'[plain(n)], inboxes[plain(n)], x)
  <2>1. CASE inFlight'[plain(n)] = inFlight[plain(n)]
    BY <1>3, <2>1
  <2>2. ASSUME NEW from, NEW group \in SUBSET Node, NEW body, broadcast(from, group, body)
        PROVE  \E F : \E s \in Seq(F) : inFlight[plain(n)] \in Seq(F)
                                        /\ inFlight'[plain(n)] = inFlight[plain(n)] \o s
    <3>1. PICK L : \E s \in Seq(Flying(L)) :
                      /\ inFlight[plain(n)] \in Seq(Flying(L))
                      /\ inFlight'[plain(n)] = inFlight[plain(n)] \o s
                      /\ n \in group => s \in fates(from, plain(n), body[n])
      BY <1>1, <2>2, BroadcastGrows, Zenon
    <3> QED
      BY <3>1
  <2> QED
    BY <1>3, <2>1, <2>2, TimelyGrows
<1> QED
  BY <1>2, <1>4 DEF Beats

LEMMA DeliverTimely == ASSUME Kept, StableInv, deliver PROVE StableInv'
<1>1. /\ phase = "deliver" /\ phase' = "pump" /\ netTick /\ UNCHANGED <<node, todo, heard, sent>>
      /\ partitions' = partitions
  BY DEF deliver, netTick
<1>2. todo = {} /\ PhaseInv'
  BY <1>1 DEF StableInv, PhaseInv
<1>3. HeardInv'
  BY <1>1, HeardKept DEF StableInv
<1>4. ASSUME NEW l \in Node, NEW n \in peers(l), Follows(n, l)' PROVE Beats(l, n)'
  <2>1. n \in Node /\ Follows(n, l) /\ Beats(l, n)
    BY <1>1, <1>4 DEF Follows, StableInv, TimelyInv, peers
  <2>2. ahead(n) = 0 /\ ahead(l) = 0 /\ ahead(n)' = 1 /\ ahead(l)' = 1
    BY <1>1, <1>2 DEF ahead
  <2>3. PICK f, box, x : /\ f = inFlight[plain(n)] /\ box = inboxes[plain(n)]
                         /\ x = HeartbeatMsg(l, node[l].term, n)
    OBVIOUS
  <2>4. /\ node[n].electionTimer \in Nat /\ node[l].heartbeatTimer \in Nat /\ plain(n) \in Addr
        /\ f \in Seq(Flying(Mail[plain(n)])) /\ box \in Seq(Mail[plain(n)])
    BY <2>1, <2>3, TimersAre DEF Kept
  <2>5. Timely(node[n].electionTimer, node[l].heartbeatTimer, 0, 0, f, box, x)
    BY <2>1, <2>2, <2>3 DEF Beats
  <2>6. PICK due, rest : due = kept(f, duePositions(f)) /\ rest = kept(f, DOMAIN f \ duePositions(f))
    OBVIOUS
  <2>7. Timely(node[n].electionTimer, node[l].heartbeatTimer, 1, 1,
               [i \in DOMAIN rest |-> [rest[i] EXCEPT !.wait = @ - 1]],
               box \o [i \in DOMAIN due |-> letter(due[i])], x)
    <3>1a. PICK e \in Nat, h \in Nat : e = node[n].electionTimer /\ h = node[l].heartbeatTimer
      BY <2>4
    <3>1. PICK L : f \in Seq(Flying(L)) /\ box \in Seq(L)
      BY <2>4
    <3>2. Timely(e, h, 0, 0, f, box, x)
      BY <2>5, <3>1a, <3>1
    <3>3. PICK g, new : /\ g = [i \in DOMAIN rest |-> [rest[i] EXCEPT !.wait = @ - 1]]
                        /\ new = [i \in DOMAIN due |-> letter(due[i])]
      OBVIOUS
    <3>4. Timely(e, h, 1, 1, g, box \o new, x)
      BY <2>6, <3>1a, <3>1, <3>2, <3>3, TimelyTick
    <3> QED
      BY <3>1a, <3>1, <3>3, <3>4
  <2>8. /\ inFlight'[plain(n)] = [i \in DOMAIN rest |-> [rest[i] EXCEPT !.wait = @ - 1]]
        /\ inboxes'[plain(n)] = box \o [i \in DOMAIN due |-> letter(due[i])]
    BY <1>1, <2>3, <2>4, <2>6 DEF netTick
  <2> QED
    BY <1>1, <2>2, <2>3, <2>7, <2>8 DEF Beats
<1> QED
  BY <1>2, <1>3, <1>4 DEF StableInv, TimelyInv, peers

\* What pumpServer does, to the handler's outcome h.
Pumped(n, m, timeout, h) ==
    /\ m \in sent /\ m \in Request /\ m.to = n
    /\ inboxes[plain(n)] # <<>> /\ m = Head(inboxes[plain(n)]).body
    /\ h = handle(node[n], m, timeout)
    /\ node' = [node EXCEPT ![n] = h.state]
    /\ heard' = IF m.type = "Heartbeat" /\ h.ok THEN [heard EXCEPT ![n] = m.term] ELSE heard
    /\ inboxes' = [inboxes EXCEPT ![plain(n)] = Tail(@)]
    /\ \A k \in Node : inFlight'[plain(k)] = inFlight[plain(k)]
    /\ phase = "pump" /\ UNCHANGED <<partitions, phase, todo>>

LEMMA PumpIs ==
    ASSUME ClusterInv, pumpServer
    PROVE  \E n \in Node, timeout \in Timeout : \E m, h : Pumped(n, m, timeout, h)
<1>1. PICK n : n = first(waiting("request"))
  OBVIOUS
<1>2. PICK m : m = Head(inboxes[plain(n)]).body
  OBVIOUS
<1>3. PICK timeout \in Timeout :
         LET h == handle(node[n], m, timeout)
             response == [type |-> "Response", method |-> m.type, term |-> h.term,
                          ok |-> h.ok, from |-> n, to |-> m.from]
         IN /\ node' = [node EXCEPT ![n] = h.state]
            /\ heard' = IF m.type = "Heartbeat" /\ h.ok THEN [heard EXCEPT ![n] = m.term] ELSE heard
            /\ send(n, responsePort(m.from), response)
  BY <1>1, <1>2 DEF pumpServer
<1>4. PICK h : h = handle(node[n], m, timeout)
  OBVIOUS
<1>5. /\ node' = [node EXCEPT ![n] = h.state]
      /\ heard' = IF m.type = "Heartbeat" /\ h.ok THEN [heard EXCEPT ![n] = m.term] ELSE heard
  BY <1>3, <1>4
<1>6. \E a, r : send(n, responsePort(a), r)
  BY <1>3
<1>7. /\ phase = "pump" /\ waiting("request") # {} /\ UNCHANGED <<partitions, phase, todo>>
      /\ inboxes' = [inboxes EXCEPT ![plain(n)] = Tail(@)]
  BY <1>1 DEF pumpServer
<1>8. n \in Node /\ inboxes[plain(n)] # <<>> /\ m \in Bodies(plain(n))
  BY <1>1, <1>2, <1>7, TakenIs DEF plain
<1>9. m \in sent /\ m.to = n /\ m \in Request
  BY <1>8, MailIs
<1>10. \A k \in Node : inFlight'[plain(k)] = inFlight[plain(k)]
  <2>1. PICK a, s : inFlight' = [inFlight EXCEPT ![responsePort(a)] = @ \o s]
    BY <1>6 DEF send
  <2>2. inFlight = [b \in Addr |-> inFlight[b]]
    BY DEF ClusterInv, MailInv, FlightType
  <2>3. \A k \in Node : plain(k) \in Addr /\ plain(k) # responsePort(a)
    BY PlainsAre, MailIs
  <2> QED
    BY <2>1, <2>2, <2>3
<1> QED
  BY <1>2, <1>4, <1>5, <1>7, <1>8, <1>9, <1>10 DEF Pumped

\* The handler's outcome, as far as it matters here.
LEMMA PumpedIs ==
    ASSUME ClusterInv, NEW n \in Node, NEW timeout \in Timeout, NEW m, NEW h, Pumped(n, m, timeout, h)
    PROVE  /\ \A k \in Node : node'[k] = IF k = n THEN h.state ELSE node[k]
           /\ m.from \in Node /\ m.term \in Term /\ m.type \in {"RequestVote", "Heartbeat"}
           /\ h.state.heartbeatTimer = node[n].heartbeatTimer
           /\ h.state.electionTimer = node[n].electionTimer \/ h.state.electionTimer = timeout
           /\ m.type = "Heartbeat" /\ m.term >= node[n].term => h.state.electionTimer = timeout
           /\ m.type = "Heartbeat" /\ h.ok => m.term >= node[n].term
           /\ m.type = "Heartbeat" => HeartbeatOutcome(node[n], m, h)
           /\ m.type = "RequestVote" => VoteOutcome(node[n], m, h)
<1>1. node[n] \in NodeState /\ m \in Request /\ h = handle(node[n], m, timeout)
  BY DEF ClusterInv, TypeInv, Pumped
<1>2. \A k \in Node : node'[k] = IF k = n THEN h.state ELSE node[k]
  BY DEF ClusterInv, TypeInv, Pumped
<1>3. m.from \in Node /\ m.term \in Term /\ m.type \in {"RequestVote", "Heartbeat"}
  BY <1>1 DEF Request
<1>4. m.term \in Nat /\ node[n].term \in Nat
  BY <1>1, <1>3, TermsAre DEF NodeState
<1>5. m.term >= node[n].term <=> ~(m.term < node[n].term)
  BY <1>4
<1>6. /\ h.state.heartbeatTimer = node[n].heartbeatTimer
      /\ h.state.electionTimer = node[n].electionTimer \/ h.state.electionTimer = timeout
      /\ m.type = "Heartbeat" /\ ~(m.term < node[n].term) => h.state.electionTimer = timeout
  BY <1>1, HandlerTimers
<1>7. m.type = "Heartbeat" => HeartbeatOutcome(node[n], m, h)
  BY <1>1, HeartbeatHandled DEF handle
<1>8. m.type = "RequestVote" => VoteOutcome(node[n], m, h)
  BY <1>1, VoteHandled DEF handle
<1>9. m.type = "Heartbeat" /\ h.ok => m.term >= node[n].term
  BY <1>5, <1>7 DEF HeartbeatOutcome
<1> QED
  BY <1>2, <1>3, <1>5, <1>6, <1>7, <1>8, <1>9

LEMMA PumpTimely == ASSUME Kept, StableInv, Prompt, pumpServer PROVE StableInv'
<1>0. PICK k \in Node, timeout \in Timeout : \E m, h : Pumped(k, m, timeout, h)
  BY PumpIs DEF Kept
<1>1. PICK m, h : Pumped(k, m, timeout, h)
  BY <1>0
<1>2. /\ \A j \in Node : node'[j] = IF j = k THEN h.state ELSE node[j]
      /\ m.term \in Term /\ m \in sent
      /\ h.state.heartbeatTimer = node[k].heartbeatTimer
      /\ h.state.electionTimer = node[k].electionTimer \/ h.state.electionTimer = timeout
      /\ m.type = "Heartbeat" /\ m.term >= node[k].term => h.state.electionTimer = timeout
      /\ m.type = "Heartbeat" /\ h.ok => m.term >= node[k].term
      /\ m.type = "Heartbeat" => HeartbeatOutcome(node[k], m, h)
  <2>1. m \in sent
    BY <1>1 DEF Pumped
  <2> QED
    BY <1>1, <2>1, PumpedIs DEF Kept
<1>3. PhaseInv'
  BY <1>1 DEF StableInv, PhaseInv, Pumped
<1>4. HeardInv'
  <2>1. CASE ~(m.type = "Heartbeat" /\ h.ok)
    BY <1>1, <2>1, HeardKept DEF StableInv, Pumped
  <2>2. CASE m.type = "Heartbeat" /\ h.ok
    <3>1. /\ heard' = [heard EXCEPT ![k] = m.term] /\ m.term \in Term /\ m \in sent
          /\ node'[k].term = m.term /\ node'[k].role = "Follower"
      BY <1>1, <1>2, <2>2 DEF Pumped, HeartbeatOutcome
    <3>3. /\ sent \subseteq sent'
          /\ \A j \in Node : node[j].term <= node'[j].term
      BY TermsGrow DEF Kept, ClusterInv
    <3>4. heard' \in [Node -> {-1} \cup Term]
      BY <3>1 DEF StableInv, HeardInv
    <3>5. heard'[k] = m.term /\ \A j \in Node : j # k => heard'[j] = heard[j] /\ node'[j] = node[j]
      BY <1>2, <3>1 DEF StableInv, HeardInv
    <3>6. \A t \in Nat : t <= t
      OBVIOUS
    <3>7. m.term <= m.term
      BY <3>1, <3>6, TermsAre
    <3> QED
      BY <2>2, <3>1, <3>3, <3>4, <3>5, <3>7 DEF StableInv, HeardInv
  <2> QED
    BY <2>1, <2>2
<1>5. ASSUME NEW l \in Node, NEW n \in peers(l), Follows(n, l)' PROVE Beats(l, n)'
  <2>1. n \in Node /\ n # l
    BY DEF peers
  <2>2. ahead(n)' = 1 /\ ahead(l)' = 1 /\ ahead(n) = 1 /\ ahead(l) = 1
    BY <1>1 DEF Pumped, ahead
  <2>3. node'[l].heartbeatTimer = node[l].heartbeatTimer
    BY <1>2
  <2>4. CASE n = k /\ node'[n].electionTimer = timeout
    <3>1. PICK h1 \in 1..HeartbeatInterval : h1 = node'[l].heartbeatTimer
      BY <2>3, TimersAre DEF Kept
    <3>2. Timely(timeout, h1, 1, 1, inFlight'[plain(n)], inboxes'[plain(n)],
                 HeartbeatMsg(l, node'[l].term, n))
      BY TimelyRestarted
    <3> QED
      BY <2>2, <2>4, <3>1, <3>2 DEF Beats
  <2>5. CASE ~(n = k /\ node'[n].electionTimer = timeout)
    <3>1. heard'[n] = heard[n] /\ node'[n].electionTimer = node[n].electionTimer
      <4>1. node'[n].electionTimer = node[n].electionTimer
        BY <1>2, <2>1, <2>5
      <4>2. n = k => ~(m.type = "Heartbeat" /\ h.ok)
        BY <1>2, <2>5
      <4>3. heard' = heard \/ (n # k /\ heard' = [heard EXCEPT ![k] = m.term])
        BY <1>1, <4>2 DEF Pumped
      <4> QED
        BY <2>1, <4>1, <4>3 DEF StableInv, HeardInv
    <3>2. Follows(n, l) /\ node'[l].term = node[l].term
      BY <1>1, <1>5, <3>1, FollowsBack DEF StableInv, Pumped
    <3>3. Beats(l, n)
      BY <3>2 DEF StableInv, TimelyInv
    <3>4. inFlight'[plain(n)] = inFlight[plain(n)]
      BY <1>1, <2>1 DEF Pumped
    <3>5. \A j \in Node : inboxes'[plain(j)] = IF j = k THEN Tail(inboxes[plain(k)]) ELSE inboxes[plain(j)]
      BY <1>1, PlainsAre, MailIs DEF Pumped, Kept, ClusterInv, MailInv, BoxType
    <3>6. CASE n # k
      BY <2>1, <2>2, <2>3, <3>1, <3>2, <3>3, <3>4, <3>5, <3>6, BeatsKept DEF Kept
    <3>7. CASE n = k
      <4>1. PICK x : x = HeartbeatMsg(l, node[l].term, n)
        OBVIOUS
      <4>2. m # x
        <5>1. x.type = "Heartbeat" /\ x.term = node[n].term
          BY <3>2, <4>1 DEF HeartbeatMsg, Follows
        <5>2. node[n].term \in Nat
          BY <2>1, TermsAre DEF Kept, ClusterInv, TypeInv, NodeState
        <5>3. node[n].term >= node[n].term
          BY <5>2
        <5> QED
          BY <1>2, <2>1, <2>5, <3>7, <5>1, <5>3
      <4>3. PICK box \in Seq(Mail[plain(n)]) :
               box = inboxes[plain(n)] /\ box # <<>> /\ Head(box).body # x
        BY <1>1, <2>1, <3>7, <4>2, TimersAre DEF Kept, Pumped
      <4>4. Timely(node[n].electionTimer, node[l].heartbeatTimer, ahead(n), ahead(l),
                   inFlight[plain(n)], Tail(box), x)
        BY <3>3, <4>1, <4>3, TimelyOther DEF Beats
      <4> QED
        BY <2>1, <2>2, <2>3, <3>1, <3>2, <3>4, <3>5, <3>7, <4>1, <4>3, <4>4 DEF Beats
    <3> QED
      BY <3>6, <3>7
  <2> QED
    BY <2>4, <2>5
<1> QED
  BY <1>3, <1>4, <1>5 DEF StableInv, TimelyInv, peers

\* A loop ends: every node has still to be visited, before and after.
LEMMA LoopEndTimely == ASSUME Kept, StableInv, pumpDone \/ responsesDone PROVE StableInv'
<1>1. /\ UNCHANGED <<inFlight, inboxes, partitions, node, heard>>
      /\ \/ phase = "pump" /\ phase' = "responses" /\ todo' = todo /\ waiting("request") = {}
         \/ phase = "responses" /\ phase' = "timers" /\ todo' = Node
  BY DEF pumpDone, responsesDone, netVars
<1>2. PhaseInv'
  BY <1>1 DEF StableInv, PhaseInv, waiting, plain
<1>3. HeardInv'
  BY <1>1, HeardKept DEF StableInv
<1>4. ASSUME NEW l \in Node, NEW n \in peers(l), Follows(n, l)' PROVE Beats(l, n)'
  <2>1. n \in Node /\ Follows(n, l) /\ Beats(l, n)
    BY <1>1, <1>4 DEF Follows, StableInv, TimelyInv, peers
  <2>2. ahead(n) = 1 /\ ahead(l) = 1 /\ ahead(n)' = 1 /\ ahead(l)' = 1
    BY <1>1, <2>1 DEF ahead
  <2> QED
    BY <1>1, <2>1, <2>2, BeatsKept DEF Kept
<1> QED
  BY <1>2, <1>3, <1>4 DEF StableInv, TimelyInv, peers

\* A response restarts no timer but that of a node it makes Leader.
LEMMA ResponseIs ==
    ASSUME ClusterInv, processResponse
    PROVE  /\ phase = "responses" /\ UNCHANGED <<partitions, phase, todo, heard>>
           /\ \A k \in Node : inboxes'[plain(k)] = inboxes[plain(k)]
           /\ \A k \in Node : /\ node'[k].electionTimer = node[k].electionTimer
                              /\ \/ node'[k].heartbeatTimer = node[k].heartbeatTimer
                                 \/ node[k].role # "Leader"
           /\ \/ UNCHANGED inFlight
              \/ \E from, body : \E group \in SUBSET Node : broadcast(from, group, body)
           /\ \E n \in Node, m \in sent :
                 \/ m.term > node[n].term /\ node' = [node EXCEPT ![n] = becomeFollower(node[n], m.term)]
                 \/ node' = node
                 \/ node[n].role = "Candidate"
<1>1. PICK n : n = first(waiting("response"))
  OBVIOUS
<1>2. PICK m : m = Head(inboxes[responsePort(n)]).body
  OBVIOUS
<1>3. PICK st : st = node[n]
  OBVIOUS
<1>4. PICK won : won = tally(st, m.from)
  OBVIOUS
<1>5. /\ phase = "responses" /\ waiting("response") # {}
      /\ inboxes' = [inboxes EXCEPT ![responsePort(n)] = Tail(@)]
      /\ UNCHANGED <<partitions, phase, todo, heard>>
  BY <1>1 DEF processResponse
<1>6. n \in Node /\ responsePort(n) \in Addr /\ m \in Bodies(responsePort(n))
  BY <1>1, <1>2, <1>5, TakenIs DEF responsePort
<1>7. m \in sent /\ m \in Response
  BY <1>6, MailIs
<1>8. st \in NodeState /\ node \in [Node -> NodeState] /\ m.term \in Term /\ m.from \in Node
  BY <1>3, <1>6, <1>7 DEF ClusterInv, TypeInv, Response
<1>9. \A k \in Node : inboxes'[plain(k)] = inboxes[plain(k)]
  <2>1. inboxes = [b \in Addr |-> inboxes[b]]
    BY DEF ClusterInv, MailInv, BoxType
  <2>2. \A k \in Node : plain(k) \in Addr /\ plain(k) # responsePort(n)
    BY PlainsAre, MailIs
  <2> QED
    BY <1>5, <2>1, <2>2
<1>10. \/ /\ m.term > st.term
          /\ node' = [node EXCEPT ![n] = becomeFollower(st, m.term)]
          /\ UNCHANGED <<inFlight, sent>>
       \/ /\ m.term <= st.term /\ ~counts(st, m)
          /\ UNCHANGED <<inFlight, node, sent>>
       \/ /\ m.term <= st.term /\ counts(st, m) /\ ~wins(won)
          /\ node' = [node EXCEPT ![n] = won]
          /\ UNCHANGED <<inFlight, sent>>
       \/ /\ m.term <= st.term /\ counts(st, m) /\ wins(won)
          /\ node' = [node EXCEPT ![n] = becomeLeader(won)]
          /\ broadcast(n, peers(n), [p \in peers(n) |-> HeartbeatMsg(n, st.term, p)])
          /\ sent' = sent \cup {HeartbeatMsg(n, st.term, p) : p \in peers(n)}
  BY <1>1, <1>2, <1>3, <1>4 DEF processResponse
<1>11. /\ becomeFollower(st, m.term).electionTimer = st.electionTimer
       /\ becomeFollower(st, m.term).heartbeatTimer = st.heartbeatTimer
  BY <1>8 DEF becomeFollower, NodeState
<1>12. /\ won \in NodeState /\ won.electionTimer = st.electionTimer
       /\ won.heartbeatTimer = st.heartbeatTimer
  BY <1>4, <1>8 DEF tally, NodeState
<1>13. becomeLeader(won).electionTimer = st.electionTimer
  BY <1>12 DEF becomeLeader, NodeState
<1>14. counts(st, m) => st.role = "Candidate"
  BY DEF counts
<1>15. peers(n) \in SUBSET Node
  BY DEF peers
<1>16. \/ UNCHANGED inFlight
       \/ \E from, body : \E group \in SUBSET Node : broadcast(from, group, body)
  <2>1. PICK b : b = [p \in peers(n) |-> HeartbeatMsg(n, st.term, p)]
    OBVIOUS
  <2>2. UNCHANGED inFlight \/ broadcast(n, peers(n), b)
    BY <1>10, <2>1
  <2> QED
    BY <1>15, <2>2, Zenon
<1>17. \A k \in Node : /\ node'[k].electionTimer = node[k].electionTimer
                       /\ \/ node'[k].heartbeatTimer = node[k].heartbeatTimer
                          \/ node[k].role # "Leader"
  <2>1. \/ node' = node
        \/ \E S : /\ node' = [node EXCEPT ![n] = S] /\ S.electionTimer = st.electionTimer
                  /\ S.heartbeatTimer = st.heartbeatTimer \/ st.role = "Candidate"
    BY <1>10, <1>11, <1>12, <1>13, <1>14
  <2> QED
    BY <1>3, <1>8, <2>1
<1>18. \/ m.term > node[n].term /\ node' = [node EXCEPT ![n] = becomeFollower(node[n], m.term)]
       \/ node' = node
       \/ node[n].role = "Candidate"
  BY <1>3, <1>10, <1>14
<1> QED
  BY <1>5, <1>6, <1>7, <1>9, <1>16, <1>17, <1>18

LEMMA ResponseTimely == ASSUME Kept, StableInv, processResponse PROVE StableInv'
<1>1. /\ phase = "responses" /\ UNCHANGED <<partitions, phase, todo, heard>>
      /\ \A k \in Node : inboxes'[plain(k)] = inboxes[plain(k)]
      /\ \A k \in Node : /\ node'[k].electionTimer = node[k].electionTimer
                         /\ \/ node'[k].heartbeatTimer = node[k].heartbeatTimer
                            \/ node[k].role # "Leader"
      /\ \/ UNCHANGED inFlight
         \/ \E from, body : \E group \in SUBSET Node : broadcast(from, group, body)
  BY ResponseIs DEF Kept
<1>2. PhaseInv'
  BY <1>1 DEF StableInv, PhaseInv
<1>3. HeardInv'
  BY <1>1, HeardKept DEF StableInv
<1>4. ASSUME NEW l \in Node, NEW n \in peers(l), Follows(n, l)' PROVE Beats(l, n)'
  <2>1. n \in Node
    BY DEF peers
  <2>2. Follows(n, l) /\ node'[l].term = node[l].term
    BY <1>1, <1>4, FollowsBack DEF StableInv
  <2>3. Beats(l, n)
    BY <2>2 DEF StableInv, TimelyInv
  <2>4. node'[l].heartbeatTimer = node[l].heartbeatTimer
    BY <1>1, <2>2 DEF Follows
  <2>5. ahead(n)' = ahead(n) /\ ahead(l)' = ahead(l)
    BY <1>1 DEF ahead
  <2>6. \/ inFlight'[plain(n)] = inFlight[plain(n)]
        \/ \E from, body : \E group \in SUBSET Node : broadcast(from, group, body)
    BY <1>1
  <2> QED
    BY <1>1, <2>1, <2>2, <2>3, <2>4, <2>5, <2>6, BeatsKept DEF Kept
<1> QED
  BY <1>2, <1>3, <1>4 DEF StableInv, TimelyInv, peers

\* The driver changes a link, which makes all forget, or nothing changes.
LEMMA LinkTimely ==
    ASSUME Kept, StableInv, UNCHANGED <<inFlight, inboxes, node, phase, todo>>, heard' = forget
    PROVE  StableInv'
<1>1. PhaseInv'
  BY DEF StableInv, PhaseInv
<1>2. CASE partitions' = partitions
  <2>1. heard' = heard
    BY <1>2 DEF forget
  <2>2. HeardInv'
    BY <2>1, HeardKept DEF StableInv
  <2>3. TimelyInv'
    BY <1>2, <2>1 DEF StableInv, TimelyInv, Follows, Beats, ahead
  <2> QED
    BY <1>1, <2>2, <2>3 DEF StableInv
<1>3. CASE partitions' # partitions
  <2>1. heard' = [i \in Node |-> -1]
    BY <1>3 DEF forget
  <2>2. HeardInv'
    BY <2>1, HeardForgotten DEF Kept
  <2>3. \A k \in Node : node'[k].term # -1
    <3>1. \A k \in Node : node'[k].term \in Nat
      BY TermsAre DEF Kept, ClusterInv, TypeInv, NodeState
    <3>2. \A t \in Nat : t # -1
      OBVIOUS
    <3> QED
      BY <3>1, <3>2
  <2>4. TimelyInv'
    <3> SUFFICES ASSUME NEW l \in Node, NEW n \in peers(l), Follows(n, l)' PROVE FALSE
      BY DEF TimelyInv, peers
    <3>1. n \in Node
      BY DEF peers
    <3> QED
      BY <2>1, <2>3, <3>1 DEF Follows
  <2> QED
    BY <1>1, <2>2, <2>4 DEF StableInv
<1> QED
  BY <1>2, <1>3

\* The visit of the node k, and what its timers become.
Ticked(k, S) ==
    /\ node' = [node EXCEPT ![k] = S]
    /\ \/ /\ node[k].role = "Leader" /\ node[k].heartbeatTimer > 1
          /\ S = [node[k] EXCEPT !.heartbeatTimer = @ - 1] /\ UNCHANGED inFlight
       \/ /\ node[k].role # "Leader" /\ node[k].electionTimer > 1
          /\ S = [node[k] EXCEPT !.electionTimer = @ - 1] /\ UNCHANGED inFlight
       \/ /\ node[k].role = "Leader" /\ node[k].heartbeatTimer <= 1
          /\ S = [node[k] EXCEPT !.heartbeatTimer = HeartbeatInterval]
          /\ broadcast(k, peers(k), [p \in peers(k) |-> HeartbeatMsg(k, node[k].term, p)])
       \/ /\ node[k].role # "Leader" /\ node[k].electionTimer <= 1
          /\ S.term = node[k].term + 1
          /\ \E body : broadcast(k, peers(k), body)

LEMMA TickIs ==
    ASSUME ClusterInv, NEW k \in Node, onTick(k)
    PROVE  /\ phase = "timers" /\ k \in todo /\ todo' = todo \ {k}
           /\ phase' = IF todo = {k} THEN "deliver" ELSE "timers"
           /\ UNCHANGED <<inboxes, partitions, heard>>
           /\ \E S : Ticked(k, S)
<1>1. /\ phase = "timers" /\ todo # {} /\ k = first(todo) /\ visited(k)
      /\ countDown(k) \/ sendHeartbeats(k) \/ startElection(k)
  BY DEF onTick
<1>2. k \in todo
  BY <1>1, FirstIs DEF ClusterInv, TypeInv
<1>3. node \in [Node -> NodeState] /\ node[k] \in NodeState
  BY DEF ClusterInv, TypeInv
<1>4. ASSUME countDown(k) PROVE \E S : Ticked(k, S)
  <2>1. PICK S : S = IF node[k].role = "Leader" THEN [node[k] EXCEPT !.heartbeatTimer = @ - 1]
                     ELSE [node[k] EXCEPT !.electionTimer = @ - 1]
    OBVIOUS
  <2>2. node' = [node EXCEPT ![k] = S] /\ UNCHANGED inFlight
    BY <1>3, <1>4, <2>1 DEF countDown
  <2>3. Ticked(k, S)
    BY <1>4, <2>1, <2>2 DEF countDown, Ticked
  <2> QED
    BY <2>3
<1>5. ASSUME sendHeartbeats(k) PROVE \E S : Ticked(k, S)
  <2>1. PICK S : S = [node[k] EXCEPT !.heartbeatTimer = HeartbeatInterval]
    OBVIOUS
  <2>2. node' = [node EXCEPT ![k] = S]
    BY <1>3, <1>5, <2>1 DEF sendHeartbeats
  <2>3. Ticked(k, S)
    BY <1>5, <2>1, <2>2 DEF sendHeartbeats, Ticked
  <2> QED
    BY <2>3
<1>6. ASSUME startElection(k) PROVE \E S : Ticked(k, S)
  <2>1. PICK t, timeout, standing :
           /\ t = node[k].term + 1
           /\ standing = [node[k] EXCEPT !.term = t, !.role = "Candidate", !.votedFor = k,
                                         !.votes = {k}, !.electionTimer = timeout]
           /\ node' = [node EXCEPT ![k] = IF peers(k) = {} THEN becomeLeader(standing)
                                          ELSE standing]
    BY <1>6 DEF startElection
  <2>2. PICK S : S = IF peers(k) = {} THEN becomeLeader(standing) ELSE standing
    OBVIOUS
  <2>3. S.term = t
    BY <1>3, <2>1, <2>2 DEF becomeLeader, NodeState
  <2>4. PICK body : broadcast(k, peers(k), body)
    BY <1>6 DEF startElection
  <2>5. node[k].role # "Leader" /\ node[k].electionTimer <= 1
    BY <1>6 DEF startElection
  <2>6. Ticked(k, S)
    BY <2>1, <2>2, <2>3, <2>4, <2>5 DEF Ticked
  <2> QED
    BY <2>6
<1> QED
  BY <1>1, <1>2, <1>4, <1>5, <1>6 DEF visited

LEMMA TickTimely == ASSUME Kept, StableInv, Prompt, NEW k \in Node, onTick(k) PROVE StableInv'
<1>1. /\ phase = "timers" /\ k \in todo /\ todo' = todo \ {k}
      /\ phase' = IF todo = {k} THEN "deliver" ELSE "timers"
      /\ UNCHANGED <<inboxes, partitions, heard>>
  BY TickIs DEF Kept
<1>2. PICK S : Ticked(k, S)
  BY TickIs DEF Kept
<1>3. PhaseInv'
  BY <1>1 DEF StableInv, PhaseInv
<1>4. HeardInv'
  BY <1>1, HeardKept DEF StableInv
<1>5. ahead(k) = 1 /\ ahead(k)' = 0 /\ \A j \in Node : j # k => ahead(j)' = ahead(j)
  BY <1>1 DEF ahead
<1>6. \A j \in Node : node'[j] = IF j = k THEN S ELSE node[j]
  BY <1>2 DEF Ticked, Kept, ClusterInv, TypeInv
<1>7. node[k] \in NodeState
  BY DEF Kept, ClusterInv, TypeInv
<1>8. ASSUME NEW l \in Node, NEW n \in peers(l), Follows(n, l)' PROVE Beats(l, n)'
  <2>1. n \in Node /\ n # l
    BY DEF peers
  <2>2. Follows(n, l) /\ node'[l].term = node[l].term
    BY <1>1, <1>8, FollowsBack DEF StableInv
  <2>3. Beats(l, n)
    BY <2>2 DEF StableInv, TimelyInv
  <2>3a. PICK e \in Nat, h \in Nat \ {0}, an \in {0, 1}, al \in {0, 1} :
           /\ e = node[n].electionTimer /\ h = node[l].heartbeatTimer
           /\ an = ahead(n) /\ al = ahead(l)
    BY <2>1, TimersAre DEF Kept
  <2>4. PICK L, f, box, x :
           /\ f = inFlight[plain(n)] /\ f \in Seq(Flying(L))
           /\ box = inboxes[plain(n)] /\ x = HeartbeatMsg(l, node[l].term, n)
    BY <2>1, TimersAre DEF Kept
  <2>5. Timely(e, h, an, al, f, box, x)
    BY <2>3, <2>3a, <2>4 DEF Beats
  <2>6. DOMAIN box = {}
    BY <1>1, <2>1, <2>4 DEF StableInv, PhaseInv
  <2>7. inboxes'[plain(n)] = box /\ HeartbeatMsg(l, node'[l].term, n) = x
    BY <1>1, <2>2, <2>4
  <2>8. CASE k = n
    <3>1. node[k].role # "Leader" /\ node[k].term \in Nat /\ node'[n].term = node[n].term
      BY <1>7, <1>8, <2>2, <2>8, TermsAre DEF Follows, NodeState
    <3>2. node[k].term + 1 # node[k].term
      BY <3>1
    <3>3. S = [node[k] EXCEPT !.electionTimer = @ - 1] /\ UNCHANGED inFlight
      BY <1>2, <1>6, <2>1, <2>8, <3>1, <3>2 DEF Ticked
    <3>4. S.electionTimer = e - 1
      BY <1>7, <2>3a, <2>8, <3>3 DEF NodeState
    <3>5. Timely(e - 1, h, 0, al, f, box, x)
      <4>1. an = 1
        BY <1>5, <2>3a, <2>8
      <4>2. Timely(e, h, 1, al, f, box, x)
        BY <2>5, <4>1
      <4> QED
        BY <2>4, <2>6, <4>2, TimelyVisit
    <3>6. /\ node'[n].electionTimer = e - 1 /\ node'[l].heartbeatTimer = h
          /\ ahead(n)' = 0 /\ ahead(l)' = al /\ inFlight'[plain(n)] = f
      BY <1>5, <1>6, <2>1, <2>3a, <2>4, <2>8, <3>3, <3>4
    <3> QED
      BY <2>7, <3>5, <3>6 DEF Beats
  <2>9. CASE k = l
    <3>1. node[k].role = "Leader"
      BY <2>2, <2>9 DEF Follows
    <3>2. node'[n].electionTimer = e /\ ahead(n)' = an /\ ahead(l)' = 0 /\ al = 1
      BY <1>5, <1>6, <2>1, <2>3a, <2>4, <2>9
    <3>3. CASE S = [node[k] EXCEPT !.heartbeatTimer = @ - 1] /\ UNCHANGED inFlight
      <4>1. node'[l].heartbeatTimer = h - 1 /\ inFlight'[plain(n)] = f
        BY <1>6, <1>7, <2>3a, <2>4, <2>9, <3>3 DEF NodeState
      <4>2. Timely(e, h - 1, an, 0, f, box, x)
        BY <2>3a, <2>4, <2>5, <3>2, TimelyLeaderVisit
      <4> QED
        BY <2>7, <3>2, <4>1, <4>2 DEF Beats
    <3>4. CASE /\ node[k].heartbeatTimer <= 1
               /\ broadcast(k, peers(k), [p \in peers(k) |-> HeartbeatMsg(k, node[k].term, p)])
      <4>1. h = 1
        BY <2>3a, <2>9, <3>4
      <4>2. PICK body : body = [p \in peers(k) |-> HeartbeatMsg(k, node[k].term, p)]
        OBVIOUS
      <4>3. body[n] = x /\ n \in peers(k) /\ peers(k) \in SUBSET Node
        BY <2>1, <2>4, <2>9, <4>2 DEF peers
      <4>4. PICK M : \E s \in Seq(Flying(M)) :
                        /\ inFlight[plain(n)] \in Seq(Flying(M))
                        /\ inFlight'[plain(n)] = inFlight[plain(n)] \o s
                        /\ n \in peers(k) => s \in fates(k, plain(n), body[n])
        <5>1. broadcast(k, peers(k), body)
          BY <3>4, <4>2
        <5> QED
          BY <2>1, <4>3, <5>1, BroadcastGrows, Zenon DEF Kept
      <4>5. PICK s \in Seq(Flying(M)) : /\ f \in Seq(Flying(M)) /\ inFlight'[plain(n)] = f \o s
                                        /\ s \in fates(k, plain(n), x)
        BY <2>4, <4>3, <4>4
      <4>6. \E j \in DOMAIN s : s[j].body = x /\ s[j].wait <= 1 + MaxExtraDelay
        BY <2>2, <4>5, FateArrives DEF Prompt, Follows
      <4>7. PICK g : g = node'[l].heartbeatTimer
        OBVIOUS
      <4>8. Timely(e, g, an, 0, f \o s, box, x)
        BY <2>3a, <2>4, <2>5, <3>2, <4>1, <4>5, <4>6, TimelySent
      <4> QED
        BY <2>7, <3>2, <4>5, <4>7, <4>8 DEF Beats
    <3> QED
      BY <1>2, <3>1, <3>3, <3>4 DEF Ticked
  <2>10. CASE k # n /\ k # l
    <3>1. /\ node'[n].electionTimer = node[n].electionTimer
          /\ node'[l].heartbeatTimer = node[l].heartbeatTimer
          /\ ahead(n)' = ahead(n) /\ ahead(l)' = ahead(l)
      BY <1>5, <1>6, <2>1, <2>10
    <3>2. \/ inFlight'[plain(n)] = inFlight[plain(n)]
          \/ \E from, body : \E group \in SUBSET Node : broadcast(from, group, body)
      <4>1. peers(k) \in SUBSET Node
        BY DEF peers
      <4>2. UNCHANGED inFlight \/ \E body : broadcast(k, peers(k), body)
        BY <1>2 DEF Ticked
      <4> QED
        BY <4>1, <4>2, Zenon
    <3> QED
      BY <2>1, <2>2, <2>3, <2>4, <2>7, <3>1, <3>2, BeatsKept DEF Kept
  <2> QED
    BY <2>8, <2>9, <2>10
<1> QED
  BY <1>3, <1>4, <1>8 DEF StableInv, TimelyInv, peers

LEMMA StableInit == Init => StableInv
<1> SUFFICES ASSUME Init PROVE StableInv
  OBVIOUS
<1>1. PICK t \in [Node -> Timeout] : node = [n \in Node |-> FreshNode(t[n])]
  BY DEF Init
<1>2. \A n \in Node : node[n].term = 0 /\ node[n].role = "Follower" /\ heard[n] = -1
  BY <1>1 DEF Init, FreshNode
<1>3. PhaseInv
  BY MailIs DEF Init, NetInit, PhaseInv
<1>4. HeardInv
  <2>1. -1 <= 0 /\ -1 # 0
    OBVIOUS
  <2> QED
    BY <1>2, <2>1 DEF Init, HeardInv
<1>5. TimelyInv
  BY <1>2 DEF TimelyInv, Follows
<1> QED
  BY <1>3, <1>4, <1>5 DEF StableInv

LEMMA StableStep == ASSUME Kept, StableInv, Prompt, [Next]_vars PROVE StableInv'
<1>1. CASE deliver
  BY <1>1, DeliverTimely
<1>2. CASE pumpServer
  BY <1>2, PumpTimely
<1>3. CASE pumpDone \/ responsesDone
  BY <1>3, LoopEndTimely
<1>4. CASE processResponse
  BY <1>4, ResponseTimely
<1>5. ASSUME NEW n \in Node, onTick(n) PROVE StableInv'
  BY <1>5, TickTimely
<1>6. ASSUME NEW m \in Node, NEW n \in Node, cut(m, n) \/ heal(m, n) PROVE StableInv'
  BY <1>6, LinkTimely DEF cut, heal, partition, healPartition
<1>7. CASE UNCHANGED vars
  BY <1>7, LinkTimely DEF vars, forget
<1> QED
  BY <1>1, <1>2, <1>3, <1>4, <1>5, <1>6, <1>7 DEF Next

\* Everybody is in the leader's term, and nothing newer was ever sent.
LEMMA SettledTerms ==
    ASSUME ClusterInv, Elections, NEW l \in Node, Settled(l)
    PROVE  /\ node[l].term \in Nat
           /\ \A k \in Node : /\ node[k].term = node[l].term
                              /\ node[k].role = IF k = l THEN "Leader" ELSE "Follower"
           /\ \A m \in sent : m.term \in Nat /\ m.term <= node[l].term
<1>1. \A k \in Node : /\ node[k].term = node[l].term /\ node[k].term \in Nat
                      /\ node[k].role = IF k = l THEN "Leader" ELSE "Follower"
  BY TermsAre DEF Settled, peers, ClusterInv, TypeInv, NodeState
<1>2. \A m \in sent : m.from \in Node /\ m.term \in Nat
  BY TermsAre DEF ClusterInv, TypeInv, Request, Response
<1> QED
  BY <1>1, <1>2 DEF Elections

\* Roles, terms and what was heard stay, so the leader is settled still.
LEMMA SettledSame ==
    ASSUME NEW l \in Node, Settled(l), partitions' = {},
           \A k \in Node : /\ node'[k].role = node[k].role /\ node'[k].term = node[k].term
                           /\ k # l => heard'[k] = heard[k]
    PROVE  Settled(l)'
  BY DEF Settled, peers

LEMMA SettledPump ==
    ASSUME Kept, StableInv, NEW l \in Node, Settled(l), pumpServer
    PROVE  Settled(l)'
<1>0. PICK k \in Node, timeout \in Timeout : \E m, h : Pumped(k, m, timeout, h)
  BY PumpIs DEF Kept
<1>1. PICK m, h : Pumped(k, m, timeout, h)
  BY <1>0
<1>2. /\ \A j \in Node : node'[j] = IF j = k THEN h.state ELSE node[j]
      /\ m.type \in {"RequestVote", "Heartbeat"}
      /\ m.type = "Heartbeat" => HeartbeatOutcome(node[k], m, h)
      /\ m.type = "RequestVote" => VoteOutcome(node[k], m, h)
  BY <1>1, PumpedIs DEF Kept
<1>3. PICK T \in Nat : T = node[l].term
  BY SettledTerms DEF Kept
<1>4. /\ \A j \in Node : node[j].term = T /\ node[j].role = IF j = l THEN "Leader" ELSE "Follower"
      /\ m \in sent /\ m.to = k /\ m.term \in Nat /\ m.term <= T
  BY <1>1, <1>3, SettledTerms DEF Kept, Pumped
<1>5. partitions' = {} /\ heard \in [Node -> {-1} \cup Term]
  BY <1>1 DEF Pumped, Settled, StableInv, HeardInv
<1>6. ~(m.term > T) /\ (m.term >= T => m.term = T) /\ (m.term < T \/ m.term >= T)
  BY <1>4
<1>7. CASE m.type = "RequestVote"
  <2>1. h.state.role = node[k].role /\ h.state.term = node[k].term
    BY <1>2, <1>4, <1>6, <1>7 DEF VoteOutcome, free
  <2>2. heard' = heard
    BY <1>1, <1>7 DEF Pumped
  <2> QED
    BY <1>2, <1>5, <2>1, <2>2, SettledSame
<1>8. CASE m.type = "Heartbeat" /\ m.term < T
  <2>1. h.state = node[k] /\ h.ok = FALSE
    BY <1>2, <1>4, <1>8 DEF HeartbeatOutcome
  <2>2. heard' = heard
    BY <1>1, <2>1 DEF Pumped
  <2> QED
    BY <1>2, <1>5, <2>1, <2>2, SettledSame
<1>9. CASE m.type = "Heartbeat" /\ m.term >= T
  <2>1. m.term = T /\ l = m.from /\ k # l
    BY <1>3, <1>4, <1>6, <1>9 DEF Kept, Elections
  <2>2. h.state.term = T /\ h.state.role = "Follower" /\ h.ok = TRUE
    BY <1>2, <1>4, <1>9, <2>1 DEF HeartbeatOutcome
  <2>3. heard' = [heard EXCEPT ![k] = T]
    BY <1>1, <1>9, <2>1, <2>2 DEF Pumped
  <2>4. heard[k] = T
    BY <1>3, <2>1 DEF Settled, peers
  <2>5. \A j \in Node : heard'[j] = heard[j]
    BY <1>5, <2>3, <2>4
  <2>6. \A j \in Node : node'[j].role = node[j].role /\ node'[j].term = node[j].term
    BY <1>2, <1>4, <2>1, <2>2
  <2> QED
    BY <1>5, <2>5, <2>6, SettledSame
<1> QED
  BY <1>2, <1>6, <1>7, <1>8, <1>9

LEMMA SettledTick ==
    ASSUME Kept, StableInv, NEW l \in Node, Settled(l), NEW k \in Node, onTick(k)
    PROVE  Settled(l)'
<1>1. phase = "timers" /\ k \in todo /\ UNCHANGED <<inboxes, partitions, heard>>
  BY TickIs DEF Kept
<1>2. PICK S : Ticked(k, S)
  BY TickIs DEF Kept
<1>3. node[k] \in NodeState /\ \A j \in Node : node'[j] = IF j = k THEN S ELSE node[j]
  BY <1>2 DEF Ticked, Kept, ClusterInv, TypeInv
<1>4. ASSUME node[k].role # "Leader" PROVE ~(node[k].electionTimer <= 1)
  <2>1. k \in peers(l) /\ Follows(k, l)
    BY <1>4 DEF Settled, Follows, peers
  <2>2. Beats(l, k)
    BY <2>1 DEF StableInv, TimelyInv
  <2>2a. PICK e \in Nat, h \in Nat \ {0}, al \in {0, 1} :
           e = node[k].electionTimer /\ h = node[l].heartbeatTimer /\ al = ahead(l)
    BY TimersAre DEF Kept
  <2>3. PICK L, f, box, x :
           /\ f = inFlight[plain(k)] /\ f \in Seq(Flying(L))
           /\ box = inboxes[plain(k)] /\ x = HeartbeatMsg(l, node[l].term, k)
    BY TimersAre DEF Kept
  <2>4. ahead(k) = 1 /\ DOMAIN box = {}
    BY <1>1, <2>3 DEF ahead, StableInv, PhaseInv
  <2>5. Timely(e, h, 1, al, f, box, x)
    BY <2>2, <2>2a, <2>3, <2>4 DEF Beats
  <2>6. e > 1
    BY <2>2a, <2>3, <2>4, <2>5, TimelyVisit
  <2> QED
    BY <2>2a, <2>3, <2>6
<1>5. S.role = node[k].role /\ S.term = node[k].term
  BY <1>2, <1>3, <1>4 DEF Ticked, NodeState
<1> QED
  BY <1>1, <1>3, <1>5, SettledSame DEF Settled

LEMMA SettledStep ==
    ASSUME Kept, StableInv, [Next]_vars, NEW l \in Node, Settled(l), partitions' = {}
    PROVE  Settled(l)'
<1>1. CASE UNCHANGED <<node, heard>>
  BY <1>1 DEF Settled
<1>2. CASE deliver \/ pumpDone \/ responsesDone \/ UNCHANGED vars
  BY <1>1, <1>2 DEF deliver, pumpDone, responsesDone, vars
<1>3. CASE pumpServer
  BY <1>3, SettledPump
<1>4. CASE processResponse
  <2>1. PICK n \in Node, m \in sent :
           \/ m.term > node[n].term /\ node' = [node EXCEPT ![n] = becomeFollower(node[n], m.term)]
           \/ node' = node
           \/ node[n].role = "Candidate"
    BY <1>4, ResponseIs DEF Kept
  <2>2. /\ node[n].term \in Nat /\ m.term \in Nat /\ m.term <= node[n].term
        /\ node[n].role # "Candidate"
    BY SettledTerms DEF Kept
  <2>3. ~(m.term > node[n].term)
    BY <2>2
  <2>4. UNCHANGED heard
    BY <1>4, ResponseIs DEF Kept
  <2> QED
    BY <1>1, <2>1, <2>2, <2>3, <2>4
<1>5. ASSUME NEW n \in Node, onTick(n) PROVE Settled(l)'
  BY <1>5, SettledTick
<1>6. ASSUME NEW m \in Node, NEW n \in Node, cut(m, n) \/ heal(m, n) PROVE Settled(l)'
  <2>1. partitions = {}
    BY DEF Settled
  <2> QED
    BY <1>1, <1>6, <2>1 DEF cut, heal, forget
<1> QED
  BY <1>2, <1>3, <1>4, <1>5, <1>6 DEF Next

\* A leader that every other node has heard is not deposed while the links stay:
\* no election timer runs out, since a heartbeat is always close enough, and no
\* message of another leader or a newer term is left.  For every cluster, range of
\* timeouts, delay and duplication, if messages are not dropped and the timeouts
\* exceed what a heartbeat may take.
THEOREM LeaderStable == Prompt => (Spec => StableLeader)
<1> SUFFICES ASSUME Prompt PROVE Spec => StableLeader
  OBVIOUS
<1>1. Init => StableInv
  BY StableInit
<1>2. ClusterInv /\ Elections /\ Elections' /\ StableInv /\ [Next]_vars => StableInv'
  BY ClusterStep, StableStep DEF Kept
<1>3. ClusterInv /\ Elections /\ Elections' /\ StableInv /\ [Next]_vars =>
         [\A l \in Node : Settled(l) /\ partitions' = {} => Settled(l)']_vars
  BY ClusterStep, SettledStep DEF Kept
<1> QED
  BY <1>1, <1>2, <1>3, ClusterInductive, ClusterElections, PTL DEF Spec, StableLeader
=============================================================================

-------------------------------- MODULE Raft --------------------------------
(***************************************************************************)
(* Raft leader election as 07-distributed-systems/raft/raft.cpp runs it,   *)
(* with time abstracted away: an election timeout may fire at any moment   *)
(* and a message that was sent may be handled at any later moment, any     *)
(* number of times, or never.  This is the whole fault model of            *)
(* SimulatedNetwork (drop, duplicate, delay, reorder, partition) taken at  *)
(* its worst.  RaftCluster.tla adds the ticks, the timers and the network  *)
(* and is shown to implement this module.                                  *)
(*                                                                         *)
(* A Leader's periodic sendHeartbeats has no action here: becomeLeader has *)
(* already put the same messages of the same term into msgs, so sending    *)
(* them again is a stuttering step of this module.                         *)
(***************************************************************************)
EXTENDS Integers, FiniteSets

CONSTANTS
    Node,       \* the cluster's node ids
    None,       \* "no value" of std::optional<NodeId> votedForThisTerm
    MaxTerm     \* bound on currentTerm (a uint64_t that no run can wrap)

ASSUME NodeAssumption == IsFiniteSet(Node) /\ Node # {} /\ None \notin Node
ASSUME MaxTermAssumption == MaxTerm \in Nat

VARIABLES
    role,           \* RaftNode::currentRole
    currentTerm,    \* RaftNode::currentTerm
    votedFor,       \* RaftNode::votedForThisTerm
    votesReceived,  \* RaftNode::votesReceived
    msgs            \* every message ever handed to SimulatedNetwork::send

vars == <<role, currentTerm, votedFor, votesReceived, msgs>>

Role == {"Follower", "Candidate", "Leader"}
Term == 0..MaxTerm

(***************************************************************************)
(* The wire format.  encodeVoteResponse and encodeHeartbeatAck write the   *)
(* same two fields (u64 term, u8 flag) and both travel in an RpcResponse,  *)
(* so a node cannot tell one from the other.  `method' records which       *)
(* handler produced a response; no action reads it, only the properties.   *)
(***************************************************************************)
Request == [type : {"RequestVote", "Heartbeat"}, term : Term,
            from : Node, to : Node]
Response == [type : {"Response"}, method : {"RequestVote", "Heartbeat"},
             term : Term, ok : BOOLEAN, from : Node, to : Node]

VoteRequest(c, p, t) ==
    [type |-> "RequestVote", term |-> t, from |-> c, to |-> p]
HeartbeatMsg(l, p, t) ==
    [type |-> "Heartbeat", term |-> t, from |-> l, to |-> p]
ResponseTo(m, t, ok) ==
    [type |-> "Response", method |-> m.type, term |-> t, ok |-> ok,
     from |-> m.to, to |-> m.from]

peers(n) == Node \ {n}

(***************************************************************************)
(* majority = clusterSize / 2 + 1.                                         *)
(***************************************************************************)
majority == Cardinality(Node) \div 2 + 1

-----------------------------------------------------------------------------
Init ==
    /\ role = [n \in Node |-> "Follower"]
    /\ currentTerm = [n \in Node |-> 0]
    /\ votedFor = [n \in Node |-> None]
    /\ votesReceived = [n \in Node |-> {}]
    /\ msgs = {}

(***************************************************************************)
(* becomeFollower resets the vote and the tally even when observedTerm is  *)
(* the term the node is already in.                                        *)
(***************************************************************************)
\* Seeded bug: the node moves past the term it observed.
becomeFollowerOfNext(n, observedTerm) ==
    /\ currentTerm' = [currentTerm EXCEPT ![n] = observedTerm + 1]
    /\ role' = [role EXCEPT ![n] = "Follower"]
    /\ votedFor' = [votedFor EXCEPT ![n] = None]
    /\ votesReceived' = [votesReceived EXCEPT ![n] = {}]

becomeFollower(n, observedTerm) ==
    /\ currentTerm' = [currentTerm EXCEPT ![n] = observedTerm]
    /\ role' = [role EXCEPT ![n] = "Follower"]
    /\ votedFor' = [votedFor EXCEPT ![n] = None]
    /\ votesReceived' = [votesReceived EXCEPT ![n] = {}]

(***************************************************************************)
(* startElection: the election timeout of a node that is not a Leader has  *)
(* elapsed (onTick).  A cluster of one wins its own vote at once.          *)
(***************************************************************************)
startElection(n) ==
    /\ role[n] # "Leader"
    /\ currentTerm[n] < MaxTerm
    /\ currentTerm' = [currentTerm EXCEPT ![n] = @ + 1]
    /\ role' = [role EXCEPT ![n] =
                    IF peers(n) = {} THEN "Leader" ELSE "Candidate"]
    /\ votedFor' = [votedFor EXCEPT ![n] = n]
    /\ votesReceived' = [votesReceived EXCEPT ![n] = {n}]
    /\ msgs' = msgs \cup {VoteRequest(n, p, currentTerm[n] + 1) : p \in peers(n)}

(***************************************************************************)
(* handleRequestVote, in two disjoint cases.                               *)
(***************************************************************************)
\* Seeded bug: the vote given before is forgotten.
voteFreeAlways(n, m) == TRUE

voteFree(n, m) == \/ m.term > currentTerm[n]
                  \/ votedFor[n] \in {None, m.from}

grantVote(m) ==
    LET n == m.to IN
    /\ m.type = "RequestVote"
    /\ m.term >= currentTerm[n]
    /\ voteFree(n, m)
    /\ currentTerm' = [currentTerm EXCEPT ![n] = m.term]
    /\ votedFor' = [votedFor EXCEPT ![n] = m.from]
    /\ IF m.term > currentTerm[n]
       THEN /\ role' = [role EXCEPT ![n] = "Follower"]
            /\ votesReceived' = [votesReceived EXCEPT ![n] = {}]
       ELSE UNCHANGED <<role, votesReceived>>
    /\ msgs' = msgs \cup {ResponseTo(m, m.term, TRUE)}

refuseVote(m) ==
    LET n == m.to IN
    /\ m.type = "RequestVote"
    /\ \/ m.term < currentTerm[n]
       \/ ~voteFree(n, m)
    /\ msgs' = msgs \cup {ResponseTo(m, currentTerm[n], FALSE)}
    /\ UNCHANGED <<role, currentTerm, votedFor, votesReceived>>

(***************************************************************************)
(* handleHeartbeat.  A stale one is refused; any other one turns the node  *)
(* into a Follower of that term, unless it is one already.                 *)
(***************************************************************************)
stepsDown(n, m) == m.term > currentTerm[n] \/ role[n] # "Follower"

refuseHeartbeat(m) ==
    LET n == m.to IN
    /\ m.type = "Heartbeat"
    /\ m.term < currentTerm[n]
    /\ msgs' = msgs \cup {ResponseTo(m, currentTerm[n], FALSE)}
    /\ UNCHANGED <<role, currentTerm, votedFor, votesReceived>>

acceptHeartbeat(m) ==
    LET n == m.to IN
    /\ m.type = "Heartbeat"
    /\ m.term >= currentTerm[n]
    /\ IF stepsDown(n, m)
       THEN becomeFollower(n, m.term)
       ELSE UNCHANGED <<role, currentTerm, votedFor, votesReceived>>
    /\ msgs' = msgs \cup {ResponseTo(m, m.term, TRUE)}

(***************************************************************************)
(* processIncomingResponses, one response of the inbox at a time.  The     *)
(* responses it drops without a state change need no action.               *)
(***************************************************************************)
\* Seeded bug: a refusal of the node's own term makes it step down.
newerTermOrRefusal(n, m) ==
    m.term > currentTerm[n] \/ (m.term = currentTerm[n] /\ ~m.ok)

newerTerm(n, m) == m.term > currentTerm[n]

observeNewerTerm(m) ==
    /\ m.type = "Response"
    /\ newerTerm(m.to, m)
    /\ becomeFollower(m.to, m.term)
    /\ UNCHANGED msgs

countVote(m) ==
    LET n == m.to
        votes == votesReceived[n] \cup {m.from}
    IN
    /\ m.type = "Response"
    /\ ~newerTerm(n, m)
    /\ role[n] = "Candidate"
    /\ m.term = currentTerm[n]
    /\ m.ok
    /\ votesReceived' = [votesReceived EXCEPT ![n] = votes]
    /\ IF Cardinality(votes) >= majority
       THEN \* becomeLeader: the first heartbeats leave at once
            /\ role' = [role EXCEPT ![n] = "Leader"]
            /\ msgs' = msgs \cup {HeartbeatMsg(n, p, currentTerm[n]) : p \in peers(n)}
       ELSE UNCHANGED <<role, msgs>>
    /\ UNCHANGED <<currentTerm, votedFor>>

Next ==
    \/ \E n \in Node : startElection(n)
    \/ \E m \in msgs : grantVote(m)
    \/ \E m \in msgs : refuseVote(m)
    \/ \E m \in msgs : refuseHeartbeat(m)
    \/ \E m \in msgs : acceptHeartbeat(m)
    \/ \E m \in msgs : observeNewerTerm(m)
    \/ \E m \in msgs : countVote(m)

Spec == Init /\ [][Next]_vars

-----------------------------------------------------------------------------
(***************************************************************************)
(* Properties.                                                             *)
(***************************************************************************)

\* Every variable keeps the type its C++ declaration gives it.
TypeOK ==
    /\ role \in [Node -> Role]
    /\ currentTerm \in [Node -> Term]
    /\ votedFor \in [Node -> Node \cup {None}]
    /\ votesReceived \in [Node -> SUBSET Node]
    /\ msgs \subseteq Request \cup Response

\* Node l has, now or earlier, been the Leader of term t: it is Leader now or
\* a heartbeat it sent in that term exists (becomeLeader always sends one).
Elected(l, t) ==
    \/ role[l] = "Leader" /\ currentTerm[l] = t
    \/ \E m \in msgs : m.type = "Heartbeat" /\ m.from = l /\ m.term = t

\* Node n has answered a RequestVote of c in term t with a vote.
Voted(n, c, t) ==
    \E m \in msgs : /\ m.type = "Response" /\ m.method = "RequestVote" /\ m.ok
                    /\ m.from = n /\ m.to = c /\ m.term = t

\* ADR 0009's safety property, over all time and not only at one instant: a
\* term never has two leaders, not even one after the other.
AtMostOneLeaderPerTerm ==
    \A t \in Term, l1 \in Node :
        Elected(l1, t) => \A l2 \in Node : Elected(l2, t) => l1 = l2

\* A node grants its vote to at most one other node in a term, although
\* becomeFollower forgets votedForThisTerm when a Candidate hears a heartbeat
\* of the term it is already in.
OneVotePerTerm ==
    \A t \in Term, n, c1 \in Node :
        Voted(n, c1, t) => \A c2 \in Node : Voted(n, c2, t) => c1 = c2

\* A Leader keeps its role for as long as it stays in its term: the "(implausibly,
\* but handled) a stale Leader" branch of handleHeartbeat never demotes a Leader
\* within its own term, and no late response does either.
LeaderKeepsTerm ==
    [][\A n \in Node :
          role[n] = "Leader" /\ currentTerm'[n] = currentTerm[n]
              => role'[n] = "Leader"]_vars

\* currentTerm never goes back, and within one term a vote that still stands
\* (the node is a Follower) is neither withdrawn nor moved to another node.
VoteIsFinal ==
    [][\A n \in Node :
          /\ currentTerm'[n] >= currentTerm[n]
          /\ (currentTerm'[n] = currentTerm[n] /\ role[n] = "Follower"
                  /\ votedFor[n] # None)
                 => votedFor'[n] = votedFor[n]]_vars

\* What a node has become or promised in a term it does not take back in that
\* term: neither its leadership nor its vote, whatever comes late or twice.
NothingTakenBack == LeaderKeepsTerm /\ VoteIsFinal

-----------------------------------------------------------------------------
(***************************************************************************)
(* The inductive invariant behind AtMostOneLeaderPerTerm.                  *)
(***************************************************************************)

\* Nothing is sent to oneself, and a request carries a term its sender reached.
SenderInv ==
    \A m \in msgs : /\ m.from # m.to
                    /\ m.term <= currentTerm[m.from]

\* A node that runs in a term, or leads it, holds its own vote there.
OwnVoteInv ==
    \A n \in Node : role[n] # "Follower" => votedFor[n] = n

\* A vote that was granted in the node's present term still stands, and the
\* node is a Follower: a Candidate of a term has granted no vote in it.
StandingVoteInv ==
    \A n, c \in Node, t \in Term :
        t = currentTerm[n] /\ Voted(n, c, t) => /\ votedFor[n] = c
                                                /\ role[n] = "Follower"

\* A Candidate's tally holds itself and nodes that voted for it in this term;
\* in particular no heartbeat ack is ever counted as a vote.
TallyInv ==
    \A n \in Node : role[n] = "Candidate" =>
        /\ n \in votesReceived[n]
        /\ \A v \in votesReceived[n] \ {n} : Voted(v, n, currentTerm[n])

\* An accepted heartbeat was sent by a leader of its term.  Its ack looks like a
\* vote, but it can only reach a node that has won that term already.
AckInv ==
    \A m \in msgs :
        m.type = "Response" /\ m.method = "Heartbeat" /\ m.ok
            => \E h \in msgs : /\ h.type = "Heartbeat"
                               /\ h.from = m.to /\ h.term = m.term

\* A leader of term t won a majority in it, has not left that role while in t,
\* and has voted for nobody else in t.
LedTerm(l, t) ==
    /\ currentTerm[l] >= t
    /\ currentTerm[l] = t => role[l] = "Leader"
    /\ \A c \in Node : ~Voted(l, c, t)
    /\ \E Q \in SUBSET Node :
          /\ l \in Q
          /\ Cardinality(Q) >= majority
          /\ \A v \in Q \ {l} : Voted(v, l, t)

LeaderInv == \A l \in Node, t \in Term : Elected(l, t) => LedTerm(l, t)

\* The conjunction is inductive.
IInv ==
    /\ TypeOK
    /\ SenderInv
    /\ OwnVoteInv
    /\ StandingVoteInv
    /\ TallyInv
    /\ AckInv
    /\ LeaderInv
    /\ OneVotePerTerm
    /\ AtMostOneLeaderPerTerm
=============================================================================

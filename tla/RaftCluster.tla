---------------------------- MODULE RaftCluster -----------------------------
(***************************************************************************)
(* RaftNode and RaftCluster of 07-distributed-systems/raft/raft.cpp with   *)
(* their ticks, timers and network.  One RaftCluster::tick() is four       *)
(* loops over the nodes in id order: deliver, answer requests, read        *)
(* answers, run timers.  A message is handled in a step of its own.        *)
(*                                                                         *)
(* randomElectionTimeout is any value of its range.  `sent' is a history   *)
(* variable: every message handed to send(), which is what Raft.tla calls  *)
(* msgs.                                                                   *)
(***************************************************************************)
EXTENDS SimNetwork, FiniteSets

CONSTANTS
    None,
    MaxTerm,            \* bound on the terms
    MinTimeout,         \* minElectionTimeoutTicks
    MaxTimeout,         \* maxElectionTimeoutTicks
    HeartbeatInterval,  \* heartbeatIntervalTicks
    Links               \* the links, as pairs, that the driver may cut

ASSUME NodeIds == Node \subseteq Nat /\ Node # {} /\ IsFiniteSet(Node) /\ None \notin Node
ASSUME TimerAssumption == /\ MinTimeout \in Nat \ {0} /\ MaxTimeout \in Nat
                          /\ MinTimeout <= MaxTimeout
                          /\ HeartbeatInterval \in Nat \ {0}
ASSUME ClusterBounds == MaxTerm \in Nat /\ Links \subseteq Node \X Node

VARIABLES
    node,       \* node[n]: the fields of RaftNode n
    phase,      \* the loop of RaftCluster::tick() that runs now
    todo,       \* the nodes the timer loop has still to visit
    heard,      \* history: the last term in which n accepted a heartbeat, or -1
                \* if it has accepted none since a link was last cut or healed
    sent        \* history: every message handed to send()

vars == <<inFlight, inboxes, partitions, node, phase, todo, heard, sent>>

Timeout == MinTimeout..MaxTimeout
peers(n) == Node \ {n}
majority == Cardinality(Node) \div 2 + 1
first(S) == CHOOSE n \in S : \A m \in S : n <= m

VoteRequest(c, t, p) == [type |-> "RequestVote", term |-> t, from |-> c, to |-> p]
HeartbeatMsg(l, t, p) == [type |-> "Heartbeat", term |-> t, from |-> l, to |-> p]

FreshNode(timeout) ==
    [role |-> "Follower", term |-> 0, votedFor |-> None, votes |-> {},
     electionTimer |-> timeout, heartbeatTimer |-> HeartbeatInterval]

Init ==
    /\ NetInit
    /\ \E t \in [Node -> Timeout] : node = [n \in Node |-> FreshNode(t[n])]
    /\ phase = "deliver"
    /\ todo = {}
    /\ heard = [n \in Node |-> -1]
    /\ sent = {}

-----------------------------------------------------------------------------
(***************************************************************************)
(* The handlers, as functions of the node's fields.  A timer that is reset *)
(* gets the value `timeout'.                                               *)
(***************************************************************************)
becomeFollower(st, observedTerm) ==
    [st EXCEPT !.term = observedTerm, !.role = "Follower", !.votedFor = None,
               !.votes = {}]

handleRequestVote(st, request, timeout) ==
    LET seen == IF request.term > st.term THEN becomeFollower(st, request.term) ELSE st
        granted == request.term = seen.term /\ seen.votedFor \in {None, request.from}
    IN [state |-> IF granted THEN [seen EXCEPT !.votedFor = request.from,
                                               !.electionTimer = timeout]
                             ELSE seen,
        term |-> seen.term, ok |-> granted]

\* Seeded bug: a heartbeat does not restart the election timer.
handleHeartbeatNoReset(st, request, timeout) ==
    LET seen == IF request.term > st.term \/ st.role # "Follower"
                THEN becomeFollower(st, request.term) ELSE st
    IN IF request.term < st.term
       THEN [state |-> st, term |-> st.term, ok |-> FALSE]
       ELSE [state |-> seen, term |-> seen.term, ok |-> TRUE]

\* Seeded bug: a stale heartbeat is obeyed.
handleHeartbeatStale(st, request, timeout) ==
    LET seen == becomeFollower(st, request.term)
    IN [state |-> [seen EXCEPT !.electionTimer = timeout], term |-> seen.term, ok |-> TRUE]

handleHeartbeat(st, request, timeout) ==
    LET seen == IF request.term > st.term \/ st.role # "Follower"
                THEN becomeFollower(st, request.term) ELSE st
    IN IF request.term < st.term
       THEN [state |-> st, term |-> st.term, ok |-> FALSE]
       ELSE [state |-> [seen EXCEPT !.electionTimer = timeout],
             term |-> seen.term, ok |-> TRUE]

handle(st, request, timeout) ==
    IF request.type = "RequestVote" THEN handleRequestVote(st, request, timeout)
    ELSE handleHeartbeat(st, request, timeout)

\* processIncomingResponses up to becomeLeader: a vote that counts is tallied.
counts(st, response) == st.role = "Candidate" /\ response.term = st.term /\ response.ok
tally(st, from) == [st EXCEPT !.votes = @ \cup {from}]
wins(st) == Cardinality(st.votes) >= majority
becomeLeader(st) == [st EXCEPT !.role = "Leader", !.heartbeatTimer = HeartbeatInterval]

-----------------------------------------------------------------------------
\* Loop 0: net.tick().
deliver ==
    /\ phase = "deliver"
    /\ netTick
    /\ phase' = "pump"
    /\ UNCHANGED <<node, todo, heard, sent>>

waiting(port) == {n \in Node : inboxes[[node |-> n, port |-> port]] # <<>>}

\* Loop 1: pumpServer, one request.
pumpServer ==
    LET n == first(waiting("request"))
        m == Head(inboxes[plain(n)]).body
    IN
    /\ phase = "pump"
    /\ waiting("request") # {}
    /\ \E timeout \in Timeout :
          LET h == handle(node[n], m, timeout)
              response == [type |-> "Response", method |-> m.type, term |-> h.term,
                           ok |-> h.ok, from |-> n, to |-> m.from]
          IN /\ node' = [node EXCEPT ![n] = h.state]
             /\ sent' = sent \cup {response}
             /\ heard' = IF m.type = "Heartbeat" /\ h.ok
                         THEN [heard EXCEPT ![n] = m.term] ELSE heard
             /\ send(n, responsePort(m.from), response)
    /\ inboxes' = [inboxes EXCEPT ![plain(n)] = Tail(@)]
    /\ UNCHANGED <<partitions, phase, todo>>

pumpDone ==
    /\ phase = "pump"
    /\ waiting("request") = {}
    /\ phase' = "responses"
    /\ UNCHANGED <<netVars, node, todo, heard, sent>>

\* Loop 2: processIncomingResponses, one response.
processResponse ==
    LET n == first(waiting("response"))
        st == node[n]
        m == Head(inboxes[responsePort(n)]).body
        counted == tally(st, m.from)
    IN
    /\ phase = "responses"
    /\ waiting("response") # {}
    /\ inboxes' = [inboxes EXCEPT ![responsePort(n)] = Tail(@)]
    /\ \/ /\ m.term > st.term
          /\ node' = [node EXCEPT ![n] = becomeFollower(st, m.term)]
          /\ UNCHANGED <<inFlight, sent>>
       \/ /\ m.term <= st.term /\ ~counts(st, m)
          /\ UNCHANGED <<inFlight, node, sent>>
       \/ /\ m.term <= st.term /\ counts(st, m) /\ ~wins(counted)
          /\ node' = [node EXCEPT ![n] = counted]
          /\ UNCHANGED <<inFlight, sent>>
       \/ /\ m.term <= st.term /\ counts(st, m) /\ wins(counted)
          /\ node' = [node EXCEPT ![n] = becomeLeader(counted)]
          /\ broadcast(n, peers(n), [p \in peers(n) |-> HeartbeatMsg(n, st.term, p)])
          /\ sent' = sent \cup {HeartbeatMsg(n, st.term, p) : p \in peers(n)}
    /\ UNCHANGED <<partitions, phase, todo, heard>>

responsesDone ==
    /\ phase = "responses"
    /\ waiting("response") = {}
    /\ phase' = "timers"
    /\ todo' = Node
    /\ UNCHANGED <<netVars, node, heard, sent>>

(***************************************************************************)
(* Loop 3: onTick.  A Leader's timer is about heartbeats, any other node's *)
(* about elections; neither becomeFollower nor becomeLeader restarts the   *)
(* election timer.                                                         *)
(***************************************************************************)
visited(n) ==
    /\ todo' = todo \ {n}
    /\ phase' = IF todo = {n} THEN "deliver" ELSE "timers"
    /\ UNCHANGED <<inboxes, partitions, heard>>

\* Seeded bug: the timer counts down past the tick that should fire it.
countDownTooFar(n) ==
    /\ node[n].role = "Leader" \/ node[n].electionTimer > 0
    /\ node[n].role = "Leader" => node[n].heartbeatTimer > 0
    /\ node' = IF node[n].role = "Leader"
               THEN [node EXCEPT ![n].heartbeatTimer = @ - 1]
               ELSE [node EXCEPT ![n].electionTimer = @ - 1]
    /\ UNCHANGED <<inFlight, sent>>

countDown(n) ==
    /\ node[n].role = "Leader" \/ node[n].electionTimer > 1
    /\ node[n].role = "Leader" => node[n].heartbeatTimer > 1
    /\ node' = IF node[n].role = "Leader"
               THEN [node EXCEPT ![n].heartbeatTimer = @ - 1]
               ELSE [node EXCEPT ![n].electionTimer = @ - 1]
    /\ UNCHANGED <<inFlight, sent>>

sendHeartbeats(n) ==
    /\ node[n].role = "Leader"
    /\ node[n].heartbeatTimer <= 1
    /\ node' = [node EXCEPT ![n].heartbeatTimer = HeartbeatInterval]
    /\ broadcast(n, peers(n), [p \in peers(n) |-> HeartbeatMsg(n, node[n].term, p)])
    /\ sent' = sent \cup {HeartbeatMsg(n, node[n].term, p) : p \in peers(n)}

startElection(n) ==
    LET t == node[n].term + 1
        standing(timeout) ==
            [node[n] EXCEPT !.term = t, !.role = "Candidate", !.votedFor = n,
                            !.votes = {n}, !.electionTimer = timeout]
    IN
    /\ node[n].role # "Leader"
    /\ node[n].electionTimer <= 1
    /\ t <= MaxTerm
    /\ \E timeout \in Timeout :
          node' = [node EXCEPT ![n] = IF peers(n) = {} THEN becomeLeader(standing(timeout))
                                      ELSE standing(timeout)]
    /\ broadcast(n, peers(n), [p \in peers(n) |-> VoteRequest(n, t, p)])
    /\ sent' = sent \cup {VoteRequest(n, t, p) : p \in peers(n)}

onTick(n) ==
    /\ phase = "timers"
    /\ todo # {}
    /\ n = first(todo)
    /\ \/ countDown(n)
       \/ sendHeartbeats(n)
       \/ startElection(n)
    /\ visited(n)

forget == IF partitions' = partitions THEN heard ELSE [i \in Node |-> -1]

\* The driver cuts or heals a link between two ticks.
cut(m, n) ==
    /\ <<m, n>> \in Links
    /\ phase = "deliver"
    /\ partition(m, n)
    /\ heard' = forget
    /\ UNCHANGED <<node, phase, todo, sent>>

heal(m, n) ==
    /\ <<m, n>> \in Links
    /\ phase = "deliver"
    /\ healPartition(m, n)
    /\ heard' = forget
    /\ UNCHANGED <<node, phase, todo, sent>>

Next ==
    \/ deliver
    \/ pumpServer
    \/ pumpDone
    \/ processResponse
    \/ responsesDone
    \/ \E n \in Node : onTick(n)
    \/ \E m, n \in Node : cut(m, n)
    \/ \E m, n \in Node : heal(m, n)

Spec == Init /\ [][Next]_vars

-----------------------------------------------------------------------------
(***************************************************************************)
(* Properties.                                                             *)
(***************************************************************************)

\* A running timer is never 0 and never longer than its range allows: onTick
\* always finds it positive, so a timeout neither fires twice nor is missed.
TypeOK ==
    /\ \A n \in Node : /\ node[n].electionTimer \in 1..MaxTimeout
                       /\ node[n].heartbeatTimer \in 1..HeartbeatInterval
                       /\ node[n].term \in 0..MaxTerm
    /\ phase \in {"deliver", "pump", "responses", "timers"}
    /\ todo \subseteq Node

\* The cluster with its ticks, timers and network implements the election
\* protocol of Raft.tla, and with it has the properties proved there.
Election == INSTANCE Raft WITH
                role <- [n \in Node |-> node[n].role],
                currentTerm <- [n \in Node |-> node[n].term],
                votedFor <- [n \in Node |-> node[n].votedFor],
                votesReceived <- [n \in Node |-> node[n].votes],
                msgs <- sent

ImplementsRaft == Election!Spec

\* Node l leads, no link is cut, and every other node has heard from l in its
\* term since the links last changed.
Settled(l) ==
    /\ partitions = {}
    /\ node[l].role = "Leader"
    /\ \A n \in peers(l) : /\ node[n].role = "Follower"
                           /\ node[n].term = node[l].term
                           /\ heard[n] = node[l].term

\* Heartbeats "suppress further elections while a leader is alive and reachable"
\* (handleHeartbeat): a leader everyone has heard from leads until a link is cut,
\* also when it has just come back from a partition, provided that nothing is
\* dropped and MinTimeout exceeds HeartbeatInterval plus the largest extra delay
\* (10 > 3 + 0 in RaftCluster's constructor).
StableLeader ==
    [][\A l \in Node : Settled(l) /\ partitions' = {} => Settled(l)']_vars
=============================================================================

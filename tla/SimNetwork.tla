----------------------------- MODULE SimNetwork -----------------------------
(***************************************************************************)
(* The simulated network of 07-distributed-systems/rpc/rpc.cpp.  The PRNG  *)
(* that decides between dropping, delaying and duplicating a message is a  *)
(* nondeterministic choice; a fault whose probability is 0 is switched off *)
(* by its constant.                                                        *)
(*                                                                         *)
(* deliverAtTick is kept as the number of ticks still to wait, so that the *)
(* tick counter needs no bound.  The messages under way are kept per       *)
(* destination: tick() keeps their order, and only the order within one    *)
(* inbox can be observed.                                                  *)
(***************************************************************************)
EXTENDS Integers, Sequences

CONSTANTS
    Node,
    MayDrop,            \* dropProbability > 0
    MayDuplicate,       \* duplicateProbability > 0
    MaxExtraDelay       \* maxExtraDelayTicks

ASSUME FaultAssumption == /\ MayDrop \in BOOLEAN
                          /\ MayDuplicate \in BOOLEAN
                          /\ MaxExtraDelay \in Nat

VARIABLES
    inFlight,       \* SimulatedNetwork::inFlight, by destination
    inboxes,        \* SimulatedNetwork::inboxes
    partitions      \* SimulatedNetwork::partitions

netVars == <<inFlight, inboxes, partitions>>

(***************************************************************************)
(* A node's plain id and its response port are two different NodeIds.      *)
(***************************************************************************)
Addr == [node : Node, port : {"request", "response"}]
plain(n) == [node |-> n, port |-> "request"]
responsePort(n) == [node |-> n, port |-> "response"]

NetInit ==
    /\ inFlight = [a \in Addr |-> <<>>]
    /\ inboxes = [a \in Addr |-> <<>>]
    /\ partitions = {}

isPartitioned(a, b) == {a, b} \in partitions

partition(m, n) ==
    /\ partitions' = partitions \cup {{plain(m), plain(n)}}
    /\ UNCHANGED <<inFlight, inboxes>>

healPartition(m, n) ==
    /\ partitions' = partitions \ {{plain(m), plain(n)}}
    /\ UNCHANGED <<inFlight, inboxes>>

(***************************************************************************)
(* send: the sequences of copies that may enter inFlight.  The partition   *)
(* is looked up with the addresses as given.                               *)
(***************************************************************************)
copies(from, body) == [from : {from}, body : {body}, wait : 1..(1 + MaxExtraDelay)]

\* Seeded bug: a message passes the partition.
fatesThroughPartition(from, to, body) ==
    {<<c>> : c \in copies(from, body)}
    \cup {s \in {<<>>} : MayDrop}
    \cup {<<c, d>> : c, d \in {e \in copies(from, body) : MayDuplicate}}

fates(from, to, body) ==
    IF isPartitioned(plain(from), to) THEN {<<>>}
    ELSE {<<c>> : c \in copies(from, body)}
         \cup {s \in {<<>>} : MayDrop}
         \cup {<<c, d>> : c, d \in {e \in copies(from, body) : MayDuplicate}}

\* One message from `from' to the address `to'.
send(from, to, body) ==
    \E s \in fates(from, to, body) : inFlight' = [inFlight EXCEPT ![to] = @ \o s]

\* One message to every node of `group', body[p] to node p.
broadcast(from, group, body) ==
    \E s \in [group -> UNION {fates(from, plain(p), body[p]) : p \in group}] :
        /\ \A p \in group : s[p] \in fates(from, plain(p), body[p])
        /\ inFlight' = [a \in Addr |->
                           IF a.port = "request" /\ a.node \in group
                           THEN inFlight[a] \o s[a.node] ELSE inFlight[a]]

(***************************************************************************)
(* tick: what is due moves to the inboxes, the rest waits on.  Both keep   *)
(* the order of inFlight: kept(s, P) is s without the positions not in P.  *)
(***************************************************************************)
isDue(m) == m.wait <= 1
letter(m) == [from |-> m.from, body |-> m.body]

kept(s, P) ==
    LET upTo[i \in 0..Len(s)] ==
            IF i = 0 THEN <<>>
            ELSE IF i \in P THEN Append(upTo[i - 1], s[i]) ELSE upTo[i - 1]
    IN  upTo[Len(s)]

duePositions(s) == {i \in DOMAIN s : isDue(s[i])}

netTick ==
    /\ inboxes' = [a \in Addr |->
          LET due == kept(inFlight[a], duePositions(inFlight[a]))
          IN  inboxes[a] \o [i \in DOMAIN due |-> letter(due[i])]]
    /\ inFlight' = [a \in Addr |->
          LET rest == kept(inFlight[a], DOMAIN inFlight[a] \ duePositions(inFlight[a]))
          IN  [i \in DOMAIN rest |-> [rest[i] EXCEPT !.wait = @ - 1]]]
    /\ UNCHANGED partitions
=============================================================================

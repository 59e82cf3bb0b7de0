-------------------------------- MODULE Rpc ---------------------------------
(***************************************************************************)
(* RpcServer, pumpServer and RpcClient of 07-distributed-systems/rpc/      *)
(* rpc.cpp, over SimNetwork.  A call blocks its thread: it ticks the       *)
(* network, pumps its server and looks into its inbox until an answer with *)
(* its request id is there or its ticks are used up, so calls follow one   *)
(* another, and partitions change between them.  Their messages do not:    *)
(* a request or an answer of one call may arrive during a later one.       *)
(*                                                                         *)
(* `call' numbers the calls.  It travels in the messages as a history      *)
(* field that no action reads.                                             *)
(***************************************************************************)
EXTENDS SimNetwork, FiniteSets

CONSTANTS
    Client,         \* the RpcClient objects
    home,           \* home[c]: the node client c runs on
    Server,         \* the node of the RpcServer
    MaxCalls,       \* bound on the calls of one behaviour
    MaxTicks        \* the tick budget of a call

ASSUME ClientAssumption == home \in [Client -> Node \ {Server}] /\ Server \in Node
ASSUME BudgetAssumption == MaxCalls \in Nat /\ MaxTicks \in Nat \ {0}

VARIABLES
    nextRequestId,  \* RpcClient::nextRequestId of every client
    stage,          \* what the thread does next: "idle", "tick", "pump", "receive"
    current,        \* the call in progress
    ticksLeft,      \* maxTicks - i
    results,        \* history: what every finished call returned
    executed        \* history: the calls whose handler ran, in order

vars == <<inFlight, inboxes, partitions, nextRequestId, stage, current, ticksLeft,
          results, executed>>
clientVars == <<nextRequestId, current, ticksLeft, results>>

Method == {"registered", "unknown"}
NoCall == [client |-> CHOOSE c \in Client : TRUE, id |-> 0, call |-> 0]

Init ==
    /\ NetInit
    /\ nextRequestId = [c \in Client |-> 1]
    /\ stage = "idle"
    /\ current = NoCall
    /\ ticksLeft = 0
    /\ results = <<>>
    /\ executed = <<>>

(***************************************************************************)
(* RpcClient::call, up to its loop.                                        *)
(***************************************************************************)
startCall(c, method) ==
    LET n == Len(results) + 1 IN
    /\ stage = "idle"
    /\ Len(results) < MaxCalls
    /\ nextRequestId' = [nextRequestId EXCEPT ![c] = @ + 1]
    /\ current' = [client |-> c, id |-> nextRequestId[c], call |-> n]
    /\ ticksLeft' = MaxTicks
    /\ send(home[c], plain(Server), [id |-> nextRequestId[c], method |-> method, call |-> n])
    /\ stage' = "tick"
    /\ UNCHANGED <<inboxes, partitions, results, executed>>

tick ==
    /\ stage = "tick"
    /\ netTick
    /\ stage' = "pump"
    /\ UNCHANGED <<nextRequestId, current, ticksLeft, results, executed>>

(***************************************************************************)
(* pumpServer, one request at a time, with RpcServer::handleRequest.  An   *)
(* unknown method is answered with an error and runs nothing.              *)
(***************************************************************************)
runs(request) == request.method = "registered"

drained(inbox) == Tail(inbox)

pumpServer ==
    LET m == Head(inboxes[plain(Server)]) IN
    /\ stage = "pump"
    /\ inboxes[plain(Server)] # <<>>
    /\ inboxes' = [inboxes EXCEPT ![plain(Server)] = drained(@)]
    /\ executed' = IF runs(m.body) THEN Append(executed, m.body.call) ELSE executed
    /\ send(Server, responsePort(m.from),
            [id |-> m.body.id, ok |-> m.body.method = "registered", call |-> m.body.call])
    /\ UNCHANGED <<partitions, stage, clientVars>>

pumpDone ==
    /\ stage = "pump"
    /\ inboxes[plain(Server)] = <<>>
    /\ stage' = "receive"
    /\ UNCHANGED <<netVars, clientVars, executed>>

(***************************************************************************)
(* The rest of the loop body: the inbox is drained whole, and the first    *)
(* answer with this call's id is taken.                                    *)
(***************************************************************************)
\* Seeded bug: the first response in the inbox is taken, whatever its id.
matchesAny(response, id) == TRUE

matches(response, id) == response.id = id

\* Seeded bugs: the loop runs once more than its budget, or never counts.
moreTicksInclusive(left) == left >= 1
spendNothing(left) == left

moreTicks(left) == left > 1
spend(left) == left - 1

return(outcome, answered) ==
    /\ results' = Append(results, [call |-> current.call, outcome |-> outcome,
                                   answered |-> answered])
    /\ stage' = "idle"
    /\ current' = NoCall
    /\ ticksLeft' = 0

receive ==
    LET port == responsePort(home[current.client])
        inbox == inboxes[port]
        hits == {i \in DOMAIN inbox : matches(inbox[i].body, current.id)}
    IN
    /\ stage = "receive"
    /\ inboxes' = [inboxes EXCEPT ![port] = <<>>]
    /\ \/ /\ hits # {}
          /\ LET i == CHOOSE i \in hits : \A j \in hits : i <= j IN
             return(IF inbox[i].body.ok THEN "Success" ELSE "Error", inbox[i].body.call)
       \/ /\ hits = {}
          /\ moreTicks(ticksLeft)
          /\ ticksLeft' = spend(ticksLeft)
          /\ stage' = "tick"
          /\ UNCHANGED <<results, current>>
       \/ /\ hits = {}
          /\ ~moreTicks(ticksLeft)
          /\ return("TimedOut", 0)
    /\ UNCHANGED <<inFlight, partitions, nextRequestId, executed>>

cut(c) ==
    /\ stage = "idle"
    /\ partition(home[c], Server)
    /\ UNCHANGED <<nextRequestId, stage, current, ticksLeft, results, executed>>

heal(c) ==
    /\ stage = "idle"
    /\ healPartition(home[c], Server)
    /\ UNCHANGED <<nextRequestId, stage, current, ticksLeft, results, executed>>

Step ==
    \/ tick
    \/ pumpServer
    \/ pumpDone
    \/ receive

Next ==
    \/ \E c \in Client, method \in Method : startCall(c, method)
    \/ Step
    \/ \E c \in Client : cut(c)
    \/ \E c \in Client : heal(c)

Spec == Init /\ [][Next]_vars
FairSpec == Spec /\ WF_vars(Step)

-----------------------------------------------------------------------------
(***************************************************************************)
(* Properties.                                                             *)
(***************************************************************************)

\* The stages, counters and histories have the types of their declarations.
TypeOK ==
    /\ nextRequestId \in [Client -> 1..(MaxCalls + 1)]
    /\ stage \in {"idle", "tick", "pump", "receive"}
    /\ ticksLeft \in 0..MaxTicks
    /\ stage # "idle" => ticksLeft > 0
    /\ Len(results) <= MaxCalls
    /\ \A i \in DOMAIN results : results[i].call = i

\* What call() returns tells what happened, however late, often or out of order
\* requests and answers arrived: the answer is to this very request ("a stale
\* duplicate from an earlier call is discarded", rpc.hpp), Success means that the
\* handler ran for it and Error that it did not; and a request runs at most once
\* for each copy that send() put under way, also when its call timed out long ago.
OutcomeTellsExecution ==
    LET times(i) == Cardinality({e \in DOMAIN executed : executed[e] = i})
    IN  /\ \A i \in DOMAIN results :
             /\ results[i].outcome # "TimedOut" => results[i].answered = i
             /\ results[i].outcome = "Success" => times(i) > 0
             /\ results[i].outcome = "Error" => times(i) = 0
        /\ \A i \in 1..MaxCalls : times(i) <= IF MayDuplicate THEN 2 ELSE 1

\* Every call returns: the tick budget is used up although each tick may bring
\* more requests to pump.
CallReturns == stage # "idle" ~> stage = "idle"

\* A call from a node that is cut off from the server runs nothing there and can
\* only time out, although the partition is looked up when a message is sent and
\* old answers still reach the response port.
CutOffCallsFail ==
    [][stage # "idle" /\ isPartitioned(plain(home[current.client]), plain(Server)) =>
          /\ executed' # Append(executed, current.call)
          /\ stage' = "idle" => results'[Len(results')].outcome = "TimedOut"]_vars
=============================================================================

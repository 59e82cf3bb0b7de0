------------------------------ MODULE RegAlloc ------------------------------
(***************************************************************************)
(* Register allocation of one OGLang function: live ranges                 *)
(* (analysis/liveness.cpp), the interference graph                         *)
(* (analysis/interference.cpp) and Chaitin-style colouring                 *)
(* (codegen/register_allocator.cpp).                                       *)
(*                                                                         *)
(* The code walks std::unordered_maps.  Erasing from one keeps the order   *)
(* of what remains, so one order of the values, chosen when an allocation  *)
(* starts, stands for the iteration order of the map "working".            *)
(***************************************************************************)
EXTENDS Integers, Sequences, FiniteSets, SequencesExt

CONSTANT Pool       \* the allocatable registers, in the order they are tried

ASSUME PoolAssumption == Pool \in Seq(STRING) /\ IsInjective(Pool)

K == Len(Pool)

-----------------------------------------------------------------------------
(* analysis/liveness.cpp: from the first to the last instruction, in the   *)
(* order of the text, that touches the value.                              *)
Touched(inst) == ({inst.dst, inst.left, inst.right} \cup ToSet(inst.args)) \ {0 - 1}

Touching(code, v) == {i \in 0 .. Len(code) - 1 : v \in Touched(code[i + 1])}

Ranges(code) ==
    [v \in UNION {Touched(code[i]) : i \in DOMAIN code} |->
        [start |-> Min(Touching(code, v)), end |-> Max(Touching(code, v))]]

\* analysis/interference.cpp
Overlap(a, b) == a.start < b.end /\ b.start < a.end

Interference(ranges) ==
    [v \in DOMAIN ranges |-> {w \in DOMAIN ranges \ {v} : Overlap(ranges[v], ranges[w])}]

-----------------------------------------------------------------------------
VARIABLES
    graph,          \* the interference graph: value |-> its neighbours
    iteration,      \* the iteration order of the hash map, a sequence of values
    working,        \* the values not yet simplified away
    stack,          \* the values simplified away, in that order
    registers,      \* value |-> register
    spillSlots,     \* value |-> spill slot
    spillSlotCount

allocVars == <<graph, iteration, working, stack, registers, spillSlots, spillSlotCount>>

Nothing == [v \in {} |-> v]
With(f, v, x) == [w \in DOMAIN f \cup {v} |-> IF w = v THEN x ELSE f[w]]

IdleAlloc ==
    /\ graph = Nothing /\ iteration = <<>> /\ working = {} /\ stack = <<>>
    /\ registers = Nothing /\ spillSlots = Nothing /\ spillSlotCount = 0

\* The values that get a slot before colouring: the array groups in order, then
\* the forced spills that have none yet.
Reserved(groups, forced) ==
    FoldLeft(LAMBDA acc, v : IF v \in ToSet(acc) THEN acc ELSE Append(acc, v),
             FlattenSeq(groups), forced)

\* What allocate() may be given: a finite symmetric graph, an order of its values,
\* and some of them, each once, to be kept in slots.
Fits(g, order, reserved) ==
    /\ IsFiniteSet(DOMAIN g)
    /\ \A v \in DOMAIN g : g[v] \subseteq DOMAIN g /\ v \notin g[v]
    /\ \A v \in DOMAIN g : \A w \in g[v] : v \in g[w]
    /\ order \in Seq(DOMAIN g) /\ ToSet(order) = DOMAIN g
    /\ reserved \in Seq(DOMAIN g) /\ IsInjective(reserved)

\* Mutant: the values with a reserved slot stay in the graph.
StartAllocateKeepsReserved(g, order, reserved) ==
    /\ graph' = g
    /\ iteration' = order
    /\ working' = DOMAIN g
    /\ stack' = <<>>
    /\ registers' = Nothing
    /\ spillSlots' = [v \in ToSet(reserved) |->
                        (CHOOSE i \in DOMAIN reserved : reserved[i] = v) - 1]
    /\ spillSlotCount' = Len(reserved)

\* allocate() up to the simplify loop.
StartAllocate(g, order, reserved) ==
    /\ graph' = g
    /\ iteration' = order
    /\ working' = DOMAIN g \ ToSet(reserved)
    /\ stack' = <<>>
    /\ registers' = Nothing
    /\ spillSlots' = [v \in ToSet(reserved) |->
                        (CHOOSE i \in DOMAIN reserved : reserved[i] = v) - 1]
    /\ spillSlotCount' = Len(reserved)

Degree(v) == Cardinality(graph[v] \cap working)

\* The first value of S in iteration order.
FirstOf(S) == iteration[Min({i \in DOMAIN iteration : iteration[i] \in S})]

Simplifiable == {v \in working : Degree(v) < K}
HighestDegree == {v \in working : \A w \in working : Degree(w) <= Degree(v)}

\* The next value to leave the graph: the first of low degree, or else the
\* first of the highest degree, as a potential spill.
Chosen == IF Simplifiable # {} THEN FirstOf(Simplifiable) ELSE FirstOf(HighestDegree)

Simplify ==
    /\ working # {}
    /\ working' = working \ {Chosen}
    /\ stack' = Append(stack, Chosen)
    /\ UNCHANGED <<graph, iteration, registers, spillSlots, spillSlotCount>>

\* Mutant: the neighbours are looked up in the graph that simplify has emptied.
UsedInWorking(v) == {registers[w] : w \in graph[v] \cap working \cap DOMAIN registers}

\* The registers of the neighbours that are already coloured.
Used(v) == {registers[w] : w \in graph[v] \cap DOMAIN registers}
Free(v) == {i \in 1 .. K : Pool[i] \notin Used(v)}

\* The select phase: the lowest free register, or a new slot.
Select ==
    /\ working = {} /\ stack # <<>>
    /\ LET v == stack[Len(stack)]
       IN  IF Free(v) # {}
           THEN /\ registers' = With(registers, v, Pool[Min(Free(v))])
                /\ UNCHANGED <<spillSlots, spillSlotCount>>
           ELSE /\ spillSlots' = With(spillSlots, v, spillSlotCount)
                /\ spillSlotCount' = spillSlotCount + 1
                /\ UNCHANGED registers
    /\ stack' = SubSeq(stack, 1, Len(stack) - 1)
    /\ UNCHANGED <<graph, iteration, working>>

AllocDone == working = {} /\ stack = <<>>

-----------------------------------------------------------------------------
\* RegisterAllocator::allocate: whatever order the hash map is walked in, two
\* values that interfere have different registers, no two values share a slot,
\* and at the end every value has exactly one place.
ColouringSound ==
    /\ \A v \in DOMAIN registers : \A w \in graph[v] \cap DOMAIN registers :
         registers[v] # registers[w]
    /\ \A v, w \in DOMAIN spillSlots : spillSlots[v] = spillSlots[w] => v = w
    /\ DOMAIN registers \cap DOMAIN spillSlots = {}
    /\ AllocDone => DOMAIN registers \cup DOMAIN spillSlots = DOMAIN graph
=============================================================================

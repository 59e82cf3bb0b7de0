--------------------------- MODULE RegAllocProofs ---------------------------
(***************************************************************************)
(* The register allocator is right for every interference graph, every     *)
(* pool of registers and every iteration order of its hash map.  The       *)
(* specification AllocSpec lets one allocation follow another, as they do  *)
(* in the compiler; OGCompiler takes the same steps, and its TypeOK says   *)
(* that what it starts them with satisfies Fits.                           *)
(***************************************************************************)
EXTENDS RegAlloc, FiniteSetTheorems, TLAPS

AllocNext ==
    \/ \E g, order, reserved : Fits(g, order, reserved) /\ StartAllocate(g, order, reserved)
    \/ Simplify
    \/ Select

AllocSpec == IdleAlloc /\ [][AllocNext]_allocVars

(***************************************************************************)
(* The inductive invariant.  ColouringSound needs the graph to stay        *)
(* symmetric, and each value to be in exactly one of four places: still in *)
(* the graph, on the stack, in a register or in a slot.                    *)
(***************************************************************************)
GraphOK ==
    /\ IsFiniteSet(DOMAIN graph)
    /\ \A v \in DOMAIN graph : graph[v] \subseteq DOMAIN graph /\ v \notin graph[v]
    /\ \A v \in DOMAIN graph : \A w \in graph[v] : v \in graph[w]
    /\ iteration \in Seq(DOMAIN graph)
    /\ ToSet(iteration) = DOMAIN graph

OnePlaceEach(inGraph, onStack, inRegister, inSlot, all) ==
    /\ inGraph \cap onStack = {}
    /\ (inGraph \cup onStack) \cap (inRegister \cup inSlot) = {}
    /\ inRegister \cap inSlot = {}
    /\ inGraph \cup onStack \cup inRegister \cup inSlot = all

PlacesOK ==
    /\ stack \in Seq(DOMAIN graph)
    /\ IsInjective(stack)
    /\ OnePlaceEach(working, ToSet(stack), DOMAIN registers, DOMAIN spillSlots, DOMAIN graph)

ColoursOK ==
    \A v \in DOMAIN registers : \A w \in graph[v] \cap DOMAIN registers :
        registers[v] # registers[w]

SlotsOK ==
    /\ spillSlotCount \in Nat
    /\ \A v \in DOMAIN spillSlots : spillSlots[v] \in 0 .. spillSlotCount - 1
    /\ \A v, w \in DOMAIN spillSlots : spillSlots[v] = spillSlots[w] => v = w

AllocInv == GraphOK /\ PlacesOK /\ ColoursOK /\ SlotsOK

-----------------------------------------------------------------------------
(* Least elements. *)

\* Min of a nonempty set of naturals is one of its elements, and the least.
LEMMA MinOfNaturals ==
  ASSUME NEW S \in SUBSET Nat, S # {}
  PROVE  Min(S) \in S /\ \A x \in S : Min(S) <= x
<1>1. PICK x \in S : \A y \in S : ~(<<y, x>> \in OpToRel(<, Nat))
  BY NatLessThanWellFounded, WFMin
<1>2. \A y \in S : ~(y < x)
  <2> TAKE y \in S
  <2>1. <<y, x>> \in Nat \X Nat
    OBVIOUS
  <2>2. y < x => <<y, x>> \in OpToRel(<, Nat)
    BY <2>1, Zenon DEF OpToRel
  <2> QED
    BY <1>1, <2>2
<1>3. \A y \in S : x <= y
  BY <1>2
<1> QED
  BY <1>3 DEF Min

\* FirstOf picks a member of its set, whatever the order of the values.
LEMMA FirstOfMember ==
  ASSUME iteration \in Seq(DOMAIN graph), ToSet(iteration) = DOMAIN graph,
         NEW S \in SUBSET DOMAIN graph, S # {}
  PROVE  FirstOf(S) \in S
<1> DEFINE I == {i \in DOMAIN iteration : iteration[i] \in S}
<1>1. I \in SUBSET Nat
  OBVIOUS
<1>2. I # {}
  <2>1. PICK v \in S : TRUE
    OBVIOUS
  <2>2. v \in ToSet(iteration)
    OBVIOUS
  <2> QED
    BY <2>2 DEF ToSet
<1>3. Min(I) \in I
  BY <1>1, <1>2, MinOfNaturals
<1> QED
  BY <1>3 DEF FirstOf

\* The degree of a value is a natural number bounded by the size of the graph.
LEMMA DegreeBound ==
  ASSUME GraphOK, NEW v \in DOMAIN graph
  PROVE  /\ Cardinality(DOMAIN graph) \in Nat
         /\ Degree(v) \in Nat
         /\ Degree(v) <= Cardinality(DOMAIN graph)
<1>1. graph[v] \cap working \in SUBSET DOMAIN graph
  BY DEF GraphOK
<1>2. /\ IsFiniteSet(graph[v] \cap working)
      /\ Cardinality(graph[v] \cap working) <= Cardinality(DOMAIN graph)
  BY <1>1, FS_Subset DEF GraphOK
<1> QED
  BY <1>2, FS_CardinalityType DEF Degree, GraphOK

\* Some value has the highest degree.
LEMMA HighestDegreeExists ==
  ASSUME GraphOK, working \subseteq DOMAIN graph, working # {}
  PROVE  HighestDegree # {}
<1> DEFINE c == Cardinality(DOMAIN graph)
           D == {c - Degree(v) : v \in working}
<1>1. \A v \in working : c \in Nat /\ Degree(v) \in Nat /\ Degree(v) <= c
  BY DegreeBound
<1>2. D \in SUBSET Nat /\ D # {}
  BY <1>1
<1>3. Min(D) \in D /\ \A x \in D : Min(D) <= x
  BY <1>2, MinOfNaturals
<1>4. PICK v \in working : Min(D) = c - Degree(v)
  BY <1>3
<1>5. \A w \in working : Degree(w) <= Degree(v)
  <2> TAKE w \in working
  <2>1. c - Degree(v) <= c - Degree(w)
    BY <1>3, <1>4
  <2> HIDE DEF c
  <2> QED
    BY <2>1, <1>1
<1> QED
  BY <1>5 DEF HighestDegree

\* The value simplified away was in the graph.
LEMMA ChosenWorking ==
  ASSUME GraphOK, working \subseteq DOMAIN graph, working # {}
  PROVE  Chosen \in working
<1>1. CASE Simplifiable # {}
  BY <1>1, FirstOfMember DEF Simplifiable, Chosen, GraphOK
<1>2. CASE Simplifiable = {}
  <2>1. HighestDegree # {} /\ HighestDegree \in SUBSET working
    BY HighestDegreeExists DEF HighestDegree
  <2>2. FirstOf(HighestDegree) \in HighestDegree
    BY <2>1, FirstOfMember DEF GraphOK
  <2> QED
    BY <1>2, <2>1, <2>2 DEF Chosen
<1> QED
  BY <1>1, <1>2

-----------------------------------------------------------------------------
(* The graph that the compiler builds. *)

\* InterferenceAnalyzer::build makes a symmetric graph without loops.
THEOREM InterferenceSymmetric ==
  ASSUME NEW ranges, NEW g, g = Interference(ranges),
         \A v \in DOMAIN ranges : ranges[v].start \in Nat /\ ranges[v].end \in Nat
  PROVE  /\ DOMAIN g = DOMAIN ranges
         /\ \A v \in DOMAIN g : g[v] \subseteq DOMAIN g /\ v \notin g[v]
         /\ \A v \in DOMAIN g : \A w \in g[v] : v \in g[w]
BY DEF Interference, Overlap

-----------------------------------------------------------------------------
(* The steps. *)

LEMMA InitInv == IdleAlloc => AllocInv
<1> SUFFICES ASSUME IdleAlloc PROVE AllocInv
  OBVIOUS
<1>1. /\ DOMAIN graph = {} /\ DOMAIN registers = {} /\ DOMAIN spillSlots = {}
      /\ ToSet(iteration) = {} /\ ToSet(stack) = {}
  BY DEF IdleAlloc, Nothing, ToSet
<1>2. GraphOK
  BY <1>1, FS_EmptySet DEF GraphOK, IdleAlloc
<1>3. PlacesOK
  BY <1>1 DEF PlacesOK, OnePlaceEach, IdleAlloc, IsInjective
<1>4. ColoursOK /\ SlotsOK
  BY <1>1 DEF ColoursOK, SlotsOK, IdleAlloc
<1> QED
  BY <1>2, <1>3, <1>4 DEF AllocInv

\* A new allocation starts from a graph that fits.
LEMMA StartInv ==
  ASSUME NEW g, NEW order, NEW reserved, Fits(g, order, reserved),
         StartAllocate(g, order, reserved)
  PROVE  AllocInv'
<1> USE DEF StartAllocate, Fits
<1>1. GraphOK'
  BY DEF GraphOK
<1>2. DOMAIN spillSlots' = ToSet(reserved) /\ ToSet(reserved) \subseteq DOMAIN g
  BY DEF ToSet
<1>3. PlacesOK'
  <2>1. ToSet(stack)' = {} /\ DOMAIN registers' = {}
    BY DEF ToSet, Nothing
  <2>2. stack' \in Seq(DOMAIN graph') /\ IsInjective(stack)'
    BY DEF IsInjective
  <2>3. /\ working' = DOMAIN g \ ToSet(reserved)
        /\ DOMAIN graph' = DOMAIN g
    OBVIOUS
  <2>4. OnePlaceEach(working', ToSet(stack)', DOMAIN registers', DOMAIN spillSlots', DOMAIN graph')
    BY <1>2, <2>1, <2>3, Zenon DEF OnePlaceEach
  <2> QED
    BY <2>2, <2>4 DEF PlacesOK
<1>4. ColoursOK'
  BY DEF ColoursOK, Nothing
<1>5. SlotsOK'
  <2>1. \A v \in ToSet(reserved) : \E i \in DOMAIN reserved :
            reserved[i] = v /\ spillSlots'[v] = i - 1
    <3> TAKE v \in ToSet(reserved)
    <3> DEFINE i == CHOOSE i \in DOMAIN reserved : reserved[i] = v
    <3>1. i \in DOMAIN reserved /\ reserved[i] = v
      BY DEF ToSet
    <3> QED
      BY <3>1
  <2>2. spillSlotCount' \in Nat /\ DOMAIN reserved = 1 .. spillSlotCount'
    OBVIOUS
  <2>3. \A v, w \in ToSet(reserved) : spillSlots'[v] = spillSlots'[w] => v = w
    BY <2>1, <2>2
  <2> QED
    BY <1>2, <2>1, <2>2, <2>3 DEF SlotsOK
<1> QED
  BY <1>1, <1>3, <1>4, <1>5 DEF AllocInv

\* Simplification moves a value from the graph to the stack.
LEMMA SimplifyInv ==
  ASSUME AllocInv, Simplify
  PROVE  AllocInv'
<1> USE DEF AllocInv
<1>1. Chosen \in working
  BY ChosenWorking DEF Simplify, PlacesOK, OnePlaceEach
<1> DEFINE v == Chosen
<1>2. v \in working /\ working' = working \ {v} /\ stack' = Append(stack, v)
  BY <1>1 DEF Simplify
<1> HIDE DEF v
<1>0. UNCHANGED <<graph, registers, spillSlots>>
  BY DEF Simplify
<1>v. v \in DOMAIN graph /\ v \notin ToSet(stack)
  BY <1>2 DEF PlacesOK, OnePlaceEach
<1>3. /\ stack' \in Seq(DOMAIN graph)
      /\ ToSet(stack)' = ToSet(stack) \cup {v}
  BY <1>2, <1>v DEF PlacesOK, ToSet
<1>4. IsInjective(stack)'
  BY <1>2, <1>v DEF PlacesOK, ToSet, IsInjective
<1>5. PlacesOK'
  <2>1. OnePlaceEach(working, ToSet(stack), DOMAIN registers, DOMAIN spillSlots, DOMAIN graph)
    BY DEF PlacesOK
  <2>2. OnePlaceEach(working', ToSet(stack)', DOMAIN registers, DOMAIN spillSlots, DOMAIN graph)
    BY <1>2, <1>3, <1>v, <2>1 DEF OnePlaceEach
  <2> QED
    BY <1>0, <1>3, <1>4, <2>2 DEF PlacesOK
<1>6. GraphOK' /\ ColoursOK' /\ SlotsOK'
  BY DEF Simplify, GraphOK, ColoursOK, SlotsOK
<1> QED
  BY <1>5, <1>6

\* Selection moves a value from the stack to a register that no neighbour has,
\* or to a slot of its own.
LEMMA SelectInv ==
  ASSUME AllocInv, Select
  PROVE  AllocInv'
<1> USE DEF AllocInv
<1> DEFINE n == Len(stack)
           v == stack[n]
<1>1. n \in Nat \ {0} /\ n \in DOMAIN stack /\ stack' = SubSeq(stack, 1, n - 1)
  BY DEF Select, PlacesOK
<1>2. v \in ToSet(stack) /\ v \in DOMAIN graph
  BY <1>1 DEF ToSet, PlacesOK
<1>s. stack \in Seq(DOMAIN graph) /\ IsInjective(stack)
  BY DEF PlacesOK
<1>3. /\ stack' \in Seq(DOMAIN graph)
      /\ IsInjective(stack)'
      /\ ToSet(stack)' = ToSet(stack) \ {v}
  <2> HIDE DEF AllocInv
  <2>0. DOMAIN stack = 1 .. n
    BY <1>s
  <2> HIDE DEF n
  <2>1. DOMAIN stack' = 1 .. n - 1
    BY <1>s, <1>1
  <2>2. \A i \in 1 .. n - 1 : stack'[i] = stack[i]
    BY <1>s, <1>1
  <2>3. stack' \in Seq(DOMAIN graph)
    BY <1>1, <1>s
  <2>4. IsInjective(stack)'
    BY <1>1, <1>s, <2>0, <2>1, <2>2 DEF IsInjective
  <2>5. ToSet(stack)' = ToSet(stack) \ {v}
    <3>1. ToSet(stack) = {stack[i] : i \in 1 .. n}
      BY <2>0 DEF ToSet
    <3>2. ToSet(stack)' = {stack[i] : i \in 1 .. n - 1}
      BY <2>1, <2>2 DEF ToSet
    <3>3. \A i \in 1 .. n - 1 : stack[i] # v
      BY <1>1, <1>s, <2>0 DEF IsInjective
    <3>4. \A i \in 1 .. n : i \in 1 .. n - 1 \/ stack[i] = v
      BY <1>1
    <3>5. \A i \in 1 .. n - 1 : i \in 1 .. n
      BY <1>1
    <3> QED
      BY <3>1, <3>2, <3>3, <3>4, <3>5, Zenon
  <2> QED
    BY <2>3, <2>4, <2>5
<1>4. v \notin DOMAIN registers /\ v \notin DOMAIN spillSlots
  BY <1>2 DEF PlacesOK, OnePlaceEach
<1>p. OnePlaceEach(working, ToSet(stack), DOMAIN registers, DOMAIN spillSlots, DOMAIN graph)
  BY DEF PlacesOK
<1>5. GraphOK' /\ working' = working /\ graph' = graph
  BY DEF Select, GraphOK
<1>6. CASE Free(v) # {}
  <2> DEFINE r == Pool[Min(Free(v))]
  <2>1. registers' = With(registers, v, r) /\ UNCHANGED <<spillSlots, spillSlotCount>>
    BY <1>6 DEF Select
  <2>2. r \notin Used(v)
    <3>1. Free(v) \in SUBSET Nat
      BY DEF Free
    <3>2. Min(Free(v)) \in Free(v)
      BY <1>6, <3>1, MinOfNaturals
    <3> QED
      BY <3>2 DEF Free
  <2> HIDE DEF r, v
  <2>3. /\ DOMAIN registers' = DOMAIN registers \cup {v}
        /\ registers'[v] = r
        /\ \A w \in DOMAIN registers : registers'[w] = registers[w]
    BY <2>1, <1>4 DEF With
  <2>4. ColoursOK'
    <3> SUFFICES ASSUME NEW a \in DOMAIN registers', NEW b \in graph[a] \cap DOMAIN registers'
                 PROVE  registers'[a] # registers'[b]
      BY <1>5 DEF ColoursOK
    <3>1. a \in DOMAIN graph /\ b \in DOMAIN graph /\ a \in graph[b] /\ a # b
      BY <1>2, <2>3 DEF GraphOK, PlacesOK, OnePlaceEach
    <3>2. CASE a = v
      BY <3>1, <3>2, <2>2, <2>3 DEF Used
    <3>3. CASE b = v
      BY <3>1, <3>3, <2>2, <2>3 DEF Used
    <3>4. CASE a # v /\ b # v
      BY <3>1, <3>4, <2>3 DEF ColoursOK
    <3> QED
      BY <3>2, <3>3, <3>4
  <2>5. PlacesOK'
    <3>1. OnePlaceEach(working, ToSet(stack)', DOMAIN registers', DOMAIN spillSlots, DOMAIN graph)
      BY <1>2, <1>3, <1>4, <1>p, <2>3 DEF OnePlaceEach
    <3> QED
      BY <1>3, <1>5, <2>1, <3>1 DEF PlacesOK
  <2>6. SlotsOK'
    BY <2>1 DEF SlotsOK
  <2> QED
    BY <1>5, <2>4, <2>5, <2>6
<1>7. CASE Free(v) = {}
  <2>1. /\ spillSlots' = With(spillSlots, v, spillSlotCount)
        /\ spillSlotCount' = spillSlotCount + 1
        /\ registers' = registers
    BY <1>7 DEF Select
  <2> HIDE DEF v
  <2>2. /\ DOMAIN spillSlots' = DOMAIN spillSlots \cup {v}
        /\ spillSlots'[v] = spillSlotCount
        /\ \A w \in DOMAIN spillSlots : spillSlots'[w] = spillSlots[w]
    BY <2>1, <1>4 DEF With
  <2>3. SlotsOK'
    BY <2>1, <2>2 DEF SlotsOK
  <2>4. PlacesOK'
    <3>1. OnePlaceEach(working, ToSet(stack)', DOMAIN registers, DOMAIN spillSlots', DOMAIN graph)
      BY <1>2, <1>3, <1>4, <1>p, <2>2 DEF OnePlaceEach
    <3> QED
      BY <1>3, <1>5, <2>1, <3>1 DEF PlacesOK
  <2>5. ColoursOK'
    BY <1>5, <2>1 DEF ColoursOK
  <2> QED
    BY <1>5, <2>3, <2>4, <2>5
<1> QED
  BY <1>6, <1>7

-----------------------------------------------------------------------------
\* The invariant holds in every reachable state of every sequence of allocations.
THEOREM AllocInductive == AllocSpec => []AllocInv
<1>1. AllocInv /\ [AllocNext]_allocVars => AllocInv'
  <2> SUFFICES ASSUME AllocInv, [AllocNext]_allocVars PROVE AllocInv'
    OBVIOUS
  <2>1. ASSUME NEW g, NEW order, NEW reserved, Fits(g, order, reserved),
               StartAllocate(g, order, reserved)
        PROVE  AllocInv'
    BY <2>1, StartInv
  <2>2. CASE Simplify
    BY <2>2, SimplifyInv
  <2>3. CASE Select
    BY <2>3, SelectInv
  <2>4. CASE UNCHANGED allocVars
    BY <2>4 DEF allocVars, AllocInv, GraphOK, PlacesOK, ColoursOK, SlotsOK
  <2> QED
    BY <2>1, <2>2, <2>3, <2>4 DEF AllocNext
<1> QED
  BY <1>1, InitInv, PTL DEF AllocSpec

\* RegisterAllocator::allocate, for every graph, pool and iteration order: values
\* that interfere have different registers, no two values share a slot, and at
\* the end every value has exactly one place.
THEOREM ColouringCorrect == AllocSpec => []ColouringSound
<1>1. AllocInv => ColouringSound
  <2> SUFFICES ASSUME AllocInv PROVE ColouringSound
    OBVIOUS
  <2>1. AllocDone => ToSet(stack) = {}
    BY DEF AllocDone, ToSet
  <2> QED
    BY <2>1 DEF AllocInv, ColoursOK, SlotsOK, PlacesOK, OnePlaceEach, ColouringSound, AllocDone
<1> QED
  BY <1>1, AllocInductive, PTL
=============================================================================

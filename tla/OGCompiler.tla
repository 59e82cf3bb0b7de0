----------------------------- MODULE OGCompiler -----------------------------
(***************************************************************************)
(* The OGLang compiler driver (main.cpp) over its phases, and the program  *)
(* it produces, run to its end.  One behaviour compiles one list of source *)
(* files: each is parsed; several files are ordered by their imports,      *)
(* checked against each other's symbols and mangled; then every function   *)
(* is lowered, allocated and emitted in turn, the assembler takes the      *)
(* whole text, and the machine runs it.                                    *)
(***************************************************************************)
EXTENDS OGReference, RegAlloc

CONSTANTS Inputs,       \* the inputs tried: sequences of [name, text, ast]
          MaxOrdered,   \* every iteration order is tried up to so many values
          MaxSteps,     \* bound on the instructions the machine executes
          Fuel          \* bound on the calls the evaluator makes

VARIABLES
    input,      \* the files of the command line: module name, text, and the
                \* tree the text was printed from
    phase,      \* what the driver does next, or how the compilation ended
    units,      \* the modules parsed so far: name and program
    order,      \* the compilation order, as unit indices
    pending,    \* <<unit, function>> index pairs still to compile
    ir,         \* the function being compiled, lowered
    asm,        \* the assembly text so far
    cpu,        \* the machine that runs the result
    undisturbed \* history: so far no instruction overwrites a register whose
                \* value is still to be read

vars == <<input, phase, units, order, pending, ir, asm, cpu, undisturbed, allocVars>>

NoFunction == [name |-> <<>>, paramCount |-> 0, code |-> <<>>, taken |-> <<>>,
               groups |-> <<>>, ok |-> TRUE]

Init ==
    /\ input \in Inputs
    /\ phase = "parse" /\ units = <<>> /\ order = <<>> /\ pending = <<>>
    /\ ir = NoFunction /\ asm = <<>> /\ cpu = Boot /\ undisturbed = TRUE
    /\ IdleAlloc

-----------------------------------------------------------------------------
Single == Len(input) = 1
UnitNames == NamesOf(units)
Index(name) == CHOOSE i \in DOMAIN units : units[i].name = name
Imports(i) == units[i].program.imports

\* The next file: a module name met before, or a text that does not parse,
\* ends the compilation.
ParseFile ==
    /\ phase = "parse" /\ Len(units) < Len(input)
    /\ LET file == input[Len(units) + 1]
       IN  IF file.name \in ToSet(UnitNames) \/ ParseProgram(file.text).i = 0
           THEN phase' = "unparsed" /\ UNCHANGED units
           ELSE /\ units' = Append(units, [name |-> file.name, program |-> ParseProgram(file.text).node])
                /\ phase' = IF Len(units) + 1 < Len(input) THEN "parse"
                            ELSE IF Single THEN "check" ELSE "resolve"
    /\ UNCHANGED <<input, order, pending, ir, asm, cpu, undisturbed, allocVars>>

\* The units that unit i imports, in the order of its import declarations.
Adjacency == [i \in DOMAIN units |-> [j \in DOMAIN Imports(i) |-> Index(Imports(i)[j])]]

ImportsResolve ==
    \A i \in DOMAIN units : \A m \in ToSet(Imports(i)) :
        m \in ToSet(UnitNames) /\ m # units[i].name

\* The depth-first search: colours are 0 white, 1 on the path, 2 finished.
RECURSIVE Dfs(_, _, _)

\* Mutant: a module met before counts as a cycle even when it is finished.
DfsSeenIsCycle(adjacency, node, s) ==
    LET visit(acc, next) ==
            IF acc.cycle THEN acc
            ELSE IF acc.color[next] # 0 THEN [acc EXCEPT !.cycle = TRUE]
            ELSE Dfs(adjacency, next, acc)
        after == FoldLeft(visit, [s EXCEPT !.color[node] = 1], adjacency[node])
    IN  IF after.cycle THEN after ELSE [after EXCEPT !.color[node] = 2]

Dfs(adjacency, node, s) ==
    LET visit(acc, next) ==
            IF acc.cycle THEN acc
            ELSE IF acc.color[next] = 1 THEN [acc EXCEPT !.cycle = TRUE]
            ELSE IF acc.color[next] = 0 THEN Dfs(adjacency, next, acc) ELSE acc
        after == FoldLeft(visit, [s EXCEPT !.color[node] = 1], adjacency[node])
    IN  IF after.cycle THEN after ELSE [after EXCEPT !.color[node] = 2]

CycleFound(adjacency) ==
    LET from(acc, i) == IF acc.cycle \/ acc.color[i] # 0 THEN acc ELSE Dfs(adjacency, i, acc)
    IN  FoldLeft(from, [cycle |-> FALSE, color |-> [i \in DOMAIN adjacency |-> 0]],
                 [i \in DOMAIN adjacency |-> i]).cycle

\* Kahn's algorithm: the lowest ready index each time; an import written twice
\* counts twice, here and when its module is taken off.
Occurrences(s, x) == Cardinality({j \in DOMAIN s : s[j] = x})
KahnOrder(adjacency) ==
    LET n == Len(adjacency)
        next(acc, count) ==
            LET ready == {i \in 1 .. n : i \notin ToSet(acc.order) /\ acc.inDegree[i] = 0}
                chosen == Min(ready)
            IN  [order |-> Append(acc.order, chosen),
                 inDegree |-> [i \in 1 .. n |-> acc.inDegree[i] - Occurrences(adjacency[i], chosen)]]
    IN  FoldLeft(next, [order |-> <<>>, inDegree |-> [i \in 1 .. n |-> Len(adjacency[i])]],
                 [i \in 1 .. n |-> i]).order

ResolveImports ==
    /\ phase = "resolve"
    /\ IF ~ImportsResolve \/ CycleFound(Adjacency)
       THEN phase' = "unresolved" /\ UNCHANGED order
       ELSE phase' = "check" /\ order' = KahnOrder(Adjacency)
    /\ UNCHANGED <<input, units, pending, ir, asm, cpu, undisturbed, allocVars>>

-----------------------------------------------------------------------------
\* What the imports of unit i declare, under qualified names.
QualifiedNames(m, table) ==
    [q \in {Qualified(m, n) : n \in DOMAIN table} |-> table[SubSeq(q, Len(m) + 2, Len(q))]]
External(i, tables) ==
    FoldLeft(LAMBDA acc, m : QualifiedNames(m, tables[Index(m)]) @@ acc, NoMap, Imports(i))

ExternalSymbols(i) ==
    LET own == [j \in DOMAIN units |-> ModuleSymbols(units[j].program)]
    IN  [signatures |-> External(i, [j \in DOMAIN own |-> own[j].signatures]),
         structs |-> External(i, [j \in DOMAIN own |-> own[j].structs]),
         enums |-> External(i, [j \in DOMAIN own |-> own[j].enums])]

\* collectLayouts, and those of the imports under qualified names.
StructLayouts(p) == [n \in ToSet(NamesOf(p.structs)) |-> NamesOf(ByName(p.structs, n).fields)]
EnumOrdinals(p) ==
    [n \in ToSet(NamesOf(p.enums)) |->
        LET vs == ByName(p.enums, n).variants
        IN  [v \in ToSet(vs) |-> (CHOOSE i \in DOMAIN vs : vs[i] = v) - 1]]
Layouts(i) ==
    LET structs == [j \in DOMAIN units |-> StructLayouts(units[j].program)]
        enums == [j \in DOMAIN units |-> EnumOrdinals(units[j].program)]
    IN  [structs |-> External(i, structs) @@ structs[i], enums |-> External(i, enums) @@ enums[i]]

\* Mutant: a qualified name is left as it is.
MangledOwnOnly(m, n) == IF Contains(n, ".") \/ m = <<>> THEN n ELSE m \o <<"__">> \o n

\* mangleCallsInExpr and mangleCallsInStatement: m is the module whose own
\* functions are renamed, or <<>> in the entry module.
MangledName(m, n) ==
    IF Contains(n, ".") THEN [i \in DOMAIN n |-> IF n[i] = "." THEN "__" ELSE n[i]]
    ELSE IF m # <<>> THEN m \o <<"__">> \o n ELSE n

RECURSIVE MangleExpr(_, _), MangleStatement(_, _)
MangleExpr(m, e) ==
    CASE e.k = "call" -> [e EXCEPT !.callee = MangledName(m, @),
                                   !.args = [i \in DOMAIN @ |-> MangleExpr(m, @[i])]]
      [] e.k = "bin" -> [e EXCEPT !.left = MangleExpr(m, @), !.right = MangleExpr(m, @)]
      [] e.k = "neg" -> [e EXCEPT !.operand = MangleExpr(m, @)]
      [] e.k = "deref" -> [e EXCEPT !.pointer = MangleExpr(m, @)]
      [] e.k = "index" -> [e EXCEPT !.index = MangleExpr(m, @)]
      [] OTHER -> e

MangleBlock(m, body) == [i \in DOMAIN body |-> MangleStatement(m, body[i])]

MangleStatement(m, s) ==
    CASE s.k \in {"let", "return", "assign", "fieldstore"} -> [s EXCEPT !.value = MangleExpr(m, @)]
      [] s.k = "store" -> [s EXCEPT !.pointer = MangleExpr(m, @), !.value = MangleExpr(m, @)]
      [] s.k = "indexstore" -> [s EXCEPT !.index = MangleExpr(m, @), !.value = MangleExpr(m, @)]
      [] s.k = "while" -> [s EXCEPT !.cond = MangleExpr(m, @), !.body = MangleBlock(m, @)]
      [] s.k = "if" -> [s EXCEPT !.cond = MangleExpr(m, @), !.then = MangleBlock(m, @),
                                 !.else = MangleBlock(m, @)]
      [] OTHER -> s

Mangled(i) ==
    LET m == IF i = 1 THEN <<>> ELSE units[i].name
        one(f) == [f EXCEPT !.name = IF i = 1 THEN @ ELSE MangledName(m, @),
                            !.body = MangleBlock(m, @)]
        fs == units[i].program.functions
    IN  [units[i] EXCEPT !.program.functions = [j \in DOMAIN fs |-> one(fs[j])]]

\* Every function of every unit, in command-line order.
AllFunctions ==
    FlattenSeq([i \in DOMAIN units |->
        [j \in DOMAIN units[i].program.functions |-> <<i, j>>]])

\* A single file is checked as a program and not mangled; several are checked
\* against the symbols of their imports, then mangled.
CheckUnits ==
    /\ phase = "check"
    /\ LET accepted == IF Single THEN CheckProgram(units[1].program)
                       ELSE /\ \A i \in ToSet(order) : SymbolsValid(units[i].program)
                            /\ \A i \in ToSet(order) :
                                 CheckModule(units[i].program, ExternalSymbols(i), i = 1)
       IN  IF ~accepted
           THEN phase' = "illtyped" /\ UNCHANGED <<units, pending, asm>>
           ELSE /\ phase' = "lower"
                /\ units' = IF Single THEN units ELSE [i \in DOMAIN units |-> Mangled(i)]
                /\ pending' = AllFunctions
                /\ asm' = EntryPoint
    /\ UNCHANGED <<input, order, ir, cpu, undisturbed, allocVars>>

-----------------------------------------------------------------------------
(* compileProgramToAssembly, one function at a time. *)

\* The orders in which the hash map may hold the values.
IterationOrders(values) ==
    IF Cardinality(values) <= MaxOrdered THEN SetToSeqs(values)
    ELSE {Ascending(values), Reverse(Ascending(values))}

\* Liveness, interference and the start of the allocation for a lowered function.
StartFunction(lowered) ==
    LET g == Interference(Ranges(lowered.code))
    IN  /\ ir' = lowered
        /\ IF lowered.ok
           THEN /\ phase' = "allocate"
                /\ \E ids \in IterationOrders(DOMAIN g) :
                     StartAllocate(g, ids, Reserved(lowered.groups, lowered.taken))
           ELSE phase' = "failed" /\ UNCHANGED allocVars

LowerFunction ==
    /\ phase = "lower" /\ pending # <<>>
    /\ LET i == Head(pending)[1]
           f == units[i].program.functions[Head(pending)[2]]
       IN  StartFunction(Lower(f, Layouts(i)))
    /\ pending' = Tail(pending)
    /\ UNCHANGED <<input, units, order, asm, cpu, undisturbed>>

Allocate ==
    /\ phase = "allocate"
    /\ Simplify \/ Select
    /\ UNCHANGED <<input, phase, units, order, pending, ir, asm, cpu, undisturbed>>

Allocation == [registers |-> registers, spillSlots |-> spillSlots,
               spillSlotCount |-> spillSlotCount]

\* The registers instruction i changes besides its destination's, and those of
\* them that the emitted code saves around it.
Overwritten(inst) ==
    CASE inst.op \in {"Call", "InlineAsm"} -> ToSet(Pool)
      [] inst.op = "Div" -> {"eax", "edx", "ecx"}
      [] OTHER -> {}
SavedAround(i) ==
    LET inst == ir.code[i]
        saved == ToSet(LiveAcross(Allocation, Ranges(ir.code), i - 1, inst.dst))
    IN  IF inst.op = "Div" THEN saved \cap {"eax", "edx"} ELSE saved

\* Instruction i leaves alone, or puts back, every register whose value some
\* path from i still reads; and a division reads its dividend before it loads
\* the divisor over it.
KeepsLive(i, live) ==
    LET inst == ir.code[i]
        kept == (live[i] \ {inst.dst}) \cap DOMAIN registers
    IN  /\ inst.dst \in DOMAIN registers => \A v \in kept : registers[v] # registers[inst.dst]
        /\ \A v \in kept : registers[v] \in Overwritten(inst) => registers[v] \in SavedAround(i)
        /\ inst.op = "Div" /\ inst.left \in DOMAIN registers =>
             registers[inst.left] # "ecx" \/ inst.left = inst.right

EmitFunction ==
    /\ phase = "allocate" /\ AllocDone
    /\ undisturbed' = (undisturbed /\ LET live == LiveOut(ir.code)
                                    IN  \A i \in DOMAIN ir.code : KeepsLive(i, live))
    /\ asm' = asm \o GenerateFunction(ir, Allocation, Ranges(ir.code))
    /\ phase' = "lower"
    /\ UNCHANGED <<input, units, order, pending, ir, cpu, allocVars>>

\* assembleLinkAndReport: the assembler may refuse the text.
Assemble ==
    /\ phase = "lower" /\ pending = <<>>
    /\ phase' = IF AssemblerAccepts(asm) THEN "run" ELSE "failed"
    /\ UNCHANGED <<input, units, order, pending, ir, asm, cpu, undisturbed, allocVars>>

\* The produced program executes one instruction.
Execute ==
    /\ phase = "run" /\ cpu.status = "running" /\ cpu.steps < MaxSteps
    /\ cpu' = Step(asm, cpu)
    /\ phase' = IF cpu'.status = "running" THEN "run" ELSE "done"
    /\ UNCHANGED <<input, units, order, pending, ir, asm, undisturbed, allocVars>>

\* The end; a compilation or a program that stops anywhere else is a deadlock.
Ended == phase \in {"unparsed", "unresolved", "illtyped", "failed", "done"}
Finished == Ended /\ UNCHANGED vars

Next == ParseFile \/ ResolveImports \/ CheckUnits \/ LowerFunction \/ Allocate
        \/ EmitFunction \/ Assemble \/ Execute \/ Finished

Spec == Init /\ [][Next]_vars

-----------------------------------------------------------------------------
\* The driver's state: what each phase may leave in the shared variables.
TypeOK ==
    /\ Ended \/ phase \in {"parse", "resolve", "check", "lower", "allocate", "run"}
    /\ Len(units) <= Len(input)
    /\ ToSet(order) \subseteq DOMAIN units
    /\ \A q \in ToSet(pending) : q[2] \in DOMAIN units[q[1]].program.functions
    /\ phase = "allocate" => Fits(graph, iteration, Reserved(ir.groups, ir.taken))
    /\ working \cup ToSet(stack) \subseteq DOMAIN graph \ DOMAIN spillSlots
    /\ cpu.status \in {"running", "exit", "fpe", "segv"}

\* Parser::parseProgram undoes the printer: precedence, associativity, the
\* qualified names and the optional parts of a statement come back as they
\* were written, and a file is refused exactly if no tree prints as its text
\* or another file has taken its module name.
ParsesBack ==
    /\ phase \in {"parse", "resolve", "check"} =>
         \A i \in DOMAIN units : units[i].program = input[i].ast
    /\ phase = "unparsed" =>
         LET file == input[Len(units) + 1]
         IN  file.ast = NoTree \/ file.name \in ToSet(UnitNames)

\* compileModules: a set of modules is refused exactly when an import is
\* unknown, of itself or on a cycle, and otherwise the order it is checked in
\* has every module once, after all that it imports.
Depends == {<<i, j>> \in (DOMAIN units) \X (DOMAIN units) : units[j].name \in ToSet(Imports(i))}
RECURSIVE Closure(_)
Closure(R) ==
    LET more == R \cup {<<p[1], q[2]>> : <<p, q>> \in {x \in R \X R : x[1][2] = x[2][1]}}
    IN  IF more = R THEN R ELSE Closure(more)
OrderSound ==
    /\ phase = "unresolved" =>
         \/ \E i \in DOMAIN units : ~(ToSet(Imports(i)) \subseteq ToSet(UnitNames))
         \/ \E p \in Closure(Depends) : p[1] = p[2]
    /\ phase = "check" /\ ~Single =>
         /\ Len(order) = Len(units) /\ ToSet(order) = DOMAIN units
         /\ \A i, j \in DOMAIN order : <<order[i], order[j]>> \in Depends => j < i

\* A program the type checker accepts is never refused by a later phase, but
\* for labels that two of its functions share and for calls back into the entry
\* module, whose functions keep their plain names.
EntryImported == \E i \in DOMAIN units : units[1].name \in ToSet(Imports(i))
AcceptedIsCompiled ==
    phase = "failed" => ir.ok /\ (~LabelsUnique(asm) \/ EntryImported)

-----------------------------------------------------------------------------
(* The programs for which the compiler is expected to be right: a let does  *)
(* not copy a variable (the two names would share a value), a name is       *)
(* declared once in a function (blocks open no scope), and a pointer stays  *)
(* where & put it or where one of the first four parameters received it     *)
(* (other moves are 32 bits wide).                                          *)
RECURSIVE StatementsOf(_)
StatementsOf(body) ==
    UNION {LET s == body[i]
           IN  {s} \cup (IF s.k = "while" THEN StatementsOf(s.body) ELSE {})
                   \cup (IF s.k = "if" THEN StatementsOf(s.then) \cup StatementsOf(s.else) ELSE {})
           : i \in DOMAIN body}

DisciplinedFunction(f) ==
    LET lets == {s \in StatementsOf(f.body) : s.k = "let"}
        pointers == {s.name : s \in {t \in lets : t.type # I32}}
                    \cup {q.name : q \in {p \in ToSet(f.params) : p.type # I32}}
    IN  /\ \A s \in lets : s.value.k # "var" /\ (s.type # I32 => s.value.k = "addr")
        /\ Distinct(NamesOf(f.params))
        /\ \A s, t \in lets : s.name = t.name => s = t
        /\ \A s \in lets : s.name \notin ToSet(NamesOf(f.params))
        /\ \A s \in StatementsOf(f.body) : s.k = "assign" => s.name \notin pointers
        /\ \A i \in DOMAIN f.params : i > 4 => f.params[i].type = I32
        /\ f.ret = I32

Disciplined ==
    \A i \in DOMAIN input :
        /\ \A f \in ToSet(input[i].ast.functions) : DisciplinedFunction(f)
        /\ \A d \in ToSet(input[i].ast.structs) : \A q \in ToSet(d.fields) : q.type = I32

\* The whole chain from text to machine: the step that ends the executable ends
\* it as the program means it to, with the value main returns, with status 101
\* at an index out of range, or with the signal of an impossible division.
CompiledRight ==
    [][phase' = "done" /\ Disciplined /\ undisturbed =>
        <<cpu'.status, cpu'.code>> = Meaning(input, Fuel)]_vars
=============================================================================

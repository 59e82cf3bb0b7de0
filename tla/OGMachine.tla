----------------------------- MODULE OGMachine ------------------------------
(***************************************************************************)
(* External: the assembler, and the part of an x86-64 processor that the   *)
(* generated code uses.  A 32-bit quantity has Width bits here.  Stack     *)
(* addresses lie above every Width-bit number, as real ones lie above      *)
(* 4 GiB, so that a pointer cut to 32 bits is no longer an address.        *)
(***************************************************************************)
EXTENDS OGCodegen

CONSTANTS Width,        \* bits in a 32-bit register
          StackSlots    \* 8-byte slots of stack

ASSUME MachineAssumption ==
    Width \in Nat /\ StackSlots \in Nat \ {0} /\ 8 * (StackSlots + 1) < 2 ^ Width

Word == 2 ^ Width
Half == 2 ^ (Width - 1)
StackTop == Word + 8 * StackSlots
Junk == 3               \* what inline assembly leaves in the registers it uses

Low(n) == n % Word
Signed(n) == IF Low(n) < Half THEN Low(n) ELSE Low(n) - Word
Magnitude(n) == IF n < 0 THEN 0 - n ELSE n
Quotient(a, b) ==
    LET q == Magnitude(a) \div Magnitude(b) IN IF (a < 0) = (b < 0) THEN q ELSE 0 - q

-----------------------------------------------------------------------------
(* The assembler: a symbol is defined once, and defined if it is used. *)
Jumps == {"call", "jmp", "jz", "jb"}
LabelsAt(asm) == {i \in DOMAIN asm : asm[i].op = "label"}
LabelsUnique(asm) ==
    \A i, j \in LabelsAt(asm) : asm[i].a.x = asm[j].a.x => i = j
LabelsDefined(asm) ==
    \A i \in DOMAIN asm : asm[i].op \in Jumps =>
        \E j \in LabelsAt(asm) : asm[j].a.x = asm[i].a.x
AssemblerAccepts(asm) == LabelsUnique(asm) /\ LabelsDefined(asm)

Target(asm, label) == CHOOSE i \in LabelsAt(asm) : asm[i].a.x = label

-----------------------------------------------------------------------------
Registers == {"eax", "ecx", "edx", "esi", "edi", "ebx", "r8d", "rbp", "rsp"}

Boot == [pc |-> 1,
         reg |-> [[r \in Registers |-> 0] EXCEPT !["rsp"] = StackTop],
         mem |-> [n \in 1 .. StackSlots |-> 0],
         cmp |-> <<0, 0>>, status |-> "running", code |-> 0, steps |-> 0]

Addresses == {Word + 8 * (n - 1) : n \in 1 .. StackSlots}
Cell(a) == (a - Word) \div 8 + 1

Address(cpu, o) == IF o.m = "slot" THEN cpu.reg["rbp"] - 8 * (o.x + 1) ELSE cpu.reg[o.x]
InMemory(o) == o.m \in {"slot", "mem"}
Fault(cpu, status) == [cpu EXCEPT !.status = status]

\* An operand's 64 bits.
Read(cpu, o) ==
    CASE o.m = "imm" -> o.x
      [] o.m = "reg" -> cpu.reg[o.x]
      [] InMemory(o) -> cpu.mem[Cell(Address(cpu, o))]

Set64(cpu, o, v) ==
    IF o.m = "reg" THEN [cpu EXCEPT !.reg[o.x] = v]
    ELSE [cpu EXCEPT !.mem[Cell(Address(cpu, o))] = v]

\* Writing 32 bits clears the rest of a register and keeps the rest of memory.
Set32(cpu, o, v) ==
    LET old == Read(cpu, o)
    IN  Set64(cpu, o, IF o.m = "reg" THEN Low(v) ELSE old - Low(old) + Low(v))

Push(cpu, v) == Set64([cpu EXCEPT !.reg["rsp"] = @ - 8], Mem("rsp"), v)
Pop(cpu) == Read(cpu, Mem("rsp"))
Popped(cpu) == [cpu EXCEPT !.reg["rsp"] = @ + 8]

\* The memory an instruction reaches has to be there.
Faults(cpu, i) ==
    \/ \E o \in {i.a, i.b} : InMemory(o) /\ i.op # "leaq" /\ Address(cpu, o) \notin Addresses
    \/ i.op \in {"pushq", "call"} /\ cpu.reg["rsp"] - 8 \notin Addresses
    \/ i.op \in {"popq", "ret"} /\ cpu.reg["rsp"] \notin Addresses
    \/ i.op = "leave" /\ cpu.reg["rbp"] \notin Addresses

Holds(cpu, cc) ==
    LET a == cpu.cmp[1]
        b == cpu.cmp[2]
    IN  CASE cc \in {"sete", "jz"} -> a = b
          [] cc = "setne" -> a # b
          [] cc = "setg" -> Signed(a) > Signed(b)
          [] cc = "setl" -> Signed(a) < Signed(b)
          [] cc = "setge" -> Signed(a) >= Signed(b)
          [] cc = "setle" -> Signed(a) <= Signed(b)
          [] cc = "jb" -> a < b

Divide(cpu, by) ==
    LET a == Signed(cpu.reg["eax"])
        b == Signed(by)
    IN  IF b = 0 \/ (a = 0 - Half /\ b = 0 - 1) THEN Fault(cpu, "fpe")
        ELSE LET q == Quotient(a, b)
             IN  [cpu EXCEPT !.reg["eax"] = Low(q), !.reg["edx"] = Low(a - q * b)]

\* The effect of an instruction, jumps aside.
Effect(cpu, i) ==
    LET a == Read(cpu, i.a)
        b == Read(cpu, i.b)
    IN  CASE i.op = "movl" -> Set32(cpu, i.b, a)
          [] i.op = "movq" -> Set64(cpu, i.b, a)
          [] i.op = "movslq" -> Set64(cpu, i.b, Signed(a))
          [] i.op = "leaq" -> Set64(cpu, i.b, Address(cpu, i.a))
          [] i.op = "addl" -> Set32(cpu, i.b, b + a)
          [] i.op = "subl" -> Set32(cpu, i.b, b - a)
          [] i.op = "imull" -> Set32(cpu, i.b, Low(b) * Low(a))
          [] i.op = "addq" -> Set64(cpu, i.b, b + a)
          [] i.op = "subq" -> Set64(cpu, i.b, b - a)
          [] i.op \in {"cmpl", "testl"} ->
                [cpu EXCEPT !.cmp = IF i.op = "cmpl" THEN <<Low(b), Low(a)>> ELSE <<Low(a), 0>>]
          [] i.op \in {"sete", "setne", "setg", "setl", "setge", "setle"} ->
                Set32(cpu, i.a, IF Holds(cpu, i.op) THEN 1 ELSE 0)
          [] i.op = "cdq" -> [cpu EXCEPT !.reg["edx"] =
                                IF Signed(cpu.reg["eax"]) < 0 THEN Word - 1 ELSE 0]
          [] i.op = "idivl" -> Divide(cpu, a)
          [] i.op = "pushq" -> Push(cpu, a)
          [] i.op = "popq" -> Set64(Popped(cpu), i.a, Pop(cpu))
          [] i.op = "leave" -> LET up == [cpu EXCEPT !.reg["rsp"] = cpu.reg["rbp"]]
                               IN  [Popped(up) EXCEPT !.reg["rbp"] = Pop(up)]
          [] i.op = "raw" -> [cpu EXCEPT !.reg = [r \in Registers |->
                                CASE r = "eax" -> 7
                                  [] r \in {"ecx", "edx", "esi"} -> Junk
                                  [] OTHER -> cpu.reg[r]]]
          [] i.op = "syscall" -> [cpu EXCEPT !.status = "exit", !.code = cpu.reg["edi"]]
          [] OTHER -> cpu

\* One instruction.
Step(asm, cpu) ==
    LET i == asm[cpu.pc]
        next == cpu.pc + 1
        taken == i.op = "jmp" \/ (i.op \in {"jz", "jb"} /\ Holds(cpu, i.op))
        done == [cpu EXCEPT !.steps = @ + 1]
    IN  CASE Faults(cpu, i) -> Fault(done, "segv")
          [] ~Faults(cpu, i) /\ i.op = "call" ->
                [Push(done, next) EXCEPT !.pc = Target(asm, i.a.x)]
          [] ~Faults(cpu, i) /\ i.op = "ret" -> [Popped(done) EXCEPT !.pc = Pop(cpu)]
          [] OTHER -> [Effect(done, i) EXCEPT !.pc = IF taken THEN Target(asm, i.a.x) ELSE next]
=============================================================================

------------------------------ MODULE OGCodegen -----------------------------
(***************************************************************************)
(* x86-64 code generation (codegen/x86_64.cpp): the instructions emitted   *)
(* for one IR function under a given allocation.  A register goes by its   *)
(* 32-bit name and the mnemonic gives the width (to64 maps names only).    *)
(***************************************************************************)
EXTENDS Integers, Sequences, SequencesExt

Reg(r) == [m |-> "reg", x |-> r]
Slot(n) == [m |-> "slot", x |-> n]      \* -8*(n+1)(%rbp)
Imm(n) == [m |-> "imm", x |-> n]
Mem(r) == [m |-> "mem", x |-> r]        \* (%r)
Lab(l) == [m |-> "label", x |-> l]
NoOperand == [m |-> "none", x |-> 0]

SameLoc(a, b) == a.m = b.m /\ a.x = b.x

Ins(op, a, b) == [op |-> op, a |-> a, b |-> b]
Ins1(op, a) == Ins(op, a, NoOperand)
Ins0(op) == Ins(op, NoOperand, NoOperand)

AbiArgRegisters == <<"edi", "esi", "edx", "ecx">>

Least(a, b) == IF a < b THEN a ELSE b

\* A set of numbers in ascending order.
Ascending(S) == [i \in 1 .. Cardinality(S) |->
                    CHOOSE v \in S : Cardinality({w \in S : w < v}) = i - 1]

-----------------------------------------------------------------------------
(* al = [registers, spillSlots, spillSlotCount] is the allocation. *)
SpillAddress(al, v) == Slot(al.spillSlots[v])
IsSpilled(al, v) == v \notin DOMAIN al.registers

\* loadRead: where the value can be read, after emitting code.
LoadCode(al, v, scratch) ==
    IF IsSpilled(al, v) THEN <<Ins("movl", SpillAddress(al, v), Reg(scratch))>> ELSE <<>>
WriteTarget(al, v, scratch) == Reg(IF IsSpilled(al, v) THEN scratch ELSE al.registers[v])
LoadLoc(al, v, scratch) == WriteTarget(al, v, scratch)

StoreIfSpilled(al, v, scratch) ==
    IF IsSpilled(al, v) THEN <<Ins("movl", Reg(scratch), SpillAddress(al, v))>> ELSE <<>>

MoveUnlessSame(a, b) == IF SameLoc(a, b) THEN <<>> ELSE <<Ins("movl", a, b)>>

\* A pointer operand, always in 64 bits.
PointerCode(al, v) ==
    IF IsSpilled(al, v) THEN <<Ins("movq", SpillAddress(al, v), Reg("ebx"))>> ELSE <<>>
PointerReg(al, v) == IF IsSpilled(al, v) THEN "ebx" ELSE al.registers[v]
PointerFlush(al, v) ==
    IF IsSpilled(al, v) THEN <<Ins("movq", Reg("ebx"), SpillAddress(al, v))>> ELSE <<>>

\* The registers holding a value defined before i and needed after it, in the
\* order of the values.
LiveAcross(al, ranges, i, exclude) ==
    LET live == {v \in DOMAIN al.registers \ {exclude} :
                    ranges[v].start < i /\ ranges[v].end > i}
        values == Ascending(live)
    IN  [j \in DOMAIN values |-> al.registers[values[j]]]

Save(saved) == [j \in DOMAIN saved |-> Ins1("pushq", Reg(saved[j]))]

\* Mutant: restored in the order they were saved.
RestoreInOrder(al, saved, dst) ==
    LET reclaimed(r) == ~IsSpilled(al, dst) /\ al.registers[dst] = r
    IN  [j \in DOMAIN saved |-> IF reclaimed(saved[j]) THEN Ins("addq", Imm(8), Reg("rsp"))
                                ELSE Ins1("popq", Reg(saved[j]))]

\* Restore in reverse; what the destination has reclaimed is discarded.
Restore(al, saved, dst) ==
    LET back == Reverse(saved)
        reclaimed(r) == ~IsSpilled(al, dst) /\ al.registers[dst] = r
    IN  [j \in DOMAIN back |-> IF reclaimed(back[j]) THEN Ins("addq", Imm(8), Reg("rsp"))
                               ELSE Ins1("popq", Reg(back[j]))]

\* The result of a call, a division or inline assembly arrives in eax.
TakeEax(al, dst) ==
    MoveUnlessSame(Reg("eax"), WriteTarget(al, dst, "ebx")) \o StoreIfSpilled(al, dst, "ebx")

-----------------------------------------------------------------------------
\* emitBinaryOp
EmitBinaryOp(al, inst, mnemonic) ==
    LET l == LoadLoc(al, inst.left, "ebx")
        r == LoadLoc(al, inst.right, "edi")
        d == WriteTarget(al, inst.dst, "r8d")
        staged == <<Ins1("pushq", r), Ins("movl", l, d), Ins(mnemonic, Mem("rsp"), d),
                    Ins("addq", Imm(8), Reg("rsp"))>>
        direct == MoveUnlessSame(l, d) \o <<Ins(mnemonic, r, d)>>
    IN  LoadCode(al, inst.left, "ebx") \o LoadCode(al, inst.right, "edi")
        \o (IF SameLoc(d, r) /\ ~SameLoc(d, l) THEN staged ELSE direct)
        \o StoreIfSpilled(al, inst.dst, "r8d")

EmitConst(al, inst) ==
    <<Ins("movl", Imm(inst.value), WriteTarget(al, inst.dst, "ebx"))>>
    \o StoreIfSpilled(al, inst.dst, "ebx")

EmitMove(al, inst) ==
    LoadCode(al, inst.left, "ebx")
    \o MoveUnlessSame(LoadLoc(al, inst.left, "ebx"), WriteTarget(al, inst.dst, "ebx"))
    \o StoreIfSpilled(al, inst.dst, "ebx")

EmitAddressOf(al, inst) ==
    <<Ins("leaq", SpillAddress(al, inst.left), Reg(PointerReg(al, inst.dst)))>>
    \o PointerFlush(al, inst.dst)

EmitLoad(al, inst) ==
    PointerCode(al, inst.left)
    \o <<Ins("movl", Mem(PointerReg(al, inst.left)), WriteTarget(al, inst.dst, "r8d"))>>
    \o StoreIfSpilled(al, inst.dst, "r8d")

EmitStore(al, inst) ==
    PointerCode(al, inst.left) \o LoadCode(al, inst.right, "edi")
    \o <<Ins("movl", LoadLoc(al, inst.right, "edi"), Mem(PointerReg(al, inst.left)))>>

EmitPtrSub(al, inst) ==
    LET p == PointerReg(al, inst.left)
        d == PointerReg(al, inst.dst)
    IN  PointerCode(al, inst.left) \o LoadCode(al, inst.right, "edi")
        \o <<Ins("movslq", LoadLoc(al, inst.right, "edi"), Reg("edi"))>>
        \o (IF d # p THEN <<Ins("movq", Reg(p), Reg(d))>> ELSE <<>>)
        \o <<Ins("subq", Reg("edi"), Reg(d))>>
        \o PointerFlush(al, inst.dst)

\* idivl wants the dividend in edx:eax and the divisor elsewhere, here in ecx.
EmitDiv(al, ranges, i, inst) ==
    LET clobbered(r) == r \in {"eax", "edx"}
        toSave == SelectSeq(LiveAcross(al, ranges, i, inst.dst), clobbered)
    IN  LoadCode(al, inst.right, "edi") \o LoadCode(al, inst.left, "ebx")
        \o Save(toSave)
        \o <<Ins("movl", LoadLoc(al, inst.right, "edi"), Reg("ecx")),
             Ins("movl", LoadLoc(al, inst.left, "ebx"), Reg("eax")),
             Ins0("cdq"), Ins1("idivl", Reg("ecx"))>>
        \o TakeEax(al, inst.dst)
        \o Restore(al, toSave, inst.dst)

SetCc == [o \in {"CmpEq", "CmpNe", "CmpGt", "CmpLt", "CmpGe", "CmpLe"} |->
    CASE o = "CmpEq" -> "sete" [] o = "CmpNe" -> "setne" [] o = "CmpGt" -> "setg"
      [] o = "CmpLt" -> "setl" [] o = "CmpGe" -> "setge" [] o = "CmpLe" -> "setle"]

\* The pair setcc; movzbl writes 0 or 1 into the whole register.
EmitCmp(al, inst) ==
    LoadCode(al, inst.left, "ebx") \o LoadCode(al, inst.right, "edi")
    \o <<Ins("cmpl", LoadLoc(al, inst.right, "edi"), LoadLoc(al, inst.left, "ebx")),
         Ins1(SetCc[inst.op], WriteTarget(al, inst.dst, "r8d"))>>
    \o StoreIfSpilled(al, inst.dst, "r8d")

-----------------------------------------------------------------------------
\* The first four parameters are unpacked by the prologue; the n-th one after
\* them is at 16 + 8*n (%rbp), which is slot -3 - n.
EmitParam(al, inst) ==
    IF inst.value < Len(AbiArgRegisters) THEN <<>>
    ELSE <<Ins("movl", Slot(Len(AbiArgRegisters) - inst.value - 3),
               WriteTarget(al, inst.dst, "ebx"))>>
         \o StoreIfSpilled(al, inst.dst, "ebx")

ValueOperand(al, v) == IF IsSpilled(al, v) THEN SpillAddress(al, v) ELSE Reg(al.registers[v])
PushArg(al, v) == Ins1("pushq", ValueOperand(al, v))

EmitCall(al, ranges, i, inst) ==
    LET n == Len(inst.args)
        inRegs == Least(n, Len(AbiArgRegisters))
        saved == LiveAcross(al, ranges, i, inst.dst)
    IN  Save(saved)
        \o [j \in 1 .. n - inRegs |-> PushArg(al, inst.args[n + 1 - j])]
        \o [j \in 1 .. inRegs |-> PushArg(al, inst.args[j])]
        \o [j \in 1 .. inRegs |-> Ins1("popq", Reg(AbiArgRegisters[inRegs + 1 - j]))]
        \o <<Ins1("call", Lab(inst.label))>>
        \o (IF n > inRegs THEN <<Ins("addq", Imm(8 * (n - inRegs)), Reg("rsp"))>> ELSE <<>>)
        \o TakeEax(al, inst.dst)
        \o Restore(al, saved, inst.dst)

EmitInlineAsm(al, ranges, i, inst) ==
    LET saved == LiveAcross(al, ranges, i, inst.dst)
    IN  Save(saved) \o <<Ins1("raw", Lab(inst.label))>>
        \o TakeEax(al, inst.dst) \o Restore(al, saved, inst.dst)

\* An index out of range leaves through exit(101); the label is made from the
\* position of the instruction in its function.
BoundsLabel(i) == <<".Lboundsok", ToString(i)>>

EmitBoundsCheck(al, i, inst) ==
    LoadCode(al, inst.left, "ebx")
    \o <<Ins("cmpl", Imm(inst.value), LoadLoc(al, inst.left, "ebx")),
         Ins1("jb", Lab(BoundsLabel(i))),
         Ins("movl", Imm(60), Reg("eax")), Ins("movl", Imm(101), Reg("edi")),
         Ins0("syscall"), Ins1("label", Lab(BoundsLabel(i)))>>

EmitJumpIfZero(al, inst) ==
    LoadCode(al, inst.left, "ebx")
    \o <<Ins("testl", LoadLoc(al, inst.left, "ebx"), LoadLoc(al, inst.left, "ebx")),
         Ins1("jz", Lab(inst.label))>>

EmitReturn(al, inst) ==
    LoadCode(al, inst.left, "ebx")
    \o MoveUnlessSame(LoadLoc(al, inst.left, "ebx"), Reg("eax"))
    \o <<Ins0("leave"), Ins0("ret")>>

Mnemonic == [o \in {"Add", "Sub", "Mul"} |->
    CASE o = "Add" -> "addl" [] o = "Sub" -> "subl" [] o = "Mul" -> "imull"]

EmitInst(al, ranges, i, inst) ==
    CASE inst.op = "Const" -> EmitConst(al, inst)
      [] inst.op \in DOMAIN Mnemonic -> EmitBinaryOp(al, inst, Mnemonic[inst.op])
      [] inst.op = "Move" -> EmitMove(al, inst)
      [] inst.op = "AddressOf" -> EmitAddressOf(al, inst)
      [] inst.op = "Load" -> EmitLoad(al, inst)
      [] inst.op = "Store" -> EmitStore(al, inst)
      [] inst.op = "PtrSub" -> EmitPtrSub(al, inst)
      [] inst.op = "Div" -> EmitDiv(al, ranges, i, inst)
      [] inst.op \in DOMAIN SetCc -> EmitCmp(al, inst)
      [] inst.op = "Param" -> EmitParam(al, inst)
      [] inst.op = "Call" -> EmitCall(al, ranges, i, inst)
      [] inst.op = "InlineAsm" -> EmitInlineAsm(al, ranges, i, inst)
      [] inst.op = "BoundsCheck" -> EmitBoundsCheck(al, i, inst)
      [] inst.op = "Label" -> <<Ins1("label", Lab(inst.label))>>
      [] inst.op = "Jump" -> <<Ins1("jmp", Lab(inst.label))>>
      [] inst.op = "JumpIfZero" -> EmitJumpIfZero(al, inst)
      [] inst.op = "Return" -> EmitReturn(al, inst)

\* The frame, and the register parameters moved to their places through the
\* stack: all pushed before the first is popped.
Prologue(al, ir) ==
    LET n == Least(ir.paramCount, Len(AbiArgRegisters))
    IN  <<Ins1("label", Lab(ir.name)), Ins1("pushq", Reg("rbp")),
          Ins("movq", Reg("rsp"), Reg("rbp"))>>
        \o (IF al.spillSlotCount > 0
            THEN <<Ins("subq", Imm(8 * al.spillSlotCount), Reg("rsp"))>> ELSE <<>>)
        \o [j \in 1 .. n |-> Ins1("pushq", Reg(AbiArgRegisters[n + 1 - j]))]
        \o [j \in 1 .. n |-> Ins1("popq", ValueOperand(al, ir.code[j].dst))]

GenerateFunction(ir, al, ranges) ==
    Prologue(al, ir)
    \o FlattenSeq([j \in DOMAIN ir.code |-> EmitInst(al, ranges, j - 1, ir.code[j])])

EntryPoint == <<Ins1("label", Lab(<<"_start">>)), Ins1("call", Lab(<<"main">>)),
                Ins("movl", Reg("eax"), Reg("edi")), Ins("movl", Imm(60), Reg("eax")),
                Ins0("syscall")>>
=============================================================================

------------------------------- MODULE OGLower ------------------------------
(***************************************************************************)
(* Lowering of an OGLang function to the linear IR (ir/ir.hpp,             *)
(* ir/lower.cpp).  The lowerer's fields are a record that every step       *)
(* returns changed; lowering an expression also returns its ValueId.       *)
(* Instruction positions and ValueIds count from 0, as in the code; the    *)
(* instruction at position i is code[i + 1].                               *)
(***************************************************************************)
EXTENDS OGTypes

None == 0 - 1

\* struct IRInstruction
Inst(op, dst, left, right, value) ==
    [op |-> op, dst |-> dst, left |-> left, right |-> right, value |-> value,
     args |-> <<>>, label |-> <<>>]
Labelled(op, left, label) == [Inst(op, None, left, None, 0) EXCEPT !.label = label]

OpcodeOf == [o \in Operators |->
    CASE o = "+" -> "Add" [] o = "-" -> "Sub" [] o = "*" -> "Mul" [] o = "/" -> "Div"
      [] o = "=" -> "CmpEq" [] o = "!" -> "CmpNe" [] o = ">" -> "CmpGt"
      [] o = "<" -> "CmpLt" [] o = "G" -> "CmpGe" [] o = "L" -> "CmpLe"]

\* The lowerer at the start of lower(): layouts gives the fields of each struct
\* in declaration order and the ordinal of each enum variant.
FreshLowerer(layouts) ==
    [code |-> <<>>, nextValue |-> 0, nextLabel |-> 0, variables |-> NoMap,
     arrays |-> NoMap, structVars |-> NoMap, structVarTypes |-> NoMap,
     taken |-> <<>>, groups |-> <<>>, layouts |-> layouts, ok |-> TRUE]

Emit(st, inst) == [st EXCEPT !.code = Append(@, inst)]

\* An instruction that defines the next ValueId.
Define(st, op, left, right, value) ==
    [st |-> [Emit(st, Inst(op, st.nextValue, left, right, value))
               EXCEPT !.nextValue = @ + 1],
     v |-> st.nextValue]

LowerError(st) == [st |-> [st EXCEPT !.ok = FALSE], v |-> None]

RECURSIVE LowerExpr(_, _), LowerArgs(_, _)

\* Address of element 0 minus a byte offset already in a value.
MinusOffset(st, base, offset) ==
    LET address == Define(st, "AddressOf", base, None, 0)
    IN  Define(address.st, "PtrSub", address.v, offset, 0)

\* The same for the element with the index i.
ElementAddress(elements, i) ==
    LET checked == Emit(i.st, Inst("BoundsCheck", None, i.v, None, Len(elements)))
        eight == Define(checked, "Const", None, None, 8)
        offset == Define(eight.st, "Mul", i.v, eight.v, 0)
    IN  MinusOffset(offset.st, elements[1], offset.v)

LowerElementAddress(st, array, index) ==
    IF array \notin DOMAIN st.arrays THEN LowerError(st)
    ELSE ElementAddress(st.arrays[array], LowerExpr(st, index))

LowerFieldAddress(st, var, field) ==
    LET order == st.layouts.structs[st.structVarTypes[var]]
        offset == Define(st, "Const", None, None, 8 * (CHOOSE i \in DOMAIN order : order[i] = field) - 8)
    IN  IF var \notin DOMAIN st.structVars \/ ~Contains(order, field) THEN LowerError(st)
        ELSE MinusOffset(offset.st, st.structVars[var][1], offset.v)

\* An enum variant is a constant; a field is loaded from its address.
LowerField(st, e) ==
    IF e.name \notin DOMAIN st.structVars /\ e.name \in DOMAIN st.layouts.enums
    THEN Define(st, "Const", None, None, st.layouts.enums[e.name][e.field])
    ELSE LET a == LowerFieldAddress(st, e.name, e.field)
         IN  Define(a.st, "Load", a.v, None, 0)

LowerCall(st, e) ==
    LET as == LowerArgs(st, e.args)
        d == Define(as.st, "Call", None, None, 0)
        last == Len(d.st.code)
    IN  [d EXCEPT !.st.code[last].args = as.v, !.st.code[last].label = e.callee]

LowerArgs(st, args) ==
    FoldLeft(LAMBDA acc, a : LET r == LowerExpr(acc.st, a)
                             IN  [st |-> r.st, v |-> Append(acc.v, r.v)],
             [st |-> st, v |-> <<>>], args)

LowerUnary(st, e) ==
    Then(LowerExpr(st, e.operand),
         LAMBDA x : LET zero == Define(x.st, "Const", None, None, 0)
                    IN  Define(zero.st, "Sub", zero.v, x.v, 0))

LowerBinary(st, e) ==
    Then(LowerExpr(st, e.left),
         LAMBDA l : Then(LowerExpr(l.st, e.right),
                         LAMBDA r : Define(r.st, OpcodeOf[e.op], l.v, r.v, 0)))

\* &name also records that the variable needs a stack slot.
LowerAddressOf(st, e) ==
    IF e.name \notin DOMAIN st.variables THEN LowerError(st)
    ELSE LET v == st.variables[e.name]
         IN  Define([st EXCEPT !.taken = Append(@, v)], "AddressOf", v, None, 0)

LowerLoad(address) == Define(address.st, "Load", address.v, None, 0)

LowerAsm(st, e) ==
    LET d == Define(st, "InlineAsm", None, None, 0)
    IN  [d EXCEPT !.st.code[Len(d.st.code)].label = e.template]

LowerExpr(st, e) ==
    CASE e.k = "int" -> Define(st, "Const", None, None, e.value)
      [] e.k = "var" -> IF e.name \in DOMAIN st.variables
                        THEN [st |-> st, v |-> st.variables[e.name]] ELSE LowerError(st)
      [] e.k = "neg" -> LowerUnary(st, e)
      [] e.k = "addr" -> LowerAddressOf(st, e)
      [] e.k = "deref" -> LowerLoad(LowerExpr(st, e.pointer))
      [] e.k = "index" -> LowerLoad(LowerElementAddress(st, e.name, e.index))
      [] e.k = "field" -> LowerField(st, e)
      [] e.k = "asm" -> LowerAsm(st, e)
      [] e.k = "call" -> LowerCall(st, e)
      [] e.k = "bin" -> LowerBinary(st, e)

-----------------------------------------------------------------------------
RECURSIVE LowerStatement(_, _)

LowerBlock(st, body) == FoldLeft(LowerStatement, st, body)

\* A let binds the name to the initialiser's own ValueId.
LowerLet(st, s) ==
    Then(LowerExpr(st, s.value), LAMBDA r : [r.st EXCEPT !.variables = Bind(@, s.name, r.v)])

\* An assignment writes in place: the variable keeps its ValueId.
LowerAssign(st, s) ==
    IF s.name \notin DOMAIN st.variables THEN LowerError(st).st
    ELSE Then(LowerExpr(st, s.value),
              LAMBDA r : Emit(r.st, Inst("Move", st.variables[s.name], r.v, None, 0)))

StoreTo(address, e) ==
    Then(LowerExpr(address.st, e),
         LAMBDA r : Emit(r.st, Inst("Store", None, address.v, r.v, 0)))

\* The zeroed elements of an array, or fields of a struct, as one group.
ZeroedGroup(st, n) ==
    LET ids == [i \in 1 .. n |-> st.nextValue + i - 1]
        all == FoldLeft(LAMBDA acc, id : Define(acc, "Const", None, None, 0).st, st, ids)
    IN  [st |-> [all EXCEPT !.groups = Append(@, ids)], v |-> ids]

LowerArray(st, s) ==
    LET g == ZeroedGroup(st, s.size) IN [g.st EXCEPT !.arrays = Bind(@, s.name, g.v)]

LowerStructVar(st, s) ==
    LET g == ZeroedGroup(st, Len(st.layouts.structs[s.type]))
    IN  [g.st EXCEPT !.structVars = Bind(@, s.name, g.v),
                     !.structVarTypes = Bind(@, s.name, s.type)]

\* freshLabel, twice.
TwoLabels(st, first, second) ==
    [a |-> <<first, ToString(st.nextLabel)>>, b |-> <<second, ToString(st.nextLabel + 1)>>]
AfterTwo(st) == [st EXCEPT !.nextLabel = @ + 2]

LowerWhile(st, s) ==
    LET l == TwoLabels(st, ".Lloop", ".Lloopend")
        test(c) == Emit(c.st, Labelled("JumpIfZero", c.v, l.b))
        start == Emit(AfterTwo(st), Labelled("Label", None, l.a))
        body == LowerBlock(test(LowerExpr(start, s.cond)), s.body)
    IN  Emit(Emit(body, Labelled("Jump", None, l.a)), Labelled("Label", None, l.b))

\* The branches of an if whose condition is in c.
LowerBranches(c, s) ==
    LET l == TwoLabels(c.st, ".Lelse", ".Lend")
        target == IF s.else = <<>> THEN l.b ELSE l.a
        then == LowerBlock(Emit(AfterTwo(c.st), Labelled("JumpIfZero", c.v, target)), s.then)
        jump == Emit(then, Labelled("Jump", None, l.b))
        else == LowerBlock(Emit(jump, Labelled("Label", None, l.a)), s.else)
    IN  Emit(IF s.else = <<>> THEN then ELSE else, Labelled("Label", None, l.b))
LowerIf(st, s) == LowerBranches(LowerExpr(st, s.cond), s)

LowerReturn(st, s) ==
    Then(LowerExpr(st, s.value), LAMBDA r : Emit(r.st, Inst("Return", None, r.v, None, 0)))

LowerStatement(st, s) ==
    CASE s.k = "let" -> LowerLet(st, s)
      [] s.k = "assign" -> LowerAssign(st, s)
      [] s.k = "store" -> StoreTo(LowerExpr(st, s.pointer), s.value)
      [] s.k = "array" -> LowerArray(st, s)
      [] s.k = "structvar" -> LowerStructVar(st, s)
      [] s.k = "fieldstore" -> StoreTo(LowerFieldAddress(st, s.name, s.field), s.value)
      [] s.k = "indexstore" -> StoreTo(LowerElementAddress(st, s.name, s.index), s.value)
      [] s.k = "while" -> LowerWhile(st, s)
      [] s.k = "return" -> LowerReturn(st, s)
      [] s.k = "if" -> LowerIf(st, s)

\* IRLowerer::lower: the parameters come first, one instruction each.
Lower(f, layouts) ==
    LET param(st, i) == LET d == Define(st, "Param", None, None, i - 1)
                        IN  [d.st EXCEPT !.variables = Bind(@, f.params[i].name, d.v)]
        start == FoldLeft(param, FreshLowerer(layouts), [i \in DOMAIN f.params |-> i])
    IN  Then(LowerBlock(start, f.body),
             LAMBDA st : [name |-> f.name, paramCount |-> Len(f.params), code |-> st.code,
                          taken |-> st.taken, groups |-> st.groups, ok |-> st.ok])
=============================================================================

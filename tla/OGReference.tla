---------------------------- MODULE OGReference -----------------------------
(***************************************************************************)
(* What an OGLang program means, written without looking at how it is      *)
(* compiled: the printer that the parser has to undo, an evaluator of the  *)
(* tree, and the liveness of IR values along the paths control can take.   *)
(* The properties of OGCompiler compare the compiler with these.           *)
(***************************************************************************)
EXTENDS OGLower, OGMachine

-----------------------------------------------------------------------------
(* Printing, with a parenthesis only where precedence asks for one. *)
NoTree == [tree |-> FALSE]      \* in the place of a tree for texts that have none
MarkOf(o) == CASE o = "=" -> <<"=", "=">> [] o = "!" -> <<"!", "=">>
               [] o = "G" -> <<">", "=">> [] o = "L" -> <<"<", "=">> [] OTHER -> <<o>>
LevelOf(o) == CASE o \in {"=", "!"} -> 1 [] o \in {">", "<", "G", "L"} -> 2
                [] o \in {"+", "-"} -> 3 [] o \in {"*", "/"} -> 4

Separated(parts) ==
    FlattenSeq([i \in DOMAIN parts |-> IF i = 1 THEN parts[i] ELSE <<",">> \o parts[i]])
NumberText(n) ==
    LET digit(d) == CHOOSE c \in Digits : DigitValue[c] = d
        used == {k \in 0 .. 9 : n \div 10 ^ k > 0} \cup {0}
        length == Cardinality(used)
    IN  [i \in 1 .. length |-> digit((n \div 10 ^ (length - i)) % 10)]

RECURSIVE PrintExpr(_, _)
PrintExpr(e, level) ==
    LET own == LevelOf(e.op)
        inner == PrintExpr(e.left, own) \o MarkOf(e.op) \o PrintExpr(e.right, own + 1)
        args == [i \in DOMAIN e.args |-> PrintExpr(e.args[i], 1)]
    IN  CASE e.k = "int" -> NumberText(e.value)
          [] e.k = "var" -> e.name
          [] e.k = "neg" -> <<"-">> \o PrintExpr(e.operand, 5)
          [] e.k = "addr" -> <<"&">> \o e.name
          [] e.k = "deref" -> <<"*">> \o PrintExpr(e.pointer, 5)
          [] e.k = "index" -> e.name \o <<"[">> \o PrintExpr(e.index, 1) \o <<"]">>
          [] e.k = "field" -> e.name \o <<".">> \o e.field
          [] e.k = "asm" -> <<"asm", "(", "\"">> \o e.template \o <<"\"", ")">>
          [] e.k = "call" -> e.callee \o <<"(">> \o Separated(args) \o <<")">>
          [] e.k = "bin" -> IF own < level THEN <<"(">> \o inner \o <<")">> ELSE inner

RECURSIVE PrintBlock(_)
PrintStatement(s) ==
    LET value == <<"=">> \o PrintExpr(s.value, 1) \o <<";">>
        declared == <<"let", " ">> \o s.name \o <<":">> \o s.type
    IN  CASE s.k = "let" -> declared \o value
          [] s.k = "array" -> declared \o <<"[">> \o NumberText(s.size) \o <<"]", ";">>
          [] s.k = "structvar" -> declared \o <<";">>
          [] s.k = "return" -> <<"return", " ">> \o PrintExpr(s.value, 1) \o <<";">>
          [] s.k = "assign" -> s.name \o value
          [] s.k = "store" -> <<"*">> \o PrintExpr(s.pointer, 5) \o value
          [] s.k = "indexstore" -> s.name \o <<"[">> \o PrintExpr(s.index, 1) \o <<"]">> \o value
          [] s.k = "fieldstore" -> s.name \o <<".">> \o s.field \o value
          [] s.k = "while" -> <<"while", "(">> \o PrintExpr(s.cond, 1) \o <<")">> \o PrintBlock(s.body)
          [] s.k = "if" -> <<"if", "(">> \o PrintExpr(s.cond, 1) \o <<")">> \o PrintBlock(s.then)
                           \o (IF s.else = <<>> THEN <<>> ELSE <<"else">> \o PrintBlock(s.else))

PrintBlock(body) == <<"{">> \o FlattenSeq([i \in DOMAIN body |-> PrintStatement(body[i])]) \o <<"}">>

PrintParams(ps) == Separated([i \in DOMAIN ps |-> ps[i].name \o <<":">> \o ps[i].type])

PrintProgram(p) ==
    FlattenSeq([i \in DOMAIN p.imports |-> <<"import", " ">> \o p.imports[i] \o <<";", "\n">>])
    \o FlattenSeq([i \in DOMAIN p.structs |-> <<"struct", " ">> \o p.structs[i].name \o <<"{">>
                       \o PrintParams(p.structs[i].fields) \o <<"}", "\n">>])
    \o FlattenSeq([i \in DOMAIN p.enums |-> <<"enum", " ">> \o p.enums[i].name \o <<"{">>
                       \o Separated(p.enums[i].variants) \o <<"}", "\n">>])
    \o FlattenSeq([i \in DOMAIN p.functions |-> <<"fn", " ">> \o p.functions[i].name \o <<"(">>
                       \o PrintParams(p.functions[i].params) \o <<")", "-", ">">>
                       \o p.functions[i].ret \o PrintBlock(p.functions[i].body) \o <<"\n">>])

-----------------------------------------------------------------------------
(* Evaluation.  A name is bound to a cell of the store, or to a sequence of *)
(* them; a block ends the scope of what it declares.  out is "run" until    *)
(* the program returns from the current function, traps or runs out of     *)
(* fuel.  The modules' functions and types are those of the tree.          *)
Halted(st) == st.out # "run"
NoValue(st) == [st |-> st, v |-> 0]
Yield(st, v) == [st |-> st, v |-> v]
Stop(st, out) == [st EXCEPT !.out = out]

\* The module and the name that a possibly qualified name means inside m.
Resolve(m, name) ==
    IF Contains(name, ".")
    THEN LET dot == CHOOSE j \in DOMAIN name : name[j] = "."
         IN  [module |-> SubSeq(name, 1, dot - 1), name |-> SubSeq(name, dot + 1, Len(name))]
    ELSE [module |-> m, name |-> name]

ProgramOf(mods, m) == mods[CHOOSE i \in DOMAIN mods : mods[i].name = m].ast
FunctionOf(mods, m, name) ==
    LET r == Resolve(m, name) IN ByName(ProgramOf(mods, r.module).functions, r.name)
FieldsOf(mods, m, type) ==
    LET r == Resolve(m, type) IN ByName(ProgramOf(mods, r.module).structs, r.name).fields
Ordinal(mods, m, enum, variant) ==
    LET r == Resolve(m, enum)
        vs == ByName(ProgramOf(mods, r.module).enums, r.name).variants
    IN  (CHOOSE i \in DOMAIN vs : vs[i] = variant) - 1

Arithmetic(st, o, a, b) ==
    LET truth(c) == IF c THEN 1 ELSE 0
    IN  CASE o = "+" -> Yield(st, Signed(a + b))
          [] o = "-" -> Yield(st, Signed(a - b))
          [] o = "*" -> Yield(st, Signed(a * b))
          [] o = "/" -> IF b = 0 \/ (a = 0 - Half /\ b = 0 - 1) THEN NoValue(Stop(st, "fpe"))
                        ELSE Yield(st, Quotient(a, b))
          [] o = "=" -> Yield(st, truth(a = b))
          [] o = "!" -> Yield(st, truth(a # b))
          [] o = ">" -> Yield(st, truth(a > b))
          [] o = "<" -> Yield(st, truth(a < b))
          [] o = "G" -> Yield(st, truth(a >= b))
          [] o = "L" -> Yield(st, truth(a <= b))

\* cx = [mods, m, env]: the program, the module of the function, the scope.
RECURSIVE Eval(_, _, _), Exec(_, _, _), ExecBlock(_, _, _)

EvalArgs(cx, st, args) ==
    FoldLeft(LAMBDA acc, a : LET r == Eval(cx, acc.st, a)
                             IN  [st |-> r.st, v |-> Append(acc.v, r.v)],
             [st |-> st, v |-> <<>>], args)

Declare(cx, st, name, values) ==
    [cx |-> [cx EXCEPT !.env = Bind(@, name, [i \in DOMAIN values |-> Len(st.store) + i])],
     st |-> [st EXCEPT !.store = @ \o values]]

EvalCall(cx, st, e) ==
    LET as == EvalArgs(cx, st, e.args)
        r == Resolve(cx.m, e.callee)
        f == FunctionOf(cx.mods, cx.m, e.callee)
        bind(acc, i) == Declare(acc.cx, acc.st, <<"var", f.params[i].name>>, <<as.v[i]>>)
        entry == FoldLeft(bind, [cx |-> [mods |-> cx.mods, m |-> r.module, env |-> NoMap],
                                 st |-> [as.st EXCEPT !.fuel = @ - 1]],
                          [i \in DOMAIN f.params |-> i])
        left == ExecBlock(entry.cx, entry.st, f.body)
    IN  CASE Halted(as.st) -> NoValue(as.st)
          [] ~Halted(as.st) /\ as.st.fuel = 0 -> NoValue(Stop(as.st, "fuel"))
          [] OTHER -> IF left.out = "return" THEN Yield([left EXCEPT !.out = "run"], left.ret)
                      ELSE NoValue(left)

\* The cell of an element, once its index is known.
Element(cx, st, name, i) ==
    LET cells == cx.env[<<"array", name>>]
    IN  IF Halted(st) THEN NoValue(st)
        ELSE IF i < 0 \/ i >= Len(cells) THEN NoValue(Stop(st, "bounds"))
        ELSE Yield(st, cells[i + 1])

FieldCell(cx, name, field) ==
    LET s == cx.env[<<"struct", name>>] IN s[FieldIndex([fields |-> cx.env[<<"type", name>>]], field)]

Contents(c) == IF Halted(c.st) THEN c ELSE Yield(c.st, c.st.store[c.v])

Eval(cx, st, e) ==
    LET l == Eval(cx, st, e.left)
        r == Eval(cx, l.st, e.right)
        x == Eval(cx, st, e.operand)
        i == Eval(cx, st, e.index)
    IN  CASE Halted(st) -> NoValue(st)
          [] ~Halted(st) /\ e.k = "int" -> Yield(st, e.value)
          [] ~Halted(st) /\ e.k = "asm" -> Yield(st, 7)
          [] ~Halted(st) /\ e.k = "var" -> Yield(st, st.store[cx.env[<<"var", e.name>>][1]])
          [] ~Halted(st) /\ e.k = "neg" -> Yield(x.st, Signed(0 - x.v))
          [] ~Halted(st) /\ e.k = "addr" -> Yield(st, cx.env[<<"var", e.name>>][1])
          [] ~Halted(st) /\ e.k = "deref" -> Contents(Eval(cx, st, e.pointer))
          [] ~Halted(st) /\ e.k = "index" -> Contents(Element(cx, i.st, e.name, i.v))
          [] ~Halted(st) /\ e.k = "field" ->
                IF <<"struct", e.name>> \in DOMAIN cx.env
                THEN Yield(st, st.store[FieldCell(cx, e.name, e.field)])
                ELSE Yield(st, Ordinal(cx.mods, cx.m, e.name, e.field))
          [] ~Halted(st) /\ e.k = "call" -> EvalCall(cx, st, e)
          [] ~Halted(st) /\ e.k = "bin" ->
                IF Halted(r.st) THEN NoValue(r.st) ELSE Arithmetic(r.st, e.op, l.v, r.v)

\* cell := value, where the cell is known before the value is.
Write(cx, cell, e) ==
    LET r == Eval(cx, cell.st, e)
    IN  IF Halted(r.st) THEN r.st ELSE [r.st EXCEPT !.store[cell.v] = r.v]

\* A statement's effect, and the scope after it.
Exec(cx, st, s) ==
    LET value == Eval(cx, st, s.value)
        test == Eval(cx, st, s.cond)
        index == Eval(cx, st, s.index)
        same(n) == [cx |-> cx, st |-> n]
        fields == FieldsOf(cx.mods, cx.m, s.type)
        zeros(n) == [i \in 1 .. n |-> 0]
    IN  CASE s.k = "let" -> Declare(cx, value.st, <<"var", s.name>>, <<value.v>>)
          [] s.k = "array" -> Declare(cx, st, <<"array", s.name>>, zeros(s.size))
          [] s.k = "structvar" ->
                Declare([cx EXCEPT !.env = Bind(@, <<"type", s.name>>, fields)], st,
                        <<"struct", s.name>>, zeros(Len(fields)))
          [] s.k = "assign" -> same(Write(cx, Yield(st, cx.env[<<"var", s.name>>][1]), s.value))
          [] s.k = "store" -> same(Write(cx, Eval(cx, st, s.pointer), s.value))
          [] s.k = "indexstore" -> same(Write(cx, Element(cx, index.st, s.name, index.v), s.value))
          [] s.k = "fieldstore" -> same(Write(cx, Yield(st, FieldCell(cx, s.name, s.field)), s.value))
          [] s.k = "return" -> same(IF Halted(value.st) THEN value.st
                                    ELSE [value.st EXCEPT !.out = "return", !.ret = value.v])
          [] s.k = "if" -> same(IF Halted(test.st) THEN test.st
                                ELSE ExecBlock(cx, test.st, IF test.v # 0 THEN s.then ELSE s.else))
          [] s.k = "while" ->
                same(IF Halted(test.st) \/ test.v = 0 THEN test.st
                     ELSE ExecBlock(cx, ExecBlock(cx, test.st, s.body), <<s>>))

ExecBlock(cx, st, body) ==
    LET step(acc, s) == IF Halted(acc.st) THEN acc ELSE Exec(acc.cx, acc.st, s)
    IN  FoldLeft(step, [cx |-> cx, st |-> st], body).st

\* How a program ends: with what main returns as its status (before the system
\* keeps the low 8 bits of it), with 101 for an index out of range, or with the
\* signal of a division that has no result.
Meaning(mods, fuel) ==
    LET st == [store |-> <<>>, out |-> "run", ret |-> 0, fuel |-> fuel]
        r == EvalCall([mods |-> mods, m |-> mods[1].name, env |-> NoMap], st,
                      CallExpr(<<"main">>, <<>>))
    IN  CASE r.st.out = "run" -> <<"exit", Low(r.v)>>
          [] r.st.out = "bounds" -> <<"exit", 101>>
          [] OTHER -> <<r.st.out, 0>>

-----------------------------------------------------------------------------
(* Liveness of the values of a function along its paths. *)
LabelPosition(code, label) ==
    CHOOSE i \in DOMAIN code : code[i].op = "Label" /\ code[i].label = label

Successors(code, i) ==
    LET target == LabelPosition(code, code[i].label)
    IN  CASE code[i].op = "Return" -> {}
          [] code[i].op = "Jump" -> {target}
          [] code[i].op = "JumpIfZero" -> {target, i + 1}
          [] OTHER -> {i + 1} \cap DOMAIN code

Reads(inst) == ({inst.left, inst.right} \cup ToSet(inst.args)) \ {None}

\* out[i] is the set of values some path from i reads before it writes them.
RECURSIVE LiveFrom(_, _)
LiveFrom(code, out) ==
    LET in(i) == Reads(code[i]) \cup (out[i] \ {code[i].dst})
        next == [i \in DOMAIN code |-> UNION {in(j) : j \in Successors(code, i)}]
    IN  IF next = out THEN out ELSE LiveFrom(code, next)

LiveOut(code) == LiveFrom(code, [i \in DOMAIN code |-> {}])
=============================================================================

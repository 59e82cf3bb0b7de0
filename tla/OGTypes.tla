------------------------------- MODULE OGTypes ------------------------------
(***************************************************************************)
(* The OGLang type checker (types/type_checker.cpp).  An expression's type *)
(* is a name, and Bad stands for a thrown error.  The environment of a     *)
(* function body keeps the three separate namespaces of class Checker, one *)
(* flat map each: a block opens no scope.                                  *)
(***************************************************************************)
EXTENDS OGSyntax

Bad == <<"error">>
I32 == <<"i32">>
Ptr == <<"ptr">>
ConstPtr == <<"constptr">>
BaseTypes == {I32, Ptr, ConstPtr}

Operators == {"+", "-", "*", "/", "=", "!", ">", "<", "G", "L"}

NoMap == [x \in {} |-> x]
Bind(m, x, v) == (x :> v) @@ m

Distinct(s) == Cardinality(ToSet(s)) = Len(s)
NamesOf(decls) == [i \in DOMAIN decls |-> decls[i].name]

-----------------------------------------------------------------------------
IsPointerType(t) == t \in {Ptr, ConstPtr}

Assignable(declared, actual) ==
    /\ actual # Bad
    /\ declared = actual \/ (declared = ConstPtr /\ actual = Ptr)

\* Checker::resolveFieldType
ResolveFieldType(env, var, field) ==
    IF var \notin DOMAIN env.structVars THEN Bad
    ELSE LET type == env.structVars[var]
         IN  IF type \notin DOMAIN env.structs \/ field \notin DOMAIN env.structs[type]
             THEN Bad ELSE env.structs[type][field]

\* A FieldAccessExpr: a struct variable takes priority over an enum type.
FieldType(env, e) ==
    IF e.name \notin DOMAIN env.structVars /\ e.name \in DOMAIN env.enums
    THEN IF e.field \in env.enums[e.name] THEN I32 ELSE Bad
    ELSE ResolveFieldType(env, e.name, e.field)

RECURSIVE CheckExpr(_, _)

CallType(env, e) ==
    IF e.callee \notin DOMAIN env.signatures THEN Bad
    ELSE LET sig == env.signatures[e.callee]
         IN  IF /\ Len(e.args) = Len(sig.params)
                /\ \A i \in DOMAIN e.args : Assignable(sig.params[i], CheckExpr(env, e.args[i]))
             THEN sig.ret ELSE Bad

CheckExpr(env, e) ==
    LET i32If(c) == IF c THEN I32 ELSE Bad
    IN  CASE e.k \in {"int", "asm"} -> I32
          [] e.k = "var" -> IF e.name \in DOMAIN env.variables THEN env.variables[e.name] ELSE Bad
          [] e.k = "neg" -> i32If(CheckExpr(env, e.operand) = I32)
          [] e.k = "addr" -> IF e.name \in DOMAIN env.variables THEN Ptr ELSE Bad
          [] e.k = "deref" -> i32If(IsPointerType(CheckExpr(env, e.pointer)))
          [] e.k = "field" -> FieldType(env, e)
          [] e.k = "index" -> i32If(/\ e.name \in DOMAIN env.arrays
                                    /\ CheckExpr(env, e.index) = I32)
          [] e.k = "call" -> CallType(env, e)
          [] e.k = "bin" -> i32If(/\ CheckExpr(env, e.left) = I32
                                  /\ CheckExpr(env, e.right) = I32
                                  /\ e.op \in Operators)

-----------------------------------------------------------------------------
(* checkStatement returns the environment after the statement; ok is FALSE *)
(* from the first error on.                                                *)
RECURSIVE CheckStatement(_, _, _), CheckBlock(_, _, _)

Require(env, c) == [env EXCEPT !.ok = @ /\ c]

CheckBlock(env, body, ret) == FoldLeft(LAMBDA n, s : CheckStatement(n, s, ret), env, body)

\* let, and the two declarations that carry no initialiser.
CheckDecl(env, s) ==
    CASE s.k = "let" ->
            [Require(env, Assignable(s.type, CheckExpr(env, s.value)))
               EXCEPT !.variables = Bind(@, s.name, s.type)]
      [] s.k = "structvar" ->
            [Require(env, s.type \in DOMAIN env.structs)
               EXCEPT !.structVars = Bind(@, s.name, s.type)]
      [] s.k = "array" ->
            [Require(env, s.type = I32 /\ s.size > 0)
               EXCEPT !.arrays = Bind(@, s.name, s.size)]

\* Statements that write: assignment, store through a pointer, field, element.
CheckWrite(env, s) ==
    LET value == CheckExpr(env, s.value)
        target == CASE s.k = "assign" -> IF s.name \in DOMAIN env.variables
                                         THEN env.variables[s.name] ELSE Bad
                    [] s.k = "store" -> IF CheckExpr(env, s.pointer) = Ptr THEN I32 ELSE Bad
                    [] s.k = "fieldstore" -> ResolveFieldType(env, s.name, s.field)
                    [] s.k = "indexstore" -> IF /\ s.name \in DOMAIN env.arrays
                                                /\ CheckExpr(env, s.index) = I32
                                             THEN I32 ELSE Bad
    IN  Require(env, target # Bad /\ Assignable(target, value))

CheckStatement(env, s, ret) ==
    CASE ~env.ok -> env
      [] env.ok /\ s.k \in {"let", "structvar", "array"} -> CheckDecl(env, s)
      [] env.ok /\ s.k \in {"assign", "store", "fieldstore", "indexstore"} -> CheckWrite(env, s)
      [] env.ok /\ s.k = "return" -> Require(env, Assignable(ret, CheckExpr(env, s.value)))
      [] env.ok /\ s.k = "while" ->
            CheckBlock(Require(env, CheckExpr(env, s.cond) = I32), s.body, ret)
      [] env.ok /\ s.k = "if" ->
            CheckBlock(CheckBlock(Require(env, CheckExpr(env, s.cond) = I32), s.then, ret),
                       s.else, ret)

RECURSIVE BlockAlwaysReturns(_)
BlockAlwaysReturns(body) ==
    /\ body # <<>>
    /\ \/ Last(body).k = "return"
       \/ /\ Last(body).k = "if"
          /\ Last(body).else # <<>>
          /\ BlockAlwaysReturns(Last(body).then)
          /\ BlockAlwaysReturns(Last(body).else)

-----------------------------------------------------------------------------
(* collectModuleSymbols: the declarations of one program, or an error. *)
EnumsValid(p) == Distinct(NamesOf(p.enums)) /\ \A e \in ToSet(p.enums) : Distinct(e.variants)

StructsValid(p) ==
    /\ Distinct(NamesOf(p.structs))
    /\ ToSet(NamesOf(p.structs)) \cap ToSet(NamesOf(p.enums)) = {}
    /\ \A s \in ToSet(p.structs) : /\ Distinct(NamesOf(s.fields))
                                   /\ \A f \in ToSet(s.fields) : f.type \in BaseTypes

FunctionsValid(p) ==
    /\ Distinct(NamesOf(p.functions))
    /\ \A f \in ToSet(p.functions) : /\ f.ret \in BaseTypes
                                     /\ \A q \in ToSet(f.params) : q.type \in BaseTypes

SymbolsValid(p) == EnumsValid(p) /\ StructsValid(p) /\ FunctionsValid(p)

ByName(decls, n) == decls[CHOOSE i \in DOMAIN decls : decls[i].name = n]
FieldIndex(decl, f) == CHOOSE i \in DOMAIN decl.fields : decl.fields[i].name = f

ModuleSymbols(p) ==
    [signatures |-> [n \in ToSet(NamesOf(p.functions)) |->
        LET f == ByName(p.functions, n)
        IN  [params |-> [i \in DOMAIN f.params |-> f.params[i].type], ret |-> f.ret]],
     structs |-> [n \in ToSet(NamesOf(p.structs)) |->
        LET d == ByName(p.structs, n)
        IN  [f \in ToSet(NamesOf(d.fields)) |-> d.fields[FieldIndex(d, f)].type]],
     enums |-> [n \in ToSet(NamesOf(p.enums)) |-> ToSet(ByName(p.enums, n).variants)]]

\* The loop over the functions that check() and checkModule() share.
FunctionChecks(f, symbols) ==
    LET params == FoldLeft(LAMBDA m, q : Bind(m, q.name, q.type), NoMap, f.params)
        env == [ok |-> TRUE, variables |-> params, arrays |-> NoMap, structVars |-> NoMap,
                signatures |-> symbols.signatures, structs |-> symbols.structs,
                enums |-> symbols.enums]
    IN  CheckBlock(env, f.body, f.ret).ok /\ BlockAlwaysReturns(f.body)

\* checkModule: own declarations win over the imported ones.
CheckModule(p, external, requireMain) ==
    LET own == ModuleSymbols(p)
        all == [signatures |-> own.signatures @@ external.signatures,
                structs |-> own.structs @@ external.structs,
                enums |-> own.enums @@ external.enums]
    IN  /\ SymbolsValid(p)
        /\ requireMain => <<"main">> \in DOMAIN all.signatures
        /\ \A f \in ToSet(p.functions) : FunctionChecks(f, all)

\* check: the single-file form, which has nothing to resolve an import against.
CheckProgram(p) ==
    /\ p.imports = <<>>
    /\ CheckModule(p, [signatures |-> NoMap, structs |-> NoMap, enums |-> NoMap], TRUE)
=============================================================================

--------------------------- MODULE MCOGCompiler -----------------------------
(***************************************************************************)
(* Families of OGLang programs for TLC.  Each program is written as a tree *)
(* and given to the compiler as the text that the printer makes of it.     *)
(***************************************************************************)
EXTENDS OGCompiler

N(n) == IntegerExpr(n)
X(w) == VariableExpr(<<w>>)
B(o, l, r) == BinaryExpr(o, l, r)
Neg(e) == UnaryExpr(e)
At1(w, e) == IndexExpr(<<w>>, e)
Let(w, e) == LetStmt(<<w>>, I32, e)
PtrTo(w, v) == LetStmt(<<w>>, Ptr, AddressOfExpr(<<v>>))
Assign(w, e) == AssignStmt(<<w>>, e)
Ret(e) == ReturnStmt(e)
CallF(w, as) == CallExpr(<<w>>, as)
P(w) == Param(<<w>>, I32)
PP(w) == Param(<<w>>, Ptr)
Fn(w, ps, b) == Function(<<w>>, ps, I32, b)
Main(b) == Fn("main", <<>>, b)
Functions(fs) == Program(<<>>, <<>>, <<>>, fs)
File(w, p) == [name |-> <<w>>, text |-> PrintProgram(p), ast |-> p]
One(p) == <<File("main", p)>>
Just(b) == One(Functions(<<Main(b)>>))

\* The difference of the variables, and a function that returns that of its
\* n parameters.
Sum(ws) == FoldLeft(LAMBDA e, w : B("-", e, X(w)), X(Head(ws)), Tail(ws))
Letters == <<"p", "q", "r", "s", "t", "u">>
Sub(n) == Fn("sub", [i \in 1 .. n |-> P(Letters[i])], <<Ret(Sum(SubSeq(Letters, 1, n)))>>)

-----------------------------------------------------------------------------
\* Expressions over two variables: every operator, both ways of nesting, and
\* numbers that overflow, divide inexactly and divide by zero.
Nested(o, q) == {B(o, B(q, X("a"), X("b")), N(3)), B(o, X("a"), B(q, X("b"), N(3)))}
Expressions ==
    UNION {Nested(o, q) : o \in {"-", "/", "<", "="}, q \in {"+", "-", "*", "/", "=", "G"}}
    \cup {B(o, Neg(X("a")), X("b")) : o \in {"+", "!", ">", "L"}}
    \cup {B(o, B("/", X("b"), X("a")), B(q, X("a"), B("*", X("b"), X("b")))) :
             o \in {"-", "/"}, q \in {"-", "/"}}
Arithmetics ==
    {Just(<<Let("a", N(c[1])), Let("b", c[2]), Ret(e)>>) :
        c \in {<<500, N(6)>>, <<7, Neg(N(2))>>}, e \in Expressions}
    \cup {Just(<<Let("a", N(3)), Ret(B("/", N(1), B("-", X("a"), N(3))))>>),
          Just(<<Ret(B("/", B("-", Neg(N(511)), N(1)), Neg(N(1))))>>)}

\* Chains of values that stay alive: what one operation computes, the next two
\* read.
Chains ==
    {Just(<<Let("a", N(17)), Let("b", B(o[1], X("a"), N(2))), Let("c", B(o[2], X("b"), X("a"))),
            Ret(B(o[3], B("-", X("c"), X("b")), X("a")))>>) :
        o \in [1 .. 3 -> {"-", "*", "/", "<"}]}
    \cup {One(Functions(<<Sub(2), Main(<<Let("a", N(17)), Let("b", B(o[1], X("a"), N(2))),
            Let("c", CallF("sub", <<X("b"), B(o[2], X("b"), X("a"))>>)),
            Ret(B("-", X("c"), B("-", X("b"), X("a"))))>>)>>)) : o \in [1 .. 2 -> {"-", "/"}]}

\* More values than registers, in and out of a loop; the loop updates what it
\* reads, so that textual ranges reach over it.
SixLets == <<Let("a", N(1)), Let("b", N(2)), Let("c", N(3)), Let("d", N(4)),
             Let("e", N(5)), Let("f", N(6))>>
Six == <<"a", "b", "c", "d", "e", "f">>
CountTo(n, body) ==
    <<Let("i", N(0)), WhileStmt(B("<", X("i"), N(n)), Append(body, Assign("i", B("+", X("i"), N(1)))))>>
Pressure ==
    {Just(SixLets \o <<Ret(Sum(Six))>>),
     Just(SixLets \o CountTo(2, <<Assign("a", B("+", X("a"), X("f")))>>) \o <<Ret(Sum(Six))>>),
     Just(SixLets \o <<Let("q", B("/", X("f"), X("b"))), Ret(B("*", X("q"), Sum(Six)))>>),
     Just(SixLets \o <<Let("q", AsmExpr(<<"seven">>)), Ret(B("-", X("q"), Sum(Six)))>>)}

\* The loop's test reads n, which nothing after it in the text mentions.
LoopAroundAsm ==
    Just(<<Let("n", N(2)), Let("s", N(0)), Let("i", N(0)),
           WhileStmt(B("<", X("i"), X("n")),
                     <<Assign("s", B("+", X("s"), AsmExpr(<<"seven">>))),
                       Assign("i", B("+", X("i"), N(1)))>>), Ret(X("s"))>>)
\* Branches and loops.
Control ==
    {Just(<<Let("a", N(n)), IfStmt(B(o, X("a"), N(2)), <<Assign("a", N(9))>>, e), Ret(X("a"))>>) :
        n \in {1, 2}, o \in {"<", "="}, e \in {<<>>, <<Assign("a", N(8))>>}}
    \cup {Just(<<Let("a", N(0))>> \o CountTo(3, <<Assign("a", B("+", X("a"), X("i")))>>)
               \o <<Ret(X("a"))>>),
          Just(<<Let("a", N(0))>> \o CountTo(2, <<IfStmt(B("=", X("i"), N(1)),
                 <<Assign("a", B("-", X("a"), N(5)))>>, <<Assign("a", B("+", X("a"), N(1)))>>)>>)
               \o <<Ret(X("a"))>>),
          Just(<<Let("a", N(0)), IfStmt(X("a"), <<Ret(N(1))>>, <<Ret(N(2))>>)>>),
          LoopAroundAsm}
    \cup {Just(<<Let("a", N(1)), Let("b", N(2)), Let("c", N(3))>>
               \o CountTo(2, <<Assign(t[1], B(o, X(t[2]), X(t[3])))>>)
               \o <<Ret(Sum(<<"a", "b", "c">>))>>) :
            t \in {"a", "b"} \X {"a", "b", "c"} \X {"b", "c", "i"}, o \in {"-", "/"}}

\* Calls: one to six arguments, values live across them, recursion.
Calls ==
    {One(Functions(<<Sub(n), Main(<<Let("a", N(40)),
           Let("b", CallF("sub", [i \in 1 .. n |-> IF i = 2 THEN X("a") ELSE N(i)])),
           Ret(B("-", X("a"), X("b")))>>)>>)) : n \in {1, 2, 4, 6}}
    \cup {One(Functions(<<Main(<<Ret(CallF("fact", <<N(4)>>))>>),
            Fn("fact", <<P("n")>>, <<IfStmt(B("L", X("n"), N(1)), <<Ret(N(1))>>, <<>>),
               Ret(B("*", X("n"), CallF("fact", <<B("-", X("n"), N(1))>>)))>>)>>)),
          One(Functions(<<Sub(2), Main(SixLets \o <<Ret(B("-", CallF("sub",
               <<CallF("sub", <<X("b"), X("c")>>), X("f")>>), Sum(Six)))>>)>>))}

\* Pointers, arrays, structs and enums.
Pair == StructDecl(<<"Pair">>, <<P("x"), P("y")>>)
Light == EnumDecl(<<"Light">>, <<<<"red">>, <<"green">>>>)
Memory ==
    {Just(<<ArrayDeclStmt(<<"a">>, I32, 2), IndexStoreStmt(<<"a">>, N(0), N(5)),
            IndexStoreStmt(<<"a">>, B("-", N(i), N(1)), N(8)),
            Ret(B("-", At1("a", N(1)), At1("a", N(0))))>>) : i \in 0 .. 3}
    \cup {Just(<<Let("x", N(4)), PtrTo("p", "x"), StoreStmt(X("p"), B("+", DerefExpr(X("p")), N(3))),
                 Ret(B("*", X("x"), N(2)))>>),
          One(Functions(<<Fn("set", <<PP("p"), P("v")>>, <<StoreStmt(X("p"), X("v")), Ret(DerefExpr(X("p")))>>),
               Main(<<Let("x", N(4)), Let("y", N(6)), Let("r", CallF("set", <<AddressOfExpr(<<"x">>), X("y")>>)),
                      Ret(B("-", B("*", X("x"), N(10)), X("r")))>>)>>)),
          One(Program(<<>>, <<Pair>>, <<Light>>, <<Main(<<StructVarDeclStmt(<<"s">>, <<"Pair">>),
               FieldStoreStmt(<<"s">>, <<"y">>, FieldAccessExpr(<<"Light">>, <<"green">>)),
               FieldStoreStmt(<<"s">>, <<"x">>, N(6)),
               Ret(B("-", FieldAccessExpr(<<"s">>, <<"x">>), FieldAccessExpr(<<"s">>, <<"y">>)))>>)>>))}

-----------------------------------------------------------------------------
\* Texts: what the printer never writes but means the same, and what no tree
\* prints as.
Text(t, p) == <<[name |-> <<"main">>, text |-> t, ast |-> p]>>
MainText(b) == <<"fn", " ", "main", "(", ")", "-", ">", "i32", "{">> \o b \o <<"}">>
Returns(t) == MainText(<<"return", " ">> \o t \o <<";">>)
GoodTexts ==
    {Text(<<"/", "/", "let", "@", "\n">> \o Returns(<<"(", "4", "\n", ")", "-", "-", " ", "1">>),
          Functions(<<Main(<<Ret(B("-", N(4), Neg(N(1))))>>)>>)),
     Text(Returns(<<"4", " ", "/", "2", "/", "/", "*", "\n">>),
          Functions(<<Main(<<Ret(B("/", N(4), N(2)))>>)>>)),
     Text(Returns(<<"asm", "(", "\"", "seven", "#", "\\", "\"", "\"", ")">>),
          Functions(<<Main(<<Ret(AsmExpr(<<"seven", "#", "\"">>))>>)>>))}
BadTexts ==
    {Text(t, NoTree) :
        t \in {Returns(<<"5", "1", "2">>), Returns(<<"4", "+">>), Returns(<<"@">>),
               Returns(<<"a", "!">>), Returns(<<"(", "4">>), Returns(<<"asm", "(", "\"", "x">>),
               Returns(<<"a", ".", "b", ".", "c", "[", "0", "]">>), Returns(<<"&", "4">>),
               MainText(<<"return", " ", "4">>), MainText(<<"4", ";">>),
               MainText(<<"let", " ", "a", "=", "4", ";">>),
               MainText(<<"let", " ", "a", ":", "i32", "[", "x", "]", ";">>),
               MainText(<<"if", " ", "a", "{", "}">>),
               MainText(<<"if", "(", "a", ")", "{", "}", "else", " ", "return", " ", "1", ";">>),
               Append(MainText(<<>>), "}"), <<"fn", " ", "main", "(", "a", ")">>,
               <<"import", " ", "a", ".", "b", ";">>, <<"enum", " ", "E", "{", "a", ":", "i32", "}">>}}

\* Programs the type checker has to refuse; compiled, each would go wrong.
Ill == Let("x", N(1))
IllBodies ==
    {<<Ret(X("x"))>>, <<Ill, Ret(CallF("g", <<>>))>>, <<Ill, Ret(CallF("f", <<>>))>>,
     <<Ill, Ret(CallF("f", <<AddressOfExpr(<<"x">>)>>))>>, <<Ill>>,
     <<Ill, IfStmt(X("x"), <<Ret(N(1))>>, <<>>)>>, <<Ill, WhileStmt(N(1), <<Ret(N(1))>>)>>,
     <<Ill, Ret(DerefExpr(X("x")))>>, <<Ill, StoreStmt(X("x"), N(2)), Ret(N(0))>>,
     <<Ill, Ret(B("+", X("x"), AddressOfExpr(<<"x">>)))>>, <<Ill, Ret(AddressOfExpr(<<"x">>))>>,
     <<Ill, Ret(AddressOfExpr(<<"y">>))>>, <<Ret(At1("a", N(0)))>>, <<Assign("y", N(1)), Ret(N(0))>>,
     <<ArrayDeclStmt(<<"a">>, I32, 0), Ret(N(0))>>, <<ArrayDeclStmt(<<"a">>, Ptr, 2), Ret(N(0))>>,
     <<ArrayDeclStmt(<<"a">>, I32, 2), Ret(X("a"))>>, <<IndexStoreStmt(<<"a">>, N(0), N(1)), Ret(N(0))>>,
     <<StructVarDeclStmt(<<"s">>, <<"None">>), Ret(N(0))>>,
     <<StructVarDeclStmt(<<"s">>, <<"Pair">>), Ret(FieldAccessExpr(<<"s">>, <<"z">>))>>,
     <<Ret(FieldAccessExpr(<<"s">>, <<"x">>))>>, <<Ret(FieldAccessExpr(<<"Light">>, <<"blue">>))>>,
     <<FieldStoreStmt(<<"Light">>, <<"red">>, N(1)), Ret(N(0))>>,
     <<Ill, LetStmt(<<"p">>, ConstPtr, AddressOfExpr(<<"x">>)), StoreStmt(X("p"), N(2)), Ret(N(0))>>,
     <<LetStmt(<<"p">>, Ptr, N(4)), Ret(N(0))>>,
     <<IfStmt(N(1), <<Let("y", N(1))>>, <<Ret(X("z"))>>), Ret(N(0))>>}
F1 == Fn("f", <<P("v")>>, <<Ret(X("v"))>>)
IllTyped ==
    {One(Program(<<>>, <<Pair>>, <<Light>>, <<F1, Main(b)>>)) : b \in IllBodies}
    \cup {One(p) : p \in {Functions(<<F1>>), Functions(<<F1, F1, Main(<<Ret(N(1))>>)>>),
            Functions(<<Main(<<Ret(N(1))>>), Function(<<"h">>, <<>>, <<"Pair">>, <<Ret(N(1))>>)>>),
            Program(<<>>, <<Pair, Pair>>, <<>>, <<Main(<<Ret(N(1))>>)>>),
            Program(<<>>, <<StructDecl(<<"Light">>, <<P("x"), P("x")>>)>>, <<>>, <<Main(<<Ret(N(1))>>)>>),
            Program(<<>>, <<StructDecl(<<"Light">>, <<P("x")>>)>>, <<Light>>, <<Main(<<Ret(N(1))>>)>>),
            Program(<<>>, <<>>, <<EnumDecl(<<"E">>, <<<<"a">>, <<"a">>>>)>>, <<Main(<<Ret(N(1))>>)>>),
            Program(<<<<"m">>>>, <<>>, <<>>, <<Main(<<Ret(N(1))>>)>>)}}

-----------------------------------------------------------------------------
\* Every import graph over three modules, each with a function f that adds up
\* those of its imports.
ModuleName == <<"main", "m", "n">>
ModuleFile(i, imports) ==
    LET f(w) == CallExpr(Qualified(<<w>>, <<"f">>), <<>>)
        total == FoldLeft(LAMBDA e, w : B("+", e, f(w)), N(10 ^ (i - 1)), imports)
        names == [j \in DOMAIN imports |-> <<imports[j]>>]
        main == IF i = 1 THEN <<Main(<<Ret(CallF("f", <<>>))>>)>> ELSE <<>>
    IN  File(ModuleName[i], Program(names, <<>>, <<>>, Append(main, Fn("f", <<>>, <<Ret(total)>>))))
Others(i) == {s \in {<<>>} \cup [1 .. 1 -> ToSet(ModuleName)] \cup [1 .. 2 -> ToSet(ModuleName)] :
                 ModuleName[i] \notin ToSet(s) /\ (Len(s) = 2 => s[1] # s[2] \/ i = 1)}
ImportGraphs == {<<ModuleFile(1, a), ModuleFile(2, b), ModuleFile(3, c)>> :
                    a \in Others(1), b \in Others(2), c \in Others(3)}

\* Types of another module, names that only look alike, and imports that fail.
Library == File("m", Program(<<>>, <<Pair>>, <<Light>>,
    <<Fn("g", <<P("v")>>, <<Ret(B("+", X("v"), CallF("f", <<>>)))>>), Fn("f", <<>>, <<Ret(N(5))>>)>>))
User(is, b) == <<File("main", Program(is, <<>>, <<>>, <<Main(b), Fn("f", <<>>, <<Ret(N(9))>>)>>)), Library>>
InM(w) == <<"m", ".", w>>
Modules ==
    {User(<<<<"m">>>>, <<StructVarDeclStmt(<<"s">>, InM("Pair")),
         FieldStoreStmt(<<"s">>, <<"y">>, FieldAccessExpr(InM("Light"), <<"green">>)),
         Ret(B("+", CallExpr(InM("g"), <<CallF("f", <<>>)>>), FieldAccessExpr(<<"s">>, <<"y">>)))>>),
     User(<<>>, <<Ret(CallExpr(InM("f"), <<>>))>>),
     User(<<<<"m">>>>, <<Ret(CallF("g", <<N(1)>>))>>),
     User(<<<<"m">>>>, <<Ret(CallExpr(InM("h"), <<>>))>>),
     User(<<<<"main">>>>, <<Ret(N(1))>>), User(<<<<"x">>>>, <<Ret(N(1))>>),
     <<Library, Library>>, <<Library>>,
     <<File("m", Functions(<<Main(<<Ret(N(1))>>)>>)), Library>>,
     <<Library, File("main", Functions(<<Main(<<Ret(N(1))>>)>>))>>,
     <<File("main", Program(<<<<"m">>>>, <<>>, <<>>, <<Main(<<Ret(N(1))>>),
            Function(<<"m", "__", "f">>, <<>>, I32, <<Ret(N(2))>>)>>)), Library>>}

\* Two functions with a branch each: their labels have the same names.
Shared ==
    {One(Functions(<<Fn("f", <<P("v")>>, b), Main(<<Let("v", N(1))>> \o b)>>)) :
        b \in {<<IfStmt(X("v"), <<Ret(N(1))>>, <<Ret(N(2))>>)>>,
               <<ArrayDeclStmt(<<"a">>, I32, 1), Ret(At1("a", N(0)))>>}}

MCInputs == Arithmetics \cup Chains \cup Pressure \cup Control \cup Calls \cup Memory \cup GoodTexts
            \cup BadTexts \cup IllTyped \cup ImportGraphs \cup Modules \cup Shared
MCPool == <<"eax", "ecx", "edx", "esi">>
=============================================================================

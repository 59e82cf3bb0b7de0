------------------------------ MODULE OGSyntax ------------------------------
(***************************************************************************)
(* The front end of the OGLang compiler: the tree (ast/ast.hpp), the lexer *)
(* (lexer/lexer.cpp) and the recursive-descent parser (parser/parser.cpp). *)
(*                                                                         *)
(* A source text is a sequence of atoms: one atom per punctuation mark,    *)
(* digit or blank, and one per run of letters, whose spelling no step of   *)
(* the compiler looks into.  A name is a sequence of atoms, so that the    *)
(* qualified name module.symbol is a concatenation, as in the code.        *)
(***************************************************************************)
EXTENDS Naturals, Sequences, SequencesExt

CONSTANT MaxLiteral     \* the largest int: std::stoi throws above it

ASSUME LiteralAssumption == MaxLiteral \in Nat

-----------------------------------------------------------------------------
(* ast/ast.hpp: one constructor per node type. *)
IntegerExpr(v) == [k |-> "int", value |-> v]
VariableExpr(n) == [k |-> "var", name |-> n]
BinaryExpr(o, l, r) == [k |-> "bin", op |-> o, left |-> l, right |-> r]
UnaryExpr(e) == [k |-> "neg", operand |-> e]
AddressOfExpr(n) == [k |-> "addr", name |-> n]
DerefExpr(e) == [k |-> "deref", pointer |-> e]
IndexExpr(n, e) == [k |-> "index", name |-> n, index |-> e]
FieldAccessExpr(n, f) == [k |-> "field", name |-> n, field |-> f]
AsmExpr(t) == [k |-> "asm", template |-> t]
CallExpr(n, as) == [k |-> "call", callee |-> n, args |-> as]

LetStmt(n, t, e) == [k |-> "let", name |-> n, type |-> t, value |-> e]
ReturnStmt(e) == [k |-> "return", value |-> e]
AssignStmt(n, e) == [k |-> "assign", name |-> n, value |-> e]
StoreStmt(p, e) == [k |-> "store", pointer |-> p, value |-> e]
ArrayDeclStmt(n, t, s) == [k |-> "array", name |-> n, type |-> t, size |-> s]
IndexStoreStmt(n, i, e) == [k |-> "indexstore", name |-> n, index |-> i, value |-> e]
StructVarDeclStmt(n, t) == [k |-> "structvar", name |-> n, type |-> t]
FieldStoreStmt(n, f, e) == [k |-> "fieldstore", name |-> n, field |-> f, value |-> e]
WhileStmt(c, b) == [k |-> "while", cond |-> c, body |-> b]
IfStmt(c, t, e) == [k |-> "if", cond |-> c, then |-> t, else |-> e]

Param(n, t) == [name |-> n, type |-> t]
Function(n, ps, t, b) == [name |-> n, params |-> ps, ret |-> t, body |-> b]
StructDecl(n, fs) == [name |-> n, fields |-> fs]
EnumDecl(n, vs) == [name |-> n, variants |-> vs]
Program(is, ss, es, fs) ==
    [imports |-> is, structs |-> ss, enums |-> es, functions |-> fs]

Qualified(m, n) == m \o <<".">> \o n

-----------------------------------------------------------------------------
(* lexer/lexer.cpp *)
Blank == {" ", "\n"}
Digits == {"0", "1", "2", "3", "4", "5", "6", "7", "8", "9"}
SinglePunct == {"(", ")", "{", "}", "[", "]", ":", ";", ",", ".", "+", "&", "*", "/"}
Punct == SinglePunct \cup {"-", "=", "!", ">", "<", "\"", "\\", "@"}
Keywords == {"fn", "return", "let", "struct", "enum", "import", "asm", "if",
             "else", "while", "i32", "ptr", "constptr"}

Token(kind, text) == [k |-> kind, text |-> text]
LexError == <<Token("error", <<>>)>>

At(s, p) == IF p > Len(s) THEN "EOF" ELSE s[p]

\* The first position from p on that is the end of s or holds an atom of Stop.
UpTo(s, p, Stop) == CHOOSE q \in p .. Len(s) + 1 :
    /\ q = Len(s) + 1 \/ s[q] \in Stop
    /\ \A i \in p .. q - 1 : s[i] \notin Stop

\* The end of the run of digits that starts at p.
DigitsEnd(s, p) == CHOOSE q \in p .. Len(s) + 1 :
    /\ q = Len(s) + 1 \/ s[q] \notin Digits
    /\ \A i \in p .. q - 1 : s[i] \in Digits

WordKind(text) == IF Len(text) = 1 /\ text[1] \in Keywords THEN text[1] ELSE "id"

\* The two-character marks, by their first character.
Longer == [c \in {"-", "=", "!", ">", "<"} |->
             CASE c = "-" -> [next |-> ">", mark |-> "->"]
               [] c = "=" -> [next |-> "=", mark |-> "=="]
               [] c = "!" -> [next |-> "=", mark |-> "!="]
               [] c = ">" -> [next |-> "=", mark |-> ">="]
               [] c = "<" -> [next |-> "=", mark |-> "<="]]

\* A string literal from position p, after its opening quote: only a quote and
\* a backslash can be escaped.  end = 0 when it is unterminated.
RECURSIVE StringFrom(_, _)
StringFrom(s, p) ==
    LET rest(q) == StringFrom(s, q)
        escaped == At(s, p) = "\\" /\ At(s, p + 1) \in {"\"", "\\"}
    IN  IF p > Len(s) THEN [text |-> <<>>, end |-> 0]
        ELSE IF s[p] = "\"" THEN [text |-> <<>>, end |-> p + 1]
        ELSE LET c == IF escaped THEN s[p + 1] ELSE s[p]
                 r == rest(IF escaped THEN p + 2 ELSE p + 1)
             IN  [text |-> <<c>> \o r.text, end |-> r.end]

\* Lexer::tokenize from position p.
RECURSIVE Tokenize(_, _)
Tokenize(s, p) ==
    LET c == At(s, p)
        str == StringFrom(s, p + 1)
        word == UpTo(s, p, Blank \cup Punct)
        number == DigitsEnd(s, p)
        long == c \in DOMAIN Longer /\ At(s, p + 1) = Longer[c].next
        comment == c = "/" /\ At(s, p + 1) = "/"
        short == c \in SinglePunct \cup (DOMAIN Longer \ {"!"}) /\ ~long /\ ~comment
    IN  CASE c = "EOF" -> <<Token("end", <<>>)>>
          [] c \in Blank -> Tokenize(s, p + 1)
          [] comment -> Tokenize(s, UpTo(s, p, {"\n"}))
          [] c = "\"" -> IF str.end = 0 THEN LexError
                         ELSE <<Token("str", str.text)>> \o Tokenize(s, str.end)
          [] c \in Digits -> <<Token("number", SubSeq(s, p, number - 1))>>
                             \o Tokenize(s, number)
          [] c \notin Digits \cup Blank \cup Punct \cup {"EOF"} ->
                <<Token(WordKind(SubSeq(s, p, word - 1)), SubSeq(s, p, word - 1))>>
                \o Tokenize(s, word)
          [] long -> <<Token(Longer[c].mark, <<>>)>> \o Tokenize(s, p + 2)
          [] short -> <<Token(c, <<>>)>> \o Tokenize(s, p + 1)
          [] OTHER -> LexError

Tokens(s) == Tokenize(s, 1)

-----------------------------------------------------------------------------
(* parser/parser.cpp.  A parsing function takes the tokens and a position  *)
(* and returns what it built and the position after it; position 0 is a    *)
(* thrown error, which every later step hands on.                          *)

Built(e, i) == [node |-> e, i |-> i]
Thrown == Built(<<>>, 0)

\* Go on from a result.
Then(result, Go(_)) == Go(result)

Kind(t, i) == IF i = 0 THEN "thrown" ELSE t[i].k
NextKind(t, i) == IF i = 0 \/ i = Len(t) THEN Kind(t, i) ELSE t[i + 1].k

\* expect() for each kind of a sequence in turn.
RECURSIVE Expect(_, _, _)
Expect(t, i, kinds) ==
    IF kinds = <<>> THEN i
    ELSE IF Kind(t, i) = Head(kinds) THEN Expect(t, i + 1, Tail(kinds)) ELSE 0

\* An identifier, whose text is the result.
Name(t, i) == IF Kind(t, i) = "id" THEN Built(t[i].text, i + 1) ELSE Thrown

DigitValue == [d \in Digits |-> CHOOSE n \in 0 .. 9 : ToString(n) = d]
Number(t, i) ==
    LET v == FoldLeft(LAMBDA acc, d : 10 * acc + DigitValue[d], 0, t[i].text)
    IN  IF Kind(t, i) = "number" /\ v <= MaxLiteral THEN Built(v, i + 1) ELSE Thrown

\* A name, or the qualified form name.member folded into one.
DottedName(t, i) ==
    LET n == Name(t, i)
        m == Name(t, n.i + 1)
    IN  IF Kind(t, n.i) # "." THEN n
        ELSE IF m.i = 0 THEN Thrown ELSE Built(Qualified(n.node, m.node), m.i)

ParseType(t, i) ==
    IF Kind(t, i) \in {"i32", "ptr", "constptr"} THEN Built(<<t[i].k>>, i + 1)
    ELSE DottedName(t, i)

\* name : type
TypedName(t, i) ==
    LET n == Name(t, i)
        ty == ParseType(t, Expect(t, n.i, <<":">>))
    IN  Built(Param(n.node, ty.node), ty.i)

\* The comma-separated lists of parameters, fields and enum variants, up to the
\* closing token; the code has one copy of this loop for each.
RECURSIVE ListFrom(_, _, _, _)
ListFrom(t, i, typed, close) ==
    Then(IF typed THEN TypedName(t, i) ELSE Name(t, i),
         LAMBDA x : IF Kind(t, x.i) = ","
                    THEN Then(ListFrom(t, x.i + 1, typed, close),
                              LAMBDA r : Built(<<x.node>> \o r.node, r.i))
                    ELSE Built(<<x.node>>, Expect(t, x.i, <<close>>)))

CommaList(t, i, typed, open, close) ==
    IF Kind(t, Expect(t, i, <<open>>)) = close THEN Built(<<>>, i + 2)
    ELSE ListFrom(t, Expect(t, i, <<open>>), typed, close)

\* parseEquality, parseComparison, parseAdditive and parseMultiplicative are
\* one loop with four sets of operators; the code's letter for each of them.
Levels == <<{"==", "!="}, {">", "<", ">=", "<="}, {"+", "-"}, {"*", "/"}>>
OpChar(kind) == CASE kind = "==" -> "=" [] kind = "!=" -> "!" [] kind = ">=" -> "G"
                  [] kind = "<=" -> "L" [] OTHER -> kind

RECURSIVE ParseLevel(_, _, _), LevelLoop(_, _, _), ParseUnary(_, _), ParseArgs(_, _)

ParseExpression(t, i) == ParseLevel(t, i, 1)

ParseLevel(t, i, level) ==
    IF level = 5 THEN ParseUnary(t, i) ELSE LevelLoop(t, ParseLevel(t, i, level + 1), level)

\* Mutant: the right operand is parsed at the operator's own level.
LevelLoopRight(t, left, level) ==
    IF Kind(t, left.i) \notin Levels[level] THEN left
    ELSE LET right == ParseLevel(t, left.i + 1, level)
         IN  Built(BinaryExpr(OpChar(t[left.i].k), left.node, right.node), right.i)

LevelLoop(t, left, level) ==
    IF Kind(t, left.i) \notin Levels[level] THEN left
    ELSE LET right == ParseLevel(t, left.i + 1, level + 1)
         IN  LevelLoop(t, Built(BinaryExpr(OpChar(t[left.i].k), left.node, right.node),
                                right.i), level)

\* parseArgList after its opening parenthesis and a first look for ")".
ParseArgs(t, i) ==
    Then(ParseExpression(t, i),
         LAMBDA x : IF Kind(t, x.i) = ","
                    THEN Then(ParseArgs(t, x.i + 1), LAMBDA r : Built(<<x.node>> \o r.node, r.i))
                    ELSE Built(<<x.node>>, Expect(t, x.i, <<")">>)))

ArgList(t, i) == IF NextKind(t, i) = ")" THEN Built(<<>>, i + 2) ELSE ParseArgs(t, i + 1)

\* parsePrimary where the next token is an identifier, after the possibly
\* qualified name n.
AfterName(t, n) ==
    LET dotted == Contains(n.node, ".")
        dot == CHOOSE j \in DOMAIN n.node : n.node[j] = "."
    IN  CASE n.i = 0 -> Thrown
          [] Kind(t, n.i) = "(" ->
                Then(ArgList(t, n.i), LAMBDA r : Built(CallExpr(n.node, r.node), r.i))
          [] Kind(t, n.i) = "[" /\ ~dotted ->
                Then(ParseExpression(t, n.i + 1),
                     LAMBDA r : Built(IndexExpr(n.node, r.node), Expect(t, r.i, <<"]">>)))
          [] dotted /\ Kind(t, n.i) = "." ->
                Then(Name(t, n.i + 1), LAMBDA r : Built(FieldAccessExpr(n.node, r.node), r.i))
          [] dotted /\ Kind(t, n.i) \notin {".", "("} ->
                Built(FieldAccessExpr(SubSeq(n.node, 1, dot - 1),
                                      SubSeq(n.node, dot + 1, Len(n.node))), n.i)
          [] OTHER -> Built(VariableExpr(n.node), n.i)
ParseNamed(t, i) == AfterName(t, DottedName(t, i))

ParsePrimary(t, i) ==
    LET template == Expect(t, i, <<"asm", "(">>)
    IN  CASE Kind(t, i) = "number" -> LET v == Number(t, i) IN Built(IntegerExpr(v.node), v.i)
          [] Kind(t, i) = "id" -> ParseNamed(t, i)
          [] Kind(t, i) = "(" ->
                Then(ParseExpression(t, i + 1),
                     LAMBDA r : Built(r.node, Expect(t, r.i, <<")">>)))
          [] Kind(t, i) = "asm" /\ Kind(t, template) = "str" ->
                Built(AsmExpr(t[template].text), Expect(t, template + 1, <<")">>))
          [] OTHER -> Thrown

ParseUnary(t, i) ==
    LET operand == ParseUnary(t, i + 1)
        n == Name(t, i + 1)
    IN  CASE Kind(t, i) = "-" -> Built(UnaryExpr(operand.node), operand.i)
          [] Kind(t, i) = "&" -> Built(AddressOfExpr(n.node), n.i)
          [] Kind(t, i) = "*" -> Built(DerefExpr(operand.node), operand.i)
          [] OTHER -> ParsePrimary(t, i)

-----------------------------------------------------------------------------
RECURSIVE ParseStatement(_, _), ParseBlock(_, _)

\* The statements up to the closing brace, which it consumes.
ParseBlock(t, i) ==
    IF Kind(t, i) \in {"}", "end", "thrown"} THEN Built(<<>>, Expect(t, i, <<"}">>))
    ELSE Then(ParseStatement(t, i),
              LAMBDA s : Then(ParseBlock(t, s.i),
                              LAMBDA r : IF r.i = 0 THEN Thrown
                                         ELSE Built(<<s.node>> \o r.node, r.i)))

\* = expression ;
Initialiser(t, i) ==
    Then(ParseExpression(t, Expect(t, i, <<"=">>)),
         LAMBDA e : Built(e.node, Expect(t, e.i, <<";">>)))

ParseLet(t, i) ==
    LET n == TypedName(t, i + 1)
        size == Number(t, n.i + 1)
    IN  CASE Kind(t, n.i) = "[" ->
                Built(ArrayDeclStmt(n.node.name, n.node.type, size.node),
                      Expect(t, size.i, <<"]", ";">>))
          [] Kind(t, n.i) = ";" ->
                Built(StructVarDeclStmt(n.node.name, n.node.type), n.i + 1)
          [] OTHER -> Then(Initialiser(t, n.i),
                           LAMBDA e : Built(LetStmt(n.node.name, n.node.type, e.node), e.i))

ParseIndexStore(t, i) ==
    Then(ParseExpression(t, i + 2),
         LAMBDA index : Then(Initialiser(t, Expect(t, index.i, <<"]">>)),
                             LAMBDA e : Built(IndexStoreStmt(t[i].text, index.node, e.node), e.i)))

ParseFieldStore(t, i) ==
    LET f == Name(t, i + 2)
    IN  Then(Initialiser(t, f.i),
             LAMBDA e : Built(FieldStoreStmt(t[i].text, f.node, e.node), e.i))

ParseStore(t, i) ==
    Then(ParseUnary(t, i + 1),
         LAMBDA p : Then(Initialiser(t, p.i), LAMBDA e : Built(StoreStmt(p.node, e.node), e.i)))

ParseAssign(t, i) ==
    Then(Initialiser(t, i + 1), LAMBDA e : Built(AssignStmt(t[i].text, e.node), e.i))

\* ( condition ) { block, shared by parseWhile and parseIf.
Guarded(t, i) ==
    Then(ParseExpression(t, Expect(t, i, <<"(">>)),
         LAMBDA c : Then(ParseBlock(t, Expect(t, c.i, <<")", "{">>)),
                         LAMBDA b : [cond |-> c.node, body |-> b.node, i |-> b.i]))

ParseWhile(t, i) ==
    Then(Guarded(t, i + 1), LAMBDA g : Built(WhileStmt(g.cond, g.body), g.i))

ParseIf(t, i) ==
    Then(Guarded(t, i + 1),
         LAMBDA g : IF Kind(t, g.i) = "else"
                    THEN Then(ParseBlock(t, Expect(t, g.i, <<"else", "{">>)),
                              LAMBDA b : Built(IfStmt(g.cond, g.body, b.node), b.i))
                    ELSE Built(IfStmt(g.cond, g.body, <<>>), g.i))

ParseReturn(t, i) ==
    Then(ParseExpression(t, i + 1),
         LAMBDA e : Built(ReturnStmt(e.node), Expect(t, e.i, <<";">>)))

ParseStatement(t, i) ==
    LET named == Kind(t, i) = "id"
        next == NextKind(t, i)
    IN  CASE Kind(t, i) = "let" -> ParseLet(t, i)
          [] Kind(t, i) = "return" -> ParseReturn(t, i)
          [] Kind(t, i) = "if" -> ParseIf(t, i)
          [] Kind(t, i) = "while" -> ParseWhile(t, i)
          [] named /\ next = "=" -> ParseAssign(t, i)
          [] named /\ next = "[" -> ParseIndexStore(t, i)
          [] named /\ next = "." -> ParseFieldStore(t, i)
          [] Kind(t, i) = "*" -> ParseStore(t, i)
          [] OTHER -> Thrown

-----------------------------------------------------------------------------
ParseFunction(t, i) ==
    LET n == Name(t, Expect(t, i, <<"fn">>))
        ps == CommaList(t, n.i, TRUE, "(", ")")
        ty == ParseType(t, Expect(t, ps.i, <<"->">>))
    IN  Then(ParseBlock(t, Expect(t, ty.i, <<"{">>)),
             LAMBDA b : Built(Function(n.node, ps.node, ty.node, b.node), b.i))

\* One top-level declaration, added to the program.
ParseDecl(t, i, p) ==
    LET n == Name(t, i + 1)
        fields == CommaList(t, n.i, TRUE, "{", "}")
        variants == CommaList(t, n.i, FALSE, "{", "}")
    IN  CASE Kind(t, i) = "import" ->
                Built([p EXCEPT !.imports = Append(@, n.node)], Expect(t, n.i, <<";">>))
          [] Kind(t, i) = "struct" ->
                Built([p EXCEPT !.structs = Append(@, StructDecl(n.node, fields.node))], fields.i)
          [] Kind(t, i) = "enum" ->
                Built([p EXCEPT !.enums = Append(@, EnumDecl(n.node, variants.node))], variants.i)
          [] OTHER -> Then(ParseFunction(t, i),
                           LAMBDA f : Built([p EXCEPT !.functions = Append(@, f.node)], f.i))

RECURSIVE ProgramFrom(_, _, _)
ProgramFrom(t, i, p) ==
    CASE Kind(t, i) = "end" -> Built(p, i)
      [] i = 0 -> Thrown
      [] OTHER -> Then(ParseDecl(t, i, p), LAMBDA d : ProgramFrom(t, d.i, d.node))

\* Lexer and parser together: the program of a source text, or Thrown.
ParseProgram(s) == ProgramFrom(Tokens(s), 1, Program(<<>>, <<>>, <<>>, <<>>))
=============================================================================

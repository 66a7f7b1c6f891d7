------------------------------- MODULE Parser -------------------------------
(***************************************************************************)
(* The recursive descent parser.  A token has a kind (its spelling, "id",  *)
(* "num" or "end"), the text and the value of the node it may become.      *)
(* What a parse function returns is the node, the position behind it, and  *)
(* whether no error was thrown on the way.                                 *)
(***************************************************************************)
EXTENDS SysyProgram

Parsed(n, i) == [n |-> n, i |-> i, ok |-> TRUE]
Nothing == Node("Empty", "", <<>>)
At(i) == Parsed(Nothing, i)
ParseError(r) == [r EXCEPT !.ok = FALSE]

Kind(ts, i) == ts[IF i > Len(ts) THEN Len(ts) ELSE i].kind
IsAt(ts, r, kinds) == r.ok /\ Kind(ts, r.i) \in kinds
Expect(ts, r, kind) == IF IsAt(ts, r, {kind}) THEN [r EXCEPT !.i = @ + 1] ELSE ParseError(r)
Named(ts, i) == Expect(ts, Parsed(Var(ts[IF i > Len(ts) THEN Len(ts) ELSE i].text), i), "id")

IsBType(kind) == kind \in {"int", "float"}
IsFuncType(kind) == IsBType(kind) \/ kind = "void"
StartsExpr == {"id", "num", "(", "+", "-", "!"}

\* What Next parses behind r; an error ends the parse.
Then(r, Next(_)) == IF r.ok THEN Next(r) ELSE r

\* The node of r made into another one.
Made(r, Make(_)) == [r EXCEPT !.n = Make(@)]

\* What Each parses, again as long as Goes(r), the nodes collected.
Many(start, nodes, Goes(_), Each(_)) ==
  LET RECURSIVE More(_, _)
      Taken(one, ns) == More(one, Append(ns, one.n))
      More(r, ns) == IF Goes(r) THEN Taken(Each(r), ns) ELSE [r EXCEPT !.n = ns]
  IN More(start, nodes)

\* One and, behind every comma, one more.
Others(ts, first, Parse(_, _)) ==
  Many(first, <<first.n>>, LAMBDA r : IsAt(ts, r, {","}), LAMBDA r : Parse(ts, r.i + 1))
Commas(ts, i, Parse(_, _)) == Others(ts, Parse(ts, i), Parse)

\* Commas, or nothing before the closing kind.
Listed(ts, i, close, Parse(_, _)) ==
  IF Kind(ts, i) = close THEN Parsed(<<>>, i) ELSE Commas(ts, i, Parse)

-----------------------------------------------------------------------------
\* Mutation: comparisons do not bind tighter than equalities.
LevelsFlat == <<{"||"}, {"&&"}, {"==", "!=", "<", ">", "<=", ">="}, {}, {"+", "-"}, {"*", "/", "%"}>>

\* The operators, the loosest first.
Levels == <<{"||"}, {"&&"}, {"==", "!="}, {"<", ">", "<=", ">="}, {"+", "-"}, {"*", "/", "%"}>>

RECURSIVE ParseLevel(_, _, _), ParseBinaryRhs(_, _, _), ParseUnaryExp(_, _)

ParseExp(ts, i) == ParseLevel(ts, 1, i)

ParseBinaryRhs(ts, k, l) ==
  IF IsAt(ts, l, Levels[k])
    THEN ParseBinaryRhs(ts, k, Made(ParseLevel(ts, k + 1, l.i + 1),
                                    LAMBDA r : Binary(Kind(ts, l.i), l.n, r)))
  ELSE l

ParseLevel(ts, k, i) ==
  IF k > Len(Levels) THEN ParseUnaryExp(ts, i) ELSE ParseBinaryRhs(ts, k, ParseLevel(ts, k + 1, i))

Bracketed(ts, r) == Expect(ts, ParseExp(ts, r.i + 1), "]")

\* What stands in brackets behind r, as long as there are brackets.
Dims(ts, r, nodes, Make(_)) ==
  Many(r, nodes, LAMBDA d : IsAt(ts, d, {"["}), LAMBDA d : Made(Bracketed(ts, d), Make))

ParseLVal(ts, i) ==
  Then(Named(ts, i), LAMBDA x :
    Made(Dims(ts, x, <<>>, LAMBDA e : e), LAMBDA es : Node("LVal", x.n.text, es)))

ParseCall(ts, i) ==
  Made(Expect(ts, Listed(ts, i + 2, ")", ParseExp), ")"), LAMBDA args : CallExpr(ts[i].text, args))

ParsePrimaryExp(ts, i) ==
  CASE Kind(ts, i) = "(" -> Expect(ts, ParseExp(ts, i + 1), ")")
    [] Kind(ts, i) = "id" -> ParseLVal(ts, i)
    [] Kind(ts, i) = "num" -> Parsed([Node("Number", ts[i].text, <<>>) EXCEPT !.val = ts[i].val], i + 1)
    [] OTHER -> ParseError(At(i))

ParseUnaryExp(ts, i) ==
  CASE Kind(ts, i) = "id" /\ Kind(ts, i + 1) = "(" -> ParseCall(ts, i)
    [] Kind(ts, i) \in {"+", "-", "!"} -> Made(ParseUnaryExp(ts, i + 1), LAMBDA e : Unary(ts[i].kind, e))
    [] OTHER -> ParsePrimaryExp(ts, i)

-----------------------------------------------------------------------------
RECURSIVE ParseInitVal(_, _)
ParseInitVal(ts, i) ==
  IF Kind(ts, i) # "{" THEN ParseExp(ts, i)
  ELSE Made(Expect(ts, Listed(ts, i + 1, "}", ParseInitVal), "}"), InitList)

\* A constant must be initialized, a variable may be.
ParseDef(ts, i, kind) ==
  Then(Named(ts, i), LAMBDA x :
    Then(Dims(ts, x, <<>>, ArrayDim), LAMBDA dims :
      CASE IsAt(ts, dims, {"="}) -> Made(ParseInitVal(ts, dims.i + 1),
                                         LAMBDA init : Node(kind, x.n.text, Append(dims.n, init)))
        [] kind = "VarDef" -> Made(dims, LAMBDA ds : Node(kind, x.n.text, ds))
        [] OTHER -> ParseError(dims)))

ParseConstDef(ts, i) == ParseDef(ts, i, "ConstDef")
ParseVarDef(ts, i) == ParseDef(ts, i, "VarDef")

ParseDecl(ts, i) ==
  LET t == IF Kind(ts, i) = "const" THEN i + 1 ELSE i
      Decl(kind, defs) == Expect(ts, Made(defs, LAMBDA ds : Node(kind, Kind(ts, t), ds)), ";")
  IN CASE ~IsBType(Kind(ts, t)) -> ParseError(At(i))
       [] Kind(ts, i) = "const" -> Decl("ConstDecl", Commas(ts, t + 1, ParseConstDef))
       [] OTHER -> Decl("VarDecl", Commas(ts, t + 1, ParseVarDef))

-----------------------------------------------------------------------------
RECURSIVE ParseStmt(_, _)

ParseItem(ts, i) == IF Kind(ts, i) \in {"const", "int", "float"} THEN ParseDecl(ts, i) ELSE ParseStmt(ts, i)

ParseBlock(ts, i) ==
  Made(Expect(ts, Many(Expect(ts, At(i), "{"), <<>>, LAMBDA r : r.ok /\ Kind(ts, r.i) \notin {"}", "end"},
                       LAMBDA r : ParseItem(ts, r.i)), "}"), Block)

\* if and while: the condition in parentheses, then a statement.
ParseGuarded(ts, i) ==
  Then(Expect(ts, At(i + 1), "("), LAMBDA open :
    Then(Expect(ts, ParseExp(ts, open.i), ")"), LAMBDA c :
      Made(ParseStmt(ts, c.i), LAMBDA s : <<c.n, s>>)))

ParseWhile(ts, i) == Made(ParseGuarded(ts, i), LAMBDA ns : Node("WhileStmt", "", ns))

ParseIf(ts, i) ==
  Then(ParseGuarded(ts, i), LAMBDA head :
    IF IsAt(ts, head, {"else"})
      THEN Made(ParseStmt(ts, head.i + 1), LAMBDA s : Node("IfStmt", "", Append(head.n, s)))
    ELSE Made(head, LAMBDA ns : Node("IfStmt", "", ns)))

ParseReturn(ts, i) ==
  IF Kind(ts, i + 1) = ";" THEN Parsed(ReturnStmt(<<>>), i + 2)
  ELSE Expect(ts, Made(ParseExp(ts, i + 1), LAMBDA e : ReturnStmt(<<e>>)), ";")

ParseAssign(ts, target) ==
  Expect(ts, Made(ParseExp(ts, target.i + 1), LAMBDA e : Assign(target.n, e)), ";")

ParseExprStmt(ts, i) == Expect(ts, Made(ParseExp(ts, i), LAMBDA e : ExprStmt(<<e>>)), ";")

\* An lvalue is tried first; without a = behind it, it is read again as part of
\* an expression, unless reading it already failed.
ParseSimple(ts, i) ==
  CASE Kind(ts, i) = "id" ->
         Then(ParseLVal(ts, i), LAMBDA target :
           IF IsAt(ts, target, {"="}) THEN ParseAssign(ts, target) ELSE ParseExprStmt(ts, i))
    [] Kind(ts, i) \in StartsExpr \ {"id"} -> ParseExprStmt(ts, i)
    [] OTHER -> ParseError(At(i))

ParseStmt(ts, i) ==
  LET k == Kind(ts, i)
  IN CASE k = "{" -> ParseBlock(ts, i)
       [] k = "if" -> ParseIf(ts, i)
       [] k = "while" -> ParseWhile(ts, i)
       [] k = "break" -> Expect(ts, Parsed(BreakStmt, i + 1), ";")
       [] k = "continue" -> Expect(ts, Parsed(ContinueStmt, i + 1), ";")
       [] k = "return" -> ParseReturn(ts, i)
       [] k = ";" -> Parsed(ExprStmt(<<>>), i + 1)
       [] OTHER -> ParseSimple(ts, i)

-----------------------------------------------------------------------------
ParseFuncParam(ts, i) ==
  LET Param(x, dims) == Made(dims, LAMBDA ds : FuncParam(Kind(ts, i), x.n.text, ds))
  IN IF ~IsBType(Kind(ts, i)) THEN ParseError(At(i))
     ELSE Then(Named(ts, i + 1), LAMBDA x :
            IF ~IsAt(ts, x, {"["}) THEN Param(x, Parsed(<<>>, x.i))
            ELSE Then(Expect(ts, At(x.i + 1), "]"), LAMBDA open : Param(x, Dims(ts, open, <<OpenDim>>, ArrayDim))))

IsFuncDefAhead(ts, i) ==
  IsFuncType(Kind(ts, i)) /\ Kind(ts, i + 1) = "id" /\ Kind(ts, i + 2) = "("

ParseFuncDef(ts, i) ==
  Then(Expect(ts, Listed(ts, i + 3, ")", ParseFuncParam), ")"), LAMBDA params :
    Made(ParseBlock(ts, params.i), LAMBDA body : FuncDef(Kind(ts, i), ts[i + 1].text, params.n, body)))

ParseCompUnit(ts) ==
  Made(Many(At(1), <<>>, LAMBDA r : r.ok /\ Kind(ts, r.i) # "end",
            LAMBDA r : IF IsFuncDefAhead(ts, r.i) THEN ParseFuncDef(ts, r.i) ELSE ParseDecl(ts, r.i)),
       CompUnit)

=============================================================================

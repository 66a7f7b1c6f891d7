----------------------------- MODULE MCFrontEnd -----------------------------
(***************************************************************************)
(* FrontEnd for TLC.  Every program belongs to a family built around one   *)
(* thing the front end has to get right, combined in all ways: operators   *)
(* on mixed types, short circuits with calls in them, loops left from      *)
(* inside, scopes, arrays and their braces, calls.                         *)
(***************************************************************************)
EXTENDS FrontEnd

N(i) == IF i < 0 THEN Unary("-", Number(-i)) ELSE Number(i)
Float(bits) == IF bits < 0 THEN Unary("-", FloatNumber(-bits)) ELSE FloatNumber(bits)
I == Var("i")
J == Var("j")
X == Var("x")
Y == Var("y")
G == Var("g")
A(i) == Elem("a", i)
Call(f, e) == CallExpr(f, <<e>>)
Put(e) == ExprStmt(<<Call("putint", e)>>)
PutFloat(e) == ExprStmt(<<Call("putfloat", e)>>)
Inc(v) == Assign(v, Binary("+", v, N(1)))
Less(v, n) == Binary("<", v, N(n))
DeclareInt(x, e) == Declare("int", Scalar(x, e))
IntParam(x) == FuncParam("int", x, <<>>)

Main(ss) == FuncDef("int", "main", <<>>, Block(ss))
OnlyMain(ss) == CompUnit(<<Main(ss)>>)
WithGlobal(ss) == CompUnit(<<DeclareInt("g", N(3)), Main(ss)>>)

-----------------------------------------------------------------------------
\* Operators: all of them, on ints and floats, variables and constants, into an
\* int and into a float.
Operands == {Var("m"), Var("f"), N(3), Float(-3), Var("K"), Var("z")}
BinaryOps == Arithmetic \cup Relations \cup {"%", "&&", "||"}

OperatorProgram(e, type) ==
  OnlyMain(<<DeclareInt("m", N(-7)), Declare("float", Scalar("f", Float(5))),
             DeclareConst("int", ConstDef("K", Binary("-", N(5), N(3)))),
             DeclareConst("float", ConstDef("z", Binary("*", Float(3), N(2)))),
             Declare(type, Scalar("r", e)),
             IF type = "int" THEN Put(Var("r")) ELSE PutFloat(Var("r")),
             IfElseStmt(e, Put(N(1)), Put(N(2))),
             ReturnStmt(<<e>>)>>)

OperatorPrograms ==
  {OperatorProgram(Binary(op, l, r), t) : op \in BinaryOps, l \in Operands, r \in Operands, t \in {"int", "float"}}
    \cup {OperatorProgram(Unary(u, Binary(op, l, r)), "int") :
            u \in {"-", "!"}, op \in {"+", "<", "&&"}, l \in Operands, r \in {Var("m"), Var("f")}}

\* What the compiler computes itself: the value of a global.
ConstantPrograms ==
  {CompUnit(<<DeclareConst("int", ConstDef("K", N(-7))),
              DeclareConst("float", ConstDef("z", Float(5))),
              Declare(t, Scalar("g", Binary(op, l, r))),
              Main(<<ReturnStmt(<<G>>)>>)>>) :
     op \in BinaryOps, l \in {Var("K"), Var("z")},
     r \in {N(2), Float(-3), Unary("!", Var("z")), Unary("-", Var("K"))},
     t \in {"int", "float"}}

\* Who is asked, and who is not: atoms say that they were evaluated.
Say == FuncDef("int", "say", <<IntParam("x")>>, Block(<<Put(X), Inc(G), ReturnStmt(<<Binary("-", X, N(1))>>)>>))
Atoms == {Call("say", N(1)), Call("say", N(2)), Binary("<", G, Call("say", N(4)))}
Conditions1 ==
  {Binary(op, l, r) : op \in {"&&", "||", "=="}, l \in Atoms, r \in Atoms} \cup {Unary("!", l) : l \in Atoms}
Conditions ==
  Conditions1 \cup {Binary(op, l, r) : op \in {"&&", "||"}, l \in Conditions1, r \in Atoms}
              \cup {Binary(op, l, r) : op \in {"&&", "||"}, l \in {Unary("!", Call("say", N(2)))}, r \in Conditions1}
              \cup {Unary("!", c) : c \in Conditions1}

ConditionProgram(c, s) == CompUnit(<<DeclareInt("g", N(3)), Say, Main(<<s, ReturnStmt(<<G>>)>>)>>)
ConditionPrograms ==
  {ConditionProgram(c, IfElseStmt(c, Put(N(8)), Put(N(9)))) : c \in Conditions}
    \cup {ConditionProgram(c, Put(Binary("+", c, c))) : c \in Conditions1}
    \cup {ConditionProgram(c, WhileStmt(Binary("&&", Less(G, 9), c), Inc(G))) : c \in Conditions1}

\* Operands whose calls change what other operands read.
Bump == FuncDef("int", "bump", <<IntParam("x")>>, Block(<<Assign(G, Binary("+", G, X)), ReturnStmt(<<G>>)>>))
Readers == {G, Call("bump", N(1)), Call("bump", Call("bump", N(2))), A(N(1)), A(Call("bump", N(-1)))}
OrderPrograms ==
  {CompUnit(<<DeclareInt("g", N(3)),
              Declare("int", Array("a", <<N(4)>>, <<InitList(<<N(4), N(5), N(6), N(7)>>)>>)), Bump,
              Main(<<Put(Binary(op, l, r)), Put(G), ReturnStmt(<<Binary("+", Binary("*", r, N(2)), l)>>)>>)>>) :
     op \in {"-", "%", "<"}, l \in Readers, r \in Readers}
    \cup
  {CompUnit(<<DeclareInt("g", N(3)),
              Declare("int", Array("a", <<N(4)>>, <<InitList(<<N(4), N(5), N(6), N(7)>>)>>)), Bump,
              Main(<<Assign(A(i), v), ReturnStmt(<<A(N(1))>>)>>)>>) :
     i \in {N(1), Call("bump", N(-1))}, v \in Readers}

-----------------------------------------------------------------------------
\* Loops left from anywhere.
Leaves == {BreakStmt, ContinueStmt, ReturnStmt(<<I>>), Put(I), Block(<<>>)}
LeafOr == {IfStmt(Binary("==", I, N(2)), s) : s \in Leaves}
           \cup {IfElseStmt(Less(I, 2), s, t) : s \in Leaves, t \in {BreakStmt, Put(N(7)), ReturnStmt(<<N(6)>>)}}
           \cup Leaves

LoopPrograms ==
  {OnlyMain(<<DeclareInt("i", N(0)),
              WhileStmt(Less(I, 4), Block(<<Inc(I), s, t>>)),
              ReturnStmt(<<Unary("-", I)>>)>>) : s \in LeafOr, t \in LeafOr}
    \cup
  {OnlyMain(<<DeclareInt("i", N(0)), DeclareInt("j", N(0)),
              WhileStmt(Less(I, 3),
                Block(<<Inc(I), Assign(J, N(0)),
                        WhileStmt(Less(J, 3), Block(<<Inc(J), Put(J), IfStmt(Binary("==", J, N(j)), s)>>)), t>>)),
              ReturnStmt(<<J>>)>>) : s \in Leaves, t \in Leaves, j \in {1, 2}}

\* One name in many scopes.
Scopes == {Assign(X, Binary("+", X, N(1))), DeclareInt("x", N(20)), DeclareInt("x", Binary("+", G, N(10))),
           DeclareConst("int", ConstDef("x", N(30))), Put(X)}
ScopePrograms ==
  {CompUnit(<<DeclareInt("g", N(1)), DeclareInt("x", N(5)),
              FuncDef("int", "f", <<IntParam("g")>>, Block(<<Inc(G), ReturnStmt(<<Binary("+", G, X)>>)>>)),
              Main(<<s, Block(<<t, Block(<<u, Put(X)>>), Put(X)>>),
                     Put(Call("f", N(2))), ReturnStmt(<<X>>)>>)>>) : s \in Scopes, t \in Scopes, u \in Scopes}

-----------------------------------------------------------------------------
\* Arrays: braces, rows, what no initializer says.
Braces ==
  LET L(es) == InitList(es)
      V == {N(1), X}
  IN {L(<<>>), L(<<N(1), N(2), N(3), N(4)>>), L(<<L(<<N(1)>>), L(<<N(2), N(3)>>)>>), L(<<N(1), N(2), L(<<N(3)>>)>>),
      L(<<L(<<N(1), N(2)>>), N(3)>>), L(<<X, L(<<>>), L(<<N(2)>>)>>), L(<<L(<<>>), Call("say", N(5)), N(0)>>),
      L(<<Float(5), X, L(<<X, N(0)>>)>>), L(<<N(1), N(2), N(3), N(4), N(5), N(6)>>)}
Dims == {<<N(3), N(2)>>, <<N(6)>>, <<N(1), N(3), N(2)>>, <<Var("K"), N(2), N(1)>>}
ArrayPrograms ==
  {CompUnit(<<DeclareInt("g", N(0)), DeclareConst("int", ConstDef("K", N(3))), Say,
              Main(<<DeclareInt("x", N(9)), Declare(type, Array("a", dims, <<init>>)),
                     IF type = "int" THEN ExprStmt(<<CallExpr("putarray", <<N(6), Var("a")>>)>>)
                     ELSE PutFloat(Node("LVal", "a", [i \in 1 .. Len(dims) |-> N(0)])),
                     ReturnStmt(<<G>>)>>)>>) : type \in {"int", "float"}, dims \in Dims, init \in Braces}
    \cup
  {CompUnit(<<DeclareConst("int", ConstDef("x", N(9))), DeclareConst("int", ConstDef("K", N(3))),
              Declare(type, Array("a", dims, <<init>>)), Declare("int", Bare("g")),
              Main(<<ReturnStmt(<<G>>)>>)>>) :
     type \in {"int", "float"}, dims \in Dims, init \in {b \in Braces : \A n \in Subnodes(b) : n.kind # "CallExpr"}}

\* Arrays handed to functions: whole ones, rows of them.
Rows == {<<>>, <<I>>, <<N(1)>>, <<N(1), I>>, <<I, N(0)>>}
Sum2 == FuncDef("int", "sum", <<FuncParam("int", "a", <<OpenDim>>), IntParam("n")>>,
          Block(<<DeclareInt("s", N(0)), DeclareInt("i", N(0)),
                  WhileStmt(Less(I, 2), Block(<<Assign(Var("s"), Binary("+", Var("s"), A(I))),
                                                Assign(A(I), Var("n")), Inc(I)>>)),
                  ReturnStmt(<<Var("s")>>)>>))
Cell2 == FuncDef("int", "cell", <<FuncParam("int", "a", <<OpenDim, ArrayDim(N(2))>>), IntParam("n")>>,
           Block(<<Assign(Elem2("a", Var("n"), N(0)), Elem2("a", N(0), Var("n"))),
                   ReturnStmt(<<Call("sum1", Elem("a", Var("n")))>>)>>))
Sum1 == FuncDef("int", "sum1", <<FuncParam("int", "b", <<OpenDim>>)>>,
          Block(<<ReturnStmt(<<Binary("+", Elem("b", N(0)), Elem("b", N(1)))>>)>>))
Matrix == Declare("int", Array("m", <<N(2), N(2)>>, <<InitList(<<N(1), N(2), N(3), N(4)>>)>>))
ParameterPrograms ==
  {CompUnit(globals \o <<Sum2, Sum1, Cell2,
              Main(locals \o <<DeclareInt("i", N(0)), Put(CallExpr(f, <<Node("LVal", "m", row), e>>)), Inc(I),
                     Put(CallExpr(f, <<Node("LVal", "m", row), e>>)),
                     ReturnStmt(<<Binary("+", Elem2("m", N(1), N(0)), Elem2("m", I, N(1)))>>)>>)>>) :
     globals \in {<<Matrix>>}, locals \in {<<>>, <<Matrix>>}, f \in {"sum", "cell"}, row \in Rows,
     e \in {N(1), Float(2)}}

\* Calls: recursion, conversion of arguments and results, the library's.
Power == FuncDef("float", "power", <<FuncParam("float", "y", <<>>), IntParam("n")>>,
           Block(<<IfStmt(Less(Var("n"), 1), ReturnStmt(<<N(1)>>)),
                   ReturnStmt(<<Binary("*", Y, CallExpr("power", <<Y, Binary("-", Var("n"), N(1))>>))>>)>>))
Touch == FuncDef("void", "touch", <<IntParam("x")>>,
           Block(<<IfStmt(Less(X, 3), Block(<<Put(X), ReturnStmt(<<>>)>>)), Assign(G, X)>>))
CallPrograms ==
  {CompUnit(<<DeclareInt("g", N(0)), Power, Touch,
              Main(<<Declare("int", Array("a", <<N(2)>>, <<>>)), DeclareInt("n", CallExpr(get, <<>>)),
                     ExprStmt(<<Call("touch", e)>>), PutFloat(CallExpr("power", <<e, CallExpr("getint", <<>>)>>)),
                     ExprStmt(<<Call("getarray", Var("a"))>>), Put(A(N(0))),
                     ReturnStmt(<<CallExpr("power", <<Var("n"), N(2)>>)>>)>>)>>) :
     get \in {"getint", "getfloat"}, e \in {Var("n"), Float(5), N(2), Call("putint", N(2)), G}}

\* What the checker is for.
Faulty == {Put(Var("u")), DeclareInt("x", N(2)), BreakStmt, IfStmt(X, ContinueStmt), Assign(Var("k"), N(1)),
           Put(A(N(0))), Put(Elem2("a", N(0), N(0))), Put(Elem("x", N(0))), Put(Var("a")), Assign(Var("a"), X),
           Assign(X, Call("v", X)), ExprStmt(<<CallExpr("v", <<>>)>>), ExprStmt(<<Call("v", Var("a"))>>),
           ExprStmt(<<Call("putarray", X)>>), Put(Binary("%", X, Float(2))), Put(Elem("a", Float(2))),
           ReturnStmt(<<>>), Put(Var("v")), Put(Call("x", X)), Put(Call("w", X)),
           Assign(Elem("a", X), X), Block(<<DeclareInt("x", N(1)), Put(X)>>), Put(Elem2("b", X, N(0))),
           WhileStmt(X, BreakStmt), ExprStmt(<<CallExpr("putarray", <<X, Var("b")>>)>>),
           DeclareConst("int", ConstDef("u", X)), Declare("int", Array("u", <<X>>, <<>>)),
           Declare("int", Array("u", <<Float(2)>>, <<>>)),
           Declare("int", Array("u", <<Elem("u", N(0))>>, <<>>)), Declare("int", Array("u", <<Var("u")>>, <<>>)),
           DeclareInt("u", InitList(<<N(1)>>)), Put(Binary("%", X, Call("v", X))), Put(Unary("-", Call("v", X))),
           Put(Binary("+", Var("a"), X)), Put(Unary("!", Var("b"))), IfStmt(Binary("&&", X, Var("a")), BreakStmt)}

\* What the checker does not look at: no value, or an array, where a number is
\* needed.  And what is well-defined, but looks wrong.
NoNumbers == {Call("v", X), Var("a"), Elem("b", N(0))}
Unseen ==
  {DeclareInt("u", e) : e \in NoNumbers} \cup {Declare("float", Scalar("u", e)) : e \in NoNumbers}
    \cup {Declare("int", Array("u", <<N(2)>>, <<InitList(<<N(1), e>>)>>)) : e \in NoNumbers}
    \cup {Declare("int", Array("u", <<N(2)>>, <<e>>)) : e \in NoNumbers \cup {N(4), X}}
    \cup {IfElseStmt(e, Put(N(1)), Put(N(2))) : e \in NoNumbers}
    \cup {WhileStmt(e, BreakStmt) : e \in NoNumbers}
    \cup {ReturnStmt(<<e>>) : e \in NoNumbers}
    \cup {Put(Binary(op, l, r)) : op \in BinaryOps \ {"%"}, l \in {Call("v", X)}, r \in {X, Float(3), Call("v", X)}}
    \cup {Put(Binary(op, N(2), Call("v", X))) : op \in BinaryOps \ {"%"}}
    \cup {ExprStmt(<<Unary(u, Call("v", X))>>) : u \in {"+", "-", "!"}}
    \cup {Assign(Var("a"), Var("a")), Block(<<Declare("int", Array("x", <<N(2)>>, <<>>)), Assign(Var("x"), Var("a"))>>),
           Put(Call("rows", Var("b"))), Put(Call("rows", Var("c")))}
LooksWrong ==
  {Block(<<DeclareInt("x", Binary("+", X, N(1))), Put(N(1))>>),
   Block(<<Declare("int", Array("k", <<Binary("+", Var("k"), N(1))>>, <<InitList(<<N(4), N(5)>>)>>)), Put(Elem("k", N(1)))>>),
   Put(Binary("+", X, HexNumber(14))), Put(Binary("%", X, HexNumber(14))), Put(Binary("/", HexNumber(30), N(4))),
   Put(A(Binary("-", HexNumber(14), N(13)))), IfStmt(HexNumber(14), Put(N(1))), DeclareInt("u", HexNumber(14)),
   Declare("int", Array("u", <<HexNumber(14)>>, <<InitList(<<HexNumber(14)>>)>>)), ReturnStmt(<<HexNumber(14)>>)}

Rows3 == FuncDef("int", "rows", <<FuncParam("int", "m", <<OpenDim, ArrayDim(N(1))>>)>>,
           Block(<<ReturnStmt(<<Elem2("m", N(1), N(0))>>)>>))
FaultyPrograms ==
  {CompUnit(<<DeclareConst("int", ConstDef("k", N(1))), FuncDef("void", "v", <<IntParam("x")>>, Block(body)),
              Main(<<DeclareInt("x", N(1)), ExprStmt(<<Call("v", X)>>), Declare("int", Array("a", <<N(2)>>, <<InitList(<<>>)>>)),
                     Declare("int", Array("b", <<N(2), N(1)>>, <<InitList(<<>>)>>)), s, ReturnStmt(<<X>>)>>)>>) :
     s \in Faulty, body \in {<<>>, <<ReturnStmt(<<N(1)>>)>>, <<ReturnStmt(<<>>)>>}}
    \cup
  {CompUnit(<<DeclareConst("int", ConstDef("k", N(1))), FuncDef("void", "v", <<IntParam("x")>>, Block(<<Put(X)>>)), Rows3,
              Main(<<DeclareInt("x", N(1)), Declare("int", Array("a", <<N(2)>>, <<InitList(<<N(7)>>)>>)),
                     Declare("int", Array("b", <<N(2), N(1)>>, <<InitList(<<N(4), N(3)>>)>>)),
                     Declare("int", Array("c", <<N(1), N(2)>>, <<InitList(<<N(4), N(3)>>)>>)), s, ReturnStmt(<<X>>)>>)>>) :
     s \in Unseen \cup LooksWrong}
    \cup
  LET f(ss) == FuncDef("int", "f", <<>>, Block(ss))
      one == <<ReturnStmt(<<N(1)>>)>>
      calls == <<Put(CallExpr("f", <<>>)), ReturnStmt(<<N(0)>>)>>
  IN {CompUnit(<<f(one), Main(calls)>>), CompUnit(<<Main(calls), f(one)>>), CompUnit(<<f(one), f(one), Main(calls)>>),
      CompUnit(<<DeclareInt("f", N(1)), f(one), Main(one)>>), CompUnit(<<DeclareInt("g", N(1)), DeclareInt("g", N(2)), Main(one)>>),
      CompUnit(<<f(one)>>), CompUnit(<<Main(one), Main(one)>>), CompUnit(<<FuncDef("void", "main", <<>>, Block(<<>>))>>),
      CompUnit(<<FuncDef("int", "main", <<IntParam("x")>>, Block(<<ReturnStmt(<<X>>)>>))>>),
      CompUnit(<<Declare("int", Array("g", <<N(2)>>, <<N(4)>>)), Main(one)>>),
      CompUnit(<<DeclareInt("g", InitList(<<N(4)>>)), Main(one)>>),
      CompUnit(<<Declare("int", Array("g", <<N(2)>>, <<>>)), DeclareInt("h", G), Main(one)>>)}

\* Which operand belongs to which operator, which else to which if.
GrammarPrograms ==
  LET Return1(e) == OnlyMain(<<DeclareInt("x", N(3)), ReturnStmt(<<e>>)>>)
      Nested(s, t) == {IfElseStmt(X, s, t), IfStmt(N(0), IfElseStmt(X, s, t)), IfElseStmt(N(0), IfElseStmt(X, s, t), s),
                       IfStmt(X, WhileStmt(X, IfElseStmt(N(1), BreakStmt, t))), IfElseStmt(N(0), s, IfStmt(X, t))}
  IN {Return1(Binary(op1, Binary(op2, X, N(2)), N(1))) : op1 \in BinaryOps, op2 \in BinaryOps}
       \cup {Return1(Binary(op1, N(5), Binary(op2, N(2), X))) : op1 \in BinaryOps, op2 \in BinaryOps}
       \cup {Return1(Unary(u, Binary(op, Unary(v, X), Unary("!", Unary("-", N(2)))))) :
               u \in {"+", "-", "!"}, v \in {"+", "-", "!"}, op \in BinaryOps}
       \cup {OnlyMain(<<DeclareInt("x", N(3)), s, ReturnStmt(<<X>>)>>) : s \in Nested(Put(N(1)), Put(N(2)))}

\* One token left out, doubled, or swapped with the next one.
GarbledPrograms ==
  LET text == Spell(CompUnit(<<
                Node("ConstDecl", "int", <<ConstDef("k", N(2)), ConstDef("l", N(1))>>),
                FuncDef("void", "f", <<IntParam("x"), FuncParam("int", "a", <<OpenDim, ArrayDim(N(2))>>)>>,
                  Block(<<IfElseStmt(X, Assign(Elem2("a", X, N(1)), Binary("==", X, Binary("&&", X, N(1)))),
                                     WhileStmt(X, BreakStmt)), ReturnStmt(<<>>)>>)),
                Main(<<Declare("int", Array("a", <<N(1), N(2)>>, <<InitList(<<N(1), InitList(<<>>)>>)>>)),
                       ExprStmt(<<CallExpr("f", <<N(1), Var("a")>>)>>), ExprStmt(<<>>), ReturnStmt(<<N(0)>>)>>)>>))
      Part(i, j) == SubSeq(text, i, j)
      n == Len(text)
  IN {Part(1, i - 1) \o Part(i + 1, n) : i \in 1 .. n - 1}
       \cup {Part(1, i) \o Part(i, n) : i \in 1 .. n - 1}
       \cup {Part(1, i - 1) \o <<text[i + 1], text[i]>> \o Part(i + 2, n) : i \in 1 .. n - 2}

MCPrograms ==
  OperatorPrograms \cup ConstantPrograms \cup ConditionPrograms \cup OrderPrograms \cup LoopPrograms
    \cup ScopePrograms \cup ArrayPrograms \cup ParameterPrograms \cup CallPrograms \cup FaultyPrograms \cup GrammarPrograms

MCInputs == {[mem |-> <<>>, reads |-> r, fuel |-> 24] : r \in {<<2, 3, -4>>, <<-3, 1, 5>>}}

=============================================================================

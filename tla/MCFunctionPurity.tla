-------------------------- MODULE MCFunctionPurity --------------------------
(***************************************************************************)
(* FunctionPurity for TLC.  The programs are, first, those of two          *)
(* functions whose bodies come from a catalogue of the things a SysY       *)
(* function may do: shadowing, blocks, constants, mutable globals, arrays, *)
(* recursion, calls of the other function and of the library; and second,  *)
(* every call graph over three functions and the library.                  *)
(***************************************************************************)
EXTENDS FunctionPurity

X == Var("x")
M == Var("m")
Sum(l, r) == Binary("+", l, r)
Return(e) == Node("ReturnStmt", "", <<e>>)
Small == Binary("<", X, Number(1))
Text == Node("StringLiteral", "text", <<>>)
Do(e) == Node("ExprStmt", "", <<e>>)
Call(g, e) == CallExpr(g, <<e>>)
IfElse(c, s, t) == Node("IfStmt", "", <<c, s, t>>)

MCFunctions == {"f", "g", "h"}
MCNames == MCFunctions \cup {"putint"}

MCGlobal == [k |-> "const", m |-> "var", arr |-> "array", table |-> "array"]

\* The bodies, of a function that may call g and f.
Bodies == <<
  <<Return(Sum(X, Var("k")))>>,
  <<Return(M)>>,
  <<Assign(M, X), Return(X)>>,
  <<VarDecl("int", "m", X), Assign(M, Sum(M, Number(1))), Return(M)>>,
  <<Block(<<VarDecl("int", "m", X), Assign(M, Number(1))>>), Assign(M, X), Return(X)>>,
  <<VarDecl("int", "m", Sum(M, X)), Return(M)>>,
  <<Return(Elem("arr", X))>>,
  <<ArrayDecl("int", "loc", 4), Assign(Elem("loc", X), X), Return(X)>>,
  <<Do(Call("putint", X)), Return(X)>>,
  <<IfStmt(Small, Return(X)), Return(Call("f", Sum(X, Number(1))))>>,
  <<Return(Call("g", X))>>,
  <<IfElse(Small, Return(Call("g", X)), Block(<<Assign(M, Number(2))>>)), Return(X)>>,
  <<WhileStmt(Small, Block(<<VarDecl("int", "t", Call("g", X)), Assign(X, Var("t"))>>)),
    Return(Sum(X, Call("f", X)))>>,
  <<Do(CallExpr("g", <<Text>>)), Return(X)>>,
  <<WhileStmt(Small, Block(<<VarDecl("int", "m", X), Assign(X, M)>>)), Return(Sum(X, M))>> >>

Param(x) == [name |-> x, array |-> FALSE]
ArrayParam(x) == [name |-> x, array |-> TRUE]

Fun(i) == [params |-> <<Param("x")>>, body |-> Block(Bodies[i])]
ArrayFun(i) == [params |-> <<Param("x"), ArrayParam("arr")>>, body |-> Block(Bodies[i])]

\* A third function that nobody calls.
Idle == Fun(1)

CataloguePrograms ==
  {[global |-> MCGlobal, fun |-> [f |-> Fun(i), g |-> Fun(j), h |-> Idle]] :
     i \in 1 .. Len(Bodies), j \in 1 .. Len(Bodies)}
    \cup
  {[global |-> MCGlobal, fun |-> [f |-> Fun(i), g |-> ArrayFun(7), h |-> Idle]] :
     i \in 1 .. Len(Bodies)}

\* A function that calls some names and is otherwise pure, or not: it reads
\* a variable of the program first.
Caller(names, purely) ==
  [params |-> <<Param("x")>>,
   body |-> Block((IF purely THEN <<>> ELSE <<Do(M)>>)
                    \o SetToSeq({Do(Call(g, X)) : g \in names}) \o <<Return(X)>>)]

CallGraphs ==
  LET callers == {Caller(names, purely) : names \in SUBSET MCNames, purely \in BOOLEAN}
  IN  {[global |-> MCGlobal, fun |-> fun] : fun \in [MCFunctions -> callers]}

MCPrograms == CataloguePrograms \cup CallGraphs

=============================================================================

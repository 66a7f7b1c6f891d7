-------------------------- MODULE SemanticChecker --------------------------
(***************************************************************************)
(* The semantic checker.  It threads its own state: the scopes, how deep   *)
(* in loops it is, the return type of the function it is in, how many      *)
(* mains there were, the type of the last expression, and whether an error *)
(* was thrown, after which nothing is looked at any more.                  *)
(***************************************************************************)
EXTENDS SysyProgram, TLC

ValueType(base, dims) == [base |-> base, dims |-> dims]
Symbol(kind, type, params) == [kind |-> kind, type |-> type, params |-> params]
Fun(ret, params) == Symbol("func", ValueType(ret, 0), params)

IntScalar == ValueType("int", 0)
FloatScalar == ValueType("float", 0)

Vague == ValueType("unknown", 0)

Runtime ==
  [getint |-> Fun("int", <<>>), getfloat |-> Fun("float", <<>>),
   getarray |-> Fun("int", <<ValueType("int", 1)>>),
   putint |-> Fun("void", <<IntScalar>>), putfloat |-> Fun("void", <<FloatScalar>>),
   putarray |-> Fun("void", <<IntScalar, ValueType("int", 1)>>)]

Error(a) == [a EXCEPT !.ok = FALSE]
Demand(a, condition) == IF condition THEN a ELSE Error(a)
Typed(a, type) == [a EXCEPT !.type = type]

PushScope(a) == [a EXCEPT !.scopes = Append(@, <<>>)]
PopScope(a) == [a EXCEPT !.scopes = Front(@)]

Declared(a, x) == \E i \in 1 .. Len(a.scopes) : x \in DOMAIN a.scopes[i]
Lookup(a, x) ==
  a.scopes[CHOOSE i \in 1 .. Len(a.scopes) :
             /\ x \in DOMAIN a.scopes[i]
             /\ \A j \in i + 1 .. Len(a.scopes) : x \notin DOMAIN a.scopes[j]][x]

Declare1(a, x, symbol) ==
  IF x \in DOMAIN Last(a.scopes) THEN Error(a)
  ELSE [a EXCEPT !.scopes[Len(a.scopes)] = (x :> symbol) @@ @]

\* Mutation: the ranks of the two sides are not compared.
AnyRankCompatible(l, r) ==
  \/ "unknown" \in {l.base, r.base}
  \/ IF l.dims > 0 THEN l.base = r.base ELSE "void" \notin {l.base, r.base}

AssignmentCompatible(l, r) ==
  \/ "unknown" \in {l.base, r.base}
  \/ /\ l.dims = r.dims
     /\ IF l.dims > 0 THEN l.base = r.base ELSE "void" \notin {l.base, r.base}

ArgumentCompatible(f, i, expected, actual) ==
  IF <<f, i>> \in {<<"getarray", 1>>, <<"putarray", 2>>} THEN actual.base = "int" /\ actual.dims >= 1
  ELSE AssignmentCompatible(expected, actual)

\* The checker goes by the letters of a literal, and takes any e for an exponent.
LiteralType(n) == IF n.text \in {"float", "hex e"} THEN FloatScalar ELSE IntScalar

-----------------------------------------------------------------------------
RECURSIVE AnalyzeExpr(_, _)

\* Several expressions in turn, and their types.
Also(types, a) == [a |-> a, types |-> Append(types, a.type)]
AnalyzeAll(a, es) ==
  FoldLeft(LAMBDA all, e : Also(all.types, AnalyzeExpr(all.a, e)), [a |-> a, types |-> <<>>], es)

IsIntScalar(t) == t = IntScalar

LValTyped(n, s, is) ==
  Typed(Demand(is.a, /\ \A i \in 1 .. Len(is.types) : IsIntScalar(is.types[i])
                     /\ Len(n.children) <= s.type.dims),
        ValueType(s.type.base, s.type.dims - Len(n.children)))
AnalyzeLVal(a, n) ==
  IF ~Declared(a, n.text) \/ Lookup(a, n.text).kind = "func" THEN Error(a)
  ELSE LValTyped(n, Lookup(a, n.text), AnalyzeAll(a, n.children))

CallTyped(n, s, as) ==
  Typed(Demand(as.a, \A i \in 1 .. Len(s.params) :
                       ArgumentCompatible(n.text, i, s.params[i], as.types[i])), s.type)
Callable(a, n) ==
  /\ Declared(a, n.text)
  /\ Lookup(a, n.text).kind = "func" /\ Len(Lookup(a, n.text).params) = Len(n.children)
AnalyzeCall(a, n) ==
  IF ~Callable(a, n) THEN Error(a) ELSE CallTyped(n, Lookup(a, n.text), AnalyzeAll(a, n.children))

BinaryTyped(op, a, l, r) ==
  Typed(Demand(a, l.dims = 0 /\ r.dims = 0 /\ (op = "%" => l.base = "int" /\ r.base = "int")),
        IF op \in Arithmetic /\ "float" \in {l.base, r.base} THEN FloatScalar ELSE IntScalar)
BothTyped(op, both) == BinaryTyped(op, both.a, both.types[1], both.types[2])

UnaryTyped(op, a) == Typed(Demand(a, a.type.dims = 0), IF op = "!" THEN IntScalar ELSE a.type)

AnalyzeExpr(a, n) ==
  CASE ~a.ok -> a
    [] n.kind = "Number" -> Typed(a, LiteralType(n))
    [] n.kind = "LVal" -> AnalyzeLVal(a, n)
    [] n.kind = "CallExpr" -> AnalyzeCall(a, n)
    [] n.kind = "UnaryExpr" -> UnaryTyped(n.text, AnalyzeExpr(a, n.children[1]))
    [] n.kind = "BinaryExpr" -> BothTyped(n.text, AnalyzeAll(a, n.children))
    [] OTHER -> Typed(AnalyzeAll(a, n.children).a, Vague)

-----------------------------------------------------------------------------
\* A name is visible in its own dims and initializer.
DemandInt(a) == Demand(a, IsIntScalar(a.type))
AnalyzeDim(a, d) ==
  IF d.children = <<>> THEN Error(a) ELSE DemandInt(AnalyzeExpr(a, d.children[1]))

AnalyzeDef(a, node, def) ==
  LET kind == IF node.kind = "ConstDecl" THEN "const" ELSE "var"
  IN FoldLeft(LAMBDA b, c : IF c.kind = "ArrayDim" THEN AnalyzeDim(b, c) ELSE AnalyzeExpr(b, c),
              Declare1(a, def.text, Symbol(kind, ValueType(node.text, Len(DimsOf(def))), <<>>)),
              def.children)

AnalyzeDecl(a, node) == FoldLeft(LAMBDA b, def : AnalyzeDef(b, node, def), a, node.children)

RECURSIVE AnalyzeStmt(_, _)

AnalyzeItems(a, ns) ==
  FoldLeft(LAMBDA b, n : IF ~b.ok THEN b
                         ELSE IF IsDecl(n) THEN AnalyzeDecl(b, n)
                         ELSE AnalyzeStmt(b, n), a, ns)

AssignTyped(all) ==
  Demand(all.a, all.a.ok => AssignmentCompatible(all.types[1], all.types[2]))
AnalyzeAssign(a, n) ==
  LET x == n.children[1].text
  IN IF ~Declared(a, x) \/ Lookup(a, x).kind = "const" THEN Error(a)
     ELSE AssignTyped(AnalyzeAll(a, n.children))

Deeper(a, k) == [a EXCEPT !.loops = @ + k]

AnalyzeStmt(a, n) ==
  CASE ~a.ok -> a
    [] n.kind = "Block" -> PopScope(AnalyzeItems(PushScope(a), n.children))
    [] n.kind = "AssignStmt" -> AnalyzeAssign(a, n)
    [] n.kind = "IfStmt" ->
         FoldLeft(LAMBDA b, s : AnalyzeStmt(b, s), AnalyzeExpr(a, n.children[1]), Tail(n.children))
    [] n.kind = "WhileStmt" ->
         Deeper(AnalyzeStmt(Deeper(AnalyzeExpr(a, n.children[1]), 1), n.children[2]), -1)
    [] n.kind \in {"BreakStmt", "ContinueStmt"} -> Demand(a, a.loops > 0)
    [] n.kind = "ReturnStmt" ->
         AnalyzeAll(Demand(a, (a.ret = "void") = (n.children = <<>>)), n.children).a
    [] OTHER -> AnalyzeAll(a, n.children).a

\* A function is declared before its body, which shares a scope with the
\* parameters.
TypeOfParam(p) == ValueType(TypeOf(p), Len(SelectSeq(p.children, IsDim)))
AnalyzeParam(a, p) ==
  FoldLeft(AnalyzeDim, Declare1(a, p.text, Symbol("var", TypeOfParam(p), <<>>)),
           SelectSeq(p.children, LAMBDA d : IsDim(d) /\ d.children # <<>>))

CountMain(a, f) ==
  IF f.text = "main" THEN Demand([a EXCEPT !.mains = @ + 1], TypeOf(f) = "int") ELSE a

AnalyzeFunc(a, f) ==
  LET ps == ParamsOf(f)
      declared == Declare1(a, f.text, Fun(TypeOf(f), [i \in 1 .. Len(ps) |-> TypeOfParam(ps[i])]))
  IN PopScope(AnalyzeItems(FoldLeft(AnalyzeParam,
                                    [PushScope(CountMain(declared, f)) EXCEPT !.ret = TypeOf(f)], ps),
                           BodyOf(f).children))

AnalyzeTop(a, n) ==
  CASE ~a.ok -> a
    [] IsDecl(n) -> AnalyzeDecl(a, n)
    [] OTHER -> AnalyzeFunc(a, n)

DemandMain(a) == Demand(a, a.mains = 1)

Analyze(root) ==
  DemandMain(FoldLeft(AnalyzeTop,
                      [scopes |-> <<Runtime>>, loops |-> 0, ret |-> "", mains |-> 0, ok |-> TRUE, type |-> Vague],
                      root.children))

Accepts(root) == Analyze(root).ok

=============================================================================

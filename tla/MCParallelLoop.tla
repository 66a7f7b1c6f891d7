--------------------------- MODULE MCParallelLoop ---------------------------
(***************************************************************************)
(* Source loops for ParallelLoop.  The enclosing function has the int      *)
(* scalars i, j, k, n, s, t, the float x, the int arrays a, b and the      *)
(* matrix m; a and b may be parameters bound to one array.  Bodies are all *)
(* sequences of one or two of the statements below.                        *)
(***************************************************************************)
EXTENDS ParallelLoop

I == Var("i")
N == Var("n")
Plus(l, r) == Binary("+", l, r)
Minus(l, r) == Binary("-", l, r)
Times(l, r) == Binary("*", l, r)
Num(c) == Number(c)
Call1(f, e) == CallExpr(f, <<e>>)
Add(x, e) == Assign(Var(x), Plus(Var(x), e))

Loop(relop, bound, body) ==
  WhileStmt(Binary(relop, I, bound), Block(Append(body, Assign(I, Plus(I, Num(1))))))

Counted(x, last, body) ==
  WhileStmt(Binary("<", Var(x), last),
            Block(Append(body, Assign(Var(x), Plus(Num(1), Var(x))))))

\* Two pure functions, one of them an affine template, and one that reads
\* an array.
Functions ==
  [next |-> [pure |-> TRUE, params |-> <<"p">>, ret |-> Plus(Var("p"), Num(1))],
   square |-> [pure |-> TRUE, params |-> <<"p">>, ret |-> Times(Var("p"), Var("p"))],
   peek |-> [pure |-> FALSE, params |-> <<"p">>, ret |-> Elem("a", Var("p"))]]

Cells1 == {<<c>> : c \in 0 .. 6}
Cells2 == (0 .. 3) \X (0 .. 1)

Source(init, loop, storageA, storageB, same, last) ==
  [init |-> init,
   loop |-> loop,
   env |-> [type |-> [i |-> "int", j |-> "int", k |-> "int", n |-> "int", s |-> "int",
                      t |-> "int", x |-> "float", a |-> "int", b |-> "int", m |-> "int"],
            funs |-> Functions],
   storage |-> [i |-> "temp", j |-> "temp", k |-> "temp", n |-> "temp", s |-> "temp",
                t |-> "temp", x |-> "temp", a |-> storageA, b |-> storageB, m |-> "local"],
   rank |-> [a |-> 1, b |-> 1, m |-> 2],
   object |-> [a |-> "A", b |-> IF same THEN "A" ELSE "B", m |-> "M"],
   scalars |-> [i |-> 5, j |-> 4, k |-> 1, n |-> last, s |-> 2, t |-> 1, x |-> 3],
   mem |-> [A |-> [c \in Cells1 |-> 3 - c[1]], B |-> [c \in Cells1 |-> c[1] - 1],
            M |-> [c \in Cells2 |-> 2 * c[1] + c[2]]]]

ZeroI == Assign(I, Num(0))
IntI == VarDecl("int", "i", Num(0))

Statements == <<
    Assign(Elem("a", I), Elem("b", I)),
    Assign(Elem("a", I), Plus(Elem("a", I), N)),
    Assign(Elem("a", I), Elem("a", Plus(I, Num(1)))),
    Assign(Elem("a", Plus(I, Num(1))), Elem("b", I)),
    Assign(Elem("a", Num(2)), I),
    Assign(Elem("a", Minus(N, I)), Var("k")),
    Assign(Elem("a", Times(Num(2), I)), I),
    Assign(Elem("b", I), Elem("a", Plus(I, Num(1)))),
    Assign(Elem("a", Call1("next", I)), I),
    Assign(Elem("a", Call1("square", I)), I),
    Assign(Elem("b", I), Call1("peek", I)),
    Add("s", Elem("a", I)),
    Assign(Var("s"), Plus(Call1("square", I), Var("s"))),
    Add("s", Var("s")),
    Add("t", Var("k")),
    Assign(Elem("b", I), Var("s")),
    Assign(Var("k"), I),
    Add("x", I),
    Add("n", Unary("-", Num(1))),
    VarDecl("int", "s", I),
    VarDecl("int", "t", Elem("b", I)),
    IfStmt(Binary("<", Elem("b", I), Num(1)), Block(<<Add("s", I)>>)),
    IfStmt(Binary("<", Num(1), I), Block(<<BreakStmt>>)),
    ArrayDecl("int", "c", 2) >>

\* A body is named by the positions of its statements.
BodyOfId(id) == [p \in 1 .. Len(id) |-> Statements[id[p]]]

PairIds == {<<p, q>> : p \in 1 .. Len(Statements), q \in 1 .. Len(Statements)}

\* A nest over the columns of the matrix, and scratch counters.
Nest ==
  <<VarDecl("int", "c", Num(0)),
    Counted("c", Num(2), <<Assign(Elem2("m", I, Var("c")), Plus(Elem2("m", I, Var("c")), I))>>)>>

ScratchNest(first, last, inner) ==
  <<Assign(Var("j"), Num(first)), Counted("j", last, inner)>>

ScratchBodies == <<
  ScratchNest(0, Num(2), <<Add("s", Elem("a", Var("j")))>>),
  ScratchNest(3, Num(2), <<Add("s", Elem("a", Var("j")))>>),
  ScratchNest(0, Num(2), <<Assign(Elem("b", I), Var("j"))>>),
  ScratchNest(0, Num(2), <<Add("j", Num(1))>>),
  ScratchNest(0, N, <<Add("s", Var("j"))>>) >>

\* The scalars of the indices keep their value through the loop.
IndexTermsInvariant(p) ==
  LET body == SubnodesOf(BodyOf(p.loop))
      changing == {m.children[1].text : m \in {x \in body : x.kind = "AssignStmt"
                                                 /\ IsScalarLVal(x.children[1])}}
                    \cup UNION {DeclaredBy(m) : m \in body}
      terms == UNION {Subnodes(x.children[1]) : x \in {y \in body : IsArrayLVal(y)}}
  IN  \A e \in terms : e.kind = "LVal" =>
        IsScalarLVal(e) /\ (e.text = LoopInit(p.init).var \/ e.text \notin changing)

\* A scratch counter is not the bound of its own loop nest.
BoundAvoidsScratch(p) ==
  \A c \in ScratchScalars(p.env, LoopInit(p.init).var, BodyOf(p.loop)) :
    ~ContainsExternalRef(EndExpr(p.loop), c.var)

PairSource(id) == Source(ZeroI, Loop("<", N, BodyOfId(id)), "param", "param", FALSE, 3)

SingleIds == {<<p>> : p \in 1 .. Len(Statements)}

\* The same bodies where a and b are one array, are a parameter and a
\* global, or where the range is empty.
VariantIds == {<<1, 12>>, <<8, 12>>, <<1, 7>>, <<8>>, <<1>>, <<16, 15>>, <<12>>, <<2, 12>>}
VariantSources ==
  UNION {{Source(ZeroI, Loop("<", N, BodyOfId(id)), "param", "param", TRUE, 3),
          Source(ZeroI, Loop("<=", N, BodyOfId(id)), "global", "param", TRUE, 2),
          Source(IntI, Loop("<=", Num(2), BodyOfId(id)), "local", "param", FALSE, 2),
          Source(IntI, Loop("<", Num(3), BodyOfId(id)), "local", "global", FALSE, 3),
          Source(Assign(I, Num(2)), Loop("<", Minus(N, Num(3)), BodyOfId(id)),
                 "local", "param", FALSE, 4)} : id \in VariantIds}

\* Matrix nests, scratch nests, an endpoint of the largest int.
NestSources ==
  {Source(ZeroI, Loop("<", N, Nest), "local", "local", FALSE, 3)}
    \cup
  {Source(ZeroI, Loop("<", N, ScratchBodies[b]), "local", "local", FALSE, last) :
     b \in 1 .. Len(ScratchBodies), last \in {0, 2}}
    \cup
  {Source(Assign(I, Num(29)), Loop("<=", N, <<Add("t", Var("k"))>>),
          "local", "local", FALSE, last) : last \in {30, 31}}

\* A scratch counter as the bound of the outer loop, and a bound with a call.
BoundSources ==
  {Source(ZeroI, Loop("<", bound, ScratchNest(0, Num(2), <<Add("s", Num(1))>>)),
          "local", "local", FALSE, 3) :
     bound \in {Var("j"), Var("k"), Var("s"), Elem("a", Num(0)), Call1("next", N), Var("x")}}

\* Index terms that change from one iteration to the next.
ShiftedBodies ==
  { <<VarDecl("int", "d", I), Assign(Elem("a", Minus(I, Var("d"))), I)>>,
    <<VarDecl("int", "d", Num(0)),
      Counted("d", Num(2), <<Assign(Elem("a", Plus(I, Var("d"))), I)>>)>>,
    <<Assign(Elem("a", Plus(I, Elem("b", I))), I)>> }

ShiftedSources ==
  {Source(ZeroI, Loop("<", N, body), "local", "local", FALSE, 3) : body \in ShiftedBodies}

Sources ==
  {PairSource(id) : id \in PairIds \cup SingleIds} \cup VariantSources
    \cup NestSources \cup BoundSources \cup ShiftedSources

Legal(p) == IndexTermsInvariant(p) /\ BoundAvoidsScratch(p)

LegalPrograms == {p \in Sources : Legal(p)}
ShiftedPrograms == {p \in Sources : BoundAvoidsScratch(p)}
ScratchBoundPrograms == {p \in Sources : IndexTermsInvariant(p)}

=============================================================================

---------------------------- MODULE ParallelPlan ----------------------------
(***************************************************************************)
(* The legality analysis of the parallel loop lowering:                    *)
(* analyzeParallelLoopPair decides from the syntax of an initializer and a *)
(* while loop whether the iterations may run on two threads.               *)
(*                                                                         *)
(* A scope record  env  stands for the two lookups the caller passes:      *)
(* env.type maps a scalar or array name to its type, env.funs a function   *)
(* name to its summary (parameters, return type, purity and, for a         *)
(* single-expression return over its parameters, that expression).  The    *)
(* analysis only rejects or accepts, so a plan is the parts the lowering   *)
(* uses and the acceptance a conjunction; the wording of a rejection is    *)
(* left out.                                                               *)
(***************************************************************************)
EXTENDS SysyAst, Words

CONSTANTS
  WorkThreshold,   \* trip count * work cost worth a thread (16384)
  BodyThreshold,   \* body cost worth a thread when neither reduction nor nest (48)
  ScratchLimit     \* trip count from which a scratch loop is not privatized (512)

ASSUME PlanAssumption ==
  /\ WorkThreshold \in Nat
  /\ BodyThreshold \in Nat
  /\ ScratchLimit \in Nat

-----------------------------------------------------------------------------
(* Costs.                                                                  *)

Larger(a, b) == IF a > b THEN a ELSE b

SumOf(f(_), ss) == FoldLeft(LAMBDA acc, n : acc + f(n), 0, ss)

RECURSIVE EstimateExprCost(_)
EstimateExprCost(n) ==
  CASE n.kind = "Number" -> 0
    [] IsScalarLVal(n) -> 1
    [] IsArrayLVal(n) -> 4 + 2 * Len(n.children)
    [] n.kind = "CallExpr" -> 64
    [] n.kind = "BinaryExpr" ->
         (IF n.text \in {"*", "/", "%"} THEN 4 ELSE 1)
           + SumOf(EstimateExprCost, n.children)
    [] n.kind = "UnaryExpr" -> 1 + SumOf(EstimateExprCost, n.children)
    [] OTHER -> SumOf(EstimateExprCost, n.children)

\* The initializers of a declaration.
Initializers(decl) ==
  FlattenSeq([d \in 1 .. Len(decl.children) |->
                SelectSeq(decl.children[d].children,
                          LAMBDA c : c.kind # "ArrayDim")])

RECURSIVE EstimateStmtCost(_)
EstimateStmtCost(n) ==
  CASE n.kind = "AssignStmt" -> 2 + SumOf(EstimateExprCost, n.children)
    [] IsDecl(n) -> 1 + SumOf(EstimateExprCost, Initializers(n))
    [] n.kind = "IfStmt" -> 8 + EstimateExprCost(n.children[1])
    [] n.kind = "WhileStmt" -> 64 + EstimateExprCost(n.children[1])
    [] OTHER -> 1 + SumOf(EstimateStmtCost, n.children)

\* Work estimates saturate at the largest int.
Saturate(x) == IF x > MaxInt THEN MaxInt ELSE x

SumWork(f(_), from, ss) ==
  FoldLeft(LAMBDA acc, n : Saturate(acc + f(n)), from, ss)

RECURSIVE EstimateRuntimeStmtCost(_)
EstimateRuntimeStmtCost(n) ==
  CASE n.kind = "AssignStmt" \/ IsDecl(n) -> Larger(1, EstimateStmtCost(n))
    [] n.kind = "IfStmt" ->
         SumWork(EstimateRuntimeStmtCost, 8 + EstimateExprCost(n.children[1]),
                 Tail(n.children))
    [] n.kind = "WhileStmt" ->
         Saturate(64 + EstimateExprCost(n.children[1])
                    + Saturate(8 * EstimateRuntimeStmtCost(n.children[2])))
    [] OTHER -> SumWork(EstimateRuntimeStmtCost, 1, n.children)

-----------------------------------------------------------------------------
(* Calls and affine indices.                                               *)

IsPure(env, f) == f \in DOMAIN env.funs /\ env.funs[f].pure

ContainsUnsafeCall(env, n) ==
  \E m \in Subnodes(n) : m.kind = "CallExpr" /\ ~IsPure(env, m.text)

\* Does an expression read the scalar x of the enclosing function.
ContainsExternalRef(n, x) ==
  \E m \in Subnodes(n) : IsScalarLVal(m) /\ m.text = x /\ ~m.local

\* The return expression of a function with the arguments in place of the
\* parameters.
RECURSIVE Instantiate(_, _, _)
Instantiate(n, params, args) ==
  IF IsScalarLVal(n) /\ n.text \in ToSet(params)
  THEN args[CHOOSE i \in 1 .. Len(params) : params[i] = n.text]
  ELSE [n EXCEPT !.children =
          [i \in 1 .. Len(n.children) |-> Instantiate(n.children[i], params, args)]]

IsAffineTemplate(n, params) ==
  \A m \in Subnodes(n) :
    \/ m.kind \in {"Number", "UnaryExpr", "BinaryExpr"}
    \/ IsScalarLVal(m) /\ m.text \in ToSet(params)

\* The coefficient of the loop variable in an index: at most one value, none
\* when the index is not affine.  A subexpression that does not mention the
\* loop variable has coefficient 0, whatever else it mentions.
RECURSIVE AffineCoeff(_, _, _, _)
AffineCoeff(env, n, iv, active) ==
  LET Coeff(i) == AffineCoeff(env, n.children[i], iv, active)
      Constant(i) == IF n.children[i].kind = "Number" THEN {n.children[i].val} ELSE {}
  IN
  CASE ContainsUnsafeCall(env, n) -> {}
    [] ~ContainsExternalRef(n, iv) -> {0}
    [] n.kind = "LVal" -> {IF n.text = iv /\ ~n.local THEN 1 ELSE 0}
    [] n.kind = "UnaryExpr" ->
         IF n.text = "+" THEN Coeff(1)
         ELSE IF n.text = "-" THEN {-c : c \in Coeff(1)} ELSE {}
    [] n.kind = "CallExpr" ->
         LET f == env.funs[n.text]
         IN  IF /\ IsAffineTemplate(f.ret, f.params)
                /\ Len(f.params) = Len(n.children)
                /\ n.text \notin active
             THEN AffineCoeff(env, Instantiate(f.ret, f.params, n.children),
                              iv, active \cup {n.text})
             ELSE {}
    [] n.kind = "BinaryExpr" ->
         CASE n.text = "+" -> {l + r : l \in Coeff(1), r \in Coeff(2)}
           [] n.text = "-" -> {l - r : l \in Coeff(1), r \in Coeff(2)}
           [] n.text = "*" -> {c * r : c \in Constant(1), r \in Coeff(2)}
                                \cup {c * l : c \in Constant(2), l \in Coeff(1)}
           [] OTHER -> {}
    [] OTHER -> {}

\* Mutation: an index that does not move with the loop counts as affine.
LaxPartitionedBy(env, lval, iv) == AffineCoeff(env, lval.children[1], iv, {}) # {}

\* Different iterations use different first indices.
PartitionedBy(env, lval, iv) ==
  \E c \in AffineCoeff(env, lval.children[1], iv, {}) : c # 0

SameFirstPartitionIndex(env, l, r, iv) ==
  /\ PartitionedBy(env, l, iv)
  /\ PartitionedBy(env, r, iv)
  /\ NodeKey(l.children[1]) = NodeKey(r.children[1])

-----------------------------------------------------------------------------
(* The shape of the loop.                                                  *)

\* i = i + 1 or i = 1 + i.
IsIncrementOf(stmt, iv) ==
  /\ stmt.kind = "AssignStmt"
  /\ stmt.children[1] = Var(iv)
  /\ \E a \in {1, 2} :
       LET rhs == stmt.children[2]
       IN  /\ rhs.kind = "BinaryExpr" /\ rhs.text = "+"
           /\ rhs.children[a].kind = "LVal" /\ rhs.children[a].text = iv
           /\ rhs.children[3 - a] = Number(1)

\* The initializer forms: an assignment to a scalar, or a declaration of
\* one scalar with an initializer.
IsLoopInit(n) ==
  \/ n.kind = "AssignStmt" /\ IsScalarLVal(n.children[1])
  \/ /\ n.kind = "VarDecl" /\ Len(n.children) = 1
     /\ IsScalarDef(n.children[1]) /\ n.children[1].children # <<>>

LoopInit(n) ==
  IF n.kind = "AssignStmt"
  THEN [declaration |-> FALSE, type |-> "", var |-> n.children[1].text,
        expr |-> n.children[2]]
  ELSE [declaration |-> TRUE, type |-> n.text, var |-> n.children[1].text,
        expr |-> n.children[1].children[1]]

IsCanonicalWhile(loop, iv) ==
  /\ loop.kind = "WhileStmt"
  /\ LET cond == loop.children[1]
         body == loop.children[2]
     IN  /\ cond.kind = "BinaryExpr" /\ cond.text \in {"<", "<="}
         /\ IsScalarLVal(cond.children[1]) /\ cond.children[1].text = iv
         /\ body.kind = "Block" /\ body.children # <<>>
         /\ IsIncrementOf(Last(body.children), iv)

EndExpr(loop) == loop.children[1].children[2]
InclusiveEnd(loop) == loop.children[1].text = "<="
BodyOf(loop) == Front(loop.children[2].children)

\* Mark the LVals that refer to a scalar declared in the body; a
\* declaration is visible in its own initializer and after it, up to the
\* end of its block.
DeclaredBy(n) ==
  IF IsDecl(n) THEN {d.text : d \in {e \in ToSet(n.children) : IsScalarDef(e)}} ELSE {}

RECURSIVE MarkLocals(_, _)
RECURSIVE MarkLocalsSeq(_, _)
MarkLocals(n, names) ==
  LET kids == IF n.kind = "Block" THEN MarkLocalsSeq(n.children, names)
              ELSE [i \in 1 .. Len(n.children) |-> MarkLocals(n.children[i], names)]
  IN  [n EXCEPT !.children = kids, !.local = n.kind = "LVal" /\ n.text \in names]
MarkLocalsSeq(ss, names) ==
  IF ss = <<>> THEN <<>>
  ELSE LET visible == names \cup DeclaredBy(ss[1])
       IN  <<MarkLocals(ss[1], visible)>> \o MarkLocalsSeq(Tail(ss), visible)

\* markPrivatizedScalarLvals: every LVal of that name becomes local.
RECURSIVE MarkName(_, _)
MarkName(n, x) ==
  [n EXCEPT !.children = [i \in 1 .. Len(n.children) |-> MarkName(n.children[i], x)],
            !.local = @ \/ (n.kind = "LVal" /\ n.text = x)]

\* A body that only runs a counted loop over an outer scalar: the scalar is
\* scratch and each worker gets its own.  At most one, as a set.
ScratchScalars(env, iv, body) ==
  IF /\ Len(body) = 2
     /\ body[1].kind = "AssignStmt" /\ IsLoopInit(body[1])
     /\ LET init == LoopInit(body[1])
        IN  /\ init.var # iv
            /\ init.var \in DOMAIN env.type /\ env.type[init.var] = "int"
            /\ init.expr.kind = "Number"
            /\ IsCanonicalWhile(body[2], init.var)
            /\ LET last == EndExpr(body[2])
                   inclusive == InclusiveEnd(body[2])
               IN  /\ last.kind = "Number"
                   /\ ~(inclusive /\ last.val = MaxInt)
                   /\ last.val - init.expr.val + (IF inclusive THEN 1 ELSE 0)
                        < ScratchLimit
            /\ \A m \in SubnodesOf(body) : init.var \notin DeclaredBy(m)
            /\ \A m \in SubnodesOf(BodyOf(body[2])) :
                 ~(m.kind = "AssignStmt" /\ IsScalarLVal(m.children[1])
                     /\ m.children[1].text = init.var)
  THEN {[var |-> body[1].children[1].text,
         init |-> body[1].children[2].val,
         end |-> EndExpr(body[2]).val,
         inclusive |-> InclusiveEnd(body[2])]}
  ELSE {}

\* The body as the analysis sees it, with every local LVal marked.
AnalyzedBody(env, iv, body) ==
  LET lexical == MarkLocalsSeq(body, {})
      scratch == {s.var : s \in ScratchScalars(env, iv, body)}
  IN  IF scratch = {} THEN lexical
      ELSE LET x == CHOOSE s \in scratch : TRUE
           IN  [i \in 1 .. Len(lexical) |-> MarkName(lexical[i], x)]

-----------------------------------------------------------------------------
(* The body.                                                               *)

\* The addends of  x = x + e  and  x = e + x : e, as a set.
ReductionAddend(stmt, x) ==
  LET rhs == stmt.children[2]
      IsX(n) == IsScalarLVal(n) /\ n.text = x
  IN  IF ~(stmt.children[1].text = x /\ rhs.kind = "BinaryExpr" /\ rhs.text = "+") THEN {}
      ELSE IF IsX(rhs.children[1]) THEN {rhs.children[2]}
      ELSE IF IsX(rhs.children[2]) THEN {rhs.children[1]} ELSE {}

IsReduction(env, stmt) ==
  LET x == stmt.children[1].text
  IN  /\ x \in DOMAIN env.type /\ env.type[x] = "int"
      /\ \E e \in ReductionAddend(stmt, x) : ~ContainsExternalRef(e, x)

Assignments(body) == {m \in SubnodesOf(body) : m.kind = "AssignStmt"}
ExternalScalarWrites(body) ==
  {m \in Assignments(body) : IsScalarLVal(m.children[1]) /\ ~m.children[1].local}
ArrayWrites(body) == {m \in Assignments(body) : IsArrayLVal(m.children[1])}
ArrayReads(body) == {m \in SubnodesOf(body) : IsArrayLVal(m)}

\* analyzeNode over the whole body.
BodyAllowed(env, iv, body) ==
  /\ \A s \in ToSet(body) : ~ContainsUnsafeCall(env, s)
  /\ \A m \in SubnodesOf(body) :
       m.kind \notin {"BreakStmt", "ContinueStmt", "ReturnStmt"}
  /\ \A m \in SubnodesOf(body) : IsDecl(m) =>
       \A d \in ToSet(m.children) : IsScalarDef(d)
  /\ \A m \in ExternalScalarWrites(body) :
       m.children[1].text # iv /\ IsReduction(env, m)
  /\ \A m \in ArrayWrites(body) :
       /\ PartitionedBy(env, m.children[1], iv)
       /\ \A r \in Subnodes(m.children[2]) :
            IsArrayLVal(r) /\ r.text = m.children[1].text
              => SameFirstPartitionIndex(env, m.children[1], r, iv)

Reductions(body) == {m.children[1].text : m \in ExternalScalarWrites(body)}

\* A reduction variable occurs in its own accumulations only.
RECURSIVE ReductionUsesValid(_, _)
ReductionUsesValid(n, x) ==
  CASE n.kind = "AssignStmt" /\ IsScalarLVal(n.children[1])
         /\ n.children[1].text = x /\ ~n.children[1].local ->
         \E e \in ReductionAddend(n, x) : ~ContainsExternalRef(e, x)
    [] IsScalarLVal(n) /\ n.text = x /\ ~n.local -> FALSE
    [] OTHER -> \A i \in 1 .. Len(n.children) : ReductionUsesValid(n.children[i], x)

\* Accesses to a written array stay in the partition of the write.
AccessesDisjoint(env, iv, body) ==
  \A w \in {m.children[1] : m \in ArrayWrites(body)}, r \in ArrayReads(body) :
    (w # r /\ w.text = r.text) => SameFirstPartitionIndex(env, w, r, iv)

\* The loop bound: evaluated once by the lowering, so it must be an int
\* that no iteration changes.
RECURSIVE IsProvablyInt(_, _)
IsProvablyInt(env, n) ==
  CASE n.kind = "Number" -> TRUE
    [] n.kind = "LVal" -> IsScalarLVal(n) /\ n.text \in DOMAIN env.type
                            /\ env.type[n.text] = "int"
    [] n.kind \in {"UnaryExpr", "BinaryExpr"} ->
         \A i \in 1 .. Len(n.children) : IsProvablyInt(env, n.children[i])
    [] OTHER -> FALSE

LoopBoundValid(env, init, loop, body) ==
  LET last == EndExpr(loop)
      written == {m.children[1].text : m \in ExternalScalarWrites(body)}
  IN  /\ (IF init.declaration THEN init.type ELSE env.type[init.var]) = "int"
      /\ \A m \in Subnodes(last) :
           /\ m.kind # "CallExpr"
           /\ ~IsArrayLVal(m)
           /\ IsScalarLVal(m) => m.text # init.var /\ m.text \notin written
      /\ IsProvablyInt(env, last)
      /\ ~(InclusiveEnd(loop) /\ last = Number(MaxInt))

-----------------------------------------------------------------------------
(* The plan.                                                               *)

RuntimeWorkCost(body) == SumWork(EstimateRuntimeStmtCost, 1, body)
EstimatedCost(body) == SumOf(EstimateStmtCost, body)

ConstantTripCount(init, loop) ==
  IF init.expr.kind = "Number" /\ EndExpr(loop).kind = "Number"
  THEN {Saturate(Larger(0, EndExpr(loop).val - init.expr.val
                             + (IF InclusiveEnd(loop) THEN 1 ELSE 0)))}
  ELSE {}

ProfitableLoop(init, loop, body) ==
  /\ \A trips \in ConstantTripCount(init, loop) :
       trips * Larger(1, RuntimeWorkCost(body)) >= WorkThreshold
  /\ \/ Reductions(body) # {}
     \/ \E m \in SubnodesOf(body) : m.kind = "WhileStmt"
     \/ EstimatedCost(body) >= BodyThreshold

\* analyzeParallelLoopPair: may the two statements run as a parallel loop.
Accepts(env, initStmt, loop) ==
  /\ IsLoopInit(initStmt)
  /\ LET init == LoopInit(initStmt)
         iv == init.var
     IN  /\ IsCanonicalWhile(loop, iv)
         /\ LET raw == BodyOf(loop)
                body == AnalyzedBody(env, iv, raw)
                scratch == ScratchScalars(env, iv, raw)
            IN  /\ \A s \in ToSet(raw) : iv \notin DeclaredBy(s)
                /\ LoopBoundValid(env, init, loop, body)
                /\ BodyAllowed(env, iv, body)
                /\ \A x \in Reductions(body), s \in ToSet(body) : ReductionUsesValid(s, x)
                /\ AccessesDisjoint(env, iv, body)
                /\ ArrayWrites(body) # {} \/ Reductions(body) # {}
                /\ ~ \E x, y \in Reductions(body) : x # y
                /\ scratch # {} =>
                     /\ ArrayWrites(body) = {}
                     /\ \E x \in Reductions(body) : \A s \in scratch : x # s.var
                /\ ProfitableLoop(init, loop, body)

\* Mutation: the indices of array accesses are not walked.
ShallowCaptures(env, iv, body) ==
  LET uses == {m \in SubnodesOf(body) : m.kind = "LVal"}
      inIndices == UNION {SubnodesOf(u.children) : u \in uses}
  IN  [name : {m.text : m \in {u \in uses : IsArrayLVal(u)}}, array : {TRUE}]
        \cup
      [name : {m.text : m \in {u \in uses \ inIndices : IsScalarLVal(u) /\ ~u.local}}
                \ (Reductions(body) \cup {iv}),
       array : {FALSE}]

\* The variables of the enclosing function a worker uses: arrays, and
\* scalars that are neither the loop variable, local, nor the reduction.
\* Names at the head of an LVal count; an array in an index counts too.
Captures(env, iv, body) ==
  LET uses == {m \in SubnodesOf(body) : m.kind = "LVal"}
  IN  [name : {m.text : m \in {u \in uses : IsArrayLVal(u)}}, array : {TRUE}]
        \cup
      [name : {m.text : m \in {u \in uses : IsScalarLVal(u) /\ ~u.local}}
                \ (Reductions(body) \cup {iv}),
       array : {FALSE}]

=============================================================================

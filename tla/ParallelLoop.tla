---------------------------- MODULE ParallelLoop ----------------------------
(***************************************************************************)
(* A parallelized loop from source to result: the planner decides          *)
(* (ParallelPlan), the lowering wraps the loop (lowerParallelLoop), two    *)
(* workers run its iterations concurrently, and the enclosing function     *)
(* picks up the reduction, the induction variable and the scratch scalar.  *)
(*                                                                         *)
(* A program record holds the two statements, the scalars and arrays of    *)
(* the enclosing function and the attributes of its symbols.  An           *)
(* assignment reads in one step and stores in the next, so that the reads  *)
(* and stores of the two workers interleave.  Where the range is cut, and  *)
(* whether it is cut at all, is the runtime's choice (ParallelRuntime);    *)
(* here it is arbitrary.                                                   *)
(***************************************************************************)
EXTENDS ParallelPlan

CONSTANT Programs  \* the program records

VARIABLES
  prog,     \* the loop being compiled and run
  plan,     \* what the planner and the lowering decided
  phase,    \* where the enclosing function is
  scalars,  \* the scalars of the enclosing function
  mem,      \* the array objects
  begin,    \* the range handed to the runtime: [begin, end)
  rawEnd,   \* the value of the source bound
  end,
  todo,     \* what each thread still has to execute
  scopes    \* the scopes of each thread, innermost last

vars == <<prog, plan, phase, scalars, mem, begin, rawEnd, end, todo, scopes>>

Threads == {"main", "helper"}

-----------------------------------------------------------------------------
(* Execution of the statements.                                            *)

MulW(a, b) == ((a * b - MinInt) % Modulus) + MinInt

Truth(b) == IF b THEN 1 ELSE 0

Bind(frame, x, v) == [y \in DOMAIN frame \cup {x} |-> IF y = x THEN v ELSE frame[y]]

\* The innermost scope that declares x.
ScopeOf(x, scs) ==
  CHOOSE d \in 1 .. Len(scs) :
    x \in DOMAIN scs[d] /\ \A e \in d + 1 .. Len(scs) : x \notin DOMAIN scs[e]

RECURSIVE Eval(_, _, _)
Eval(n, scs, arrays) ==
  LET Arg(i) == Eval(n.children[i], scs, arrays)
  IN
  CASE n.kind = "Number" -> n.val
    [] IsScalarLVal(n) -> scs[ScopeOf(n.text, scs)][n.text]
    [] IsArrayLVal(n) -> arrays[prog.object[n.text]][[i \in 1 .. Len(n.children) |-> Arg(i)]]
    [] n.kind = "UnaryExpr" ->
         CASE n.text = "-" -> SubW(0, Arg(1))
           [] n.text = "+" -> Arg(1)
           [] OTHER -> Truth(Arg(1) = 0)
    [] n.kind = "BinaryExpr" ->
         CASE n.text = "+" -> AddW(Arg(1), Arg(2))
           [] n.text = "-" -> SubW(Arg(1), Arg(2))
           [] n.text = "*" -> MulW(Arg(1), Arg(2))
           [] n.text = "<" -> Truth(Arg(1) < Arg(2))
           [] n.text = "<=" -> Truth(Arg(1) <= Arg(2))
           [] OTHER -> Truth(Arg(1) = Arg(2))
    [] n.kind = "CallExpr" ->
         LET f == prog.env.funs[n.text]
         IN  Eval(f.ret, <<[p \in ToSet(f.params) |->
                              Arg(CHOOSE i \in 1 .. Len(f.params) : f.params[i] = p)]>>,
                  arrays)

\* Work items that no source statement has: the pending store of an
\* assignment and the end of a block.
StoreItem(lhs, index, v) ==
  [Node("Store", lhs.text, <<>>) EXCEPT !.val = v] @@ ("index" :> index)
EndItem == Node("End", "", <<>>)

\* One step of a thread: what is left to do, its scopes, and the arrays.
Step(items, scs, arrays) ==
  LET n == Head(items)
      rest == Tail(items)
      top == Len(scs)
      Result(t, s, a) == [todo |-> t, scopes |-> s, mem |-> a]
  IN
  CASE n.kind = "AssignStmt" ->
         LET lhs == n.children[1]
             index == [i \in 1 .. Len(lhs.children) |-> Eval(lhs.children[i], scs, arrays)]
         IN  Result(<<StoreItem(lhs, index, Eval(n.children[2], scs, arrays))>> \o rest,
                    scs, arrays)
    [] n.kind = "Store" ->
         IF n.index = <<>>
         THEN Result(rest, [scs EXCEPT ![ScopeOf(n.text, scs)][n.text] = n.val], arrays)
         ELSE Result(rest, scs, [arrays EXCEPT ![prog.object[n.text]][n.index] = n.val])
    [] n.kind = "VarDecl" ->
         LET d == n.children[1]
             declared == [scs EXCEPT ![top] = Bind(@, d.text, 0)]
         IN  Result(rest,
                    IF IsScalarDef(d)
                    THEN [scs EXCEPT ![top] =
                            Bind(@, d.text, Eval(d.children[1], declared, arrays))]
                    ELSE scs,
                    arrays)
    [] n.kind = "IfStmt" ->
         Result(IF Eval(n.children[1], scs, arrays) # 0
                THEN <<n.children[2]>> \o rest ELSE rest, scs, arrays)
    [] n.kind = "WhileStmt" ->
         Result(IF Eval(n.children[1], scs, arrays) # 0
                THEN <<n.children[2]>> \o items ELSE rest, scs, arrays)
    [] n.kind = "BreakStmt" ->
         LET depth == CHOOSE i \in 1 .. Len(rest) :
                        rest[i].kind = "WhileStmt"
                          /\ \A j \in 1 .. i - 1 : rest[j].kind # "WhileStmt"
             ends == Cardinality({j \in 1 .. depth : rest[j].kind = "End"})
         IN  Result(SubSeq(rest, depth + 1, Len(rest)), SubSeq(scs, 1, top - ends), arrays)
    [] n.kind = "Block" ->
         Result(n.children \o <<EndItem>> \o rest, Append(scs, <<>>), arrays)
    [] n.kind = "End" -> Result(rest, Front(scs), arrays)

\* A thread run to the end by itself.
RECURSIVE RunAll(_)
RunAll(t) == IF t.todo = <<>> THEN t ELSE RunAll(Step(t.todo, t.scopes, t.mem))

-----------------------------------------------------------------------------
(* The lowering's own conditions and the code it emits around the loop.    *)

\* aliasPairNeedsRuntimeGuard: two arrays of one element type, one of them
\* written, that are not both known to be different objects.
MayAlias(p, written, a, b) ==
  /\ a # b
  /\ {a, b} \cap written # {}
  /\ p.env.type[a] = p.env.type[b]
  /\ "param" \in {p.storage[a], p.storage[b]}
  /\ {p.storage[a], p.storage[b]} \subseteq {"param", "global"}

\* lowerParallelLoop up to the first statement it emits: is the loop
\* lowered as a range call, and what the call needs.
PlanOf(p) ==
  LET iv == LoopInit(p.init).var
      body == AnalyzedBody(p.env, iv, BodyOf(p.loop))
      scratch == ScratchScalars(p.env, iv, BodyOf(p.loop))
      fields == Captures(p.env, iv, body)
      arrays == {f.name : f \in {g \in fields : g.array}}
      written == {w.children[1].text : w \in ArrayWrites(body)}
      pairs == {q \in arrays \X arrays : MayAlias(p, written, q[1], q[2])}
  IN  [parallel |->
         /\ Accepts(p.env, p.init, p.loop)
         /\ LoopInit(p.init).declaration \/ p.storage[iv] # "global"
         /\ \A f \in fields : f.array = (f.name \in DOMAIN p.object)
         /\ \A s \in scratch : p.storage[s.var] # "global"
         /\ \A q \in pairs : p.rank[q[1]] = p.rank[q[2]],
       iv |-> iv,
       inclusive |-> InclusiveEnd(p.loop),
       scratch |-> scratch,
       reductions |-> Reductions(body),
       captured |-> {f.name : f \in {g \in fields : ~g.array}},
       aliasPairs |-> pairs]

\* Mutation: the increment is lost.
StuckRangeLoop(relop, bound) ==
  WhileStmt(Binary(relop, Var(plan.iv), Number(bound)), Block(<<Block(BodyOf(prog.loop))>>))

\* The loop of a worker and of the sequential fallbacks: the body in a
\* scope of its own, then the increment.
RangeLoop(relop, bound) ==
  LET v == Var(plan.iv)
  IN  WhileStmt(Binary(relop, v, Number(bound)),
                Block(<<Block(BodyOf(prog.loop)),
                        Assign(v, Binary("+", v, Number(1)))>>))

\* The outermost scope of a worker: by-value captures, private scratch and
\* reduction temps, and the induction variable.
WorkerScope(from) ==
  LET private == {s.var : s \in plan.scratch} \cup plan.reductions
  IN  [x \in plan.captured \cup private \cup {plan.iv} |->
         IF x = plan.iv THEN from ELSE IF x \in private THEN 0 ELSE scalars[x]]

Init ==
  /\ prog \in Programs
  /\ plan = [parallel |-> FALSE]
  /\ phase = "analyze"
  /\ scalars = prog.scalars
  /\ mem = prog.mem
  /\ begin = 0
  /\ rawEnd = 0
  /\ end = 0
  /\ todo = [t \in Threads |-> <<>>]
  /\ scopes = [t \in Threads |-> <<>>]

\* lowerBlock meets an initializer followed by a while statement.
Analyze ==
  /\ phase = "analyze"
  /\ phase' = "enter"
  /\ plan' = PlanOf(prog)
  /\ UNCHANGED <<prog, scalars, mem, begin, rawEnd, end, todo, scopes>>

RunSequentially(items, frame) ==
  /\ phase' = "sequential"
  /\ todo' = [todo EXCEPT !["main"] = items]
  /\ scopes' = [scopes EXCEPT !["main"] = <<frame>>]

\* The planner or the lowering declines: the ordinary while lowering.
LowerSequential ==
  /\ phase = "enter"
  /\ ~plan.parallel
  /\ RunSequentially(<<prog.init, prog.loop>>, scalars)
  /\ UNCHANGED <<prog, plan, scalars, mem, begin, rawEnd, end>>

\* Mutation: the inclusive bound is normalized in 64 bits.
WideHalfOpenEnd(last) == IF plan.inclusive THEN last + 1 ELSE last

\* The exclusive end of the range: an inclusive bound plus one.
HalfOpenEnd(last) == IF plan.inclusive THEN AddW(last, 1) ELSE last

\* The parallel lowering evaluates the initializer and the bound once.
EnterParallel ==
  /\ phase = "enter"
  /\ plan.parallel
  /\ LET frame == Bind(scalars, plan.iv, Eval(LoopInit(prog.init).expr, <<scalars>>, mem))
         last == Eval(EndExpr(prog.loop), <<frame>>, mem)
     IN  /\ scalars' = frame
         /\ begin' = frame[plan.iv]
         /\ rawEnd' = last
         /\ end' = HalfOpenEnd(last)
  /\ phase' = "guard"
  /\ UNCHANGED <<prog, plan, mem, todo, scopes>>

\* Mutation: the guard left out.
NoAliasGuard == FALSE

\* The two reasons to run the fallback loop on the original bound.
EndpointOverflows == plan.inclusive /\ rawEnd = MaxInt
Aliased == \E p \in plan.aliasPairs : prog.object[p[1]] = prog.object[p[2]]

Fallback ==
  /\ phase = "guard"
  /\ EndpointOverflows \/ Aliased
  /\ RunSequentially(<<RangeLoop(prog.loop.children[1].text, rawEnd)>>, scalars)
  /\ UNCHANGED <<prog, plan, scalars, mem, begin, rawEnd, end>>

\* The range call: the main thread runs [begin, mid), the helper the rest.
\* With mid = end the helper has nothing to do, as on the direct path.
CallRange ==
  /\ phase = "guard"
  /\ ~EndpointOverflows
  /\ ~Aliased
  /\ phase' = "run"
  /\ \E mid \in (IF begin < end THEN begin .. end ELSE {end}) :
       /\ todo' = [t \in Threads |->
                     <<RangeLoop("<", IF t = "main" THEN mid ELSE end)>>]
       /\ scopes' = [t \in Threads |->
                       <<WorkerScope(IF t = "main" THEN begin ELSE mid)>>]
  /\ UNCHANGED <<prog, plan, scalars, mem, begin, rawEnd, end>>

ThreadStep(t) ==
  /\ phase \in {"run", "sequential"}
  /\ todo[t] # <<>>
  /\ LET r == Step(todo[t], scopes[t], mem)
     IN  /\ todo' = [todo EXCEPT ![t] = r.todo]
         /\ scopes' = [scopes EXCEPT ![t] = r.scopes]
         /\ mem' = r.mem
  /\ UNCHANGED <<prog, plan, phase, scalars, begin, rawEnd, end>>

\* The sequential loop is through: its scope is the function's.
FinishSequential ==
  /\ phase = "sequential"
  /\ todo["main"] = <<>>
  /\ phase' = "done"
  /\ scalars' = scopes["main"][1]
  /\ UNCHANGED <<prog, plan, mem, begin, rawEnd, end, todo, scopes>>

\* Where a counted scratch loop leaves its variable.
ScratchFinal(s) ==
  LET last == IF s.inclusive THEN AddW(s.end, 1) ELSE s.end
  IN  IF s.init < last THEN last ELSE s.init

\* The range call returned: add the reduction, then, when there was an
\* iteration at all, set the induction variable and the scratch scalar.
FinishParallel ==
  /\ phase = "run"
  /\ \A t \in Threads : todo[t] = <<>>
  /\ phase' = "done"
  /\ scalars' =
       [x \in DOMAIN scalars |->
          IF x \in plan.reductions
          THEN AddW(scalars[x], AddW(scopes["main"][1][x], scopes["helper"][1][x]))
          ELSE IF begin < end /\ x = plan.iv THEN end
          ELSE IF begin < end /\ \E s \in plan.scratch : s.var = x
               THEN ScratchFinal(CHOOSE s \in plan.scratch : s.var = x)
          ELSE scalars[x]]
  /\ UNCHANGED <<prog, plan, mem, begin, rawEnd, end, todo, scopes>>

Terminated == phase = "done" /\ UNCHANGED vars

Next ==
  \/ Analyze
  \/ LowerSequential
  \/ EnterParallel
  \/ Fallback
  \/ CallRange
  \/ \E t \in Threads : ThreadStep(t)
  \/ FinishSequential
  \/ FinishParallel
  \/ Terminated

\* Both threads are scheduled; the code between runs straight on.
Fairness ==
  /\ WF_vars(Analyze \/ LowerSequential \/ EnterParallel \/ Fallback \/ CallRange
               \/ FinishSequential \/ FinishParallel)
  /\ \A t \in Threads : WF_vars(ThreadStep(t))

Spec == Init /\ [][Next]_vars

FairSpec == Spec /\ Fairness

-----------------------------------------------------------------------------
(* Properties.                                                             *)

TypeOK ==
  /\ phase \in {"analyze", "enter", "guard", "sequential", "run", "done"}
  /\ \A x \in DOMAIN scalars : scalars[x] \in Word
  /\ DOMAIN mem = DOMAIN prog.mem
  /\ \A o \in DOMAIN mem : mem[o] \in [DOMAIN prog.mem[o] -> Word]
  /\ {begin, rawEnd, end} \subseteq Word
  /\ DOMAIN todo = Threads /\ DOMAIN scopes = Threads

\* What the source loop computes when it runs by itself.
Reference ==
  RunAll([todo |-> <<prog.init, prog.loop>>, scopes |-> <<prog.scalars>>,
          mem |-> prog.mem])

\* However the loop was lowered, wherever the range was cut and however the
\* workers interleaved: the arrays and the scalars of the enclosing
\* function, the induction variable included, end as the source loop leaves
\* them.
SameAsSequential ==
  phase = "done" =>
    LET r == Reference IN mem = r.mem /\ scalars = r.scopes[1]

\* The array cell a thread is about to store to, and those it is about to
\* read.
PendingItem(t, kinds) ==
  IF todo[t] = <<>> THEN {} ELSE {n \in {Head(todo[t])} : n.kind \in kinds}

StoreCells(t) ==
  {<<prog.object[n.text], n.index>> : n \in {m \in PendingItem(t, {"Store"}) : m.index # <<>>}}

ReadCells(t) ==
  UNION {{<<prog.object[m.text],
            [i \in 1 .. Len(m.children) |-> Eval(m.children[i], scopes[t], mem)]>> :
            m \in {x \in Subnodes(n.children[2]) : IsArrayLVal(x)}} :
         n \in PendingItem(t, {"AssignStmt"})}

\* No data race: while both workers run, neither is about to store to an
\* array cell that the other is about to read or to store to.
NoDataRace ==
  phase = "run" =>
    \A t, u \in Threads : t # u =>
      StoreCells(t) \cap (StoreCells(u) \cup ReadCells(u)) = {}

\* A worker only names what its own scopes hold: every scalar of the body
\* was captured, privatized or declared.
NamesBound ==
  phase = "run" =>
    \A t \in Threads :
      todo[t] # <<>> =>
        LET n == Head(todo[t])
            read == IF n.kind \in {"AssignStmt", "VarDecl"} THEN Subnodes(n)
                    ELSE IF n.kind \in {"IfStmt", "WhileStmt"} THEN Subnodes(n.children[1])
                    ELSE {}
        IN  \A m \in {x \in read : IsScalarLVal(x)} :
              \/ \E d \in 1 .. Len(scopes[t]) : m.text \in DOMAIN scopes[t][d]
              \/ n.kind = "VarDecl" /\ n.children[1].text = m.text

\* Once the workers have started, the loop completes.
RangeCompletes == (phase = "run") ~> (phase = "done")

=============================================================================

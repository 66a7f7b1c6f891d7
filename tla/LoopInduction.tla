--------------------------- MODULE LoopInduction ---------------------------
(***************************************************************************)
(* runIvPass for one function: a temp that is an affine function of the    *)
(* counter of a loop becomes a counter of its own.  It gets a phi in the   *)
(* header, a first value in front of the loop and a step at its end; what  *)
(* read the temp reads the phi, and a condition that compares the counter  *)
(* with a constant compares the phi with the image of the constant.  Pure  *)
(* definitions that nothing visible depends on then go.  There is no test  *)
(* whether the function is in SSA form, before or after.                   *)
(***************************************************************************)
EXTENDS QuadFlow

VARIABLES
  inducing,   \* "idle", "plan", "insert", "clean", "done"
  uninduced,  \* the function the pass was given, without unreachable blocks
  induced,    \* the function as it stands
  recurrences,  \* the new counters that are still to be inserted
  taken       \* the numbers that a copied step may not get

inductionVars == <<inducing, uninduced, induced, recurrences, taken>>

NothingToReduce == Function(<<>>, <<>>, <<>>, 0)

Init ==
  /\ inducing = "idle"
  /\ uninduced = NothingToReduce
  /\ induced = NothingToReduce
  /\ recurrences = <<>>
  /\ taken = {}

Begin(f) ==
  /\ inducing = "idle"
  /\ inducing' = "plan"
  /\ uninduced' = EliminateUnreachable(f)
  /\ induced' = uninduced'
  /\ UNCHANGED <<recurrences, taken>>

-----------------------------------------------------------------------------
\* The statements in the order of the blocks; a place in the list is the order
\* that the pass compares.
Listed(f) ==
  FlattenSeq([k \in DOMAIN f.order |->
    [i \in DOMAIN f.code[f.order[k]] |->
       [block |-> f.order[k], nth |-> i, stm |-> f.code[f.order[k]][i]]]])

\* DefUseChain knows the first definition of a temp; a parameter that is not
\* assigned to has none.
DefSites(list, t) ==
  LET sites == {n \in DOMAIN list : list[n].stm.dst = t}
  IN IF sites = {} THEN {} ELSE {Min(sites)}

PlacesIn(list, l) == {n \in DOMAIN list : list[n].block \in l.blocks}

Calculates(s) == s.kind \in {"MOVE", "MOVE_BINOP"}

\* What the loop defines, but for what it calculates from what it leaves alone.
Varying(list, l) ==
  LET inside == PlacesIn(list, l)
      Settle(V) == V \ {list[n].stm.dst : n \in {m \in inside :
                          Calculates(list[m].stm) /\ Uses(list[m].stm) \cap V = {}}}
  IN Rounds(Cardinality(inside), Settle, UNION {Defs(list[n].stm) : n \in inside})

\* parseUpdate: by what a statement changes the phi, as a set of one or none.
StepsBy(s, phi, varying) ==
  LET self == Temp(phi)
      Still(u) == ~IsTemp(u) \/ u.temp \notin varying
      Step(u) == {[down |-> FALSE, by |-> u]}
      Down(u) == {IF IsTemp(u) THEN [down |-> TRUE, by |-> u]
                  ELSE [down |-> FALSE, by |-> Const(SubW(0, u.const))]}
  IN CASE s.kind # "MOVE_BINOP" -> {}
       [] s.op = "+" /\ s.src[1] = self /\ Still(s.src[2]) -> Step(s.src[2])
       [] s.op = "+" /\ s.src[2] = self /\ Still(s.src[1]) -> Step(s.src[1])
       [] s.op = "-" /\ s.src[1] = self /\ Still(s.src[2]) -> Down(s.src[2])
       [] OTHER -> {}

\* discoverBasicInductionVars.  A phi that several blocks of the loop lead to is
\* found there as well, but nothing is planned for it.
BasicVars(f, list, l) ==
  LET varying == Varying(list, l)
      Inner(s) == {i \in DOMAIN s.labels : s.labels[i] \in l.blocks}
      Outer(s) == DOMAIN s.labels \ Inner(s)
      fit == {s \in ToSet(PhisOf(f, l.header)) : Cardinality(Inner(s)) = 1 /\ Outer(s) # {}}
      Of(s) ==
        LET next == s.src[Min(Inner(s))].temp
        IN {[phi |-> s.dst, first |-> s.src[Max(Outer(s))].temp, next |-> next,
             step |-> d, place |-> n] :
              n \in {m \in DefSites(list, next) : m \in PlacesIn(list, l)},
              d \in UNION {StepsBy(list[m].stm, s.dst, varying) : m \in DefSites(list, next)}}
  IN UNION {Of(s) : s \in fit}

\* a * b + c of a counter b; a constant has no counter.
Affine(b, a, c) == [base |-> b, coeff |-> a, constant |-> c]

AffineOf(values, u) ==
  IF ~IsTemp(u) THEN {Affine(NoTemp, 0, u.const)}
  ELSE IF u.temp \in DOMAIN values THEN {values[u.temp]} ELSE {}

\* evalBinop.
Combine(op, v, w) ==
  LET Scaled(u, k) == Affine(u.base, Product(u.coeff, k), Product(u.constant, k))
  IN CASE op \in {"+", "-"} /\ (NoTemp \in {v.base, w.base} \/ v.base = w.base) ->
            {Affine(Max({v.base, w.base}), Operate(op, v.coeff, w.coeff),
                    Operate(op, v.constant, w.constant))}
       [] op = "*" /\ v.base = NoTemp /\ w.base # NoTemp -> {Scaled(w, v.constant)}
       [] op = "*" /\ w.base = NoTemp /\ v.base # NoTemp -> {Scaled(v, w.constant)}
       [] OTHER -> {}

\* discoverDerivedInductionVars: block by block, what follows from the values
\* found so far.  The counter and its next value count as the same.  A temp that
\* only further calculations read is not reported.
DerivedVars(list, l, basics) ==
  LET basic == {b.phi : b \in basics} \cup {b.next : b \in basics}
      start == FoldSet(LAMBDA b, vs : (b.phi :> Affine(b.phi, 1, 0))
                                        @@ (b.next :> Affine(b.phi, 1, 0)) @@ vs,
                       <<>>, basics)
      Escapes(t) == \E n \in DOMAIN list : t \in Uses(list[n].stm) /\ list[n].stm.kind # "MOVE_BINOP"
      Found(values, s) ==
        IF s.kind # "MOVE_BINOP" \/ s.dst \in basic THEN {}
        ELSE {v \in UNION {Combine(s.op, a, b) : a \in AffineOf(values, s.src[1]),
                                                 b \in AffineOf(values, s.src[2])} :
                v.base # NoTemp /\ v.coeff # 0}
      Source(values, s) ==
        IF IsTemp(s.src[1]) /\ s.src[1] \in {Temp(t) : t \in DOMAIN values}
        THEN s.src[1].temp ELSE s.src[2].temp
      Visit(acc, n) ==
        LET s == list[n].stm
            found == Found(acc.values, s)
            v == CHOOSE w \in found : TRUE
        IN IF found = {} THEN acc
           ELSE [values |-> (s.dst :> v) @@ acc.values,
                 vars |-> IF Escapes(s.dst)
                          THEN Append(acc.vars, [temp |-> s.dst, value |-> v, place |-> n,
                                                 source |-> Source(acc.values, s)])
                          ELSE acc.vars]
      inside == SelectSeq([n \in DOMAIN list |-> n], LAMBDA n : list[n].block \in l.blocks)
  IN FoldLeft(Visit, [values |-> start, vars |-> <<>>], inside).vars

-----------------------------------------------------------------------------
\* generateStrengthReductionPlan.

\* nextFreeTemp.
NextFree(used, from) == Min({n \in from .. from + Cardinality(used) : n \notin used})

\* Each new temp is the first free one behind the one before, the first behind t.
NewTemps(used, t, names) ==
  FoldLeft(LAMBDA acc, name :
             LET n == NextFree(used, acc.last + 1)
             IN [last |-> n, of |-> (name :> n) @@ acc.of],
           [last |-> t, of |-> <<>>], names).of

\* Mutation: no first value waits for the counter to have stepped.
NeverAfter(d, b) == FALSE

\* Does d stand behind the step of its counter?
AfterUpdate(d, b) == d.source = b.next \/ d.place > b.place

Magnitude(n) == IF n < 0 THEN SubW(0, n) ELSE n

Recurrence(l, d, b, used, preheader, latch) ==
  LET after == AfterUpdate(d, b)
      Needed(name) ==
        CASE name = "adjusted" -> after
          [] name = "product" -> d.value.coeff # 1 /\ d.value.constant # 0
          [] name = "stride" -> IsTemp(b.step.by) /\ Magnitude(d.value.coeff) # 1
          [] OTHER -> TRUE
  IN [header |-> l.header, preheader |-> preheader, latch |-> latch,
      old |-> d.temp, place |-> d.place, value |-> d.value,
      first |-> b.first, step |-> b.step, after |-> after,
      temps |-> NewTemps(used, d.temp,
                  SelectSeq(<<"phi", "init", "next", "adjusted", "product", "stride">>, Needed))]

Definitions(f) == Params(f) \cup UNION {Defs(s) : s \in Statements(f)}

\* The first blocks outside and inside a loop that lead to its header.
Entries(f, l) == SelectSeq(f.order, LAMBDA b : l.header \in Exits(f, b) /\ b \notin l.blocks)
Latches(f, l) == SelectSeq(f.order, LAMBDA b : l.header \in Exits(f, b) /\ b \in l.blocks)

\* The loops are visited in the order of their addresses, whatever that is.
PlanFor(f, list, loops) ==
  LET OfLoop(acc, l) ==
        LET basics == BasicVars(f, list, l)
            Add(a, d) ==
              LET b == CHOOSE c \in basics : c.phi = d.value.base
                  r == Recurrence(l, d, b, a.used, Entries(f, l)[1], Latches(f, l)[1])
              IN [used |-> a.used \cup {r.temps[name] : name \in DOMAIN r.temps},
                  plan |-> Append(a.plan, r)]
        IN IF basics = {} \/ Entries(f, l) = <<>> THEN acc
           ELSE FoldLeft(Add, acc, DerivedVars(list, l, basics))
  IN FoldLeft(OfLoop, [used |-> Definitions(f), plan |-> <<>>], loops).plan

-----------------------------------------------------------------------------
\* applyStrengthReduction.

Flip(op) ==
  CASE op = ">" -> "<" [] op = ">=" -> "<=" [] op = "<" -> ">" [] op = "<=" -> ">="
    [] OTHER -> op

\* Mutation: the limit is not moved by the step that the new counter is ahead.
UnadjustedLimit(r, c) == AddW(Product(r.value.coeff, c), r.value.constant)

\* What the new counter is when the old one is c.
Limit(r, c) ==
  LET at == IF r.after THEN AddW(c, r.step.by.const) ELSE c
  IN AddW(Product(r.value.coeff, at), r.value.constant)

\* rewriteCJumpLimit.
RewriteLimit(s, r) ==
  LET sides == {k \in {1, 2} : s.src[k] = Temp(r.value.base) /\ ~IsTemp(s.src[3 - k])}
      k == Min(sides)
  IN IF s.kind # "CJUMP" \/ (r.after /\ IsTemp(r.step.by)) THEN s
     ELSE IF sides = {} THEN s
     ELSE [s EXCEPT !.src[k] = Temp(r.temps["phi"]),
                    !.src[3 - k] = Const(Limit(r, @.const)),
                    !.op = IF r.value.coeff < 0 THEN Flip(@) ELSE @]

\* The phi that stands for each temp that is replaced.
Replacements(plan) ==
  FoldLeft(LAMBDA map, r : (r.old :> r.temps["phi"]) @@ map, <<>>, plan)

\* remapReplacementOperandTemps.
Remapped(r, map) ==
  LET To(t) == IF t # r.old /\ t \in DOMAIN map THEN map[t] ELSE t
  IN [r EXCEPT !.first = To(@),
               !.step.by = IF IsTemp(@) THEN Temp(To(@.temp)) ELSE @]

\* The conditions and all uses are rewritten, and the replaced definitions go.
Rewritten(f, list, plan) ==
  LET map == Replacements(plan)
      gone == {<<list[r.place].block, list[r.place].nth>> : r \in ToSet(plan)}
      Turn(s) == RewriteUsesBy(map, FoldLeft(RewriteLimit, s, plan))
      Stays(b) == SelectSeq([i \in DOMAIN f.code[b] |-> i], LAMBDA i : <<b, i>> \notin gone)
  IN [f EXCEPT !.code = [b \in DOMAIN @ |->
        [k \in DOMAIN Stays(b) |-> Turn(f.code[b][Stays(b)[k]])]]]

PlanRecurrences ==
  /\ inducing = "plan"
  /\ \E list \in {Listed(induced)} :
       \E loops \in SetToSeqs({l \in NaturalLoopsOf(FlowOf(induced)) : PhisOf(induced, l.header) # <<>>}) :
         \E plan \in {PlanFor(induced, list, loops)} :
           /\ recurrences' = [k \in DOMAIN plan |-> Remapped(plan[k], Replacements(plan))]
           /\ induced' = Rewritten(induced, list, plan)
           /\ taken' = Definitions(induced)
  /\ inducing' = "insert"
  /\ UNCHANGED uninduced

\* materializeInvariantTempInPreheader: acc.copies are the temps copied so far,
\* acc.code their calculations.
RECURSIVE Materialize(_, _, _, _)
Materialize(list, preheader, acc, t) ==
  LET sites == {n \in DefSites(list, t) :
                  list[n].block # preheader /\ Calculates(list[n].stm)}
      s == list[Min(sites)].stm
      inner == FoldLeft(LAMBDA a, u : Materialize(list, preheader, a, u), acc, SetToSeq(Uses(s)))
      new == NextFree(inner.taken, t + 1)
  IN IF t \in DOMAIN acc.copies \/ sites = {} THEN acc
     ELSE [code |-> Append(inner.code, [RewriteUsesBy(inner.copies, s) EXCEPT !.dst = new]),
           taken |-> inner.taken \cup {new},
           copies |-> (t :> new) @@ inner.copies]

\* A negative constant is subtracted.
Offset(t, u, n) == MoveBinop(t, IF n < 0 THEN "-" ELSE "+", Temp(u), Const(Magnitude(n)))

\* buildInitStatements.
InitCode(r, by) ==
  LET at == IF r.after THEN r.temps["adjusted"] ELSE r.first
      init == r.temps["init"]
      adjust == IF IsTemp(by)
                THEN MoveBinop(at, IF r.step.down THEN "-" ELSE "+", Temp(r.first), by)
                ELSE Offset(at, r.first, by.const)
      scale(t) == MoveBinop(t, "*", Temp(at), Const(r.value.coeff))
  IN (IF r.after THEN <<adjust>> ELSE <<>>)
     \o CASE r.value.coeff = 1 /\ r.value.constant = 0 -> <<Move(init, Temp(at))>>
          [] r.value.coeff = 1 /\ r.value.constant # 0 -> <<Offset(init, at, r.value.constant)>>
          [] r.value.coeff # 1 /\ r.value.constant = 0 -> <<scale(init)>>
          [] OTHER -> <<scale(r.temps["product"]),
                        Offset(init, r.temps["product"], r.value.constant)>>

\* buildStepPreparation.
StrideCode(r, by) ==
  IF "stride" \in DOMAIN r.temps
  THEN <<MoveBinop(r.temps["stride"], "*", by, Const(Magnitude(r.value.coeff)))>>
  ELSE <<>>

\* buildUpdateStatement.
UpdateOf(r, by) ==
  LET stride == IF "stride" \in DOMAIN r.temps THEN Temp(r.temps["stride"]) ELSE by
      op == IF r.step.down = (r.value.coeff < 0) THEN "+" ELSE "-"
  IN IF IsTemp(by) THEN MoveBinop(r.temps["next"], op, Temp(r.temps["phi"]), stride)
     ELSE Offset(r.temps["next"], r.temps["phi"], Product(r.value.coeff, by.const))

BeforeEnd(code, more) == Front(code) \o more \o <<Last(code)>>

InsertRecurrence ==
  /\ inducing = "insert"
  /\ recurrences # <<>>
  /\ LET r == Head(recurrences)
         start == [code |-> <<>>, taken |-> taken, copies |-> <<>>]
         made == IF IsTemp(r.step.by)
                 THEN Materialize(Listed(induced), r.preheader, start, r.step.by.temp) ELSE start
         by == IF IsTemp(r.step.by) /\ r.step.by.temp \in DOMAIN made.copies
               THEN Temp(made.copies[r.step.by.temp]) ELSE r.step.by
         phi == Phi(r.temps["phi"], <<Temp(r.temps["next"]), Temp(r.temps["init"])>>,
                    <<r.latch, r.preheader>>)
         front == made.code \o InitCode(r, by) \o StrideCode(r, by)
         ready == [induced.code EXCEPT ![r.preheader] = BeforeEnd(@, front)]
         headed == [ready EXCEPT ![r.header] = InsertAt(@, Len(PhisOf(induced, r.header)) + 1, phi)]
     IN /\ induced' = [induced EXCEPT !.code =
                         [headed EXCEPT ![r.latch] = BeforeEnd(@, <<UpdateOf(r, by)>>)]]
        /\ taken' = made.taken
  /\ recurrences' = Tail(recurrences)
  /\ UNCHANGED <<inducing, uninduced>>

EndInsert ==
  /\ inducing = "insert"
  /\ recurrences = <<>>
  /\ inducing' = "clean"
  /\ UNCHANGED <<uninduced, induced, recurrences, taken>>

-----------------------------------------------------------------------------
\* eliminateUnusedInductionVars.

\* The statements on which something visible depends.
Useful(list) ==
  LET firsts == {n \in DOMAIN list : DefSites(list, list[n].stm.dst) = {n}}
      Reads(N) == UNION {Uses(list[n].stm) : n \in N}
      Mark(N) == N \cup {n \in firsts : list[n].stm.dst \in Reads(N)}
  IN Rounds(Len(list), Mark, {n \in DOMAIN list : list[n].stm.kind \notin Pure})

Useless(f) ==
  LET list == Listed(f)
      kept == Useful(list)
  IN {n \in DOMAIN list : n \notin kept /\ Defs(list[n].stm) \cap Uses(list[n].stm) = {}}

CleanInduction ==
  /\ inducing = "clean"
  /\ \E list \in {Listed(induced)}, useless \in {Useless(induced)} :
       LET gone == {<<list[n].block, list[n].nth>> : n \in useless}
           Stays(b) == SelectSeq([i \in DOMAIN induced.code[b] |-> i], LAMBDA i : <<b, i>> \notin gone)
       IN /\ induced' = [induced EXCEPT !.lastTemp = Max({@} \cup Definitions(induced)),
                           !.code = [b \in DOMAIN @ |-> [k \in DOMAIN Stays(b) |-> @[b][Stays(b)[k]]]]]
          /\ inducing' = IF useless = {} THEN "done" ELSE "clean"
  /\ UNCHANGED <<uninduced, recurrences, taken>>

Steps == PlanRecurrences \/ InsertRecurrence \/ EndInsert \/ CleanInduction

=============================================================================

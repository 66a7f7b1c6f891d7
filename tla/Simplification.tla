--------------------------- MODULE Simplification ---------------------------
(***************************************************************************)
(* algebraSimpProg and inlineProg for one function.                        *)
(*                                                                         *)
(* algebraSimpProg: an operation whose result one of its operands or a     *)
(* constant already is becomes a move, a product with -1 a subtraction,    *)
(* and a branch on a temp compared with itself a jump.  Blocks that lose   *)
(* their last edge stay, and so do the phi arguments of an edge that is    *)
(* gone.  Left out are the operators lowering never makes: remainders,     *)
(* bitwise operators, shifts, comparisons as values.                       *)
(*                                                                         *)
(* inlineProg: a call of a defined function that is one block of a few int *)
(* moves and operations, each of a new temp, becomes these, with the       *)
(* arguments in place of the parameters and new temps in place of the      *)
(* others.  The temps of all functions are numbered together, so that the  *)
(* new ones begin behind the last of the program.                          *)
(*                                                                         *)
(* All temps are ints, which both passes test.                             *)
(***************************************************************************)
EXTENDS QuadFlow

CONSTANT MaxInlineBody  \* kMaxInlineBodyStatements

-----------------------------------------------------------------------------
(* algebraSimpProg.                                                        *)

\* foldIntConstants: a division by zero is left to the machine.
Folds(op, l, r) == ~IsTemp(l) /\ ~IsTemp(r) /\ (op = "/" => r # Const(0))

\* Mutation: zero is taken to be neutral on both sides of a subtraction.
SidelessIntBinop(op, l, r) ==
  IF Folds(op, l, r) THEN {Const(Operate(op, l.const, r.const))}
  ELSE {e \in {l, r} : {e, Const(0)} = {l, r} /\ op \in {"+", "-"}}

\* The term that has the value of the operation, if simplifyIntBinop finds one.
SimplifyIntBinop(op, l, r) ==
  IF Folds(op, l, r) THEN {Const(Operate(op, l.const, r.const))}
  ELSE {e \in {l, r, Const(0)} :
          \/ e = l /\ r = Const(0) /\ op \in {"+", "-"}
          \/ e = l /\ r = Const(1) /\ op \in {"*", "/"}
          \/ e = r /\ l = Const(0) /\ op = "+"
          \/ e = r /\ l = Const(1) /\ op = "*"
          \/ e = Const(0) /\ Const(0) \in {l, r} /\ op = "*"
          \/ e = Const(0) /\ IsTemp(l) /\ l = r /\ op = "-"}

Negates(s) == s.op = "*" /\ Const(-1) \in ToSet(s.src)

\* simplifyIntCondition needs a temp, so that two constants are not compared.
IsDecided(s) == IsTemp(s.src[1]) /\ s.src[1] = s.src[2]

SimplifyStatement(s) ==
  CASE s.kind = "MOVE_BINOP" ->
         LET terms == SimplifyIntBinop(s.op, s.src[1], s.src[2])
         IN IF terms # {} THEN Move(s.dst, CHOOSE e \in terms : TRUE)
            ELSE IF Negates(s)
            THEN MoveBinop(s.dst, "-", Const(0), s.src[IF s.src[1] = Const(-1) THEN 2 ELSE 1])
            ELSE s
    [] s.kind = "CJUMP" /\ IsDecided(s) ->
         Jump(s.labels[IF s.op \in {"==", "<=", ">="} THEN 1 ELSE 2])
    [] OTHER -> s

AlgebraSimp(f) ==
  [f EXCEPT !.code = [b \in DOMAIN @ |->
     [i \in DOMAIN @[b] |-> SimplifyStatement(@[b][i])]]]

-----------------------------------------------------------------------------
(* inlineProg.                                                             *)

\* The statements in front of the return, and what is assigned before the i-th.
Body(f) == Front(f.code[Entry(f)])
Result(f) == Last(f.code[Entry(f)])
Available(f, i) == Params(f) \cup {Body(f)[j].dst : j \in 1 .. i - 1}

AddsDefinition(f, i) ==
  /\ Body(f)[i].kind \in {"MOVE", "MOVE_BINOP"}
  /\ Uses(Body(f)[i]) \subseteq Available(f, i)
  /\ Body(f)[i].dst \notin Available(f, i)

\* A parameter that nothing reads might not be an int.
IsCandidate(f) ==
  /\ Len(f.order) = 1
  /\ Result(f).kind = "RETURN"
  /\ Len(Body(f)) <= MaxInlineBody
  /\ IsInjective(f.params)
  /\ \A i \in DOMAIN Body(f) : AddsDefinition(f, i)
  /\ Uses(Result(f)) \subseteq Available(f, Len(Body(f)) + 1)
  /\ Params(f) \subseteq UNION {Uses(s) : s \in Statements(f)}

Inlines(s) ==
  /\ s.kind = "MOVE_EXTCALL"
  /\ s.op \in DOMAIN Callees
  /\ IsCandidate(Callees[s.op])
  /\ Len(s.src) = Len(Callees[s.op].params)

IndexOf(seq, e) == CHOOSE i \in DOMAIN seq : seq[i] = e

\* Mutation: the counter of the temps is read and never advanced.
OneTempInlineCall(s, last) ==
  LET f == Callees[s.op]
      Cloned(e) == IF ~IsTemp(e) THEN e
                   ELSE IF e.temp \in Params(f) THEN s.src[IndexOf(f.params, e.temp)]
                   ELSE Temp(last + 1)
      CloneOf(q) == [q EXCEPT !.dst = last + 1, !.src = [k \in DOMAIN @ |-> Cloned(@[k])]]
  IN [i \in DOMAIN Body(f) |-> CloneOf(Body(f)[i])] \o <<Move(s.dst, Cloned(Result(f).src[1]))>>

\* What stands for the call s if last is the last temp so far: the body, whose
\* i-th statement assigns the i-th new temp, and a move of the result.
InlineCall(s, last) ==
  LET f == Callees[s.op]
      local == [i \in DOMAIN Body(f) |-> Body(f)[i].dst]
      Cloned(e) == IF ~IsTemp(e) THEN e
                   ELSE IF e.temp \in Params(f) THEN s.src[IndexOf(f.params, e.temp)]
                   ELSE Temp(last + IndexOf(local, e.temp))
      CloneOf(q, t) == [q EXCEPT !.dst = t, !.src = [k \in DOMAIN @ |-> Cloned(@[k])]]
  IN [i \in DOMAIN local |-> CloneOf(Body(f)[i], last + i)] \o <<Move(s.dst, Cloned(Result(f).src[1]))>>

LastTempOfProgram(f) == Max({f.lastTemp} \cup {Callees[n].lastTemp : n \in DOMAIN Callees})

InlineCalls(f) ==
  LET Rewrite(r, s) ==
        IF Inlines(s)
        THEN [code |-> r.code \o InlineCall(s, r.last), last |-> r.last + Len(Body(Callees[s.op]))]
        ELSE [r EXCEPT !.code = Append(@, s)]
      InBlock(g, b) ==
        LET end == FoldLeft(Rewrite, [code |-> <<>>, last |-> g.lastTemp], f.code[b])
        IN [g EXCEPT !.code[b] = end.code, !.lastTemp = end.last]
      calls == \E s \in Statements(f) : Inlines(s)
  IN IF calls THEN FoldLeft(InBlock, [f EXCEPT !.lastTemp = LastTempOfProgram(f)], f.order) ELSE f

=============================================================================

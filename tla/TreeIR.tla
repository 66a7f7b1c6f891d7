------------------------------ MODULE TreeIR ------------------------------
(***************************************************************************)
(* The Tree IR between lowering and quadruples, and its canonicalization.  *)
(* Expressions and statements are nodes of one shape: type is INT, FLOAT   *)
(* or PTR, n a temp or a constant, name an operator, a relation, a         *)
(* function or the label of a global, sub the operands, stms the           *)
(* statements of an ESEQ, labels the targets.  A sequence of statements    *)
(* stands for a Seq.                                                       *)
(***************************************************************************)
EXTENDS Integers, Sequences, SequencesExt

Tree(kind, type, name, n, sub) ==
  [kind |-> kind, type |-> type, name |-> name, n |-> n, sub |-> sub,
   stms |-> <<>>, labels |-> <<>>]

Const(n, type) == Tree("CONST", type, "", n, <<>>)
TempExp(t, type) == Tree("TEMPEXP", type, "", t, <<>>)
Name(label) == Tree("NAME", "PTR", label, 0, <<>>)
Binop(type, op, l, r) == Tree("BINOP", type, op, 0, <<l, r>>)
Mem(type, address) == Tree("MEM", type, "", 0, <<address>>)
ExtCall(type, f, args) == Tree("EXTCALL", type, f, 0, args)
Eseq(stms, e) == [Tree("ESEQ", e.type, "", 0, <<e>>) EXCEPT !.stms = stms]

Move(dst, src) == Tree("MOVE", dst.type, "", 0, <<dst, src>>)
ExpStm(e) == Tree("EXPSTM", e.type, "", 0, <<e>>)
Return(e) == Tree("RETURN", e.type, "", 0, <<e>>)
LabelStm(l) == [Tree("LABEL", "INT", "", 0, <<>>) EXCEPT !.labels = <<l>>]
Jump(l) == [Tree("JUMP", "INT", "", 0, <<>>) EXCEPT !.labels = <<l>>]
Cjump(op, l, r, t, f) == [Tree("CJUMP", "INT", op, 0, <<l, r>>) EXCEPT !.labels = <<t, f>>]

\* A function and the next temp and label it leaves free.
FuncDecl(name, args, stms, c) ==
  [name |-> name, args |-> args, stms |-> stms, temp |-> c.temp, label |-> c.label]

\* A node and everything below it.
RECURSIVE Subtrees(_)
Subtrees(e) ==
  {e} \cup UNION {Subtrees(x) : x \in ToSet(e.sub)} \cup UNION {Subtrees(s) : s \in ToSet(e.stms)}

-----------------------------------------------------------------------------
\* Canonicalization: no ESEQ is left, a call is a statement or the whole right
\* side of a move, and its arguments are temps, constants or saved in temps.
\* Visiting an expression yields the statements to run first, what is left of
\* it, and the next free temp.
Pair(stms, e, temp) == [stms |-> stms, e |-> e, temp |-> temp]

IsNoise(s) == s.kind = "EXPSTM" /\ s.sub[1].kind = "CONST"
Linearize(stms) == SelectSeq(stms, LAMBDA s : ~IsNoise(s))

\* Mutation: an operand is not saved when a later one has statements to run.
ReorderUnsaved(pairs, temp) ==
  [stms |-> FoldLeft(LAMBDA all, p : all \o p.stms, <<>>, pairs),
   es |-> [i \in 1 .. Len(pairs) |-> pairs[i].e], temp |-> temp]

\* Pairs of statements and an expression, from the last to the first: an
\* expression in front of a later statement is saved in a temp.
SavedBefore(acc, p, saved) ==
  [stms |-> p.stms \o <<Move(saved, p.e)>> \o acc.stms,
   es |-> <<saved>> \o acc.es, temp |-> acc.temp + 1]
Before(acc, p) ==
  IF acc.stms = <<>> THEN [stms |-> p.stms, es |-> <<p.e>> \o acc.es, temp |-> acc.temp]
  ELSE SavedBefore(acc, p, TempExp(acc.temp, p.e.type))
Reorder(pairs, temp) ==
  FoldLeft(Before, [stms |-> <<>>, es |-> <<>>, temp |-> temp], Reverse(pairs))

RECURSIVE CanonExp(_, _), CanonStm(_, _)

\* The operands of a node, each visited in turn, and put in order.
Visited(pairs, p) == [pairs |-> Append(pairs, p), temp |-> p.temp]
Ordered(all) == Reorder(all.pairs, all.temp)
CanonOperands(es, temp) ==
  Ordered(FoldLeft(LAMBDA acc, e : Visited(acc.pairs, CanonExp(e, acc.temp)), [pairs |-> <<>>, temp |-> temp], es))

Behind(stms, r) == [stms |-> stms \o r.stms, temp |-> r.temp]
Tidy(r) == [r EXCEPT !.stms = Linearize(@)]
CanonStms(stms, temp) ==
  Tidy(FoldLeft(LAMBDA acc, s : Behind(acc.stms, CanonStm(s, acc.temp)), [stms |-> <<>>, temp |-> temp], stms))

\* Mutation: an argument stays what it is.
CanonArgInPlace(e, temp) == CanonExp(e, temp)

\* An argument that is neither a temp nor a constant goes to a temp.
Saved(p) == Pair(Append(p.stms, Move(TempExp(p.temp, p.e.type), p.e)), TempExp(p.temp, p.e.type), p.temp + 1)
SavedUnlessPlain(p) == IF p.e.kind \in {"TEMPEXP", "CONST"} THEN p ELSE Saved(p)
CanonArg(e, temp) == SavedUnlessPlain(CanonExp(e, temp))
CanonArgs(es, temp) ==
  Ordered(FoldLeft(LAMBDA acc, e : Visited(acc.pairs, CanonArg(e, acc.temp)), [pairs |-> <<>>, temp |-> temp], es))

BinopOf(e, r) == Pair(Linearize(r.stms), Binop(e.type, e.name, r.es[1], r.es[2]), r.temp)
CallOf(e, r) ==
  LET result == TempExp(r.temp, e.type)
  IN Pair(Append(Linearize(r.stms), Move(result, ExtCall(e.type, e.name, r.es))), result, r.temp + 1)
FirstRun(stms, p) == [p EXCEPT !.stms = Linearize(stms \o @)]
CanonEseq(e, first) == FirstRun(first.stms, CanonExp(e, first.temp))
MemOf(type, p) == [p EXCEPT !.e = Mem(type, @)]

CanonExp(e, temp) ==
  CASE e.kind = "BINOP" -> BinopOf(e, CanonOperands(e.sub, temp))
    [] e.kind = "MEM" -> MemOf(e.type, CanonExp(e.sub[1], temp))
    [] e.kind = "ESEQ" -> CanonEseq(e.sub[1], CanonStms(e.stms, temp))
    [] e.kind = "EXTCALL" -> CallOf(e, CanonArgs(e.sub, temp))
    [] OTHER -> Pair(<<>>, e, temp)

\* The call itself, of a visited call, in place of the move that saves it.
Unsaved(p) == Pair(Front(p.stms), Last(p.stms).sub[2], p.temp)

MoveLeft(dst, temp) ==
  IF dst.kind = "MEM" THEN CanonExp(dst, temp) ELSE Pair(<<>>, dst, temp)

MoveRight(src, temp) ==
  IF src.kind = "EXTCALL" THEN Unsaved(CanonExp(src, temp)) ELSE CanonExp(src, temp)

MoveOf(dst, src) ==
  [stms |-> Append(Linearize(dst.stms \o src.stms), Move(dst.e, src.e)), temp |-> src.temp]
CanonMove(dst, src) == MoveOf(dst, MoveRight(src, dst.temp))
CjumpOf(s, r) ==
  [stms |-> Linearize(Append(r.stms, Cjump(s.name, r.es[1], r.es[2], s.labels[1], s.labels[2]))), temp |-> r.temp]
ReturnOf(p) == [stms |-> Append(p.stms, Return(p.e)), temp |-> p.temp]
ExpStmOf(p) ==
  [stms |-> IF p.e.kind = "TEMPEXP" THEN p.stms ELSE Append(p.stms, ExpStm(p.e)), temp |-> p.temp]

CanonStm(s, temp) ==
  CASE s.kind = "MOVE" -> CanonMove(MoveLeft(s.sub[1], temp), s.sub[2])
    [] s.kind = "CJUMP" -> CjumpOf(s, CanonOperands(s.sub, temp))
    [] s.kind = "RETURN" -> ReturnOf(CanonExp(s.sub[1], temp))
    [] s.kind = "EXPSTM" -> ExpStmOf(MoveRight(s.sub[1], temp))
    [] OTHER -> [stms |-> <<s>>, temp |-> temp]

BodyOf(f, body) == [f EXCEPT !.stms = body.stms, !.temp = body.temp]
CanonFunction(f) == BodyOf(f, CanonStms(f.stms, f.temp))

=============================================================================

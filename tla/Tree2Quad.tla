----------------------------- MODULE Tree2Quad -----------------------------
(***************************************************************************)
(* Instruction selection from canonical Tree IR to quadruples, and their   *)
(* division into basic blocks.  Visiting an expression yields the quads    *)
(* that compute it, the term that holds it, and the next free temp.        *)
(***************************************************************************)
EXTENDS QuadIR

Selected(quads, term, temp) == [quads |-> quads, term |-> term, temp |-> temp]

NameTerm(label) == [name |-> label]
PtrCalc(d, l, r) == Stm("PTR_CALC", d, "+", <<l, r>>, <<>>)
Label(l) == Stm("LABEL", NoTemp, "", <<>>, <<l>>)

BinopQuad(e, d, l, r) ==
  IF e.type = "PTR" /\ e.name = "+" THEN PtrCalc(d, l, r) ELSE MoveBinop(d, e.name, l, r)

RECURSIVE SelectExp(_, _)

\* The terms of several expressions, their quads in order.
Also(acc, one) ==
  [quads |-> acc.quads \o one.quads, terms |-> Append(acc.terms, one.term), temp |-> one.temp]
SelectAll(es, temp) ==
  FoldLeft(LAMBDA acc, e : Also(acc, SelectExp(e, acc.temp)), [quads |-> <<>>, terms |-> <<>>, temp |-> temp], es)

\* The quad that computes a node from its operands into d.
OperationQuad(e, d, terms) ==
  CASE e.kind = "BINOP" -> BinopQuad(e, d, terms[1], terms[2])
    [] e.kind = "MEM" -> Load(d, terms[1])
    [] e.kind = "EXTCALL" -> MoveExtCall(d, e.name, terms)
Operations == {"BINOP", "MEM", "EXTCALL"}

IntoFresh(e, subs) ==
  Selected(Append(subs.quads, OperationQuad(e, subs.temp, subs.terms)), Temp(subs.temp), subs.temp + 1)

SelectExp(e, temp) ==
  CASE e.kind = "CONST" -> Selected(<<>>, Const(e.n), temp)
    [] e.kind = "TEMPEXP" -> Selected(<<>>, Temp(e.n), temp)
    [] e.kind = "NAME" -> Selected(<<>>, NameTerm(e.name), temp)
    [] e.kind \in Operations -> IntoFresh(e, SelectAll(e.sub, temp))

Then(subs, q) == [quads |-> Append(subs.quads, q), temp |-> subs.temp]

\* A move to memory is a store, address first; a move to a temp computes its
\* source straight into the temp.
StoreQuad(both) == Then(both, Store(both.terms[2], both.terms[1]))
IntoTemp(src, d, subs) == Then(subs, OperationQuad(src, d, subs.terms))
MoveQuad(d, one) == Then(one, Move(d, one.term))
SelectMove(dst, src, temp) ==
  CASE dst.kind = "MEM" -> StoreQuad(SelectAll(<<dst.sub[1], src>>, temp))
    [] dst.kind # "MEM" /\ src.kind \in Operations -> IntoTemp(src, dst.n, SelectAll(src.sub, temp))
    [] OTHER -> MoveQuad(dst.n, SelectExp(src, temp))

CjumpQuad(s, subs) ==
  Then(subs, CJump(s.name, subs.terms[1], subs.terms[2], s.labels[1], s.labels[2]))
ReturnQuad(one) == Then(one, Return(one.term))
CallQuad(f, args) == Then(args, ExtCall(f, args.terms))
Discarded(subs) == [quads |-> subs.quads, temp |-> subs.temp]

SelectStm(s, temp) ==
  CASE s.kind = "MOVE" -> SelectMove(s.sub[1], s.sub[2], temp)
    [] s.kind = "EXPSTM" /\ s.sub[1].kind = "EXTCALL" ->
         CallQuad(s.sub[1].name, SelectAll(s.sub[1].sub, temp))
    [] s.kind = "EXPSTM" /\ s.sub[1].kind # "EXTCALL" -> Discarded(SelectExp(s.sub[1], temp))
    [] s.kind = "CJUMP" -> CjumpQuad(s, SelectAll(s.sub, temp))
    [] s.kind = "RETURN" -> ReturnQuad(SelectExp(s.sub[1], temp))
    [] s.kind = "JUMP" -> [quads |-> <<Jump(s.labels[1])>>, temp |-> temp]
    [] s.kind = "LABEL" -> [quads |-> <<Label(s.labels[1])>>, temp |-> temp]

\* The quads of a function, and its next free label, which a first statement
\* without a label takes.
Behind(quads, one) == [quads |-> quads \o one.quads, temp |-> one.temp]
SelectStms(f) ==
  FoldLeft(LAMBDA acc, s : Behind(acc.quads, SelectStm(s, acc.temp)), [quads |-> <<>>, temp |-> f.temp], f.stms)

IsLabelled(quads) == quads = <<>> \/ Head(quads).kind = "LABEL"
Entered(f, all) ==
  [name |-> f.name, args |-> f.args, temp |-> all.temp,
   quads |-> IF IsLabelled(all.quads) THEN all.quads ELSE <<Label(f.label)>> \o all.quads,
   label |-> IF IsLabelled(all.quads) THEN f.label ELSE f.label + 1]
SelectFunction(f) == Entered(f, SelectStms(f))

-----------------------------------------------------------------------------
\* Blocks: an entry label (0 if there is none) and the statements behind it.
\* A block that a label ends falls through to it.
NoLabel == 0
Block(entry, quads, exits) == [entry |-> entry, quads |-> quads, exits |-> exits]
\* Mutation: a conditional jump does not end a block.
TerminatorsWithoutCjump == {"JUMP", "RETURN"}
Terminators == {"JUMP", "CJUMP", "RETURN"}

SplitBlocks(quads) ==
  LET Open(acc) == acc.entry # NoLabel \/ acc.cur # <<>>
      Next(acc, q) ==
        IF q.kind = "LABEL"
          THEN [entry |-> q.labels[1], cur |-> <<>>,
                blocks |-> IF Open(acc) THEN Append(acc.blocks, Block(acc.entry, acc.cur, q.labels))
                           ELSE acc.blocks]
        ELSE IF q.kind \in Terminators
          THEN [entry |-> NoLabel, cur |-> <<>>,
                blocks |-> Append(acc.blocks, Block(acc.entry, Append(acc.cur, q), q.labels))]
        ELSE [acc EXCEPT !.cur = Append(@, q)]
      all == FoldLeft(Next, [entry |-> NoLabel, cur |-> <<>>, blocks |-> <<>>], quads)
  IN IF Open(all) THEN Append(all.blocks, Block(all.entry, all.cur, <<>>)) ELSE all.blocks

\* blocking cuts a block once more behind a terminator or a call of exit in its
\* middle; the rest goes to a block with a new label.  A block that came
\* without a label stays without one.
IsExit(q) == q.kind \in {"EXTCALL", "MOVE_EXTCALL"} /\ q.op = "exit"
Ends(q) == q.kind \in Terminators \/ IsExit(q)
Ending(q) == IF IsExit(q) THEN ExtCall(q.op, q.src) ELSE q

SplitBlock(b, label) ==
  LET Opened(acc) ==
        IF acc.open THEN acc ELSE [acc EXCEPT !.open = TRUE, !.entry = acc.label, !.label = @ + 1]
      Closed(acc, exits) ==
        [acc EXCEPT !.open = FALSE, !.blocks = Append(@, Block(acc.entry, acc.cur, exits)), !.cur = <<>>]
      More(acc, q) == IF Ends(q) THEN Closed([acc EXCEPT !.cur = Append(@, Ending(q))], q.labels)
                      ELSE [acc EXCEPT !.cur = Append(@, q)]
      all == FoldLeft(LAMBDA acc, q : More(Opened(acc), q),
                      [blocks |-> <<>>, open |-> TRUE, entry |-> b.entry, cur |-> <<>>, label |-> label],
                      b.quads)
  IN IF all.open THEN Closed(all, b.exits) ELSE all

Blocking(blocks, label) ==
  LET More(acc, b) == LET one == SplitBlock(b, acc.label)
                      IN [blocks |-> acc.blocks \o one.blocks, label |-> one.label]
  IN FoldLeft(More, [blocks |-> <<>>, label |-> label], blocks).blocks

=============================================================================

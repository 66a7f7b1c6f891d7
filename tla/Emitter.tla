------------------------------ MODULE Emitter ------------------------------
(***************************************************************************)
(* Aarch64StackEmitter for one function: the homes of the temps (a frame   *)
(* slot each, or one callee-saved register for the whole function), the    *)
(* order of the blocks (buildAarch64TraceLayout), the instructions of each *)
(* block with the copies that phis become on each edge, and the rewriting  *)
(* of short patterns behind it (optimizeAarch64Assembly).  First of all,   *)
(* the instructions and a machine that runs them.                          *)
(*                                                                         *)
(* Left out: floats and pointers (which differ in the width of the moves), *)
(* arguments beyond the eighth, calls of exit and of the formatted output. *)
(***************************************************************************)
EXTENDS QuadFlow

CONSTANTS
  HalfWord,      \* what the lower half of a word counts to (2^16)
  Residents,     \* the callee-saved registers that may hold temps
  PhiRegisters   \* the registers that hold phi inputs on an edge

-----------------------------------------------------------------------------
\* The instructions and what they do.  A cell is a general register or a slot of the
\* frame, counted in units of eight bytes below x29.  One instruction here stands for the
\* one to three that materialize an address with x16 and x17; a constant is materialized
\* in two halves.  An instruction that an observer sees carries the kind of its statement.
X(n) == <<"x", n>>
Slot(d) == <<"frame", d>>
Immediate(c) == <<"immediate", c>>
Nowhere == X(31)

Instr(op, dst, src, label) == [op |-> op, dst |-> dst, src |-> src, label |-> label]

Mov(dst, src) == Instr("mov", dst, <<src>>, 0)

\* loadImm32: the lower half of a constant, and the upper half if it is not zero.
MovImmediate(dst, c) ==
  LET bits == c % Modulus
  IN <<Instr("movz", dst, <<bits % HalfWord>>, 0)>>
       \o (IF bits < HalfWord THEN <<>> ELSE <<Instr("movk", dst, <<bits \div HalfWord>>, 0)>>)

Alu(op, dst, l, r) == Instr(op, dst, <<l, r>>, 0)
Cmp(l, r) == Instr("cmp", Nowhere, <<l, r>>, 0)
BranchIf(op, inverse, label) == Instr(IF inverse THEN "unless" ELSE "if", Nowhere, <<op>>, label)
Branch(label) == Instr("b", Nowhere, <<>>, label)
Mark(label) == Instr("mark", Nowhere, <<>>, label)
Seen(kind, name, dst, src) == Instr(kind, dst, src, name)

CalleeSaved == 19 .. 28
CallerValue(n) == Undefined + n

\* The state at the first instruction: the arguments in x0 to x7 and what the
\* caller wants back in x19 to x28.
Boot(input) ==
  [pc |-> 1, blocks |-> 0, halted |-> FALSE, flags |-> <<0, 0>>, trace |-> <<>>,
   cell |-> [c \in {X(n - 1) : n \in DOMAIN input.args} |-> input.args[c[2] + 1]]
              @@ [c \in {X(n) : n \in CalleeSaved} |-> CallerValue(c[2])]]

\* What a call leaves: the callee-saved registers, the caller's frame, and the
\* reply in w0.
AfterCall(cell, reply, frameSize) ==
  (X(0) :> reply)
    @@ Restrict(cell, {c \in DOMAIN cell : IF c[1] = "x" THEN c[2] \in CalleeSaved
                                          ELSE c[2] <= frameSize})

\* A cell that was never written, or not since a call, may hold anything.
Get(cell, c) ==
  IF c[1] = "immediate" THEN c[2] ELSE IF c \in DOMAIN cell THEN cell[c] ELSE Undefined

Execute(m, i, input, where, frameSize) ==
  LET vals == [k \in DOMAIN i.src |-> Get(m.cell, i.src[k])]
      half == Get(m.cell, i.dst) + HalfWord * i.src[1]
      on == [m EXCEPT !.pc = @ + 1]
      shown == [on EXCEPT !.trace = Append(@, <<i.op, i.label, vals>>)]
      reply == Reply(input, Len(m.trace))
  IN CASE i.op = "mov" -> [on EXCEPT !.cell = Bind(@, i.dst, vals[1])]
       [] i.op = "movz" -> [on EXCEPT !.cell = Bind(@, i.dst, i.src[1])]
       [] i.op = "movk" -> [on EXCEPT !.cell = Bind(@, i.dst, WrapOnce(half))]
       [] i.op \in {"+", "-", "*", "/"} ->
            [on EXCEPT !.cell = Bind(@, i.dst, Operate(i.op, vals[1], vals[2]))]
       [] i.op = "cmp" -> [on EXCEPT !.flags = vals]
       [] i.op \in {"if", "unless"} ->
            IF Compare(i.src[1], m.flags[1], m.flags[2]) = (i.op = "if")
            THEN [m EXCEPT !.pc = where[i.label]] ELSE on
       [] i.op = "b" -> [m EXCEPT !.pc = where[i.label]]
       [] i.op = "mark" -> IF i.label > 0 THEN [on EXCEPT !.blocks = @ + 1] ELSE on
       [] i.op = "LOAD" -> [shown EXCEPT !.cell = Bind(@, i.dst, reply)]
       [] i.op = "STORE" -> shown
       [] IsCall(i.op) /\ i.label \in DOMAIN Callees ->
            LET end == Callee(i.label, vals, input, m.trace)
            IN [on EXCEPT !.trace = Front(end.trace),
                          !.cell = AfterCall(@, Last(end.trace)[3][1], frameSize)]
       [] IsCall(i.op) -> [shown EXCEPT !.cell = AfterCall(@, reply, frameSize)]
       [] i.op = "RETURN" -> [shown EXCEPT !.halted = TRUE]

\* The end of a run: a return, the code's end, the label of block n + 1, or
\* when it showed enough.
RunAssembly(asm, frameSize, input, n, Enough(_)) ==
  LET marks == {k \in DOMAIN asm : asm[k].op = "mark"}
      where == [l \in {asm[k].label : k \in marks} |->
                  CHOOSE k \in marks : asm[k].label = l]
      RECURSIVE Continue(_)
      Continue(m) ==
        IF m.halted \/ m.blocks > n \/ m.pc > Len(asm) \/ Enough(m) THEN m
        ELSE Continue(Execute(m, asm[m.pc], input, where, frameSize))
  IN Continue(Boot(input))

\* The assembly and the function each show an observer what the other shows in n
\* blocks, and a caller that is returned to finds its registers as they were.
Implements(asm, frameSize, f, inputs, n) ==
  \A input \in inputs :
    LET run == Run(f, input, n)
        long == RunAssembly(asm, frameSize, input, Slack * n,
                            LAMBDA m : Len(m.trace) >= Len(run.trace))
        code == RunAssembly(asm, frameSize, input, n, LAMBDA m : FALSE)
        back == RunUntil(f, input, Slack * n, LAMBDA c : Len(c.trace) >= Len(code.trace))
    IN /\ long.trace = run.trace
       /\ run.halted => long.halted
       /\ IsPrefix(code.trace, back.trace)
       /\ \A m \in {code, long} :
            m.halted => \A r \in CalleeSaved : Get(m.cell, X(r)) = CallerValue(r)

-----------------------------------------------------------------------------
VARIABLES
  emission,  \* "idle", "layout", "blocks", "peephole", "done"
  unit,      \* the function
  unitFlow,  \* its flow information
  tracing,   \* traceBlockEnabled
  rewriting, \* how many rounds of rewriting are left
  frame,     \* slots, scratch slots, resident registers, save slots, size
  layout,    \* the blocks in the order of emission
  pending,   \* those that are still to be emitted
  asm        \* the instructions so far

emitVars == <<emission, unit, unitFlow, tracing, rewriting, frame, layout, pending, asm>>

NoUnit == Function(<<>>, <<>>, <<>>, 0)

Init ==
  /\ emission = "idle"
  /\ unit = NoUnit
  /\ unitFlow = <<>>
  /\ tracing = FALSE
  /\ rewriting = 0
  /\ frame = <<>>
  /\ layout = <<>>
  /\ pending = <<>>
  /\ asm = <<>>

-----------------------------------------------------------------------------
\* collectTypesAndSlots and selectResidentTemps.

TempsOf(f) == Params(f) \cup UNION {Defs(s) \cup Uses(s) : s \in Statements(f)}

\* The number of edges back to a block at or before i in the list, from a block
\* at or behind it.
SpanDepth(f, i) ==
  Cardinality({e \in (DOMAIN f.order) \X (DOMAIN f.order) :
                 e[1] <= i /\ i <= e[2] /\ f.order[e[1]] \in Exits(f, f.order[e[2]])})

AccessesIn(t, s) ==
  Cardinality({i \in DOMAIN s.src : s.src[i] = Temp(t)}) + (IF s.dst = t THEN 1 ELSE 0)

AccessesOf(f, t, i) ==
  FoldLeft(LAMBDA n, s : n + AccessesIn(t, s), 0, f.code[f.order[i]])

\* How often a temp is accessed, in loops or not, and what it scores.  Being a
\* parameter counts as an access, in no block.
Usage(f, t) ==
  LET places == DOMAIN f.order
      count == [i \in places |-> AccessesOf(f, t, i)]
      depth == [i \in places |-> SpanDepth(f, i)]
      weight == [i \in places |-> IF depth[i] >= 2 THEN 64 ELSE IF depth[i] = 1 THEN 8 ELSE 1]
      param == IF t \in Params(f) THEN 1 ELSE 0
      touched == {i \in places : count[i] > 0}
  IN [temp |-> t,
      accesses |-> FoldFunctionOnSet(+, param, count, places),
      inLoop |-> \E i \in touched : depth[i] > 0,
      score |-> FoldFunctionOnSet(+, param, [i \in places |-> weight[i] * count[i]], places)
                  + (IF Cardinality(touched) > 1 THEN 160 ELSE 0) + 128 * param]

\* The temps that deserve a register, with the place they get.
Ranked(f) ==
  LET hot == {u \in {Usage(f, t) : t \in TempsOf(f)} :
                \/ u.inLoop /\ u.accesses >= 2
                \/ u.accesses >= 6}
      Outranks(u, v) ==
        \/ u.score > v.score
        \/ u.score = v.score /\ u.accesses > v.accesses
        \/ u.score = v.score /\ u.accesses = v.accesses /\ u.temp < v.temp
  IN {[temp |-> u.temp, place |-> 1 + Cardinality({v \in hot : Outranks(v, u)})] : u \in hot}

\* Mutation: the slots for phi inputs are taken from the save slots.
TightFrameOf(f) ==
  LET temps == TempsOf(f)
      ranked == Ranked(f)
      regs == SetToSortSeq(Residents, <)
      count == Min({Cardinality(ranked), Len(regs)})
      phis == Max({Len(PhisOf(f, b)) : b \in Blocks(f)})
      spilled == Max({0, phis - Cardinality(PhiRegisters)})
      top == Cardinality(temps)
      size == top + spilled + count
  IN [slot |-> [t \in temps |-> Cardinality({u \in temps : u <= t})],
      scratch |-> [i \in 1 .. spilled |-> top + i],
      resident |-> [t \in {r.temp : r \in {q \in ranked : q.place <= count}} |->
                      regs[(CHOOSE r \in ranked : r.temp = t).place]],
      saved |-> [i \in 1 .. count |-> <<regs[i], top + i>>],
      size |-> size + (size % 2)]

\* The distances below x29.  The slots of the temps come in the order of a hash
\* table; any order will do, and here it is that of their numbers.
FrameOf(f) ==
  LET temps == TempsOf(f)
      ranked == Ranked(f)
      regs == SetToSortSeq(Residents, <)
      count == Min({Cardinality(ranked), Len(regs)})
      phis == Max({Len(PhisOf(f, b)) : b \in Blocks(f)})
      spilled == Max({0, phis - Cardinality(PhiRegisters)})
      top == Cardinality(temps)
      size == top + spilled + count
  IN [slot |-> [t \in temps |-> Cardinality({u \in temps : u <= t})],
      scratch |-> [i \in 1 .. spilled |-> top + i],
      resident |-> [t \in {r.temp : r \in {q \in ranked : q.place <= count}} |->
                      regs[(CHOOSE r \in ranked : r.temp = t).place]],
      saved |-> [i \in 1 .. count |-> <<regs[i], top + spilled + i>>],
      size |-> size + (size % 2)]

Begin(f, trace, rewrites) ==
  /\ emission = "idle"
  /\ emission' = "layout"
  /\ unit' = f
  /\ unitFlow' = FlowOf(f)
  /\ tracing' = trace
  /\ rewriting' = rewrites
  /\ frame' = FrameOf(f)
  /\ UNCHANGED <<layout, pending, asm>>

-----------------------------------------------------------------------------
\* buildAarch64TraceLayout.

LoopDepth(b) == Cardinality({h \in Blocks(unit) : b \in LoopBody(unitFlow, h)})

Place(b) == CHOOSE i \in DOMAIN unit.order : unit.order[i] = b

Better(a, b) ==
  LET returns == [c \in {a, b} |-> unitFlow.succ[c] = {}]
  IN IF LoopDepth(a) # LoopDepth(b) THEN LoopDepth(a) > LoopDepth(b)
     ELSE IF returns[a] # returns[b] THEN returns[b]
     ELSE Place(a) < Place(b)

Best(S) == CHOOSE a \in S : \A b \in S \ {a} : Better(a, b)

Unplaced == Blocks(unit) \ ToSet(layout)

\* The next block of the trace; a new trace when no successor is left.
PlaceBlock ==
  /\ emission = "layout"
  /\ tracing
  /\ Unplaced # {}
  /\ LET onward == IF layout = <<>> THEN {Entry(unit)}
                   ELSE unitFlow.succ[Last(layout)] \cap Unplaced
     IN layout' = Append(layout, Best(IF onward # {} THEN onward ELSE Unplaced))
  /\ UNCHANGED <<emission, unit, unitFlow, tracing, rewriting, frame, pending, asm>>

-----------------------------------------------------------------------------
\* Instructions.

Home(t) == IF t \in DOMAIN frame.resident THEN X(frame.resident[t]) ELSE Slot(frame.slot[t])

LoadTerm(term, reg) ==
  IF IsTemp(term) THEN <<Mov(X(reg), Home(term.temp))>> ELSE MovImmediate(X(reg), term.const)
StoreTemp(t, reg) == <<Mov(Home(t), X(reg))>>

EmitStatement(s) ==
  CASE s.kind = "MOVE" -> LoadTerm(s.src[1], 9) \o StoreTemp(s.dst, 9)
    [] s.kind = "MOVE_BINOP" ->
         LoadTerm(s.src[1], 9) \o LoadTerm(s.src[2], 10)
           \o <<Alu(s.op, X(11), X(9), X(10))>> \o StoreTemp(s.dst, 11)
    [] s.kind = "LOAD" ->
         LoadTerm(s.src[1], 9) \o <<Seen(s.kind, "", X(10), <<X(9)>>)>> \o StoreTemp(s.dst, 10)
    [] s.kind = "STORE" ->
         LoadTerm(s.src[2], 10) \o LoadTerm(s.src[1], 9)
           \o <<Seen(s.kind, "", Nowhere, <<X(9), X(10)>>)>>
    [] s.kind \in {"EXTCALL", "MOVE_EXTCALL"} ->
         FlattenSeq([i \in DOMAIN s.src |-> LoadTerm(s.src[i], i - 1)])
           \o <<Seen(s.kind, s.op, X(0), [i \in DOMAIN s.src |-> X(i - 1)])>>
           \o (IF s.dst = NoTemp THEN <<>> ELSE StoreTemp(s.dst, 0))
    [] OTHER -> <<>>

\* The phis of block b that read the edge from block from: the copies end at
\* the first statement that is not a phi.
EdgePhis(b, from) ==
  LET code == unit.code[b]
      others == {i \in DOMAIN code : ~IsPhi(code[i])}
  IN SelectSeq(SubSeq(code, 1, Min(others) - 1), LAMBDA s : from \in ToSet(s.labels))

\* Mutation: each phi is written as soon as its input is read.
SequentialPhiCopies(b, from) ==
  LET phis == EdgePhis(b, from)
      Arg(s) == s.src[CHOOSE i \in DOMAIN s.labels : s.labels[i] = from]
  IN FlattenSeq([i \in DOMAIN phis |-> LoadTerm(Arg(phis[i]), 12) \o StoreTemp(phis[i].dst, 12)])

\* The copies on the edge from block from to block b: all inputs are read
\* before the first phi is written.
PhiCopies(b, from) ==
  LET phis == EdgePhis(b, from)
      Arg(s) == s.src[CHOOSE i \in DOMAIN s.labels : s.labels[i] = from]
      regs == SetToSortSeq(PhiRegisters, <)
      Snapshot(i) ==
        IF i <= Len(regs) THEN LoadTerm(Arg(phis[i]), regs[i])
        ELSE LoadTerm(Arg(phis[i]), 9) \o <<Mov(Slot(frame.scratch[i - Len(regs)]), X(9))>>
      Assign(i) ==
        IF i <= Len(regs) THEN StoreTemp(phis[i].dst, regs[i])
        ELSE <<Mov(X(9), Slot(frame.scratch[i - Len(regs)]))>> \o StoreTemp(phis[i].dst, 9)
  IN FlattenSeq([i \in DOMAIN phis |-> Snapshot(i)])
       \o FlattenSeq([i \in DOMAIN phis |-> Assign(i)])

\* Mutation: the branch is not inverted when the false target follows.
StraightEmitCJump(s, b, next) ==
  LET yes == s.labels[1]
      no == s.labels[2]
      taken == IF tracing /\ no = next THEN no ELSE yes
      other == IF taken = no THEN yes ELSE no
  IN LoadTerm(s.src[1], 9) \o LoadTerm(s.src[2], 10)
       \o <<Cmp(X(9), X(10)), BranchIf(s.op, FALSE, -b)>>
       \o PhiCopies(other, b) \o <<Branch(other), Mark(-b)>> \o PhiCopies(taken, b)
       \o (IF tracing /\ taken = next THEN <<>> ELSE <<Branch(taken)>>)

\* The target that follows in the layout needs no branch.  The fresh label of
\* block b's taken edge is -b.
EmitCJump(s, b, next) ==
  LET yes == s.labels[1]
      no == s.labels[2]
      inverse == tracing /\ no = next
      taken == IF inverse THEN no ELSE yes
      other == IF inverse THEN yes ELSE no
      falls == tracing /\ taken = next
  IN LoadTerm(s.src[1], 9) \o LoadTerm(s.src[2], 10)
       \o <<Cmp(X(9), X(10)), BranchIf(s.op, inverse, -b)>>
       \o PhiCopies(other, b) \o <<Branch(other), Mark(-b)>> \o PhiCopies(taken, b)
       \o (IF falls THEN <<>> ELSE <<Branch(taken)>>)

EmitReturn(s) ==
  LoadTerm(s.src[1], 0)
    \o [i \in DOMAIN frame.saved |-> Mov(X(frame.saved[i][1]), Slot(frame.saved[i][2]))]
    \o <<Seen(s.kind, "", Nowhere, <<X(0)>>)>>

Prologue ==
  [i \in DOMAIN frame.saved |-> Mov(Slot(frame.saved[i][2]), X(frame.saved[i][1]))]
    \o FlattenSeq([i \in DOMAIN unit.params |-> StoreTemp(unit.params[i], i - 1)])

EmitBlock(b, next) ==
  LET last == Last(unit.code[b])
  IN <<Mark(b)>>
       \o FlattenSeq([i \in DOMAIN unit.code[b] |-> EmitStatement(unit.code[b][i])])
       \o (CASE last.kind = "RETURN" -> EmitReturn(last)
             [] last.kind = "CJUMP" -> EmitCJump(last, b, next)
             [] last.kind \in {"JUMP", "FALL"} ->
                  PhiCopies(last.labels[1], b)
                    \o (IF tracing /\ last.labels[1] = next THEN <<>>
                        ELSE <<Branch(last.labels[1])>>))

EndLayout ==
  /\ emission = "layout"
  /\ tracing => Unplaced = {}
  /\ layout' = IF tracing THEN layout ELSE unit.order
  /\ pending' = layout'
  /\ asm' = Prologue
  /\ emission' = "blocks"
  /\ UNCHANGED <<unit, unitFlow, tracing, rewriting, frame>>

EmitNext ==
  /\ emission = "blocks"
  /\ pending # <<>>
  /\ asm' = asm \o EmitBlock(Head(pending), IF Len(pending) = 1 THEN 0 ELSE pending[2])
  /\ pending' = Tail(pending)
  /\ emission' = IF Len(pending) > 1 THEN "blocks" ELSE IF rewriting > 0 THEN "peephole" ELSE "done"
  /\ UNCHANGED <<unit, unitFlow, tracing, rewriting, frame, layout>>

-----------------------------------------------------------------------------
\* optimizeAarch64Assembly, for the patterns that these instructions can form.
\* A line that is removed keeps its place until the end.

Removed == Instr("removed", Nowhere, <<>>, 0)

IsRedundantMove(code, i) == code[i].op = "mov" /\ code[i].dst = code[i].src[1]

\* Mutation: the branch is not compared with the label.
LeadsToAnyLabel(code, i) ==
  LET behind == {j \in DOMAIN code : j > i /\ code[j].op # "removed"}
  IN code[i].op = "b" /\ behind # {} /\ code[Min(behind)].op = "mark"

\* The next line that is left is the label the branch leads to.
LeadsToNextLabel(code, i) ==
  LET behind == {j \in DOMAIN code : j > i /\ code[j].op # "removed"}
  IN /\ code[i].op = "b"
     /\ behind # {}
     /\ code[Min(behind)].op = "mark"
     /\ code[Min(behind)].label = code[i].label

Comparand(code, i, j) ==
  /\ code[i].op = "movz"
  /\ code[i].src = <<0>>
  /\ code[i].dst \in {X(n) : n \in 9 .. 17}
  /\ j + 1 \in DOMAIN code
  /\ code[j].op = "cmp"
  /\ code[j].src[2] = code[i].dst
  /\ code[j + 1].op \in {"if", "unless"}

\* Mutation: the upper half of the constant may stand between.
ComparesLowHalf(code, i) ==
  {j \in {i + 1, i + 2} : Comparand(code, i, j) /\ (j = i + 1 \/ code[i + 1].op = "movk")}

\* The next instruction, if it compares with the zero of line i for a branch.
ComparesZero(code, i) == {j \in {i + 1} : Comparand(code, i, j)}

\* One of at most four rounds over the lines; the last is one without a change.
\* What becomes of a line depends on the lines behind it, which the round has not
\* come to.
RewriteLines ==
  /\ emission = "peephole"
  /\ \E zeros \in {{i \in DOMAIN asm : ComparesZero(asm, i) # {}}} :
     \E compares \in {UNION {ComparesZero(asm, i) : i \in zeros}} :
     \E gone \in {{i \in DOMAIN asm : IsRedundantMove(asm, i) \/ LeadsToNextLabel(asm, i)}} :
       LET Rewritten(i) ==
             IF i \in gone \cup zeros THEN Removed
             ELSE IF i \in compares THEN [asm[i] EXCEPT !.src[2] = Immediate(0)]
             ELSE asm[i]
           over == gone \cup zeros = {} \/ rewriting = 1
           lines == [i \in DOMAIN asm |-> Rewritten(i)]
       IN /\ asm' = IF over THEN SelectSeq(lines, LAMBDA l : l # Removed) ELSE lines
          /\ rewriting' = rewriting - 1
          /\ emission' = IF over THEN "done" ELSE "peephole"
  /\ UNCHANGED <<unit, unitFlow, tracing, frame, layout, pending>>

Steps == PlaceBlock \/ EndLayout \/ EmitNext \/ RewriteLines

=============================================================================

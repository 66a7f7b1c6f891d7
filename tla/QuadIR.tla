------------------------------- MODULE QuadIR -------------------------------
(***************************************************************************)
(* The quadruples between lowering and emission, and what they do when the *)
(* emitted code runs.  A statement has a destination temp (NoTemp if none) *)
(* and source terms, each a temp or a constant; a phi has one source per   *)
(* predecessor label.  A function is a list of labelled blocks; the last   *)
(* statement of each is a JUMP, a CJUMP, a RETURN or, for a block without  *)
(* a terminator, a FALL that stands for its one exit label.                *)
(*                                                                         *)
(* Memory, calls and returns are what an observer sees: their operands are *)
(* events of the trace, in order, and whatever a load or a call yields is  *)
(* part of the input.  A call of a function the program defines is not     *)
(* seen itself, but what that function does is.  Types, names and printing *)
(* are left out.                                                           *)
(***************************************************************************)
EXTENDS Words, SequencesExt

CONSTANT Callees  \* the functions of the program that are called, by name

\* The elements of a finite set of integers in order, and what is left of a
\* sequence when only the elements of K are kept.  (No prover knows what the sorting
\* and the selection of the library yield.)
Ascending(I) ==
  [k \in 1 .. Cardinality(I) |-> CHOOSE i \in I : Cardinality({j \in I : j <= i}) = k]

Only(s, K) ==
  LET kept == Ascending({i \in DOMAIN s : s[i] \in K})
  IN [k \in DOMAIN kept |-> s[kept[k]]]

NoTemp == 0

Temp(n) == [temp |-> n]
Const(c) == [const |-> c]
IsTemp(term) == "temp" \in DOMAIN term

Stm(kind, dst, op, src, labels) ==
  [kind |-> kind, dst |-> dst, op |-> op, src |-> src, labels |-> labels]

Move(d, s) == Stm("MOVE", d, "", <<s>>, <<>>)
MoveBinop(d, op, l, r) == Stm("MOVE_BINOP", d, op, <<l, r>>, <<>>)
Load(d, address) == Stm("LOAD", d, "", <<address>>, <<>>)
Store(s, address) == Stm("STORE", NoTemp, "", <<s, address>>, <<>>)
ExtCall(fun, args) == Stm("EXTCALL", NoTemp, fun, args, <<>>)
MoveExtCall(d, fun, args) == Stm("MOVE_EXTCALL", d, fun, args, <<>>)
Jump(l) == Stm("JUMP", NoTemp, "", <<>>, <<l>>)
Fall(l) == Stm("FALL", NoTemp, "", <<>>, <<l>>)
CJump(op, l, r, t, f) == Stm("CJUMP", NoTemp, op, <<l, r>>, <<t, f>>)
Return(e) == Stm("RETURN", NoTemp, "", <<e>>, <<>>)
Phi(d, args, preds) == Stm("PHI", d, "", args, preds)

Function(params, order, code, lastTemp) ==
  [params |-> params, order |-> order, code |-> code, lastTemp |-> lastTemp]

IsPhi(s) == s.kind = "PHI"
Defs(s) == {s.dst} \ {NoTemp}
Uses(s) == {u.temp : u \in {v \in ToSet(s.src) : IsTemp(v)}}

Entry(f) == f.order[1]
Blocks(f) == ToSet(f.order)
Exits(f, b) == ToSet(Last(f.code[b]).labels)
Statements(f) == UNION {ToSet(f.code[b]) : b \in Blocks(f)}

\* The phis of a block stand together behind its label.
PhisOf(f, b) == SelectSeq(f.code[b], IsPhi)

-----------------------------------------------------------------------------
\* Execution.  A value outside the words stands for what a frame slot holds
\* before anything was stored there.
Undefined == MaxInt + 1

\* sdiv: truncation towards zero, and zero for a zero divisor.
Quotient(a, b) ==
  LET magnitude == (IF a < 0 THEN -a ELSE a) \div (IF b < 0 THEN -b ELSE b)
  IN IF b = 0 THEN 0 ELSE IF (a < 0) = (b < 0) THEN WrapOnce(magnitude) ELSE -magnitude

\* A product, which may leave the words by many times the modulus.
Product(a, b) == ((a * b - MinInt) % Modulus) + MinInt

Operate(op, a, b) ==
  CASE Undefined \in {a, b} -> Undefined
    [] op = "+" -> AddW(a, b)
    [] op = "-" -> SubW(a, b)
    [] op = "*" -> Product(a, b)
    [] OTHER -> Quotient(a, b)

Compare(op, a, b) ==
  CASE op = "==" -> a = b
    [] op = "!=" -> a # b
    [] op = "<" -> a < b
    [] op = "<=" -> a <= b
    [] op = ">" -> a > b
    [] op = ">=" -> a >= b

Bind(env, t, v) == [x \in DOMAIN env \cup {t} |-> IF x = t THEN v ELSE env[x]]

Value(env, term) ==
  IF ~IsTemp(term) THEN term.const
  ELSE IF term.temp \in DOMAIN env THEN env[term.temp]
  ELSE Undefined

\* The state of a running function: the block it is in, the frame, the events
\* so far.  input.args are the arguments, input.reads what the reads yield.
Start(f, input) ==
  [at |-> Entry(f), halted |-> FALSE, trace |-> <<>>,
   env |-> [t \in ToSet(f.params) |->
              input.args[CHOOSE i \in DOMAIN f.params : f.params[i] = t]]]

Reply(input, n) == input.reads[1 + (n % Len(input.reads))]

IsCall(kind) == kind \in {"EXTCALL", "MOVE_EXTCALL"}

\* A call is one of the library here.
ExecPlain(input, c, s) ==
  LET vals == [i \in DOMAIN s.src |-> Value(c.env, s.src[i])]
      seen == Append(c.trace, <<s.kind, s.op, vals>>)
  IN CASE s.kind = "MOVE" -> [c EXCEPT !.env = Bind(@, s.dst, vals[1])]
       [] s.kind = "MOVE_BINOP" ->
            [c EXCEPT !.env = Bind(@, s.dst, Operate(s.op, vals[1], vals[2]))]
       [] s.kind \in {"LOAD", "MOVE_EXTCALL"} ->
            [c EXCEPT !.env = Bind(@, s.dst, Reply(input, Len(c.trace))), !.trace = seen]
       [] s.kind \in {"STORE", "EXTCALL"} -> [c EXCEPT !.trace = seen]
       [] s.kind \in {"JUMP", "FALL"} -> [c EXCEPT !.at = s.labels[1]]
       [] s.kind = "CJUMP" ->
            [c EXCEPT !.at = IF Compare(s.op, vals[1], vals[2]) THEN s.labels[1]
                             ELSE s.labels[2]]
       [] s.kind = "RETURN" -> [c EXCEPT !.halted = TRUE, !.trace = seen]
       [] OTHER -> c

\* The phis of a block take their values together, on the edge into it.
ExecPhis(f, c, from) ==
  LET taken == {s \in ToSet(f.code[c.at]) : IsPhi(s) /\ from \in ToSet(s.labels)}
      Of(t) == CHOOSE s \in taken : s.dst = t
      Arg(s) == s.src[CHOOSE i \in DOMAIN s.labels : s.labels[i] = from]
      set == {s.dst : s \in taken}
  IN [c EXCEPT !.env = [t \in DOMAIN @ \cup set |->
                          IF t \in set THEN Value(c.env, Arg(Of(t))) ELSE c.env[t]]]

\* c behind the first i statements of its block, for each i.
Along(Exec(_, _, _), f, input, c) ==
  LET code == f.code[c.at]
      behind[i \in 0 .. Len(code)] ==
        IF i = 0 THEN c ELSE Exec(input, behind[i - 1], code[i])
  IN behind

BlockBy(Exec(_, _, _), f, input, c) ==
  LET end == Along(Exec, f, input, c)[Len(f.code[c.at])]
  IN IF end.halted THEN end ELSE ExecPhis(f, end, c.at)

\* Where a call of a defined function ends, behind its return.  Such a function
\* passes no block twice and calls none of the others.
Callee(name, args, input, trace) ==
  LET f == Callees[name]
      start == [Start(f, [args |-> args, reads |-> input.reads]) EXCEPT !.trace = trace]
      More(c, b) == IF c.halted THEN c ELSE BlockBy(ExecPlain, f, input, c)
  IN FoldLeft(More, start, f.order)

ExecCall(input, c, s) ==
  LET end == Callee(s.op, [i \in DOMAIN s.src |-> Value(c.env, s.src[i])], input, c.trace)
  IN [c EXCEPT !.trace = Front(end.trace),
               !.env = IF s.dst = NoTemp THEN @ ELSE Bind(@, s.dst, Last(end.trace)[3][1])]

ExecStatement(input, c, s) ==
  IF IsCall(s.kind) /\ s.op \in DOMAIN Callees THEN ExecCall(input, c, s) ELSE ExecPlain(input, c, s)

ExecBlock(f, input, c) == BlockBy(ExecStatement, f, input, c)
AlongBlock(f, input, c) == Along(ExecStatement, f, input, c)

\* Where a run of f is at first and behind each of its first n blocks.
Onward(f, input, c) == IF c.halted THEN c ELSE ExecBlock(f, input, c)

After(f, input, n) ==
  LET reached[k \in 0 .. n] ==
        IF k = 0 THEN Start(f, input) ELSE Onward(f, input, reached[k - 1])
  IN reached

Configurations(f, input, n) == {After(f, input, n)[k] : k \in 0 .. n}

\* The run of f that is cut off after n blocks, or once it showed enough.
RunUntil(f, input, n, Enough(_)) ==
  LET More(c, i) == IF c.halted \/ Enough(c) THEN c ELSE ExecBlock(f, input, c)
  IN FoldLeft(More, Start(f, input), [i \in 1 .. n |-> i])

Run(f, input, n) == RunUntil(f, input, n, LAMBDA c : FALSE)

\* A pass that inserts blocks or unrolls a loop makes this many blocks of one at
\* most, and a bit less than one of this many.
Slack == 4

\* g goes on to show an observer all that a run has shown, and ends if it did.
Shows(one, g, input, n) ==
  LET other == RunUntil(g, input, Slack * n, LAMBDA c : Len(c.trace) >= Len(one.trace))
  IN IsPrefix(one.trace, other.trace) /\ (one.halted => other.halted)

\* f and g show an observer the same events in the same order and end together.
\* The event of a return is the last.
SameBehaviour(f, g, inputs, n) ==
  \A input \in inputs :
    \E one \in {Run(f, input, n)}, other \in {Run(g, input, n)} :
      \/ one.trace = other.trace /\ one.halted = other.halted
      \/ Shows(one, g, input, n) /\ Shows(other, f, input, n)

-----------------------------------------------------------------------------
\* The shape of what the passes hand each other: a statement has the sources,
\* the labels and the destination of its kind, its constants are words, and the
\* one that leaves a block is the last.  The label of the entry is a fresh one that
\* nothing jumps to (lowerFunction), so that the entry has no phi.
Leaving == {"JUMP", "FALL", "CJUMP", "RETURN"}
Assigning == {"MOVE", "MOVE_BINOP", "LOAD", "MOVE_EXTCALL", "PHI"}

WellFormedStatement(f, s) ==
  /\ s.kind \in Leaving \cup Assigning \cup {"STORE", "EXTCALL"}
  /\ s.dst # NoTemp <=> s.kind \in Assigning
  /\ s.src \in Seq(ToSet(s.src))
  /\ s.labels \in Seq(ToSet(s.labels))
  /\ \A i \in DOMAIN s.src : ~IsTemp(s.src[i]) => s.src[i].const \in Word
  /\ s.kind = "MOVE" => Len(s.src) = 1
  /\ s.kind = "MOVE_BINOP" => Len(s.src) = 2 /\ s.op \in {"+", "-", "*", "/"}
  /\ s.kind \in {"JUMP", "FALL"} => Len(s.labels) = 1 /\ s.src = <<>>
  /\ s.kind = "CJUMP" => Len(s.src) = 2 /\ Len(s.labels) = 2
  /\ s.kind = "PHI" => Len(s.src) = Len(s.labels) /\ \A i \in DOMAIN s.src : IsTemp(s.src[i])
  /\ s.kind \in Leaving => ToSet(s.labels) \subseteq Blocks(f)

WellFormed(f) ==
  /\ f.order \in Seq(Blocks(f)) /\ f.order # <<>>
  /\ f.params \in Seq(ToSet(f.params)) /\ NoTemp \notin ToSet(f.params)
  /\ \A i \in DOMAIN f.code[Entry(f)] : ~IsPhi(f.code[Entry(f)][i])
  /\ \A b \in Blocks(f) :
       /\ f.code[b] \in Seq(ToSet(f.code[b])) /\ f.code[b] # <<>>
       /\ \A i \in DOMAIN f.code[b] :
            /\ WellFormedStatement(f, f.code[b][i])
            /\ f.code[b][i].kind \in Leaving <=> i = Len(f.code[b])

\* The arguments of a run are words, and so is what a load or a call yields.
YieldsWords(f, input, n) ==
  /\ \A i \in DOMAIN f.params : input.args[i] \in Word
  /\ \A c \in Configurations(f, input, n) :
       ~c.halted => \A i \in DOMAIN f.code[c.at] : LET s == f.code[c.at][i] IN
         s.kind \in {"LOAD", "MOVE_EXTCALL"} =>
           AlongBlock(f, input, c)[i].env[s.dst] \in Word

\* A run reads no temp that it has not assigned, in a phi neither.
ReadsAssigned(f, input, n) ==
  \A c \in Configurations(f, input, n) :
    LET behind == AlongBlock(f, input, c)
        end == behind[Len(f.code[c.at])]
    IN ~c.halted =>
         /\ \A i \in DOMAIN f.code[c.at] :
              ~IsPhi(f.code[c.at][i]) => Uses(f.code[c.at][i]) \subseteq DOMAIN behind[i - 1].env
         /\ \A s \in ToSet(f.code[end.at]) : \A j \in DOMAIN s.labels :
              ~end.halted /\ IsPhi(s) /\ s.labels[j] = c.at => s.src[j].temp \in DOMAIN end.env

=============================================================================

---------------------------- MODULE MCMiddleEnd ----------------------------
(***************************************************************************)
(* MiddleEnd for TLC: functions of one parameter p and the variables x, y, *)
(* t over an entry and three blocks, which between them form loops with    *)
(* one and two entries, diamonds, nested loops and unreachable blocks.     *)
(* Variables are written in the entry, as lowering does.                   *)
(***************************************************************************)
EXTENDS MiddleEnd

p == 1
x == 2
y == 3
t == 4

Set(v, c) == <<Move(v, Const(c))>>
Count == <<MoveBinop(x, "+", Temp(x), Const(1))>>
Less1 == <<MoveBinop(y, "-", Temp(x), Const(1))>>
Divide == <<MoveBinop(y, "/", Const(4), Temp(y))>>
Copy == <<Move(y, Temp(x))>>
Swap == <<Move(t, Temp(x)), Move(x, Temp(y)), Move(y, Temp(t))>>
Sum(v, l, r) == <<MoveBinop(v, "+", Temp(l), Temp(r))>>
Difference(v, l, r) == <<MoveBinop(v, "-", Temp(l), Temp(r))>>
Observe == <<ExtCall("put", <<Temp(x), Temp(y)>>)>>
Ask == <<MoveExtCall(x, "get", <<Temp(y)>>)>>
Read == <<Load(y, Temp(x))>>
Reassign == <<MoveBinop(p, "-", Temp(p), Const(1))>>

If(op, l, r, yes, no) == <<CJump(op, l, r, yes, no)>>
Less(l, r, yes, no) == If("<", Temp(l), Temp(r), yes, no)
GoTo(l) == <<Jump(l)>>
Into(l) == <<Fall(l)>>
Leave(v) == <<Return(Temp(v))>>

Concat(bodies, ends) == {b \o e : b \in bodies, e \in ends}

\* The functions whose n-th block is one of the n-th set.
FunctionsOf(orders, blocks) ==
  LET Codes == FoldLeft(LAMBDA codes, S : {Append(c, b) : c \in codes, b \in S}, {<<>>}, blocks)
  IN {Function(<<p>>, order, code, t) : order \in orders, code \in Codes}

\* The bodies count, copy, swap, observe and read x and y, or reassign p.
ManyJoins ==
  FunctionsOf({<<1, 2, 3, 4>>},
    <<Concat({<<Move(x, Temp(p)), Move(y, Const(1)), Move(t, Const(0))>>},
           {GoTo(2), If("<", Temp(p), Const(0), 2, 3)}),
    Concat({<<>>, Swap}, {Less(x, y, 3, 4), Less(x, p, 2, 3)}),
    Concat({Count, Swap, Reassign}, {Into(4), Less(x, y, 2, 4)}),
    Concat({Observe, Ask}, {GoTo(3), Less(y, p, 3, 2), Leave(x)})>>)

\* Constants are assigned, copied, counted, divided by, compared and swapped
\* around loops and diamonds, so that branches fold, blocks drop out, and phis
\* keep one, two or only constant arguments.
ManyConstants ==
  FunctionsOf({<<1, 2, 3, 4>>, <<1, 4, 3, 2>>},
    <<Concat({Set(x, MaxInt) \o Set(y, 0) \o Set(t, 0), <<Move(x, Temp(p))>> \o Set(y, 1) \o Set(t, 0)},
           {Into(2)}),
    Concat({Count, Swap},
           {If("<", Temp(x), Temp(y), 3, 4), If("<", Temp(p), Temp(x), 3, 4),
            If("==", Temp(x), Const(MaxInt), 4, 3)}),
    Concat({Set(x, MaxInt), Less1, Divide}, {GoTo(2), Less(y, x, 2, 4)}),
    Concat({Set(x, 2), Observe \o Read}, {Into(2), Leave(x)})>>)

\* One expression stands in several blocks, in one order of the operands or the
\* other, of temps that are copies of each other or versions of one variable.
ManyExpressions ==
  FunctionsOf({<<1, 2, 3, 4>>},
    <<Concat({<<MoveBinop(x, "-", Temp(p), Const(1)), Move(y, Temp(p)),
              MoveBinop(t, "-", Const(1), Temp(p))>>,
            <<MoveBinop(x, "+", Temp(p), Const(1)), MoveBinop(y, "+", Const(1), Temp(p)),
              MoveBinop(t, "-", Const(1), Temp(p))>>},
           {GoTo(2)}),
    Concat({<<>>, Sum(t, x, y)}, {Less(x, y, 3, 4), Less(y, p, 3, 4)}),
    Concat({Sum(t, x, x), Sum(x, x, y), Difference(y, x, p)},
           {GoTo(4), Less(y, p, 2, 4)}),
    Concat({Sum(t, y, x), Difference(t, p, x), Sum(y, x, y) \o Observe},
           {Less(t, x, 3, 2), Leave(t)})>>)

\* Loops are entered from one block or two, repeated from one or two, left to a
\* block that something else leads to, and nested; they divide by what they leave
\* alone, by what they change, and by a quotient.
Quotients == <<MoveBinop(t, "/", Const(4), Temp(p)), MoveBinop(y, "/", Temp(t), Temp(p))>>
Ratio == <<MoveBinop(y, "/", Temp(x), Temp(p))>>

ManyLoops ==
  FunctionsOf({<<1, 2, 3, 4, 5>>},
    <<Concat({<<Move(x, Temp(p)), Move(y, Const(1)), Move(t, Const(0))>>},
             {GoTo(2), If("<=", Temp(p), Const(0), 2, 5), If(">", Temp(p), Const(1), 2, 3)}),
      Concat({<<>>, Quotients}, {Less(x, y, 3, 5), Less(x, p, 3, 4)}),
      Concat({Count \o Quotients, Ratio \o Observe},
             {GoTo(2), Less(y, x, 2, 4), Less(x, y, 3, 4)}),
      Concat({Count}, {GoTo(2), Less(y, x, 2, 5), Leave(y)}),
      Concat({Observe}, {Leave(x)})>>)

\* A variable counts from a constant to a constant, up or down, by one or more,
\* while others are summed, moved round, stored or read; some loops wrap, some
\* run too often, and one stands within another.
Counts == {Count, <<MoveBinop(x, "-", Temp(x), Const(-2))>>, <<MoveBinop(x, "+", Const(3), Temp(x))>>}
Works ==
  {Sum(y, x, y), <<Move(t, Temp(y)), Move(y, Temp(x))>>, <<Store(Temp(y), Temp(x))>>}

ManyTrips ==
  FunctionsOf({<<1, 2, 3, 4, 5>>},
    <<Concat({<<Move(x, Temp(p)), Move(y, Temp(p)), Move(t, Const(1))>>}, {If("!=", Temp(p), Const(2), 2, 5)}),
      Concat({Set(x, 0), Set(x, 2)}, {GoTo(3)}),
      Concat({<<>>}, {If("<", Temp(x), Const(4), 4, 5), If("<=", Const(5), Temp(x), 5, 4),
                      If("!=", Temp(x), Const(MaxInt), 4, 5), If(">=", Temp(x), Const(3), 5, 4)}),
      {w \o c \o GoTo(3) : w \in Works, c \in Counts},
      Concat({<<ExtCall("put", <<Temp(y), Temp(t)>>)>>}, {Leave(x), If("<", Temp(y), Const(1), 2, 5)})>>)

\* Products and differences that a constant or a repeated operand decides.
Trivial ==
  {<<MoveBinop(y, op, l, r)>> : op \in {"+", "-", "*", "/"}, l \in {Temp(x), Const(0), Const(-1)},
                                r \in {Temp(x), Const(0), Const(1)}}

ManyIdentities ==
  FunctionsOf({<<1, 2, 3>>},
    <<Concat({<<Move(x, Temp(p))>> \o Set(y, 1) \o Set(t, 0)}, {GoTo(2)}),
      {c \o e : c \in Trivial, e \in {Less(y, p, 3, 2), If(">=", Temp(y), Temp(y), 3, 2)}},
      {Observe \o Leave(y)}>>)

\* A temp is affine in a variable that counts up or down by a constant or by a
\* parameter, and read before or behind the step, inside or behind the loop.
Times(v, u, c) == <<MoveBinop(v, "*", Temp(u), Const(c))>>
Show == <<ExtCall("put", <<Temp(t)>>)>>
Images ==
  {Times(t, x, 2) \o Show, Times(y, x, -2) \o <<MoveBinop(t, "+", Const(1), Temp(y))>> \o Show,
   <<MoveBinop(t, "-", Const(1), Temp(x))>> \o Show, Less1 \o Times(t, y, -1)}
EitherOrder(images, strides, back) ==
  {i \o s \o GoTo(back) : i \in images, s \in strides}
    \cup {s \o i \o GoTo(back) : i \in images, s \in strides}

\* No image of a value or of a limit wraps in the first four rounds.
Counting(start, conds, strides) ==
  FunctionsOf({<<1, 2, 3, 4>>},
    <<{start \o Set(y, 1) \o Set(t, 0) \o GoTo(2)}, conds, EitherOrder(Images, strides, 2),
      Concat({Show}, {Leave(y)})>>)

Rising == {If("<", Temp(x), Const(2), 3, 4), If(">", Const(2), Temp(x), 3, 4)}
Falling == {If("<=", Const(-1), Temp(x), 3, 4), If("!=", Temp(x), Const(-1), 3, 4)}

\* One counter starts from the image of another, and one steps by what was
\* calculated some blocks before.
Nested ==
  FunctionsOf({<<1, 2, 3, 4, 5, 6, 7>>},
    <<{<<Move(x, Temp(p)), Move(t, Const(0))>> \o Set(y, 1) \o GoTo(2)},
      {If("<", Temp(x), Const(2), 3, 7)},
      Concat({Times(y, x, 2)}, {GoTo(4)}),
      {If("<", Temp(y), Const(2), 5, 6)},
      EitherOrder({Times(t, y, -1) \o Show}, {<<MoveBinop(y, "+", Temp(y), Const(1))>>, Sum(y, y, x)}, 4),
      Concat({Count}, {GoTo(2)}),
      Concat({Show}, {Leave(x)})>>)

Prepare == <<MoveBinop(t, "+", Temp(p), Const(1))>>
StepByTemp(c) == Times(y, x, c) \o <<ExtCall("put", <<Temp(y)>>)>> \o Sum(x, x, t) \o GoTo(3)

\* The copy of the calculation gets a number that a folded constant left free.
Prepared ==
  FunctionsOf({<<1, 2, 3, 4, 5>>},
    <<{Prepare \o Set(y, 1) \o Set(x, 0) \o GoTo(2)},
      {GoTo(3)},
      {If("<", Temp(x), Const(2), 4, 5), Less(x, p, 4, 5)},
      {d \o StepByTemp(c) : d \in {<<>>, Prepare \o Set(y, 1)}, c \in {2, -1}},
      {Leave(y)}>>)

\* Without such a number it gets that of the new counter.
Crowded ==
  FunctionsOf({<<1, 2, 3, 4>>},
    <<{Set(x, 0) \o Set(y, 1) \o Set(t, 0) \o GoTo(3)},
      {Leave(y)},
      {If("<", Temp(x), Const(2), 4, 2)},
      {Prepare \o StepByTemp(-1)}>>)

\* A further calculation behind the step reads an image from in front of it.
Chained ==
  FunctionsOf({<<1, 2, 3, 4>>},
    <<{<<Move(x, Temp(p))>> \o Set(y, 1) \o GoTo(2)},
      {If("<", Temp(x), Const(2), 3, 4)},
      {Times(y, x, 2) \o Count \o <<MoveBinop(y, "+", Temp(y), Const(1)), ExtCall("put", <<Temp(y)>>)>> \o GoTo(2)},
      {Leave(x)}>>)

ManyInductions ==
  Nested \cup Prepared
    \cup Counting(<<Move(x, Temp(p))>>, Rising, {Count})
    \cup Counting(Set(x, 0), Rising, {Sum(x, p, x)})
    \cup Counting(<<Move(x, Temp(p))>>, Falling, {<<MoveBinop(x, "-", Temp(x), Const(1))>>})
    \cup Counting(Set(x, 0), Falling, {Difference(x, x, p)})

\* The functions that are called: three to be inlined, and four that would be but
\* for a parameter nobody reads, the length, a call and a branch.
Leaf(params, code) == Function(params, <<1>>, <<code>>, 5)

MCCallees ==
  "same" :> Leaf(<<p>>, Leave(p))
    @@ "next" :> Leaf(<<p>>, <<MoveBinop(x, "+", Temp(p), Const(1))>> \o Leave(x))
    @@ "gap" :> Leaf(<<x, p>>, Difference(y, p, x) \o Sum(t, x, x) \o Difference(5, y, t) \o Leave(5))
    @@ "first" :> Leaf(<<p, x>>, Leave(p))
    @@ "long" :> Leaf(<<p>>, <<Move(x, Temp(p)), Move(y, Temp(x)), Move(t, Temp(y)), MoveBinop(5, "-", Const(0), Temp(t))>> \o Leave(5))
    @@ "asked" :> Leaf(<<p>>, <<MoveExtCall(x, "get", <<Temp(p)>>)>> \o Leave(x))
    @@ "least" :> Function(<<p, x>>, <<1, 2, 3>>, <<Less(p, x, 2, 3), Leave(p), Leave(x)>>, y)

\* Calls stand one behind the other, in a loop, and each other's arguments.
Call(v, name, args) == <<MoveExtCall(v, name, args)>>
Calls ==
  {Call(y, "gap", <<Temp(x), Temp(y)>>), Call(y, "gap", <<Temp(y), Const(1)>>) \o Call(t, "gap", <<Temp(y), Temp(x)>>),
   Call(t, "same", <<Temp(y)>>) \o Call(y, "next", <<Temp(x)>>), Call(y, "first", <<Temp(x), Temp(t)>>),
   Call(t, "next", <<Temp(y)>>) \o Call(y, "long", <<Temp(t)>>), Call(y, "asked", <<Temp(x)>>),
   Call(y, "least", <<Temp(y), Temp(x)>>) \o <<ExtCall("asked", <<Temp(y)>>)>>}

ManyCalls ==
  FunctionsOf({<<1, 2, 3, 4>>},
    <<Concat({<<Move(x, Temp(p))>> \o Set(y, 0) \o Set(t, 0)}, {GoTo(2)}),
      Concat({<<>>}, {If("<", Temp(x), Const(2), 3, 4), Less(y, x, 3, 4)}),
      Concat({c \o Count : c \in Calls} \cup {Call(x, "next", <<Temp(x)>>) \o c : c \in Calls}, {GoTo(2)}),
      Concat({Call(t, "same", <<Temp(t)>>)}, {<<ExtCall("put", <<Temp(t)>>)>> \o Leave(y)})>>)

\* The branches assign one constant or another to a parameter.
ReassignedInBranches ==
  FunctionsOf({<<1, 2, 3, 4>>},
    <<{If(">", Temp(p), Const(0), 2, 3)}, {Set(p, 1) \o GoTo(4)}, {Set(p, 0) \o GoTo(4)}, {Leave(p)}>>)

\* A parameter is divided and assigned to in a loop that may not be entered.
ReassignedInLoop ==
  FunctionsOf({<<1, 2, 3, 4>>},
    <<Concat({<<Move(x, Const(0)), Move(y, Temp(p)), Move(t, Const(0))>>}, {GoTo(2)}),
      {Less(x, p, 3, 4)},
      {Count \o <<MoveBinop(p, "/", Const(2), Temp(y))>> \o GoTo(2)},
      {Leave(p)}>>)

MCFunctions ==
  ManyJoins \cup ManyConstants \cup ManyExpressions \cup ManyLoops \cup ManyTrips
    \cup ManyIdentities \cup ManyInductions \cup ManyCalls

MCInputs == {[args |-> <<a>>, reads |-> <<2, 0>>] : a \in {-1, 2}}

=============================================================================

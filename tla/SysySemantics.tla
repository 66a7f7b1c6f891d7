--------------------------- MODULE SysySemantics ---------------------------
(***************************************************************************)
(* What a SysY program means: the reference the compiled code is compared  *)
(* with.  The language is that of C: a declaration makes an object in the  *)
(* innermost scope, operands are evaluated from left to right, int and     *)
(* float mix by the usual conversions, arrays are row-major, and braces in *)
(* an initializer that are left out are filled in as in C.                 *)
(*                                                                         *)
(* Evaluation threads one state: the memory, what was observed, the scopes *)
(* and the value of the last expression.  Two flags say that something was *)
(* done the language has no meaning for: stuck, if it is something a       *)
(* compiler of this language is there to refuse (a name without a          *)
(* declaration, an array as an operand, ...), overlooked, if it is         *)
(* something semantics.cc does not look at; evaluation then goes on with   *)
(* 0, of the type the checker takes it for.  What is overlooked:           *)
(*   - an array or no value where a variable or an element begins (205);   *)
(*   - one value for a whole array, without braces (205);                  *)
(*   - an array or no value as the condition of an if or a while (327);    *)
(*   - an array or no value returned from a function (356);                *)
(*   - no value as an operand, but of % (433);                             *)
(*   - the assignment of a whole array (491);                              *)
(*   - rows of another length than the parameter says (504);               *)
(*   - parameters of main (227).                                           *)
(* undefined says that memory was read that was never written or is not    *)
(* there.                                                                  *)
(*                                                                         *)
(* Behind it: what a program of quadruples does when it runs.              *)
(***************************************************************************)
EXTENDS SysyProgram, TLC

CONSTANT MaxBlocks  \* how many blocks of quadruples a call may run through

Cell == 4                        \* bytes of an int or float
Region(i) == 1000 * i            \* where the i-th object begins
Elements(dims) == FoldLeft(LAMBDA n, d : n * d, 1, dims)

\* A scalar has no dims; the value of an array is its address.
Val(base, dims, n) == [base |-> base, dims |-> dims, n |-> n]

Start(input, objects) ==
  [mem |-> input.mem, trace |-> <<>>, reads |-> input.reads, objects |-> objects,
   scopes |-> <<>>, v |-> Val("int", <<>>, 0), how |-> "next",
   stuck |-> FALSE, overlooked |-> FALSE, undefined |-> FALSE, fuel |-> input.fuel]

Give(st, base, n) == [st EXCEPT !.v = Val(base, <<>>, n)]
Stuck(st) == [Give(st, "int", 0) EXCEPT !.stuck = TRUE]
Overlook(st, base) == [Give(st, base, 0) EXCEPT !.overlooked = TRUE]

Read(st, addr) == IF addr \in DOMAIN st.mem THEN st.mem[addr] ELSE 0
Written(st, addr, n) == [st EXCEPT !.mem = (addr :> n) @@ @]

ConvertTo(base, v) ==
  CASE v.base = "int" /\ base = "float" -> Val("float", <<>>, IntToFloat(v.n))
    [] v.base = "float" /\ base = "int" -> Val("int", <<>>, FloatToInt(v.n))
    [] OTHER -> v

IsNumber(v) == v.dims = <<>> /\ v.base # "void"
Convert(st, base) ==
  IF IsNumber(st.v) THEN [st EXCEPT !.v = ConvertTo(base, @)] ELSE Overlook(st, base)

Truth(v) == Amount(v.n) # 0 \/ (v.base = "int" /\ v.n # 0)

-----------------------------------------------------------------------------
\* The runtime library, as far as the programs call it.  The next reply of the
\* input answers a get; stdout is the trace.
Library ==
  LET number(base) == <<base, <<>>>>
      ints == <<"int", <<-1>>>>
  IN [getint |-> <<"int">>, getfloat |-> <<"float">>, getarray |-> <<"int", ints>>,
      putint |-> <<"void", number("int")>>, putfloat |-> <<"void", number("float")>>,
      putarray |-> <<"void", number("int"), ints>>]

Answered(st) == [st EXCEPT !.reads = Append(Tail(@), Head(@))]
Observed(st, event) == Give([st EXCEPT !.trace = Append(@, event)], "void", 0)

CallLibrary(st, f, args) ==
  CASE f = "getint" -> Give(Answered(st), "int", Head(st.reads))
    [] f = "getfloat" -> Give(Answered(st), "float", Head(st.reads))
    [] f = "getarray" -> Give(Written(Answered(st), args[1], Head(st.reads)), "int", 1)
    [] f = "putarray" ->
         Observed(st, <<f>> \o [i \in 1 .. args[1] |-> Read(st, args[2] + Cell * (i - 1))])
    [] OTHER -> Observed(st, <<f>> \o args)

-----------------------------------------------------------------------------
\* Scopes.  An entry is an object or a function.
Object(base, dims, addr, const) ==
  [base |-> base, dims |-> dims, addr |-> addr, const |-> const]

Bound(st, x) == \E i \in 1 .. Len(st.scopes) : x \in DOMAIN st.scopes[i]
Lookup(st, x) ==
  st.scopes[CHOOSE i \in 1 .. Len(st.scopes) :
              /\ x \in DOMAIN st.scopes[i]
              /\ \A j \in i + 1 .. Len(st.scopes) : x \notin DOMAIN st.scopes[j]][x]

Declared(st, x, base, dims, const) ==
  [st EXCEPT !.objects = @ + 1,
             !.stuck = @ \/ x \in DOMAIN Last(st.scopes),
             !.scopes[Len(st.scopes)] = (x :> Object(base, dims, Region(st.objects), const)) @@ @]

FunctionOf(prog, f) == SelectSeq(prog.children, LAMBDA d : d.kind = "FuncDef" /\ d.text = f)

\* The elements of an array in order, each a node or nothing: an element that is
\* not in braces of its own takes what it needs from the list it stands in.
\* fits says that no brace holds more than its element.
RECURSIVE Elaborate(_, _), ElaborateAll(_, _, _)
Filled(flat, rest, fits) == [flat |-> flat, rest |-> rest, fits |-> fits]
Enclosed(inner, rest) == Filled(inner.flat, rest, inner.fits /\ inner.rest = <<>>)
Braced(dims, items) == Enclosed(Elaborate(dims, Head(items).children), Tail(items))
OpensWith(items) == items # <<>> /\ Head(items).kind = "InitList"

Elaborate(dims, items) ==
  CASE dims # <<>> -> ElaborateAll(dims, dims[1], items)
    [] dims = <<>> /\ items = <<>> -> Filled(<<<<>>>>, <<>>, TRUE)
    [] dims = <<>> /\ OpensWith(items) -> Braced(<<>>, items)
    [] OTHER -> Filled(<<<<Head(items)>>>>, Tail(items), TRUE)

Both(first, others) == Filled(first.flat \o others.flat, others.rest, first.fits /\ others.fits)
Others(dims, n, first) == Both(first, ElaborateAll(dims, n - 1, first.rest))
ElaborateAll(dims, n, items) ==
  CASE n = 0 -> Filled(<<>>, items, TRUE)
    [] n > 0 /\ Len(dims) > 1 /\ OpensWith(items) -> Others(dims, n, Braced(Tail(dims), items))
    [] OTHER -> Others(dims, n, Elaborate(Tail(dims), items))

-----------------------------------------------------------------------------
RECURSIVE Eval(_, _, _), Exec(_, _, _), ExecAll(_, _, _), Repeat(_, _, _, _), Invoke(_, _, _, _)

Values(vs, r) == [st |-> r, vs |-> Append(vs, r.v)]
EvalAll(prog, es, st) ==
  FoldLeft(LAMBDA acc, e : Values(acc.vs, Eval(prog, e, acc.st)), [st |-> st, vs |-> <<>>], es)

\* The object an lvalue names: an element, a row, or the whole.
PlaceAt(st, base, dims, addr) == [st |-> st, base |-> base, dims |-> dims, addr |-> addr]
NoPlace(st) == PlaceAt(Stuck(st), "int", <<>>, 0)
Indexed(o, is) ==
  LET k == Len(is.vs)
      Stride(i) == Elements(SubSeq(o.dims, i + 1, Len(o.dims)))
      offset == FoldLeft(LAMBDA n, i : n + is.vs[i].n * Stride(i), 0, [i \in 1 .. k |-> i])
      inside == \A i \in 1 .. k : is.vs[i].n >= 0 /\ (o.dims[i] < 0 \/ is.vs[i].n < o.dims[i])
  IN IF k > Len(o.dims) \/ \E i \in 1 .. k : is.vs[i].dims # <<>> \/ is.vs[i].base # "int" THEN NoPlace(is.st)
     ELSE PlaceAt([is.st EXCEPT !.undefined = @ \/ ~inside], o.base,
                  SubSeq(o.dims, k + 1, Len(o.dims)), o.addr + Cell * offset)
Place(prog, e, st) ==
  IF Bound(st, e.text) THEN Indexed(Lookup(st, e.text), EvalAll(prog, e.children, st)) ELSE NoPlace(st)

Arith(st, op, l, r) ==
  LET float == "float" \in {l.base, r.base}
      a == ConvertTo(IF float THEN "float" ELSE "int", l).n
      b == ConvertTo(IF float THEN "float" ELSE "int", r).n
      void == "void" \in {l.base, r.base}
  IN IF l.dims # <<>> \/ r.dims # <<>> \/ ((float \/ void) /\ op = "%") THEN Stuck(st)
     ELSE IF void THEN Overlook(st, IF float /\ op \in Arithmetic THEN "float" ELSE "int")
     ELSE IF op \in {"/", "%"} /\ Amount(b) = 0 THEN [Give(st, "int", 0) EXCEPT !.undefined = TRUE]
     ELSE IF op \in Relations
       THEN Give(st, "int", Bit(IF float THEN FloatRelates(op, a, b) ELSE Relates(op, a, b)))
     ELSE IF float THEN Give(st, "float", FloatOperate(op, a, b))
     ELSE Give(st, "int", IntOperate(op, a, b))

\* The value of a condition; of an operand of && and ||, which is no array.
Decide(st) == IF IsNumber(st.v) THEN Give(st, "int", Bit(Truth(st.v))) ELSE Overlook(st, "int")
DecideOperand(st) == IF st.v.dims # <<>> THEN Stuck(st) ELSE Decide(st)

Loaded(p) ==
  IF p.dims # <<>> THEN [p.st EXCEPT !.v = Val(p.base, p.dims, p.addr)]
  ELSE [Give(p.st, p.base, Read(p.st, p.addr)) EXCEPT !.undefined = @ \/ p.addr \notin DOMAIN p.st.mem]

UnaryArith(op, st) ==
  CASE st.v.dims # <<>> -> Stuck(st)
    [] st.v.base = "void" -> Overlook(st, IF op = "!" THEN "int" ELSE "void")
    [] IsNumber(st.v) /\ op = "+" -> st
    [] IsNumber(st.v) /\ op = "!" -> Give(st, "int", 1 - Bit(Truth(st.v)))
    [] IsNumber(st.v) /\ op = "-" ->
         IF st.v.base = "float" THEN Give(st, "float", FloatNegate(st.v.n)) ELSE Give(st, "int", Wrap(-st.v.n))

BinaryArith(op, both) == Arith(both.st, op, both.vs[1], both.vs[2])

\* The second operand of && and || is evaluated if the first does not decide.
Second(prog, op, e, l) == IF l.v.n = Bit(op = "||") THEN l ELSE DecideOperand(Eval(prog, e, l))

InvokeWith(prog, f, args) == Invoke(prog, f, args.vs, args.st)

Eval(prog, e, st) ==
  CASE e.kind = "Number" -> Give(st, IF e.text = "float" THEN "float" ELSE "int", e.val)
    [] e.kind = "LVal" -> Loaded(Place(prog, e, st))
    [] e.kind = "UnaryExpr" -> UnaryArith(e.text, Eval(prog, e.children[1], st))
    [] e.kind = "BinaryExpr" /\ e.text \in {"&&", "||"} ->
         Second(prog, e.text, e.children[2], DecideOperand(Eval(prog, e.children[1], st)))
    [] e.kind = "BinaryExpr" /\ e.text \notin {"&&", "||"} ->
         BinaryArith(e.text, EvalAll(prog, e.children, st))
    [] e.kind = "CallExpr" -> InvokeWith(prog, e.text, EvalAll(prog, e.children, st))

\* What parameters take: a base and dims, the first of them open.  A row fits
\* an array of the program's own function only with all its dims.
DimsOfParam(param) ==
  [d \in 1 .. Len(param.children) - 1 |-> IF d = 1 THEN -1 ELSE param.children[d + 1].children[1].val]
Formals(prog, f) ==
  IF FunctionOf(prog, f) = <<>> THEN Tail(Library[f])
  ELSE LET params == ParamsOf(FunctionOf(prog, f)[1])
       IN [i \in 1 .. Len(params) |-> <<TypeOf(params[i]), DimsOfParam(params[i])>>]
Fits(formal, v, own) ==
  IF formal[2] = <<>> THEN IsNumber(v)
  ELSE formal[1] = v.base /\ v.dims # <<>> /\ (own => Len(v.dims) = Len(formal[2]))
AllFit(formals, vs, own) ==
  Len(vs) = Len(formals) /\ \A i \in 1 .. Len(vs) : Fits(formals[i], vs[i], own)
SameRows(formals, vs) ==
  \A i \in 1 .. Len(vs) : formals[i][2] # <<>> => Tail(vs[i].dims) = Tail(formals[i][2])
Passed(formals, vs) ==
  [i \in 1 .. Len(vs) |-> IF formals[i][2] # <<>> THEN vs[i].n ELSE ConvertTo(formals[i][1], vs[i]).n]

Enter(st, param, n) ==
  LET dims == DimsOfParam(param)
      o == Declared(st, param.text, TypeOf(param), dims, FALSE)
  IN IF dims = <<>> THEN Written(o, Region(st.objects), n)
     ELSE [o EXCEPT !.scopes[2][param.text].addr = n]

\* What comes back has the type of the function; 0 if control falls out of it.
Left(type, st) ==
  CASE st.how = "next" -> Give(st, type, 0)
    [] st.how = "return" /\ type # "void" /\ st.v.base # "none" -> Convert(st, type)
    [] st.how = "return" /\ type = "void" /\ st.v.base = "none" -> Give(st, "void", 0)
    [] OTHER -> Stuck(st)
Back(st, scopes) == [st EXCEPT !.scopes = scopes, !.how = "next"]

CallOwn(prog, fn, args, st) ==
  Back(Left(TypeOf(fn),
            ExecAll(prog, BodyOf(fn).children,
                    FoldLeft(LAMBDA s, i : Enter(s, ParamsOf(fn)[i], args[i]),
                             [st EXCEPT !.scopes = <<st.scopes[1], <<>>>>, !.fuel = @ - 1],
                             [i \in 1 .. Len(args) |-> i]))),
       st.scopes)

\* A call: numbers are converted to the types of the parameters, an array is
\* passed by its address.
Invoke(prog, f, vs, st) ==
  LET own == FunctionOf(prog, f) # <<>>
      args == Passed(Formals(prog, f), vs)
  IN IF ~own /\ f \notin DOMAIN Library THEN Stuck(st)
     ELSE IF ~AllFit(Formals(prog, f), vs, own) THEN Stuck(st)
     ELSE IF ~own THEN CallLibrary(st, f, args)
     ELSE IF ~SameRows(Formals(prog, f), vs) THEN Overlook(st, TypeOf(FunctionOf(prog, f)[1]))
     ELSE IF st.fuel = 0 THEN [st EXCEPT !.undefined = TRUE]
     ELSE CallOwn(prog, FunctionOf(prog, f)[1], args, st)

-----------------------------------------------------------------------------
\* An array with an initializer is zero where the initializer says nothing.
Stored(r, addr) == Written(r, addr, r.v.n)
Fill(prog, st, base, addr, element) ==
  Stored(IF element = <<>> THEN Give(st, base, 0) ELSE Convert(Eval(prog, element[1], st), base), addr)
FillAll(prog, st, base, addr, whole) ==
  IF ~whole.fits THEN Stuck(st)
  ELSE FoldLeft(LAMBDA s, i : Fill(prog, s, base, addr + Cell * (i - 1), whole.flat[i]),
                st, [i \in 1 .. Len(whole.flat) |-> i])
Initialize(prog, st, base, dims, init) ==
  CASE init = <<>> -> st
    [] OpensWith(init) -> FillAll(prog, st, base, Region(st.objects - 1), Braced(dims, init))
    [] OTHER -> Overlook(Eval(prog, init[1], st), base)

\* What has a value when the program is compiled.
Fixed(st, e) ==
  \A n \in Subnodes(e) : /\ n.kind # "CallExpr"
                         /\ n.kind = "LVal" => /\ Bound(st, n.text) /\ n.children = <<>>
                                               /\ Lookup(st, n.text).const /\ Lookup(st, n.text).dims = <<>>

\* A constant, a global and the dims of an array are known to the compiler.  A
\* variable is there when its initializer is evaluated.
DeclareScalar(prog, st, x, base, const, init) ==
  LET declared == Declared(st, x, base, <<>>, const)
  IN CASE init = <<>> -> declared
       [] OpensWith(init) -> Stuck(declared)
       [] OTHER -> Stored(Convert(Eval(prog, init[1], declared), base), Region(st.objects))
KnownDims(st, dims, sizes) ==
  \A i \in 1 .. Len(dims) : Fixed(st, dims[i]) /\ sizes[i].base = "int" /\ sizes[i].n > 0
DeclareArray(prog, node, st, def, sizes) ==
  LET extents == [i \in 1 .. Len(sizes) |-> sizes[i].n]
  IN Initialize(prog, Declared(st, def.text, node.text, extents, node.kind = "ConstDecl"), node.text, extents,
                InitializerOf(def))
DeclareSized(prog, node, st, def, dims, sizes) ==
  LET init == InitializerOf(def)
      const == node.kind = "ConstDecl"
      constant == (const /\ dims = <<>>) \/ Len(st.scopes) = 1
  IN IF ~KnownDims(st, dims, sizes) \/ (constant /\ init # <<>> /\ ~Fixed(st, init[1])) THEN Stuck(st)
     ELSE IF dims # <<>> THEN DeclareArray(prog, node, st, def, sizes)
     ELSE DeclareScalar(prog, st, def.text, node.text, const, init)
DeclareOne(prog, node, st, def) ==
  LET dims == [i \in 1 .. Len(DimsOf(def)) |-> DimsOf(def)[i].children[1]]
  IN DeclareSized(prog, node, st, def, dims, EvalAll(prog, dims, st).vs)

ExecAll(prog, ss, st) ==
  FoldLeft(LAMBDA s, n : IF s.how # "next" THEN s ELSE Exec(prog, n, s), st, ss)

\* A loop is left by its condition, a break or a return.
Again(prog, c, body, st) ==
  CASE st.how = "break" -> [st EXCEPT !.how = "next"]
    [] st.how = "return" -> st
    [] OTHER -> Repeat(prog, c, body, [st EXCEPT !.how = "next", !.fuel = @ - 1])
Tested(prog, c, body, test) ==
  IF test.fuel = 0 \/ test.stuck THEN [test EXCEPT !.undefined = TRUE]
  ELSE IF test.v.n = 0 THEN test
  ELSE Again(prog, c, body, Exec(prog, body, test))
Repeat(prog, c, body, st) == Tested(prog, c, body, Decide(Eval(prog, c, st)))

AssignTo(p, r, const) ==
  CASE const \/ Len(p.dims) # Len(r.v.dims) -> Stuck(r)
    [] ~const /\ p.dims # <<>> /\ Len(p.dims) = Len(r.v.dims) ->
         IF p.base = r.v.base THEN Overlook(r, "int") ELSE Stuck(r)
    [] OTHER -> IF r.v.base = "void" THEN Stuck(r) ELSE Stored(Convert(r, p.base), p.addr)
AssignAt(prog, e, p, const) == AssignTo(p, Eval(prog, e, p.st), const)

Branch(prog, n, c) ==
  CASE c.v.n = 1 -> Exec(prog, n.children[2], c)
    [] c.v.n # 1 /\ Len(n.children) > 2 -> Exec(prog, n.children[3], c)
    [] OTHER -> c

Exec(prog, n, st) ==
  CASE IsDecl(n) -> FoldLeft(LAMBDA s, def : DeclareOne(prog, n, s, def), st, n.children)
    [] n.kind = "Block" ->
         [ExecAll(prog, n.children, [st EXCEPT !.scopes = Append(@, <<>>)]) EXCEPT !.scopes = st.scopes]
    [] n.kind = "AssignStmt" ->
         LET x == n.children[1].text
         IN AssignAt(prog, n.children[2], Place(prog, n.children[1], st), Bound(st, x) /\ Lookup(st, x).const)
    [] n.kind = "ExprStmt" -> EvalAll(prog, n.children, st).st
    [] n.kind = "IfStmt" -> Branch(prog, n, Decide(Eval(prog, n.children[1], st)))
    [] n.kind = "WhileStmt" -> Repeat(prog, n.children[1], n.children[2], st)
    [] n.kind = "BreakStmt" -> [st EXCEPT !.how = "break"]
    [] n.kind = "ContinueStmt" -> [st EXCEPT !.how = "continue"]
    [] n.kind = "ReturnStmt" ->
         [EvalAll(prog, n.children, Give(st, "none", 0)).st EXCEPT !.how = "return"]

\* A run: the globals in order, zero unless initialized, then main.
Globals(prog) == SelectSeq(prog.children, IsDecl)
GlobalDefs(prog) == FoldLeft(LAMBDA ds, d : ds \o d.children, <<>>, Globals(prog))

ZeroWords(o) == [a \in {o.addr + Cell * (i - 1) : i \in 1 .. Elements(o.dims)} |-> 0]
Zeroed(st, d) ==
  IF st.stuck THEN st ELSE
  [st EXCEPT !.mem = FoldLeft(LAMBDA m, def : m @@ ZeroWords(st.scopes[1][def.text]), @, d.children)]

\* The names of the file are different ones, there is a main, and a function is
\* called only behind its definition or in it.
NamesAt(d) == IF IsDecl(d) THEN [i \in 1 .. Len(d.children) |-> d.children[i].text] ELSE <<d.text>>
WellNamed(prog) ==
  LET top == prog.children
      names == FoldLeft(LAMBDA all, d : all \o NamesAt(d), <<>>, top)
  IN /\ IsInjective(names) /\ FunctionOf(prog, "main") # <<>>
     /\ TypeOf(FunctionOf(prog, "main")[1]) = "int"
     /\ \A i \in 1 .. Len(top) : \A n \in Subnodes(top[i]) : \A j \in i + 1 .. Len(top) :
          n.kind = "CallExpr" => n.text # top[j].text

RunMain(prog, st) ==
  IF ParamsOf(FunctionOf(prog, "main")[1]) # <<>> THEN Overlook(st, "int") ELSE Invoke(prog, "main", <<>>, st)
RunProgram(prog, input) ==
  LET start == [Start(input, 1) EXCEPT !.scopes = <<<<>>>>]
  IN IF ~WellNamed(prog) THEN Stuck(start)
     ELSE RunMain(prog, FoldLeft(LAMBDA st, d : Zeroed(Exec(prog, d, st), d), start, Globals(prog)))

\* What an observer sees in the end: the output, the exit code, the globals.
Outcome(prog, st) ==
  [trace |-> st.trace, code |-> st.v.n,
   globals |-> [a \in {m \in DOMAIN st.mem : m < Region(Len(GlobalDefs(prog)) + 1)} |-> st.mem[a]]]

-----------------------------------------------------------------------------
\* Quadruples with memory: they load and store, allocate, convert, and call the functions
\* of the program and the runtime library, which is the one the source is run with.  A
\* program is its functions by name, each with its arguments and its blocks, and the
\* addresses of its globals.
IntOperators == {"+", "-", "*", "/"}

BinaryHelpers ==
  [op \in {"+", "-", "*", "/"} \cup Relations |->
     CASE op = "+" -> "__sysy_fadd_bits"   [] op = "-" -> "__sysy_fsub_bits"
       [] op = "*" -> "__sysy_fmul_bits"   [] op = "/" -> "__sysy_fdiv_bits"
       [] op = "==" -> "__sysy_fcmpeq_bits" [] op = "!=" -> "__sysy_fcmpne_bits"
       [] op = "<" -> "__sysy_fcmplt_bits" [] op = ">" -> "__sysy_fcmpgt_bits"
       [] op = "<=" -> "__sysy_fcmple_bits" [] op = ">=" -> "__sysy_fcmpge_bits"]

\* What a helper of the runtime computes from bits.
Helped(f, args) ==
  CASE f = "__sysy_i2f_bits" -> IntToFloat(args[1])
    [] f = "__sysy_f2i_bits" -> FloatToInt(args[1])
    [] f = "__sysy_fneg_bits" -> FloatNegate(args[1])
    [] OTHER -> LET op == CHOOSE o \in DOMAIN BinaryHelpers : BinaryHelpers[o] = f
                IN IF op \in Relations THEN Bit(FloatRelates(op, args[1], args[2]))
                   ELSE FloatOperate(op, args[1], args[2])

Helpers == {"__sysy_i2f_bits", "__sysy_f2i_bits", "__sysy_fneg_bits"}
             \cup {BinaryHelpers[o] : o \in DOMAIN BinaryHelpers}

\* malloc hands out memory nobody wrote to, memset clears it.
Malloc(st) == [Give(st, "int", Region(st.objects)) EXCEPT !.objects = @ + 1]
Memset(st, addr, bytes) ==
  [Give(st, "int", 0) EXCEPT !.mem = [a \in {addr + Cell * (i - 1) : i \in 1 .. bytes \div Cell} |-> 0] @@ @]

Known(c, term) == "temp" \in DOMAIN term => term.temp \in DOMAIN c.env
TermValue(prog, c, term) ==
  CASE "const" \in DOMAIN term -> term.const
    [] "name" \in DOMAIN term -> prog.globals[term.name]
    [] OTHER -> IF Known(c, term) THEN c.env[term.temp] ELSE 0

RECURSIVE CallQuads(_, _, _, _), RunBlocks(_, _, _)

\* A call: to a helper, the C library, a function of the program, the runtime.
Dispatch(prog, f, args, st) ==
  CASE f \in Helpers -> Give(st, "int", Helped(f, args))
    [] f = "malloc" -> Malloc(st)
    [] f = "memset" -> Memset(st, args[1], args[3])
    [] f \in DOMAIN prog.functions -> CallQuads(prog, f, args, st)
    [] OTHER -> CallLibrary(st, f, args)

Set(c, d, n) == [c EXCEPT !.env = (d :> n) @@ @]
Kept(c, st) == [c EXCEPT !.st = st]
Received(c, d, st) == [c EXCEPT !.st = st, !.env = (d :> st.v.n) @@ @]

ExecWith(prog, c, q, vals) ==
  CASE q.kind = "MOVE" -> Set(c, q.dst, vals[1])
    [] q.kind = "MOVE_BINOP" -> Set(c, q.dst, IntOperate(q.op, vals[1], vals[2]))
    [] q.kind = "PTR_CALC" -> Set(c, q.dst, vals[1] + vals[2])
    [] q.kind = "LOAD" ->
         [Set(c, q.dst, Read(c.st, vals[1])) EXCEPT !.st.undefined = @ \/ vals[1] \notin DOMAIN c.st.mem]
    [] q.kind = "STORE" -> [c EXCEPT !.st = Written(@, vals[2], vals[1])]
    [] q.kind = "EXTCALL" -> Kept(c, Dispatch(prog, q.op, vals, c.st))
    [] q.kind = "MOVE_EXTCALL" -> Received(c, q.dst, Dispatch(prog, q.op, vals, c.st))
    [] q.kind = "JUMP" -> [c EXCEPT !.at = q.labels[1]]
    [] q.kind = "CJUMP" -> [c EXCEPT !.at = IF Relates(q.op, vals[1], vals[2]) THEN q.labels[1] ELSE q.labels[2]]
    [] q.kind = "RETURN" -> [c EXCEPT !.done = TRUE, !.st = Give(@, "int", vals[1])]

ExecQuad(prog, c, q) ==
  IF c.done \/ c.st.undefined THEN c
  ELSE ExecWith(prog, [c EXCEPT !.st.undefined = @ \/ \E i \in 1 .. Len(q.src) : ~Known(c, q.src[i])], q,
                [i \in 1 .. Len(q.src) |-> TermValue(prog, c, q.src[i])])

\* A block that no terminator ends goes on to its exit.
BlockAt(blocks, l) == SelectSeq(blocks, LAMBDA b : b.entry = l)
FallsTo(b, l) == IF b.exits = <<>> THEN l ELSE b.exits[1]

RunBlock(prog, c, b) ==
  FoldLeft(LAMBDA d, q : ExecQuad(prog, d, q), [c EXCEPT !.at = FallsTo(b, @), !.steps = @ + 1], b.quads)

RunBlocks(prog, blocks, c) ==
  IF c.done \/ c.st.undefined THEN c
  ELSE IF c.steps = MaxBlocks \/ BlockAt(blocks, c.at) = <<>> THEN [c EXCEPT !.st.undefined = TRUE]
  ELSE RunBlocks(prog, blocks, RunBlock(prog, c, BlockAt(blocks, c.at)[1]))

CallQuads(prog, f, args, st) ==
  LET fn == prog.functions[f]
      env == FoldLeft(LAMBDA e, i : (fn.args[i] :> args[i]) @@ e, <<>>, [i \in 1 .. Len(args) |-> i])
      start == [st |-> [st EXCEPT !.fuel = @ - 1], env |-> env, at |-> fn.blocks[1].entry,
                done |-> FALSE, steps |-> 0]
  IN IF st.fuel = 0 THEN [st EXCEPT !.undefined = TRUE] ELSE RunBlocks(prog, fn.blocks, start).st

\* A run of the compiled program: its data section, then main.
RunQuads(prog, input) ==
  LET Load(m, g) == [i \in {prog.globals[g] + Cell * (k - 1) : k \in 1 .. Len(prog.data[g])} |->
                       prog.data[g][1 + (i - prog.globals[g]) \div Cell]] @@ m
      st == Start(input, 100)
  IN CallQuads(prog, "main", <<>>, [st EXCEPT !.mem = FoldSet(LAMBDA g, m : Load(m, g), @, DOMAIN prog.data)])

=============================================================================

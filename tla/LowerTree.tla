----------------------------- MODULE LowerTree -----------------------------
(***************************************************************************)
(* Lowering of a checked program to Tree IR, loops being left sequential   *)
(* (how they are made parallel is in ParallelLoop).  The functions of the  *)
(* Lowerer thread c, the next free temp and label and whether everything   *)
(* could be lowered; env holds what it looks up: scopes, signatures, the   *)
(* return type and the targets of break and continue.                      *)
(***************************************************************************)
EXTENDS SysyProgram, TLC

T == INSTANCE TreeIR

TreeType(base) == IF base = "float" THEN "FLOAT" ELSE "INT"
IsFloatText(n) == n.text = "float"

NewTemp(c) == [c EXCEPT !.temp = @ + 1]
NewLabels(c, k) == [c EXCEPT !.label = @ + k]
Fail(c) == [c EXCEPT !.ok = FALSE]

Lowered(e, c) == [e |-> e, c |-> c]
Failed(c) == Lowered(T!Const(0, "INT"), Fail(c))

-----------------------------------------------------------------------------
\* Symbols.  A scalar constant has no storage, only its value.
Symbol(temp, label, dims, base) ==
  [temp |-> temp, global |-> label # "", label |-> label, dims |-> dims, base |-> base,
   const |-> FALSE, raw |-> 0]
ConstSymbol(label, base, raw) == [Symbol(0, label, <<>>, base) EXCEPT !.const = TRUE, !.raw = raw]
Unknown == Symbol(0, "", <<>>, "int")

ScopesWith(env, x) == {i \in 1 .. Len(env.scopes) : x \in DOMAIN env.scopes[i]}
Known(env, x) == ScopesWith(env, x) # {}
Lookup(env, x) ==
  IF ~Known(env, x) THEN Unknown
  ELSE env.scopes[CHOOSE i \in ScopesWith(env, x) : \A j \in ScopesWith(env, x) : j <= i][x]

Declare1(env, x, symbol) == [env EXCEPT !.scopes[Len(env.scopes)] = (x :> symbol) @@ @]
PushScope(env) == [env EXCEPT !.scopes = Append(@, <<>>)]

-----------------------------------------------------------------------------
\* Constant expressions, evaluated in the compiler.
Scalar1(ok, base, raw) == [ok |-> ok, base |-> base, raw |-> raw]
NoScalar == Scalar1(FALSE, "int", 0)

ConstAs(v, base) ==
  CASE v.base = "int" /\ base = "float" -> [v EXCEPT !.base = base, !.raw = IntToFloat(@)]
    [] v.base = "float" /\ base = "int" -> [v EXCEPT !.base = base, !.raw = FloatToInt(@)]
    [] OTHER -> v

ConstAsBool(v) == IF v.base = "float" THEN Amount(v.raw) # 0 ELSE v.raw # 0

ConstOperate(op, l, r) ==
  LET float == "float" \in {l.base, r.base}
      a == ConstAs(l, IF float THEN "float" ELSE "int").raw
      b == ConstAs(r, IF float THEN "float" ELSE "int").raw
  IN CASE op = "&&" -> Scalar1(TRUE, "int", Bit(ConstAsBool(l) /\ ConstAsBool(r)))
       [] op = "||" -> Scalar1(TRUE, "int", Bit(ConstAsBool(l) \/ ConstAsBool(r)))
       [] op \in Relations ->
            Scalar1(TRUE, "int", Bit(IF float THEN FloatRelates(op, a, b) ELSE Relates(op, a, b)))
       [] op \in Arithmetic /\ float -> Scalar1(TRUE, "float", FloatOperate(op, a, b))
       [] op = "%" /\ b = 0 -> Scalar1(TRUE, "int", 0)
       [] ~float -> Scalar1(TRUE, "int", IntOperate(op, a, b))
       [] OTHER -> NoScalar

ConstNegate(op, v) ==
  CASE ~v.ok -> v
    [] op = "-" /\ v.base = "float" -> [v EXCEPT !.raw = FloatNegate(@)]
    [] op = "-" -> [v EXCEPT !.raw = Wrap(-@)]
    [] op = "!" -> Scalar1(TRUE, "int", 1 - Bit(ConstAsBool(v)))
    [] OTHER -> v

ConstBinary(op, l, r) == IF l.ok /\ r.ok THEN ConstOperate(op, l, r) ELSE NoScalar

RECURSIVE ConstScalarValue(_, _)
ConstScalarValue(env, n) ==
  CASE n.kind = "Number" -> Scalar1(TRUE, IF IsFloatText(n) THEN "float" ELSE "int", n.val)
    [] n.kind = "LVal" ->
         LET s == Lookup(env, n.text)
         IN IF n.children = <<>> /\ s.const THEN Scalar1(TRUE, s.base, s.raw) ELSE NoScalar
    [] n.kind = "UnaryExpr" ->
         ConstNegate(n.text, ConstScalarValue(env, n.children[1]))
    [] n.kind = "BinaryExpr" ->
         ConstBinary(n.text, ConstScalarValue(env, n.children[1]), ConstScalarValue(env, n.children[2]))
    [] OTHER -> NoScalar

EvalConstScalar(env, n, base) == ConstAs(ConstScalarValue(env, n), base)

\* The dims of an array; each must be a positive constant.
ArrayDims(env, def) ==
  [i \in 1 .. Len(DimsOf(def)) |->
     IF DimsOf(def)[i].children = <<>> THEN NoScalar
     ELSE EvalConstScalar(env, DimsOf(def)[i].children[1], "int")]
DimsFit(vs) == \A i \in 1 .. Len(vs) : vs[i].ok /\ vs[i].raw > 0
Raws(vs) == [i \in 1 .. Len(vs) |-> vs[i].raw]

-----------------------------------------------------------------------------
\* Initializers of arrays.  A brace that is open at a flat position stands for
\* the largest row below the current one that begins there.
DimSpan(dims, level) == FoldLeft(LAMBDA n, d : n * d, 1, SubSeq(dims, level + 1, Len(dims)))
DimProduct(dims) == DimSpan(dims, 0)

InitListChildLevel(dims, level, pos) ==
  CHOOSE l \in level .. Len(dims) :
    LET Fits(k) == k = Len(dims) \/ pos % DimSpan(dims, k) = 0
        first == IF level + 1 < Len(dims) THEN level + 1 ELSE Len(dims)
    IN l >= first /\ Fits(l) /\ \A k \in first .. l - 1 : ~Fits(k)

\* values maps the flat positions that get a value to its node.
RECURSIVE FillList(_, _, _, _, _, _)
FillList(nodes, dims, level, pos, end, filled) ==
  IF nodes = <<>> \/ ~filled.ok THEN filled
  ELSE IF pos >= end THEN [filled EXCEPT !.ok = FALSE]
  ELSE IF Head(nodes).kind # "InitList"
    THEN FillList(Tail(nodes), dims, level, pos + 1, end,
                  [filled EXCEPT !.values = (pos :> Head(nodes)) @@ @])
  ELSE LET below == InitListChildLevel(dims, level, pos)
           next == pos + DimSpan(dims, below)
       IN IF next > end THEN [filled EXCEPT !.ok = FALSE]
          ELSE FillList(Tail(nodes), dims, level, next, end,
                        FillList(Head(nodes).children, dims, below, pos, next, filled))

FillArrayInitializer(init, dims) ==
  LET none == [ok |-> TRUE, values |-> <<>>]
  IN IF init.kind = "InitList" THEN FillList(init.children, dims, 0, 0, DimProduct(dims), none)
     ELSE [none EXCEPT !.values = (0 :> init)]

-----------------------------------------------------------------------------
\* Signatures of the runtime functions and of the program's own.
Signature(ret, params, dims) == [ret |-> ret, params |-> params, dims |-> dims]

RuntimeFunctions ==
  [getint |-> Signature("int", <<>>, <<>>),
   getfloat |-> Signature("float", <<>>, <<>>),
   getarray |-> Signature("int", <<"int">>, <<1>>),
   putint |-> Signature("void", <<"int">>, <<0>>),
   putfloat |-> Signature("void", <<"float">>, <<0>>),
   putarray |-> Signature("void", <<"int", "int">>, <<0, 1>>)]

DimCount(param) == Len(SelectSeq(param.children, IsDim))

CollectFunctions(root) ==
  LET Own(fs, f) ==
        IF f.kind # "FuncDef" THEN fs
        ELSE LET ps == ParamsOf(f)
             IN (f.text :> Signature(TypeOf(f), [i \in 1 .. Len(ps) |-> TypeOf(ps[i])],
                                     [i \in 1 .. Len(ps) |-> DimCount(ps[i])])) @@ fs
  IN FoldLeft(Own, RuntimeFunctions, root.children)

\* The globals; a later one may use the constants before it.
GlobalValue(env, base, dims, init) ==
  IF dims # <<>> \/ init = <<>> THEN Scalar1(TRUE, base, 0) ELSE EvalConstScalar(env, init[1], base)
GlobalSymbol(d, def, dims, v) ==
  IF d.kind = "ConstDecl" /\ dims = <<>> THEN ConstSymbol(def.text, d.text, v.raw)
  ELSE Symbol(0, def.text, Raws(dims), d.text)
AddGlobal(acc, d, def, dims, v) ==
  [env |-> Declare1(acc.env, def.text, GlobalSymbol(d, def, dims, v)),
   c |-> IF DimsFit(dims) /\ v.ok THEN acc.c ELSE Fail(acc.c)]
CollectGlobal(acc, d, def) ==
  LET dims == ArrayDims(acc.env, def)
  IN AddGlobal(acc, d, def, dims, GlobalValue(acc.env, d.text, dims, InitializerOf(def)))

CollectGlobals(root, env0, c0) ==
  FoldLeft(LAMBDA all, d : FoldLeft(LAMBDA acc, def : CollectGlobal(acc, d, def), all, d.children),
           [env |-> env0, c |-> c0], SelectSeq(root.children, IsDecl))

\* The words of the data section, per global, and whether there are some for
\* every initializer.
WordsOf(dims, fits, values) ==
  [ok |-> fits /\ \A i \in DOMAIN values : values[i].ok,
   words |-> [i \in 1 .. DimProduct(dims) |-> IF i - 1 \in DOMAIN values THEN values[i - 1].raw ELSE 0]]
ConstValues(env, base, filled) ==
  [i \in DOMAIN filled.values |-> EvalConstScalar(env, filled.values[i], base)]
FilledWords(env, base, dims, filled) == WordsOf(dims, filled.ok, ConstValues(env, base, filled))
GlobalWords(env, base, dims, init) ==
  IF init = <<>> THEN WordsOf(dims, TRUE, <<>>)
  ELSE FilledWords(env, base, dims, FillArrayInitializer(init[1], dims))

AddData(data, x, g) == [ok |-> data.ok /\ g.ok, words |-> (x :> g.words) @@ data.words]
EmitGlobal(env, data, d, def) ==
  AddData(data, def.text, GlobalWords(env, d.text, Raws(ArrayDims(env, def)), InitializerOf(def)))
EmitGlobalData(root, env) ==
  FoldLeft(LAMBDA all, d : FoldLeft(LAMBDA data, def : EmitGlobal(env, data, d, def), all, d.children),
           [ok |-> TRUE, words |-> <<>>], SelectSeq(root.children, IsDecl))

-----------------------------------------------------------------------------
\* Types of expressions, from the symbols.
RECURSIVE ExprBaseType(_, _)
ExprBaseType(env, n) ==
  CASE n.kind = "Number" -> IF IsFloatText(n) THEN "float" ELSE "int"
    [] n.kind = "LVal" -> Lookup(env, n.text).base
    [] n.kind = "UnaryExpr" -> IF n.text = "!" THEN "int" ELSE ExprBaseType(env, n.children[1])
    [] n.kind = "BinaryExpr" /\ n.text \in Arithmetic ->
         IF "float" \in {ExprBaseType(env, n.children[i]) : i \in {1, 2}} THEN "float" ELSE "int"
    [] n.kind = "CallExpr" ->
         IF n.text \in DOMAIN env.functions THEN env.functions[n.text].ret ELSE "int"
    [] OTHER -> "int"

ConvertExpr(e, target) ==
  LET actual == IF e.type = "FLOAT" THEN "float" ELSE "int"
  IN CASE target \in {"void", actual} -> e
       [] target = "float" -> T!ExtCall("FLOAT", "__sysy_i2f_bits", <<e>>)
       [] OTHER -> T!ExtCall("INT", "__sysy_f2i_bits", <<e>>)

CompareBase(env, n) ==
  IF "float" \in {ExprBaseType(env, n.children[i]) : i \in {1, 2}} THEN "float" ELSE "int"

FloatHelper(op) ==
  CASE op = "+" -> "__sysy_fadd_bits"   [] op = "-" -> "__sysy_fsub_bits"
    [] op = "*" -> "__sysy_fmul_bits"   [] op = "/" -> "__sysy_fdiv_bits"
    [] op = "==" -> "__sysy_fcmpeq_bits" [] op = "!=" -> "__sysy_fcmpne_bits"
    [] op = "<" -> "__sysy_fcmplt_bits" [] op = ">" -> "__sysy_fcmpgt_bits"
    [] op = "<=" -> "__sysy_fcmple_bits" [] op = ">=" -> "__sysy_fcmpge_bits"

\* The value 1 or 0 of a test that jumps to t or to f.
Materialized(test, result, t, f, done) ==
  T!Eseq(test \o <<T!LabelStm(t), T!Move(T!TempExp(result, "INT"), T!Const(1, "INT")), T!Jump(done),
                   T!LabelStm(f), T!Move(T!TempExp(result, "INT"), T!Const(0, "INT")), T!Jump(done),
                   T!LabelStm(done)>>,
         T!TempExp(result, "INT"))

ArrayBase(s) == IF s.global THEN T!Name(s.label) ELSE T!TempExp(s.temp, "PTR")

-----------------------------------------------------------------------------
RECURSIVE LowerExpr(_, _, _), EmitCond(_, _, _, _, _)

\* An operand as its base type says; "array" leaves it alone.
AsBase(r, base) == IF base = "array" THEN r ELSE Lowered(ConvertExpr(r.e, base), r.c)
LowerExprAs(env, n, base, c) == AsBase(LowerExpr(env, n, c), base)

Operands(es, r) == [es |-> Append(es, r.e), c |-> r.c]
LowerOperands(env, ns, bases, c) ==
  FoldLeft(LAMBDA acc, i : Operands(acc.es, LowerExprAs(env, ns[i], bases[i], acc.c)),
           [es |-> <<>>, c |-> c], [i \in 1 .. Len(ns) |-> i])

Scaled(e, stride) == IF stride = 1 THEN e ELSE T!Binop("INT", "*", e, T!Const(stride, "INT"))
AddTerm(sum, s, i, index) ==
  Lowered(T!Binop("INT", "+", sum, Scaled(index.e, DimSpan(s.dims, i))),
          IF \E j \in i + 1 .. Len(s.dims) : s.dims[j] <= 0 THEN Fail(index.c) ELSE index.c)
LinearizedIndex(env, s, n, c) ==
  FoldLeft(LAMBDA acc, i : AddTerm(acc.e, s, i, LowerExpr(env, n.children[i], acc.c)),
           Lowered(T!Const(0, "INT"), c), [i \in 1 .. Len(n.children) |-> i])

\* A whole array, a row, an element.
Indexed(s, count, offset) ==
  LET address == T!Binop("PTR", "+", ArrayBase(s), T!Binop("INT", "*", offset.e, T!Const(4, "INT")))
  IN CASE count = 0 -> Lowered(ArrayBase(s), offset.c)
       [] count < Len(s.dims) -> Lowered(address, offset.c)
       [] OTHER -> Lowered(T!Mem(TreeType(s.base), address), offset.c)

LowerSymbol(env, s, n, c) ==
  CASE s.const -> Lowered(T!Const(s.raw, TreeType(s.base)), c)
    [] s.dims # <<>> -> Indexed(s, Len(n.children), LinearizedIndex(env, s, n, c))
    [] s.dims = <<>> /\ s.global -> Lowered(T!Mem(TreeType(s.base), T!Name(s.label)), c)
    [] OTHER -> Lowered(T!TempExp(s.temp, TreeType(s.base)), c)

LowerLValue(env, n, c) ==
  IF ~Known(env, n.text) \/ Len(n.children) > Len(Lookup(env, n.text).dims) THEN Failed(c)
  ELSE LowerSymbol(env, Lookup(env, n.text), n, c)

Not(o, l) ==
  Lowered(Materialized(<<T!Cjump("==", o.e, T!Const(0, IF o.e.type = "FLOAT" THEN "FLOAT" ELSE "INT"), l, l + 1)>>,
                       o.c.temp, l, l + 1, l + 2),
          NewLabels(NewTemp(o.c), 3))
LowerUnary(op, o) ==
  CASE op = "+" -> o
    [] op = "-" /\ o.e.type = "FLOAT" ->
         Lowered(T!ExtCall("FLOAT", "__sysy_fneg_bits", <<o.e>>), o.c)
    [] op = "-" -> Lowered(T!Binop("INT", "-", T!Const(0, "INT"), o.e), o.c)
    [] op = "!" -> Not(o, o.c.label)

\* a % b is a - a / b * b, of temps.
LowerModulo(both, temp) ==
  LET l == T!TempExp(temp, "INT")
      r == T!TempExp(temp + 1, "INT")
  IN Lowered(T!Eseq(<<T!Move(l, both.es[1]), T!Move(r, both.es[2])>>,
                    T!Binop("INT", "-", l, T!Binop("INT", "*", T!Binop("INT", "/", l, r), r))),
             both.c)

FloatOperation(type, op, both) == Lowered(T!ExtCall(type, FloatHelper(op), both.es), both.c)
IntOperation(op, both) == Lowered(T!Binop("INT", op, both.es[1], both.es[2]), both.c)
IntComparison(op, both, c) ==
  Lowered(Materialized(<<T!Cjump(op, both.es[1], both.es[2], c.label, c.label + 1)>>,
                       c.temp, c.label, c.label + 1, c.label + 2), both.c)
LogicalValue(test, c) ==
  Lowered(Materialized(test.stms, c.temp, c.label, c.label + 1, c.label + 2), test.c)

\* A value that is materialized has its temp and labels before its operands.
LowerBinary(env, n, c) ==
  LET op == n.text
      float == CompareBase(env, n) = "float"
      ForResult == NewLabels(NewTemp(c), 3)
      Both(base, d) == LowerOperands(env, n.children, <<base, base>>, d)
  IN CASE op \in {"&&", "||"} -> LogicalValue(EmitCond(env, n, c.label, c.label + 1, ForResult), c)
       [] op \in Relations /\ ~float -> IntComparison(op, Both("int", ForResult), c)
       [] op \in Relations /\ float -> FloatOperation("INT", op, Both("float", c))
       [] op = "%" -> LowerModulo(Both("int", NewTemp(NewTemp(c))), c.temp)
       [] ExprBaseType(env, n) = "float" -> FloatOperation("FLOAT", op, Both("float", c))
       [] OTHER -> IntOperation(op, Both("int", c))

\* The type an argument is converted to.
ArgumentBases(env, n, sig) ==
  [i \in 1 .. Len(n.children) |->
     CASE i > Len(sig.params) -> ExprBaseType(env, n.children[i])
       [] i <= Len(sig.params) /\ sig.dims[i] > 0 -> "array"
       [] OTHER -> sig.params[i]]
CallWith(f, sig, args) == Lowered(T!ExtCall(TreeType(sig.ret), f, args.es), args.c)
SignatureOf(env, f) ==
  IF f \in DOMAIN env.functions THEN env.functions[f] ELSE Signature("int", <<>>, <<>>)
LowerCall(env, n, c) ==
  LET sig == SignatureOf(env, n.text)
  IN CallWith(n.text, sig, LowerOperands(env, n.children, ArgumentBases(env, n, sig), c))

LowerExpr(env, n, c) ==
  CASE n.kind = "Number" -> Lowered(T!Const(n.val, IF IsFloatText(n) THEN "FLOAT" ELSE "INT"), c)
    [] n.kind = "LVal" -> LowerLValue(env, n, c)
    [] n.kind = "UnaryExpr" -> LowerUnary(n.text, LowerExpr(env, n.children[1], c))
    [] n.kind = "BinaryExpr" -> LowerBinary(env, n, c)
    [] n.kind = "CallExpr" -> LowerCall(env, n, c)
    [] OTHER -> Failed(c)

\* Jumps to t or f as n decides; the second operand of && and || only if needed.
TestOf(op, l, r, t, f, c) == [stms |-> <<T!Cjump(op, l, r, t, f)>>, c |-> c]
Behind(l, mid, r) == [stms |-> l.stms \o <<T!LabelStm(mid)>> \o r.stms, c |-> r.c]
EmitSecond(env, n, t, f, l, mid) == Behind(l, mid, EmitCond(env, n, t, f, l.c))
CompareInts(op, both, t, f) == TestOf(op, both.es[1], both.es[2], t, f, both.c)
CompareZero(r, base, t, f) == TestOf("!=", r.e, T!Const(0, TreeType(base)), t, f, r.c)

EmitCond(env, n, t, f, c) ==
  LET Short(toMid, fromMid) ==
        EmitSecond(env, n.children[2], t, f,
                   EmitCond(env, n.children[1], toMid, fromMid, NewLabels(c, 1)), c.label)
  IN CASE n.kind = "BinaryExpr" /\ n.text = "&&" -> Short(c.label, f)
       [] n.kind = "BinaryExpr" /\ n.text = "||" -> Short(t, c.label)
       [] n.kind = "BinaryExpr" /\ n.text \in Relations /\ CompareBase(env, n) = "int" ->
            CompareInts(n.text, LowerOperands(env, n.children, <<"int", "int">>, c), t, f)
       [] n.kind = "UnaryExpr" /\ n.text = "!" -> EmitCond(env, n.children[1], f, t, c)
       [] OTHER -> CompareZero(LowerExpr(env, n, c), ExprBaseType(env, n), t, f)

-----------------------------------------------------------------------------
\* Statements: what they append, what they declare, and whether control can
\* fall out of them.
Emitted(stms, env, c, falls) == [stms |-> stms, env |-> env, c |-> c, falls |-> falls]

IsZeroConst(e) == e.kind = "CONST" /\ e.n = 0
StoreElement(acc, array, type, i, v) ==
  IF IsZeroConst(v.e) THEN acc
  ELSE [stms |-> Append(acc.stms, T!Move(T!Mem(type, T!Binop("PTR", "+", array, T!Const(4 * i, "INT"))), v.e)),
        c |-> v.c]
StoreElements(env, base, array, dims, filled, c) ==
  FoldLeft(LAMBDA acc, i : StoreElement(acc, array, TreeType(base), i,
                                        LowerExprAs(env, filled.values[i], base, acc.c)),
           [stms |-> <<>>, c |-> IF filled.ok THEN c ELSE Fail(c)],
           SelectSeq([i \in 1 .. DimProduct(dims) |-> i - 1], LAMBDA i : i \in DOMAIN filled.values))

Initialized(env, malloc, memset, stores) ==
  Emitted(malloc \o memset \o stores.stms, env, stores.c, TRUE)
LowerArray(env, node, def, dims, c) ==
  LET array == T!TempExp(c.temp, "PTR")
      bytes == T!Const(4 * DimProduct(dims), "INT")
      inner == Declare1(env, def.text, Symbol(c.temp, "", dims, node.text))
      init == InitializerOf(def)
      malloc == <<T!Move(array, T!ExtCall("PTR", "malloc", <<bytes>>))>>
      memset == <<T!ExpStm(T!ExtCall("INT", "memset", <<array, T!Const(0, "INT"), bytes>>))>>
  IN IF init = <<>> THEN Emitted(malloc, inner, NewTemp(c), TRUE)
     ELSE Initialized(inner, malloc, memset,
                      StoreElements(inner, node.text, array, dims,
                                    FillArrayInitializer(init[1], dims), NewTemp(c)))

MoveTo(env, temp, base, init) ==
  Emitted(<<T!Move(T!TempExp(temp, TreeType(base)), init.e)>>, env, init.c, TRUE)
LowerScalar(env, base, def, c) ==
  LET inner == Declare1(env, def.text, Symbol(c.temp, "", <<>>, base))
  IN MoveTo(inner, c.temp, base,
            IF def.children = <<>> THEN Lowered(T!Const(0, TreeType(base)), NewTemp(c))
            ELSE LowerExprAs(inner, Last(def.children), base, NewTemp(c)))

LowerConst(env, base, x, v, c) ==
  Emitted(<<>>, Declare1(env, x, ConstSymbol("", base, v.raw)), IF v.ok THEN c ELSE Fail(c), TRUE)
LowerDef(env, node, def, dims, c) ==
  CASE ~DimsFit(dims) -> Emitted(<<>>, env, Fail(c), TRUE)
    [] DimsFit(dims) /\ dims # <<>> -> LowerArray(env, node, def, Raws(dims), c)
    [] dims = <<>> /\ node.kind = "ConstDecl" ->
         LowerConst(env, node.text, def.text, EvalConstScalar(env, InitializerOf(def)[1], node.text), c)
    [] OTHER -> LowerScalar(env, node.text, def, c)

After(stms, one) == [one EXCEPT !.stms = stms \o @]
LowerDecl(env, node, c) ==
  FoldLeft(LAMBDA acc, def : After(acc.stms, LowerDef(acc.env, node, def, ArrayDims(acc.env, def), acc.c)),
           Emitted(<<>>, env, c, TRUE), node.children)

RECURSIVE LowerStmt(_, _, _)

\* Mutation: what stands behind a jump is lowered as well.
LowerItemBehindJump(acc, n) ==
  IF IsDecl(n) THEN After(acc.stms, LowerDecl(acc.env, n, acc.c)) ELSE After(acc.stms, LowerStmt(acc.env, n, acc.c))

\* Nothing behind a statement that control does not leave is lowered.
LowerItem(acc, n) ==
  CASE ~acc.falls -> acc
    [] IsDecl(n) -> After(acc.stms, LowerDecl(acc.env, n, acc.c))
    [] OTHER -> After(acc.stms, LowerStmt(acc.env, n, acc.c))
LowerItems(env, ns, c) == FoldLeft(LowerItem, Emitted(<<>>, env, c, TRUE), ns)
LowerBlock(env, node, c) == [LowerItems(PushScope(env), node.children, c) EXCEPT !.env = env]

JumpIf(falls, l) == IF falls THEN <<T!Jump(l)>> ELSE <<>>

IfOf(env, cond, then, else, t) ==
  Emitted(cond \o <<T!LabelStm(t)>> \o then.stms \o JumpIf(then.falls, t + 2)
            \o <<T!LabelStm(t + 1)>> \o else.stms \o JumpIf(else.falls, t + 2)
            \o <<T!LabelStm(t + 2)>>,
          env, else.c, then.falls \/ else.falls)
LowerElse(env, node, cond, then, t) ==
  IfOf(env, cond, then,
       IF Len(node.children) > 2 THEN LowerStmt(env, node.children[3], then.c)
       ELSE Emitted(<<>>, env, then.c, TRUE), t)
LowerThen(env, node, cond, t) ==
  LowerElse(env, node, cond.stms, LowerStmt(env, node.children[2], cond.c), t)
LowerIf(env, node, c) ==
  LowerThen(env, node, EmitCond(env, node.children[1], c.label, c.label + 1, NewLabels(c, 3)), c.label)

LoopOf(env, cond, body, test) ==
  Emitted(<<T!LabelStm(test)>> \o cond \o <<T!LabelStm(test + 1)>> \o body.stms
            \o JumpIf(body.falls, test) \o <<T!LabelStm(test + 2)>>,
          env, body.c, TRUE)
LowerBody(env, node, cond, test) ==
  LoopOf(env, cond.stms,
         LowerStmt([env EXCEPT !.continues = Append(@, test), !.breaks = Append(@, test + 2)],
                   node.children[2], cond.c), test)
LowerWhile(env, node, c) ==
  LowerBody(env, node, EmitCond(env, node.children[1], c.label + 1, c.label + 2, NewLabels(c, 3)), c.label)

Leave(env, targets, c) ==
  IF targets = <<>> THEN Emitted(<<>>, env, Fail(c), FALSE)
  ELSE Emitted(<<T!Jump(Last(targets))>>, env, c, FALSE)

StoreTo(env, dst, src) == Emitted(<<T!Move(dst, src.e)>>, env, src.c, TRUE)
LowerSource(env, node, dst) ==
  StoreTo(env, dst.e, LowerExprAs(env, node, IF dst.e.type = "FLOAT" THEN "float" ELSE "int", dst.c))
LowerAssign(env, node, c) == LowerSource(env, node.children[2], LowerLValue(env, node.children[1], c))

Evaluated(env, es) == Emitted([i \in 1 .. Len(es.es) |-> T!ExpStm(es.es[i])], env, es.c, TRUE)
Returned(env, v) == Emitted(<<T!Return(v.e)>>, env, v.c, FALSE)

LowerStmt(env, n, c) ==
  CASE n.kind = "Block" -> LowerBlock(env, n, c)
    [] n.kind = "AssignStmt" -> LowerAssign(env, n, c)
    [] n.kind = "ExprStmt" -> Evaluated(env, LowerOperands(env, n.children, <<"array">>, c))
    [] n.kind = "IfStmt" -> LowerIf(env, n, c)
    [] n.kind = "WhileStmt" -> LowerWhile(env, n, c)
    [] n.kind = "BreakStmt" -> Leave(env, env.breaks, c)
    [] n.kind = "ContinueStmt" -> Leave(env, env.continues, c)
    [] n.kind = "ReturnStmt" /\ n.children = <<>> ->
         Returned(env, Lowered(T!Const(0, TreeType(env.ret)), c))
    [] n.kind = "ReturnStmt" /\ n.children # <<>> ->
         Returned(env, LowerExprAs(env, n.children[1], env.ret, c))

BlockFallsThrough(stms) == stms = <<>> \/ Last(stms).kind \notin {"RETURN", "JUMP"}

LowerParam(acc, p) ==
  LET dims == SelectSeq(p.children, IsDim)
      Dim(d) == IF d.children = <<>> THEN -1 ELSE EvalConstScalar(acc.env, d.children[1], "int").raw
  IN [acc EXCEPT !.env = Declare1(@, p.text, Symbol(acc.c.temp, "", [i \in 1 .. Len(dims) |-> Dim(dims[i])],
                                                    TypeOf(p))),
                 !.c = NewTemp(@), !.args = Append(@, acc.c.temp)]

\* A body that control falls out of returns 0.
Closed(stms, type) ==
  IF BlockFallsThrough(stms) THEN Append(stms, T!Return(T!Const(0, TreeType(type)))) ELSE stms
FunctionWith(node, args, entry, body) ==
  [f |-> T!FuncDecl(node.text, args, Closed(<<T!LabelStm(entry)>> \o body.stms, TypeOf(node)), body.c),
   c |-> body.c]
LowerBodyOf(node, with, entry) ==
  FunctionWith(node, with.args, entry, LowerItems(with.env, BodyOf(node).children, with.c))
LowerFunction(env, node, c) ==
  LowerBodyOf(node, FoldLeft(LowerParam, [env |-> PushScope([env EXCEPT !.ret = TypeOf(node)]),
                                          c |-> NewLabels(c, 1), args |-> <<>>], ParamsOf(node)), c.label)

\* The program: its functions, the words of its globals, and whether lowering
\* went through.
AddFunction(fs, one) == [fs |-> Append(fs, one.f), c |-> one.c]
ProgramOf(all, data) == [ok |-> all.c.ok /\ data.ok, functions |-> all.fs, data |-> data.words]
LowerFunctions(root, globals) ==
  ProgramOf(FoldLeft(LAMBDA acc, n : AddFunction(acc.fs, LowerFunction(globals.env, n, acc.c)),
                     [fs |-> <<>>, c |-> globals.c], SelectSeq(root.children, LAMBDA n : n.kind = "FuncDef")),
            IF globals.c.ok THEN EmitGlobalData(root, globals.env) ELSE [ok |-> FALSE, words |-> <<>>])

LowerProgram(root) ==
  LowerFunctions(root, CollectGlobals(root, [scopes |-> <<<<>>>>, functions |-> CollectFunctions(root),
                                             ret |-> "int", breaks |-> <<>>, continues |-> <<>>],
                                      [temp |-> 1, label |-> 1, ok |-> TRUE]))

=============================================================================

---------------------------- MODULE SysyProgram ----------------------------
(***************************************************************************)
(* The rest of the abstract syntax: whole programs, and how they are       *)
(* written.  A literal keeps its value and, as its text, how it was        *)
(* spelled as far as a stage looks at the spelling.  The words of a        *)
(* FuncDef or FuncParam text are two nodes.                                *)
(*                                                                         *)
(* A float stands for its 32 bits.  The floats of the model are the halves *)
(* 0, 0.5, -0.5, ...: the bits of v/2 are the word v, so that an int and   *)
(* the float of the same value differ in every bit pattern but zero, as in *)
(* IEEE 754, and a missing conversion shows.                               *)
(***************************************************************************)
EXTENDS SysyAst, Words

FloatNumber(bits) == [Node("Number", "float", <<>>) EXCEPT !.val = bits]
HexNumber(n) == [Node("Number", "hex e", <<>>) EXCEPT !.val = n]   \* 0xE, 0x1e ...
Type(t) == Node("Type", t, <<>>)
ArrayDim(e) == Node("ArrayDim", "[]", <<e>>)
OpenDim == Node("ArrayDim", "[]", <<>>)
InitList(es) == Node("InitList", "{}", es)
Scalar(x, init) == Node("VarDef", x, <<init>>)
Bare(x) == Node("VarDef", x, <<>>)
ConstDef(x, init) == Node("ConstDef", x, <<init>>)
Array(x, dims, init) ==
  Node("VarDef", x, [i \in 1 .. Len(dims) |-> ArrayDim(dims[i])] \o init)
Declare(type, def) == Node("VarDecl", type, <<def>>)
DeclareConst(type, def) == Node("ConstDecl", type, <<def>>)
ExprStmt(es) == Node("ExprStmt", "", es)
ReturnStmt(es) == Node("ReturnStmt", "return", es)
ContinueStmt == Node("ContinueStmt", "", <<>>)
IfElseStmt(c, s, t) == Node("IfStmt", "", <<c, s, t>>)
FuncParam(type, x, dims) == Node("FuncParam", x, <<Type(type)>> \o dims)
FuncDef(type, f, params, body) == Node("FuncDef", f, <<Type(type)>> \o params \o <<body>>)
CompUnit(decls) == Node("CompUnit", "", decls)

Arithmetic == {"+", "-", "*", "/"}
Relations == {"==", "!=", "<", ">", "<=", ">="}

IsDim(n) == n.kind = "ArrayDim"
DimsOf(def) == SelectSeq(def.children, IsDim)
InitializerOf(def) == SelectSeq(def.children, LAMBDA n : n.kind \notin {"ArrayDim", "Type"})
ParamsOf(f) == SelectSeq(f.children, LAMBDA n : n.kind = "FuncParam")
BodyOf(f) == Last(f.children)
TypeOf(f) == f.children[1].text

-----------------------------------------------------------------------------
\* Integer and float arithmetic, the same wherever it is done: in the compiler
\* for constants, in the helpers of the runtime, in the processor.
Wrap(n) == ((n - MinInt) % Modulus) + MinInt

Magnitude(n) == IF n < 0 THEN -n ELSE n
Truncate(n, d) == IF (n < 0) = (d < 0) THEN Magnitude(n) \div Magnitude(d)
                  ELSE -(Magnitude(n) \div Magnitude(d))

Divide(a, b) == IF b = 0 THEN 0 ELSE Wrap(Truncate(a, b))

IntOperate(op, a, b) ==
  CASE op = "+" -> Wrap(a + b)
    [] op = "-" -> Wrap(a - b)
    [] op = "*" -> Wrap(a * b)
    [] op = "/" -> Divide(a, b)
    [] op = "%" -> Wrap(a - Divide(a, b) * b)

Relates(op, a, b) ==
  CASE op = "==" -> a = b
    [] op = "!=" -> a # b
    [] op = "<" -> a < b
    [] op = ">" -> a > b
    [] op = "<=" -> a <= b
    [] op = ">=" -> a >= b

\* The bits of -0.0, which are not those of 0.0.
NegZero == MinInt
Amount(bits) == IF bits = NegZero THEN 0 ELSE bits

IntToFloat(n) == Wrap(2 * n)
FloatToInt(bits) == Truncate(Amount(bits), 2)
FloatNegate(bits) == IF bits = 0 THEN NegZero ELSE -Amount(bits)

FloatOperate(op, x, y) ==
  LET a == Amount(x) b == Amount(y)
  IN CASE op = "+" -> Wrap(a + b)
       [] op = "-" -> Wrap(a - b)
       [] op = "*" -> Wrap(Truncate(a * b, 2))
       [] op = "/" -> IF b = 0 THEN 0 ELSE Wrap(Truncate(2 * a, b))

FloatRelates(op, x, y) == Relates(op, Amount(x), Amount(y))

Bit(b) == IF b THEN 1 ELSE 0

-----------------------------------------------------------------------------
\* How a program is written, by the grammar of the language: the tokens of every
\* construct, and parentheses only where the grammar needs them.  A token has a
\* kind (its spelling, "id", "num" or "end"), the text and the value of the node
\* it may become.
Token(kind, text, val) == [kind |-> kind, text |-> text, val |-> val]
Sign(s) == <<Token(s, "", 0)>>
Ident(x) == <<Token("id", x, 0)>>
Parens(ts) == Sign("(") \o ts \o Sign(")")

\* Texts one behind the other, and with separators in between.
Joined(texts, sep) ==
  IF texts = <<>> THEN <<>> ELSE FoldLeft(LAMBDA all, t : all \o sep \o t, Head(texts), Tail(texts))

\* How tight an expression is; the tightest is a primary one.
Tightness(e) ==
  CASE e.kind = "UnaryExpr" -> 7
    [] e.kind # "BinaryExpr" -> 8
    [] e.text \in {"*", "/", "%"} -> 6
    [] e.text \in {"+", "-"} -> 5
    [] e.text \in {"<", ">", "<=", ">="} -> 4
    [] e.text \in {"==", "!="} -> 3
    [] e.text = "&&" -> 2
    [] e.text = "||" -> 1

RECURSIVE Spell(_)
SpellAll(ns) == [i \in 1 .. Len(ns) |-> Spell(ns[i])]
SpellAt(e, k) == IF Tightness(e) < k THEN Parens(Spell(e)) ELSE Spell(e)

Spell(n) ==
  LET c == n.children
      Children == SpellAll(c)
  IN CASE n.kind = "Number" -> <<Token("num", n.text, n.val)>>
       [] n.kind = "LVal" -> Ident(n.text) \o Joined(<<<<>>>> \o [i \in 1 .. Len(c) |-> Sign("[") \o Children[i] \o Sign("]")], <<>>)
       [] n.kind = "CallExpr" -> Ident(n.text) \o Parens(Joined(Children, Sign(",")))
       [] n.kind = "UnaryExpr" -> Sign(n.text) \o SpellAt(c[1], 7)
       [] n.kind = "BinaryExpr" ->
            SpellAt(c[1], Tightness(n)) \o Sign(n.text) \o SpellAt(c[2], Tightness(n) + 1)
       [] n.kind = "InitList" -> Sign("{") \o Joined(Children, Sign(",")) \o Sign("}")
       [] n.kind = "ArrayDim" -> Sign("[") \o Joined(Children, <<>>) \o Sign("]")
       [] n.kind \in {"VarDef", "ConstDef"} ->
            Ident(n.text) \o Joined(<<<<>>>> \o SpellAll(DimsOf(n)), <<>>)
              \o Joined(<<<<>>>> \o [i \in 1 .. Len(InitializerOf(n)) |-> Sign("=") \o Spell(InitializerOf(n)[i])], <<>>)
       [] n.kind = "Type" -> <<>>
       [] n.kind = "VarDecl" -> Sign(n.text) \o Joined(Children, Sign(",")) \o Sign(";")
       [] n.kind = "ConstDecl" -> Sign("const") \o Sign(n.text) \o Joined(Children, Sign(",")) \o Sign(";")
       [] n.kind = "FuncParam" -> Sign(TypeOf(n)) \o Ident(n.text) \o Joined(<<<<>>>> \o Tail(Children), <<>>)
       [] n.kind = "FuncDef" ->
            Sign(TypeOf(n)) \o Ident(n.text) \o Parens(Joined(SpellAll(ParamsOf(n)), Sign(","))) \o Spell(BodyOf(n))
       [] n.kind = "Block" -> Sign("{") \o Joined(Children, <<>>) \o Sign("}")
       [] n.kind = "AssignStmt" -> Children[1] \o Sign("=") \o Children[2] \o Sign(";")
       [] n.kind = "ExprStmt" -> Joined(Children, <<>>) \o Sign(";")
       [] n.kind = "ReturnStmt" -> Sign("return") \o Joined(Children, <<>>) \o Sign(";")
       [] n.kind = "IfStmt" ->
            Sign("if") \o Parens(Children[1]) \o Joined(Tail(Children), Sign("else"))
       [] n.kind = "WhileStmt" -> Sign("while") \o Parens(Children[1]) \o Children[2]
       [] n.kind = "BreakStmt" -> Sign("break") \o Sign(";")
       [] n.kind = "ContinueStmt" -> Sign("continue") \o Sign(";")
       [] n.kind = "CompUnit" -> Joined(Children, <<>>) \o Sign("end")

=============================================================================

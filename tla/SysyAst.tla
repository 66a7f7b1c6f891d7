------------------------------ MODULE SysyAst ------------------------------
(***************************************************************************)
(* The abstract syntax the planner and the lowering walk.  A node has a    *)
(* kind, a text and children, as in the front end; numbers keep their      *)
(* value instead of its spelling.  The planner keeps a set of the LVal     *)
(* nodes that refer to a scalar of the loop body; here that set is a mark  *)
(* on the node, since two nodes may have the same text.                    *)
(***************************************************************************)
EXTENDS Integers, Sequences, SequencesExt

Node(kind, text, children) ==
  [kind |-> kind, text |-> text, val |-> 0, children |-> children, local |-> FALSE]

Number(n) == [Node("Number", "", <<>>) EXCEPT !.val = n]
Var(x) == Node("LVal", x, <<>>)
Elem(a, i) == Node("LVal", a, <<i>>)
Elem2(a, i, j) == Node("LVal", a, <<i, j>>)
Unary(op, e) == Node("UnaryExpr", op, <<e>>)
Binary(op, l, r) == Node("BinaryExpr", op, <<l, r>>)
CallExpr(f, args) == Node("CallExpr", f, args)
Assign(l, r) == Node("AssignStmt", "", <<l, r>>)
VarDecl(type, x, init) == Node("VarDecl", type, <<Node("VarDef", x, <<init>>)>>)
ArrayDecl(type, x, n) ==
  Node("VarDecl", type, <<Node("VarDef", x, <<Node("ArrayDim", "", <<Number(n)>>)>>)>>)
Block(ss) == Node("Block", "", ss)
IfStmt(c, s) == Node("IfStmt", "", <<c, s>>)
WhileStmt(c, s) == Node("WhileStmt", "", <<c, s>>)
BreakStmt == Node("BreakStmt", "", <<>>)

IsScalarLVal(n) == n.kind = "LVal" /\ n.children = <<>>
IsArrayLVal(n) == n.kind = "LVal" /\ n.children # <<>>
IsScalarDef(d) ==
  /\ d.kind \in {"VarDef", "ConstDef"}
  /\ \A i \in 1 .. Len(d.children) : d.children[i].kind # "ArrayDim"
IsDecl(n) == n.kind \in {"VarDecl", "ConstDecl"}

\* A node and everything below it.
RECURSIVE Subnodes(_)
Subnodes(n) ==
  {n} \cup UNION {Subnodes(n.children[i]) : i \in 1 .. Len(n.children)}

SubnodesOf(ss) == UNION {Subnodes(ss[i]) : i \in 1 .. Len(ss)}

\* The node without its marks: what nodeKey prints.
RECURSIVE NodeKey(_)
NodeKey(n) ==
  [kind |-> n.kind, text |-> n.text, val |-> n.val,
   children |-> [i \in 1 .. Len(n.children) |-> NodeKey(n.children[i])]]

=============================================================================

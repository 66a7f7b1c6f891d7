--------------------------- MODULE FunctionPurity ---------------------------
(***************************************************************************)
(* summarizeParallelScalarFunctions as a whole: FunctionPurityScanner      *)
(* walks the text of every function, PurityFixpoint spreads what it found, *)
(* and then a function summarized as pure is called.  The call executes    *)
(* statement by statement with both outcomes of every condition, goes down *)
(* into any one of the calls it meets, and records what outside state a    *)
(* statement touches; control does not come back from a call, because what *)
(* the caller does next is another of its executions.                      *)
(*                                                                         *)
(* A program is a record: global, a function from the names of the global  *)
(* definitions to "const", "var" or "array", and fun, a function from the  *)
(* function names to their parameters and body.                            *)
(***************************************************************************)
EXTENDS PurityFixpoint, SysyAst

CONSTANT Programs  \* programs over the functions and names of PurityFixpoint

VARIABLES
  prog,
  todo,       \* the statements the call has still to execute
  scopes,     \* the sets of scalars its open blocks have declared
  touched     \* the outside state the last statement used

runVars == <<todo, scopes, touched>>
vars == <<prog, fixpointVars, runVars>>

\* The names that are no functions of the program.
Library == Names \ Functions

-----------------------------------------------------------------------------
(* The scan of one function.                                               *)

IsArrayDef(d) == \E i \in 1 .. Len(d.children) : d.children[i].kind = "ArrayDim"

Parameters(f) == {f.params[i].name : i \in 1 .. Len(f.params)}

\* A name the scanner accepts in a scalar use.
Harmless(p, x, visible) == x \in visible \/ (x \in DOMAIN p.global /\ p.global[x] = "const")

\* Mutation: the scope of a nested block is never popped.
LeakyIntroduces(n) ==
  {m.text : m \in {d \in Subnodes(n) : d.kind \in {"VarDef", "ConstDef"} /\ ~IsArrayDef(d)}}

\* The scalars in scope after a node: a definition is in scope from its own
\* initializer on, a block takes its definitions away.
Introduces(n) ==
  {d.text : d \in {e \in (IF IsDecl(n) THEN ToSet(n.children) ELSE {n}) :
                     e.kind \in {"VarDef", "ConstDef"} /\ ~IsArrayDef(e)}}

RECURSIVE ScanSeq(_, _, _), ScanNode(_, _, _)

\* The verdict on a row of siblings: is their text pure, and whom they call.
ScanSeq(p, ss, visible) ==
  IF ss = <<>> THEN [structurallyPure |-> TRUE, callees |-> {}]
  ELSE LET first == ScanNode(p, Head(ss), visible)
           others == ScanSeq(p, Tail(ss), visible \cup Introduces(Head(ss)))
       IN  [structurallyPure |-> first.structurallyPure /\ others.structurallyPure,
            callees |-> first.callees \cup others.callees]

ScanNode(p, n, visible) ==
  LET own == visible \cup Introduces(n)
      lhs == n.children[1]
      inner ==
        IF n.kind = "AssignStmt"
        THEN ScanSeq(p, lhs.children \o Tail(n.children), own)
        ELSE ScanSeq(p, SelectSeq(n.children, LAMBDA c : c.kind # "ArrayDim"),
                     IF IsDecl(n) THEN visible ELSE own)
      acceptable ==
        CASE n.kind \in {"VarDef", "ConstDef"} -> ~IsArrayDef(n)
          [] n.kind = "AssignStmt" -> IsScalarLVal(lhs) /\ lhs.text \in visible
          [] n.kind = "LVal" -> IsScalarLVal(n) /\ Harmless(p, n.text, visible)
          [] OTHER -> n.kind # "StringLiteral"
  IN  [structurallyPure |-> acceptable /\ inner.structurallyPure,
       callees |-> inner.callees \cup (IF n.kind = "CallExpr" THEN {n.text} ELSE {})]

Scan(p, f) ==
  LET body == ScanSeq(p, f.body.children, Parameters(f))
  IN  [body EXCEPT !.structurallyPure =
         @ /\ \A i \in 1 .. Len(f.params) : ~f.params[i].array]

-----------------------------------------------------------------------------
(* Execution of a call.                                                    *)

Init ==
  /\ prog \in Programs
  /\ candidates = [f \in Functions |-> Scan(prog, prog.fun[f])]
  /\ FixpointInit
  /\ todo = <<>>
  /\ scopes = <<>>
  /\ touched = {}

Summarize ==
  /\ FixpointNext
  /\ UNCHANGED <<prog, runVars>>

Begin(f) ==
  /\ todo' = prog.fun[f].body.children
  /\ scopes' = <<Parameters(prog.fun[f])>>

CallPure(f) ==
  /\ phase = "done"
  /\ scopes = <<>>
  /\ f \in pure
  /\ Begin(f)
  /\ UNCHANGED <<prog, fixpointVars, touched>>

Locals == UNION ToSet(scopes)

\* The parts of a statement that run when it is reached; the branches of
\* an if and the body of a while are statements of their own.
Evaluated(n) ==
  CASE n.kind \in {"IfStmt", "WhileStmt"} -> Subnodes(n.children[1])
    [] n.kind = "Block" -> {}
    [] OTHER -> Subnodes(n)

\* The outside state a statement uses.
Touches(n) ==
  LET uses == Evaluated(n)
      scalars == {m.text : m \in {u \in uses : IsScalarLVal(u)}} \ (Locals \cup Introduces(n))
  IN  {"array" : m \in {u \in uses : IsArrayLVal(u) \/ u.kind = "ArrayDim"}}
        \cup {"text" : m \in {u \in uses : u.kind = "StringLiteral"}}
        \cup {"variable" : x \in {y \in scalars : ~Harmless(prog, y, {})}}
        \cup (IF n.kind = "AssignStmt" /\ n.children[1].text \in scalars
              THEN {"variable"} ELSE {})
        \cup {"library" : m \in {u \in uses : u.kind = "CallExpr" /\ u.text \in Library}}

\* The statements that may follow, one row for each outcome of a condition.
Successors(n, rest) ==
  CASE n.kind = "IfStmt" ->
         {<<n.children[i]>> \o rest : i \in 2 .. Len(n.children)}
           \cup (IF Len(n.children) = 2 THEN {rest} ELSE {})
    [] n.kind = "WhileStmt" -> {<<n.children[2], n>> \o rest, rest}
    [] n.kind = "Block" -> {n.children \o <<Node("End", "", <<>>)>> \o rest}
    [] n.kind = "ReturnStmt" -> {<<>>}
    [] OTHER -> {rest}

Execute ==
  /\ todo # <<>>
  /\ LET n == Head(todo)
         depth == Len(scopes)
     IN  /\ todo' \in Successors(n, Tail(todo))
         /\ scopes' =
              CASE n.kind = "Block" -> Append(scopes, {})
                [] n.kind = "End" -> Front(scopes)
                [] IsDecl(n) -> [scopes EXCEPT ![depth] = @ \cup Introduces(n)]
                [] OTHER -> scopes
         /\ touched' = Touches(n)
  /\ UNCHANGED <<prog, fixpointVars>>

\* The statement about to run calls a user function.
Descend ==
  /\ todo # <<>>
  /\ \E m \in Evaluated(Head(todo)) :
       /\ m.kind = "CallExpr"
       /\ m.text \in Functions
       /\ Begin(m.text)
  /\ UNCHANGED <<prog, fixpointVars, touched>>

Terminated ==
  /\ phase = "done"
  /\ todo = <<>>
  /\ scopes # <<>> \/ pure = {}
  /\ UNCHANGED vars

Next ==
  \/ Summarize
  \/ \E f \in Functions : CallPure(f)
  \/ Execute
  \/ Descend
  \/ Terminated

Spec == Init /\ [][Next]_vars

\* The analysis is a plain loop: it takes its next step.
FairSpec == Spec /\ WF_vars(Summarize)

-----------------------------------------------------------------------------
(* Properties.                                                             *)

\* A function summarized as pure, executed with all the functions it calls,
\* reads and writes no array and no variable of the program, prints nothing
\* and calls no library function: two threads may run it at once.
PureTouchesNothing == touched = {}

=============================================================================

------------------------------ MODULE FrontEnd ------------------------------
(***************************************************************************)
(* The front end of compileTreeToAarch64: a source is parsed, checked,     *)
(* lowered to Tree IR, canonicalized, turned into quadruples and split     *)
(* into blocks.  Each stage is one pass over all functions.                *)
(***************************************************************************)
EXTENDS SysySemantics

CONSTANTS Programs,      \* programs of the language
          Garbled,       \* other sequences of tokens
          Inputs

VARIABLES source, program, stage, trees, quads

Reader == INSTANCE Parser
Checker == INSTANCE SemanticChecker
Lowerer == INSTANCE LowerTree
Canonical == INSTANCE TreeIR
Quads == INSTANCE Tree2Quad WITH Callees <- <<>>

vars == <<source, program, stage, trees, quads>>

Texts == {Spell(p) : p \in Programs}

Init == /\ source \in Texts \cup Garbled
        /\ program = Reader!Nothing
        /\ stage = "source"
        /\ trees = [ok |-> TRUE, functions |-> <<>>, data |-> <<>>]
        /\ quads = <<>>

Take(read) == IF read.ok THEN program' = read.n /\ stage' = "parsed"
              ELSE stage' = "unreadable" /\ UNCHANGED program
Parse == /\ stage = "source"
         /\ Take(Reader!ParseCompUnit(source))
         /\ UNCHANGED <<source, trees, quads>>

Check == /\ stage = "parsed"
         /\ stage' = IF Checker!Accepts(program) THEN "accepted" ELSE "rejected"
         /\ UNCHANGED <<source, program, trees, quads>>

Lower == /\ stage = "accepted"
         /\ trees' = Lowerer!LowerProgram(program)
         /\ stage' = IF trees'.ok THEN "lowered" ELSE "failed"
         /\ UNCHANGED <<source, program, quads>>

Canonicalize ==
  /\ stage = "lowered"
  /\ stage' = "canonical"
  /\ trees' = [trees EXCEPT !.functions =
                 [i \in 1 .. Len(@) |-> Canonical!CanonFunction(@[i])]]
  /\ UNCHANGED <<source, program, quads>>

Divided(f) == [name |-> f.name, args |-> f.args, label |-> f.label, temp |-> f.temp,
               blocks |-> Quads!SplitBlocks(f.quads)]
Select ==
  /\ stage = "canonical"
  /\ stage' = "selected"
  /\ quads' = [i \in 1 .. Len(trees.functions) |-> Divided(Quads!SelectFunction(trees.functions[i]))]
  /\ UNCHANGED <<source, program, trees>>

SplitIntoBlocks ==
  /\ stage = "selected"
  /\ stage' = "blocked"
  /\ quads' = [i \in 1 .. Len(quads) |->
                 [quads[i] EXCEPT !.blocks = Quads!Blocking(@, quads[i].label)]]
  /\ UNCHANGED <<source, program, trees>>

Finished == stage \in {"unreadable", "rejected", "failed", "blocked"} /\ UNCHANGED vars

Next == Parse \/ Check \/ Lower \/ Canonicalize \/ Select \/ SplitIntoBlocks \/ Finished

Spec == Init /\ [][Next]_vars

-----------------------------------------------------------------------------
\* The compiled program as the machine runs it.
Compiled ==
  LET f(name) == CHOOSE i \in 1 .. Len(quads) : quads[i].name = name
  IN [functions |-> [n \in {quads[i].name : i \in 1 .. Len(quads)} |-> quads[f(n)]],
      data |-> trees.data,
      globals |-> [g \in DOMAIN trees.data |->
                     Region(CHOOSE i \in 1 .. Len(GlobalDefs(program)) :
                              GlobalDefs(program)[i].text = g)]]

\* The parser builds the one tree the grammar gives a text (which operand an
\* operator takes, which if an else belongs to), refuses no program and repairs
\* nothing.
ParsedAsWritten ==
  /\ stage = "unreadable" => source \notin Texts
  /\ stage = "parsed" => Spell(program) = source

\* What the blocks do is what the source means, on every input the program is
\* defined for: operands in order, conversions where the types differ, short
\* circuits, rows and braces of arrays, scopes, loops left in any way.
Agrees(does, meant) ==
  ~meant.undefined /\ ~meant.stuck /\ ~meant.overlooked =>
    ~does.undefined /\ Outcome(program, does) = Outcome(program, meant)
CompiledMeansSource ==
  stage = "blocked" =>
    \A input \in Inputs : Agrees(RunQuads(Compiled, input), RunProgram(program, input))

\* The two meaningful things the checker refuses: a hexadecimal literal with an
\* e in it, taken for a float where an int has to be, and an array whose dims
\* name what its own name hides.
Misread == \E n \in Subnodes(program) : n.kind = "Number" /\ n.text = "hex e"
HidesItself ==
  \E def \in Subnodes(program) :
    /\ def.kind \in {"VarDef", "ConstDef"}
    /\ \E i \in 1 .. Len(DimsOf(def)) : \E n \in Subnodes(DimsOf(def)[i]) : n.kind = "LVal" /\ n.text = def.text

\* What the checker and the lowering refuse is what they are there to refuse, and
\* all of it: a program is compiled only if no run of it is ever stuck, and
\* refused only if one is, but for the two exceptions above.  What no stage looks
\* at (see Overlook) is compiled, although the language gives it no meaning.
\* (Faults of the programs the model is run with lie on paths that are taken.)
CheckerExact ==
  /\ stage = "blocked" => \A input \in Inputs : ~RunProgram(program, input).stuck
  /\ stage \in {"rejected", "failed"} =>
       Misread \/ HidesItself \/ \E input \in Inputs : RunProgram(program, input).stuck

\* Behind canonicalization no statement hides in an expression, and a call is a
\* statement or what a move takes, with arguments nothing can change any more.
Exps(f) == UNION {Canonical!Subtrees(s) : s \in ToSet(f.stms)}
OuterCalls(f) == {s.sub[Len(s.sub)] : s \in {t \in ToSet(f.stms) : t.kind \in {"MOVE", "EXPSTM"}}}
CanonicalForm ==
  stage = "canonical" =>
    \A f \in ToSet(trees.functions) :
      \A e \in Exps(f) :
        /\ e.kind # "ESEQ"
        /\ e.kind = "EXTCALL" => /\ e \in OuterCalls(f)
                                 /\ \A a \in ToSet(e.sub) : a.kind \in {"TEMPEXP", "CONST"}

\* What the control flow graph is made from, dead blocks included: every block
\* has a label of its own, every exit is a block, what leaves a block is its last
\* quad and goes where the exits say.
Labels(f) == {b.entry : b \in ToSet(f.blocks)}
Leaving(q) == q.kind \in {"JUMP", "CJUMP", "RETURN"}
BlocksWellFormed ==
  stage = "blocked" =>
    \A f \in ToSet(quads) :
      /\ 0 \notin Labels(f) /\ Cardinality(Labels(f)) = Len(f.blocks)
      /\ \A b \in ToSet(f.blocks) :
           /\ ToSet(b.exits) \subseteq Labels(f)
           /\ \A i \in 1 .. Len(b.quads) :
                Leaving(b.quads[i]) => i = Len(b.quads) /\ b.exits = b.quads[i].labels
           /\ b.exits = <<>> => b.quads # <<>> /\ Last(b.quads).kind = "RETURN"

\* Each stage hands on what the next one takes for granted and does not check:
\* selection meets no statement in an expression, the flow analyses meet no
\* block without a label, no exit without a block and no code behind a jump.
StagesInForm == CanonicalForm /\ BlocksWellFormed

=============================================================================

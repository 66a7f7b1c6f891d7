-------------------------------- MODULE Gvn --------------------------------
(***************************************************************************)
(* gvnProg for one function: a walk down the dominator tree with a table   *)
(* of the expressions that are available, in which the name of a temp is   *)
(* the first temp that computed its value.  A later computation of the     *)
(* same expression goes, and its uses become uses of the first.  As for    *)
(* copy propagation, a function that is not in SSA form is left alone, and *)
(* a result that is not is given up.  Pointer arithmetic is left out.      *)
(***************************************************************************)
EXTENDS QuadFlow

VARIABLES
  numbering,    \* "idle", "walk", "rewrite", "verify", "done"
  given,        \* the function the pass was given
  numbered,     \* its clone, as it stands
  givenFlow,    \* the flow of the clone
  route,        \* the activations of visit, outermost first
  available,    \* the expressions in scope, each with the temp that holds it
  replacement,  \* for each redundant temp the one that takes its place
  refused       \* was the original taken instead

gvnVars ==
  <<numbering, given, numbered, givenFlow, route, available, replacement, refused>>

NothingGiven == Function(<<>>, <<>>, <<>>, 0)

Init ==
  /\ numbering = "idle"
  /\ given = NothingGiven
  /\ numbered = NothingGiven
  /\ givenFlow = <<>>
  /\ route = <<>>
  /\ available = {}
  /\ replacement = <<>>
  /\ refused = FALSE

Begin(f) ==
  /\ numbering = "idle"
  /\ given' = EliminateUnreachable(f)
  /\ numbered' = given'
  /\ givenFlow' = FlowOf(numbered')
  /\ numbering' = IF VerifySsa(numbered', givenFlow') THEN "walk" ELSE "verify"
  /\ UNCHANGED <<route, available, replacement, refused>>

-----------------------------------------------------------------------------
\* canonicalTemp: a temp that was not replaced stands for itself, and one that
\* was is replaced by one that was not.
Canonical(repl, t) == IF t \in DOMAIN repl THEN repl[t] ELSE t

NameOf(repl, term) == IF IsTemp(term) THEN Temp(Canonical(repl, term.temp)) ELSE term

Commutative == {"+", "*", "xor", "&", "|", "^"}

\* Mutation: the operands of every operation may change sides.
UnorderedKey(repl, s) == <<s.op, {NameOf(repl, s.src[i]) : i \in DOMAIN s.src}>>

\* Mutation: the operands are not looked up among the replaced temps.
LiteralKey(repl, s) == <<s.op, IF s.op \in Commutative THEN ToSet(s.src) ELSE s.src>>

\* Expressions that have one key have one value; the operands of a commutative
\* operation are put in order, and here in a set.
Key(repl, s) ==
  LET names == [i \in DOMAIN s.src |-> NameOf(repl, s.src[i])]
  IN <<s.op, IF s.op \in Commutative THEN ToSet(names) ELSE names>>

Number(acc, s) ==
  LET key == Key(acc.replacement, s)
  IN IF s.kind # "MOVE_BINOP" THEN acc
     ELSE IF \E e \in acc.available : e.key = key
     THEN [acc EXCEPT !.replacement =
             Bind(@, s.dst, (CHOOSE e \in acc.available : e.key = key).temp)]
     ELSE [acc EXCEPT !.available = @ \cup {[key |-> key, temp |-> s.dst]}]

ToVisit == IF route = <<>> THEN {Entry(numbered)} ELSE Last(route).rest

\* visit up to its first recursive call.
EnterBlock ==
  /\ numbering = "walk"
  /\ ToVisit # {}
  /\ LET b == Min(ToVisit)
         acc == FoldLeft(Number, [available |-> available, replacement |-> replacement],
                         numbered.code[b])
         outer == IF route = <<>> THEN <<>>
                  ELSE [route EXCEPT ![Len(route)].rest = @ \ {b}]
     IN /\ available' = acc.available
        /\ replacement' = acc.replacement
        /\ route' = Append(outer, [rest |-> Children(givenFlow, b), outside |-> available])
  /\ UNCHANGED <<numbering, given, numbered, givenFlow, refused>>

\* Mutation: what a block computed stays available to its siblings.
LeakyLeaveBlock ==
  /\ numbering = "walk"
  /\ route # <<>>
  /\ ToVisit = {}
  /\ route' = Front(route)
  /\ numbering' = IF Len(route) = 1 THEN "rewrite" ELSE numbering
  /\ UNCHANGED <<given, numbered, givenFlow, available, replacement, refused>>

\* The return of visit: what it added is no longer available.
LeaveBlock ==
  /\ numbering = "walk"
  /\ route # <<>>
  /\ ToVisit = {}
  /\ available' = Last(route).outside
  /\ route' = Front(route)
  /\ numbering' = IF Len(route) = 1 THEN "rewrite" ELSE numbering
  /\ UNCHANGED <<given, numbered, givenFlow, replacement, refused>>

-----------------------------------------------------------------------------
Substitute(s) == [s EXCEPT !.src = [i \in DOMAIN @ |-> NameOf(replacement, @[i])]]

Rewrite ==
  /\ numbering = "rewrite"
  /\ numbering' = "verify"
  /\ LET Needed(s) == s.kind # "MOVE_BINOP" \/ s.dst \notin DOMAIN replacement
         Rewritten(code) ==
           LET kept == SelectSeq(code, Needed)
           IN [i \in DOMAIN kept |-> Substitute(kept[i])]
     IN numbered' = [numbered EXCEPT !.code = [b \in DOMAIN @ |-> Rewritten(@[b])]]
  /\ UNCHANGED <<given, givenFlow, route, available, replacement, refused>>

Verify ==
  /\ numbering = "verify"
  /\ numbering' = "done"
  /\ LET fine == VerifySsa(numbered, FlowOf(numbered))
     IN /\ numbered' = IF fine THEN numbered ELSE given
        /\ refused' = ~fine
  /\ UNCHANGED <<given, givenFlow, route, available, replacement>>

\* The expressions of f that an expression in a dominating block repeats, given
\* the dominators of f.
Repeated(f, dom) ==
  LET InBlock(b) == {s \in ToSet(f.code[b]) : s.kind = "MOVE_BINOP"}
  IN {e \in UNION {InBlock(b) \X {b} : b \in Blocks(f)} :
        \E a \in dom[e[2]] : \E s \in InBlock(a) \ {e[1]} : Key(<<>>, s) = Key(<<>>, e[1])}

Steps == EnterBlock \/ LeaveBlock \/ Rewrite \/ Verify

=============================================================================

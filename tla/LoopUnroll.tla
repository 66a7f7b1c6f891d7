----------------------------- MODULE LoopUnroll -----------------------------
(***************************************************************************)
(* loopUnrollProg for one function: a loop of a header and one body block  *)
(* without calls, whose header counts a phi from a constant to a constant  *)
(* and is left after a few trips, becomes one block with as many copies of *)
(* the body.  Afterwards pure definitions nobody reads go.  The result is  *)
(* given up when it is not in SSA form, before or after that.              *)
(***************************************************************************)
EXTENDS QuadFlow

CONSTANTS
  MaxTrips,     \* maxTripCount
  MaxBody,      \* maxBodyInstructions
  MaxExpanded,  \* maxExpandedInstructions
  MaxNewTemps   \* maxAdditionalTemps

VARIABLES
  unrolling,  \* "idle", "rounds", "verify", "clean", "recheck", "done"
  rolled,     \* the function the pass was given
  unrolled,   \* its clone, as it stands
  turns       \* the loops unrolled so far

unrollVars == <<unrolling, rolled, unrolled, turns>>

NothingToUnroll == Function(<<>>, <<>>, <<>>, 0)

MaxTurns == 16

\* How many moves resolveConstant follows.
MaxChain == 15

Init ==
  /\ unrolling = "idle"
  /\ rolled = NothingToUnroll
  /\ unrolled = NothingToUnroll
  /\ turns = 0

Begin(f) ==
  /\ unrolling = "idle"
  /\ rolled' = f
  /\ unrolled' = f
  /\ unrolling' = IF VerifyQuadSsaCfg(f) THEN "rounds" ELSE "done"
  /\ UNCHANGED turns

-----------------------------------------------------------------------------
DefinitionsOf(f, t) == {s \in Statements(f) : s.dst = t}

\* The constant a term is a copy of, as a set of one or none.
ResolveConstant(f, term) ==
  LET Follow(u, n) ==
        LET moves == {s \in DefinitionsOf(f, u.temp) : s.kind = "MOVE"}
        IN IF IsTemp(u) /\ moves # {} THEN (CHOOSE s \in moves : TRUE).src[1] ELSE u
      end == FoldLeft(Follow, term, [n \in 1 .. MaxChain |-> n])
  IN IF IsTemp(end) THEN {} ELSE {end.const}

\* findStep: what the loop adds to the phi on each trip.
StepsOf(f, phi, repeated) ==
  LET self == Temp(phi)
      Of(s) ==
        CASE s.kind = "MOVE_BINOP" /\ s.op = "+" /\ self \in ToSet(s.src) ->
               ResolveConstant(f, s.src[IF s.src[1] = self THEN 2 ELSE 1])
          [] s.kind = "MOVE_BINOP" /\ s.op = "-" /\ s.src[1] = self ->
               {-c : c \in ResolveConstant(f, s.src[2])}
          [] OTHER -> {}
  IN UNION {Of(s) : s \in DefinitionsOf(f, repeated)} \ {0}

ArgFrom(s, b) == s.src[CHOOSE i \in DOMAIN s.labels : s.labels[i] = b].temp

\* The phi that the condition compares with a constant: on which side, where it
\* starts, what it gains and what it is compared with.
Inductions(f, l, body, preheader) ==
  LET cond == Last(f.code[l.header])
      phis == ToSet(PhisOf(f, l.header))
      sides == {k \in phis \X {1, 2} : cond.src[k[2]] = Temp(k[1].dst)}
      Of(phi, side) ==
        {[onLeft |-> side = 1, initial |-> i, step |-> d, bound |-> c] :
           i \in ResolveConstant(f, Temp(ArgFrom(phi, preheader))),
           d \in StepsOf(f, phi.dst, ArgFrom(phi, body)),
           c \in ResolveConstant(f, cond.src[3 - side])}
  IN UNION {Of(k[1], k[2]) : k \in sides}

\* Mutation: the trip on which the condition fails is counted.
InclusiveTrips(op, whenTrue, v) ==
  LET At(k) == v.initial + k * v.step
      Enters(k) ==
        whenTrue = IF v.onLeft THEN Compare(op, At(k), v.bound) ELSE Compare(op, v.bound, At(k))
  IN {k + 1 : k \in {n \in 0 .. MaxTrips : ~Enters(n) /\ \A j \in 0 .. n - 1 : Enters(j)}}

\* How often the body runs, if that is at most MaxTrips and nothing wraps.
Trips(op, whenTrue, v) ==
  LET At(k) == v.initial + k * v.step
      Enters(k) ==
        whenTrue = IF v.onLeft THEN Compare(op, At(k), v.bound) ELSE Compare(op, v.bound, At(k))
  IN {k \in 0 .. MaxTrips :
        ~Enters(k) /\ \A j \in 0 .. k - 1 : Enters(j) /\ At(j + 1) \in Word}

\* The number of statements, and that of definitions, that body would grow to
\* stay within the limits.
Affordable(code, trips) ==
  LET defs == SelectSeq(code, LAMBDA s : s.dst # NoTemp)
  IN /\ code # <<>>
     /\ Len(code) <= MaxBody
     /\ Len(code) * trips <= MaxExpanded
     /\ Len(defs) * trips <= MaxNewTemps

IsSimpleLoop(f, flow, l) ==
  /\ Cardinality(l.blocks) = 2
  /\ Cardinality(l.outside) = 1 /\ Cardinality(l.back) = 1 /\ Cardinality(l.exits) = 1
  /\ l.header \notin l.back
  /\ \A b \in l.outside \cup l.back : flow.succ[b] = {l.header}

\* What analyzeLoop finds, as a set of one candidate or none.
Candidates(f, flow, l) ==
  LET header == f.code[l.header]
      body == CHOOSE b \in l.back : TRUE
      preheader == CHOOSE b \in l.outside : TRUE
      exit == (CHOOSE e \in l.exits : TRUE)[2]
      cond == Last(header)
      code == Front(f.code[body])
      fit == /\ cond.kind = "CJUMP" /\ Last(f.code[body]).kind = "JUMP"
             /\ ToSet(cond.labels) = {body, exit}
             /\ Len(header) > 1 /\ \A i \in 1 .. Len(header) - 1 : IsPhi(header[i])
             /\ \A s \in ToSet(code) : s.kind \in {"MOVE", "MOVE_BINOP", "LOAD", "STORE"}
  IN IF ~IsSimpleLoop(f, flow, l) THEN {}
     ELSE IF ~fit THEN {}
     ELSE {[header |-> l.header, body |-> body, preheader |-> preheader, exit |-> exit,
            trips |-> n] :
             n \in {m \in UNION {Trips(cond.op, cond.labels[1] = body, v) :
                                   v \in Inductions(f, l, body, preheader)} :
                      m >= 2 /\ Affordable(code, m)}}

-----------------------------------------------------------------------------
\* applyUnroll.

\* Mutation: the phis of the header take their next values one by one.
OneByOneNext(phis, uses, body) ==
  FoldLeft(LAMBDA now, s :
             LET t == ArgFrom(s, body)
             IN Bind(now, s.dst, IF t \in DOMAIN now THEN now[t] ELSE t),
           uses, phis)

\* What the phis hold on the next trip, given what stands for each temp on this.
NextValues(phis, uses, body) ==
  FoldLeft(LAMBDA now, s :
             LET t == ArgFrom(s, body)
             IN Bind(now, s.dst, IF t \in DOMAIN uses THEN uses[t] ELSE t),
           <<>>, phis)

\* One copy of the body: its definitions get the temps behind acc.last.
CopyBody(code, phis, body, acc) ==
  LET defs == SelectSeq(code, LAMBDA s : s.dst # NoTemp)
      fresh == [t \in {s.dst : s \in ToSet(defs)} |->
                  acc.last + (CHOOSE i \in DOMAIN defs : defs[i].dst = t)]
      uses == acc.now @@ fresh
      Renamed(s) ==
        [RewriteUsesBy(uses, s) EXCEPT !.dst = IF @ = NoTemp THEN NoTemp ELSE fresh[@]]
  IN [code |-> acc.code \o [i \in DOMAIN code |-> Renamed(code[i])],
      last |-> acc.last + Len(defs),
      now |-> NextValues(phis, uses, body)]

ApplyUnroll(f, c) ==
  LET phis == PhisOf(f, c.header)
      new == NewLabel(f)
      first == [code |-> <<>>, last |-> f.lastTemp,
                now |-> FoldLeft(LAMBDA now, s : Bind(now, s.dst, ArgFrom(s, c.preheader)),
                                 <<>>, phis)]
      end == FoldLeft(LAMBDA acc, n : CopyBody(Front(f.code[c.body]), phis, c.body, acc),
                      first, [n \in 1 .. c.trips |-> n])
      turned == ReplacePhiPredecessor(Retarget(f, {c.preheader}, c.header, new),
                                      c.exit, c.header, new)
      read == [turned EXCEPT !.code = [b \in DOMAIN @ |->
                 [i \in DOMAIN @[b] |-> RewriteUsesBy(end.now, @[b][i])]]]
      cut == [read EXCEPT !.order = SelectSeq(@, LAMBDA b : b \notin {c.header, c.body}),
                          !.code = Restrict(@, DOMAIN @ \ {c.header, c.body}),
                          !.lastTemp = end.last]
  IN InsertBefore(cut, c.exit, new, Append(end.code, Jump(c.exit)))

Unrollable(f, flow) == {l \in NaturalLoopsOf(flow) : Candidates(f, flow, l) # {}}

UnrollOne ==
  /\ unrolling = "rounds"
  /\ turns < MaxTurns
  /\ \E flow \in {FlowOf(unrolled)} :
       \E l \in FirstOf(Unrollable(unrolled, flow)) :
         \E c \in Candidates(unrolled, flow, l) : unrolled' = ApplyUnroll(unrolled, c)
  /\ turns' = turns + 1
  /\ UNCHANGED <<unrolling, rolled>>

EndTurns ==
  /\ unrolling = "rounds"
  /\ turns = MaxTurns \/ Unrollable(unrolled, FlowOf(unrolled)) = {}
  /\ unrolling' = IF turns = 0 THEN "done" ELSE "verify"
  /\ UNCHANGED <<rolled, unrolled, turns>>

\* A function that is given up is as if no loop had been unrolled.
Check(from, to) ==
  /\ unrolling = from
  /\ IF VerifyQuadSsaCfg(unrolled)
     THEN unrolling' = to /\ UNCHANGED <<unrolled, turns>>
     ELSE unrolling' = "done" /\ unrolled' = rolled /\ turns' = 0
  /\ UNCHANGED rolled

VerifyUnrolled == Check("verify", "clean")
VerifyCleaned == Check("recheck", "done")

Clean ==
  /\ unrolling = "clean"
  /\ unrolled' = WithoutDead(unrolled)
  /\ unrolling' = IF Dead(unrolled) = {} THEN "recheck" ELSE "clean"
  /\ UNCHANGED <<rolled, turns>>

Steps == UnrollOne \/ EndTurns \/ VerifyUnrolled \/ Clean \/ VerifyCleaned

=============================================================================

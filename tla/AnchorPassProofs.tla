--------------------------- MODULE AnchorPassProofs ---------------------------
(****************************************************************************)
(* Proofs about AnchorPass: the effect summary, for every module and call   *)
(* graph, and the walk that says where a pointer comes from, for every      *)
(* graph of definitions.                                                    *)
(****************************************************************************)
EXTENDS AnchorEffect, PointerOrigin, SequenceTheorems, TLAPS

----------------------------------------------------------------------------
(* Orderings, gates and the least set of functions an ordering reaches.     *)

LEMMA Ranks ==
  /\ Hardware \subseteq Orderings /\ "None" \in Orderings
  /\ \A o \in Orderings : Rank[o] \in Nat
  /\ \A o \in Hardware : o # "None" /\ Rank["None"] < Rank[o]
  BY DEF Hardware, Orderings, Rank

LEMMA Gate == \A args : CallerVisible(args) <=> (args = {} \/ \E o \in args : o # "Internal")
  BY DEF CallerVisible

(* The largest own ordering exists, and Seed is it.                         *)
LEMMA SeedIsLargest ==
  ASSUME NEW f \in Fns, f \notin prog.utility, Own(f) # {}
  PROVE  Seed(f) \in Own(f) /\ \A q \in Own(f) : Rank[q] <= Rank[Seed(f)]
<1>1. Own(f) \subseteq {"Release", "Acquire", "SC"}
  BY DEF Own, Hardware
<1>2. \E o \in Own(f) : \A q \in Own(f) : Rank[q] <= Rank[o]
  <2>1. Rank["Release"] = 3 /\ Rank["Acquire"] = 4 /\ Rank["SC"] = 5
    BY DEF Rank
  <2>2. CASE "SC" \in Own(f)
    BY <1>1, <2>1, <2>2
  <2>3. CASE "SC" \notin Own(f) /\ "Acquire" \in Own(f)
    BY <1>1, <2>1, <2>3
  <2>4. CASE "SC" \notin Own(f) /\ "Acquire" \notin Own(f)
    <3>1. Own(f) = {"Release"}
      BY <1>1, <2>4
    <3>2. QED
      BY <2>1, <3>1
  <2>5. QED
    BY <2>2, <2>3, <2>4
<1>3. Seed(f) = CHOOSE o \in Own(f) : \A q \in Own(f) : Rank[q] <= Rank[o]
  BY DEF Seed
<1>4. QED
  BY <1>2, <1>3

LEMMA OwnIsProviders ==
  ASSUME NEW f \in Fns, f \notin prog.utility, NEW o \in Hardware
  PROVE  o \in Own(f) <=> f \in Providers(o)
  BY Gate DEF Own, Providers, Passes

(* Reaching(o) holds the providers of o and is closed under callers.        *)
LEMMA ReachingFacts ==
  ASSUME NEW o
  PROVE  /\ Providers(o) \subseteq Reaching(o)
         /\ ClosedUnderCallers(Reaching(o))
         /\ \A S \in SUBSET Fns :
              Providers(o) \subseteq S /\ ClosedUnderCallers(S) => Reaching(o) \subseteq S
<1>1. Providers(o) \subseteq Reaching(o)
  BY DEF Reaching, Providers
<1>2. \A S \in SUBSET Fns :
        Providers(o) \subseteq S /\ ClosedUnderCallers(S) => Reaching(o) \subseteq S
  BY DEF Reaching
<1>3. ClosedUnderCallers(Reaching(o))
  <2>1. ASSUME NEW f \in Fns, Inherited(f) \cap Reaching(o) # {},
               NEW S \in SUBSET Fns, Providers(o) \subseteq S, ClosedUnderCallers(S)
        PROVE  f \in S
    <3>1. Inherited(f) \cap S # {}
      BY <1>2, <2>1
    <3>2. QED
      BY <2>1, <3>1 DEF ClosedUnderCallers
  <2>2. QED
    BY <2>1 DEF ClosedUnderCallers, Reaching
<1>4. QED
  BY <1>1, <1>2, <1>3

----------------------------------------------------------------------------
(* The inductive invariant.                                                 *)

(* No call comes before the first call of the first function.               *)
LEMMA NoCallBefore ==
  ASSUME NEW p \in Programs, NEW f \in Fns, NEW i \in DOMAIN p.calls[f]
  PROVE  i \in Nat \ {0} /\ ~(f < 1) /\ ~(f = 1 /\ i < 1)
<1>1. p.calls[f] \in Seq(Calls)
  BY ProgramsAssumption
<1>2. DOMAIN p.calls[f] = 1..Len(p.calls[f]) /\ Len(p.calls[f]) \in Nat
  BY <1>1
<1>3. i \in Nat \ {0}
  BY <1>2
<1>4. f \in Nat \ {0}
  BY NumFnsAssumption DEF Fns
<1>5. QED
  BY <1>3, <1>4

LEMMA InitInv == Init => IInv
<1> SUFFICES ASSUME Init PROVE IInv
  OBVIOUS
<1>1. \A f \in Fns : effect[f] = Seed(f)
  BY DEF Init
<1>2. ASSUME NEW f \in Fns
      PROVE  /\ effect[f] \in {"None"} \cup Hardware
             /\ effect[f] # "None" => f \in Reaching(effect[f])
             /\ \A o \in Hardware : f \in Providers(o) => Rank[o] <= Rank[effect[f]]
  <2>1. CASE f \in prog.utility
    BY <1>1, <2>1 DEF Seed, Providers
  <2>2. CASE f \notin prog.utility /\ Own(f) = {}
    BY <1>1, <2>2, OwnIsProviders DEF Seed
  <2>3. CASE f \notin prog.utility /\ Own(f) # {}
    <3>1. effect[f] \in Own(f) /\ \A q \in Own(f) : Rank[q] <= Rank[effect[f]]
      BY <1>1, <2>3, SeedIsLargest
    <3>2. effect[f] \in Hardware
      BY <3>1 DEF Own
    <3>3. f \in Reaching(effect[f])
      BY <2>3, <3>1, <3>2, OwnIsProviders, ReachingFacts
    <3>4. QED
      BY <2>3, <3>1, <3>2, <3>3, OwnIsProviders
  <2>4. QED
    BY <2>1, <2>2, <2>3
<1>3. TypeOK
  <2>1. effect \in [Fns -> {"None"} \cup Hardware]
    BY <1>2 DEF Init
  <2>2. fn \in 1..(NumFns + 1) /\ site \in Nat \ {0}
    BY NumFnsAssumption DEF Init
  <2>3. changed \in BOOLEAN
    BY DEF Init
  <2>4. QED
    BY <2>1, <2>2, <2>3 DEF Init, TypeOK
<1>4. NothingInvented /\ OwnCounted
  BY <1>2 DEF NothingInvented, OwnCounted
<1>5. SettledUpTo
  <2>1. prog \in Programs /\ fn = 1 /\ site = 1
    BY DEF Init
  <2>2. QED
    BY <2>1, NoCallBefore DEF SettledUpTo
<1>6. QED
  BY <1>3, <1>4, <1>5 DEF IInv, AtEnd, Init

(* The predicates of the invariant that only read prog and effect.          *)
LEMMA SameProgram ==
  ASSUME prog' = prog
  PROVE  /\ \A o : Reaching(o)' = Reaching(o) /\ Providers(o)' = Providers(o)
<1>1. \A f : Inherited(f)' = Inherited(f)
  BY DEF Inherited
<1>2. \A o : Providers(o)' = Providers(o)
  BY DEF Providers
<1>3. QED
  BY <1>1, <1>2 DEF Reaching, ClosedUnderCallers

LEMMA VisitCallStep == IInv /\ VisitCall => IInv'
<1> SUFFICES ASSUME IInv, VisitCall PROVE IInv'
  OBVIOUS
<1> DEFINE c == prog.calls[fn][site]
<1>1. /\ prog' = prog /\ phase = "propagate" /\ phase' = phase /\ fn \in Fns /\ fn' = fn
      /\ site \in DOMAIN prog.calls[fn] /\ site' = site + 1
      /\ effect' = IF Inherits(fn, c) THEN [effect EXCEPT ![fn] = effect[c.callee]] ELSE effect
      /\ changed' = (changed \/ Inherits(fn, c))
  BY DEF VisitCall
<1>2. /\ effect \in [Fns -> {"None"} \cup Hardware] /\ site \in Nat \ {0} /\ changed \in BOOLEAN
      /\ prog \in Programs
  BY DEF IInv, TypeOK
<1>3. prog.calls \in [Fns -> Seq(Calls)] /\ c \in Calls /\ c.callee \in Fns
  <2>1. prog.calls \in [Fns -> Seq(Calls)]
    BY <1>2, ProgramsAssumption
  <2>2. c \in Calls
    BY <1>1, <2>1
  <2>3. QED
    BY <2>1, <2>2 DEF Calls
<1>4. CASE Inherits(fn, c)
  <2>1. /\ fn \notin prog.utility /\ c.callee \notin prog.utility /\ Passes(c)
        /\ effect[c.callee] \in Hardware /\ Rank[effect[c.callee]] > Rank[effect[fn]]
    BY <1>4, Gate DEF Inherits, Raises, Passes
  <2>2. effect' = [effect EXCEPT ![fn] = effect[c.callee]] /\ changed' = TRUE
    BY <1>1, <1>4
  <2>3. effect' \in [Fns -> {"None"} \cup Hardware]
    BY <1>1, <1>2, <1>3, <2>2
  <2>4. \A f \in Fns : effect'[f] = IF f = fn THEN effect[c.callee] ELSE effect[f]
    BY <1>2, <2>2
  <2>5. fn \in Reaching(effect[c.callee])
    <3>1. c.callee \in Inherited(fn)
      BY <1>1, <2>1 DEF Inherited
    <3>2. c.callee \in Reaching(effect[c.callee])
      BY <1>3, <2>1, Ranks DEF IInv, NothingInvented
    <3>3. QED
      BY <1>1, <3>1, <3>2, ReachingFacts DEF ClosedUnderCallers
  <2>6. NothingInvented'
    BY <1>1, <2>4, <2>5, SameProgram DEF IInv, NothingInvented
  <2>7. OwnCounted'
    <3>1. ASSUME NEW f \in Fns, NEW o \in Hardware, f \in Providers(o)
          PROVE  Rank[o] <= Rank[effect'[f]]
      <4>1. Rank[o] <= Rank[effect[f]]
        BY <3>1 DEF IInv, OwnCounted
      <4>2. /\ Rank[o] \in Nat /\ Rank[effect[f]] \in Nat
            /\ Rank[effect[c.callee]] \in Nat
        BY <1>2, <1>3, Ranks
      <4>3. QED
        BY <2>1, <2>4, <4>1, <4>2
    <3>2. QED
      BY <1>1, <3>1, SameProgram DEF OwnCounted
  <2>8. SettledUpTo'
    BY <2>2 DEF SettledUpTo
  <2>9. TypeOK'
    BY <1>1, <1>2, <2>2, <2>3 DEF IInv, TypeOK
  <2>10. QED
    BY <1>1, <2>6, <2>7, <2>8, <2>9 DEF IInv, AtEnd
<1>5. CASE ~Inherits(fn, c)
  <2>1. effect' = effect /\ changed' = changed
    BY <1>1, <1>2, <1>5
  <2>2. Settled(fn, c)
    <3>1. SUFFICES ASSUME fn \notin prog.utility, c.callee \notin prog.utility, Passes(c),
                          effect[c.callee] # "None"
                   PROVE  Rank[effect[c.callee]] <= Rank[effect[fn]]
      BY DEF Settled
    <3>2. effect[c.callee] \in Hardware /\ ~(Rank[effect[c.callee]] > Rank[effect[fn]])
      BY <1>2, <1>3, <1>5, <3>1, Gate DEF Inherits, Raises, Passes
    <3>3. Rank[effect[c.callee]] \in Nat /\ Rank[effect[fn]] \in Nat
      BY <1>1, <1>2, <1>3, Ranks
    <3>4. QED
      BY <3>2, <3>3
  <2>3. SettledUpTo'
    <3>1. SUFFICES ASSUME ~changed, NEW f \in Fns, NEW i \in DOMAIN prog.calls[f],
                          f < fn \/ (f = fn /\ i < site + 1)
                   PROVE  Settled(f, prog.calls[f][i])
      BY <1>1, <2>1 DEF SettledUpTo, Settled
    <3>2. i \in Nat
      BY <1>3
    <3>3. CASE f = fn /\ i = site
      BY <2>2, <3>3
    <3>4. CASE f < fn \/ (f = fn /\ i < site)
      BY <3>1, <3>4 DEF IInv, SettledUpTo
    <3>5. QED
      BY <1>2, <3>1, <3>2, <3>3, <3>4
  <2>4. TypeOK'
    <3>1. site' \in Nat \ {0}
      BY <1>1, <1>2
    <3>2. QED
      BY <1>1, <2>1, <3>1 DEF IInv, TypeOK
  <2>5. NothingInvented' /\ OwnCounted'
    BY <1>1, <2>1, SameProgram DEF IInv, NothingInvented, OwnCounted
  <2>6. AtEnd'
    BY <1>1 DEF AtEnd
  <2>7. QED
    BY <2>3, <2>4, <2>5, <2>6 DEF IInv
<1>6. QED
  BY <1>4, <1>5

LEMMA NextFunctionStep == IInv /\ NextFunction => IInv'
<1> SUFFICES ASSUME IInv, NextFunction PROVE IInv'
  OBVIOUS
<1>1. /\ prog' = prog /\ phase = "propagate" /\ phase' = phase /\ fn \in Fns /\ fn' = fn + 1
      /\ site \notin DOMAIN prog.calls[fn] /\ site' = 1
      /\ effect' = effect /\ changed' = changed
  BY DEF NextFunction
<1>2. site \in Nat \ {0} /\ prog.calls \in [Fns -> Seq(Calls)]
  BY ProgramsAssumption DEF IInv, TypeOK
<1>3. TypeOK'
  <2>1. fn' \in 1..(NumFns + 1) /\ site' \in Nat \ {0}
    BY <1>1, NumFnsAssumption DEF Fns
  <2>2. QED
    BY <1>1, <2>1 DEF IInv, TypeOK
<1>4. SettledUpTo'
  <2>1. SUFFICES ASSUME ~changed, NEW f \in Fns, NEW i \in DOMAIN prog.calls[f], f < fn + 1 \/ i < 1
                 PROVE  Settled(f, prog.calls[f][i])
    BY <1>1 DEF SettledUpTo, Settled
  <2>2. DOMAIN prog.calls[f] = 1..Len(prog.calls[f]) /\ Len(prog.calls[f]) \in Nat
    BY <1>2
  <2>3. f < fn \/ (f = fn /\ i < site)
    BY <1>1, <1>2, <2>1, <2>2 DEF Fns
  <2>4. QED
    BY <2>1, <2>3 DEF IInv, SettledUpTo
<1>5. NothingInvented' /\ OwnCounted' /\ AtEnd'
  BY <1>1, SameProgram DEF IInv, NothingInvented, OwnCounted, AtEnd
<1>6. QED
  BY <1>3, <1>4, <1>5 DEF IInv

LEMMA OtherSteps ==
  ASSUME IInv, NextPass \/ Return \/ UNCHANGED vars
  PROVE  IInv'
<1>1. prog' = prog /\ effect' = effect /\ site' \in {1, site}
  BY DEF NextPass, Return, vars
<1>2. NothingInvented' /\ OwnCounted'
  BY <1>1, SameProgram DEF IInv, NothingInvented, OwnCounted
<1>3. CASE NextPass
  <2>1. fn' = 1 /\ site' = 1 /\ changed' = FALSE /\ phase = "propagate" /\ phase' = phase
    BY <1>3 DEF NextPass
  <2>2. fn' \in 1..(NumFns + 1) /\ site' \in Nat \ {0}
    BY <2>1, NumFnsAssumption
  <2>3. TypeOK'
    <3>1. changed' \in BOOLEAN
      BY <2>1
    <3>2. QED
      BY <1>1, <2>1, <2>2, <3>1 DEF IInv, TypeOK
  <2>4. SettledUpTo'
    <3>1. prog' \in Programs
      BY <1>1 DEF IInv, TypeOK
    <3>2. QED
      BY <2>1, <3>1, NoCallBefore DEF SettledUpTo
  <2>5. QED
    BY <1>2, <2>1, <2>3, <2>4 DEF IInv, AtEnd
<1>4. CASE Return
  <2>1. fn' = fn /\ site' = site /\ changed' = changed /\ ~changed /\ fn \notin Fns /\ phase' = "done"
    BY <1>4 DEF Return, Again
  <2>2. TypeOK'
    BY <1>1, <2>1 DEF IInv, TypeOK
  <2>3. SettledUpTo' /\ AtEnd'
    BY <1>1, <2>1 DEF IInv, SettledUpTo, Settled, AtEnd
  <2>4. QED
    BY <1>2, <2>2, <2>3 DEF IInv
<1>5. CASE UNCHANGED vars
  <2>1. fn' = fn /\ site' = site /\ changed' = changed /\ phase' = phase
    BY <1>5 DEF vars
  <2>2. QED
    BY <1>1, <1>2, <2>1 DEF IInv, TypeOK, SettledUpTo, Settled, AtEnd
<1>6. QED
  BY <1>3, <1>4, <1>5

(* Nothing invented, nothing of one's own forgotten, and the visited calls  *)
(* settled in a quiet pass: for every module.                               *)
THEOREM SummaryInvariant == Spec => []IInv
<1>1. IInv /\ [Next]_vars => IInv'
  BY VisitCallStep, NextFunctionStep, OtherSteps DEF Next
<1>2. QED
  BY InitInv, <1>1, PTL DEF Spec

----------------------------------------------------------------------------
(* What the invariant says when the loop returns.                           *)

LEMMA Quiet == IInv => NothingLeft
<1> SUFFICES ASSUME IInv, phase = "done", NEW f \in Fns, NEW g \in Inherited(f), effect[g] # "None"
             PROVE  Rank[effect[g]] <= Rank[effect[f]]
  BY DEF NothingLeft
<1>1. ~changed /\ f < fn
  BY NumFnsAssumption DEF IInv, TypeOK, AtEnd, Fns
<1>2. f \notin prog.utility /\ g \notin prog.utility
  BY DEF Inherited
<1>3. PICK i \in DOMAIN prog.calls[f] : Passes(prog.calls[f][i]) /\ g = prog.calls[f][i].callee
  BY <1>2 DEF Inherited
<1>4. Settled(f, prog.calls[f][i])
  BY <1>1 DEF IInv, SettledUpTo
<1>5. QED
  BY <1>2, <1>3, <1>4 DEF Settled

(* The summary is exact when it is used, whatever the call graph.           *)
THEOREM SummaryIsLargest == Spec => []EffectIsLargest
<1>1. IInv => EffectIsLargest
  <2> SUFFICES ASSUME IInv, phase = "done", NEW o \in Hardware
               PROVE  Reaching(o) \subseteq {f \in Fns : Rank[o] <= Rank[effect[f]]}
    BY DEF EffectIsLargest
  <2> DEFINE S == {f \in Fns : Rank[o] <= Rank[effect[f]]}
  <2>1. Providers(o) \subseteq S
    BY DEF IInv, OwnCounted, Providers
  <2>2. ClosedUnderCallers(S)
    <3>1. SUFFICES ASSUME NEW f \in Fns, NEW g \in Inherited(f), g \in S PROVE f \in S
      BY DEF ClosedUnderCallers
    <3>2. effect \in [Fns -> {"None"} \cup Hardware]
      BY DEF IInv, TypeOK
    <3>3. Rank[o] \in Nat /\ Rank[effect[g]] \in Nat /\ Rank[effect[f]] \in Nat
      BY <3>1, <3>2, Ranks
    <3>4. effect[g] # "None"
      BY <3>1, <3>3, Ranks
    <3>5. Rank[effect[g]] <= Rank[effect[f]]
      BY <3>4, Quiet DEF NothingLeft
    <3>6. QED
      BY <3>1, <3>3, <3>5
  <2>3. QED
    BY <2>1, <2>2, ReachingFacts
<1>2. QED
  BY <1>1, SummaryInvariant, PTL

----------------------------------------------------------------------------
(* The walk of tracePointerOrigin.                                          *)

LEMMA GraphFacts ==
  ASSUME graph \in Graphs
  PROVE  /\ graph.root \in Values
         /\ \A v \in Values :
              /\ graph.kind[v] \in Kinds /\ graph.ops[v] \in Seq(Values) /\ graph.base[v] \in Values
              /\ graph.base[graph.base[v]] = graph.base[v]
              /\ graph.base[v] # v => graph.kind[v] = "step" /\ graph.ops[v] = <<>>
  BY GraphsAssumption

(* What the operand may be is closed under casts and steps, and is the      *)
(* least such set.                                                          *)
OriginClosed(S) ==
  /\ graph.root \in S
  /\ \A u \in S : graph.base[u] \in S
  /\ \A u \in S : graph.kind[u] = "step" => ToSet(graph.ops[u]) \subseteq S

LEMMA OriginFacts ==
  ASSUME graph \in Graphs
  PROVE  /\ OriginClosed(Origin) /\ Origin \subseteq Values
         /\ \A S \in SUBSET Values : OriginClosed(S) => Origin \subseteq S
<1>1. \A S \in SUBSET Values : OriginClosed(S) => Origin \subseteq S
  BY DEF Origin, OriginClosed
<1>2. Origin \subseteq Values
  BY DEF Origin
<1>3. graph.root \in Origin
  BY GraphFacts DEF Origin
<1>4. ASSUME NEW u \in Origin PROVE graph.base[u] \in Origin
  <2>1. graph.base[u] \in Values
    BY <1>2, GraphFacts
  <2>2. \A S \in SUBSET Values : OriginClosed(S) => u \in S
    BY <1>1
  <2>3. QED
    BY <2>1, <2>2 DEF Origin, OriginClosed
<1>5. ASSUME NEW u \in Origin, graph.kind[u] = "step", NEW w \in ToSet(graph.ops[u])
      PROVE  w \in Origin
  <2>1. w \in Values
    BY <1>2, GraphFacts DEF ToSet
  <2>2. \A S \in SUBSET Values : OriginClosed(S) => u \in S
    BY <1>1
  <2>3. QED
    BY <1>5, <2>1, <2>2 DEF Origin, OriginClosed
<1>6. QED
  BY <1>1, <1>2, <1>3, <1>4, <1>5 DEF OriginClosed

(* The stack: its last value is taken, operands may be pushed.              *)
LEMMA Popped ==
  ASSUME NEW s \in Seq(Values), s # <<>>
  PROVE  /\ Last(s) \in Values /\ Front(s) \in Seq(Values)
         /\ ToSet(s) = ToSet(Front(s)) \cup {Last(s)}
<1>1. Len(s) \in Nat \ {0} /\ \A i \in 1..Len(s) : s[i] \in Values
  OBVIOUS
<1>2. /\ Front(s) \in Seq(Values) /\ Len(Front(s)) = Len(s) - 1
      /\ \A i \in 1..(Len(s) - 1) : Front(s)[i] = s[i]
  <2> DEFINE m == Len(s) - 1
  <2>1. m \in Nat /\ \A i \in 1..m : s[i] \in Values
    BY <1>1
  <2> HIDE DEF m
  <2>2. m - 1 + 1 = m /\ (1 <= m \/ m = 0) /\ \A i \in 1..m : 1 + i - 1 = i
    BY <2>1
  <2>3. /\ SubSeq(s, 1, m) \in Seq(Values)
        /\ Len(SubSeq(s, 1, m)) = IF 1 <= m THEN m - 1 + 1 ELSE 0
        /\ \A i \in 1..(m - 1 + 1) : SubSeq(s, 1, m)[i] = s[1 + i - 1]
    BY <2>1, SubSeqProperties
  <2>4. QED
    BY <2>2, <2>3 DEF m, Front
<1>3. Last(s) = s[Len(s)]
  BY DEF Last
<1>4. \A i \in 1..Len(s) : i \in 1..(Len(s) - 1) \/ i = Len(s)
  BY <1>1
<1>5. DOMAIN s = 1..Len(s) /\ DOMAIN Front(s) = 1..(Len(s) - 1)
  BY <1>2
<1> HIDE DEF Front, Last
<1>6. QED
  BY <1>1, <1>2, <1>3, <1>4, <1>5 DEF ToSet

LEMMA Pushing ==
  ASSUME NEW s \in Seq(Values), NEW t \in Seq(Values)
  PROVE  s \o t \in Seq(Values) /\ ToSet(s \o t) = ToSet(s) \cup ToSet(t)
<1> DEFINE c == s \o t
<1>1. Len(s) \in Nat /\ Len(t) \in Nat /\ DOMAIN s = 1..Len(s) /\ DOMAIN t = 1..Len(t)
  OBVIOUS
<1>2. /\ c \in Seq(Values) /\ Len(c) = Len(s) + Len(t)
      /\ \A i \in 1..(Len(s) + Len(t)) : c[i] = IF i <= Len(s) THEN s[i] ELSE t[i - Len(s)]
  BY ConcatProperties, Zenon
<1> HIDE DEF c
<1>3. DOMAIN c = 1..(Len(s) + Len(t))
  BY <1>2
<1>4. ASSUME NEW i \in 1..(Len(s) + Len(t)) PROVE c[i] \in ToSet(s) \cup ToSet(t)
  <2>1. CASE i <= Len(s)
    BY <1>1, <1>2, <2>1 DEF ToSet
  <2>2. CASE ~(i <= Len(s))
    <3>1. i - Len(s) \in 1..Len(t)
      BY <1>1, <2>2
    <3>2. QED
      BY <1>1, <1>2, <2>2, <3>1 DEF ToSet
  <2>3. QED
    BY <2>1, <2>2
<1>5. ASSUME NEW i \in 1..Len(s) PROVE s[i] \in ToSet(c)
  <2>1. i \in 1..(Len(s) + Len(t)) /\ i <= Len(s)
    BY <1>1
  <2>2. QED
    BY <1>2, <1>3, <2>1 DEF ToSet
<1>6. ASSUME NEW i \in 1..Len(t) PROVE t[i] \in ToSet(c)
  <2>1. /\ i + Len(s) \in 1..(Len(s) + Len(t)) /\ ~(i + Len(s) <= Len(s))
        /\ (i + Len(s)) - Len(s) = i
    BY <1>1
  <2>2. c[i + Len(s)] = t[i]
    BY <1>2, <2>1
  <2>3. QED
    BY <1>3, <2>1, <2>2 DEF ToSet
<1>7. ToSet(c) = ToSet(s) \cup ToSet(t)
  BY <1>1, <1>3, <1>4, <1>5, <1>6 DEF ToSet
<1>8. QED
  BY <1>2, <1>7 DEF c

(* The first step: the operand is on the stack.                             *)
LEMMA WalkStarts == StartWalk => WalkInv
<1> SUFFICES ASSUME StartWalk PROVE WalkInv
  OBVIOUS
<1>1. graph \in Graphs /\ graph.root \in Values /\ stk = <<graph.root>>
  BY GraphFacts DEF StartWalk
<1>2. stk \in Seq(Values) /\ ToSet(stk) = {graph.root}
  BY <1>1 DEF ToSet
<1>3. WalkTypeOK
  <2>1. Budget \in 0..Budget
    BY BudgetAssumption
  <2>2. QED
    BY <1>1, <1>2, <2>1 DEF StartWalk, WalkTypeOK
<1>4. Witnessed
  BY <1>1, <1>2, OriginFacts DEF StartWalk, Witnessed, OriginClosed
<1>5. NothingLost
  BY <1>1, <1>2 DEF StartWalk, NothingLost, Bare
<1>6. QED
  BY <1>3, <1>4, <1>5 DEF WalkInv

(* The graph stays, and what is said of it.                                 *)
LEMMA SameGraph ==
  ASSUME [WalkStep]_walk
  PROVE  /\ graph' = graph /\ Origin' = Origin /\ Bare' = Bare
         /\ \A K : OriginOfKind(K)' = OriginOfKind(K)
<1>1. graph' = graph
  BY DEF WalkStep, Drop, Look, Answer, walk
<1>2. Origin' = Origin
  BY <1>1 DEF Origin
<1>3. QED
  BY <1>1, <1>2 DEF OriginOfKind, Bare

(* A value that is dropped is bare, or a cast of a value that has been      *)
(* entered.                                                                 *)
LEMMA DropStep ==
  ASSUME WalkInv, [WalkStep]_walk, Drop
  PROVE  WalkInv'
<1> DEFINE v == Last(stk)
<1>1. /\ result = "none" /\ stk # <<>> /\ budget > 0 /\ AlreadySeen(v)
      /\ budget' = budget - 1 /\ stk' = Front(stk) /\ seen' = seen \cup {v}
      /\ graph' = graph /\ sawArg' = sawArg /\ sawInternal' = sawInternal /\ result' = result
  BY DEF Drop, Walking
<1>2. /\ v \in Values /\ stk' \in Seq(Values) /\ ToSet(stk) = ToSet(stk') \cup {v}
  BY <1>1, Popped DEF WalkInv, WalkTypeOK
<1> HIDE DEF v
<1>3. WalkTypeOK'
  BY <1>1, <1>2, BudgetAssumption DEF WalkInv, WalkTypeOK
<1>4. Witnessed'
  BY <1>1, <1>2, SameGraph DEF WalkInv, Witnessed
<1>5. NothingLost'
  <2>1. NothingLost /\ v \in ToSet(stk)
    BY <1>2 DEF WalkInv
  <2>2. graph.base[v] \in seen'
    BY <1>1, <2>1 DEF AlreadySeen, NothingLost
  <2>3. CASE graph.base[v] = v
    <3>1. v \in Bare
      BY <2>1, <2>3 DEF NothingLost
    <3>2. QED
      BY <1>1, <1>2, <2>1, <2>2, <3>1, SameGraph DEF NothingLost, SetsArg
  <2>4. CASE graph.base[v] # v
    <3>1. graph.kind[v] = "step" /\ ToSet(graph.ops[v]) = {}
      BY <1>2, <2>4, GraphFacts DEF WalkInv, WalkTypeOK, ToSet
    <3>2. QED
      BY <1>1, <1>2, <2>1, <2>2, <3>1, SameGraph DEF NothingLost, SetsArg
  <2>5. QED
    BY <2>3, <2>4
<1>6. QED
  BY <1>3, <1>4, <1>5 DEF WalkInv

LEMMA LookStep ==
  ASSUME WalkInv, [WalkStep]_walk, Look
  PROVE  WalkInv'
<1> DEFINE v == Last(stk)
           b == graph.base[v]
<1>1. /\ result = "none" /\ stk # <<>> /\ budget > 0 /\ budget' = budget - 1
      /\ seen' = seen \cup {v, b} /\ stk' = Front(stk) \o Pushed(v)
      /\ sawArg' = (sawArg \/ SetsArg(b))
      /\ sawInternal' = (sawInternal \/ graph.kind[b] = "internal")
      /\ result' = IF graph.kind[b] = "opaque" THEN "Unknown" ELSE result
      /\ graph' = graph
  BY DEF Look, Walking
<1>2. /\ v \in Values /\ Front(stk) \in Seq(Values) /\ ToSet(stk) = ToSet(Front(stk)) \cup {v}
  BY <1>1, Popped DEF WalkInv, WalkTypeOK
<1>3. /\ b \in Values /\ graph.base[b] = b /\ graph.ops[b] \in Seq(Values)
      /\ b # v => graph.kind[v] = "step" /\ graph.ops[v] = <<>>
  BY <1>2, GraphFacts DEF WalkInv, WalkTypeOK
<1>4. /\ Pushed(v) \in Seq(Values)
      /\ ToSet(Pushed(v)) = IF graph.kind[b] = "step" THEN ToSet(graph.ops[b]) ELSE {}
  BY <1>3 DEF Pushed, ToSet
<1>5. stk' \in Seq(Values) /\ ToSet(stk') = ToSet(Front(stk)) \cup ToSet(Pushed(v))
  BY <1>1, <1>2, <1>4, Pushing
<1> HIDE DEF v, b
<1>6. WalkTypeOK'
  BY <1>1, <1>2, <1>3, <1>5, BudgetAssumption DEF WalkInv, WalkTypeOK
<1>7. Witnessed'
  <2>1. v \in Origin
    BY <1>2 DEF WalkInv, Witnessed
  <2>2. OriginClosed(Origin)
    BY OriginFacts DEF WalkInv, WalkTypeOK
  <2>3. b \in Origin
    BY <2>1, <2>2 DEF OriginClosed, b
  <2>4. ToSet(Pushed(v)) \subseteq Origin
    BY <1>4, <2>2, <2>3 DEF OriginClosed
  <2>5. ToSet(stk') \cup seen' \subseteq Origin
    BY <1>1, <1>2, <1>5, <2>1, <2>3, <2>4 DEF WalkInv, Witnessed
  <2>6. SetsArg(b) => OriginOfKind({"arg", "exported"}) # {}
    BY <2>3 DEF SetsArg, OriginOfKind
  <2>7. graph.kind[b] = "internal" => OriginOfKind({"internal"}) # {}
    BY <2>3 DEF OriginOfKind
  <2>8. result' # "Argument" /\ result' # "Internal"
    BY <1>1
  <2>9. /\ sawArg' => OriginOfKind({"arg", "exported"}) # {}
        /\ sawInternal' => OriginOfKind({"internal"}) # {}
    BY <1>1, <2>6, <2>7 DEF WalkInv, Witnessed
  <2>10. QED
    BY <2>5, <2>8, <2>9, SameGraph DEF Witnessed
<1>8. NothingLost'
  <2>1. NothingLost /\ v \in ToSet(stk) /\ Bare' = Bare
    BY <1>2, SameGraph DEF WalkInv
  <2>2. graph.root \in seen' \cup ToSet(stk')
    BY <1>1, <1>2, <1>5, <2>1 DEF NothingLost
  <2>3. \A u \in seen' : graph.base[u] \in seen'
    BY <1>1, <1>3, <2>1 DEF NothingLost, b
  <2>4. b # v /\ graph.kind[v] = "step" /\ ToSet(graph.ops[v]) = {}
    <3>1. b # v
      BY DEF Look, AlreadySeen, b, v
    <3>2. QED
      BY <1>3, <3>1 DEF ToSet
  <2>5. b \in Origin
    <3>1. v \in Origin /\ OriginClosed(Origin)
      BY <1>2, OriginFacts DEF WalkInv, Witnessed, WalkTypeOK
    <3>2. QED
      BY <3>1 DEF OriginClosed, b
  <2>6. ASSUME NEW u \in ToSet(stk'), graph.base[u] = u PROVE u \in Bare
    <3>1. CASE u \in ToSet(stk)
      BY <2>1, <2>6, <3>1 DEF NothingLost
    <3>2. CASE u \in ToSet(Pushed(v)) /\ u \in Values
      BY <1>4, <2>5, <2>6, <3>2 DEF Bare
    <3>3. u \in Values
      BY <1>5, <2>6 DEF ToSet
    <3>4. QED
      BY <1>2, <1>5, <3>1, <3>2, <3>3
  <2>7. ASSUME NEW u \in seen' \ Bare, graph.kind[u] = "step"
        PROVE  ToSet(graph.ops[u]) \subseteq seen' \cup ToSet(stk')
    <3>1. CASE u \in seen
      <4>1. ToSet(graph.ops[u]) \subseteq seen \cup ToSet(stk)
        BY <2>1, <2>7, <3>1 DEF NothingLost
      <4>2. QED
        BY <1>1, <1>2, <1>5, <4>1
    <3>2. CASE u = v
      BY <2>4, <3>2
    <3>3. CASE u = b
      BY <1>4, <1>5, <2>7, <3>3
    <3>4. QED
      BY <1>1, <3>1, <3>2, <3>3
  <2>8. \A u \in seen' \ Bare : graph.kind[u] \in {"arg", "exported"} => sawArg'
    BY <1>1, <2>1, <2>4 DEF NothingLost, SetsArg
  <2>9. \A u \in seen' \ Bare : graph.kind[u] = "opaque" => result' = "Unknown"
    BY <1>1, <2>1, <2>4 DEF NothingLost
  <2>10. result' # "Internal"
    BY <1>1
  <2>11. graph.base[graph.root] # graph.root
    BY <2>1, <2>4 DEF NothingLost, b
  <2>12. QED
    BY <1>1, <2>1, <2>2, <2>3, <2>6, <2>7, <2>8, <2>9, <2>10, <2>11 DEF NothingLost, SetsArg
<1>9. QED
  BY <1>6, <1>7, <1>8 DEF WalkInv

LEMMA AnswerStep ==
  ASSUME WalkInv, [WalkStep]_walk, Answer
  PROVE  WalkInv'
<1>1. /\ result = "none" /\ ~Walking /\ result' = Verdict
      /\ UNCHANGED <<graph, stk, seen, sawArg, sawInternal, budget>>
  BY DEF Answer
<1>2. budget \in 0..Budget /\ Budget \in Nat
  BY BudgetAssumption DEF WalkInv, WalkTypeOK
<1>3. /\ Verdict \in {"Argument", "Internal", "Unknown"}
      /\ Verdict = "Argument" => sawArg
      /\ Verdict = "Internal" => sawInternal /\ ~sawArg /\ budget > 0
  BY <1>2 DEF Verdict
<1>4. Verdict = "Internal" => stk = <<>>
  BY <1>1, <1>2, <1>3 DEF Walking
<1>5. WalkTypeOK'
  BY <1>1, <1>3 DEF WalkInv, WalkTypeOK
<1>6. Witnessed'
  BY <1>1, <1>3, SameGraph DEF WalkInv, Witnessed
<1>7. NothingLost'
  <2>1. NothingLost /\ Bare' = Bare
    BY SameGraph DEF WalkInv
  <2>2. \A v \in seen \ Bare : graph.kind[v] # "opaque"
    BY <1>1, <2>1 DEF NothingLost
  <2>3. QED
    BY <1>1, <1>3, <1>4, <2>1, <2>2 DEF NothingLost, SetsArg
<1>8. QED
  BY <1>5, <1>6, <1>7 DEF WalkInv

(* Whatever the graph, cyclic or not, and wherever the budget runs out: a   *)
(* verdict is about the operand, and nothing it may be is lost on the way   *)
(* but at values that are met bare.                                         *)
THEOREM WalkInvariant == Walk => []WalkInv
<1>1. WalkInv /\ [WalkStep]_walk => WalkInv'
  <2> SUFFICES ASSUME WalkInv, [WalkStep]_walk PROVE WalkInv'
    OBVIOUS
  <2>1. CASE Drop
    BY <2>1, DropStep
  <2>2. CASE Look
    BY <2>2, LookStep
  <2>3. CASE Answer
    BY <2>3, AnswerStep
  <2>4. CASE UNCHANGED walk
    BY <2>4, SameGraph DEF walk, WalkInv, WalkTypeOK, Witnessed, NothingLost, SetsArg
  <2>5. QED
    BY <2>1, <2>2, <2>3, <2>4 DEF WalkStep
<1>2. QED
  BY <1>1, WalkStarts, PTL DEF Walk

(* An operand that is excluded is a cast, and internal on every path on     *)
(* which no value is met bare: for every graph.                             *)
THEOREM ExcludedSoundly == Walk => []ExclusionSound
<1>1. ASSUME WalkInv, Excluded
      PROVE  /\ graph.base[graph.root] # graph.root
             /\ Followed \subseteq OriginOfKind({"internal", "step"})
  <2>1. NothingLost /\ stk = <<>> /\ ~sawArg /\ sawInternal /\ result = "Internal"
    <3>1. NothingLost /\ stk = <<>> /\ ~sawArg /\ result = "Internal"
      BY <1>1 DEF WalkInv, Excluded, NothingLost
    <3>2. sawInternal
      BY <1>1 DEF WalkInv, NothingLost, Excluded, WalkTypeOK
    <3>3. QED
      BY <3>1, <3>2
  <2>2. ToSet(stk) = {}
    BY <2>1 DEF ToSet
  <2>3. seen \subseteq Values /\ seen \subseteq Origin
    BY <1>1 DEF WalkInv, WalkTypeOK, Witnessed
  <2>4. FollowedClosed(seen \ Bare)
    BY <2>1, <2>2 DEF NothingLost, FollowedClosed
  <2>5. Followed \subseteq seen \ Bare
    BY <2>3, <2>4 DEF Followed
  <2>6. \A v \in seen : graph.kind[v] \in Kinds
    BY <1>1, <2>3, GraphFacts DEF WalkInv, WalkTypeOK
  <2>7. \A v \in seen \ Bare : graph.kind[v] \in {"internal", "step"}
    BY <2>1, <2>6 DEF NothingLost, SetsArg, Kinds
  <2>8. graph.base[graph.root] # graph.root
    BY <2>1 DEF NothingLost
  <2>9. QED
    BY <2>3, <2>5, <2>7, <2>8 DEF OriginOfKind
<1>2. WalkInv => ExclusionSound
  BY <1>1 DEF ExclusionSound
<1>3. QED
  BY <1>2, WalkInvariant, PTL

============================================================================

----------------------------- MODULE PointerOrigin -----------------------------
(****************************************************************************)
(* tracePointerOrigin of AnchorPass (anchor_pass.cpp): where a pointer      *)
(* operand comes from, found by a bounded walk back over its definitions.   *)
(* Its verdicts are the origins that gate the effects of AnchorEffect.      *)
(*                                                                          *)
(* A value graph is a record of                                             *)
(*   root : the operand                                                     *)
(*   kind : per value; "arg" an argument, "exported" a mutable global that  *)
(*          other units see, "internal" another global, a local or a        *)
(*          constant, "step" an instruction the walk goes through (address  *)
(*          arithmetic, PHI, select, int<->ptr), "opaque" any other         *)
(*   ops  : per step, the operands the walk pushes, in order                *)
(*   base : per value, what LLVM's stripPointerCasts leaves of it (the      *)
(*          value itself when it is no cast); a cast is an instruction, and *)
(*          the walk follows it to its base only                            *)
(****************************************************************************)
EXTENDS Integers, Sequences, SequencesExt

CONSTANTS Values, Graphs, Budget

Kinds == {"arg", "exported", "internal", "step", "opaque"}

ASSUME BudgetAssumption == Budget \in Nat
ASSUME GraphsAssumption ==
  \A g \in Graphs :
    /\ g.root \in Values
    /\ g.kind \in [Values -> Kinds]
    /\ g.ops \in [Values -> Seq(Values)]
    /\ g.base \in [Values -> Values]
    /\ \A v \in Values :
         /\ g.base[g.base[v]] = g.base[v]
         /\ g.base[v] # v => g.kind[v] = "step" /\ g.ops[v] = <<>>

VARIABLES
  graph,      \* the definitions; no step changes them
  stk,        \* values to look at, the last one first
  seen,       \* values looked at
  sawArg,     \* a value a caller can reach was found
  sawInternal,\* a value only the function can reach was found
  budget,     \* looks left
  result      \* the verdict, "none" while walking

walk == <<graph, stk, seen, sawArg, sawInternal, budget, result>>

----------------------------------------------------------------------------
StartWalk ==
  /\ graph \in Graphs
  /\ stk = <<graph.root>>
  /\ seen = {}
  /\ sawArg = FALSE
  /\ sawInternal = FALSE
  /\ budget = Budget
  /\ result = "none"

Walking == result = "none" /\ stk # <<>> /\ budget > 0

(* The value itself and then what it is a cast of are entered into seen; if *)
(* either is there already the value is dropped.                            *)
AlreadySeen(v) == v \in seen \/ graph.base[v] \in seen \cup {v}

(* The operands of a step, pushed in order.                                 *)
Pushed_Last(v) ==                                               \* mutant
  IF graph.kind[graph.base[v]] = "step" /\ graph.ops[graph.base[v]] # <<>>
  THEN <<Last(graph.ops[graph.base[v]])>> ELSE <<>>
Pushed(v) == IF graph.kind[graph.base[v]] = "step" THEN graph.ops[graph.base[v]] ELSE <<>>

SetsArg_AnyGlobal(v) == graph.kind[v] \in {"arg", "exported", "internal"}  \* mutant
SetsArg(v) == graph.kind[v] \in {"arg", "exported"}

Drop ==
  /\ Walking
  /\ AlreadySeen(Last(stk))
  /\ budget' = budget - 1
  /\ stk' = Front(stk)
  /\ seen' = seen \cup {Last(stk)}
  /\ UNCHANGED <<graph, sawArg, sawInternal, result>>

Look ==
  /\ Walking
  /\ ~AlreadySeen(Last(stk))
  /\ budget' = budget - 1
  /\ LET v == Last(stk)
         b == graph.base[v]
     IN  /\ seen' = seen \cup {v, b}
         /\ stk' = Front(stk) \o Pushed(v)
         /\ sawArg' = (sawArg \/ SetsArg(b))
         /\ sawInternal' = (sawInternal \/ graph.kind[b] = "internal")
         /\ result' = IF graph.kind[b] = "opaque" THEN "Unknown" ELSE result
  /\ UNCHANGED graph

(* The loop ended; an exhausted budget is never a verdict.                  *)
Verdict ==
  IF budget <= 0 THEN "Unknown"
  ELSE IF sawArg THEN "Argument"
  ELSE IF sawInternal THEN "Internal" ELSE "Unknown"

Answer ==
  /\ result = "none"
  /\ ~Walking
  /\ result' = Verdict
  /\ UNCHANGED <<graph, stk, seen, sawArg, sawInternal, budget>>

WalkStep == Drop \/ Look \/ Answer

Walk == StartWalk /\ [][WalkStep]_walk

----------------------------------------------------------------------------
(* anchorIsCallerVisible excludes an anchor only for this verdict.          *)
Excluded == result = "Internal"

----------------------------------------------------------------------------
(* Properties of the walk.                                                  *)

WalkTypeOK ==
  /\ graph \in Graphs
  /\ stk \in Seq(Values)
  /\ seen \subseteq Values
  /\ {sawArg, sawInternal} \subseteq BOOLEAN
  /\ budget \in 0..Budget
  /\ result \in {"none", "Argument", "Internal", "Unknown"}

(* The values the operand may be, through casts and steps.                  *)
Origin ==
  {v \in Values :
     \A S \in SUBSET Values :
       (/\ graph.root \in S
        /\ \A u \in S : graph.base[u] \in S
        /\ \A u \in S : graph.kind[u] = "step" => ToSet(graph.ops[u]) \subseteq S)
         => v \in S}
OriginOfKind(K) == {v \in Origin : graph.kind[v] \in K}

(* Everything on the stack or seen is one of these values, and a flag that  *)
(* is set has a witness among them: a verdict is never about another        *)
(* pointer.                                                                 *)
Witnessed ==
  /\ ToSet(stk) \cup seen \subseteq Origin
  /\ sawArg => OriginOfKind({"arg", "exported"}) # {}
  /\ sawInternal => OriginOfKind({"internal"}) # {}
  /\ result = "Argument" => OriginOfKind({"arg", "exported"}) # {}
  /\ result = "Internal" => OriginOfKind({"internal"}) # {}

(* A value is met bare when it is the operand, or is pushed for a step, and *)
(* is no cast: both insert calls then get the same value and it is dropped. *)
Bare ==
  {v \in Values : graph.base[v] = v
                    /\ \/ v = graph.root
                       \/ \E u \in Origin : graph.kind[u] = "step" /\ v \in ToSet(graph.ops[u])}

(* What the operand may be on a path without a bare value: through casts,   *)
(* and through steps that are met as what a cast is of.                     *)
FollowedClosed(S) ==
  /\ graph.root \notin Bare => graph.root \in S
  /\ \A u \in S : graph.base[u] \notin Bare => graph.base[u] \in S
  /\ \A u \in S : graph.kind[u] = "step" => ToSet(graph.ops[u]) \ Bare \subseteq S
Followed == {v \in Values : \A S \in SUBSET Values : FollowedClosed(S) => v \in S}

(* What an exclusion says, on every graph, with definition cycles and when  *)
(* the budget runs out in the middle: the operand is a cast (an argument,   *)
(* PHI, select, call or load that is passed as it is never is excluded),    *)
(* and what it may be without passing a bare value is internal.  What lies  *)
(* behind a bare value is not vouched for; see ExcludedIsInternal.          *)
ExclusionSound ==
  Excluded =>
    /\ graph.base[graph.root] # graph.root
    /\ Followed \subseteq OriginOfKind({"internal", "step"})

(* The reason.  What is on the stack is a cast or bare; the operand, and    *)
(* whatever what has been seen leads to, is bare, has been seen or is on    *)
(* the stack; what has been seen, and is not bare, is in the flags; the     *)
(* verdict waits for an empty stack; and nothing is looked at for an        *)
(* operand that is bare.                                                    *)
NothingLost ==
  /\ \A v \in ToSet(stk) : graph.base[v] = v => v \in Bare
  /\ graph.root \in seen \cup ToSet(stk)
  /\ \A v \in seen : graph.base[v] \in seen
  /\ \A v \in seen \ Bare :
       /\ graph.kind[v] = "step" => ToSet(graph.ops[v]) \subseteq seen \cup ToSet(stk)
       /\ SetsArg(v) => sawArg
       /\ graph.kind[v] = "opaque" => result = "Unknown"
  /\ result = "Internal" => stk = <<>> /\ sawInternal /\ ~sawArg
  /\ graph.base[graph.root] = graph.root => ToSet(stk) \subseteq {graph.root} /\ ~sawInternal
WalkInv == WalkTypeOK /\ Witnessed /\ NothingLost

----------------------------------------------------------------------------
(* "conservative -- INCLUDE unless we can prove internal"                   *)
(* (anchor_pass.cpp:316): an excluded operand is internal on every path.    *)
ExcludedIsInternal == Excluded => Origin = OriginOfKind({"internal", "step"})

(* "Argument,   // reaches at least one Argument" (anchor_pass.cpp:236).    *)
ArgumentRecognised ==
  (result # "none" /\ graph.kind[graph.root] = "arg") => result = "Argument"

============================================================================

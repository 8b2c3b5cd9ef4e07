----------------------------- MODULE AnchorEffect -----------------------------
(****************************************************************************)
(* computeFnEffectSummary of AnchorPass (anchor_pass.cpp): for each defined *)
(* function the memory ordering its callers can rely on, seeded from its    *)
(* own anchors and propagated from callee to caller until nothing changes;  *)
(* and the anchor that AnchorPass then sees in a call (rule 4 of its scan). *)
(*                                                                          *)
(* Functions are 1..NumFns in module order, the order the passes iterate    *)
(* in.  A program is a record of                                            *)
(*   utility : functions whose name is on the print/trace/... list          *)
(*   anchors : per function, the anchors of its body                        *)
(*   calls   : per function, the sequence of its calls to defined functions *)
(* An anchor or a call carries the origins of its pointer arguments, as     *)
(* tracePointerOrigin (module PointerOrigin) reports them.                  *)
(****************************************************************************)
EXTENDS Integers, Sequences, FiniteSets

CONSTANTS NumFns, Programs

Fns == 1..NumFns

(* anchors::Ordering, with the values of its enumerators.                   *)
Rank == [None |-> 0, CompilerOnly |-> 1, Relaxed |-> 2, Release |-> 3, Acquire |-> 4, SC |-> 5]
Orderings == DOMAIN Rank
Origins == {"Argument", "Internal", "Unknown"}

Anchors == [ordering : Orderings, args : SUBSET Origins]
Calls == [callee : Fns, args : SUBSET Origins]

ASSUME NumFnsAssumption == NumFns \in Nat
ASSUME ProgramsAssumption ==
  \A p \in Programs :
    /\ p.utility \subseteq Fns
    /\ p.anchors \in [Fns -> SUBSET Anchors]
    /\ p.calls \in [Fns -> Seq(Calls)]

VARIABLES
  prog,     \* the module under analysis; no step changes it
  phase,    \* "propagate" or "done"
  fn,       \* the function the pass is at
  site,     \* the call of fn it is at
  changed,  \* has this pass raised an effect?
  effect    \* the summary

vars == <<prog, phase, fn, site, changed, effect>>

----------------------------------------------------------------------------
(* anchorIsCallerVisible and callPropagatesEffect: no pointer at all, or    *)
(* one that is not known to be internal.                                    *)
CallerVisible_Any(args) == TRUE                                 \* mutant
CallerVisible(args) == args = {} \/ args # {"Internal"}

(* Only these orderings raise an effect.                                    *)
Hardware == {"Release", "Acquire", "SC"}

(* raiseTo, whose comparison is that of the enumerators.                    *)
Raises(cur, new) == new \in Hardware /\ Rank[new] > Rank[cur]

(* The orderings of the visible anchors of f's own body.                    *)
Own(f) ==
  {a.ordering : a \in {b \in prog.anchors[f] : CallerVisible(b.args)}} \cap Hardware

(* The effect the seed scan leaves: the largest of these.                   *)
Seed_Weakest(f) ==                                              \* mutant
  IF f \in prog.utility \/ Own(f) = {} THEN "None"
  ELSE CHOOSE o \in Own(f) : \A q \in Own(f) : Rank[q] >= Rank[o]
Seed(f) ==
  IF f \in prog.utility \/ Own(f) = {} THEN "None"
  ELSE CHOOSE o \in Own(f) : \A q \in Own(f) : Rank[q] <= Rank[o]

(* Does f take over the effect of the callee at call c?                     *)
Inherits(f, c) ==
  /\ f \notin prog.utility
  /\ c.callee \notin prog.utility
  /\ CallerVisible(c.args)
  /\ Raises(effect[f], effect[c.callee])

Again == changed

----------------------------------------------------------------------------
Init ==
  /\ prog \in Programs
  /\ phase = "propagate"
  /\ fn = 1
  /\ site = 1
  /\ changed = FALSE
  /\ effect = [f \in Fns |-> Seed(f)]

(* One call instruction; effects are raised in place.                       *)
VisitCall ==
  /\ phase = "propagate"
  /\ fn \in Fns
  /\ site \in DOMAIN prog.calls[fn]
  /\ LET c == prog.calls[fn][site]
     IN  /\ effect' = IF Inherits(fn, c) THEN [effect EXCEPT ![fn] = effect[c.callee]] ELSE effect
         /\ changed' = (changed \/ Inherits(fn, c))
  /\ site' = site + 1
  /\ UNCHANGED <<prog, phase, fn>>

NextFunction ==
  /\ phase = "propagate"
  /\ fn \in Fns
  /\ site \notin DOMAIN prog.calls[fn]
  /\ fn' = fn + 1
  /\ site' = 1
  /\ UNCHANGED <<prog, phase, changed, effect>>

NextPass ==
  /\ phase = "propagate"
  /\ fn \notin Fns
  /\ Again
  /\ fn' = 1
  /\ site' = 1
  /\ changed' = FALSE
  /\ UNCHANGED <<prog, phase, effect>>

Return ==
  /\ phase = "propagate"
  /\ fn \notin Fns
  /\ ~Again
  /\ phase' = "done"
  /\ UNCHANGED <<prog, fn, site, changed, effect>>

Next == VisitCall \/ NextFunction \/ NextPass \/ Return

Spec == Init /\ [][Next]_vars /\ WF_vars(Next)

----------------------------------------------------------------------------
(* Rule 4 of AnchorPass::run: the ordering of the "(call-effect)" anchor it *)
(* records for a call of f, None if it records none.                        *)
CallAnchor(f) == IF f \in prog.utility THEN "None" ELSE effect[f]

----------------------------------------------------------------------------
(* Properties of the summary.                                               *)

TypeOK ==
  /\ prog \in Programs
  /\ phase \in {"propagate", "done"}
  /\ fn \in 1..(NumFns + 1)
  /\ site \in Nat \ {0}
  /\ changed \in BOOLEAN
  /\ effect \in [Fns -> {"None"} \cup Hardware]

(* The calls whose effect is taken over: neither side is a utility helper,  *)
(* and the call passes no pointer or one that may be the caller's.          *)
Passes(c) == c.args = {} \/ \E o \in c.args : o # "Internal"
Inherited(f) ==
  IF f \in prog.utility THEN {}
  ELSE {c.callee : c \in {prog.calls[f][i] : i \in {j \in DOMAIN prog.calls[f] : Passes(prog.calls[f][j])}}}
         \ prog.utility

(* What a set of functions must hold to be a sound and complete summary of  *)
(* "ordering o is reachable in f": the functions with an o of their own,    *)
(* and the callers of members.                                              *)
Providers(o) ==
  {f \in Fns \ prog.utility : \E a \in prog.anchors[f] : a.ordering = o /\ Passes(a)}
ClosedUnderCallers(S) == \A f \in Fns : Inherited(f) \cap S # {} => f \in S
Reaching(o) ==
  {f \in Fns : \A S \in SUBSET Fns : Providers(o) \subseteq S /\ ClosedUnderCallers(S) => f \in S}

(* No effect is invented: at every moment an effect is an ordering some     *)
(* visible anchor has that is reachable through calls that pass it on.      *)
(* Nothing a print or trace helper does, nothing done to the callee's own   *)
(* locals, ever reaches a caller.                                           *)
NothingInvented == \A f \in Fns : effect[f] # "None" => f \in Reaching(effect[f])

(* When the summary is used no call could still raise an effect: the loop,  *)
(* in place and in module order, did not stop early.                        *)
NothingLeft ==
  phase = "done" =>
    \A f \in Fns : \A g \in Inherited(f) :
      effect[g] # "None" => Rank[effect[g]] <= Rank[effect[f]]

(* The summary is exact: the largest ordering reachable, for every call     *)
(* graph, recursive ones included.                                          *)
EffectIsLargest ==
  phase = "done" =>
    \A f \in Fns : \A o \in Hardware :
      f \in Reaching(o) => Rank[o] <= Rank[effect[f]]

----------------------------------------------------------------------------
(* "Acquire and Release are incomparable" (spec/OrderingLattice.tla:23):    *)
(* a function that provides both is an anchor that orders like both.        *)
NoOrderingLost ==
  phase = "done" =>
    \A f \in Fns \ prog.utility :
      f \in Reaching("Acquire") \cap Reaching("Release") => CallAnchor(f) = "SC"

----------------------------------------------------------------------------
(* The inductive invariant: nothing invented, own anchors counted, and in a *)
(* pass without a change no call visited so far would raise an effect.      *)
OwnCounted == \A f \in Fns : \A o \in Hardware : f \in Providers(o) => Rank[o] <= Rank[effect[f]]
Settled(f, c) ==
  (f \notin prog.utility /\ c.callee \notin prog.utility /\ Passes(c) /\ effect[c.callee] # "None")
    => Rank[effect[c.callee]] <= Rank[effect[f]]
SettledUpTo ==
  ~changed =>
    \A f \in Fns : \A i \in DOMAIN prog.calls[f] :
      (f < fn \/ (f = fn /\ i < site)) => Settled(f, prog.calls[f][i])
AtEnd == phase = "done" => ~changed /\ fn \notin Fns
IInv == TypeOK /\ NothingInvented /\ OwnCounted /\ SettledUpTo /\ AtEnd

============================================================================

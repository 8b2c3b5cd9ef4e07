----------------------------- MODULE LockPropagation -----------------------------
(****************************************************************************)
(* Lock inheritance (H_LockProp), step 4 of FnHeuristicsFilterPass::run     *)
(* (fn_heuristics.cpp): a function that cannot be called from outside the   *)
(* module inherits the locks that all its direct callers hold, in place and *)
(* in module order, until nothing changes.  LockAliasHeuristic then takes   *)
(* two functions with a common lock for mutually exclusive.                 *)
(*                                                                          *)
(* Functions are 1..NumFns in module order.  A program is a record of       *)
(*   own      : per function, the locks its body acquires                   *)
(*   internal : functions of internal or private linkage or hidden          *)
(*              visibility                                                  *)
(*   taken    : functions whose address is stored, as a callback is         *)
(*   sites    : per function, its direct calls of defined functions, each   *)
(*              with those of its own locks that are held when it is made   *)
(* The code looks neither at taken nor at what is held at a site.           *)
(****************************************************************************)
EXTENDS Integers, FiniteSets

CONSTANTS NumFns, Locks, Programs

Fns == 1..NumFns
Sites == [callee : Fns, held : SUBSET Locks]

ASSUME NumFnsAssumption == NumFns \in Nat
ASSUME ProgramsAssumption ==
  \A p \in Programs :
    /\ p.own \in [Fns -> SUBSET Locks]
    /\ p.internal \subseteq Fns
    /\ p.taken \subseteq Fns
    /\ p.sites \in [Fns -> SUBSET Sites]
    /\ \A f \in Fns : \A c \in p.sites[f] : c.held \subseteq p.own[f]

VARIABLES
  prog,     \* the module under analysis; no step changes it
  phase,    \* "propagate" or "done"
  fn,       \* the function the pass is at
  changed,  \* has this pass added a lock?
  lockSets  \* the locks each function is believed to run under

vars == <<prog, phase, fn, changed, lockSets>>

----------------------------------------------------------------------------
Callers(f) == {g \in Fns : \E c \in prog.sites[g] : c.callee = f}

Propagatable_All(f) == Callers(f) # {}                          \* mutant
Propagatable(f) == f \in prog.internal /\ Callers(f) # {}

(* The locks all callers hold.                                              *)
Common_Any(f) == UNION {lockSets[g] : g \in Callers(f)}         \* mutant
Common(f) == {l \in Locks : \A g \in Callers(f) : l \in lockSets[g]}

Inherited(f) == IF Propagatable(f) THEN Common(f) \ lockSets[f] ELSE {}

Again_Never == FALSE                                            \* mutant
Again == changed

----------------------------------------------------------------------------
Init ==
  /\ prog \in Programs
  /\ phase = "propagate"
  /\ fn = 1
  /\ changed = FALSE
  /\ lockSets = prog.own

VisitFunction ==
  /\ phase = "propagate"
  /\ fn \in Fns
  /\ lockSets' = [lockSets EXCEPT ![fn] = @ \cup Inherited(fn)]
  /\ changed' = (changed \/ Inherited(fn) # {})
  /\ fn' = fn + 1
  /\ UNCHANGED <<prog, phase>>

NextPass ==
  /\ phase = "propagate"
  /\ fn \notin Fns
  /\ Again
  /\ fn' = 1
  /\ changed' = FALSE
  /\ UNCHANGED <<prog, phase, lockSets>>

Return ==
  /\ phase = "propagate"
  /\ fn \notin Fns
  /\ ~Again
  /\ phase' = "done"
  /\ UNCHANGED <<prog, fn, changed, lockSets>>

Next == VisitFunction \/ NextPass \/ Return

Spec == Init /\ [][Next]_vars /\ WF_vars(Next)

----------------------------------------------------------------------------
(* LockAliasHeuristic::isMutuallyExclusive.                                 *)
Suppressed(f, g) == lockSets[f] \cap lockSets[g] # {}

----------------------------------------------------------------------------
(* Properties of the propagation.                                          *)

TypeOK ==
  /\ prog \in Programs
  /\ phase \in {"propagate", "done"}
  /\ fn \in 1..(NumFns + 1)
  /\ changed \in BOOLEAN
  /\ lockSets \in [Fns -> SUBSET Locks]

(* The functions that may be entered without lock l, over all executions:   *)
(* those called from outside or through a pointer, and those such a         *)
(* function calls while it does not hold l itself.                          *)
Entered(l, S) ==
  /\ \A f \in Fns : f \notin prog.internal \/ f \in prog.taken => f \in S
  /\ \A f \in S : \A c \in prog.sites[f] : l \notin c.held => c.callee \in S
NotHeld(l) == {f \in Fns : \A S \in SUBSET Fns : Entered(l, S) => f \in S}

(* An inherited lock is one the function is always entered with.            *)
AlwaysUnder(f) == \A l \in lockSets[f] \ prog.own[f] : f \notin NotHeld(l)

(* What the inference relies on: a function holds its locks at every call   *)
(* it makes, and no internal function is called through a pointer.          *)
Disciplined ==
  /\ prog.internal \cap prog.taken = {}
  /\ \A f \in Fns : \A c \in prog.sites[f] : c.held = prog.own[f]

(* On such modules every inherited lock is one the function is always       *)
(* entered with, along every call chain and on recursive ones too, after    *)
(* every step of the in-place loop.                                         *)
InheritedIsHeld == Disciplined => \A f \in Fns : AlwaysUnder(f)

(* When the sets are used no function is left that could inherit a lock:    *)
(* the loop, in module order, did not stop early.                           *)
NothingLeft == phase = "done" => \A f \in Fns : Inherited(f) = {}

----------------------------------------------------------------------------
(* "every caller of F is visible in this module; the 'all callers hold L'   *)
(* intersection is exhaustive" (fn_heuristics.cpp:2076-2077): holding its   *)
(* locks at every call is all a function has to do.                         *)
CallersExhaustive ==
  (\A f \in Fns : \A c \in prog.sites[f] : c.held = prog.own[f]) => \A f \in Fns : AlwaysUnder(f)

(* "functions which are always called under a lock"                         *)
(* (fn_heuristics.cpp:2060-2061): without callbacks, inherited is held.     *)
CalledUnderLock ==
  prog.internal \cap prog.taken = {} => \A f \in Fns : AlwaysUnder(f)

----------------------------------------------------------------------------
(* The inductive invariant: an inherited lock is held, at that moment, by   *)
(* all direct callers of an internal function that has some; and in a pass  *)
(* without a change the functions visited so far have nothing to inherit.   *)
Justified ==
  \A f \in Fns : \A l \in lockSets[f] \ prog.own[f] :
    Propagatable(f) /\ \A g \in Callers(f) : l \in lockSets[g]
OwnKept == \A f \in Fns : prog.own[f] \subseteq lockSets[f]
Settled == ~changed => \A f \in Fns : f < fn => Inherited(f) = {}
AtEnd == phase = "done" => ~changed /\ fn \notin Fns
IInv == TypeOK /\ Justified /\ OwnKept /\ Settled /\ AtEnd

============================================================================

------------------------------- MODULE Lifecycle -------------------------------
(****************************************************************************)
(* The lifecycle classification of FnHeuristicsFilterPass::run              *)
(* (fn_heuristics.cpp): the H27 fixpoint that spreads init-only and         *)
(* exit-only from the seeds to internal helpers, the strips that take       *)
(* runtime callbacks out again (G5.4, G5.5), the closure of the functions   *)
(* reachable from asynchronous contexts (G5.2), and the verdict             *)
(* LifecycleHeuristic draws from the result.                                *)
(*                                                                          *)
(* Functions are 1..NumFns in name order, the order std::map iterates in.   *)
(* What the scan over names, sections, initcall tables, seed files and      *)
(* registration calls finds is abstracted to the sets of a program record:  *)
(*   internal  : functions of internal or private linkage                   *)
(*   calls     : direct calls between defined functions                     *)
(*   initSeed, exitSeed : the seeds initOnly and exitOnly                   *)
(*   lifecycleName : functions whose own section or name is init or exit    *)
(*   recurring : functions with the name of a runtime callback              *)
(*   addrTaken : functions whose address is taken                           *)
(*   async     : handlers registered for irq, work, timer or kthread        *)
(****************************************************************************)
EXTENDS Integers, FiniteSets

CONSTANTS NumFns, Programs

Fns == 1..NumFns

ASSUME NumFnsAssumption == NumFns \in Nat
ASSUME ProgramsAssumption ==
  \A p \in Programs :
    /\ p.calls \in [Fns -> SUBSET Fns]
    /\ {p.internal, p.initSeed, p.exitSeed, p.lifecycleName, p.recurring,
        p.addrTaken, p.async} \subseteq SUBSET Fns

VARIABLES
  prog,          \* the module under analysis; no step changes it
  phase,         \* "propagate", "strip", "irq", "exempt" or "done"
  pos,           \* the entry of callers the propagation loop is at
  changed,       \* has this pass over callers classified a function?
  initOnly, exitOnly,              \* the seed sets
  moduleInitOnly, moduleExitOnly,  \* the closures
  irqReachable,  \* functions reachable from an asynchronous context
  worklist       \* functions whose callees the closure has not visited

vars == <<prog, phase, pos, changed, initOnly, exitOnly, moduleInitOnly,
          moduleExitOnly, irqReachable, worklist>>

----------------------------------------------------------------------------
(* callers has an entry for internal functions only.                        *)
Callers(f) == IF f \in prog.internal THEN {g \in Fns : f \in prog.calls[g]} ELSE {}

(* May f join the class S?  It is not in it, has a caller, and every direct *)
(* caller is in it.                                                         *)
Joins_SomeCaller(f, S) ==                                       \* mutant
  f \notin S /\ Callers(f) \cap S # {}
Joins_Again(f, S) ==                                            \* mutant
  Callers(f) # {} /\ Callers(f) \subseteq S
Joins(f, S) == f \notin S /\ Callers(f) # {} /\ Callers(f) \subseteq S

(* Is another pass over callers needed after this one?                      *)
Again_Never == FALSE                                            \* mutant
Again == changed

(* Functions G5.5 exempts from every class: the address is taken and        *)
(* neither section nor name says init or exit.                              *)
Exempt_IrqOnly ==                                               \* mutant
  {f \in prog.addrTaken \ prog.lifecycleName : f \in irqReachable}
Exempt == prog.addrTaken \ prog.lifecycleName

(* Functions whose asynchronous caller the closure has just visited.        *)
NewlyReached_Direct(f) == {}                                    \* mutant
NewlyReached(f) == prog.calls[f] \ irqReachable

----------------------------------------------------------------------------
Init ==
  /\ prog \in Programs
  /\ phase = "propagate"
  /\ pos = 1
  /\ changed = FALSE
  /\ initOnly = prog.initSeed
  /\ exitOnly = prog.exitSeed
  /\ moduleInitOnly = prog.initSeed
  /\ moduleExitOnly = prog.exitSeed
  /\ irqReachable = prog.async
  /\ worklist = {}

(* One entry of callers: both classes are extended in place, so that later  *)
(* entries of the same pass see the extension.                              *)
Visit ==
  /\ phase = "propagate"
  /\ pos \in Fns
  /\ moduleInitOnly' =
       IF Joins(pos, moduleInitOnly) THEN moduleInitOnly \cup {pos} ELSE moduleInitOnly
  /\ moduleExitOnly' =
       IF Joins(pos, moduleExitOnly) THEN moduleExitOnly \cup {pos} ELSE moduleExitOnly
  /\ changed' = (changed \/ Joins(pos, moduleInitOnly) \/ Joins(pos, moduleExitOnly))
  /\ pos' = pos + 1
  /\ UNCHANGED <<prog, phase, initOnly, exitOnly, irqReachable, worklist>>

NextPass ==
  /\ phase = "propagate"
  /\ pos \notin Fns
  /\ Again
  /\ pos' = 1
  /\ changed' = FALSE
  /\ UNCHANGED <<prog, phase, initOnly, exitOnly, moduleInitOnly, moduleExitOnly,
                 irqReachable, worklist>>

(* The fixpoint is reached; functions of both classes stay exit-only.       *)
DropAmbiguous ==
  /\ phase = "propagate"
  /\ pos \notin Fns
  /\ ~Again
  /\ moduleInitOnly' = moduleInitOnly \ moduleExitOnly
  /\ phase' = "strip"
  /\ UNCHANGED <<prog, pos, changed, initOnly, exitOnly, moduleExitOnly,
                 irqReachable, worklist>>

(* G5.4: runtime callbacks leave every class.                               *)
StripRecurring ==
  /\ phase = "strip"
  /\ initOnly' = initOnly \ prog.recurring
  /\ exitOnly' = exitOnly \ prog.recurring
  /\ moduleInitOnly' = moduleInitOnly \ prog.recurring
  /\ moduleExitOnly' = moduleExitOnly \ prog.recurring
  /\ phase' = "irq"
  /\ worklist' = irqReachable
  /\ UNCHANGED <<prog, pos, changed, irqReachable>>

(* One step of the breadth-first closure; the order of the queue is left    *)
(* open.                                                                    *)
ReachCallees ==
  /\ phase = "irq"
  /\ \E f \in worklist :
       /\ irqReachable' = irqReachable \cup NewlyReached(f)
       /\ worklist' = (worklist \ {f}) \cup NewlyReached(f)
  /\ UNCHANGED <<prog, phase, pos, changed, initOnly, exitOnly, moduleInitOnly,
                 moduleExitOnly>>

IrqClosed ==
  /\ phase = "irq"
  /\ worklist = {}
  /\ phase' = "exempt"
  /\ UNCHANGED <<prog, pos, changed, initOnly, exitOnly, moduleInitOnly,
                 moduleExitOnly, irqReachable, worklist>>

(* G5.5: address-taken functions leave every class.                         *)
StripAddressTaken ==
  /\ phase = "exempt"
  /\ initOnly' = initOnly \ Exempt
  /\ exitOnly' = exitOnly \ Exempt
  /\ moduleInitOnly' = moduleInitOnly \ Exempt
  /\ moduleExitOnly' = moduleExitOnly \ Exempt
  /\ phase' = "done"
  /\ UNCHANGED <<prog, pos, changed, irqReachable, worklist>>

Next ==
  \/ Visit \/ NextPass \/ DropAmbiguous \/ StripRecurring
  \/ ReachCallees \/ IrqClosed \/ StripAddressTaken

(* The pass is a single thread that runs to its end.                        *)
Spec == Init /\ [][Next]_vars /\ WF_vars(Next)

----------------------------------------------------------------------------
(* LifecycleHeuristic::isMutuallyExclusive: is the pair suppressed?         *)
MutuallyExclusive(a, b) ==
  \/ a \in initOnly \cup exitOnly /\ b \in initOnly \cup exitOnly
  \/ {a, b} \cap (moduleInitOnly \cup moduleExitOnly) # {}

============================================================================

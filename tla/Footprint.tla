------------------------------ MODULE Footprint ------------------------------
(****************************************************************************)
(* The transitive footprint of FunctionPairsPass::run (function_pairs.cpp,  *)
(* steps 5 and 5b).  A scan over the defined functions records the shared   *)
(* base objects each one touches itself and the in-module direct call       *)
(* relation; a worklist then adds to every function the footprints of its   *)
(* callees until nothing changes.  Partner matching reads the footprints    *)
(* only after the worklist has drained.                                     *)
(*                                                                          *)
(* A function is identified with its rank in the name order, the order in   *)
(* which std::map and std::set iterate.  The points-to answer of SVF for    *)
(* every operand of a function is abstracted to the set of base objects     *)
(* direct[f]; its call sites to the set of names calls[f], some of which    *)
(* are declarations only.                                                   *)
(****************************************************************************)
EXTENDS Integers, Sequences, FiniteSets

CONSTANTS
  Fns,        \* the functions the module defines
  Decls,      \* functions it only declares
  Objs,       \* shared base objects (SVF NodeIDs)
  Programs    \* the modules considered: records [direct, calls]

ASSUME FnsAssumption == Fns \subseteq Nat /\ IsFiniteSet(Fns)
ASSUME DeclsAssumption == Decls \cap Fns = {}
ASSUME ProgramsAssumption ==
  Programs \subseteq [direct : [Fns -> SUBSET Objs],
                      calls  : [Fns -> SUBSET (Fns \cup Decls)]]

VARIABLES
  prog,       \* the module under analysis; no step changes it
  phase,      \* "scan", "propagate" or "match"
  toScan,     \* defined functions the scan has not visited
  footprint,  \* footprint[f]: objects known to be touched by f or its callees
  calleeMap,  \* in-module direct callees
  callerMap,  \* in-module direct callers
  worklist    \* a vector used as a stack: back = last element

vars == <<prog, phase, toScan, footprint, calleeMap, callerMap, worklist>>

----------------------------------------------------------------------------
(* The enumerations of a set of functions in name order; there is one.      *)
InNameOrder(S) ==
  {q \in [1..Cardinality(S) -> S] :
     /\ \A f \in S : \E i \in DOMAIN q : q[i] = f
     /\ \A i, j \in DOMAIN q : i < j => q[i] < q[j]}

Init ==
  /\ prog \in Programs
  /\ phase = "scan"
  /\ toScan = Fns
  /\ footprint = [f \in Fns |-> {}]
  /\ calleeMap = [f \in Fns |-> {}]
  /\ callerMap = [f \in Fns |-> {}]
  /\ worklist = <<>>

(* One iteration of the loop over the module's functions.  Calls to         *)
(* declarations are not recorded.                                           *)
Scan(f) ==
  /\ phase = "scan"
  /\ f \in toScan
  /\ toScan' = toScan \ {f}
  /\ footprint' = [footprint EXCEPT ![f] = @ \cup prog.direct[f]]
  /\ calleeMap' = [calleeMap EXCEPT ![f] = prog.calls[f] \cap Fns]
  /\ callerMap' = [c \in Fns |->
       IF c \in prog.calls[f] THEN callerMap[c] \cup {f} ELSE callerMap[c]]
  /\ UNCHANGED <<prog, phase, worklist>>

(* Every function with a footprint entry, i.e. every defined one, is pushed *)
(* in name order.                                                           *)
FillWorklist ==
  /\ phase = "scan"
  /\ toScan = {}
  /\ phase' = "propagate"
  /\ worklist' \in InNameOrder(Fns)
  /\ UNCHANGED <<prog, toScan, footprint, calleeMap, callerMap>>

Back == worklist[Len(worklist)]
Popped == SubSeq(worklist, 1, Len(worklist) - 1)

(* footprint[f] after absorbing the footprints of f's callees.              *)
Absorbed_OwnLost(f) == UNION {footprint[c] : c \in calleeMap[f]} \* mutant
Absorbed(f) == footprint[f] \cup UNION {footprint[c] : c \in calleeMap[f]}

(* Did the absorption add anything?                                         *)
Changed == Absorbed(Back) # footprint[Back]

(* The functions whose footprint may be out of date after it: all direct    *)
(* callers, whether or not they are still queued.                           *)
OutOfDate_None == {}                                            \* mutant
OutOfDate == callerMap[Back]

(* One iteration of the worklist loop whose absorption adds something.      *)
Absorb ==
  /\ phase = "propagate"
  /\ worklist # <<>>
  /\ Changed
  /\ footprint' = [footprint EXCEPT ![Back] = Absorbed(Back)]
  /\ \E pushed \in InNameOrder(OutOfDate) : worklist' = Popped \o pushed
  /\ UNCHANGED <<prog, phase, toScan, calleeMap, callerMap>>

(* One iteration that adds nothing: f only leaves the worklist.             *)
Discard ==
  /\ phase = "propagate"
  /\ worklist # <<>>
  /\ ~Changed
  /\ worklist' = Popped
  /\ UNCHANGED <<prog, phase, toScan, footprint, calleeMap, callerMap>>

(* The loop ends when the worklist is empty and matching starts.            *)
StartMatching ==
  /\ phase = "propagate"
  /\ worklist = <<>>
  /\ phase' = "match"
  /\ UNCHANGED <<prog, toScan, footprint, calleeMap, callerMap, worklist>>

Next ==
  \/ \E f \in Fns : Scan(f)
  \/ FillWorklist
  \/ Absorb
  \/ Discard
  \/ StartMatching

(* The pass is a single thread that runs until the loop ends.               *)
Spec == Init /\ [][Next]_vars /\ WF_vars(Next)

============================================================================

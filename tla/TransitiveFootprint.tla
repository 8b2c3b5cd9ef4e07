------------------------- MODULE TransitiveFootprint -------------------------
(****************************************************************************)
(* What partner matching needs from the footprint computation: for a module *)
(* given once and for all, the objects every function can touch through     *)
(* direct in-module calls, made available in a single step.                 *)
(****************************************************************************)
EXTENDS FiniteSets

CONSTANTS Fns, Decls, Objs, Programs
VARIABLES prog, result, ready

vars == <<prog, result, ready>>

Reachable(f) ==
  {g \in Fns :
     \A S \in SUBSET Fns :
       f \in S /\ (\A h \in S : prog.calls[h] \cap Fns \subseteq S) => g \in S}

(* Every object f can touch, itself or through calls.                       *)
Full(f) == UNION {prog.direct[g] : g \in Reachable(f)}

Init ==
  /\ prog \in Programs
  /\ result = [f \in Fns |-> {}]
  /\ ready = FALSE

Publish ==
  /\ ~ready
  /\ ready' = TRUE
  /\ result' = [f \in Fns |-> Full(f)]
  /\ UNCHANGED prog

Spec == Init /\ [][Publish]_vars /\ WF_vars(Publish)

============================================================================

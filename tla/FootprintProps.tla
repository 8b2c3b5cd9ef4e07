--------------------------- MODULE FootprintProps ----------------------------
(****************************************************************************)
(* What the footprint computation must guarantee, and the invariant that    *)
(* makes it do so.                                                          *)
(****************************************************************************)
EXTENDS Footprint

(* The functions f may execute by direct in-module calls, f included: the   *)
(* members of every set that holds f and is closed under the call relation. *)
ClosedUnderCalls(S) == \A g \in S : prog.calls[g] \cap Fns \subseteq S
Reach(f) ==
  {g \in Fns : \A S \in SUBSET Fns : f \in S /\ ClosedUnderCalls(S) => g \in S}

(* The footprint partner matching is meant to see.                          *)
FullFootprint(f) == UNION {prog.direct[g] : g \in Reach(f)}

(* Types of the variables; callerMap is the converse of calleeMap.          *)
TypeOK ==
  /\ prog \in Programs
  /\ phase \in {"scan", "propagate", "match"}
  /\ toScan \in SUBSET Fns
  /\ footprint \in [Fns -> SUBSET Objs]
  /\ calleeMap \in [Fns -> SUBSET Fns]
  /\ callerMap \in [Fns -> SUBSET Fns]
  /\ worklist \in Seq(Fns)

Queued(f) == \E i \in 1..Len(worklist) : worklist[i] = f

(* A function that is not waiting in the worklist has already absorbed all  *)
(* that its callees know: the re-push of callers in Absorb misses nobody.   *)
NoLostUpdate ==
  phase # "scan" =>
    \A f \in Fns : \A c \in prog.calls[f] \cap Fns :
      Queued(f) \/ footprint[c] \subseteq footprint[f]

(* No function is charged with an object that nothing it can call touches:  *)
(* a footprint never makes a partner out of an unrelated function.          *)
NoInventedAccess == \A f \in Fns : footprint[f] \subseteq FullFootprint(f)

(* When matching starts every footprint is complete: an access hidden in a  *)
(* chain of static helpers, recursive ones included, is seen.               *)
CompleteWhenMatching ==
  phase = "match" => \A f \in Fns : footprint[f] = FullFootprint(f)

(* The call relation recorded by the scan is the program's.                 *)
CallRelation ==
  \A f \in Fns \ toScan :
    /\ calleeMap[f] = prog.calls[f] \cap Fns
    /\ prog.direct[f] \subseteq footprint[f]
    /\ \A c \in prog.calls[f] \cap Fns : f \in callerMap[c]

(* The inductive invariant of the computation.                              *)
IInv ==
  /\ TypeOK
  /\ CallRelation
  /\ (phase # "scan" => toScan = {})
  /\ (phase = "match" => worklist = <<>>)
  /\ NoLostUpdate
  /\ NoInventedAccess

(* The abstract computation: the footprints appear all at once.             *)
Abstract == INSTANCE TransitiveFootprint
              WITH result <- IF phase = "match" THEN footprint
                             ELSE [f \in Fns |-> {}],
                   ready <- (phase = "match")
ComputesClosure == Abstract!Spec

============================================================================

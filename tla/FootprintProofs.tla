-------------------------- MODULE FootprintProofs ----------------------------
(****************************************************************************)
(* Proofs about the footprint computation, for every call graph over a      *)
(* finite set of functions, recursive ones included.                        *)
(****************************************************************************)
EXTENDS FootprintProps, TLAPS, FiniteSetTheorems, SequenceTheorems

----------------------------------------------------------------------------
(* Reach(f) is closed under calls and grows along them.                     *)

(* A function reaches itself, and what a callee reaches its caller reaches. *)
LEMMA ReachFacts ==
  ASSUME NEW f \in Fns
  PROVE  /\ f \in Reach(f)
         /\ \A c \in prog.calls[f] \cap Fns : Reach(c) \subseteq Reach(f)
<1>1. f \in Reach(f)
  BY DEF Reach
<1>2. ASSUME NEW c \in prog.calls[f] \cap Fns, NEW g \in Reach(c)
      PROVE  g \in Reach(f)
  <2>1. ASSUME NEW S \in SUBSET Fns, f \in S, ClosedUnderCalls(S)
        PROVE  g \in S
    <3>1. c \in S
      BY <2>1 DEF ClosedUnderCalls
    <3>2. QED
      BY <1>2, <2>1, <3>1 DEF Reach
  <2>2. QED
    BY <1>2, <2>1 DEF Reach
<1>3. QED
  BY <1>1, <1>2

(* A function's own objects and its callees' full footprints are in its     *)
(* full footprint.                                                          *)
LEMMA FullFootprintFacts ==
  ASSUME NEW f \in Fns
  PROVE  /\ prog.direct[f] \subseteq FullFootprint(f)
         /\ \A c \in prog.calls[f] \cap Fns :
              FullFootprint(c) \subseteq FullFootprint(f)
  BY ReachFacts DEF FullFootprint

(* A map that contains every direct access and is closed under calls        *)
(* contains every full footprint: S below is closed, so Reach(f) is in it.  *)
LEMMA ClosedMapContainsFull ==
  ASSUME NEW fp,
         \A g \in Fns : prog.direct[g] \subseteq fp[g],
         \A g \in Fns : \A c \in prog.calls[g] \cap Fns : fp[c] \subseteq fp[g],
         NEW f \in Fns
  PROVE  FullFootprint(f) \subseteq fp[f]
<1> DEFINE S == {g \in Fns : fp[g] \subseteq fp[f]}
<1>1. f \in S /\ S \in SUBSET Fns
  OBVIOUS
<1>2. ClosedUnderCalls(S)
  <2>1. ASSUME NEW g \in S, NEW c \in prog.calls[g] \cap Fns
        PROVE  c \in S
    OBVIOUS
  <2>2. QED
    BY <2>1 DEF ClosedUnderCalls
<1>3. Reach(f) \subseteq S
  BY <1>1, <1>2 DEF Reach
<1>4. QED
  BY <1>3 DEF FullFootprint

----------------------------------------------------------------------------
(* Facts about the worklist.                                                *)

(* An enumeration of a set of functions is a sequence that misses none.     *)
LEMMA NameOrderIsSeq ==
  ASSUME NEW S \in SUBSET Fns, NEW q \in InNameOrder(S)
  PROVE  /\ q \in Seq(Fns)
         /\ \A f \in S : \E i \in 1..Len(q) : q[i] = f
<1>1. IsFiniteSet(S)
  BY FnsAssumption, FS_Subset
<1>2. Cardinality(S) \in Nat
  BY <1>1, FS_CardinalityType
<1>3. q \in [1..Cardinality(S) -> S]
  BY DEF InNameOrder
<1>4. q \in Seq(S) /\ Len(q) = Cardinality(S)
  BY <1>2, <1>3
<1>5. q \in Seq(Fns)
  BY <1>4
<1>6. DOMAIN q = 1..Len(q)
  BY <1>3, <1>4
<1>7. \A f \in S : \E i \in DOMAIN q : q[i] = f
  BY DEF InNameOrder
<1>8. QED
  BY <1>5, <1>6, <1>7

(* Popping removes the last element only.                                   *)
LEMMA PoppedFacts ==
  ASSUME worklist \in Seq(Fns), worklist # <<>>
  PROVE  /\ Back \in Fns
         /\ Popped \in Seq(Fns)
         /\ Len(Popped) = Len(worklist) - 1
         /\ \A i \in 1..Len(Popped) : Popped[i] = worklist[i]
         /\ \A f \in Fns : Queued(f) =>
              f = Back \/ \E i \in 1..Len(Popped) : Popped[i] = f
<1>1. Len(worklist) \in Nat /\ Len(worklist) > 0
  OBVIOUS
<1>2. /\ Popped \in Seq(Fns)
      /\ Len(Popped) = Len(worklist) - 1
      /\ \A i \in 1..Len(Popped) : Popped[i] = worklist[i]
  <2>1. \A i \in 1..(Len(worklist) - 1) : worklist[i] \in Fns
    BY <1>1
  <2>2. Len(worklist) - 1 \in Int /\ 1 \in Int
    BY <1>1
  <2>3. /\ Popped \in Seq(Fns)
        /\ Len(Popped) = IF 1 <= Len(worklist) - 1
                         THEN Len(worklist) - 1 - 1 + 1 ELSE 0
        /\ \A i \in 1..(Len(worklist) - 1 - 1 + 1) :
             Popped[i] = worklist[1 + i - 1]
    BY <2>1, <2>2, SubSeqProperties DEF Popped
  <2>4. Len(Popped) = Len(worklist) - 1
    <3> DEFINE n == Len(worklist)
               m == Len(Popped)
    <3>1. n \in Nat /\ n > 0 /\ m = IF 1 <= n - 1 THEN n - 1 - 1 + 1 ELSE 0
      BY <1>1, <2>3
    <3> HIDE DEF n, m
    <3>2. m = n - 1
      BY <3>1
    <3>3. QED
      BY <3>2 DEF n, m
  <2>5. \A i \in 1..(Len(worklist) - 1) : Popped[i] = worklist[i]
    <3> SUFFICES ASSUME NEW i \in 1..(Len(worklist) - 1)
                 PROVE  Popped[i] = worklist[i]
      OBVIOUS
    <3>1. 1 + i - 1 = i /\ i \in 1..(Len(worklist) - 1 - 1 + 1)
      BY <1>1
    <3>2. QED
      BY <2>3, <3>1
  <2>6. QED
    BY <2>3, <2>4, <2>5
<1>3. Back \in Fns
  BY <1>1 DEF Back
<1>4. ASSUME NEW f \in Fns, Queued(f), f # Back
      PROVE  \E i \in 1..Len(Popped) : Popped[i] = f
  <2>1. PICK i \in 1..Len(worklist) : worklist[i] = f
    BY <1>4 DEF Queued
  <2>2. i # Len(worklist)
    BY <1>4, <2>1 DEF Back
  <2>3. i \in 1..Len(Popped)
    BY <1>1, <1>2, <2>1, <2>2
  <2>4. QED
    BY <1>2, <2>1, <2>3
<1>5. QED
  BY <1>2, <1>3, <1>4

----------------------------------------------------------------------------
(* The invariant.                                                           *)

LEMMA ProgTypes ==
  ASSUME prog \in Programs
  PROVE  /\ \A f \in Fns : prog.direct[f] \subseteq Objs
         /\ \A f \in Fns : prog.calls[f] \cap Fns \in SUBSET Fns
<1>1. prog \in [direct : [Fns -> SUBSET Objs],
               calls  : [Fns -> SUBSET (Fns \cup Decls)]]
  BY ProgramsAssumption
<1>2. QED
  BY <1>1

LEMMA InitIInv == Init => IInv
<1> SUFFICES ASSUME Init PROVE IInv
  OBVIOUS
<1>1. TypeOK
  BY DEF Init, TypeOK
<1>2. CallRelation
  BY DEF Init, CallRelation
<1>3. NoInventedAccess
  BY DEF Init, NoInventedAccess
<1>4. QED
  BY <1>1, <1>2, <1>3 DEF Init, IInv, NoLostUpdate

LEMMA ScanPreserves ==
  ASSUME IInv, NEW f \in Fns, Scan(f)
  PROVE  IInv'
<1> USE DEF IInv
<1>1. prog.direct[f] \subseteq Objs /\ prog.calls[f] \cap Fns \in SUBSET Fns
  BY ProgTypes DEF TypeOK
<1>2. TypeOK'
  BY <1>1 DEF Scan, TypeOK
<1>3. CallRelation'
  <2> SUFFICES ASSUME NEW g \in Fns \ toScan'
               PROVE  /\ calleeMap'[g] = prog'.calls[g] \cap Fns
                      /\ prog'.direct[g] \subseteq footprint'[g]
                      /\ \A c \in prog'.calls[g] \cap Fns : g \in callerMap'[c]
    BY DEF CallRelation
  <2>1. CASE g = f
    BY <2>1 DEF Scan, TypeOK
  <2>2. CASE g # f
    <3>1. g \in Fns \ toScan
      BY <2>2 DEF Scan, TypeOK
    <3>2. QED
      BY <2>2, <3>1 DEF Scan, TypeOK, CallRelation
  <2>3. QED
    BY <2>1, <2>2
<1>4. NoInventedAccess'
  <2> SUFFICES ASSUME NEW g \in Fns
               PROVE  footprint'[g] \subseteq FullFootprint(g)'
    BY DEF NoInventedAccess
  <2>1. FullFootprint(g)' = FullFootprint(g)
    BY DEF Scan, FullFootprint, Reach, ClosedUnderCalls
  <2>2. footprint'[g] \subseteq footprint[g] \cup prog.direct[g]
    BY DEF Scan, TypeOK
  <2>3. QED
    BY <2>1, <2>2, FullFootprintFacts DEF NoInventedAccess
<1>5. phase' = "scan"
  BY DEF Scan
<1>6. QED
  BY <1>2, <1>3, <1>4, <1>5 DEF NoLostUpdate

LEMMA FillPreserves ==
  ASSUME IInv, FillWorklist
  PROVE  IInv'
<1> USE DEF IInv
<1>1. /\ worklist' \in Seq(Fns)
      /\ \A f \in Fns : \E i \in 1..Len(worklist') : worklist'[i] = f
  BY NameOrderIsSeq DEF FillWorklist
<1>2. TypeOK'
  BY <1>1 DEF FillWorklist, TypeOK
<1>3. CallRelation'
  BY DEF FillWorklist, CallRelation
<1>4. NoInventedAccess'
  BY DEF FillWorklist, NoInventedAccess, FullFootprint, Reach, ClosedUnderCalls
<1>5. NoLostUpdate'
  BY <1>1 DEF NoLostUpdate, Queued
<1>6. phase' = "propagate" /\ toScan' = {}
  BY DEF FillWorklist
<1>7. QED
  BY <1>2, <1>3, <1>4, <1>5, <1>6

(* The step that absorbs: f = Back may now know more than before, so its    *)
(* callers may be out of date; all of them are in the part just pushed.     *)
LEMMA AbsorbPreserves ==
  ASSUME IInv, Absorb
  PROVE  IInv'
<1> USE DEF IInv
<1>0. worklist \in Seq(Fns) /\ worklist # <<>> /\ Back \in Fns
  BY PoppedFacts DEF Absorb, TypeOK
<1>1. PICK pushed \in InNameOrder(callerMap[Back]) : worklist' = Popped \o pushed
  BY DEF Absorb, OutOfDate
<1>2. /\ pushed \in Seq(Fns)
      /\ \A f \in callerMap[Back] : \E i \in 1..Len(pushed) : pushed[i] = f
  BY <1>0, NameOrderIsSeq DEF TypeOK
<1>3. /\ worklist' \in Seq(Fns)
      /\ Len(worklist') = Len(Popped) + Len(pushed)
      /\ \A i \in 1..(Len(Popped) + Len(pushed)) :
           worklist'[i] = IF i <= Len(Popped) THEN Popped[i]
                          ELSE pushed[i - Len(Popped)]
  BY <1>0, <1>1, <1>2, PoppedFacts, ConcatProperties
<1>4. \A f \in Fns : Queued(f) => f = Back \/ Queued(f)'
  <2> SUFFICES ASSUME NEW f \in Fns, Queued(f), f # Back
               PROVE  \E i \in 1..Len(worklist') : worklist'[i] = f
    BY DEF Queued
  <2>1. PICK i \in 1..Len(Popped) : Popped[i] = f
    BY <1>0, PoppedFacts
  <2>2. Len(Popped) \in Nat /\ Len(pushed) \in Nat
    BY <1>0, <1>2, PoppedFacts
  <2>3. i \in 1..Len(worklist') /\ worklist'[i] = f
    BY <1>3, <2>1, <2>2
  <2>4. QED
    BY <2>3
<1>5. \A f \in callerMap[Back] : Queued(f)'
  <2> SUFFICES ASSUME NEW f \in callerMap[Back]
               PROVE  \E i \in 1..Len(worklist') : worklist'[i] = f
    BY DEF Queued
  <2>1. PICK i \in 1..Len(pushed) : pushed[i] = f
    BY <1>2
  <2>2. Len(Popped) \in Nat /\ Len(pushed) \in Nat
    BY <1>0, <1>2, PoppedFacts
  <2>3. /\ Len(Popped) + i \in 1..(Len(Popped) + Len(pushed))
        /\ ~(Len(Popped) + i <= Len(Popped))
        /\ Len(Popped) + i - Len(Popped) = i
    BY <2>1, <2>2
  <2>4. /\ Len(Popped) + i \in 1..Len(worklist')
        /\ worklist'[Len(Popped) + i] = f
    BY <1>3, <2>1, <2>3
  <2>5. QED
    BY <2>4
<1>6. /\ footprint' = [footprint EXCEPT ![Back] = Absorbed(Back)]
      /\ phase = "propagate" /\ phase' = phase
      /\ prog' = prog /\ toScan' = toScan /\ toScan = {}
      /\ calleeMap' = calleeMap /\ callerMap' = callerMap
  BY DEF Absorb
<1>7. Absorbed(Back) \subseteq Objs
  BY <1>0 DEF Absorbed, TypeOK
<1>8. TypeOK'
  BY <1>0, <1>3, <1>6, <1>7 DEF TypeOK
<1>9. \A f \in Fns : footprint[f] \subseteq footprint'[f]
  BY <1>6 DEF Absorbed, TypeOK
<1>10. CallRelation'
  BY <1>6, <1>9 DEF CallRelation
<1>11. calleeMap[Back] = prog.calls[Back] \cap Fns
  BY <1>0, <1>6 DEF CallRelation
<1>12. NoInventedAccess'
  <2> SUFFICES ASSUME NEW g \in Fns
               PROVE  footprint'[g] \subseteq FullFootprint(g)'
    BY DEF NoInventedAccess
  <2>1. FullFootprint(g)' = FullFootprint(g)
    BY <1>6 DEF FullFootprint, Reach, ClosedUnderCalls
  <2>2. Absorbed(Back) \subseteq FullFootprint(Back)
    <3>1. \A c \in calleeMap[Back] : footprint[c] \subseteq FullFootprint(Back)
      BY <1>0, <1>11, FullFootprintFacts DEF NoInventedAccess
    <3>2. QED
      BY <1>0, <3>1 DEF Absorbed, NoInventedAccess
  <2>3. CASE g = Back
    BY <1>6, <2>1, <2>2, <2>3 DEF TypeOK
  <2>4. CASE g # Back
    BY <1>6, <2>1, <2>4 DEF TypeOK, NoInventedAccess
  <2>5. QED
    BY <2>3, <2>4
<1>13. NoLostUpdate'
  <2> SUFFICES ASSUME NEW f \in Fns, NEW c \in prog.calls[f] \cap Fns, ~Queued(f)'
               PROVE  footprint'[c] \subseteq footprint'[f]
    BY <1>6 DEF NoLostUpdate
  <2>1. CASE c = Back
    <3>1. f \in callerMap[Back]
      BY <1>6, <2>1 DEF CallRelation
    <3>2. QED
      BY <1>5, <3>1
  <2>2. CASE c # Back /\ f = Back
    BY <1>0, <1>6, <1>11, <2>2 DEF Absorbed, TypeOK
  <2>3. CASE c # Back /\ f # Back
    <3>1. ~Queued(f)
      BY <1>4, <2>3
    <3>2. footprint[c] \subseteq footprint[f]
      BY <1>6, <3>1 DEF NoLostUpdate
    <3>3. QED
      BY <1>6, <2>3, <3>2 DEF TypeOK
  <2>4. QED
    BY <2>1, <2>2, <2>3
<1>14. QED
  BY <1>6, <1>8, <1>10, <1>12, <1>13

LEMMA DiscardPreserves ==
  ASSUME IInv, Discard
  PROVE  IInv'
<1> USE DEF IInv
<1>0. worklist \in Seq(Fns) /\ worklist # <<>> /\ Back \in Fns
  BY PoppedFacts DEF Discard, TypeOK
<1>1. /\ phase = "propagate" /\ worklist' = Popped
      /\ Absorbed(Back) = footprint[Back]
      /\ prog' = prog /\ phase' = phase /\ toScan' = toScan
      /\ footprint' = footprint /\ calleeMap' = calleeMap /\ callerMap' = callerMap
  BY DEF Discard, Changed
<1>2. TypeOK'
  BY <1>0, <1>1, PoppedFacts DEF TypeOK
<1>3. CallRelation'
  BY <1>1 DEF CallRelation
<1>4. NoInventedAccess'
  BY <1>1 DEF NoInventedAccess, FullFootprint, Reach, ClosedUnderCalls
<1>5. \A f \in Fns : Queued(f) => f = Back \/ Queued(f)'
  BY <1>0, <1>1, PoppedFacts DEF Queued
<1>6. \A c \in prog.calls[Back] \cap Fns : footprint[c] \subseteq footprint[Back]
  <2>1. calleeMap[Back] = prog.calls[Back] \cap Fns
    BY <1>0, <1>1 DEF CallRelation
  <2>2. QED
    BY <1>1, <2>1 DEF Absorbed
<1>7. NoLostUpdate'
  BY <1>1, <1>5, <1>6 DEF NoLostUpdate
<1>8. QED
  BY <1>1, <1>2, <1>3, <1>4, <1>7

LEMMA StartPreserves ==
  ASSUME IInv, StartMatching
  PROVE  IInv'
<1> USE DEF IInv
<1>1. /\ phase = "propagate" /\ phase' = "match" /\ worklist = <<>>
      /\ prog' = prog /\ toScan' = toScan /\ footprint' = footprint
      /\ calleeMap' = calleeMap /\ callerMap' = callerMap /\ worklist' = worklist
  BY DEF StartMatching
<1>2. TypeOK'
  BY <1>1 DEF TypeOK
<1>3. CallRelation'
  BY <1>1 DEF CallRelation
<1>4. NoInventedAccess'
  BY <1>1 DEF NoInventedAccess, FullFootprint, Reach, ClosedUnderCalls
<1>5. NoLostUpdate'
  BY <1>1 DEF NoLostUpdate, Queued
<1>6. QED
  BY <1>1, <1>2, <1>3, <1>4, <1>5

LEMMA StutterPreserves == IInv /\ UNCHANGED vars => IInv'
  BY DEF IInv, TypeOK, CallRelation, NoLostUpdate, NoInventedAccess, Queued,
         FullFootprint, Reach, ClosedUnderCalls, vars

(* IInv is inductive: one step for every action of the pass.                *)
LEMMA IInvInductive == IInv /\ [Next]_vars => IInv'
<1> SUFFICES ASSUME IInv, [Next]_vars PROVE IInv'
  OBVIOUS
<1>1. CASE \E f \in Fns : Scan(f)
  BY <1>1, ScanPreserves
<1>2. CASE FillWorklist
  BY <1>2, FillPreserves
<1>3. CASE Absorb
  BY <1>3, AbsorbPreserves
<1>4. CASE Discard
  BY <1>4, DiscardPreserves
<1>5. CASE StartMatching
  BY <1>5, StartPreserves
<1>6. CASE UNCHANGED vars
  BY <1>6, StutterPreserves
<1>7. QED
  BY <1>1, <1>2, <1>3, <1>4, <1>5, <1>6 DEF Next

(* The invariant of the footprint computation holds throughout: types, the  *)
(* recorded call relation, no lost update and no invented access.           *)
THEOREM FootprintInvariant == Spec => []IInv
  BY InitIInv, IInvInductive, PTL DEF Spec

(* With the worklist empty the invariant makes footprint a closed map, so   *)
(* it contains every full footprint; it never holds more.                   *)
LEMMA IInvComplete == IInv => CompleteWhenMatching
<1> SUFFICES ASSUME IInv, phase = "match", NEW f \in Fns
             PROVE  footprint[f] = FullFootprint(f)
  BY DEF CompleteWhenMatching
<1>1. \A g \in Fns : prog.direct[g] \subseteq footprint[g]
  BY DEF IInv, CallRelation
<1>2. \A g \in Fns : \A c \in prog.calls[g] \cap Fns : footprint[c] \subseteq footprint[g]
  BY DEF IInv, NoLostUpdate, Queued
<1>3. FullFootprint(f) \subseteq footprint[f]
  BY <1>1, <1>2, ClosedMapContainsFull
<1>4. footprint[f] \subseteq FullFootprint(f)
  BY DEF IInv, NoInventedAccess
<1>5. QED
  BY <1>3, <1>4

(* When partner matching starts, the footprint of every function is exactly *)
(* what it can touch through direct in-module calls.                        *)
THEOREM FootprintComplete == Spec => []CompleteWhenMatching
  BY FootprintInvariant, IInvComplete, PTL

(* The worklist algorithm refines the one-step computation of the closure   *)
(* (its safety part; termination is checked by TLC).                        *)
THEOREM FootprintRefines == Spec => Abstract!Init /\ [][Abstract!Publish]_(Abstract!vars)
<1>1. Init => Abstract!Init
  BY DEF Init, Abstract!Init
<1>2. IInv' => CompleteWhenMatching'
  BY IInvComplete, PTL
<1>3. IInv /\ IInv' /\ [Next]_vars => [Abstract!Publish]_(Abstract!vars)
  <2> SUFFICES ASSUME IInv, IInv', [Next]_vars
               PROVE  Abstract!Publish \/ UNCHANGED Abstract!vars
    OBVIOUS
  <2>1. CASE StartMatching
    <3>1. \A f \in Fns : footprint[f] = FullFootprint(f)
      <4>1. CompleteWhenMatching'
        BY <1>2
      <4>2. QED
        BY <2>1, <4>1 DEF StartMatching, CompleteWhenMatching, FullFootprint, Reach, ClosedUnderCalls
    <3>2. \A f \in Fns : FullFootprint(f) = Abstract!Full(f)
      BY DEF FullFootprint, Reach, ClosedUnderCalls, Abstract!Reachable, Abstract!Full
    <3>3. footprint = [f \in Fns |-> Abstract!Full(f)]
      BY <3>1, <3>2 DEF IInv, TypeOK
    <3>4. QED
      BY <2>1, <3>3 DEF StartMatching, Abstract!Publish
  <2>2. CASE (\E f \in Fns : Scan(f)) \/ FillWorklist \/ Absorb \/ Discard
    BY <2>2 DEF Scan, FillWorklist, Absorb, Discard, Abstract!vars
  <2>3. CASE UNCHANGED vars
    BY <2>3 DEF vars, Abstract!vars
  <2>4. QED
    BY <2>1, <2>2, <2>3 DEF Next
<1>4. QED
  BY <1>1, <1>3, FootprintInvariant, PTL DEF Spec

============================================================================

------------------------- MODULE LockPropagationProofs -------------------------
(****************************************************************************)
(* For every module, of any size: the loop keeps IInv, and IInv makes every *)
(* inherited lock one the function is always entered with, provided that    *)
(* the module is disciplined.                                               *)
(****************************************************************************)
EXTENDS LockPropagation, TLAPS

(* The analysis starts from the locks the bodies acquire themselves.        *)
LEMMA InitIInv == Init => IInv
<1>1. SUFFICES ASSUME Init PROVE IInv
  OBVIOUS
<1>2. prog \in Programs /\ fn = 1 /\ changed = FALSE /\ phase = "propagate" /\ lockSets = prog.own
  BY <1>1 DEF Init
<1>3. prog.own \in [Fns -> SUBSET Locks]
  BY <1>2, ProgramsAssumption
<1>4. fn \in 1..(NumFns + 1)
  BY <1>2, NumFnsAssumption
<1>5. TypeOK
  BY <1>2, <1>3, <1>4 DEF TypeOK
<1>6. Justified /\ OwnKept
  BY <1>2, <1>3 DEF Justified, OwnKept
<1>7. Settled
  BY <1>2 DEF Settled, Fns
<1>8. AtEnd
  BY <1>2 DEF AtEnd
<1>9. QED BY <1>5, <1>6, <1>7, <1>8 DEF IInv

(* A visit keeps the invariant.  The function that inherits a lock is none  *)
(* of its own callers, as it does not hold the lock; so all callers still   *)
(* hold it afterwards.                                                      *)
LEMMA VisitIInv == IInv /\ VisitFunction => IInv'
<1> SUFFICES ASSUME IInv, VisitFunction PROVE IInv'
  OBVIOUS
<1> DEFINE new == Inherited(fn)
<1>1. /\ prog' = prog /\ phase' = phase /\ phase = "propagate" /\ fn \in Fns /\ fn' = fn + 1
      /\ lockSets' = [lockSets EXCEPT ![fn] = @ \cup new]
      /\ changed' = (changed \/ new # {})
  BY DEF VisitFunction
<1>2. TypeOK /\ Justified /\ OwnKept /\ Settled
  BY DEF IInv
<1>3. lockSets \in [Fns -> SUBSET Locks] /\ prog \in Programs
  BY <1>2 DEF TypeOK
<1>4. new \subseteq Locks /\ new \cap lockSets[fn] = {}
  BY DEF Inherited, Common
<1>5. /\ lockSets' \in [Fns -> SUBSET Locks]
      /\ lockSets'[fn] = lockSets[fn] \cup new
      /\ \A g \in Fns \ {fn} : lockSets'[g] = lockSets[g]
  BY <1>1, <1>3, <1>4
<1>6. \A g \in Fns : lockSets[g] \subseteq lockSets'[g]
  BY <1>5
<1>7. \A f \in Fns : Callers(f)' = Callers(f) /\ (Propagatable(f)' <=> Propagatable(f)) /\ Callers(f) \subseteq Fns
  BY <1>1 DEF Callers, Propagatable
<1>8. TypeOK'
  <2>1. changed' \in BOOLEAN
    BY <1>1, <1>2 DEF TypeOK
  <2>2. fn' \in 1..(NumFns + 1)
    BY <1>1, NumFnsAssumption DEF Fns
  <2>3. QED BY <1>1, <1>2, <1>5, <2>1, <2>2 DEF TypeOK
<1>9. Justified'
  <2>1. SUFFICES ASSUME NEW f \in Fns, NEW l \in lockSets'[f] \ prog.own[f]
                 PROVE  Propagatable(f) /\ \A g \in Callers(f) : l \in lockSets'[g]
    BY <1>1, <1>7 DEF Justified
  <2>2. CASE l \in lockSets[f]
    BY <2>2, <1>2, <1>6, <1>7 DEF Justified
  <2>3. CASE l \notin lockSets[f]
    <3>1. f = fn /\ l \in new
      BY <2>3, <1>5
    <3>2. Propagatable(f) /\ l \in Common(f)
      BY <3>1 DEF Inherited
    <3>3. \A g \in Callers(f) : l \in lockSets[g]
      BY <3>2 DEF Common
    <3>4. QED BY <3>2, <3>3, <1>6, <1>7
  <2>4. QED BY <2>2, <2>3
<1>10. OwnKept'
  BY <1>1, <1>2, <1>6 DEF OwnKept
<1>11. Settled'
  <2>1. SUFFICES ASSUME ~changed', NEW f \in Fns, f < fn' PROVE Inherited(f)' = {}
    BY DEF Settled
  <2>2. ~changed /\ new = {}
    BY <2>1, <1>1
  <2>3. lockSets' = lockSets
    BY <2>2, <1>1, <1>3
  <2>4. Inherited(f)' = Inherited(f)
    BY <2>3, <1>1 DEF Inherited, Propagatable, Common, Callers
  <2>5. f < fn \/ f = fn
    BY <2>1, <1>1 DEF Fns
  <2>6. QED BY <2>2, <2>4, <2>5, <1>2 DEF Settled
<1>12. AtEnd'
  BY <1>1 DEF AtEnd
<1>13. QED BY <1>8, <1>9, <1>10, <1>11, <1>12 DEF IInv

(* Starting another pass and returning leave the locks alone.               *)
LEMMA OtherStepsIInv == IInv /\ (NextPass \/ Return) => IInv'
<1> SUFFICES ASSUME IInv, NextPass \/ Return PROVE IInv'
  OBVIOUS
<1>1. prog' = prog /\ lockSets' = lockSets
  BY DEF NextPass, Return
<1>2. Justified' /\ OwnKept'
  BY <1>1 DEF IInv, Justified, OwnKept, Propagatable, Callers
<1>3. \A f \in Fns : Inherited(f)' = Inherited(f)
  BY <1>1 DEF Inherited, Propagatable, Common, Callers
<1>4. CASE NextPass
  <2>1. fn' = 1 /\ changed' = FALSE /\ phase' = "propagate"
    BY <1>4 DEF NextPass
  <2>2. fn' \in 1..(NumFns + 1)
    BY <2>1, NumFnsAssumption
  <2>3. TypeOK'
    BY <1>1, <2>1, <2>2 DEF IInv, TypeOK
  <2>4. Settled'
    BY <2>1 DEF Settled, Fns
  <2>5. AtEnd'
    BY <2>1 DEF AtEnd
  <2>6. QED BY <1>2, <2>3, <2>4, <2>5 DEF IInv
<1>5. CASE Return
  <2>1. fn' = fn /\ changed' = changed /\ phase' = "done" /\ fn \notin Fns /\ ~changed
    BY <1>5 DEF Return, Again
  <2>2. TypeOK'
    BY <1>1, <2>1 DEF IInv, TypeOK
  <2>3. Settled'
    BY <1>3, <2>1 DEF IInv, Settled
  <2>4. AtEnd'
    BY <2>1 DEF AtEnd
  <2>5. QED BY <1>2, <2>2, <2>3, <2>4 DEF IInv
<1>6. QED BY <1>4, <1>5

(* In every reachable state every inherited lock is justified by the locks  *)
(* of all direct callers, and what was visited in a quiet pass is settled.  *)
THEOREM LockInvariant == Spec => []IInv
<1>1. IInv /\ [Next]_vars => IInv'
  <2>1. SUFFICES ASSUME IInv, [Next]_vars PROVE IInv'
    OBVIOUS
  <2>2. CASE VisitFunction
    BY <2>1, <2>2, VisitIInv
  <2>3. CASE NextPass \/ Return
    BY <2>1, <2>3, OtherStepsIInv
  <2>4. CASE UNCHANGED vars
    BY <2>1, <2>4 DEF vars, IInv, TypeOK, Justified, OwnKept, Settled, AtEnd,
                      Inherited, Propagatable, Common, Callers
  <2>5. QED BY <2>1, <2>2, <2>3, <2>4 DEF Next
<1>2. QED BY <1>1, InitIInv, PTL DEF Spec

(* An inherited lock is held whenever the function is entered: the          *)
(* functions that do not inherit it contain the entry points and are closed *)
(* under calls made without it.                                             *)
THEOREM LocksAreHeld == Spec => []InheritedIsHeld
<1>1. IInv => InheritedIsHeld
  <2>1. SUFFICES ASSUME IInv, Disciplined, NEW f \in Fns, NEW l \in lockSets[f] \ prog.own[f]
                 PROVE  f \notin NotHeld(l)
    BY DEF InheritedIsHeld, AlwaysUnder
  <2> DEFINE S == {g \in Fns : l \notin lockSets[g] \/ l \in prog.own[g]}
  <2>2. Justified /\ OwnKept /\ prog \in Programs
    BY <2>1 DEF IInv, TypeOK
  <2>3. \A g \in Fns : g \notin prog.internal \/ g \in prog.taken => g \in S
    <3>1. SUFFICES ASSUME NEW g \in Fns, g \notin prog.internal \/ g \in prog.taken, g \notin S PROVE FALSE
      OBVIOUS
    <3>2. g \notin prog.internal
      BY <2>1, <3>1 DEF Disciplined
    <3>3. l \in lockSets[g] \ prog.own[g]
      BY <3>1
    <3>4. QED BY <3>2, <3>3, <2>2 DEF Justified, Propagatable
  <2>4. \A g \in S : \A c \in prog.sites[g] : l \notin c.held => c.callee \in S
    <3>1. SUFFICES ASSUME NEW g \in S, NEW c \in prog.sites[g], l \notin c.held, c.callee \notin S PROVE FALSE
      OBVIOUS
    <3>2. l \notin prog.own[g]
      BY <2>1, <3>1 DEF Disciplined
    <3>3. l \notin lockSets[g]
      BY <3>2
    <3>4. c.callee \in Fns
      BY <2>2, ProgramsAssumption DEF Sites
    <3>5. l \in lockSets[c.callee] \ prog.own[c.callee]
      BY <3>1, <3>4
    <3>6. g \in Callers(c.callee)
      BY DEF Callers
    <3>7. QED BY <3>3, <3>4, <3>5, <3>6, <2>2 DEF Justified
  <2>5. Entered(l, S) /\ S \in SUBSET Fns /\ f \notin S
    BY <2>3, <2>4 DEF Entered
  <2>6. QED BY <2>5 DEF NotHeld
<1>2. QED BY <1>1, LockInvariant, PTL

(* The sets that are used are a fixpoint.                                   *)
THEOREM LocksComplete == Spec => []NothingLeft
<1>1. IInv => NothingLeft
  <2>1. SUFFICES ASSUME IInv, phase = "done", NEW f \in Fns PROVE Inherited(f) = {}
    BY DEF NothingLeft
  <2>2. ~changed /\ fn \notin Fns /\ fn \in 1..(NumFns + 1)
    BY <2>1 DEF IInv, AtEnd, TypeOK
  <2>3. f < fn
    BY <2>2, NumFnsAssumption DEF Fns
  <2>4. QED BY <2>1, <2>2, <2>3 DEF IInv, Settled
<1>2. QED BY <1>1, LockInvariant, PTL

============================================================================

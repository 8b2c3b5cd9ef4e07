---------------------------- MODULE LifecycleProofs ----------------------------
(****************************************************************************)
(* Proofs about the lifecycle classification, for every call graph and      *)
(* every choice of seeds and callbacks.                                     *)
(****************************************************************************)
EXTENDS LifecycleProps, FiniteSetTheorems, WellFoundedInduction, TLAPS

----------------------------------------------------------------------------
(* The smallest closed class of a seed.                                     *)

(* It contains the seed, is closed, and is contained in every closed class  *)
(* with the seed.                                                           *)
LEMMA ClassFacts ==
  ASSUME NEW seed \in SUBSET Fns
  PROVE  /\ seed \subseteq ClassOf(seed)
         /\ ClassOf(seed) \subseteq Fns
         /\ ClosedClass(ClassOf(seed))
         /\ \A S \in SUBSET Fns : seed \subseteq S /\ ClosedClass(S) => ClassOf(seed) \subseteq S
<1>1. seed \subseteq ClassOf(seed) /\ ClassOf(seed) \subseteq Fns
  BY DEF ClassOf
<1>2. \A S \in SUBSET Fns : seed \subseteq S /\ ClosedClass(S) => ClassOf(seed) \subseteq S
  BY DEF ClassOf
<1>3. ClosedClass(ClassOf(seed))
  <2>1. ASSUME NEW f \in Fns, Callers(f) # {}, Callers(f) \subseteq ClassOf(seed),
               NEW S \in SUBSET Fns, seed \subseteq S, ClosedClass(S)
        PROVE  f \in S
    <3>1. Callers(f) \subseteq S
      BY <1>2, <2>1
    <3>2. QED
      BY <2>1, <3>1 DEF ClosedClass
  <2>2. QED
    BY <2>1 DEF ClosedClass, ClassOf
<1>4. QED
  BY <1>1, <1>2, <1>3

(* A member that is not a seed is internal, has a caller, and all its       *)
(* callers are members: otherwise the class without it would be closed.     *)
LEMMA MembersAreCalledFromTheClass ==
  ASSUME NEW seed \in SUBSET Fns, NEW h \in ClassOf(seed) \ seed
  PROVE  /\ h \in prog.internal
         /\ Callers(h) # {}
         /\ Callers(h) \subseteq ClassOf(seed)
<1> DEFINE S == ClassOf(seed) \ {h}
<1>1. S \in SUBSET Fns /\ seed \subseteq S
  BY ClassFacts
<1>2. Callers(h) # {} /\ Callers(h) \subseteq ClassOf(seed)
  <2>1. CASE ClosedClass(S)
    <3>1. ClassOf(seed) \subseteq S
      BY <1>1, <2>1, ClassFacts
    <3>2. QED
      BY <3>1
  <2>2. CASE ~ClosedClass(S)
    <3>1. PICK f \in Fns : Callers(f) # {} /\ Callers(f) \subseteq S /\ f \notin S
      BY <2>2 DEF ClosedClass
    <3>2. f \in ClassOf(seed)
      BY <3>1, ClassFacts DEF ClosedClass
    <3>3. f = h
      BY <3>1, <3>2
    <3>4. QED
      BY <3>1, <3>3
  <2>3. QED
    BY <2>1, <2>2
<1>3. h \in prog.internal
  BY <1>2 DEF Callers
<1>4. QED
  BY <1>2, <1>3

(* From outside the class no chain of calls that avoids the seeds leads in. *)
LEMMA ClassIsEnclosed ==
  ASSUME NEW seed \in SUBSET Fns, NEW f \in ClassOf(seed) \ seed
  PROVE  Avoiding(f, seed) \cap Entry(seed) = {}
<1>1. \A h \in ClassOf(seed) \ seed :
        {c \in Fns : h \in prog.calls[c]} \subseteq ClassOf(seed)
  BY MembersAreCalledFromTheClass DEF Callers
<1>2. ClassOf(seed) \in SUBSET Fns
  BY ClassFacts
<1>3. Avoiding(f, seed) \subseteq ClassOf(seed)
  BY <1>1, <1>2 DEF Avoiding
<1>4. ClassOf(seed) \cap Entry(seed) = {}
  BY MembersAreCalledFromTheClass DEF Entry
<1>5. QED
  BY <1>3, <1>4

----------------------------------------------------------------------------
(* The inductive invariant.                                                 *)

LEMMA ProgramSets ==
  ASSUME TypeOK
  PROVE  /\ prog.initSeed \in SUBSET Fns /\ prog.exitSeed \in SUBSET Fns
         /\ prog.calls \in [Fns -> SUBSET Fns]
         /\ prog.async \in SUBSET Fns
  BY ProgramsAssumption DEF TypeOK

LEMMA InitInv == Init => ClassInv
<1> SUFFICES ASSUME Init PROVE ClassInv
  OBVIOUS
<1>1. prog.initSeed \in SUBSET Fns /\ prog.exitSeed \in SUBSET Fns /\ prog.async \in SUBSET Fns
  BY ProgramsAssumption DEF Init
<1>2. TypeOK
  <2>1. pos \in 1..(NumFns + 1)
    BY NumFnsAssumption DEF Init
  <2>4. changed \in BOOLEAN
    BY DEF Init
  <2>2. {initOnly, exitOnly, moduleInitOnly, moduleExitOnly, irqReachable, worklist}
          \subseteq SUBSET Fns
    BY <1>1 DEF Init
  <2>3. QED
    BY <2>1, <2>2, <2>4 DEF Init, TypeOK
<1>3. TagsAreInClasses
  BY <1>1, ClassFacts DEF Init, TagsAreInClasses
<1>4. Propagating
  BY DEF Init, Propagating, ClosedUpTo, Fns
<1>5. QED
  BY <1>2, <1>3, <1>4 DEF Init, ClassInv, Stripped, ClassesAreLeast

(* A function that joins a subset of the class of a seed is in that class.  *)
LEMMA JoinStaysInClass ==
  ASSUME NEW seed \in SUBSET Fns, NEW S, S \subseteq ClassOf(seed),
         NEW f \in Fns, Joins(f, S)
  PROVE  f \in ClassOf(seed)
  BY ClassFacts DEF Joins, ClosedClass

LEMMA SameProgram ==
  ASSUME prog' = prog
  PROVE  /\ \A f : Callers(f)' = Callers(f)
         /\ \A S : ClassOf(S)' = ClassOf(S)
<1>1. \A f : Callers(f)' = Callers(f)
  BY DEF Callers
<1>2. QED
  BY <1>1 DEF ClassOf, ClosedClass

LEMMA VisitStep == ClassInv /\ Visit => ClassInv'
<1> SUFFICES ASSUME ClassInv, Visit PROVE ClassInv'
  OBVIOUS
<1>1. /\ prog' = prog /\ phase = "propagate" /\ phase' = phase
      /\ pos \in Fns /\ pos' = pos + 1
      /\ initOnly' = initOnly /\ exitOnly' = exitOnly
      /\ irqReachable' = irqReachable /\ worklist' = worklist
  BY DEF Visit
<1>2. /\ prog.initSeed \in SUBSET Fns /\ prog.exitSeed \in SUBSET Fns
      /\ moduleInitOnly \in SUBSET Fns /\ moduleExitOnly \in SUBSET Fns
  BY ProgramSets DEF ClassInv, TypeOK
<1>3. pos' \in 1..(NumFns + 1) /\ changed' \in BOOLEAN
  BY <1>1, NumFnsAssumption DEF Fns, Visit
<1>4. moduleInitOnly' \in SUBSET Fns /\ moduleExitOnly' \in SUBSET Fns
  BY <1>1, <1>2 DEF Visit
<1>5. TypeOK'
  BY <1>1, <1>3, <1>4 DEF ClassInv, TypeOK
<1>6. TagsAreInClasses'
  <2>1. moduleInitOnly' \subseteq ClassOf(prog.initSeed)
    BY <1>1, <1>2, JoinStaysInClass DEF Visit, ClassInv, TagsAreInClasses
  <2>2. moduleExitOnly' \subseteq ClassOf(prog.exitSeed)
    BY <1>1, <1>2, JoinStaysInClass DEF Visit, ClassInv, TagsAreInClasses
  <2>3. QED
    BY <1>1, <2>1, <2>2, SameProgram DEF TagsAreInClasses
<1>7. Propagating'
  <2>1. prog.initSeed \subseteq moduleInitOnly' /\ prog.exitSeed \subseteq moduleExitOnly'
    BY <1>1 DEF Visit, ClassInv, Propagating
  <2>2. ASSUME ~changed'
        PROVE  ClosedUpTo(moduleInitOnly, pos + 1) /\ ClosedUpTo(moduleExitOnly, pos + 1)
    <3>1. ~changed /\ ~Joins(pos, moduleInitOnly) /\ ~Joins(pos, moduleExitOnly)
      BY <2>2 DEF Visit
    <3>2. ClosedUpTo(moduleInitOnly, pos) /\ ClosedUpTo(moduleExitOnly, pos)
      BY <1>1, <3>1 DEF ClassInv, Propagating
    <3>3. \A f \in Fns : f < pos + 1 => f < pos \/ f = pos
      BY <1>1 DEF Fns
    <3>4. QED
      BY <3>1, <3>2, <3>3 DEF ClosedUpTo, Joins
  <2>3. ~changed' => moduleInitOnly' = moduleInitOnly /\ moduleExitOnly' = moduleExitOnly
    BY DEF Visit
  <2>4. QED
    BY <1>1, <2>1, <2>2, <2>3, SameProgram DEF Propagating, ClosedUpTo
<1>8. QED
  BY <1>1, <1>5, <1>6, <1>7 DEF ClassInv, Stripped, ClassesAreLeast

LEMMA NextPassStep == ClassInv /\ NextPass => ClassInv'
<1> SUFFICES ASSUME ClassInv, NextPass PROVE ClassInv'
  OBVIOUS
<1>1. /\ prog' = prog /\ phase = "propagate" /\ phase' = phase /\ pos' = 1
      /\ initOnly' = initOnly /\ exitOnly' = exitOnly
      /\ moduleInitOnly' = moduleInitOnly /\ moduleExitOnly' = moduleExitOnly
      /\ irqReachable' = irqReachable /\ worklist' = worklist /\ changed' = FALSE
  BY DEF NextPass
<1>2. TypeOK'
  <2>1. pos' \in 1..(NumFns + 1)
    BY <1>1, NumFnsAssumption
  <2>2. changed' \in BOOLEAN
    BY <1>1
  <2>3. QED
    BY <1>1, <2>1, <2>2 DEF ClassInv, TypeOK
<1>3. Propagating'
  BY <1>1 DEF ClassInv, Propagating, ClosedUpTo, Fns
<1>4. TagsAreInClasses'
  BY <1>1, SameProgram DEF ClassInv, TagsAreInClasses
<1>5. QED
  BY <1>1, <1>2, <1>3, <1>4 DEF ClassInv, Stripped, ClassesAreLeast

(* After a pass without a change both classes are closed, hence the         *)
(* smallest closed ones.                                                    *)
LEMMA DropAmbiguousStep == ClassInv /\ DropAmbiguous => ClassInv'
<1> SUFFICES ASSUME ClassInv, DropAmbiguous PROVE ClassInv'
  OBVIOUS
<1>1. /\ prog' = prog /\ phase = "propagate" /\ phase' = "strip" /\ pos' = pos
      /\ pos \notin Fns /\ ~changed /\ changed' = changed
      /\ initOnly' = initOnly /\ exitOnly' = exitOnly
      /\ moduleInitOnly' = moduleInitOnly \ moduleExitOnly
      /\ moduleExitOnly' = moduleExitOnly
      /\ irqReachable' = irqReachable /\ worklist' = worklist
  BY DEF DropAmbiguous, Again
<1>2. TypeOK'
  BY <1>1 DEF ClassInv, TypeOK
<1>3. TagsAreInClasses'
  BY <1>1, SameProgram DEF ClassInv, TagsAreInClasses
<1>4. ClosedClass(moduleInitOnly) /\ ClosedClass(moduleExitOnly)
  <2>1. \A f \in Fns : f < pos
    BY <1>1, NumFnsAssumption DEF ClassInv, TypeOK, Fns
  <2>2. ClosedUpTo(moduleInitOnly, pos) /\ ClosedUpTo(moduleExitOnly, pos)
    BY <1>1 DEF ClassInv, Propagating
  <2>3. QED
    BY <2>1, <2>2 DEF ClosedUpTo, ClosedClass
<1>5. moduleInitOnly = ClassOf(prog.initSeed) /\ moduleExitOnly = ClassOf(prog.exitSeed)
  <2>1. moduleInitOnly \in SUBSET Fns /\ moduleExitOnly \in SUBSET Fns
    BY DEF ClassInv, TypeOK
  <2>2. prog.initSeed \subseteq moduleInitOnly /\ prog.exitSeed \subseteq moduleExitOnly
    BY <1>1 DEF ClassInv, Propagating
  <2>3. ClassOf(prog.initSeed) \subseteq moduleInitOnly /\ ClassOf(prog.exitSeed) \subseteq moduleExitOnly
    BY <1>4, <2>1, <2>2, ProgramSets, ClassFacts DEF ClassInv
  <2>4. QED
    BY <2>3 DEF ClassInv, TagsAreInClasses
<1>6. ClassesAreLeast'
  BY <1>1, <1>5, SameProgram DEF ClassesAreLeast
<1>7. QED
  BY <1>1, <1>2, <1>3, <1>6 DEF ClassInv, Stripped, Propagating

(* The strips only take tags away.                                          *)
LEMMA StripSteps ==
  ASSUME ClassInv, StripRecurring \/ StripAddressTaken
  PROVE  ClassInv'
<1>1. /\ prog' = prog /\ pos' = pos /\ changed' = changed /\ irqReachable' = irqReachable
      /\ initOnly' \subseteq initOnly /\ exitOnly' \subseteq exitOnly
      /\ moduleInitOnly' \subseteq moduleInitOnly /\ moduleExitOnly' \subseteq moduleExitOnly
      /\ worklist' \in {worklist, irqReachable}
      /\ phase' \in {"irq", "done"}
  BY DEF StripRecurring, StripAddressTaken
<1>2. TypeOK'
  BY <1>1 DEF ClassInv, TypeOK
<1>3. TagsAreInClasses'
  BY <1>1, SameProgram DEF ClassInv, TagsAreInClasses
<1>4. Tagged' \cap prog.recurring = {}
  <2>1. CASE StripRecurring
    BY <2>1 DEF StripRecurring, Tagged
  <2>2. CASE StripAddressTaken
    BY <1>1, <2>2 DEF StripAddressTaken, Tagged, ClassInv, Stripped
  <2>3. QED
    BY <2>1, <2>2
<1>5. phase' = "done" => Tagged' \cap (prog.addrTaken \ prog.lifecycleName) = {}
  BY DEF StripRecurring, StripAddressTaken, Tagged, Exempt
<1>6. QED
  BY <1>1, <1>2, <1>3, <1>4, <1>5 DEF ClassInv, Stripped, Propagating, ClassesAreLeast

LEMMA OtherSteps ==
  ASSUME ClassInv, ReachCallees \/ IrqClosed \/ UNCHANGED vars
  PROVE  ClassInv'
<1>1. /\ prog' = prog /\ pos' = pos /\ changed' = changed
      /\ initOnly' = initOnly /\ exitOnly' = exitOnly
      /\ moduleInitOnly' = moduleInitOnly /\ moduleExitOnly' = moduleExitOnly
      /\ (phase' = phase \/ (phase = "irq" /\ phase' = "exempt"))
  <2>1. CASE ReachCallees
    BY <2>1 DEF ReachCallees
  <2>2. CASE IrqClosed
    BY <2>2 DEF IrqClosed
  <2>3. CASE UNCHANGED vars
    BY <2>3 DEF vars
  <2>4. QED
    BY <2>1, <2>2, <2>3
<1>2. irqReachable' \in SUBSET Fns /\ worklist' \in SUBSET Fns
  <2>1. \A f \in worklist : NewlyReached(f) \subseteq Fns
    BY ProgramSets DEF ClassInv, TypeOK, NewlyReached
  <2>2. QED
    BY <2>1 DEF ClassInv, TypeOK, ReachCallees, IrqClosed, vars
<1>3. TypeOK'
  BY <1>1, <1>2 DEF ClassInv, TypeOK
<1>4. TagsAreInClasses' /\ ClassesAreLeast'
  BY <1>1, SameProgram DEF ClassInv, TagsAreInClasses, ClassesAreLeast
<1>5. Propagating'
  BY <1>1, SameProgram DEF ClassInv, Propagating, ClosedUpTo
<1>6. QED
  BY <1>1, <1>3, <1>4, <1>5 DEF ClassInv, Stripped, Tagged

----------------------------------------------------------------------------
(* The closure of the asynchronous handlers.                                *)

(* What is reachable from S contains S and the callees of its members, and  *)
(* is contained in every set of which this is so.                           *)
LEMMA ReachableFacts ==
  ASSUME TypeOK, NEW S \in SUBSET Fns
  PROVE  /\ S \subseteq ReachableFrom(S)
         /\ \A h \in ReachableFrom(S) : prog.calls[h] \subseteq ReachableFrom(S)
         /\ \A T \in SUBSET Fns :
              S \subseteq T /\ (\A h \in T : prog.calls[h] \subseteq T) => ReachableFrom(S) \subseteq T
<1>1. \A h \in Fns : prog.calls[h] \subseteq Fns
  BY ProgramSets
<1>2. \A h \in ReachableFrom(S) : prog.calls[h] \subseteq ReachableFrom(S)
  BY <1>1 DEF ReachableFrom
<1>3. QED
  BY <1>2 DEF ReachableFrom

LEMMA InitReaching == Init /\ TypeOK => Reaching
  BY ReachableFacts, ProgramSets DEF Init, Reaching

LEMMA ReachingStep == IInv /\ [Next]_vars => Reaching'
<1> SUFFICES ASSUME IInv, [Next]_vars PROVE Reaching'
  OBVIOUS
<1>1. prog' = prog /\ (\A S : ReachableFrom(S)' = ReachableFrom(S))
  <2>1. prog' = prog
    BY DEF Next, vars, Visit, NextPass, DropAmbiguous, StripRecurring, ReachCallees,
           IrqClosed, StripAddressTaken
  <2>2. QED
    BY <2>1 DEF ReachableFrom
<1>2. CASE ReachCallees
  <2>1. PICK f \in worklist :
          /\ irqReachable' = irqReachable \cup NewlyReached(f)
          /\ worklist' = (worklist \ {f}) \cup NewlyReached(f)
    BY <1>2 DEF ReachCallees
  <2>2. phase = "irq" /\ phase' = "irq"
    BY <1>2 DEF ReachCallees
  <2>3. /\ prog.async \subseteq irqReachable /\ irqReachable \subseteq ReachableFrom(prog.async)
        /\ worklist \subseteq irqReachable
        /\ \A h \in irqReachable \ worklist : prog.calls[h] \subseteq irqReachable
    BY <2>2 DEF IInv, Reaching
  <2>4. prog.calls[f] \subseteq ReachableFrom(prog.async)
    BY <2>1, <2>3, ReachableFacts, ProgramSets DEF IInv, ClassInv
  <2>5. \A h \in irqReachable' \ worklist' : prog.calls[h] \subseteq irqReachable'
    BY <2>1, <2>3 DEF NewlyReached
  <2>6. irqReachable' \subseteq ReachableFrom(prog.async) /\ worklist' \subseteq irqReachable'
    BY <2>1, <2>3, <2>4 DEF NewlyReached
  <2>7. QED
    BY <1>1, <2>1, <2>2, <2>3, <2>5, <2>6 DEF Reaching
<1>3. CASE StripRecurring
  BY <1>1, <1>3 DEF StripRecurring, IInv, Reaching
<1>4. CASE IrqClosed
  BY <1>1, <1>4 DEF IrqClosed, IInv, Reaching
<1>5. CASE StripAddressTaken
  BY <1>1, <1>5 DEF StripAddressTaken, IInv, Reaching
<1>6. CASE Visit \/ NextPass \/ DropAmbiguous
  BY <1>1, <1>6 DEF Visit, NextPass, DropAmbiguous, IInv, Reaching
<1>7. CASE UNCHANGED vars
  BY <1>1, <1>7 DEF vars, IInv, Reaching
<1>8. QED
  BY <1>2, <1>3, <1>4, <1>5, <1>6, <1>7 DEF Next

LEMMA SeedTagsStep == SeedTags /\ [Next]_vars => SeedTags'
  BY DEF SeedTags, Next, vars, Visit, NextPass, DropAmbiguous, StripRecurring, ReachCallees,
         IrqClosed, StripAddressTaken

(* The propagation computes the smallest closed classes, for every program. *)
THEOREM LifecycleInvariant == Spec => []IInv
<1>1. IInv /\ [Next]_vars => IInv'
  BY VisitStep, NextPassStep, DropAmbiguousStep, StripSteps, OtherSteps, ReachingStep, SeedTagsStep
     DEF Next, IInv
<1>2. Init => IInv
  BY InitInv, InitReaching DEF IInv, ClassInv, SeedTags, Init
<1>3. QED
  BY <1>1, <1>2, PTL DEF Spec

(* No chain of calls from outside reaches a tagged function unless it       *)
(* passes through a seed.                                                   *)
THEOREM TagsEnclosed == Spec => []TagsAreEnclosed
<1>1. IInv => TagsAreEnclosed
  BY ProgramSets, ClassIsEnclosed DEF IInv, ClassInv, TagsAreInClasses, TagsAreEnclosed
<1>2. QED
  BY <1>1, LifecycleInvariant, PTL

(* Two runtime callbacks are never suppressed as a lifecycle pair.          *)
THEOREM CallbacksSurvive == Spec => []CallbackPairsSurvive
<1>1. IInv => CallbackPairsSurvive
  <2> SUFFICES ASSUME IInv, phase = "done", NEW a \in Callbacks, NEW b \in Callbacks
               PROVE  ~MutuallyExclusive(a, b)
    BY DEF CallbackPairsSurvive
  <2>1. Tagged \cap Callbacks = {}
    BY DEF IInv, ClassInv, Stripped, Callbacks
  <2>2. QED
    BY <2>1 DEF MutuallyExclusive, Tagged
<1>2. QED
  BY <1>1, LifecycleInvariant, PTL

(* The functions taken for reachable from asynchronous contexts are exactly *)
(* those that are, in whatever order the closure visits them.               *)
THEOREM IrqClosure == Spec => []IrqReachableIsExact
<1>1. IInv => IrqReachableIsExact
  <2> SUFFICES ASSUME IInv, phase \in {"exempt", "done"}
               PROVE  irqReachable = ReachableFrom(prog.async)
    BY DEF IrqReachableIsExact
  <2>1. \A h \in irqReachable : prog.calls[h] \subseteq irqReachable
    BY DEF IInv, Reaching
  <2>2. irqReachable \in SUBSET Fns /\ prog.async \in SUBSET Fns /\ TypeOK
    BY ProgramSets DEF IInv, ClassInv, TypeOK
  <2>3. ReachableFrom(prog.async) \subseteq irqReachable
    BY <2>1, <2>2, ReachableFacts DEF IInv, Reaching
  <2>4. QED
    BY <2>3 DEF IInv, Reaching
<1>2. QED
  BY <1>1, LifecycleInvariant, PTL

----------------------------------------------------------------------------
(* The corpus.                                                              *)

(* Every nonempty set of numbers has a least one.                           *)
LEMMA LeastNat ==
  ASSUME NEW T \in SUBSET Nat, T # {}
  PROVE  \E n \in T : \A m \in T : n <= m
<1> DEFINE R == OpToRel(<, Nat)
<1>1. IsWellFoundedOn(R, Nat)
  BY NatLessThanWellFounded
<1>2. \A m, n \in Nat : m < n => <<m, n>> \in R
  BY DEF OpToRel
<1> HIDE DEF R
<1>3. PICK n \in T : \A m \in T : ~ (<<m, n>> \in R)
  BY <1>1, WFMin
<1>4. ASSUME NEW m \in T PROVE n <= m
  <2>1. m \in Nat /\ n \in Nat
    OBVIOUS
  <2>2. ~ (m < n)
    BY <1>2, <1>3, <2>1
  <2>3. QED
    BY <2>1, <2>2
<1>5. QED
  BY <1>4

(* What a set that has been expanded from a seed is: its members are seeds  *)
(* or functions that are called, by members only, and whose address is not  *)
(* taken.                                                                   *)
Grown(c, seed, X) ==
  /\ seed \subseteq X /\ X \subseteq seed \cup FnDefs(c)
  /\ \A h \in X \ seed : /\ CallersOf(c, h) # {} /\ CallersOf(c, h) \subseteq X
                        /\ h \notin AddrTaken(c)

(* The passes of _expand, as a function of their number.                    *)
IsRun(g, c, seed, m) ==
  g = [n \in 0..m |-> IF n = 0 THEN seed ELSE g[n - 1] \cup Joinable(c, g[n - 1])]

LEMMA GrownMore ==
  ASSUME NEW c, NEW seed, NEW X, Grown(c, seed, X)
  PROVE  Grown(c, seed, X \cup Joinable(c, X))
  BY DEF Grown, Joinable

LEMMA RunExists ==
  ASSUME NEW c, NEW seed, NEW p \in Nat
  PROVE  \E g : IsRun(g, c, seed, p)
<1> DEFINE T == {m \in Nat : ~ \E g : IsRun(g, c, seed, m)}
<1> SUFFICES ASSUME T # {} PROVE FALSE
  OBVIOUS
<1>1. PICK m \in T : \A l \in T : m <= l
  <2>1. T \in SUBSET Nat
    OBVIOUS
  <2> HIDE DEF T
  <2>2. QED
    BY <2>1, LeastNat
<1>2. m # 0
  <2> DEFINE g == [n \in 0..0 |-> seed]
  <2>1. IsRun(g, c, seed, 0)
    BY DEF IsRun
  <2>2. QED
    BY <1>1, <2>1
<1>3. m - 1 \in Nat /\ ~(m <= m - 1)
  BY <1>1, <1>2
<1>4. PICK g : IsRun(g, c, seed, m - 1)
  BY <1>1, <1>3
<1> DEFINE h == [n \in 0..m |-> IF n = m THEN g[m - 1] \cup Joinable(c, g[m - 1]) ELSE g[n]]
<1>5. ASSUME NEW n \in 0..m
      PROVE  h[n] = IF n = 0 THEN seed ELSE h[n - 1] \cup Joinable(c, h[n - 1])
  <2>1. CASE n = m
    <3>1. m - 1 \in 0..m /\ m - 1 # m
      BY <1>1, <1>2
    <3>2. h[m] = g[m - 1] \cup Joinable(c, g[m - 1]) /\ h[m - 1] = g[m - 1]
      BY <2>1, <3>1
    <3>3. QED
      BY <1>2, <2>1, <3>2
  <2>2. CASE n # m
    <3>1. n \in 0..(m - 1) /\ (n # 0 => n - 1 \in 0..m /\ n - 1 # m)
      BY <1>1, <2>2
    <3>2. h[n] = g[n] /\ (n # 0 => h[n - 1] = g[n - 1])
      BY <2>2, <3>1
    <3>3. g[n] = IF n = 0 THEN seed ELSE g[n - 1] \cup Joinable(c, g[n - 1])
      <4>1. g = [k \in 0..(m - 1) |-> IF k = 0 THEN seed ELSE g[k - 1] \cup Joinable(c, g[k - 1])]
        BY <1>4 DEF IsRun
      <4>2. QED
        BY <3>1, <4>1
    <3>4. QED
      BY <3>2, <3>3
  <2>3. QED
    BY <2>1, <2>2
<1>6. IsRun(h, c, seed, m)
  BY <1>5 DEF IsRun
<1>7. QED
  BY <1>1, <1>6

LEMMA ExpandGrows ==
  ASSUME NEW c, NEW seed, IsFiniteSet(FnDefs(c))
  PROVE  Grown(c, seed, Expand(c, seed))
<1> DEFINE p == Cardinality(FnDefs(c))
           out == CHOOSE g : IsRun(g, c, seed, p)
           T == {m \in Nat : m <= p /\ ~Grown(c, seed, out[m])}
<1>1. p \in Nat
  BY FS_CardinalityType
<1>2. Expand(c, seed) = out[p]
  BY DEF Expand, IsRun
<1> HIDE DEF p
<1>3. IsRun(out, c, seed, p)
  BY <1>1, RunExists
<1> HIDE DEF out
<1>4. \A n \in 0..p : out[n] = IF n = 0 THEN seed ELSE out[n - 1] \cup Joinable(c, out[n - 1])
  BY <1>3 DEF IsRun
<1>5. T = {}
  <2> SUFFICES ASSUME T # {} PROVE FALSE
    OBVIOUS
  <2>1. PICK m \in T : \A l \in T : m <= l
    <3>1. T \in SUBSET Nat
      OBVIOUS
    <3> HIDE DEF T
    <3>2. QED
      BY <3>1, LeastNat
  <2>2. m # 0
    <3>1. Grown(c, seed, seed)
      BY DEF Grown
    <3>2. 0 \in 0..p
      BY <1>1
    <3>3. QED
      BY <1>4, <2>1, <3>1, <3>2
  <2>3. m \in 0..p /\ m - 1 \in Nat /\ m - 1 <= p /\ ~(m <= m - 1)
    BY <1>1, <2>1, <2>2
  <2>4. Grown(c, seed, out[m - 1])
    BY <2>1, <2>3
  <2>5. out[m] = out[m - 1] \cup Joinable(c, out[m - 1])
    BY <1>4, <2>2, <2>3
  <2>6. QED
    BY <2>1, <2>4, <2>5, GrownMore
<1>6. Grown(c, seed, out[p])
  BY <1>1, <1>5
<1>7. QED
  BY <1>2, <1>6

(* No chain of calls leaves a set that has the callers of all its members   *)
(* but the roots, so none starts at an entry outside.                       *)
LEMMA EnclosedIn ==
  ASSUME NEW X \in SUBSET Fns, NEW roots, NEW entries, NEW f \in X,
         \A h \in X \ roots : CallersOf(Corpus, h) \subseteq X /\ h \notin entries
  PROVE  EnclosedBy(f, roots, entries)
<1>1. ReachingFrom(f, roots) \subseteq X
  BY DEF ReachingFrom
<1>2. QED
  BY <1>1 DEF EnclosedBy

(* The program is unit k of the corpus.                                     *)
InCorpus(k) ==
  /\ k \in DOMAIN Corpus /\ prog = UnitProgram(Corpus, k)
  /\ \A i \in DOMAIN Corpus : WellFormed(Corpus[i])

LEMMA UnitFields ==
  ASSUME NEW k, InCorpus(k)
  PROVE  /\ prog.internal = Corpus[k].internal
         /\ prog.calls = [f \in Fns |-> Corpus[k].calls[f] \cap Corpus[k].defs]
         /\ prog.initSeed = OwnInit(Corpus[k]) \cup (InitSeedFile(Corpus) \cap Known(Corpus[k]))
         /\ prog.exitSeed = OwnExit(Corpus[k]) \cup (ExitSeedFile(Corpus) \cap Known(Corpus[k]))
<1> DEFINE c == Corpus
<1>1. prog = UnitProgram(c, k) /\ WellFormed(c[k])
  BY DEF InCorpus
<1>2. DOMAIN c[k].calls = Fns
  BY <1>1 DEF WellFormed
<1> HIDE DEF c
<1>3. /\ prog.internal = c[k].internal
      /\ prog.calls = [f \in DOMAIN c[k].calls |-> c[k].calls[f] \cap c[k].defs]
      /\ prog.initSeed = OwnInit(c[k]) \cup (InitSeedFile(c) \cap Known(c[k]))
      /\ prog.exitSeed = OwnExit(c[k]) \cup (ExitSeedFile(c) \cap Known(c[k]))
  BY <1>1 DEF UnitProgram
<1>4. QED
  BY <1>2, <1>3 DEF c

(* A static function has the same callers in its unit and in the corpus.    *)
LEMMA StaticCallers ==
  ASSUME NEW k, InCorpus(k), Unambiguous, NEW h \in prog.internal
  PROVE  Callers(h) = CallersOf(Corpus, h)
<1> DEFINE c == Corpus
<1>1. /\ k \in DOMAIN c /\ Scanned(c) = DOMAIN c
      /\ \A i \in DOMAIN c : WellFormed(c[i])
      /\ \A i \in DOMAIN c : i # k => \A f \in c[i].defs : c[i].calls[f] \cap c[k].internal = {}
  BY DEF InCorpus, Unambiguous, WellScoped
<1>2. h \in c[k].internal /\ prog.calls = [f \in Fns |-> c[k].calls[f] \cap c[k].defs]
  BY UnitFields
<1> HIDE DEF c
<1>3. h \in c[k].defs /\ c[k].defs \subseteq Fns
  BY <1>1, <1>2 DEF WellFormed
<1>4. Callers(h) = {g \in Fns : h \in c[k].calls[g]}
  BY <1>2, <1>3 DEF Callers
<1>5. \A g \in Fns : h \in c[k].calls[g] => g \in c[k].defs
  BY <1>1 DEF WellFormed
<1>6. CallersOf(c, h) = {g \in c[k].defs : h \in c[k].calls[g]}
  BY <1>1, <1>2 DEF CallersOf
<1>7. QED
  BY <1>3, <1>4, <1>5, <1>6 DEF c

(* What is tagged in the unit is enclosed in the corpus, be the seeds in    *)
(* a set that the pre-pass has expanded.                                    *)
LEMMA ClassEnclosed ==
  ASSUME NEW k, InCorpus(k), Unambiguous, NEW seed \in SUBSET Fns, NEW E \in SUBSET Fns,
         NEW roots, Grown(Corpus, roots, E), seed \subseteq E, NEW f \in ClassOf(seed)
  PROVE  EnclosedBy(f, roots, Uncalled)
<1> DEFINE X == E \cup ClassOf(seed)
<1>1. X \in SUBSET Fns
  BY ClassFacts
<1>2. ASSUME NEW h \in X \ roots
      PROVE  CallersOf(Corpus, h) \subseteq X /\ CallersOf(Corpus, h) # {}
  <2>1. CASE h \in E
    BY <1>2, <2>1 DEF Grown
  <2>2. CASE h \notin E
    <3>1. h \in ClassOf(seed) \ seed
      BY <1>2, <2>2
    <3>2. h \in prog.internal /\ Callers(h) # {} /\ Callers(h) \subseteq ClassOf(seed)
      BY <3>1, MembersAreCalledFromTheClass
    <3>3. QED
      BY <3>2, StaticCallers
  <2>3. QED
    BY <2>1, <2>2
<1>3. \A h \in X \ roots : h \notin Uncalled
  BY <1>2 DEF Uncalled
<1>4. f \in X
  OBVIOUS
<1> HIDE DEF X
<1>5. QED
  BY <1>1, <1>2, <1>3, <1>4, EnclosedIn

LEMMA FileEnclosed ==
  ASSUME Unambiguous, NEW E \in SUBSET Fns, NEW roots, Grown(Corpus, roots, E), NEW f \in E
  PROVE  EnclosedBy(f, roots, Uncalled \cup Escaping)
<1>1. Escaping = AddrTaken(Corpus)
  BY DEF Unambiguous, Escaping, AddrTaken
<1>2. \A h \in E \ roots : CallersOf(Corpus, h) \subseteq E /\ h \notin Uncalled \cup Escaping
  BY <1>1 DEF Grown, Uncalled
<1>3. QED
  BY <1>2, EnclosedIn

LEMMA InitCallsAre ==
  ASSUME NEW c
  PROVE  /\ \A x : x \in InitCalls(c) <=>
                   \E i \in Scanned(c) : \/ \E t \in c[i].tokens : x \in Resolved(t, FnDefs(c))
                                         \/ x \in c[i].initSection
         /\ \A x : x \in ExitCalls(c) <=>
                   x \in FnDefs(c) /\ \E i \in Scanned(c) : x \in c[i].exitcalls \cup c[i].exitSection
<1>1. ASSUME NEW x
      PROVE  x \in InitCalls(c) <=>
               \E i \in Scanned(c) : \/ \E t \in c[i].tokens : x \in Resolved(t, FnDefs(c))
                                     \/ x \in c[i].initSection
  <2> DEFINE R(i) == UNION {Resolved(t, FnDefs(c)) : t \in c[i].tokens}
  <2>1. InitCalls(c) = UNION {R(i) \cup c[i].initSection : i \in Scanned(c)}
    BY DEF InitCalls
  <2>2. \A i : x \in R(i) <=> \E t \in c[i].tokens : x \in Resolved(t, FnDefs(c))
    OBVIOUS
  <2> HIDE DEF R
  <2>3. x \in InitCalls(c) <=> \E i \in Scanned(c) : x \in R(i) \cup c[i].initSection
    BY <2>1
  <2>4. QED
    BY <2>2, <2>3
<1>2. ASSUME NEW x
      PROVE  x \in ExitCalls(c) <=>
               x \in FnDefs(c) /\ \E i \in Scanned(c) : x \in c[i].exitcalls \cup c[i].exitSection
  <2> DEFINE V == UNION {c[i].exitcalls \cup c[i].exitSection : i \in Scanned(c)}
  <2>1. ExitCalls(c) = V \cap FnDefs(c)
    BY DEF ExitCalls
  <2>2. x \in V <=> \E i \in Scanned(c) : x \in c[i].exitcalls \cup c[i].exitSection
    OBVIOUS
  <2> HIDE DEF V
  <2>3. QED
    BY <2>1, <2>2
<1>3. QED
  BY <1>1, <1>2

(* The seeds of the unit are in the expanded sets.                          *)
LEMMA SeedsExpanded ==
  ASSUME NEW k, InCorpus(k), Unambiguous
  PROVE  /\ Expand(Corpus, InitCalls(Corpus)) \in SUBSET Fns
         /\ Expand(Corpus, ExitCalls(Corpus)) \in SUBSET Fns
         /\ Grown(Corpus, InitCalls(Corpus), Expand(Corpus, InitCalls(Corpus)))
         /\ Grown(Corpus, ExitCalls(Corpus), Expand(Corpus, ExitCalls(Corpus)))
         /\ prog.initSeed \subseteq Expand(Corpus, InitCalls(Corpus))
         /\ prog.exitSeed \subseteq Expand(Corpus, ExitCalls(Corpus))
<1> DEFINE c == Corpus
<1>1. /\ k \in DOMAIN c /\ Scanned(c) = DOMAIN c /\ \A i \in DOMAIN c : WellFormed(c[i])
      /\ \A i \in DOMAIN c : \A t \in c[i].tokens : t[1] \in FnDefs(c) /\ t[1] \in Known(c[i])
  BY DEF InCorpus, Unambiguous
<1>2. /\ prog.initSeed = OwnInit(c[k]) \cup (InitSeedFile(c) \cap Known(c[k]))
      /\ prog.exitSeed = OwnExit(c[k]) \cup (ExitSeedFile(c) \cap Known(c[k]))
  BY UnitFields
<1> HIDE DEF c
<1>3. FnDefs(c) \subseteq Fns
  BY <1>1 DEF FnDefs, WellFormed
<1>4. IsFiniteSet(FnDefs(c))
  <2>1. IsFiniteSet(Fns)
    BY FS_Interval, NumFnsAssumption DEF Fns
  <2>2. QED
    BY <1>3, <2>1, FS_Subset
<1>5. /\ Grown(c, InitCalls(c), Expand(c, InitCalls(c)))
      /\ Grown(c, ExitCalls(c), Expand(c, ExitCalls(c)))
  BY <1>4, ExpandGrows
<1>11. \A i \in DOMAIN c : /\ c[i].initSection \subseteq InitCalls(c)
                          /\ \A t \in c[i].tokens : Resolved(t, FnDefs(c)) \subseteq InitCalls(c)
  BY <1>1, InitCallsAre
<1>12. \A i \in DOMAIN c : c[i].exitSection \cap FnDefs(c) \subseteq ExitCalls(c)
  BY <1>1, InitCallsAre
<1>6. InitCalls(c) \subseteq Fns
  <2>1. \A t : Resolved(t, FnDefs(c)) \subseteq FnDefs(c)
    BY DEF Resolved
  <2>2. \A i \in DOMAIN c : c[i].initSection \subseteq Fns
    BY <1>1 DEF WellFormed
  <2>3. QED
    BY <1>1, <1>3, <2>1, <2>2, InitCallsAre
<1>7. ExitCalls(c) \subseteq Fns
  BY <1>3, InitCallsAre
<1>8. OwnInit(c[k]) \subseteq InitCalls(c)
  <2>1. ASSUME NEW t \in c[k].tokens
        PROVE  Resolved(t, Known(c[k])) = {t[1]} /\ Resolved(t, FnDefs(c)) = {t[1]}
    <3>1. t[1] \in FnDefs(c) /\ t[1] \in Known(c[k])
      BY <1>1, <2>1
    <3>2. t \in Seq(Fns) /\ t # <<>>
      BY <1>1, <2>1 DEF WellFormed
    <3>3. Len(t) \in Nat \ {0} /\ DOMAIN t = 1..Len(t)
      BY <3>2
    <3>4. 1 \in DOMAIN t /\ \A j \in DOMAIN t : j # 1 => 1 \in 1..(j - 1)
      BY <3>3
    <3>5. 1..(1 - 1) = {}
      OBVIOUS
    <3>6. \A S : t[1] \in S => Resolved(t, S) = {t[1]}
      BY <3>4, <3>5 DEF Resolved
    <3>7. QED
      BY <3>1, <3>6
  <2>2. c[k].initSection \subseteq InitCalls(c)
    BY <1>1, <1>11
  <2>3. \A t \in c[k].tokens : Resolved(t, FnDefs(c)) \subseteq InitCalls(c)
    BY <1>1, <1>11
  <2>4. QED
    BY <2>1, <2>2, <2>3 DEF OwnInit
<1>9. OwnExit(c[k]) \subseteq ExitCalls(c)
  <2>1. c[k].exitSection \subseteq FnDefs(c)
    BY <1>1 DEF WellFormed, FnDefs
  <2>2. QED
    BY <1>1, <1>12, <2>1 DEF OwnExit
<1>10. QED
  BY <1>2, <1>3, <1>5, <1>6, <1>7, <1>8, <1>9 DEF Grown, InitSeedFile, ExitSeedFile, c

(* Whatever the corpus and the unit, tags made with the help of the seed    *)
(* files are true of the whole corpus.                                      *)
THEOREM CorpusEnclosed == Spec => []CorpusTagsEnclosed
<1>1. IInv => CorpusTagsEnclosed
  <2> SUFFICES ASSUME IInv, Corpus # <<>>, Unambiguous
               PROVE  /\ \A f \in moduleInitOnly \cup initOnly : EnclosedBy(f, InitCalls(Corpus), Uncalled)
                      /\ \A f \in moduleExitOnly \cup exitOnly : EnclosedBy(f, ExitCalls(Corpus), Uncalled)
                      /\ \A f \in initOnly : EnclosedBy(f, InitCalls(Corpus), Uncalled \cup Escaping)
                      /\ \A f \in exitOnly : EnclosedBy(f, ExitCalls(Corpus), Uncalled \cup Escaping)
    BY DEF CorpusTagsEnclosed
  <2>1. PICK k : InCorpus(k)
    <3>1. prog \in Programs /\ prog.corpus # <<>>
      BY DEF IInv, ClassInv, TypeOK, Corpus
    <3>2. /\ \E k \in DOMAIN prog.corpus : prog = UnitProgram(prog.corpus, k)
          /\ \A i \in DOMAIN prog.corpus : WellFormed(prog.corpus[i])
      BY <3>1, CorpusAssumption
    <3>3. QED
      BY <3>2 DEF InCorpus, Corpus
  <2>2. prog.initSeed \in SUBSET Fns /\ prog.exitSeed \in SUBSET Fns
    BY ProgramSets DEF IInv, ClassInv
  <2>3. /\ moduleInitOnly \cup initOnly \subseteq ClassOf(prog.initSeed)
        /\ moduleExitOnly \cup exitOnly \subseteq ClassOf(prog.exitSeed)
        /\ initOnly \subseteq prog.initSeed /\ exitOnly \subseteq prog.exitSeed
    BY <2>2, ClassFacts DEF IInv, ClassInv, TagsAreInClasses, SeedTags
  <2> DEFINE Ei == Expand(Corpus, InitCalls(Corpus))
             Ee == Expand(Corpus, ExitCalls(Corpus))
             ri == InitCalls(Corpus)
             re == ExitCalls(Corpus)
  <2>4. /\ Ei \in SUBSET Fns /\ Ee \in SUBSET Fns
        /\ Grown(Corpus, ri, Ei) /\ Grown(Corpus, re, Ee)
        /\ prog.initSeed \subseteq Ei /\ prog.exitSeed \subseteq Ee
    BY <2>1, SeedsExpanded
  <2> HIDE DEF Ei, Ee, ri, re
  <2>5. \A f \in ClassOf(prog.initSeed) : EnclosedBy(f, ri, Uncalled)
    BY <2>1, <2>2, <2>4, ClassEnclosed
  <2>6. \A f \in ClassOf(prog.exitSeed) : EnclosedBy(f, re, Uncalled)
    BY <2>1, <2>2, <2>4, ClassEnclosed
  <2>7. \A f \in Ei : EnclosedBy(f, ri, Uncalled \cup Escaping)
    BY <2>4, FileEnclosed
  <2>8. \A f \in Ee : EnclosedBy(f, re, Uncalled \cup Escaping)
    BY <2>4, FileEnclosed
  <2>9. QED
    BY <2>3, <2>4, <2>5, <2>6, <2>7, <2>8 DEF ri, re
<1>2. QED
  BY <1>1, LifecycleInvariant, PTL

============================================================================

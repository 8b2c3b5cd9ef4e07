------------------------------- MODULE FilterPass -------------------------------
(****************************************************************************)
(* The filter pass as a whole: a unit is scanned (IrScan), its functions    *)
(* are classified and inherit locks, the fifteen heuristics give their      *)
(* verdicts (Heuristics) that the loop of FilterChain goes by.  A unit has  *)
(* here, besides the fields IrScan reads, its pairs.                        *)
(* What modules Lifecycle and LockPropagation compute step by step is here  *)
(* the fixpoint they are checked against.                                   *)
(****************************************************************************)
EXTENDS Heuristics

----------------------------------------------------------------------------
Callers(u, f) == {g \in Fns : f \in u.calls[g]}

(* Functions of internal linkage whose callers are all tagged join.         *)
ModuleOnly(u, seed) ==
  LET Class[n \in Nat] ==
        IF n = 0 THEN seed
        ELSE Class[n - 1] \cup
             {f \in u.internal : Callers(u, f) # {} /\ Callers(u, f) \subseteq Class[n - 1]}
  IN  Class[NumFns]

(* Functions of internal or hidden linkage hold what all callers hold.      *)
InheritedLocks(u) ==
  LET Held[n \in Nat] ==
        IF n = 0 THEN OwnLocks(u)
        ELSE [f \in Fns |->
                Held[n - 1][f] \cup
                (IF f \in u.internal /\ Callers(u, f) # {}
                 THEN {l \in UNION {Held[n - 1][g] : g \in Fns} :
                         \A g \in Callers(u, f) : l \in Held[n - 1][g]}
                 ELSE {})]
  IN  Held[NumFns]

IrqReachable(u) == UNION {CgReachable(u, h) : h \in AsyncHandlers(u)}

Facts(u) ==
  LET in       == LifecycleInput(u)
      stripped == in.recurring \cup (in.addrTaken \ in.lifecycleName)
      exitOnly == ModuleOnly(u, in.exitSeed)
  IN  [calls |-> u.calls, name |-> u.name,
       irqReachable |-> IrqReachable(u), lockSets |-> InheritedLocks(u),
       initOnly |-> in.initSeed \ stripped, exitOnly |-> in.exitSeed \ stripped,
       moduleInitOnly |-> (ModuleOnly(u, in.initSeed) \ exitOnly) \ stripped,
       moduleExitOnly |-> exitOnly \ stripped,
       rcuReaders |-> Calling(u, RcuReadLocks), rcuSync |-> Calling(u, RcuSyncCalls),
       seqWriters |-> SeqWriters(u), seqReaders |-> SeqReaders(u),
       irqSyncCallers |-> Calling(u, IrqSyncCalls),
       perCpuSets |-> [f \in Fns |-> Operands(u, f, PerCpuAccessors)],
       completionSignal |-> [f \in Fns |-> Operands(u, f, CompletionSignals)],
       completionWait |-> [f \in Fns |-> Operands(u, f, CompletionWaits)],
       subsysLocks |-> [f \in Fns |-> {c.api : c \in u.body[f]} \cap SubsysLocks],
       regmapFns |-> Calling(u, RegmapCalls), dmaSyncFns |-> Calling(u, DmaSyncCalls),
       seqlockRdFns |-> Calling(u, SeqlockReads), seqlockWrFns |-> Calling(u, SeqlockWrites),
       registeredBy |-> RegisteredBy(u)]

(* What the heuristics say of each pair of the unit.                        *)
Verdicts(u) == LET k == Facts(u) IN [p \in DOMAIN u.pairs |-> Matching(k, u.pairs[p])]

============================================================================

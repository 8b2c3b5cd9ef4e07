------------------------------- MODULE Heuristics -------------------------------
(****************************************************************************)
(* The fifteen verdicts of the filter chain (the isMutuallyExclusive        *)
(* methods of fn_heuristics.cpp), over the sets that IrScan collects.       *)
(*                                                                          *)
(* A pair is a record                                                       *)
(*   anchor, partner : its two functions                                    *)
(*   label  : the family of the anchor's external callee, "sync" if it is   *)
(*            none that BenignAnchor lists                                  *)
(*   writes : is a neighbour of the anchor or a partner access a store?     *)
(*            (module FunctionPairs has the detail)                         *)
(*   descs  : what the descriptions of its objects look like                *)
(* The facts k of a unit hold, besides what IrScan reads, what modules      *)
(* Lifecycle and LockPropagation make of it: the four classes, irqReachable *)
(* and lockSets.                                                            *)
(****************************************************************************)
EXTENDS IrScan

(* The families of classifyBenignFnName.                                    *)
BenignFamilies ==
  {"log/warn", "rng", "time", "alloc", "dealloc", "string/mem", "obj-name", "callback-defer"}
BenignDescs == {"benign-global", "iomem"}

(* The curated names of SeqcountReaderWriter, two of each list.             *)
SeqcountWriterFns == {<<"timekeeping", "resume">>, <<"update", "wall", "time">>}
SeqcountReaderFns == {<<"ktime", "get">>, <<"ktime", "get", "raw">>}

----------------------------------------------------------------------------
(* The verdict is symmetric in what the two functions are, whoever anchors. *)
OneEach(S, T, p) ==
  \/ p.anchor \in S /\ p.partner \in T
  \/ p.anchor \in T /\ p.partner \in S
Both(S, p) == {p.anchor, p.partner} \subseteq S
Common(sets, p) == sets[p.anchor] \cap sets[p.partner] # {}

BenignAnchor(p) == p.label \in BenignFamilies

ReadReadPair(p) == ~p.writes

(* cgReachable: breadth-first over the call graph, f itself included.       *)
CgReachable(k, f) ==
  LET Reach[n \in Nat] ==
        IF n = 0 THEN {f} ELSE Reach[n - 1] \cup UNION {k.calls[g] : g \in Reach[n - 1]}
  IN  Reach[NumFns]
CallGraph(k, p) ==
  /\ (p.anchor \in k.irqReachable) = (p.partner \in k.irqReachable)
  /\ p.partner \in CgReachable(k, p.anchor) \/ p.anchor \in CgReachable(k, p.partner)

LockAlias(k, p) == Common(k.lockSets, p)

RcuSerial_AnchorReads(k, p) ==                                  \* mutant
  p.anchor \in k.rcuReaders /\ p.partner \in k.rcuSync
RcuSerial(k, p) == OneEach(k.rcuReaders, k.rcuSync, p)

SeqlockRetry(k, p) ==
  OneEach(k.seqWriters, k.seqReaders, p) \/ Both(k.seqWriters, p)

IsIrqHandlerName(n) ==
  \/ Len(n) > 1 /\ n[Len(n)] \in {"irq", "isr", "interrupt"}
  \/ \E i \in 2..(Len(n) - 1) : n[i] \in {"irq", "isr", "interrupt"}
IrqHandlers(k) == {f \in Fns : IsIrqHandlerName(k.name[f])}
IrqSerial(k, p) == OneEach(k.irqSyncCallers, IrqHandlers(k), p)

Lifecycle(k, p) ==
  \/ Both(k.initOnly \cup k.exitOnly, p)
  \/ {p.anchor, p.partner} \cap (k.moduleInitOnly \cup k.moduleExitOnly) # {}

PerCpu(k, p) == Common(k.perCpuSets, p)

CompletionOrder(k, p) ==
  \/ k.completionSignal[p.anchor] \cap k.completionWait[p.partner] # {}
  \/ k.completionWait[p.anchor] \cap k.completionSignal[p.partner] # {}

SubsystemLock(k, p) == Common(k.subsysLocks, p)

SafeAllocation(k, p) ==
  \/ Both(k.regmapFns, p)
  \/ Both(k.dmaSyncFns, p)
  \/ OneEach(k.seqlockRdFns, k.seqlockWrFns, p)
  \/ p.descs \cap BenignDescs # {}

RegistrationPublish(k, p) ==
  p.anchor \in k.registeredBy[p.partner] \/ p.partner \in k.registeredBy[p.anchor]

PhaseNames(k, phases, early) ==
  {f \in Fns : EndsWithAny(k.name[f],
     {<<ph>> : ph \in phases} \cup {<<ph, s>> : ph \in phases, s \in early \cup {"noirq"}})}
IsPmSuspendPhase(k) ==
  PhaseNames(k, SuspendPhases, {"late"})
  \cup {f \in Fns : EndsWith(k.name[f], <<"suspend", "early">>)}
IsPmResumePhase(k) == PhaseNames(k, ResumePhases, {"early"})
PmPhase(k, p) == Both(IsPmSuspendPhase(k) \cup IsPmResumePhase(k), p)

SeqcountReadWrite(k, p) ==
  Both({f \in Fns : k.name[f] \in SeqcountWriterFns \cup SeqcountReaderFns}, p)

----------------------------------------------------------------------------
(* The chain, in the order run() assembles it.                              *)
FilterOrder ==
  <<"BenignAnchor", "ReadRead", "CallGraph", "LockAlias", "RcuSerial", "SeqlockRetry",
    "IrqSerial", "Lifecycle", "PerCpu", "CompletionOrder", "SubsystemLock",
    "SafeAllocation", "RegistrationPublish", "PmPhase", "SeqcountReadWrite">>

(* The heuristics that hold the pair for mutually exclusive.                *)
Matching(k, p) ==
  {h \in {FilterOrder[i] : i \in DOMAIN FilterOrder} :
     \/ h = "BenignAnchor"        /\ BenignAnchor(p)
     \/ h = "ReadRead"            /\ ReadReadPair(p)
     \/ h = "CallGraph"           /\ CallGraph(k, p)
     \/ h = "LockAlias"           /\ LockAlias(k, p)
     \/ h = "RcuSerial"           /\ RcuSerial(k, p)
     \/ h = "SeqlockRetry"        /\ SeqlockRetry(k, p)
     \/ h = "IrqSerial"           /\ IrqSerial(k, p)
     \/ h = "Lifecycle"           /\ Lifecycle(k, p)
     \/ h = "PerCpu"              /\ PerCpu(k, p)
     \/ h = "CompletionOrder"     /\ CompletionOrder(k, p)
     \/ h = "SubsystemLock"       /\ SubsystemLock(k, p)
     \/ h = "SafeAllocation"      /\ SafeAllocation(k, p)
     \/ h = "RegistrationPublish" /\ RegistrationPublish(k, p)
     \/ h = "PmPhase"             /\ PmPhase(k, p)
     \/ h = "SeqcountReadWrite"   /\ SeqcountReadWrite(k, p)}

============================================================================

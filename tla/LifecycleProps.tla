---------------------------- MODULE LifecycleProps ----------------------------
(****************************************************************************)
(* Properties of the lifecycle classification.                              *)
(****************************************************************************)
EXTENDS Lifecycle, CrossTuSeeds

TypeOK ==
  /\ prog \in Programs
  /\ phase \in {"propagate", "strip", "irq", "exempt", "done"}
  /\ pos \in 1..(NumFns + 1)
  /\ changed \in BOOLEAN
  /\ {initOnly, exitOnly, moduleInitOnly, moduleExitOnly, irqReachable, worklist}
       \subseteq SUBSET Fns

(* A class is closed when a function all of whose callers are in it, and    *)
(* that has one, is in it; the closure of a seed is the smallest such class.*)
ClosedClass(S) ==
  \A f \in Fns : Callers(f) # {} /\ Callers(f) \subseteq S => f \in S
ClassOf(seed) ==
  {f \in Fns : \A S \in SUBSET Fns : seed \subseteq S /\ ClosedClass(S) => f \in S}

(* Propagation in place, in name order, both classes in one loop, computes  *)
(* the smallest closed classes: it stops neither early nor late, whatever   *)
(* the call graph.                                                          *)
ClassesAreLeast ==
  phase = "strip" =>
    /\ moduleExitOnly = ClassOf(prog.exitSeed)
    /\ moduleInitOnly = ClassOf(prog.initSeed) \ moduleExitOnly

(* "Every pair with either side module-init-only is filtered", so a tag     *)
(* must not be reachable from outside: no chain of direct calls that avoids *)
(* the seeds leads from a function the module's environment can call, or    *)
(* one it does not see called, to a tagged function.                        *)
Avoiding(f, seed) ==
  {g \in Fns :
     \A S \in SUBSET Fns :
       f \in S /\ (\A h \in S \ seed : {c \in Fns : h \in prog.calls[c]} \subseteq S) => g \in S}
Entry(seed) == {g \in Fns \ seed : g \notin prog.internal \/ Callers(g) = {}}
TagsAreEnclosed ==
  /\ \A f \in moduleInitOnly \ prog.initSeed :
       Avoiding(f, prog.initSeed) \cap Entry(prog.initSeed) = {}
  /\ \A f \in moduleExitOnly \ prog.exitSeed :
       Avoiding(f, prog.exitSeed) \cap Entry(prog.exitSeed) = {}

(* "sysfs / fops runtime callbacks must NEVER be marked" (G5.4), nor may    *)
(* address-taken functions of no lifecycle section: two of them are never   *)
(* suppressed as a pair.                                                    *)
Callbacks == prog.recurring \cup (prog.addrTaken \ prog.lifecycleName)
CallbackPairsSurvive ==
  phase = "done" => \A a, b \in Callbacks : ~MutuallyExclusive(a, b)

(* The closure of the asynchronous handlers is exact.                       *)
ReachableFrom(S) ==
  {g \in Fns :
     \A T \in SUBSET Fns : S \subseteq T /\ (\A h \in T : prog.calls[h] \subseteq T) => g \in T}
IrqReachableIsExact ==
  phase \in {"exempt", "done"} => irqReachable = ReachableFrom(prog.async)

(* The classification ends: a pass that classifies something makes the next *)
(* one necessary, but only finitely often.                                  *)
Terminates == <>(phase = "done")

(* The inductive invariant: tags stay inside the smallest closed classes;   *)
(* in a pass without a change the classes are closed for the entries        *)
(* visited; what a strip took out does not come back.                       *)
ClosedUpTo(S, n) ==
  \A f \in Fns : f < n /\ Callers(f) # {} /\ Callers(f) \subseteq S => f \in S
Tagged == initOnly \cup exitOnly \cup moduleInitOnly \cup moduleExitOnly
TagsAreInClasses ==
  moduleInitOnly \subseteq ClassOf(prog.initSeed) /\ moduleExitOnly \subseteq ClassOf(prog.exitSeed)
Propagating ==
  phase = "propagate" =>
    /\ prog.initSeed \subseteq moduleInitOnly /\ prog.exitSeed \subseteq moduleExitOnly
    /\ ~changed => ClosedUpTo(moduleInitOnly, pos) /\ ClosedUpTo(moduleExitOnly, pos)
Stripped ==
  /\ phase \in {"irq", "exempt", "done"} => Tagged \cap prog.recurring = {}
  /\ phase = "done" => Tagged \cap (prog.addrTaken \ prog.lifecycleName) = {}
ClassInv == TypeOK /\ TagsAreInClasses /\ Propagating /\ Stripped /\ ClassesAreLeast

(* And of the closure of the handlers: it has nothing that is not reachable,*)
(* and lacks the callees of functions of the worklist only.                 *)
Reaching ==
  /\ prog.async \subseteq irqReachable /\ irqReachable \subseteq ReachableFrom(prog.async)
  /\ worklist \subseteq irqReachable
  /\ phase \in {"propagate", "strip"} => irqReachable = prog.async
  /\ phase \in {"irq", "exempt", "done"} =>
       \A h \in irqReachable \ worklist : prog.calls[h] \subseteq irqReachable
  /\ phase \in {"exempt", "done"} => worklist = {}

(* The strips apart, initOnly and exitOnly stay the seeds.                  *)
SeedTags == initOnly \subseteq prog.initSeed /\ exitOnly \subseteq prog.exitSeed
IInv == ClassInv /\ Reaching /\ SeedTags

----------------------------------------------------------------------------
(* The classification of a unit that the pre-pass has seeded, seen against   *)
(* the whole corpus, field corpus of the program (<<>> for others).         *)

Corpus == prog.corpus

(* A seeded program is a unit of the corpus it belongs to, all of whose     *)
(* names are Fns: a unit's static functions and those of its sections are   *)
(* among the ones it defines, only those call, and a marker names something.*)
WellFormed(u) ==
  /\ u.defs \subseteq Fns /\ u.internal \subseteq u.defs
  /\ u.calls \in [Fns -> SUBSET Fns] /\ \A f \in Fns \ u.defs : u.calls[f] = {}
  /\ u.initSection \subseteq u.defs /\ u.exitSection \subseteq u.defs
  /\ u.exitcalls \subseteq Fns /\ u.taken \subseteq Fns
  /\ \A t \in u.tokens : t \in Seq(Fns) /\ t # <<>>

ASSUME CorpusAssumption ==
  \A p \in Programs : p.corpus # <<>> =>
    /\ \E k \in DOMAIN p.corpus : p = UnitProgram(p.corpus, k)
    /\ \A i \in DOMAIN p.corpus : WellFormed(p.corpus[i])

(* A name names one function: it is defined once, and if it is static no    *)
(* other unit calls it; every file can be read; and an initcall marker      *)
(* names a function that is there and that its unit knows.                  *)
WellScoped(c) ==
  \A i, j \in DOMAIN c : i # j => \A f \in c[i].defs : c[i].calls[f] \cap c[j].internal = {}
Unambiguous ==
  /\ \A i, j \in DOMAIN Corpus : i # j => Corpus[i].defs \cap Corpus[j].defs = {}
  /\ WellScoped(Corpus)
  /\ Scanned(Corpus) = DOMAIN Corpus
  /\ \A i \in DOMAIN Corpus : \A t \in Corpus[i].tokens : t[1] \in FnDefs(Corpus) \cap Known(Corpus[i])

(* The functions from which f is reached by calls, across units, without    *)
(* passing through a function of stop.                                      *)
ReachingFrom(f, stop) ==
  {g \in Fns :
     \A S \in SUBSET Fns :
       f \in S /\ (\A h \in S \ stop : CallersOf(Corpus, h) \subseteq S) => g \in S}

(* Where a chain of calls may start at runtime: a function nothing calls,   *)
(* or one that is called through a pointer.                                 *)
Uncalled == {g \in FnDefs(Corpus) : CallersOf(Corpus, g) = {}}
Escaping == UNION {Corpus[i].taken : i \in DOMAIN Corpus}

(* What is classified in one unit is true of the whole corpus: no chain of  *)
(* calls, through whatever units, reaches a function tagged init-only       *)
(* unless it passes one that really is an initcall or in .init.text; and    *)
(* likewise for exit.  The names of the seed files are not even reached     *)
(* from a function whose address is taken.                                  *)
EnclosedBy(f, roots, entries) == ReachingFrom(f, roots) \cap (entries \ roots) = {}
CorpusTagsEnclosed ==
  (Corpus # <<>> /\ phase = "done" /\ Unambiguous) =>
    /\ \A f \in moduleInitOnly \cup initOnly : EnclosedBy(f, InitCalls(Corpus), Uncalled)
    /\ \A f \in moduleExitOnly \cup exitOnly : EnclosedBy(f, ExitCalls(Corpus), Uncalled)
    /\ \A f \in initOnly : EnclosedBy(f, InitCalls(Corpus), Uncalled \cup Escaping)
    /\ \A f \in exitOnly : EnclosedBy(f, ExitCalls(Corpus), Uncalled \cup Escaping)

----------------------------------------------------------------------------
(* Statements of the documentation and the comments.                        *)

(* "Tag them so H27 propagation cannot mark them (or anything reachable     *)
(* only from them) module-init-only or module-exit-only"                    *)
(* (fn_heuristics.cpp:1269-1271).                                           *)
HelpersOfCallbacksUntagged ==
  phase = "done" =>
    \A f \in Fns :
      /\ Callers(f) # {}
      /\ Callers(f) \subseteq prog.recurring
      /\ f \notin prog.initSeed \cup prog.exitSeed
      => f \notin moduleInitOnly \cup moduleExitOnly

(* "transitively reachable only from functions in .init.text and not        *)
(* reachable from any .exit.text function" (fn_heuristics.h:189-191).       *)
InitOnlyNotReachedFromExit ==
  phase = "done" =>
    moduleInitOnly \cap (ReachableFrom(prog.exitSeed) \ prog.initSeed) = {}

(* "The irqReachable gate is critical: address-taken alone is too broad"    *)
(* (fn_heuristics.cpp:1909): what is not reachable from an asynchronous     *)
(* context keeps its class.                                                 *)
OnlyAsyncExempted ==
  [][phase' = "done" => moduleInitOnly \ moduleInitOnly' \subseteq irqReachable]_vars

(* "f has at least one in-IR caller AND every caller of f is in init_set"   *)
(* (run_kernel_noLTO.py:175-176), of the files that are written.            *)
CallersInClass ==
  Corpus # <<>> =>
    \A f \in InitSeedFile(Corpus) \ InitCalls(Corpus) :
      CallersOf(Corpus, f) \subseteq InitSeedFile(Corpus)

============================================================================

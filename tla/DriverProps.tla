------------------------------ MODULE DriverProps ------------------------------
(****************************************************************************)
(* Properties of the process as a whole.                                    *)
(****************************************************************************)
EXTENDS Driver

(* The passes agree on the module, in every mode and order of requests: no  *)
(* pass is run while another holds SVF (it is one global object); anchors   *)
(* are searched in the module as it was loaded, before allocator calls are  *)
(* rewritten; and a cached result with values of the module in it (the      *)
(* accesses of brackets and pairs) was made after the last rewriting, so no *)
(* value in it has been erased.  SVF is given back before the process ends. *)
(* And the passes that worked on SVF knew the same heap objects, and of     *)
(* globals, what brackets are formed for partners are looked for.           *)
Shared(p) == SharedIn(unit, p, made[p])
PassesAgree ==
  /\ svf # "none" => stack # <<>> /\ Top.pass = svf
  /\ made["AnchorPass"] # "normalised"
  /\ \A p \in Passes \ {"AnchorPass"} : made[p] \in {"nothing", Version}
  /\ exit # -1 => svf = "none"
  /\ \A p, q \in {r \in Passes \ {"AnchorPass"} : made[r] # "nothing"} :
       /\ Shared(p).heap = Shared(q).heap
       /\ q = "FunctionPairsPass" => Shared(p).globals \subseteq Shared(q).globals

(* Phases nest, yet every tick is charged to exactly one: what the closed   *)
(* scopes have been charged and the open ones would keep, taken together,   *)
(* is the time since the outermost was opened.                              *)
Inner(i) == IF i < Len(scopes) THEN now - scopes[i + 1].start ELSE 0
Kept(i) == now - scopes[i].start - scopes[i].child - Inner(i)
TimeConserved ==
  /\ \A i \in DOMAIN scopes : Kept(i) >= 0
  /\ scopes # <<>> =>
       SumFunction(spent) + SumFunction([i \in DOMAIN scopes |-> Kept(i)])
         = now - scopes[1].start

(* The counters are accounted for (HitsAccounted), and the STATS lines add  *)
(* up: every pair is filtered or surviving, and the filtered ones are the   *)
(* hits of the heuristics that were not disabled.                           *)
StatsAddUp ==
  /\ HitsAccounted
  /\ stats # <<>> =>
       /\ stats.total = Len(unit.pairs)
       /\ stats.total = stats.filtered + stats.surviving
       /\ stats.filtered = SumFunctionOnSet(stats.heuristic, Names \ disabled)

(* Which of the two functions has the anchor is an accident of the code     *)
(* under analysis: two pairs of the same functions, with the same kind of   *)
(* anchor and accesses, are both passed on or both dropped.                 *)
Mirrored(p, q) ==
  /\ p.anchor = q.partner /\ p.partner = q.anchor
  /\ p.label = q.label /\ p.writes = q.writes /\ p.descs = q.descs
SideIndependent ==
  phase = "done" =>
    \A i, j \in Pairs : Mirrored(unit.pairs[i], unit.pairs[j]) =>
      ((\E s \in DOMAIN survivors : survivors[s] = i)
        <=> (\E s \in DOMAIN survivors : survivors[s] = j))

(* The process ends, and if it asked for the filter every pair is decided.  *)
Ends ==
  <>(/\ stack = <<>> /\ exit # -1
     /\ "FnHeuristicsFilterPass" \in cache => Len(survivors) + Len(records) = Len(unit.pairs))

----------------------------------------------------------------------------
(* The inductive invariant behind PassesAgree.                              *)

(* How far up a pass is: every pass asks for results of lower ones only.    *)
Level(p) ==
  CASE p = "main" -> 7
    [] p = "LitmusVerifierPass" -> 6
    [] p = "Herd7TranspilerPass" -> 5
    [] p = "FnHeuristicsFilterPass" -> 4
    [] p = "FunctionPairsPass" -> 3
    [] p = "CausalDetectPass" -> 2
    [] p = "AnchorPass" -> 1
    [] p = "FSPTAPass" -> 0

Frames == [pass : Passes \cup {"main"}, pc : Nat \ {0}, open : Int]
DriverTypeOK ==
  /\ flags \subseteq {ModeOrder[i] : i \in DOMAIN ModeOrder}
  /\ cache \subseteq Passes
  /\ normalised \in BOOLEAN
  /\ made \in [Passes -> {"nothing", "source", "normalised"}]

(* main is the outermost, and nobody is past the end of what it does.       *)
StackOK ==
  /\ stack \in Seq(Frames)
  /\ \A i \in DOMAIN stack :
       /\ stack[i].pc <= Len(Script(stack[i].pass)) + 1
       /\ stack[i].pass = "main" <=> i = 1

(* A pass runs because the one below it on the stack has just asked for it, *)
(* and its own results are not there yet; no pass runs twice at a time.     *)
CalledForAResult ==
  /\ \A i \in DOMAIN stack \ {1} :
       /\ stack[i].pass \notin cache
       /\ stack[i - 1].pc > 1
       /\ Script(stack[i - 1].pass)[stack[i - 1].pc - 1] = Need(stack[i].pass)
  /\ \A i, j \in DOMAIN stack : i < j => Level(stack[j].pass) < Level(stack[i].pass)

(* What a pass has asked for it has got, except for the call under way.     *)
Got(s, k) == Script(s.pass)[k].op = "need" => Script(s.pass)[k].arg \in cache
NeedsMet ==
  /\ \A i \in DOMAIN stack \ {1} : \A k \in 1..(stack[i].pc - 1) :
       (i = Len(stack) \/ k # stack[i].pc - 1) => Got(stack[i], k)
  /\ \A p \in cache : \A k \in DOMAIN Script(p) :
       Script(p)[k].op = "need" => Script(p)[k].arg \in cache

(* FSPTAPass is for itself: it runs if no mode flag is given, and then no   *)
(* other pass runs.                                                         *)
ModesApart ==
  /\ flags = {} => \A i \in DOMAIN stack : stack[i].pass \in {"main", "FSPTAPass"}
  /\ flags # {} => \A i \in DOMAIN stack : stack[i].pass # "FSPTAPass"

(* Anchors are searched before anything is rewritten.                       *)
ScannedFirst == normalised /\ flags # {} => "AnchorPass" \in cache

(* SVF is held between building and releasing it, by the pass that runs,    *)
(* and is not built before the module is rewritten.                         *)
HeldByRunning == svf # "none" => stack # <<>> /\ Op.op = "release" /\ Top.pass = svf
NormalisedFirst ==
  \A i \in DOMAIN stack :
    LET s == Script(stack[i].pass)
    IN  stack[i].pc \in DOMAIN s /\ s[stack[i].pc].op \in {"build", "release"} => normalised

MadeRight ==
  /\ made["AnchorPass"] # "normalised"
  /\ \A p \in Passes \ {"AnchorPass"} :
       made[p] # "nothing" => normalised /\ made[p] = "normalised"

(* Once the exit status is set, main has nothing left but to return.        *)
Exiting ==
  exit # -1 => \A i \in DOMAIN stack : i = 1 /\ stack[i].pc = Len(Script("main")) + 1

Discipline ==
  /\ DriverTypeOK /\ StackOK /\ CalledForAResult /\ NeedsMet /\ ModesApart
  /\ ScannedFirst /\ HeldByRunning /\ NormalisedFirst /\ MadeRight /\ Exiting

(* The inductive invariant behind TimeConserved: the frames of the stack    *)
(* account for the open scopes, main and the anchor scan have one to close  *)
(* where they close one, main's own stays open until it returns, and time   *)
(* is charged from then on only.                                            *)
ScopeRecords == [phase : Phases, start : Int, child : Int]
ClockTypeOK ==
  /\ now \in Int
  /\ scopes \in Seq(ScopeRecords)
  /\ spent \in [Phases -> Int]
EnoughOpen(f) ==
  /\ f.open >= 0
  /\ f.pass = "main" /\ f.pc \in 3..Len(Script("main")) => f.open >= 1
  /\ f.pass = "main" /\ f.pc \in 4..5 => f.open >= 2
  /\ f.pass = "AnchorPass" /\ f.pc = 3 => f.open >= 1
OpenOf == [i \in DOMAIN stack |-> stack[i].open]
ScopesOfFrames ==
  /\ \A i \in DOMAIN stack : EnoughOpen(stack[i])
  /\ Len(scopes) = SumFunction(OpenOf)
NotYetCharged == stack # <<>> /\ stack[1].pc <= 2 => \A p \in Phases : spent[p] = 0
Clocked == ClockTypeOK /\ ScopesOfFrames /\ NotYetCharged /\ TimeConserved

(* The inductive invariant behind StatsAddUp: when the filter has returned  *)
(* it has been through all pairs, or there are none; main goes on when it   *)
(* has got what it has asked for, so the STATS lines come after that; and   *)
(* by then the options have been read, once.                                *)
Through == phase = "done" \/ Len(unit.pairs) = 0
FilterReturns ==
  /\ \A i \in DOMAIN stack :
       stack[i].pass = "FnHeuristicsFilterPass" /\ stack[i].pc = Len(Script(stack[i].pass)) + 1
         => Through
  /\ "FnHeuristicsFilterPass" \in cache => Through
MainGets ==
  stack # <<>> /\ stack[1].pc <= Len(Script("main")) /\ Mode # "litmus" =>
    \A k \in 1..(stack[1].pc - 1) : (Len(stack) = 1 \/ k # stack[1].pc - 1) => Got(stack[1], k)
OptionsRead == stack # <<>> /\ stack[1].pc > 1 => phase # "options"
StatsPrinted ==
  stats # <<>> =>
    /\ phase # "options"
    /\ stats.total = Len(unit.pairs)
    /\ stats.total = stats.filtered + stats.surviving
    /\ stats.filtered = SumFunctionOnSet(stats.heuristic, Names \ disabled)
UnitRead ==
  /\ matches = Verdicts(unit)
  /\ \E c \in Cases : unit = c.unit
Reported ==
  Tally /\ UnitRead /\ FilterReturns /\ MainGets /\ OptionsRead /\ StatsPrinted

----------------------------------------------------------------------------
(* Statements of the documentation and the comments.                        *)

(* "Mirrors the logic in CausalDetectPass::run() exactly"                   *)
(* (function_pairs.cpp:75).                                                 *)
SharedMirrored ==
  \A p, q \in {"CausalDetectPass", "FunctionPairsPass"} :
    made[p] # "nothing" /\ made[q] # "nothing" => Shared(p) = Shared(q)

(* "_kref_release / _kobject_release ... are kept because they are FINAL    *)
(* teardown" (fn_heuristics.cpp:1047-1048).                                 *)
FinalReleaseIsExit ==
  \A f \in Fns : EndsWithAny(unit.name[f], ExitSuffixes) => f \in Facts(unit).exitOnly

(* "the two CAN run concurrently on different CPUs" (fn_heuristics.h:129):  *)
(* an irq handler and the function that registers it.                       *)
RegistrarAndHandlerKept ==
  \A f, g \in Fns :
    (\E c \in unit.body[f] : c.api \in AsyncRegistrations /\ g \in c.fns) =>
      \A i \in DOMAIN records :
        {unit.pairs[records[i].pair].anchor, unit.pairs[records[i].pair].partner} = {f, g}
          => records[i].by # "RegistrationPublish"

(* "so we cannot accidentally suppress a probe-vs-resume or                 *)
(* runtime-vs-suspend pair" (fn_heuristics.cpp:817-818).                    *)
RuntimePmKept ==
  \A i \in DOMAIN records :
    records[i].by = "PmPhase" =>
      ~\E f \in {unit.pairs[records[i].pair].anchor, unit.pairs[records[i].pair].partner} :
         EndsWithAny(unit.name[f], {<<"runtime", "suspend">>, <<"runtime", "resume">>})

(* "both functions acquire the same exclusive kernel lock (spin_lock,       *)
(* mutex_lock, etc.)" (fn_heuristics.h:148).                                *)
LockAliasNamesALock ==
  \A i \in DOMAIN records :
    records[i].by = "LockAlias" =>
      \E f \in {unit.pairs[records[i].pair].anchor, unit.pairs[records[i].pair].partner} :
        Operands(unit, f, ExclusiveLockAcquires) # {}

============================================================================

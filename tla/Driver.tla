--------------------------------- MODULE Driver ---------------------------------
(****************************************************************************)
(* mbcheck as a process (mbcheck.cpp, phase_timer.cpp): main reads its      *)
(* options, loads the unit and asks the analysis manager for the results    *)
(* that the mode prints; a pass asks for the results it needs, which runs   *)
(* the passes below it unless they are cached.                              *)
(*                                                                          *)
(* All passes share one module, which the first that needs points-to        *)
(* information rewrites (normaliseKernelAllocators), one SVF, built and     *)
(* released by each of them, and one clock of nested phases.                *)
(****************************************************************************)
EXTENDS FilterChainProps, FilterPass, SharedObjects

CONSTANT Cases    \* what mbcheck is started on: unit, request and flags

ModeOrder == <<"anchors", "causal", "pairs", "filter", "litmus", "verify", "summary">>

ASSUME CasesAssumption ==
  /\ Chain = FilterOrder
  /\ \A c \in Cases :
       LET n == Len(c.unit.pairs)
       IN  /\ n \in Nat /\ DOMAIN c.unit.pairs = 1..n
           /\ "FunctionPairsPass" \notin c.unit.found => n = 0
           /\ c.flags \subseteq {ModeOrder[i] : i \in DOMAIN ModeOrder}

VARIABLES
  unit,        \* the unit (IrScan); no step changes it
  flags,       \* the mode flags given; no step changes it
  stack,       \* main and the passes that run, the innermost last
  cache,       \* the passes whose results the analysis manager has
  normalised,  \* have the allocator calls of the module been rewritten?
  svf,         \* the pass that holds SVF, "none" if nobody does
  made,        \* per pass, which module it has read or built SVF from
  now,         \* the clock
  scopes,      \* the open phases, the innermost last
  spent,       \* per phase, the time charged to it
  stats,       \* the STATS lines of --summary, <<>> before
  exit         \* the exit status, -1 while running

driverVars == <<vars, unit, flags, stack, cache, normalised, svf, made, now, scopes, spent, stats, exit>>

Passes ==
  {"AnchorPass", "CausalDetectPass", "FunctionPairsPass", "FnHeuristicsFilterPass",
   "Herd7TranspilerPass", "LitmusVerifierPass", "FSPTAPass"}
Phases ==
  {"other", "ir_load", "anchor_db", "summarize_extfn", "bracket_extraction",
   "function_pairing", "mutex_filtering", "transpiler"}

----------------------------------------------------------------------------
(* The first flag of ModeOrder decides.                                     *)
Mode ==
  IF flags = {} THEN "pta"
  ELSE ModeOrder[CHOOSE i \in DOMAIN ModeOrder :
         ModeOrder[i] \in flags /\ \A j \in 1..(i - 1) : ModeOrder[j] \notin flags]

Do(op, arg) == [op |-> op, arg |-> arg]
Need(p) == Do("need", p)

Wanted ==
  [anchors |-> <<Need("AnchorPass")>>, causal |-> <<Need("CausalDetectPass")>>,
   pairs |-> <<Need("FunctionPairsPass")>>, filter |-> <<Need("FnHeuristicsFilterPass")>>,
   litmus |-> <<Need("Herd7TranspilerPass")>>, verify |-> <<Need("LitmusVerifierPass")>>,
   summary |-> <<Need("AnchorPass"), Need("CausalDetectPass"), Need("FnHeuristicsFilterPass"),
                 Need("FunctionPairsPass"), Need("Herd7TranspilerPass"), Do("print", "STATS")>>,
   pta |-> <<Need("FSPTAPass")>>]

(* What main and the passes do, in order.  "unless" returns at once if that *)
(* pass found nothing; scopes that are still open close on return.          *)
After_Built(ph, p) ==                                           \* mutant
  <<Do("open", ph), Do("normalise", "-"), Do("build", "-"), Need(p), Do("unless", p),
    Do("release", "-")>>
After(ph, p) ==
  <<Do("open", ph), Need(p), Do("unless", p), Do("normalise", "-"), Do("build", "-"),
    Do("release", "-")>>
OnSvf == <<Do("normalise", "-"), Do("build", "-"), Do("release", "-")>>
StartUp ==
  <<Do("options", "-"), Do("open", "other"), Do("open", "ir_load"), Do("parse", "-"), Do("close", "-")>>
Script(pass) ==
  CASE pass = "main" -> Append(StartUp \o Wanted[Mode], Do("close", "-"))
    [] pass = "AnchorPass" ->
         <<Do("open", "anchor_db"), Do("open", "summarize_extfn"), Do("close", "-"), Do("scan", "-")>>
    [] pass = "CausalDetectPass" -> After("bracket_extraction", "AnchorPass")
    [] pass = "FunctionPairsPass" -> After("function_pairing", "CausalDetectPass")
    [] pass = "FnHeuristicsFilterPass" ->
         Append(After("mutex_filtering", "FunctionPairsPass"), Do("filter", "-"))
    [] pass = "Herd7TranspilerPass" -> <<Do("open", "transpiler"), Need("FnHeuristicsFilterPass")>>
    [] pass = "LitmusVerifierPass" ->
         <<Need("FnHeuristicsFilterPass"), Need("Herd7TranspilerPass")>>
    [] pass = "FSPTAPass" -> OnSvf

Frame(pass) == [pass |-> pass, pc |-> 1, open |-> 0]
Top == stack[Len(stack)]
Ended == Top.pc > Len(Script(Top.pass))
Op == IF stack = <<>> \/ Ended THEN [op |-> "none", arg |-> "-"] ELSE Script(Top.pass)[Top.pc]
Advanced == [stack EXCEPT ![Len(stack)].pc = @ + 1]
Returning == [stack EXCEPT ![Len(stack)].pc = Len(Script(Top.pass)) + 1]

(* The filtered pairs that --summary prints.                                *)
Filtered_AllHits == MapThenSumSet(LAMBDA h : hits[h], Names)    \* mutant
Filtered == totalPairs - Len(survivors)

(* Did pass p find anything?  found lists the passes that did.              *)
FoundNothing(p) == p \notin unit.found

Version == IF normalised THEN "normalised" ELSE "source"

----------------------------------------------------------------------------
(* Scope::~Scope: the caller is charged the whole span, the phase what its  *)
(* own callees have not been charged.                                       *)
Scope(ph) == [phase |-> ph, start |-> now, child |-> 0]
Elapsed == now - scopes[Len(scopes)].start
Charged ==
  [spent EXCEPT ![scopes[Len(scopes)].phase] =
     @ + (IF Elapsed > scopes[Len(scopes)].child THEN Elapsed - scopes[Len(scopes)].child ELSE 0)]
Closed_Alone == SubSeq(scopes, 1, Len(scopes) - 1)               \* mutant
Closed ==
  LET rest == SubSeq(scopes, 1, Len(scopes) - 1)
  IN  IF rest = <<>> THEN rest ELSE [rest EXCEPT ![Len(rest)].child = @ + Elapsed]

----------------------------------------------------------------------------
DriverInit ==
  /\ \E c \in Cases : unit = c.unit /\ request = c.request /\ flags = c.flags
  /\ matches = Verdicts(unit)
  /\ Start
  /\ stack = <<Frame("main")>>
  /\ cache = {}
  /\ normalised = FALSE
  /\ svf = "none"
  /\ made = [p \in Passes |-> "nothing"]
  /\ now = 0
  /\ scopes = <<>>
  /\ spent = [p \in Phases |-> 0]
  /\ stats = <<>>
  /\ exit = -1

Options ==
  /\ Op.op = "options"
  /\ SetDisabled
  /\ stack' = Advanced
  /\ UNCHANGED <<cache, normalised, svf, made, scopes, spent, stats, exit>>

Open ==
  /\ Op.op = "open"
  /\ scopes' = Append(scopes, Scope(Op.arg))
  /\ stack' = [Advanced EXCEPT ![Len(stack)].open = @ + 1]
  /\ UNCHANGED <<vars, cache, normalised, svf, made, spent, stats, exit>>

Close ==
  /\ Op.op = "close"
  /\ spent' = Charged
  /\ scopes' = Closed
  /\ stack' = [Advanced EXCEPT ![Len(stack)].open = @ - 1]
  /\ UNCHANGED <<vars, cache, normalised, svf, made, stats, exit>>

Parse ==
  /\ Op.op = "parse"
  /\ \/ stack' = Advanced /\ exit' = exit
     \/ stack' = Returning /\ exit' = 1
  /\ UNCHANGED <<vars, cache, normalised, svf, made, scopes, spent, stats>>

Call ==
  /\ Op.op = "need"
  /\ stack' = IF Op.arg \in cache THEN Advanced ELSE Append(Advanced, Frame(Op.arg))
  /\ UNCHANGED <<vars, cache, normalised, svf, made, scopes, spent, stats, exit>>

(* --herd7 without an output directory: an error line, and main goes on to  *)
(* its end.                                                                 *)
NoDirectory ==
  /\ Op.op = "need" /\ Top.pass = "main" /\ Mode = "litmus"
  /\ stack' = Advanced
  /\ UNCHANGED <<vars, cache, normalised, svf, made, scopes, spent, stats, exit>>

Unless ==
  /\ Op.op = "unless"
  /\ stack' = IF FoundNothing(Op.arg) THEN Returning ELSE Advanced
  /\ UNCHANGED <<vars, cache, normalised, svf, made, scopes, spent, stats, exit>>

Scan ==
  /\ Op.op = "scan"
  /\ made' = [made EXCEPT ![Top.pass] = Version]
  /\ stack' = Advanced
  /\ UNCHANGED <<vars, cache, normalised, svf, scopes, spent, stats, exit>>

Normalise ==
  /\ Op.op = "normalise"
  /\ normalised' = TRUE
  /\ stack' = Advanced
  /\ UNCHANGED <<vars, cache, svf, made, scopes, spent, stats, exit>>

Build ==
  /\ Op.op = "build"
  /\ svf' = Top.pass
  /\ made' = [made EXCEPT ![Top.pass] = Version]
  /\ stack' = Advanced
  /\ UNCHANGED <<vars, cache, normalised, scopes, spent, stats, exit>>

Release ==
  /\ Op.op = "release"
  /\ svf' = "none"
  /\ stack' = Advanced
  /\ UNCHANGED <<vars, cache, normalised, made, scopes, spent, stats, exit>>

FilterLoop ==
  /\ Op.op = "filter"
  /\ Fetch \/ NoMatch \/ CountOnly \/ Suppress \/ Survive \/ Finish
  /\ stack' = IF phase' = "done" THEN Advanced ELSE stack
  /\ UNCHANGED <<cache, normalised, svf, made, scopes, spent, stats, exit>>

PrintStats ==
  /\ Op.op = "print"
  /\ stats' = [total |-> totalPairs, filtered |-> Filtered,
               surviving |-> Len(survivors), heuristic |-> hits]
  /\ stack' = Advanced
  /\ UNCHANGED <<vars, cache, normalised, svf, made, scopes, spent, exit>>

(* The end of a body: its scopes close, the innermost first; the result of  *)
(* a pass is cached.                                                        *)
Unwind ==
  /\ stack # <<>> /\ Ended /\ Top.open > 0
  /\ spent' = Charged
  /\ scopes' = Closed
  /\ stack' = [stack EXCEPT ![Len(stack)].open = @ - 1]
  /\ UNCHANGED <<vars, cache, normalised, svf, made, stats, exit>>

Leave ==
  /\ stack # <<>> /\ Ended /\ Top.open = 0
  /\ stack' = SubSeq(stack, 1, Len(stack) - 1)
  /\ cache' = IF Top.pass = "main" THEN cache ELSE cache \cup {Top.pass}
  /\ exit' = IF Top.pass = "main" /\ exit = -1 THEN 0 ELSE exit
  /\ UNCHANGED <<vars, normalised, svf, made, scopes, spent, stats>>

DriverNext ==
  /\ \/ Options \/ Open \/ Close \/ Parse \/ Call \/ NoDirectory \/ Unless \/ Scan
     \/ Normalise \/ Build \/ Release \/ FilterLoop \/ PrintStats \/ Unwind \/ Leave
  /\ now' = now + 1
  /\ UNCHANGED <<unit, flags>>

(* One thread that runs to its end.                                         *)
DriverSpec == DriverInit /\ [][DriverNext]_driverVars /\ WF_driverVars(DriverNext)

============================================================================

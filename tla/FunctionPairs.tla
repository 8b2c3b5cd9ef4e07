---------------------------- MODULE FunctionPairs ----------------------------
(****************************************************************************)
(* Partner matching, step 6 of FunctionPairsPass::run (function_pairs.cpp), *)
(* and the read-read filter that consumes its result (ReadReadPair in       *)
(* fn_heuristics.cpp).  The footprints come from TransitiveFootprint, the   *)
(* specification that the worklist of module Footprint implements.          *)
(*                                                                          *)
(* A module under analysis is a record                                      *)
(*   body     : body[f], the instructions of f that carry a pointer         *)
(*   calls    : calls[f], the direct call sites of f                        *)
(*   brackets : the brackets of CausalDetect in iteration order             *)
(* Objects are SVF NodeIDs, so a points-to set iterates in ascending order. *)
(****************************************************************************)
EXTENDS Integers, Sequences, FiniteSets

CONSTANTS
  Fns, Decls, Objs, Labels,
  Modules     \* the modules considered

Orderings == {"CompilerOnly", "Relaxed", "Release", "Acquire", "SC"}

(* The enumerators of anchors::Ordering; the code compares their values.    *)
Rank == [o \in Orderings |->
  CASE o = "CompilerOnly" -> 1 [] o = "Relaxed" -> 2 [] o = "Release" -> 3
    [] o = "Acquire" -> 4      [] o = "SC" -> 5]

(* objs: what the operand may point to for SVF.  loaded: how the pointer    *)
(* was itself obtained, by a plain load or by an inline-asm one (ldar), and *)
(* from: the objects it was loaded from.                                    *)
Instructions ==
  [kind   : {"load", "store", "ldar", "stlr", "rmw", "call"},
   objs   : SUBSET Objs,
   loaded : {"no", "plain", "asm"},
   from   : SUBSET Objs]

(* A side of a bracket; NoAccess stands for std::nullopt.                   *)
Accesses == [kind : {"load", "store", "none"}, objs : SUBSET Objs]
NoAccess == [kind |-> "none", objs |-> {}]

(* op: what the anchor instruction itself does to its operand, if it has    *)
(* one; channel: the objects of anchorAlloc.                                *)
Brackets ==
  [fn : Fns, label : Labels, ordering : Orderings,
   op : {"fence", "store", "rmw"}, channel : SUBSET Objs,
   before : Accesses, after : Accesses]

ASSUME ObjsAssumption == Objs \subseteq Nat /\ IsFiniteSet(Objs)
ASSUME FnsAssumption == IsFiniteSet(Fns)

(* AnchorPass records a label once per function (seenLabels) and            *)
(* CausalDetect forms at most one bracket per recorded label.               *)
ASSUME ModulesAssumption ==
  \A m \in Modules :
    /\ m.body \in [Fns -> Seq(Instructions)]
    /\ m.calls \in [Fns -> SUBSET (Fns \cup Decls)]
    /\ m.brackets \in Seq(Brackets)
    /\ \A i, j \in DOMAIN m.brackets :
         /\ m.brackets[i].fn = m.brackets[j].fn
         /\ m.brackets[i].label = m.brackets[j].label
         => i = j

VARIABLES
  mod,        \* the module under analysis; no step changes it
  phase,      \* "footprint", "match", "filter" or "done"
  footprint,  \* the footprints, once the worklist has drained
  next,       \* index of the next bracket to match
  pairs,      \* byAnchorFn, flattened
  filtered    \* the pairs ReadReadPair suppressed

vars == <<mod, phase, footprint, next, pairs, filtered>>

(* The summary of a module the footprint computation works on: what each    *)
(* function touches itself, and whom it calls.                              *)
Touched(code) == UNION {code[i].objs : i \in DOMAIN code}
Summary(m) == [direct |-> [f \in Fns |-> Touched(m.body[f])], calls |-> m.calls]

TF == INSTANCE TransitiveFootprint
        WITH Programs <- {Summary(m) : m \in Modules}, prog <- Summary(mod),
             result <- footprint, ready <- (phase # "footprint")

----------------------------------------------------------------------------
Causal(br) == br.before.objs \cup br.after.objs
HasChannel(br) == br.channel # {}

(* The side of a barrier without an operand that partners are matched on.   *)
BarrierChannel(br) ==
  IF Rank[br.ordering] >= Rank["Release"] /\ br.after.objs # {} THEN br.after.objs
  ELSE IF br.ordering = "Acquire" /\ br.before.objs # {} THEN br.before.objs
  ELSE IF br.after.objs # {} THEN br.after.objs
  ELSE br.before.objs

(* The objects of which a partner must touch one.                           *)
Required(br) == IF HasChannel(br) THEN br.channel ELSE BarrierChannel(br)

(* The objects whose accesses in the partner are reported.                  *)
Relevant_CausalOnly(br) == Causal(br)                           \* mutant
Relevant(br) == br.channel \cup Causal(br)

Partners_WithSelf(br) ==                                        \* mutant
  {g \in Fns : footprint[g] \cap Required(br) # {}}
Partners_OwnBody(br) ==                                         \* mutant
  {g \in Fns \ {br.fn} : Touched(mod.body[g]) \cap Required(br) # {}}
Partners(br) == {g \in Fns \ {br.fn} : footprint[g] \cap Required(br) # {}}

(* The objects one of which a dereference of a channel-derived pointer is   *)
(* attributed to.                                                           *)
Payload(br) ==
  IF HasChannel(br) /\ Causal(br) # {} THEN Causal(br)
  ELSE Relevant(br) \ Required(br)

(* Can SVF see the instruction touch a relevant object?  If not, was its    *)
(* pointer loaded from the channel?                                         *)
Direct(br, inst) == inst.objs \cap Relevant(br) # {}
Derived(br, inst) ==
  \/ inst.loaded = "asm" /\ inst.from \cap Relevant(br) # {}
  \/ inst.loaded = "plain" /\ inst.from \cap Required(br) # {} /\ Payload(br) # {}
HitsRelevant(br, inst) == Direct(br, inst) \/ Derived(br, inst)

Smallest(S) == CHOOSE o \in S : \A p \in S : o <= p

(* The single object a hit is reported under.                               *)
Hit(br, inst) ==
  IF Direct(br, inst) THEN Smallest(inst.objs \cap Relevant(br))
  ELSE IF Payload(br) # {} THEN CHOOSE o \in Payload(br) : TRUE
  ELSE Smallest(inst.from \cap Relevant(br))

(* The partner accesses of a pair: the first instruction of the partner's   *)
(* own body for every object hit.                                           *)
PartnerAccesses(br, g) ==
  LET code == mod.body[g]
      First(i) == /\ HitsRelevant(br, code[i])
                  /\ \A j \in 1..(i - 1) :
                       HitsRelevant(br, code[j]) => Hit(br, code[j]) # Hit(br, code[i])
  IN  {[at |-> i, kind |-> code[i].kind, obj |-> Hit(br, code[i])] :
         i \in {k \in DOMAIN code : First(k)}}

(* Is there already a pair of this anchor function with this partner and    *)
(* this anchor label?                                                       *)
Duplicate_ByPartner(br, g) ==                                   \* mutant
  \E p \in pairs : p.bracket.fn = br.fn /\ p.partner = g
Duplicate(br, g) ==
  \E p \in pairs :
    p.bracket.fn = br.fn /\ p.partner = g /\ p.bracket.label = br.label

NewPairs(br) ==
  {[bracket |-> br, partner |-> g, accesses |-> PartnerAccesses(br, g)] :
     g \in {h \in Partners(br) : ~Duplicate(br, h)}}

(* ReadReadPair: neither neighbour of the anchor is a store and no partner  *)
(* access reads like one.  Of the inline-asm accesses only stlr (and swpal) *)
(* are recognised.                                                          *)
IrInstIsStore(access) == access.kind \in {"store", "stlr"}
AllLoads(p) ==
  /\ p.bracket.before.kind # "store"
  /\ p.bracket.after.kind # "store"
  /\ \A a \in p.accesses : ~IrInstIsStore(a)

----------------------------------------------------------------------------
Init ==
  /\ mod \in Modules
  /\ phase = "footprint"
  /\ footprint = [f \in Fns |-> {}]
  /\ next = 1
  /\ pairs = {}
  /\ filtered = {}

(* The worklist of step 5b has drained.                                     *)
Footprints ==
  /\ phase = "footprint"
  /\ phase' = "match"
  /\ footprint' = [f \in Fns |-> TF!Full(f)]
  /\ UNCHANGED <<mod, next, pairs, filtered>>

(* One iteration of the loop over the brackets.                             *)
MatchBracket ==
  /\ phase = "match"
  /\ next <= Len(mod.brackets)
  /\ next' = next + 1
  /\ pairs' = pairs \cup NewPairs(mod.brackets[next])
  /\ UNCHANGED <<mod, phase, footprint, filtered>>

(* The pass returns; the filter pass starts with its result.                *)
Return ==
  /\ phase = "match"
  /\ next > Len(mod.brackets)
  /\ phase' = "filter"
  /\ UNCHANGED <<mod, footprint, next, pairs, filtered>>

Filter ==
  /\ phase = "filter"
  /\ phase' = "done"
  /\ filtered' = {p \in pairs : AllLoads(p)}
  /\ UNCHANGED <<mod, footprint, next, pairs>>

Next == Footprints \/ MatchBracket \/ Return \/ Filter

Spec == Init /\ [][Next]_vars /\ WF_vars(Next)

============================================================================

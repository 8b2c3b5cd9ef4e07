-------------------------- MODULE FunctionPairsProps --------------------------
(****************************************************************************)
(* Properties of partner matching and of the read-read filter.              *)
(****************************************************************************)
EXTENDS FunctionPairs

Matched(m) == {m.brackets[i] : i \in 1..(next - 1)}

(* The bracket, the partner and the accesses of every pair have their type. *)
TypeOK ==
  /\ mod \in Modules
  /\ phase \in {"footprint", "match", "filter", "done"}
  /\ footprint \in [Fns -> SUBSET Objs]
  /\ next \in 1..(Len(mod.brackets) + 1)
  /\ \A p \in pairs : p.bracket \in Matched(mod) /\ p.partner \in Fns
  /\ filtered \subseteq pairs

(* g can itself, or through functions it calls, touch an object of S.       *)
CanTouch(g, S) == \E h \in TF!Reachable(g) : Touched(mod.body[h]) \cap S # {}

(* A pair is never invented: the partner is another function that can touch *)
(* an object the anchor orders.                                             *)
PartnerIsReal ==
  \A p \in pairs :
    p.partner # p.bracket.fn /\ CanTouch(p.partner, Required(p.bracket))

(* "Every matched G != F is recorded as a FunctionPair" (function_pairs.h,  *)
(* step 5): a function that can touch a required object of a bracket, also  *)
(* when only through helpers, is in a pair of that very bracket.  Pairs are *)
(* deduplicated by label, so this rests on a label naming one bracket.      *)
EveryMatchRecorded ==
  \A br \in Matched(mod) : \A g \in Fns \ {br.fn} :
    CanTouch(g, Required(br)) =>
      \E p \in pairs : p.bracket = br /\ p.partner = g

(* A pair without any partner access, of which no litmus thread can be      *)
(* built, is one whose partner reaches the required objects only through    *)
(* the functions it calls.                                                  *)
EmptyOnlyThroughHelpers ==
  \A p \in pairs :
    p.accesses = {} =>
      Touched(mod.body[p.partner]) \cap Required(p.bracket) = {}

(* The inductive invariant: the footprints are the transitive ones, every   *)
(* pair carries the accesses of its bracket and partner, no pair is         *)
(* invented and none is lost.                                               *)
FootprintsAreFull ==
  phase # "footprint" => footprint = [f \in Fns |-> TF!Full(f)]
AccessesAreThePartners ==
  \A p \in pairs : p.accesses = PartnerAccesses(p.bracket, p.partner)
IInv ==
  /\ TypeOK
  /\ FootprintsAreFull
  /\ AccessesAreThePartners
  /\ PartnerIsReal
  /\ EveryMatchRecorded

----------------------------------------------------------------------------
(* Statements of the documentation and the comments.                        *)

(* "Acquire -> use the BEFORE object (the flag/pointer that is polled       *)
(* before the barrier)", function_pairs.cpp:281-282.                        *)
AcquireMatchesPolledObject ==
  \A p \in pairs :
    LET br == p.bracket
    IN  ~HasChannel(br) /\ br.ordering = "Acquire" /\ br.before.objs # {}
          => footprint[p.partner] \cap br.before.objs # {}

(* "Emit the first instruction per shared object"                           *)
(* (function_pairs.cpp:513): every object the anchor orders and the         *)
(* partner's own body touches has an access in the pair.                    *)
EveryObjectRepresented ==
  \A p \in pairs :
    \A o \in Touched(mod.body[p.partner]) \cap Relevant(p.bracket) :
      \E a \in p.accesses : a.obj = o

(* "Sound: a data race requires at least one write.  If every access on     *)
(* both sides is a load, the pair cannot be a race"                         *)
(* (fn_heuristics.cpp:117-118): the partner of a suppressed pair writes no  *)
(* object the anchor orders.                                                *)
Writes(inst) == inst.kind \in {"store", "stlr", "rmw"}
DroppedPartnerNeverWrites ==
  \A p \in filtered :
    LET code == mod.body[p.partner]
    IN  \A k \in DOMAIN code :
          Writes(code[k]) => code[k].objs \cap Relevant(p.bracket) = {}

(* "Read-modify-write atomics [...] will have Kind::Store in the            *)
(* AnchorBracket, so they are caught by the bracket-side check"             *)
(* (fn_heuristics.cpp:124-126): the anchor of a suppressed pair does not    *)
(* write an object the partner accesses.                                    *)
DroppedAnchorNeverWrites ==
  \A p \in filtered :
    p.bracket.op \in {"store", "rmw"} =>
      \A a \in p.accesses : a.obj \notin p.bracket.channel

============================================================================

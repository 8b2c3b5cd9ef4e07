------------------------- MODULE FunctionPairsProofs -------------------------
(****************************************************************************)
(* Proofs about partner matching, for every module, every call graph and    *)
(* every points-to result.                                                  *)
(****************************************************************************)
EXTENDS FunctionPairsProps, TLAPS, WellFoundedInduction

----------------------------------------------------------------------------
(* Matching against footprints is matching against what a function can      *)
(* touch.                                                                   *)

(* A function can touch an object of S exactly when S meets its full        *)
(* footprint.                                                               *)
LEMMA TouchIsFootprint ==
  ASSUME NEW g \in Fns, NEW S
  PROVE  TF!Full(g) \cap S # {} <=> CanTouch(g, S)
<1>1. \A h \in Fns : Summary(mod).direct[h] = Touched(mod.body[h])
  BY DEF Summary
<1>2. TF!Reachable(g) \subseteq Fns
  BY DEF TF!Reachable
<1>3. TF!Full(g) = UNION {Touched(mod.body[h]) : h \in TF!Reachable(g)}
  BY <1>1, <1>2 DEF TF!Full
<1>4. QED
  BY <1>3 DEF CanTouch

(* The partners of a bracket are the other functions that can touch what it *)
(* requires.                                                                *)
LEMMA PartnersAreReal ==
  ASSUME IInv, phase = "match", NEW br, NEW g
  PROVE  g \in Partners(br) <=> g \in Fns \ {br.fn} /\ CanTouch(g, Required(br))
<1>1. \A h \in Fns : footprint[h] = TF!Full(h)
  BY DEF IInv, FootprintsAreFull
<1>2. QED
  BY <1>1, TouchIsFootprint DEF Partners

(* The accesses of a pair depend only on the module.                        *)
LEMMA SameModule ==
  ASSUME mod' = mod
  PROVE  /\ \A br, g : PartnerAccesses(br, g)' = PartnerAccesses(br, g)
         /\ \A g, S : CanTouch(g, S)' = CanTouch(g, S)
         /\ \A g : TF!Full(g)' = TF!Full(g)
<1>1. \A br, g : PartnerAccesses(br, g)' = PartnerAccesses(br, g)
  BY DEF PartnerAccesses
<1>2. \A g : TF!Reachable(g)' = TF!Reachable(g)
  BY DEF TF!Reachable, Summary
<1>3. \A g, S : CanTouch(g, S)' = CanTouch(g, S)
  BY <1>2 DEF CanTouch
<1>4. \A g : TF!Full(g)' = TF!Full(g)
  BY <1>2 DEF TF!Full, Summary
<1>5. QED
  BY <1>1, <1>3, <1>4

----------------------------------------------------------------------------
(* The inductive invariant.                                                 *)

LEMMA InitInv == Init => IInv
<1> SUFFICES ASSUME Init PROVE IInv
  OBVIOUS
<1>1. mod.brackets \in Seq(Brackets)
  BY ModulesAssumption DEF Init
<1>2. Matched(mod) = {}
  BY DEF Init, Matched
<1>3. TypeOK
  BY <1>1 DEF Init, TypeOK
<1>4. QED
  BY <1>2, <1>3 DEF Init, IInv, FootprintsAreFull, AccessesAreThePartners,
                    PartnerIsReal, EveryMatchRecorded

(* The footprints are published: no pair exists yet.                        *)
LEMMA FootprintsStep == IInv /\ Footprints => IInv'
<1> SUFFICES ASSUME IInv, Footprints PROVE IInv'
  OBVIOUS
<1>1. mod' = mod /\ pairs' = pairs /\ next' = next
  BY DEF Footprints
<1>2. \A f \in Fns : TF!Full(f) \in SUBSET Objs
  <2>1. mod \in Modules
    BY DEF IInv, TypeOK
  <2>2. \A h \in Fns : mod.body[h] \in Seq(Instructions)
    BY <2>1, ModulesAssumption
  <2>3. ASSUME NEW code \in Seq(Instructions)
        PROVE  Touched(code) \in SUBSET Objs
    <3>1. \A i \in DOMAIN code : code[i] \in Instructions
      OBVIOUS
    <3>2. \A i \in DOMAIN code : code[i].objs \in SUBSET Objs
      BY <3>1 DEF Instructions
    <3>3. QED
      BY <3>2 DEF Touched
  <2>4. \A h \in Fns : Summary(mod).direct[h] = Touched(mod.body[h])
    BY DEF Summary
  <2>5. QED
    BY <2>2, <2>3, <2>4 DEF TF!Full, TF!Reachable
<1>3. footprint' \in [Fns -> SUBSET Objs]
  BY <1>2 DEF Footprints
<1>4. Matched(mod)' = Matched(mod)
  BY <1>1 DEF Matched
<1>5. TypeOK'
  BY <1>1, <1>3, <1>4 DEF IInv, TypeOK, Footprints
<1>6. FootprintsAreFull'
  BY <1>1, SameModule DEF FootprintsAreFull, Footprints
<1>7. QED
  BY <1>1, <1>4, <1>5, <1>6, SameModule
  DEF IInv, AccessesAreThePartners, PartnerIsReal, EveryMatchRecorded

(* One bracket is matched.                                                  *)
LEMMA MatchStep == IInv /\ MatchBracket => IInv'
<1> SUFFICES ASSUME IInv, MatchBracket PROVE IInv'
  OBVIOUS
<1> DEFINE br == mod.brackets[next]
<1>1. /\ mod' = mod /\ phase = "match" /\ phase' = phase
      /\ footprint' = footprint /\ filtered' = filtered
      /\ pairs' = pairs \cup NewPairs(br)
  BY DEF MatchBracket
<1>2. /\ mod \in Modules /\ mod.brackets \in Seq(Brackets)
      /\ next \in 1..Len(mod.brackets) /\ next' = next + 1
  BY ModulesAssumption DEF IInv, TypeOK, MatchBracket
<1>3. Matched(mod)' = Matched(mod) \cup {br}
  BY <1>1, <1>2 DEF Matched
<1>4. \A p \in NewPairs(br) :
        /\ p.bracket = br
        /\ p.partner \in Partners(br)
        /\ p.accesses = PartnerAccesses(p.bracket, p.partner)
  BY DEF NewPairs
<1>5. TypeOK'
  <2>1. \A p \in NewPairs(br) : p.partner \in Fns
    BY <1>4 DEF Partners
  <2>2. next' \in 1..(Len(mod.brackets) + 1)
    BY <1>2
  <2>3. QED
    BY <1>1, <1>2, <1>3, <1>4, <2>1, <2>2 DEF IInv, TypeOK
<1>6. FootprintsAreFull'
  BY <1>1, SameModule DEF IInv, FootprintsAreFull
<1>7. AccessesAreThePartners'
  BY <1>1, <1>4, SameModule DEF IInv, AccessesAreThePartners
<1>8. PartnerIsReal'
  <2>1. \A p \in NewPairs(br) :
          p.partner # p.bracket.fn /\ CanTouch(p.partner, Required(p.bracket))
    BY <1>1, <1>4, PartnersAreReal
  <2>2. QED
    BY <1>1, <2>1, SameModule DEF IInv, PartnerIsReal
<1>9. EveryMatchRecorded'
  <2>1. ASSUME NEW g \in Fns \ {br.fn}, CanTouch(g, Required(br))
        PROVE  \E p \in pairs' : p.bracket = br /\ p.partner = g
    <3>1. g \in Partners(br)
      BY <1>1, <2>1, PartnersAreReal
    <3>2. ~Duplicate(br, g)
      <4> SUFFICES ASSUME NEW p \in pairs, p.bracket.fn = br.fn,
                          p.bracket.label = br.label
                   PROVE  FALSE
        BY DEF Duplicate
      <4>1. PICK i \in 1..(next - 1) : p.bracket = mod.brackets[i]
        BY DEF IInv, TypeOK, Matched
      <4>2. i \in DOMAIN mod.brackets /\ next \in DOMAIN mod.brackets /\ i # next
        BY <1>2
      <4>3. QED
        BY <1>2, <4>1, <4>2, ModulesAssumption
    <3>3. [bracket |-> br, partner |-> g, accesses |-> PartnerAccesses(br, g)]
            \in NewPairs(br)
      BY <3>1, <3>2 DEF NewPairs
    <3>4. QED
      BY <1>1, <3>3
  <2>2. ASSUME NEW b \in Matched(mod), NEW g \in Fns \ {b.fn}, CanTouch(g, Required(b))
        PROVE  \E p \in pairs' : p.bracket = b /\ p.partner = g
    BY <1>1, <2>2 DEF IInv, EveryMatchRecorded
  <2>3. QED
    BY <1>1, <1>3, <2>1, <2>2, SameModule DEF EveryMatchRecorded
<1>10. QED
  BY <1>5, <1>6, <1>7, <1>8, <1>9 DEF IInv

(* The remaining steps leave pairs and footprints alone.                    *)
LEMMA OtherSteps ==
  ASSUME IInv, Return \/ Filter \/ UNCHANGED vars
  PROVE  IInv'
<1>1. mod' = mod /\ pairs' = pairs /\ next' = next /\ footprint' = footprint
  BY DEF Return, Filter, vars
<1>2. phase' \in {"footprint", "match", "filter", "done"} /\ filtered' \subseteq pairs
  BY DEF IInv, TypeOK, Return, Filter, vars
<1>3. phase' # "footprint" => phase # "footprint"
  BY DEF Return, Filter, vars
<1>4. Matched(mod)' = Matched(mod)
  BY <1>1 DEF Matched
<1>5. TypeOK'
  BY <1>1, <1>2, <1>4 DEF IInv, TypeOK
<1>6. QED
  BY <1>1, <1>3, <1>4, <1>5, SameModule
  DEF IInv, FootprintsAreFull, AccessesAreThePartners, PartnerIsReal, EveryMatchRecorded

(* The pairs found so far are exactly the matches of the brackets handled   *)
(* so far: none is invented, none lost, for every module.                   *)
THEOREM PairsInvariant == Spec => []IInv
<1>1. IInv /\ [Next]_vars => IInv'
  BY FootprintsStep, MatchStep, OtherSteps DEF Next
<1>2. QED
  BY InitInv, <1>1, PTL DEF Spec

----------------------------------------------------------------------------
(* Every other function that can touch what a bracket handled so far        *)
(* requires is recorded as its partner: no match is lost, and no pair of an *)
(* earlier bracket with the same function stands in for a later one.        *)
THEOREM EveryMatch == Spec => []EveryMatchRecorded
<1>1. IInv => EveryMatchRecorded
  BY DEF IInv
<1>2. QED
  BY <1>1, PairsInvariant, PTL

----------------------------------------------------------------------------
(* A pair without accesses.                                                 *)

(* A set of positions that is not empty has a first one.                    *)
LEMMA FirstPosition ==
  ASSUME NEW T, T \subseteq Nat, T # {}
  PROVE  \E x \in T : \A y \in T : x <= y
<1> DEFINE R == OpToRel(<, Nat)
<1>1. \E x \in T : \A y \in T : ~(<<y, x>> \in R)
  BY NatLessThanWellFounded, WFMin
<1>2. \A x, y \in Nat : y < x => <<y, x>> \in R
  BY DEF OpToRel
<1> HIDE DEF R
<1>3. \E x \in T : \A y \in T : ~(y < x)
  BY <1>1, <1>2, Zenon
<1>4. \A x, y \in Nat : ~(y < x) => x <= y
  BY SMT
<1>5. QED
  BY <1>3, <1>4, Zenon

(* If an instruction of the partner's own body touches a required object,   *)
(* the pair reports an access: the first instruction attributed to the same *)
(* object.                                                                  *)
LEMMA BodyHitIsReported ==
  ASSUME NEW br, NEW g \in Fns, mod \in Modules,
         Touched(mod.body[g]) \cap Required(br) # {}
  PROVE  PartnerAccesses(br, g) # {}
<1> DEFINE code == mod.body[g]
           Same(i) == {k \in DOMAIN code : /\ HitsRelevant(br, code[k])
                                           /\ Hit(br, code[k]) = Hit(br, code[i])}
<1>1. code \in Seq(Instructions)
  BY ModulesAssumption
<1>2. PICK i \in DOMAIN code : code[i].objs \cap Required(br) # {}
  BY DEF Touched
<1>3. Required(br) \subseteq Relevant(br)
  BY DEF Required, Relevant, HasChannel, BarrierChannel, Causal
<1>4. HitsRelevant(br, code[i])
  BY <1>2, <1>3 DEF HitsRelevant, Direct
<1>5. Same(i) \subseteq Nat /\ i \in Same(i)
  BY <1>1, <1>4
<1>6. PICK k \in Same(i) : \A j \in Same(i) : k <= j
  BY <1>5, FirstPosition
<1>7. \A j \in 1..(k - 1) :
        HitsRelevant(br, code[j]) => Hit(br, code[j]) # Hit(br, code[k])
  <2>1. ASSUME NEW j \in 1..(k - 1), HitsRelevant(br, code[j]),
               Hit(br, code[j]) = Hit(br, code[k])
        PROVE  FALSE
    <3>1. k \in 1..Len(code) /\ j \in DOMAIN code /\ j < k
      BY <1>1, <1>6
    <3>2. j \in Same(i)
      BY <1>6, <2>1, <3>1
    <3>3. QED
      BY <1>5, <1>6, <3>1, <3>2
  <2>2. QED
    BY <2>1
<1>8. [at |-> k, kind |-> code[k].kind, obj |-> Hit(br, code[k])] \in PartnerAccesses(br, g)
  BY <1>6, <1>7 DEF PartnerAccesses
<1>9. QED
  BY <1>8

(* A pair without partner accesses matched through the partner's callees.   *)
THEOREM EmptyPairs == Spec => []EmptyOnlyThroughHelpers
<1>1. IInv => EmptyOnlyThroughHelpers
  <2> SUFFICES ASSUME IInv, NEW p \in pairs, p.accesses = {},
                      Touched(mod.body[p.partner]) \cap Required(p.bracket) # {}
               PROVE  FALSE
    BY DEF EmptyOnlyThroughHelpers
  <2>1. p.partner \in Fns /\ mod \in Modules
    BY DEF IInv, TypeOK
  <2>2. PartnerAccesses(p.bracket, p.partner) = {}
    BY DEF IInv, AccessesAreThePartners
  <2>3. QED
    BY <2>1, <2>2, BodyHitIsReported
<1>2. QED
  BY <1>1, PairsInvariant, PTL

============================================================================

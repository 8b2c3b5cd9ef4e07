----------------------------- MODULE BracketsProofs -----------------------------
(****************************************************************************)
(* Proofs about the anchor scan and the brackets, for every module, every   *)
(* table of anchors and every order in which the mnemonics of a block are   *)
(* recorded.                                                                *)
(****************************************************************************)
EXTENDS Brackets, WellFoundedInduction, TLAPS

----------------------------------------------------------------------------
(* The operators.                                                           *)

(* The least-number principle.                                              *)
LEMMA LeastNat ==
  ASSUME NEW T \in SUBSET Nat, T # {}
  PROVE  \E n \in T : \A m \in T : n <= m
<1> DEFINE R == OpToRel(<, Nat)
<1>1. IsWellFoundedOn(R, Nat)
  BY NatLessThanWellFounded
<1>2. \A m, n \in Nat : m < n => <<m, n>> \in R
  BY DEF OpToRel
<1> HIDE DEF R
<1>3. PICK n \in T : \A m \in T : ~ (<<m, n>> \in R)
  BY <1>1, WFMin
<1>4. ASSUME NEW m \in T PROVE n <= m
  <2>1. m \in Nat /\ n \in Nat
    OBVIOUS
  <2>2. ~ (m < n)
    BY <1>2, <1>3, <2>1
  <2>3. QED
    BY <2>1, <2>2
<1>5. QED
  BY <1>4

LEMMA FirstFacts ==
  ASSUME NEW S \in SUBSET (Nat \ {0})
  PROVE  /\ FirstOf(S) \in Nat
         /\ S = {} <=> FirstOf(S) = 0
         /\ S # {} => FirstOf(S) \in S
<1>1. CASE S = {}
  BY <1>1 DEF FirstOf
<1>2. CASE S # {}
  <2>1. \E i \in S : \A j \in S : i <= j
    BY <1>2, LeastNat
  <2>2. FirstOf(S) \in S
    BY <1>2, <2>1 DEF FirstOf
  <2>3. QED
    BY <1>2, <2>2
<1>3. QED
  BY <1>1, <1>2

LEMMA LastFacts ==
  ASSUME NEW n \in Nat, NEW S \in SUBSET (1..n)
  PROVE  /\ LastOf(S) \in Nat
         /\ S = {} <=> LastOf(S) = 0
         /\ S # {} => LastOf(S) \in S
<1>1. CASE S = {}
  BY <1>1 DEF LastOf
<1>2. CASE S # {}
  <2> DEFINE T == {n - i : i \in S}
  <2>1. \A i \in S : i \in 1..n /\ n - i \in Nat
    OBVIOUS
  <2>2. PICK t \in T : \A m \in T : t <= m
    <3>1. T \in SUBSET Nat
      BY <2>1
    <3>2. T # {}
      BY <1>2
    <3>3. QED
      BY <3>1, <3>2, LeastNat
  <2>3. PICK i \in S : t = n - i
    OBVIOUS
  <2>4. ASSUME NEW j \in S PROVE j <= i
    <3>1. n - i <= n - j
      BY <2>2, <2>3
    <3>2. QED
      BY <3>1, <2>1
  <2>5. LastOf(S) \in S
    BY <1>2, <2>4 DEF LastOf
  <2>6. LastOf(S) \in 1..n
    BY <2>5, <2>1
  <2>7. QED
    BY <1>2, <2>5, <2>6
<1>3. QED
  BY <1>1, <1>2

(* What appending does to the elements of a sequence.                       *)
LEMMA Appending ==
  ASSUME NEW S, NEW s \in Seq(S), NEW e \in S
  PROVE  /\ Append(s, e) \in Seq(S)
         /\ DOMAIN s = 1..Len(s) /\ Len(s) \in Nat
         /\ DOMAIN Append(s, e) = 1..(Len(s) + 1)
         /\ \A i \in DOMAIN s : Append(s, e)[i] = s[i]
         /\ Append(s, e)[Len(s) + 1] = e
  OBVIOUS

LEMMA ElementIn ==
  ASSUME NEW S, NEW s \in Seq(S), NEW i \in DOMAIN s
  PROVE  s[i] \in S
  OBVIOUS

LEMMA AppendAt ==
  ASSUME NEW I, NEW S, NEW x \in [I -> Seq(S)], NEW i \in I, NEW e \in S
  PROVE  [x EXCEPT ![i] = Append(@, e)] \in [I -> Seq(S)]
  OBVIOUS

LEMMA RankIsNat == \A o \in Orderings : Rank[o] \in Nat
  BY DEF Orderings, Rank

(* To bracket the same event is an equivalence.                             *)
LEMMA SameTextFacts ==
  /\ \A f, i : SameText(f, i, i)
  /\ \A f, i, j : SameText(f, i, j) => SameText(f, j, i)
  /\ \A f, i, j, k : SameText(f, i, j) /\ SameText(f, j, k) => SameText(f, i, k)
  BY DEF SameText

LEMMA SameEventFacts ==
  /\ \A f, b : SameEvent(f, b, b)
  /\ \A f, b, c : SameEvent(f, b, c) => SameEvent(f, c, b)
  /\ \A f, b, c, d : SameEvent(f, b, c) /\ SameEvent(f, c, d) => SameEvent(f, b, d)
  BY SameTextFacts DEF SameEvent

----------------------------------------------------------------------------
(* What is formed from a hit is a bracket with the hit's label and ordering.*)
LEMMA FormedFields ==
  ASSUME NEW f, NEW h
  PROVE  /\ Formed(f, h).label = h.label
         /\ Formed(f, h).ordering = h.ordering
         /\ Formed(f, h).before = BeforeIdx(f, AnchorIdx(f, h))
         /\ Formed(f, h).after = AfterIdx(f, AnchorIdx(f, h))
  BY DEF Formed, BracketAt

LEMMA IdxFacts ==
  ASSUME code \in [Fns -> Seq(Instructions)], NEW f \in Fns, NEW at \in Nat
  PROVE  /\ BeforeIdx(f, at) \in Nat
         /\ AfterIdx(f, at) \in Nat
         /\ \A i \in DOMAIN code[f] :
              /\ Plain(code[f][i]) /\ i < at => BeforeIdx(f, at) # 0
              /\ Plain(code[f][i]) /\ i > at => AfterIdx(f, at) # 0
<1> DEFINE B == {i \in 1..(at - 1) : Plain(code[f][i])}
           A == {i \in DOMAIN code[f] : i > at /\ Plain(code[f][i])}
<1>1. DOMAIN code[f] \subseteq Nat \ {0}
  <2>1. code[f] \in Seq(Instructions)
    OBVIOUS
  <2>2. QED
    BY <2>1
<1>2. LastOf(B) \in Nat /\ (B = {} <=> LastOf(B) = 0)
  <2>1. CASE at = 0
    <3>1. B = {}
      BY <2>1
    <3>2. QED
      BY <3>1 DEF LastOf
  <2>2. CASE at # 0
    <3>1. at - 1 \in Nat /\ B \in SUBSET (1..(at - 1))
      BY <2>2
    <3>2. QED
      BY <3>1, LastFacts
  <2>3. QED
    BY <2>1, <2>2
<1>3. FirstOf(A) \in Nat /\ (A = {} <=> FirstOf(A) = 0)
  <2>1. A \in SUBSET (Nat \ {0})
    BY <1>1
  <2>2. QED
    BY <2>1, FirstFacts
<1>4. BeforeIdx(f, at) = LastOf(B) /\ AfterIdx(f, at) = FirstOf(A)
  BY DEF BeforeIdx, AfterIdx
<1>5. \A i \in DOMAIN code[f] : Plain(code[f][i]) /\ i < at => i \in B
  BY <1>1
<1>6. QED
  BY <1>2, <1>3, <1>4, <1>5

LEMMA AnchorFacts ==
  ASSUME code \in [Fns -> Seq(Instructions)], NEW f \in Fns, NEW h
  PROVE  /\ AnchorIdx(f, h) \in Nat
         /\ Located(f, h) => /\ AnchorIdx(f, h) \in DOMAIN code[f]
                             /\ IsAnchorInst(code[f][AnchorIdx(f, h)], h)
         /\ (\E p \in DOMAIN code[f] : IsAnchorInst(code[f][p], h)) => Located(f, h)
<1> DEFINE S == {i \in DOMAIN code[f] : IsAnchorInst(code[f][i], h)}
<1>1. S \in SUBSET (Nat \ {0})
  <2>1. code[f] \in Seq(Instructions)
    OBVIOUS
  <2>2. QED
    BY <2>1
<1>2. AnchorIdx(f, h) = FirstOf(S)
  BY DEF AnchorIdx
<1>3. QED
  BY <1>1, <1>2, FirstFacts DEF Located

(* What is formed from a hit that is found again is a bracket.              *)
LEMMA FormedIsBracket ==
  ASSUME TypeOK, NEW f \in Fns, NEW i \in DOMAIN hits[f], Located(f, hits[f][i])
  PROVE  Formed(f, hits[f][i]) \in BracketRecords
<1> DEFINE h == hits[f][i]
           at == AnchorIdx(f, h)
<1>1. h \in HitRecords
  <2>1. hits[f] \in Seq(HitRecords)
    BY DEF TypeOK
  <2>2. QED
    BY <2>1, ElementIn
<1>2. at \in Nat /\ at \in DOMAIN code[f] /\ IsAnchorInst(code[f][at], h)
  BY AnchorFacts DEF TypeOK
<1>3. BeforeIdx(f, at) \in Nat /\ AfterIdx(f, at) \in Nat
  BY <1>2, IdxFacts DEF TypeOK
<1>4. code[f][at].obj \in Objs \cup {None}
  <2>1. code[f][at] \in Instructions
    BY <1>2 DEF TypeOK
  <2>2. code[f][at].op \in {"asm", "call"}
    BY <1>2 DEF IsAnchorInst
  <2>3. QED
    BY <2>1, <2>2 DEF Instructions
<1> HIDE DEF h, at
<1>5. BracketAt(f, h, at) \in BracketRecords
  BY <1>1, <1>2, <1>3, <1>4 DEF BracketAt, BracketRecords, HitRecords
<1>6. QED
  BY <1>5 DEF Formed, h, at

LEMMA FlagFacts ==
  ASSUME code \in [Fns -> Seq(Instructions)], NEW f \in Fns, FlagIdx(f) # 0
  PROVE  LET j == FlagIdx(f)
             i == FirstOf(Payloads(f, j))
         IN  /\ j \in Stores(f) /\ i \in Stores(f) /\ i < j
             /\ code[f][j].obj \in Globals /\ code[f][i].obj # code[f][j].obj
<1> DEFINE S == {j \in Stores(f) : code[f][j].obj \in Globals /\ Payloads(f, j) # {}}
<1>1. Stores(f) \in SUBSET (Nat \ {0})
  <2>1. code[f] \in Seq(Instructions)
    OBVIOUS
  <2>2. QED
    BY <2>1 DEF Stores
<1>2. FlagIdx(f) = FirstOf(S) /\ S \in SUBSET (Nat \ {0})
  BY <1>1 DEF FlagIdx
<1>3. FlagIdx(f) \in S
  BY <1>2, FirstFacts
<1>4. Payloads(f, FlagIdx(f)) # {} /\ Payloads(f, FlagIdx(f)) \in SUBSET (Nat \ {0})
  BY <1>1, <1>3 DEF Payloads
<1>5. FirstOf(Payloads(f, FlagIdx(f))) \in Payloads(f, FlagIdx(f))
  BY <1>4, FirstFacts
<1>6. QED
  BY <1>3, <1>5 DEF Payloads

LEMMA PlainFields ==
  ASSUME NEW f
  PROVE  /\ PlainBracket(f).at = FlagIdx(f)
         /\ PlainBracket(f).before = FirstOf(Payloads(f, FlagIdx(f)))
         /\ PlainBracket(f).alloc = code[f][FlagIdx(f)].obj
  BY DEF PlainBracket

LEMMA PlainIsBracket ==
  ASSUME TypeOK, NEW f \in Fns, FlagIdx(f) # 0
  PROVE  PlainBracket(f) \in BracketRecords
<1> DEFINE j == FlagIdx(f)
           i == FirstOf(Payloads(f, j))
<1>1. j \in Stores(f) /\ i \in Stores(f)
  BY FlagFacts DEF TypeOK
<1>2. Stores(f) \subseteq Nat
  <2>1. code[f] \in Seq(Instructions)
    BY DEF TypeOK
  <2>2. QED
    BY <2>1 DEF Stores
<1>3. code[f][j].obj \in Objs
  <2>1. code[f][j] \in Instructions /\ code[f][j].op = "store"
    BY <1>1 DEF TypeOK, Stores
  <2>2. QED
    BY <2>1 DEF Instructions
<1>4. j \in Nat /\ i \in Nat
  BY <1>1, <1>2
<1> HIDE DEF i, j
<1>5. [label |-> PlainLabel, ordering |-> "Relaxed", site |-> "store plain",
       at |-> j, before |-> i, alloc |-> code[f][j].obj, after |-> 0] \in BracketRecords
  BY <1>3, <1>4 DEF BracketRecords, Orderings, Rank
<1>6. QED
  BY <1>5 DEF PlainBracket, i, j

----------------------------------------------------------------------------
(* The invariant.                                                           *)

BInv == IInv /\ NoEventLost

(* What is said of a function depends on its code and its hits only.        *)
LEMMA SameCode ==
  ASSUME code' = code
  PROVE  /\ \A f, h : Bracketed(f, h)' = Bracketed(f, h) /\ Formed(f, h)' = Formed(f, h)
         /\ \A f, b, c : SameEvent(f, b, c)' = SameEvent(f, b, c)
         /\ \A f : FlagIdx(f)' = FlagIdx(f) /\ PlainBracket(f)' = PlainBracket(f)
<1>1. \A f, h : Bracketed(f, h)' = Bracketed(f, h) /\ Formed(f, h)' = Formed(f, h)
  BY DEF Bracketed, Located, AnchorIdx, Formed, BracketAt, BeforeIdx, AfterIdx, HasSide
<1>2. \A f, b, c : SameEvent(f, b, c)' = SameEvent(f, b, c)
  BY DEF SameEvent, SameText
<1>3. \A f : FlagIdx(f)' = FlagIdx(f) /\ PlainBracket(f)' = PlainBracket(f)
  BY DEF FlagIdx, PlainBracket, Payloads, Stores
<1>4. QED
  BY <1>1, <1>2, <1>3

LEMMA SameHits ==
  ASSUME code' = code, hits' = hits
  PROVE  /\ \A f, b : FromHit(f, b)' = FromHit(f, b)
         /\ \A f : Synchronises(f)' = Synchronises(f)
         /\ \A f, a : Recorded(f, a)' = Recorded(f, a)
<1>1. \A f, b : FromHit(f, b)' = FromHit(f, b)
  BY SameCode DEF FromHit
<1>2. QED
  BY <1>1 DEF Synchronises, Recorded

(* While anchors are searched there is no bracket.                          *)
LEMMA NoneYet ==
  ASSUME TypeOK, NotYet, phase = "anchors"
  PROVE  candidates = <<>> /\ Handled = {} /\ \A f \in Fns : brackets[f] = <<>>
  BY DEF TypeOK, NotYet, Handled

LEMMA InitInv == Init => BInv
<1> SUFFICES ASSUME Init PROVE BInv
  OBVIOUS
<1>1. TypeOK
  BY CodesAssumption, NumFnsAssumption DEF Init, TypeOK, RealBrackets, Fns
<1>2. HitLabelsDistinct /\ HitsAreFound
  BY DEF Init, HitLabelsDistinct, HitsAreFound
<1>3. NoMnemonicMissed
  <2>1. SUFFICES ASSUME NEW f \in Fns, NEW p \in DOMAIN code[f], Visited(f, p) PROVE FALSE
    BY DEF NoMnemonicMissed
  <2>2. code[f] \in Seq(Instructions) /\ f \in Nat /\ f >= 1
    BY <1>1 DEF TypeOK, Fns
  <2>3. p \in Nat /\ p >= 1
    BY <2>2
  <2>4. QED
    BY <2>1, <2>2, <2>3 DEF Init, Visited
<1>4. PublishedOnce /\ CandidatesAreHits /\ BracketsAreCandidates /\ NotYet
  BY DEF Init, PublishedOnce, CandidatesAreHits, BracketsAreCandidates, NotYet
<1>5. LabelsDistinct /\ EventsDistinct /\ NoEventLost
  BY DEF Init, LabelsDistinct, EventsDistinct, NoEventLost, RealBrackets, Handled
<1>6. QED
  BY <1>1, <1>2, <1>3, <1>4, <1>5 DEF BInv, IInv

(* What holds because there is no bracket.                                  *)
LEMMA NoBracket ==
  ASSUME phase' # "dedup", candidates' = <<>>, \A f \in Fns : brackets'[f] = <<>>
  PROVE  /\ PublishedOnce' /\ BracketsAreCandidates' /\ LabelsDistinct' /\ EventsDistinct'
         /\ \A i \in DOMAIN candidates' : FromHit(fn, candidates[i])'
         /\ \A f \in Fns : \A k \in RealBrackets(f)' : FromHit(f, brackets[f][k])'
<1>1. PublishedOnce' /\ LabelsDistinct' /\ BracketsAreCandidates'
  BY DEF PublishedOnce, LabelsDistinct, BracketsAreCandidates
<1>2. \A f \in Fns : RealBrackets(f)' = {}
  BY DEF RealBrackets
<1>3. EventsDistinct'
  BY <1>2 DEF EventsDistinct
<1>4. QED
  BY <1>1, <1>2, <1>3

LEMMA StillScanning ==
  ASSUME phase' = "anchors", candidates' = <<>>, \A f \in Fns : brackets'[f] = <<>>
  PROVE  /\ PublishedOnce' /\ CandidatesAreHits' /\ BracketsAreCandidates'
         /\ LabelsDistinct' /\ EventsDistinct' /\ NoEventLost'
<1>1. Handled' = {}
  BY DEF Handled
<1>2. QED
  BY <1>1, NoBracket DEF CandidatesAreHits, NoEventLost

LEMMA OfferedFacts ==
  ASSUME NEW inst \in Instructions, NEW h \in Offered(inst)
  PROVE  /\ h \in HitRecords
         /\ StemsFrom(inst, h)
         /\ h.label \in Mnemonics => h = AsmHit(h.label)
         /\ h.label # PlainLabel
<1>1. CASE inst.op = "asm"
  <2>1. inst.mnemonics \subseteq Mnemonics
    BY <1>1 DEF Instructions
  <2>2. PICK a \in inst.mnemonics : h = AsmHit(a)
    BY <1>1 DEF Offered
  <2>3. a \in Mnemonics
    BY <2>1
  <2>4. QED
    BY <1>1, <2>2, <2>3, TablesAssumption DEF AsmHit, StemsFrom, Labels, HitRecords
<1>2. CASE inst.op = "call"
  <2>1. inst.callee \in Callees
    BY <1>2 DEF Instructions
  <2>2. h = CallHit(inst.callee)
    BY <1>2 DEF Offered
  <2>3. CallLabel[inst.callee] \notin Mnemonics \cup {PlainLabel}
    BY <2>1, TablesAssumption
  <2>4. inst.callee # "asm"
    BY <2>1, TablesAssumption
  <2>5. QED
    BY <1>2, <2>1, <2>2, <2>3, <2>4, TablesAssumption DEF CallHit, StemsFrom, Labels, HitRecords
<1>3. QED
  BY <1>1, <1>2 DEF Offered

LEMMA AddHitInv == BInv /\ AddHit => BInv'
<1> SUFFICES ASSUME BInv, AddHit PROVE BInv'
  OBVIOUS
<1> USE DEF BInv, IInv
<1>1. PICK h \in Offered(code[fn][pc]) : Fresh(h) /\ hits' = [hits EXCEPT ![fn] = Append(@, h)]
  BY DEF AddHit
<1>2. /\ phase = "anchors" /\ fn \in Fns /\ pc \in DOMAIN code[fn]
      /\ UNCHANGED <<code, strict, phase, fn, pc, candidates, brackets>>
  BY DEF AddHit
<1>3. candidates' = <<>> /\ \A f \in Fns : brackets'[f] = <<>>
  BY <1>2, NoneYet
<1> DEFINE n == Len(hits[fn])
<1>4. code[fn][pc] \in Instructions
  <2>1. code[fn] \in Seq(Instructions)
    BY <1>2 DEF TypeOK
  <2>2. QED
    BY <1>2, <2>1
<1>5. /\ h \in HitRecords /\ StemsFrom(code[fn][pc], h)
      /\ h.label \in Mnemonics => h = AsmHit(h.label)
      /\ h.label # PlainLabel
  BY <1>4, OfferedFacts
<1>6. hits \in [Fns -> Seq(HitRecords)] /\ hits[fn] \in Seq(HitRecords)
  BY <1>2 DEF TypeOK
<1>7. /\ \A f \in Fns \ {fn} : hits'[f] = hits[f]
      /\ hits'[fn] = Append(hits[fn], h)
      /\ DOMAIN hits[fn] = 1..n /\ n \in Nat /\ DOMAIN hits'[fn] = 1..(n + 1)
      /\ \A i \in DOMAIN hits[fn] : hits'[fn][i] = hits[fn][i]
      /\ hits'[fn][n + 1] = h
  BY <1>1, <1>2, <1>5, <1>6, Appending
<1>8. hits' \in [Fns -> Seq(HitRecords)]
  <2>1. [hits EXCEPT ![fn] = Append(@, h)] \in [Fns -> Seq(HitRecords)]
    BY <1>2, <1>5, <1>6, AppendAt
  <2>2. QED
    BY <1>1, <2>1
<1>9. TypeOK'
  <2>1. /\ \A i \in DOMAIN candidates' : FromHit(fn, candidates[i])'
        /\ \A f \in Fns : \A k \in RealBrackets(f)' : FromHit(f, brackets[f][k])'
    BY <1>2, <1>3, NoBracket
  <2>2. QED
    BY <1>2, <1>3, <1>8, <2>1 DEF TypeOK
<1>10. HitLabelsDistinct'
  <2>1. \A i \in DOMAIN hits[fn] : hits[fn][i].label # h.label
    BY <1>1 DEF Fresh
  <2>2. \A i, j \in DOMAIN hits'[fn] : hits'[fn][i].label = hits'[fn][j].label => i = j
    BY <1>2, <1>7, <2>1 DEF HitLabelsDistinct
  <2>3. QED
    BY <1>7, <2>2 DEF HitLabelsDistinct
<1>11. HitsAreFound'
  <2> SUFFICES ASSUME NEW f \in Fns, NEW i \in DOMAIN hits'[f]
               PROVE  /\ hits'[f][i].site \notin Allocators =>
                           \E p \in DOMAIN code[f] : StemsFrom(code[f][p], hits'[f][i])
                      /\ hits'[f][i].label \in Mnemonics => hits'[f][i] = AsmHit(hits'[f][i].label)
                      /\ hits'[f][i].label # PlainLabel
    BY <1>2 DEF HitsAreFound, StemsFrom, AsmHit
  <2>1. CASE f = fn /\ i = n + 1
    BY <1>2, <1>5, <1>7, <2>1
  <2>2. CASE ~ (f = fn /\ i = n + 1)
    <3>1. i \in DOMAIN hits[f] /\ hits'[f][i] = hits[f][i]
      BY <1>7, <2>2
    <3>2. QED
      BY <3>1 DEF HitsAreFound
  <2>3. QED
    BY <2>1, <2>2
<1>12. NoMnemonicMissed'
  <2>1. \A f \in Fns, a \in Mnemonics : Recorded(f, a) => Recorded(f, a)'
    BY <1>7 DEF Recorded
  <2>2. \A f, p : Visited(f, p)' = Visited(f, p)
    BY <1>2 DEF Visited
  <2>3. \A f \in Fns : \A p \in DOMAIN code[f] : code[f][p].op = "asm" => code[f][p].mnemonics \subseteq Mnemonics
    <3>1. \A f \in Fns : \A p \in DOMAIN code[f] : code[f][p] \in Instructions
      BY DEF TypeOK
    <3>2. QED
      BY <3>1 DEF Instructions
  <2>4. QED
    BY <1>2, <2>1, <2>2, <2>3 DEF NoMnemonicMissed
<1>13. NotYet'
  <2>1. Handled' = {}
    BY <1>2 DEF Handled
  <2>2. \A f \in Fns : f > fn => hits'[f] = <<>>
    BY <1>2, <1>7 DEF NotYet, Fns
  <2>3. QED
    BY <1>2, <1>3, <2>2 DEF NotYet
<1>14. QED
  BY <1>2, <1>3, <1>9, <1>10, <1>11, <1>12, <1>13, StillScanning

LEMMA NextInstInv == BInv /\ NextInst => BInv'
<1> SUFFICES ASSUME BInv, NextInst PROVE BInv'
  OBVIOUS
<1> USE DEF BInv, IInv
<1>1. /\ phase = "anchors" /\ fn \in Fns /\ pc \in DOMAIN code[fn] /\ pc' = pc + 1
      /\ UNCHANGED <<code, strict, phase, fn, hits, candidates, brackets>>
      /\ \A h \in Offered(code[fn][pc]) : ~ Fresh(h)
  BY DEF NextInst
<1>2. candidates' = <<>> /\ \A f \in Fns : brackets'[f] = <<>>
  BY <1>1, NoneYet
<1>3. TypeOK'
  <2>1. /\ \A i \in DOMAIN candidates' : FromHit(fn, candidates[i])'
        /\ \A f \in Fns : \A k \in RealBrackets(f)' : FromHit(f, brackets[f][k])'
    BY <1>1, <1>2, NoBracket
  <2>2. pc' \in Nat \ {0}
    BY <1>1 DEF TypeOK
  <2>3. QED
    BY <1>1, <1>2, <2>1, <2>2 DEF TypeOK
<1>4. HitLabelsDistinct' /\ HitsAreFound'
  BY <1>1 DEF HitLabelsDistinct, HitsAreFound, StemsFrom, AsmHit
<1>5. NoMnemonicMissed'
  <2> SUFFICES ASSUME NEW f \in Fns, NEW p \in DOMAIN code[f], code[f][p].op = "asm",
                      Visited(f, p)', NEW a \in code[f][p].mnemonics
               PROVE  Recorded(f, a)
    BY <1>1, SameHits DEF NoMnemonicMissed
  <2>1. code[f][p] \in Instructions /\ p \in Nat /\ pc \in Nat
    <3>1. code[f] \in Seq(Instructions)
      BY DEF TypeOK
    <3>2. QED
      BY <3>1 DEF TypeOK
  <2>2. a \in Mnemonics
    BY <2>1 DEF Instructions
  <2>3. CASE f = fn /\ p = pc
    <3>1. CASE AsmKind[a] = "Load" \/ AsmOrdering[a] \in {"Relaxed", "CompilerOnly"}
      BY <3>1 DEF Recorded
    <3>2. CASE ~ (AsmKind[a] = "Load" \/ AsmOrdering[a] \in {"Relaxed", "CompilerOnly"})
      <4>1. AsmHit(a) \in Offered(code[fn][pc])
        BY <2>3, <3>2 DEF Offered, AsmHit
      <4>2. PICK i \in DOMAIN hits[fn] : hits[fn][i].label = AsmHit(a).label
        BY <1>1, <4>1 DEF Fresh
      <4>3. QED
        BY <2>3, <4>2 DEF Recorded, AsmHit
    <3>3. QED
      BY <3>1, <3>2
  <2>4. CASE ~ (f = fn /\ p = pc)
    <3>1. Visited(f, p)
      BY <1>1, <2>1, <2>4 DEF Visited
    <3>2. QED
      BY <3>1 DEF NoMnemonicMissed
  <2>5. QED
    BY <2>3, <2>4
<1>6. NotYet'
  BY <1>1, <1>2 DEF NotYet
<1>7. QED
  BY <1>1, <1>2, <1>3, <1>4, <1>5, <1>6, StillScanning

LEMMA NextFnInv == BInv /\ NextFn => BInv'
<1> SUFFICES ASSUME BInv, NextFn PROVE BInv'
  OBVIOUS
<1> USE DEF BInv, IInv
<1>1. /\ phase = "anchors" /\ fn \in Fns /\ pc \notin DOMAIN code[fn]
      /\ fn' = fn + 1 /\ pc' = 1
      /\ UNCHANGED <<code, strict, phase, hits, candidates, brackets>>
  BY DEF NextFn
<1>2. candidates' = <<>> /\ \A f \in Fns : brackets'[f] = <<>>
  BY <1>1, NoneYet
<1>3. fn' \in 1..(NumFns + 1)
  BY <1>1, NumFnsAssumption DEF Fns
<1>4. TypeOK'
  <2>1. /\ \A i \in DOMAIN candidates' : FromHit(fn, candidates[i])'
        /\ \A f \in Fns : \A k \in RealBrackets(f)' : FromHit(f, brackets[f][k])'
    BY <1>1, <1>2, NoBracket
  <2>2. pc' \in Nat \ {0}
    BY <1>1 DEF TypeOK
  <2>3. QED
    BY <1>1, <1>2, <1>3, <2>1, <2>2 DEF TypeOK
<1>5. HitLabelsDistinct' /\ HitsAreFound'
  BY <1>1 DEF HitLabelsDistinct, HitsAreFound, StemsFrom, AsmHit
<1>6. NoMnemonicMissed'
  <2> SUFFICES ASSUME NEW f \in Fns, NEW p \in DOMAIN code[f], Visited(f, p)'
               PROVE  Visited(f, p)
    BY <1>1, SameHits DEF NoMnemonicMissed
  <2>1. code[f] \in Seq(Instructions) /\ code[fn] \in Seq(Instructions)
    BY <1>1 DEF TypeOK
  <2>2. p \in 1..Len(code[f]) /\ pc \in Nat \ {0} /\ pc \notin 1..Len(code[fn])
    BY <1>1, <2>1 DEF TypeOK
  <2>3. f \in Nat /\ fn \in Nat /\ Len(code[f]) \in Nat /\ Len(code[fn]) \in Nat
    BY <1>1, <2>1 DEF Fns
  <2>4. QED
    BY <1>1, <2>2, <2>3 DEF Visited
<1>7. NotYet'
  <2>1. Handled' = {}
    BY <1>1 DEF Handled
  <2>2. \A f \in Fns : f > fn + 1 => f > fn
    BY <1>1 DEF Fns
  <2>3. QED
    BY <1>1, <1>2, <2>2 DEF NotYet
<1>8. QED
  BY <1>1, <1>2, <1>4, <1>5, <1>6, <1>7, StillScanning

(* When the scan is over every instruction has been visited.                *)
LEMMA AllVisited ==
  ASSUME TypeOK, NoMnemonicMissed, phase = "anchors", fn \notin Fns
  PROVE  \A f \in Fns : \A p \in DOMAIN code[f] :
           code[f][p].op = "asm" => \A a \in code[f][p].mnemonics : Recorded(f, a)
<1>1. \A f \in Fns : f < fn
  BY NumFnsAssumption DEF TypeOK, Fns
<1>2. QED
  BY <1>1 DEF NoMnemonicMissed, Visited

LEMMA NoAnchorsInv == BInv /\ NoAnchors => BInv'
<1> SUFFICES ASSUME BInv, NoAnchors PROVE BInv'
  OBVIOUS
<1> USE DEF BInv, IInv
<1>1. /\ phase = "anchors" /\ fn \notin Fns /\ phase' = "done"
      /\ \A f \in Fns : hits[f] = <<>>
      /\ UNCHANGED <<code, strict, fn, pc, hits, candidates, brackets>>
  BY DEF NoAnchors
<1>2. candidates' = <<>> /\ \A f \in Fns : brackets'[f] = <<>>
  BY <1>1, NoneYet
<1>3. TypeOK'
  <2>1. /\ \A i \in DOMAIN candidates' : FromHit(fn, candidates[i])'
        /\ \A f \in Fns : \A k \in RealBrackets(f)' : FromHit(f, brackets[f][k])'
    BY <1>1, <1>2, NoBracket
  <2>2. QED
    BY <1>1, <1>2, <2>1 DEF TypeOK
<1>4. HitLabelsDistinct' /\ HitsAreFound'
  BY <1>1 DEF HitLabelsDistinct, HitsAreFound
<1>5. NoMnemonicMissed'
  BY <1>1, AllVisited, SameHits DEF NoMnemonicMissed
<1>6. CandidatesAreHits' /\ NotYet'
  BY <1>1, <1>2 DEF CandidatesAreHits, NotYet
<1>7. NoEventLost'
  BY <1>1 DEF NoEventLost, Handled
<1>8. QED
  BY <1>1, <1>2, <1>3, <1>4, <1>5, <1>6, <1>7, NoBracket

(* normaliseKernelAllocators keeps asm blocks, and every call that is not   *)
(* to an allocator.                                                         *)
LEMMA RewrittenFacts ==
  ASSUME NEW inst \in Instructions
  PROVE  /\ Rewritten(inst) \in Instructions
         /\ inst.op = "asm" <=> Rewritten(inst).op = "asm"
         /\ inst.op = "asm" => Rewritten(inst) = inst
         /\ \A h : h.site \notin Allocators /\ StemsFrom(inst, h) =>
                  StemsFrom(Rewritten(inst), h)
<1>1. CASE inst.op = "call" /\ inst.callee \in Allocators
  <2>1. Rewritten(inst) = [op |-> "malloc"]
    BY <1>1 DEF Rewritten
  <2>2. [op |-> "malloc"] \in Instructions
    BY DEF Instructions
  <2>3. \A h : h.site \notin Allocators => ~ StemsFrom(inst, h)
    BY <1>1 DEF StemsFrom
  <2>4. QED
    BY <1>1, <2>1, <2>2, <2>3
<1>2. CASE ~ (inst.op = "call" /\ inst.callee \in Allocators)
  BY <1>2 DEF Rewritten
<1>3. QED
  BY <1>1, <1>2

LEMMA StartBracketsInv == BInv /\ StartBrackets => BInv'
<1> SUFFICES ASSUME BInv, StartBrackets PROVE BInv'
  OBVIOUS
<1> USE DEF BInv, IInv
<1>1. /\ phase = "anchors" /\ fn \notin Fns /\ phase' = "bracket" /\ fn' = 1
      /\ \E f \in Fns : hits[f] # <<>>
      /\ code' = [f \in Fns |-> [i \in DOMAIN code[f] |-> Rewritten(code[f][i])]]
      /\ UNCHANGED <<strict, pc, hits, candidates, brackets>>
  BY DEF StartBrackets
<1>2. candidates' = <<>> /\ \A f \in Fns : brackets'[f] = <<>>
  BY <1>1, NoneYet
<1>3. \A f \in Fns : /\ code[f] \in Seq(Instructions)
                    /\ DOMAIN code'[f] = DOMAIN code[f]
                    /\ \A i \in DOMAIN code[f] : /\ code[f][i] \in Instructions
                                                /\ code'[f][i] = Rewritten(code[f][i])
  BY <1>1 DEF TypeOK
<1>4. code' \in [Fns -> Seq(Instructions)]
  <2>1. \A f \in Fns : [i \in DOMAIN code[f] |-> Rewritten(code[f][i])] \in Seq(Instructions)
    BY <1>3, RewrittenFacts
  <2>2. QED
    BY <1>1, <2>1
<1>5. fn' \in 1..(NumFns + 1) /\ pc' = 1
  BY <1>1, NumFnsAssumption DEF TypeOK
<1>6. TypeOK'
  <2>1. /\ \A i \in DOMAIN candidates' : FromHit(fn, candidates[i])'
        /\ \A f \in Fns : \A k \in RealBrackets(f)' : FromHit(f, brackets[f][k])'
    BY <1>1, <1>2, NoBracket
  <2>2. QED
    BY <1>1, <1>2, <1>4, <1>5, <2>1 DEF TypeOK
<1>7. HitLabelsDistinct'
  BY <1>1 DEF HitLabelsDistinct
<1>8. HitsAreFound'
  <2> SUFFICES ASSUME NEW f \in Fns, NEW i \in DOMAIN hits[f], hits[f][i].site \notin Allocators
               PROVE  \E p \in DOMAIN code'[f] : StemsFrom(code'[f][p], hits[f][i])
    BY <1>1 DEF HitsAreFound
  <2>1. PICK p \in DOMAIN code[f] : StemsFrom(code[f][p], hits[f][i])
    BY DEF HitsAreFound
  <2>2. QED
    BY <1>3, <2>1, RewrittenFacts
<1>9. NoMnemonicMissed'
  <2>1. \A f, a : Recorded(f, a)' = Recorded(f, a)
    BY <1>1 DEF Recorded
  <2>2. SUFFICES ASSUME NEW f \in Fns, NEW p \in DOMAIN code'[f], code'[f][p].op = "asm",
                        NEW a \in code'[f][p].mnemonics
                 PROVE  Recorded(f, a)
    BY <2>1 DEF NoMnemonicMissed
  <2>3. p \in DOMAIN code[f] /\ code[f][p].op = "asm" /\ code'[f][p] = code[f][p]
    BY <1>3, <2>2, RewrittenFacts
  <2>4. QED
    BY <1>1, <2>2, <2>3, AllVisited
<1>10. CandidatesAreHits'
  <2>1. \A f \in Fns : \A i \in DOMAIN hits'[f] : ~ (i < pc')
    BY <1>1, <1>5 DEF TypeOK
  <2>2. fn' \in Fns => {i \in DOMAIN hits'[fn'] : phase' = "bracket" => i < pc'} = {}
    BY <1>1, <2>1
  <2>3. QED
    BY <1>2, <2>2 DEF CandidatesAreHits
<1>11. Handled' = {}
  BY <1>1 DEF Handled, Fns
<1>12. NoEventLost' /\ NotYet'
  BY <1>1, <1>2, <1>11 DEF NoEventLost, NotYet
<1>13. QED
  BY <1>1, <1>2, <1>6, <1>7, <1>8, <1>9, <1>10, <1>12, NoBracket

----------------------------------------------------------------------------
(* The extraction.  It reads the code and the hits only.                    *)
LEMMA AfterScan ==
  ASSUME BInv, UNCHANGED <<code, hits>>, phase # "anchors", phase' # "anchors"
  PROVE  HitLabelsDistinct' /\ HitsAreFound' /\ NoMnemonicMissed'
<1>1. HitLabelsDistinct' /\ HitsAreFound'
  BY DEF BInv, IInv, HitLabelsDistinct, HitsAreFound
<1>2. NoMnemonicMissed'
  BY SameHits DEF BInv, IInv, NoMnemonicMissed, Visited
<1>3. QED
  BY <1>1, <1>2

LEMMA SameBrackets ==
  ASSUME BInv, UNCHANGED <<code, hits, brackets>>
  PROVE  /\ LabelsDistinct' /\ EventsDistinct'
         /\ \A f \in Fns : \A k \in RealBrackets(f)' : FromHit(f, brackets[f][k])'
<1>1. \A f : RealBrackets(f)' = RealBrackets(f)
  BY DEF RealBrackets
<1>2. LabelsDistinct' /\ EventsDistinct'
  BY <1>1, SameCode DEF BInv, IInv, LabelsDistinct, EventsDistinct
<1>3. QED
  BY <1>1, <1>2, SameHits DEF BInv, IInv, TypeOK

(* A candidate has the label of a hit of the function being visited.        *)
LEMMA CandidateLabels ==
  ASSUME BInv, phase \in {"bracket", "dedup"}, fn \in Fns
  PROVE  \A c \in DOMAIN candidates :
           /\ candidates[c] \in BracketRecords
           /\ candidates[c].label # PlainLabel
           /\ FromHit(fn, candidates[c])
<1> TAKE c \in DOMAIN candidates
<1>1. candidates[c] \in BracketRecords /\ FromHit(fn, candidates[c])
  BY ElementIn DEF BInv, IInv, TypeOK
<1>2. PICK i \in DOMAIN hits[fn] : candidates[c] = Formed(fn, hits[fn][i])
  BY <1>1 DEF FromHit
<1>3. candidates[c].label # PlainLabel
  BY <1>2, FormedFields DEF BInv, IInv, HitsAreFound
<1>4. QED
  BY <1>1, <1>3

LEMMA FormBracketInv == BInv /\ FormBracket => BInv'
<1> SUFFICES ASSUME BInv, FormBracket PROVE BInv'
  OBVIOUS
<1> USE DEF BInv, IInv
<1> DEFINE h == hits[fn][pc]
           n == Len(candidates)
<1>1. /\ phase = "bracket" /\ fn \in Fns /\ pc \in DOMAIN hits[fn] /\ pc' = pc + 1
      /\ candidates' = IF Bracketed(fn, h) THEN Append(candidates, Formed(fn, h)) ELSE candidates
      /\ UNCHANGED <<code, strict, phase, fn, hits, brackets>>
  BY DEF FormBracket
<1>2. /\ candidates \in Seq(BracketRecords) /\ pc \in Nat \ {0} /\ pc' \in Nat \ {0}
      /\ DOMAIN hits[fn] \subseteq Nat
  <2>1. candidates \in Seq(BracketRecords) /\ pc \in Nat \ {0}
    BY DEF TypeOK
  <2>2. DOMAIN hits[fn] \subseteq Nat
    BY <1>1 DEF TypeOK
  <2>3. QED
    BY <1>1, <2>1, <2>2
<1>3. Bracketed(fn, h) => Formed(fn, h) \in BracketRecords
  BY <1>1, FormedIsBracket DEF Bracketed
<1> HIDE DEF h
<1>4. /\ candidates' \in Seq(BracketRecords)
      /\ \A c \in DOMAIN candidates : c \in DOMAIN candidates' /\ candidates'[c] = candidates[c]
      /\ Bracketed(fn, h) => n + 1 \in DOMAIN candidates' /\ candidates'[n + 1] = Formed(fn, h)
      /\ \A c \in DOMAIN candidates' :
           \/ c \in DOMAIN candidates
           \/ Bracketed(fn, h) /\ c = n + 1
  <2>1. CASE Bracketed(fn, h)
    <3>1. Formed(fn, h) \in BracketRecords /\ candidates' = Append(candidates, Formed(fn, h))
      BY <1>1, <1>3, <2>1
    <3>2. QED
      BY <1>2, <2>1, <3>1, Appending
  <2>2. CASE ~ Bracketed(fn, h)
    BY <1>1, <1>2, <2>2
  <2>3. QED
    BY <2>1, <2>2
<1>5. \A c \in DOMAIN candidates' : FromHit(fn, candidates[c])'
  <2>1. \A c \in DOMAIN candidates : FromHit(fn, candidates[c])
    BY DEF TypeOK
  <2>2. Bracketed(fn, h) => FromHit(fn, Formed(fn, h))
    BY <1>1 DEF FromHit, h
  <2>3. \A c \in DOMAIN candidates' : FromHit(fn, candidates'[c])
    BY <1>4, <2>1, <2>2
  <2>4. QED
    BY <1>1, <2>3, SameHits
<1>6. TypeOK'
  <2>1. \A f \in Fns : \A k \in RealBrackets(f)' : FromHit(f, brackets[f][k])'
    BY <1>1, SameBrackets
  <2>2. QED
    BY <1>1, <1>2, <1>4, <1>5, <2>1 DEF TypeOK
<1>7. CandidatesAreHits'
  <2> DEFINE seen == {i \in DOMAIN hits[fn] : i < pc}
             later == {i \in DOMAIN hits[fn] : i < pc'}
  <2>1. /\ \A i \in seen : Bracketed(fn, hits[fn][i]) =>
             \E c \in DOMAIN candidates : candidates[c] = Formed(fn, hits[fn][i])
        /\ \A c \in DOMAIN candidates :
             \E i \in seen : Bracketed(fn, hits[fn][i]) /\ candidates[c] = Formed(fn, hits[fn][i])
        /\ \A c, d \in DOMAIN candidates : candidates[c].label = candidates[d].label => c = d
    BY <1>1 DEF CandidatesAreHits
  <2>2. later = seen \cup {pc} /\ pc \notin seen
    BY <1>1, <1>2
  <2>3. \A i \in later : Bracketed(fn, hits[fn][i]) =>
          \E c \in DOMAIN candidates' : candidates'[c] = Formed(fn, hits[fn][i])
    BY <1>4, <2>1, <2>2 DEF h
  <2>4. \A c \in DOMAIN candidates' :
          \E i \in later : Bracketed(fn, hits[fn][i]) /\ candidates'[c] = Formed(fn, hits[fn][i])
    BY <1>4, <2>1, <2>2 DEF h
  <2>5. \A c \in DOMAIN candidates : candidates[c].label # h.label
    <3> SUFFICES ASSUME NEW c \in DOMAIN candidates PROVE candidates[c].label # h.label
      OBVIOUS
    <3>1. PICK i \in seen : candidates[c] = Formed(fn, hits[fn][i])
      BY <2>1
    <3>2. i # pc /\ candidates[c].label = hits[fn][i].label
      BY <2>2, <3>1, FormedFields
    <3>3. QED
      BY <1>1, <3>2 DEF HitLabelsDistinct, h
  <2>6. \A c, d \in DOMAIN candidates' : candidates'[c].label = candidates'[d].label => c = d
    BY <1>4, <2>1, <2>5, FormedFields
  <2> HIDE DEF seen, later
  <2>7. later = {i \in DOMAIN hits'[fn'] : phase' = "bracket" => i < pc'}
    BY <1>1 DEF later
  <2>8. QED
    BY <1>1, <2>3, <2>4, <2>6, <2>7, SameCode DEF CandidatesAreHits
<1>8. PublishedOnce' /\ BracketsAreCandidates'
  BY <1>1 DEF PublishedOnce, BracketsAreCandidates
<1>9. Handled' = Handled
  BY <1>1 DEF Handled
<1>10. NotYet' /\ NoEventLost'
  BY <1>1, <1>9, SameCode DEF NotYet, NoEventLost
<1>11. QED
  BY <1>1, <1>6, <1>7, <1>8, <1>10, AfterScan, SameBrackets

LEMMA StartDedupInv == BInv /\ StartDedup => BInv'
<1> SUFFICES ASSUME BInv, StartDedup PROVE BInv'
  OBVIOUS
<1> USE DEF BInv, IInv
<1>1. /\ phase = "bracket" /\ fn \in Fns /\ pc \notin DOMAIN hits[fn]
      /\ phase' = "dedup" /\ pc' = 1
      /\ UNCHANGED <<code, strict, fn, hits, candidates, brackets>>
  BY DEF StartDedup
<1>2. \A i \in DOMAIN hits[fn] : i < pc
  <2>1. DOMAIN hits[fn] = 1..Len(hits[fn]) /\ Len(hits[fn]) \in Nat /\ pc \in Nat \ {0}
    BY <1>1 DEF TypeOK
  <2>2. QED
    BY <1>1, <2>1
<1>3. TypeOK'
  <2>1. \A i \in DOMAIN candidates' : FromHit(fn, candidates[i])'
    BY <1>1, SameHits DEF TypeOK
  <2>2. \A f \in Fns : \A k \in RealBrackets(f)' : FromHit(f, brackets[f][k])'
    BY <1>1, SameBrackets
  <2>3. phase' \in {"dedup"} /\ pc' \in Nat \ {0} /\ fn' \in Fns
    BY <1>1
  <2>4. QED
    BY <1>1, <2>1, <2>2, <2>3 DEF TypeOK
<1>4. CandidatesAreHits'
  <2> DEFINE seen == {i \in DOMAIN hits[fn] : phase = "bracket" => i < pc}
             all == {i \in DOMAIN hits'[fn'] : phase' = "bracket" => i < pc'}
  <2>1. seen = all
    BY <1>1, <1>2
  <2> HIDE DEF all
  <2>2. QED
    BY <1>1, <2>1, SameCode DEF CandidatesAreHits, all
<1>5. brackets[fn] = <<>>
  BY <1>1 DEF NotYet, Handled, Fns
<1>6. BracketsAreCandidates'
  <2>1. \A i \in DOMAIN candidates' : ~ (i < pc')
    <3>1. DOMAIN candidates \subseteq Nat \ {0}
      BY DEF TypeOK
    <3>2. QED
      BY <1>1, <3>1
  <2>2. QED
    BY <1>1, <1>5, <2>1 DEF BracketsAreCandidates
<1>7. Handled' = Handled
  BY <1>1 DEF Handled
<1>8. NotYet' /\ NoEventLost'
  BY <1>1, <1>7, SameCode DEF NotYet, NoEventLost
<1>9. PublishedOnce'
  BY <1>1 DEF PublishedOnce
<1>10. QED
  BY <1>1, <1>3, <1>4, <1>6, <1>8, <1>9, AfterScan, SameBrackets

(* The deduplication of one candidate, when it is the new k-th bracket: it  *)
(* replaces one of the same event that is not stronger, or is of an event   *)
(* that had no bracket.                                                     *)
LEMMA DedupStep ==
  ASSUME BInv, phase = "dedup", pc \in DOMAIN candidates, pc' = pc + 1,
         UNCHANGED <<code, strict, phase, fn, hits, candidates>>,
         NEW s \in Seq(BracketRecords), brackets' = [brackets EXCEPT ![fn] = s],
         NEW k \in DOMAIN s, s[k] = candidates[pc],
         DOMAIN brackets[fn] \subseteq DOMAIN s,
         \A j \in DOMAIN s : j # k =>
           /\ j \in DOMAIN brackets[fn] /\ s[j] = brackets[fn][j]
           /\ ~ SameEvent(fn, s[j], candidates[pc]),
         k \in DOMAIN brackets[fn] =>
           /\ SameEvent(fn, brackets[fn][k], candidates[pc])
           /\ Rank[candidates[pc].ordering] >= Rank[brackets[fn][k].ordering]
  PROVE  BInv'
<1> USE DEF BInv, IInv
<1>1. fn \in Fns /\ pc' \in Nat \ {0} /\ pc \in Nat /\ DOMAIN candidates \subseteq Nat
  <2>1. fn \in Fns /\ pc \in Nat \ {0} /\ candidates \in Seq(BracketRecords)
    BY DEF TypeOK
  <2>2. QED
    BY <2>1
<1>2. /\ brackets \in [Fns -> Seq(BracketRecords)]
      /\ \A f \in Fns \ {fn} : brackets'[f] = brackets[f]
      /\ brackets'[fn] = s
  BY <1>1 DEF TypeOK
<1>3. \A c \in DOMAIN candidates : /\ candidates[c] \in BracketRecords
                                 /\ candidates[c].label # PlainLabel
                                 /\ FromHit(fn, candidates[c])
  BY <1>1, CandidateLabels
<1>4. \A j \in DOMAIN brackets[fn] :
        \E i \in DOMAIN candidates : i < pc /\ brackets[fn][j] = candidates[i]
  BY DEF BracketsAreCandidates
<1>5. \A j \in DOMAIN s : j # k =>
        \E i \in DOMAIN candidates : i < pc /\ s[j] = candidates[i]
  BY <1>4
<1>6. \A j \in DOMAIN s : s[j].label # PlainLabel /\ FromHit(fn, s[j])
  BY <1>3, <1>5
<1>7. TypeOK'
  <2>1. \A i \in DOMAIN candidates' : FromHit(fn, candidates[i])'
    BY <1>3, SameHits
  <2>2. \A f \in Fns : \A j \in RealBrackets(f)' : FromHit(f, brackets[f][j])'
    <3>1. \A f \in Fns \ {fn} : \A j \in RealBrackets(f) : FromHit(f, brackets[f][j])
      BY DEF TypeOK
    <3>2. \A f \in Fns \ {fn} : \A j \in RealBrackets(f)' : FromHit(f, brackets'[f][j])
      BY <1>2, <3>1 DEF RealBrackets
    <3>3. \A f \in Fns : \A j \in RealBrackets(f)' : FromHit(f, brackets'[f][j])
      BY <1>1, <1>2, <1>6, <3>2 DEF RealBrackets
    <3>4. QED
      BY <3>3, SameHits
  <2>3. brackets' \in [Fns -> Seq(BracketRecords)]
    BY <1>1, <1>2
  <2>4. QED
    BY <1>1, <2>1, <2>2, <2>3 DEF TypeOK
<1>8. CandidatesAreHits'
  BY SameCode DEF CandidatesAreHits
<1>9. BracketsAreCandidates'
  <2>1. \A i \in DOMAIN candidates : i < pc + 1 =>
          \E j \in DOMAIN s : /\ SameEvent(fn, s[j], candidates[i])
                            /\ Rank[s[j].ordering] >= Rank[candidates[i].ordering]
    <3> SUFFICES ASSUME NEW i \in DOMAIN candidates, i < pc + 1
                 PROVE  \E j \in DOMAIN s : /\ SameEvent(fn, s[j], candidates[i])
                                          /\ Rank[s[j].ordering] >= Rank[candidates[i].ordering]
      OBVIOUS
    <3>0. \A c \in DOMAIN candidates : Rank[candidates[c].ordering] \in Nat
      BY <1>3, RankIsNat DEF BracketRecords
    <3>1. CASE i = pc
      BY <1>1, <3>0, <3>1, SameEventFacts
    <3>2. CASE i # pc
      <4>1. i < pc
        BY <1>1, <3>2
      <4>2. PICK j \in DOMAIN brackets[fn] :
              /\ SameEvent(fn, brackets[fn][j], candidates[i])
              /\ Rank[brackets[fn][j].ordering] >= Rank[candidates[i].ordering]
        BY <4>1 DEF BracketsAreCandidates
      <4>3. CASE j # k
        BY <4>2, <4>3
      <4>4. CASE j = k
        <5>1. SameEvent(fn, s[k], candidates[i])
          BY <4>2, <4>4, SameEventFacts
        <5>2. Rank[brackets[fn][k].ordering] \in Nat
          BY <1>4, <3>0, <4>4
        <5>3. Rank[s[k].ordering] >= Rank[candidates[i].ordering]
          BY <3>0, <4>2, <4>4, <5>2
        <5>4. QED
          BY <5>1, <5>3
      <4>5. QED
        BY <4>3, <4>4
    <3>3. QED
      BY <3>1, <3>2
  <2>2. \A j \in DOMAIN s : \E i \in DOMAIN candidates : i < pc + 1 /\ s[j] = candidates[i]
    BY <1>1, <1>5
  <2>3. brackets'[fn'] = s /\ fn' = fn
    BY <1>2
  <2> HIDE DEF BInv, IInv
  <2>4. \A i \in DOMAIN candidates' : i < pc' =>
          \E j \in DOMAIN brackets'[fn'] :
            /\ SameEvent(fn', brackets'[fn'][j], candidates'[i])
            /\ Rank[brackets'[fn'][j].ordering] >= Rank[candidates'[i].ordering]
    BY <2>1, <2>3
  <2>5. \A j \in DOMAIN brackets'[fn'] :
          \E i \in DOMAIN candidates' : i < pc' /\ brackets'[fn'][j] = candidates'[i]
    BY <2>2, <2>3
  <2>6. QED
    BY <2>4, <2>5, SameCode DEF BracketsAreCandidates
<1>10. Handled' = Handled /\ fn \notin Handled
  BY <1>1 DEF Handled, Fns
<1>11. NotYet'
  BY <1>2, <1>10 DEF NotYet
<1>12. NoEventLost'
  BY <1>2, <1>10, SameCode DEF NoEventLost
<1>13. PublishedOnce'
  BY <1>2, <1>6 DEF PublishedOnce
<1>14. LabelsDistinct'
  <2>1. \A j \in DOMAIN s : j # k => s[j].label # s[k].label
    BY <1>1, <1>5 DEF CandidatesAreHits
  <2>2. \A j, l \in DOMAIN s : s[j].label = s[l].label => j = l
    BY <1>1, <2>1 DEF LabelsDistinct
  <2>3. QED
    BY <1>2, <2>2 DEF LabelsDistinct
<1>15. EventsDistinct'
  <2>1. \A f \in Fns \ {fn} : RealBrackets(f)' = RealBrackets(f)
    BY <1>2 DEF RealBrackets
  <2>2. \A j, l \in DOMAIN brackets[fn] : SameEvent(fn, brackets[fn][j], brackets[fn][l]) => j = l
    BY <1>1, <1>3, <1>4 DEF EventsDistinct, RealBrackets
  <2>3. \A j, l \in DOMAIN s : SameEvent(fn, s[j], s[l]) => j = l
    BY <2>2, SameEventFacts
  <2>4. \A f \in Fns : \A j, l \in RealBrackets(f)' :
          SameEvent(f, brackets'[f][j], brackets'[f][l]) => j = l
    BY <1>2, <2>1, <2>3 DEF EventsDistinct, RealBrackets
  <2>5. QED
    BY <2>4, SameCode DEF EventsDistinct
<1>16. QED
  BY <1>7, <1>8, <1>9, <1>11, <1>12, <1>13, <1>14, <1>15, AfterScan

LEMMA KeepInv == BInv /\ Keep => BInv'
<1> SUFFICES ASSUME BInv, Keep PROVE BInv'
  OBVIOUS
<1> DEFINE c == candidates[pc]
           n == Len(brackets[fn])
           s == Append(brackets[fn], c)
<1>1. /\ phase = "dedup" /\ pc \in DOMAIN candidates /\ pc' = pc + 1
      /\ UNCHANGED <<code, strict, phase, fn, hits, candidates>>
      /\ \A k \in DOMAIN brackets[fn] : ~ SameEvent(fn, brackets[fn][k], c)
      /\ brackets' = [brackets EXCEPT ![fn] = s]
  BY DEF Keep
<1>2. c \in BracketRecords /\ fn \in Fns /\ brackets[fn] \in Seq(BracketRecords)
  BY <1>1, CandidateLabels DEF BInv, IInv, TypeOK
<1>3. /\ s \in Seq(BracketRecords) /\ n + 1 \in DOMAIN s /\ s[n + 1] = c
      /\ DOMAIN brackets[fn] = 1..n /\ n \in Nat /\ DOMAIN s = 1..(n + 1)
      /\ \A j \in DOMAIN brackets[fn] : s[j] = brackets[fn][j]
  BY <1>2, Appending
<1> HIDE DEF s, c, n
<1>4. /\ DOMAIN brackets[fn] \subseteq DOMAIN s /\ n + 1 \notin DOMAIN brackets[fn]
      /\ \A j \in DOMAIN s : j # n + 1 =>
           /\ j \in DOMAIN brackets[fn] /\ s[j] = brackets[fn][j]
           /\ ~ SameEvent(fn, s[j], c)
  BY <1>1, <1>3
<1>5. QED
  BY <1>1, <1>3, <1>4, DedupStep DEF c

LEMMA MergeInv == BInv /\ Merge => BInv'
<1> SUFFICES ASSUME BInv, Merge PROVE BInv'
  OBVIOUS
<1> DEFINE c == candidates[pc]
<1>1. PICK k \in DOMAIN brackets[fn] :
        /\ SameEvent(fn, brackets[fn][k], c)
        /\ brackets' = IF Stronger(c, brackets[fn][k])
                       THEN [brackets EXCEPT ![fn][k] = c] ELSE brackets
  BY DEF Merge
<1>2. /\ phase = "dedup" /\ pc \in DOMAIN candidates /\ pc' = pc + 1
      /\ UNCHANGED <<code, strict, phase, fn, hits, candidates>>
  BY DEF Merge
<1>3. /\ fn \in Fns /\ c \in BracketRecords /\ brackets[fn] \in Seq(BracketRecords)
      /\ brackets \in [Fns -> Seq(BracketRecords)]
  BY <1>2, CandidateLabels DEF BInv, IInv, TypeOK
<1>4. \A j \in DOMAIN brackets[fn] :
        \E i \in DOMAIN candidates : i < pc /\ brackets[fn][j] = candidates[i]
  BY <1>2 DEF BInv, IInv, BracketsAreCandidates
<1>5. \A j \in DOMAIN brackets[fn] : brackets[fn][j].label # PlainLabel
  BY <1>2, <1>3, <1>4, CandidateLabels
<1>6. /\ Rank[c.ordering] \in Nat
      /\ \A j \in DOMAIN brackets[fn] : Rank[brackets[fn][j].ordering] \in Nat
  <2>1. \A b \in BracketRecords : Rank[b.ordering] \in Nat
    BY RankIsNat DEF BracketRecords
  <2>2. QED
    BY <1>3, <2>1, ElementIn
<1>7. CASE Stronger(c, brackets[fn][k])
  <2> DEFINE s == [brackets[fn] EXCEPT ![k] = c]
  <2>1. brackets' = [brackets EXCEPT ![fn] = s]
    BY <1>1, <1>7
  <2>2. /\ s \in Seq(BracketRecords) /\ DOMAIN s = DOMAIN brackets[fn] /\ s[k] = c
        /\ \A j \in DOMAIN s : j # k => s[j] = brackets[fn][j]
    BY <1>1, <1>3
  <2>3. \A j \in DOMAIN s : j # k => ~ SameEvent(fn, s[j], c)
    <3>1. \A j \in DOMAIN s : j # k => ~ SameEvent(fn, brackets[fn][j], brackets[fn][k])
      BY <1>1, <1>3, <1>5, <2>2 DEF BInv, IInv, EventsDistinct, RealBrackets
    <3>2. QED
      BY <1>1, <2>2, <3>1, SameEventFacts
  <2>4. Rank[c.ordering] >= Rank[brackets[fn][k].ordering]
    BY <1>1, <1>6, <1>7 DEF Stronger
  <2> HIDE DEF s, c
  <2>5. k \in DOMAIN s /\ DOMAIN brackets[fn] \subseteq DOMAIN s
    BY <2>2
  <2>6. QED
    BY <1>1, <1>2, <2>1, <2>2, <2>3, <2>4, <2>5, DedupStep DEF c
<1>8. CASE ~ Stronger(c, brackets[fn][k])
  <2> USE DEF BInv, IInv
  <2>1. brackets' = brackets
    BY <1>1, <1>8
  <2>2. pc \in Nat /\ pc' \in Nat \ {0} /\ DOMAIN candidates \subseteq Nat
    <3>1. pc \in Nat \ {0} /\ candidates \in Seq(BracketRecords)
      BY DEF TypeOK
    <3>2. QED
      BY <1>2, <3>1
  <2>3. Rank[brackets[fn][k].ordering] >= Rank[c.ordering]
    BY <1>1, <1>6, <1>8 DEF Stronger
  <2>4. BracketsAreCandidates'
    <3>1. \A i \in DOMAIN candidates : i < pc + 1 => i < pc \/ i = pc
      BY <2>2
    <3>2. \A i \in DOMAIN candidates : i < pc + 1 =>
            \E j \in DOMAIN brackets[fn] :
              /\ SameEvent(fn, brackets[fn][j], candidates[i])
              /\ Rank[brackets[fn][j].ordering] >= Rank[candidates[i].ordering]
      BY <1>1, <1>2, <2>3, <3>1 DEF BracketsAreCandidates
    <3>3. \A j \in DOMAIN brackets[fn] :
            \E i \in DOMAIN candidates : i < pc + 1 /\ brackets[fn][j] = candidates[i]
      BY <1>4, <2>2
    <3>4. QED
      BY <1>2, <2>1, <3>2, <3>3, SameCode DEF BracketsAreCandidates
  <2>5. TypeOK'
    <3>1. \A i \in DOMAIN candidates' : FromHit(fn, candidates[i])'
      BY <1>2, SameHits DEF TypeOK
    <3>2. \A f \in Fns : \A j \in RealBrackets(f)' : FromHit(f, brackets[f][j])'
      BY <1>2, <2>1, SameBrackets
    <3>3. QED
      BY <1>2, <2>1, <2>2, <3>1, <3>2 DEF TypeOK
  <2>6. Handled' = Handled
    BY <1>2 DEF Handled
  <2>7. CandidatesAreHits' /\ NotYet' /\ NoEventLost'
    BY <1>2, <2>1, <2>6, SameCode DEF CandidatesAreHits, NotYet, NoEventLost
  <2>8. PublishedOnce'
    BY <1>2, <2>1 DEF PublishedOnce
  <2>9. QED
    BY <1>2, <2>1, <2>4, <2>5, <2>7, <2>8, AfterScan, SameBrackets
<1>9. QED
  BY <1>7, <1>8

LEMMA FnDoneInv == BInv /\ FnDone => BInv'
<1> SUFFICES ASSUME BInv, FnDone PROVE BInv'
  OBVIOUS
<1> USE DEF BInv, IInv
<1>1. /\ phase = "dedup" /\ pc \notin DOMAIN candidates /\ phase' = "bracket"
      /\ fn' = fn + 1 /\ pc' = 1 /\ candidates' = <<>>
      /\ UNCHANGED <<code, strict, hits, brackets>>
  BY DEF FnDone
<1>2. fn \in Fns /\ fn' \in 1..(NumFns + 1) /\ Fns \subseteq Nat /\ fn < fn'
  BY <1>1, NumFnsAssumption DEF TypeOK, Fns
<1>3. \A i \in DOMAIN candidates : i < pc
  <2>1. DOMAIN candidates = 1..Len(candidates) /\ Len(candidates) \in Nat /\ pc \in Nat \ {0}
    BY DEF TypeOK
  <2>2. QED
    BY <1>1, <2>1
<1>4. TypeOK'
  <2>1. \A f \in Fns : \A k \in RealBrackets(f)' : FromHit(f, brackets[f][k])'
    BY <1>1, SameBrackets
  <2>2. candidates' \in Seq(BracketRecords) /\ DOMAIN candidates' = {} /\ pc' \in Nat \ {0}
    BY <1>1
  <2>3. candidates' = <<>> /\ phase' = "bracket"
    BY <1>1
  <2>4. QED
    BY <1>1, <1>2, <2>1, <2>2, <2>3 DEF TypeOK
<1>5. CandidatesAreHits'
  <2>1. \A i \in DOMAIN hits'[fn'] : fn' \in Fns => ~ (i < pc')
    BY <1>1 DEF TypeOK
  <2>2. fn' \in Fns => {i \in DOMAIN hits'[fn'] : phase' = "bracket" => i < pc'} = {}
    BY <1>1, <2>1
  <2>3. QED
    BY <1>1, <2>2 DEF CandidatesAreHits
<1>6. Handled' = Handled \cup {fn}
  BY <1>1, <1>2 DEF Handled, Fns
<1>7. NotYet'
  BY <1>1, <1>6 DEF NotYet
<1>8. NoEventLost'
  <2>1. \A i \in DOMAIN hits[fn] : Bracketed(fn, hits[fn][i]) =>
          \E k \in DOMAIN brackets[fn] :
            /\ SameEvent(fn, brackets[fn][k], Formed(fn, hits[fn][i]))
            /\ Rank[brackets[fn][k].ordering] >= Rank[hits[fn][i].ordering]
    <3> SUFFICES ASSUME NEW i \in DOMAIN hits[fn], Bracketed(fn, hits[fn][i])
                 PROVE  \E k \in DOMAIN brackets[fn] :
                          /\ SameEvent(fn, brackets[fn][k], Formed(fn, hits[fn][i]))
                          /\ Rank[brackets[fn][k].ordering] >= Rank[hits[fn][i].ordering]
      OBVIOUS
    <3>1. PICK c \in DOMAIN candidates : candidates[c] = Formed(fn, hits[fn][i])
      BY <1>1, <1>2 DEF CandidatesAreHits
    <3>2. candidates[c].ordering = hits[fn][i].ordering
      BY <3>1, FormedFields
    <3>3. QED
      BY <1>1, <1>3, <3>1, <3>2 DEF BracketsAreCandidates
  <2>2. \A f \in Handled' : \A i \in DOMAIN hits[f] : Bracketed(f, hits[f][i]) =>
          \E k \in DOMAIN brackets[f] :
            /\ SameEvent(f, brackets[f][k], Formed(f, hits[f][i]))
            /\ Rank[brackets[f][k].ordering] >= Rank[hits[f][i].ordering]
    BY <1>6, <2>1 DEF NoEventLost
  <2>3. QED
    BY <1>1, <2>2, SameCode DEF NoEventLost
<1>9. PublishedOnce' /\ BracketsAreCandidates'
  BY <1>1 DEF PublishedOnce, BracketsAreCandidates
<1>10. QED
  BY <1>1, <1>4, <1>5, <1>7, <1>8, <1>9, AfterScan, SameBrackets

(* Strict publish.                                                          *)
LEMMA StartPublishInv == BInv /\ StartPublish => BInv'
<1> SUFFICES ASSUME BInv, StartPublish PROVE BInv'
  OBVIOUS
<1> USE DEF BInv, IInv
<1>1. /\ phase = "bracket" /\ fn \notin Fns /\ phase' \in {"publish", "done"}
      /\ UNCHANGED <<code, strict, pc, hits, candidates, brackets>>
      /\ fn' = 1 \/ fn' = fn
  BY DEF StartPublish
<1>2. fn' \in 1..(NumFns + 1) /\ \A f \in Fns : f < fn
  BY <1>1, NumFnsAssumption DEF TypeOK, Fns
<1>3. candidates = <<>>
  BY <1>1 DEF TypeOK
<1>4. TypeOK'
  <2>1. \A f \in Fns : \A k \in RealBrackets(f)' : FromHit(f, brackets[f][k])'
    BY <1>1, SameBrackets
  <2>2. candidates' \in Seq(BracketRecords) /\ DOMAIN candidates' = {} /\ candidates' = <<>>
    BY <1>1, <1>3
  <2>3. QED
    BY <1>1, <1>2, <2>1, <2>2 DEF TypeOK
<1>5. Handled = Fns /\ Handled' = Fns
  BY <1>1, <1>2 DEF Handled
<1>6. CandidatesAreHits' /\ BracketsAreCandidates' /\ NotYet'
  BY <1>1, <1>5 DEF CandidatesAreHits, BracketsAreCandidates, NotYet
<1>7. NoEventLost'
  BY <1>1, <1>5, SameCode DEF NoEventLost
<1>8. PublishedOnce'
  BY <1>1 DEF PublishedOnce
<1>9. QED
  BY <1>1, <1>4, <1>6, <1>7, <1>8, AfterScan, SameBrackets

LEMMA PublishInv == BInv /\ Publish => BInv'
<1> SUFFICES ASSUME BInv, Publish PROVE BInv'
  OBVIOUS
<1> USE DEF BInv, IInv
<1> DEFINE n == Len(brackets[fn])
<1>1. /\ phase = "publish" /\ fn \in Fns /\ fn' = fn + 1
      /\ UNCHANGED <<code, strict, phase, pc, hits, candidates>>
      /\ brackets' = IF ~ Synchronises(fn) /\ FlagIdx(fn) # 0
                     THEN [brackets EXCEPT ![fn] = Append(@, PlainBracket(fn))] ELSE brackets
  BY DEF Publish
<1>2. fn' \in 1..(NumFns + 1) /\ Fns \subseteq Nat
  BY <1>1, NumFnsAssumption DEF Fns
<1>3. candidates = <<>> /\ brackets \in [Fns -> Seq(BracketRecords)]
  BY <1>1 DEF TypeOK
<1>4. Handled = Fns /\ Handled' = Fns
  BY <1>1 DEF Handled
<1>5. CandidatesAreHits' /\ BracketsAreCandidates' /\ NotYet'
  BY <1>1, <1>4 DEF CandidatesAreHits, BracketsAreCandidates, NotYet
<1>6. CASE ~ (~ Synchronises(fn) /\ FlagIdx(fn) # 0)
  <2>1. brackets' = brackets
    BY <1>1, <1>6
  <2>2. TypeOK'
    <3>1. \A f \in Fns : \A k \in RealBrackets(f)' : FromHit(f, brackets[f][k])'
      BY <1>1, <2>1, SameBrackets
    <3>2. candidates' \in Seq(BracketRecords) /\ DOMAIN candidates' = {} /\ candidates' = <<>>
      BY <1>1, <1>3
    <3>3. QED
      BY <1>1, <1>2, <2>1, <3>1, <3>2 DEF TypeOK
  <2>3. NoEventLost'
    BY <1>1, <1>4, <2>1, SameCode DEF NoEventLost
  <2>4. PublishedOnce'
    <3>1. \A f \in Fns : f < fn => f < fn'
      BY <1>1, <1>2
    <3>2. QED
      BY <1>1, <2>1, <3>1, SameCode, SameHits DEF PublishedOnce
  <2>5. QED
    BY <1>1, <1>5, <2>1, <2>2, <2>3, <2>4, AfterScan, SameBrackets
<1>7. CASE ~ Synchronises(fn) /\ FlagIdx(fn) # 0
  <2> DEFINE b == PlainBracket(fn)
  <2>1. b \in BracketRecords /\ b.label = PlainLabel
    BY <1>1, <1>7, PlainIsBracket DEF PlainBracket
  <2> HIDE DEF b
  <2>2. /\ brackets' = [brackets EXCEPT ![fn] = Append(@, b)]
        /\ \A f \in Fns \ {fn} : brackets'[f] = brackets[f]
        /\ brackets'[fn] = Append(brackets[fn], b)
    BY <1>1, <1>3, <1>7 DEF b
  <2>3. /\ brackets[fn] \in Seq(BracketRecords)
        /\ DOMAIN brackets[fn] = 1..n /\ n \in Nat
        /\ DOMAIN brackets'[fn] = 1..(n + 1) /\ brackets'[fn][n + 1] = b
        /\ \A k \in DOMAIN brackets[fn] : brackets'[fn][k] = brackets[fn][k]
    BY <1>1, <1>3, <2>1, <2>2, Appending
  <2>4. \A f \in Fns :
          /\ DOMAIN brackets[f] \subseteq DOMAIN brackets'[f]
          /\ \A k \in DOMAIN brackets[f] : brackets'[f][k] = brackets[f][k]
          /\ \A k \in DOMAIN brackets'[f] : k \in DOMAIN brackets[f] \/ (f = fn /\ k = n + 1)
    BY <2>2, <2>3
  <2>5. \A f \in Fns : RealBrackets(f)' = RealBrackets(f)
    BY <2>1, <2>3, <2>4 DEF RealBrackets
  <2>6. TypeOK'
    <3>1. \A f \in Fns : \A k \in RealBrackets(f)' : FromHit(f, brackets[f][k])'
      <4>1. \A f \in Fns : \A k \in RealBrackets(f)' : FromHit(f, brackets'[f][k])
        BY <2>4, <2>5 DEF TypeOK, RealBrackets
      <4>2. QED
        BY <1>1, <4>1, SameHits
    <3>2. candidates' \in Seq(BracketRecords) /\ DOMAIN candidates' = {} /\ candidates' = <<>>
      BY <1>1, <1>3
    <3>3. brackets' \in [Fns -> Seq(BracketRecords)]
      BY <1>1, <1>3, <2>1, <2>2, AppendAt
    <3>4. QED
      BY <1>1, <1>2, <3>1, <3>2, <3>3 DEF TypeOK
  <2>7. NoEventLost'
    <3>1. \A f \in Fns : \A i \in DOMAIN hits[f] : Bracketed(f, hits[f][i]) =>
            \E k \in DOMAIN brackets'[f] :
              /\ SameEvent(f, brackets'[f][k], Formed(f, hits[f][i]))
              /\ Rank[brackets'[f][k].ordering] >= Rank[hits[f][i].ordering]
      <4> SUFFICES ASSUME NEW f \in Fns, NEW i \in DOMAIN hits[f], Bracketed(f, hits[f][i])
                   PROVE  \E k \in DOMAIN brackets'[f] :
                            /\ SameEvent(f, brackets'[f][k], Formed(f, hits[f][i]))
                            /\ Rank[brackets'[f][k].ordering] >= Rank[hits[f][i].ordering]
        OBVIOUS
      <4>1. PICK k \in DOMAIN brackets[f] :
              /\ SameEvent(f, brackets[f][k], Formed(f, hits[f][i]))
              /\ Rank[brackets[f][k].ordering] >= Rank[hits[f][i].ordering]
        BY <1>4 DEF NoEventLost
      <4>2. k \in DOMAIN brackets'[f] /\ brackets'[f][k] = brackets[f][k]
        BY <2>4
      <4>3. QED
        BY <4>1, <4>2
    <3>2. QED
      BY <1>1, <1>4, <3>1, SameCode DEF NoEventLost
  <2>8. PublishedOnce'
    <3>1. \A f \in Fns : f < fn => f < fn'
      BY <1>1, <1>2
    <3>2. fn < fn'
      BY <1>1, <1>2
    <3>3. \A f \in Fns : \A k \in DOMAIN brackets'[f] : brackets'[f][k].label = PlainLabel =>
            f < fn' /\ brackets'[f][k] = PlainBracket(f) /\ FlagIdx(f) # 0 /\ ~ Synchronises(f)
      <4> TAKE f \in Fns
      <4> TAKE k \in DOMAIN brackets'[f]
      <4>1. CASE k \in DOMAIN brackets[f]
        BY <1>1, <2>4, <3>1, <4>1 DEF PublishedOnce
      <4>2. CASE f = fn /\ k = n + 1
        BY <1>7, <2>3, <3>2, <4>2 DEF b
      <4>3. QED
        BY <2>4, <4>1, <4>2
    <3>4. QED
      BY <1>1, <3>3, SameCode, SameHits DEF PublishedOnce
  <2>9. LabelsDistinct'
    <3>1. \A k \in DOMAIN brackets[fn] : brackets[fn][k].label # PlainLabel
      BY <1>1, <1>2 DEF PublishedOnce
    <3>2. \A f \in Fns : \A j, k \in DOMAIN brackets'[f] :
            brackets'[f][j].label = brackets'[f][k].label => j = k
      BY <2>1, <2>3, <2>4, <3>1 DEF LabelsDistinct
    <3>3. QED
      BY <3>2 DEF LabelsDistinct
  <2>10. EventsDistinct'
    <3>1. \A f \in Fns : \A j, k \in RealBrackets(f)' :
            SameEvent(f, brackets'[f][j], brackets'[f][k]) => j = k
      BY <2>4, <2>5 DEF EventsDistinct, RealBrackets
    <3>2. QED
      <4> HIDE DEF BInv, IInv
      <4>1. \A f \in Fns : \A j, k \in RealBrackets(f)' :
              SameEvent(f, brackets[f][j], brackets[f][k])' => j = k
        <5> TAKE f \in Fns
        <5> TAKE j, k \in RealBrackets(f)'
        <5>1. SameEvent(f, brackets[f][j], brackets[f][k])'
                = SameEvent(f, brackets'[f][j], brackets'[f][k])
          BY <1>1, SameCode
        <5>2. QED
          BY <3>1, <5>1
      <4>2. QED
        BY <4>1 DEF EventsDistinct
  <2>11. QED
    BY <1>1, <1>5, <2>6, <2>7, <2>8, <2>9, <2>10, AfterScan
<1>8. QED
  BY <1>6, <1>7

LEMMA FinishInv == BInv /\ Finish => BInv'
<1> SUFFICES ASSUME BInv, Finish PROVE BInv'
  OBVIOUS
<1> USE DEF BInv, IInv
<1>1. /\ phase = "publish" /\ phase' = "done"
      /\ UNCHANGED <<code, strict, fn, pc, hits, candidates, brackets>>
  BY DEF Finish
<1>2. candidates = <<>>
  BY <1>1 DEF TypeOK
<1>3. TypeOK'
  <2>1. \A f \in Fns : \A k \in RealBrackets(f)' : FromHit(f, brackets[f][k])'
    BY <1>1, SameBrackets
  <2>2. candidates' \in Seq(BracketRecords) /\ DOMAIN candidates' = {} /\ candidates' = <<>>
    BY <1>1, <1>2
  <2>3. QED
    BY <1>1, <2>1, <2>2 DEF TypeOK
<1>4. Handled = Fns /\ Handled' = Fns
  BY <1>1 DEF Handled
<1>5. CandidatesAreHits' /\ BracketsAreCandidates' /\ NotYet'
  BY <1>1, <1>4 DEF CandidatesAreHits, BracketsAreCandidates, NotYet
<1>6. NoEventLost'
  BY <1>1, <1>4, SameCode DEF NoEventLost
<1>7. PublishedOnce'
  BY <1>1, SameCode, SameHits DEF PublishedOnce
<1>8. QED
  BY <1>1, <1>3, <1>5, <1>6, <1>7, AfterScan, SameBrackets

LEMMA StutterInv == BInv /\ UNCHANGED vars => BInv'
<1> SUFFICES ASSUME BInv, UNCHANGED vars PROVE BInv'
  OBVIOUS
<1> USE DEF BInv, IInv, vars
<1>1. Handled' = Handled
  BY DEF Handled
<1>2. HitLabelsDistinct' /\ HitsAreFound' /\ NotYet'
  BY <1>1 DEF HitLabelsDistinct, HitsAreFound, NotYet
<1>3. NoMnemonicMissed'
  BY SameHits DEF NoMnemonicMissed, Visited
<1>4. TypeOK'
  BY SameHits, SameBrackets DEF TypeOK
<1>5. PublishedOnce'
  BY SameCode, SameHits DEF PublishedOnce
<1>6. CandidatesAreHits' /\ NoEventLost'
  BY <1>1, SameCode DEF CandidatesAreHits, NoEventLost
<1>7. BracketsAreCandidates'
  BY SameCode DEF BracketsAreCandidates
<1>8. QED
  BY <1>2, <1>3, <1>4, <1>5, <1>6, <1>7, SameBrackets

----------------------------------------------------------------------------
(* The theorems.                                                            *)

LEMMA Always == Spec => []BInv
<1>1. BInv /\ [Next]_vars => BInv'
  <2> SUFFICES ASSUME BInv, [Next]_vars PROVE BInv'
    OBVIOUS
  <2>1. CASE AddHit \/ NextInst \/ NextFn \/ NoAnchors \/ StartBrackets
    BY <2>1, AddHitInv, NextInstInv, NextFnInv, NoAnchorsInv, StartBracketsInv
  <2>2. CASE FormBracket \/ StartDedup \/ Merge \/ Keep \/ FnDone
    BY <2>2, FormBracketInv, StartDedupInv, MergeInv, KeepInv, FnDoneInv
  <2>3. CASE StartPublish \/ Publish \/ Finish
    BY <2>3, StartPublishInv, PublishInv, FinishInv
  <2>4. CASE UNCHANGED vars
    BY <2>4, StutterInv
  <2>5. QED
    BY <2>1, <2>2, <2>3, <2>4 DEF Next
<1>2. QED
  BY <1>1, InitInv, PTL DEF Spec

(* The inductive invariant of AnchorPass and CausalDetectPass holds in      *)
(* every run: in particular the labels of the brackets of a function are    *)
(* distinct, which is what partner matching relies on, and no two brackets  *)
(* of a function describe the same event.                                   *)
THEOREM BracketsInvariant == Spec => []IInv
<1>1. BInv => IInv
  BY DEF BInv
<1>2. QED
  BY <1>1, Always, PTL

(* Whatever order the hits come in, the deduplication of CausalDetectPass   *)
(* loses no event, and keeps a bracket at least as strong as each that it   *)
(* merges.                                                                  *)
THEOREM DedupLosesNoEvent == Spec => []NoEventLost
<1>1. BInv => NoEventLost
  BY DEF BInv
<1>2. QED
  BY <1>1, Always, PTL

(* A function with a shared access and an anchor that is there to be found  *)
(* again has a bracket: a call that normaliseKernelAllocators leaves, or a  *)
(* mnemonic some block of it spells as its label.                           *)
THEOREM AnchoredFunctionsRepresented == Spec => []NoAnchoredFunctionIgnored
<1>1. BInv => NoAnchoredFunctionIgnored
  <2> SUFFICES ASSUME BInv, NEW f \in Handled,
                      NEW i \in DOMAIN hits[f], Lasting(f, hits[f][i]),
                      NEW p \in DOMAIN code[f], Plain(code[f][p])
               PROVE  brackets[f] # <<>>
    BY DEF NoAnchoredFunctionIgnored
  <2> DEFINE h == hits[f][i]
             at == AnchorIdx(f, h)
  <2>1. f \in Fns /\ code \in [Fns -> Seq(Instructions)]
    BY DEF Handled, BInv, IInv, TypeOK
  <2>2. \E q \in DOMAIN code[f] : IsAnchorInst(code[f][q], h)
    <3>1. CASE h.site = "asm"
      BY <3>1 DEF Lasting, IsAnchorInst
    <3>2. CASE h.site # "asm"
      <4>1. h.site \notin Allocators
        BY <3>2 DEF Lasting
      <4>2. PICK q \in DOMAIN code[f] : StemsFrom(code[f][q], h)
        BY <2>1, <4>1 DEF BInv, IInv, HitsAreFound
      <4>3. QED
        BY <3>2, <4>2 DEF StemsFrom, IsAnchorInst
    <3>3. QED
      BY <3>1, <3>2
  <2> HIDE DEF h
  <2>3. Located(f, h) /\ at \in Nat /\ IsAnchorInst(code[f][at], h)
    BY <2>1, <2>2, AnchorFacts
  <2>4. at # p
    BY <2>3 DEF IsAnchorInst, Plain
  <2>5. p \in Nat
    <3>1. code[f] \in Seq(Instructions)
      BY <2>1
    <3>2. QED
      BY <3>1
  <2>6. BeforeIdx(f, at) # 0 \/ AfterIdx(f, at) # 0
    <3> HIDE DEF at
    <3>1. p < at \/ p > at
      BY <2>3, <2>4, <2>5
    <3>2. QED
      BY <2>1, <2>3, <3>1, IdxFacts
  <2>7. Bracketed(f, h)
    BY <2>3, <2>6, FormedFields DEF Bracketed, HasSide
  <2>8. \E k \in DOMAIN brackets[f] : TRUE
    BY <2>7 DEF h, BInv, NoEventLost
  <2>9. QED
    BY <2>8
<1>2. QED
  BY <1>1, Always, PTL

(* Every bracket that strict publish synthesises has the message-passing    *)
(* shape, and its function executes no asm anchor that releases.            *)
THEOREM SyntheticBracketsArePublishes == Spec => []PlainPublishIsMP
<1>1. BInv => PlainPublishIsMP
  <2> SUFFICES ASSUME BInv, NEW f \in Fns, NEW k \in DOMAIN brackets[f],
                      brackets[f][k].label = PlainLabel
               PROVE  LET b == brackets[f][k]
                      IN  /\ b.before \in Stores(f) /\ b.at \in Stores(f) /\ b.before < b.at
                          /\ code[f][b.before].obj # code[f][b.at].obj
                          /\ b.alloc \in Globals
                          /\ \A i \in DOMAIN code[f] : code[f][i].op = "asm" =>
                               \A a \in code[f][i].mnemonics :
                                 AsmKind[a] # "Load" => AsmOrdering[a] \notin {"Release", "SC"}
    BY DEF PlainPublishIsMP
  <2>1. /\ brackets[f][k] = PlainBracket(f) /\ FlagIdx(f) # 0 /\ ~ Synchronises(f)
        /\ phase # "anchors"
    BY DEF BInv, IInv, PublishedOnce
  <2>2. code \in [Fns -> Seq(Instructions)]
    BY DEF BInv, IInv, TypeOK
  <2>3. ASSUME NEW i \in DOMAIN code[f], code[f][i].op = "asm",
               NEW a \in code[f][i].mnemonics, AsmKind[a] # "Load"
        PROVE  AsmOrdering[a] \notin {"Release", "SC"}
    <3> SUFFICES ASSUME AsmOrdering[a] \in {"Release", "SC"} PROVE FALSE
      OBVIOUS
    <3>1. Recorded(f, a)
      BY <2>1, <2>3 DEF BInv, IInv, NoMnemonicMissed, Visited
    <3>2. PICK j \in DOMAIN hits[f] : hits[f][j].label = a
      BY <2>3, <3>1 DEF Recorded
    <3>3. a \in Mnemonics
      <4>1. code[f][i] \in Instructions
        BY <2>2, ElementIn
      <4>2. QED
        BY <2>3, <4>1 DEF Instructions
    <3>4. hits[f][j] = AsmHit(a)
      BY <3>2, <3>3 DEF BInv, IInv, HitsAreFound
    <3>5. hits[f][j].site = "asm" /\ Rank[hits[f][j].ordering] >= Rank["Release"]
      BY <3>4 DEF AsmHit, Rank
    <3>6. QED
      BY <2>1, <3>5 DEF Synchronises
  <2>4. LET j == FlagIdx(f)
            i == FirstOf(Payloads(f, j))
        IN  /\ j \in Stores(f) /\ i \in Stores(f) /\ i < j
            /\ code[f][j].obj \in Globals /\ code[f][i].obj # code[f][j].obj
    BY <2>1, <2>2, FlagFacts
  <2>5. /\ brackets[f][k].at = FlagIdx(f)
        /\ brackets[f][k].before = FirstOf(Payloads(f, FlagIdx(f)))
        /\ brackets[f][k].alloc = code[f][FlagIdx(f)].obj
    BY <2>1, PlainFields
  <2>6. QED
    BY <2>3, <2>4, <2>5
<1>2. QED
  BY <1>1, Always, PTL
============================================================================

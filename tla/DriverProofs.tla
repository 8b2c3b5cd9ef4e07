------------------------------ MODULE DriverProofs ------------------------------
(****************************************************************************)
(* Proofs about the filter loop, for every chain of heuristics, every       *)
(* ablation request and whatever the heuristics say of whatever pairs; and  *)
(* about the whole process: the passes around the loop leave its state      *)
(* alone, and what the heuristics say of the pairs of a unit is a possible  *)
(* input of it.  Then, in this order, the discipline of the passes, sums    *)
(* over finite sets, the clock, the counters of the filter, and the STATS   *)
(* lines that come after it.                                                *)
(****************************************************************************)
EXTENDS DriverProps, FiniteSetTheorems, SequenceTheorems, WellFoundedInduction, TLAPS

(* What appending does to the elements of a sequence.                       *)
LEMMA Appending ==
  ASSUME NEW S, NEW s \in Seq(S), NEW e \in S
  PROVE  /\ Append(s, e) \in Seq(S)
         /\ DOMAIN s = 1..Len(s) /\ Len(s) \in Nat
         /\ Len(Append(s, e)) = Len(s) + 1
         /\ DOMAIN Append(s, e) = 1..(Len(s) + 1)
         /\ \A i \in DOMAIN s : Append(s, e)[i] = s[i]
         /\ Append(s, e)[Len(s) + 1] = e
  OBVIOUS

LEMMA ChainIsFinite ==
  /\ Len(Chain) \in Nat
  /\ DOMAIN Chain = 1..Len(Chain)
  /\ \A i \in DOMAIN Chain : Chain[i] \in Names
  BY ChainAssumption DEF Names

LEMMA PairsAreNumbered ==
  ASSUME TypeOK
  PROVE  /\ Len(matches) \in Nat
         /\ Pairs = 1..Len(matches)
         /\ \A p \in Pairs : matches[p] \subseteq Names
  BY DEF TypeOK, Pairs

LEMMA InitInv == Init => IInv
<1> SUFFICES ASSUME Init PROVE IInv
  OBVIOUS
<1>1. TypeOK
  BY ChainIsFinite DEF Init, Start, TypeOK, Pairs
<1>2. records = <<>> /\ survivors = <<>> /\ totalPairs = 0 /\ phase = "options" /\ disabled = {}
  BY DEF Init, Start
<1>3. AllDecided
  BY <1>2 DEF AllDecided, Decided
<1>4. QED
  BY <1>1, <1>2, <1>3 DEF IInv, Asking, AblationSet, InOrder, RecordedPairs, RecordsRight,
     SurvivorsRight

(* Steps that decide nothing: the lists stay, and so does what they say.    *)
LEMMA UndecidedStep ==
  ASSUME IInv, TypeOK', Asking', AblationSet',
         matches' = matches, records' = records, survivors' = survivors,
         Decided' = Decided, phase = "options" \/ disabled' = disabled
  PROVE  IInv'
<1>1. InOrder(survivors)' /\ InOrder(RecordedPairs)' /\ AllDecided'
  BY DEF IInv, InOrder, RecordedPairs, AllDecided
<1>2. RecordsRight' /\ SurvivorsRight'
  <2>1. CASE phase = "options"
    <3>1. Decided = 0
      BY <2>1 DEF IInv, AblationSet, Decided
    <3>2. {survivors[i] : i \in DOMAIN survivors} \cup {records[i].pair : i \in DOMAIN records} = {}
      BY <3>1 DEF IInv, AllDecided
    <3>3. QED
      BY <3>2 DEF IInv, RecordsRight, SurvivorsRight
  <2>2. CASE disabled' = disabled
    BY <2>2 DEF IInv, RecordsRight, SurvivorsRight, Enabled, Asked
  <2>3. QED
    BY <2>1, <2>2
<1>3. QED
  BY <1>1, <1>2 DEF IInv

LEMMA SetDisabledStep == IInv /\ SetDisabled => IInv'
<1> SUFFICES ASSUME IInv, SetDisabled PROVE IInv'
  OBVIOUS
<1>1. TypeOK'
  BY DEF IInv, TypeOK, SetDisabled, Pairs
<1>2. Asking' /\ AblationSet' /\ Decided' = Decided
  BY DEF SetDisabled, Asking, AblationSet, Decided
<1>3. QED
  BY <1>1, <1>2, UndecidedStep DEF SetDisabled

LEMMA FetchStep == IInv /\ Fetch => IInv'
<1> SUFFICES ASSUME IInv, Fetch PROVE IInv'
  OBVIOUS
<1>1. totalPairs' = totalPairs + 1 /\ totalPairs \in Nat /\ totalPairs < Len(matches)
  BY PairsAreNumbered DEF IInv, TypeOK, Fetch, More
<1>2. TypeOK'
  <2>1. totalPairs' \in 0..Len(matches) /\ pos' \in 1..(Len(Chain) + 1)
    BY <1>1, ChainIsFinite, PairsAreNumbered DEF IInv, Fetch
  <2>2. QED
    BY <2>1 DEF IInv, TypeOK, Fetch, Pairs
<1>3. Asking' /\ AblationSet' /\ Decided' = Decided
  BY <1>1 DEF Fetch, IInv, Asking, AblationSet, Decided
<1>4. QED
  BY <1>2, <1>3, UndecidedStep DEF Fetch

(* A heuristic that has no enabled hit is passed.                           *)
LEMMA PassedStep == IInv /\ (NoMatch \/ CountOnly) => IInv'
<1> SUFFICES ASSUME IInv, NoMatch \/ CountOnly PROVE IInv'
  OBVIOUS
<1>1. /\ phase = "ask" /\ phase' = "ask" /\ pos \in DOMAIN Chain /\ pos' = pos + 1
      /\ matches' = matches /\ request' = request /\ disabled' = disabled
      /\ totalPairs' = totalPairs /\ records' = records /\ survivors' = survivors
  BY DEF NoMatch, CountOnly, Matches, AfterAblated
<1>2. Chain[pos] \notin Enabled(totalPairs)
  BY DEF NoMatch, CountOnly, Matches, Ablated, Current, Enabled
<1>3. hits' \in [Names -> Nat]
  BY <1>1, ChainIsFinite DEF NoMatch, CountOnly, Counted, IInv, TypeOK
<1>4. TypeOK'
  <2>1. pos' \in 1..(Len(Chain) + 1)
    BY <1>1, ChainIsFinite
  <2>2. QED
    BY <1>1, <1>3, <2>1 DEF IInv, TypeOK, Pairs
<1>5. Asking'
  <2>1. \A j \in 1..pos : j \in 1..(pos - 1) \/ j = pos
    BY <1>1, ChainIsFinite
  <2>2. totalPairs >= 1 /\ \A j \in 1..(pos - 1) : Chain[j] \notin Enabled(totalPairs)
    BY <1>1 DEF IInv, Asking
  <2>3. \A j \in 1..(pos' - 1) : Chain[j] \notin Enabled(totalPairs)
    BY <1>1, <1>2, <2>1, <2>2, ChainIsFinite
  <2>4. QED
    BY <1>1, <2>2, <2>3 DEF Asking, Enabled
<1>6. AblationSet' /\ Decided' = Decided
  BY <1>1 DEF IInv, AblationSet, Decided
<1>7. QED
  BY <1>1, <1>4, <1>5, <1>6, UndecidedStep

LEMMA FinishStep == IInv /\ (Finish \/ UNCHANGED vars) => IInv'
<1> SUFFICES ASSUME IInv, Finish \/ UNCHANGED vars PROVE IInv'
  OBVIOUS
<1>1. /\ matches' = matches /\ request' = request /\ disabled' = disabled /\ pos' = pos
      /\ totalPairs' = totalPairs /\ hits' = hits /\ records' = records /\ survivors' = survivors
      /\ phase' = phase \/ (phase = "fetch" /\ phase' = "done" /\ ~More)
  BY DEF Finish, vars
<1>2. TypeOK'
  BY <1>1 DEF IInv, TypeOK, Pairs
<1>3. ~More => totalPairs = Len(matches)
  BY PairsAreNumbered DEF IInv, TypeOK, More
<1>4. Asking' /\ AblationSet' /\ Decided' = Decided
  BY <1>1, <1>3 DEF IInv, Asking, AblationSet, Decided, Enabled
<1>5. QED
  BY <1>1, <1>2, <1>4, UndecidedStep

----------------------------------------------------------------------------
(* The pair in hand is the next one to be decided, and is in neither list.  *)
LEMMA CurrentIsNext ==
  ASSUME IInv, phase = "ask"
  PROVE  /\ Current \in Pairs
         /\ Decided = Current - 1
         /\ \A i \in DOMAIN survivors : survivors[i] \in Nat /\ survivors[i] < Current
         /\ \A i \in DOMAIN records : records[i].pair \in Nat /\ records[i].pair < Current
         /\ \A j \in 1..(pos - 1) : Chain[j] \notin Enabled(Current)
<1>1. totalPairs \in 0..Len(matches) /\ totalPairs >= 1 /\ Len(matches) \in Nat
  BY PairsAreNumbered DEF IInv, TypeOK, Asking
<1>2. Decided = Current - 1
  BY DEF Decided, Current
<1>3. \A q \in 1..Decided : q \in Nat /\ q < Current
  BY <1>1, <1>2 DEF Current
<1>4. \A i \in DOMAIN survivors : survivors[i] \in 1..Decided
  BY DEF IInv, AllDecided
<1>5. \A i \in DOMAIN records : records[i].pair \in 1..Decided
  BY DEF IInv, AllDecided
<1>6. Current \in Pairs
  BY <1>1, PairsAreNumbered DEF Current, IInv
<1>7. QED
  BY <1>2, <1>3, <1>4, <1>5, <1>6 DEF IInv, Asking, Current

LEMMA SuppressStep == IInv /\ Suppress => IInv'
<1> SUFFICES ASSUME IInv, Suppress PROVE IInv'
  OBVIOUS
<1> DEFINE rec == [pair |-> Current, by |-> Chain[pos]]
           S == [pair : Pairs, by : Names]
<1>1. /\ phase = "ask" /\ phase' = "fetch" /\ pos \in DOMAIN Chain
      /\ Chain[pos] \in Enabled(Current)
      /\ records' = Append(records, rec)
      /\ matches' = matches /\ request' = request /\ disabled' = disabled /\ pos' = pos
      /\ totalPairs' = totalPairs /\ survivors' = survivors
  BY DEF Suppress, Matches, Ablated, Enabled
<1>2. rec \in S /\ records \in Seq(S)
  BY <1>1, CurrentIsNext, ChainIsFinite DEF IInv, TypeOK
<1>3. /\ records' \in Seq(S)
      /\ DOMAIN records = 1..Len(records) /\ Len(records) \in Nat
      /\ DOMAIN records' = 1..(Len(records) + 1)
      /\ \A i \in DOMAIN records : records'[i] = records[i]
      /\ records'[Len(records) + 1] = rec
  <2> HIDE DEF rec, S
  <2>1. QED
    BY <1>1, <1>2, Appending
<1>4. TypeOK'
  <2>1. hits' \in [Names -> Nat]
    BY <1>1, ChainIsFinite DEF Suppress, Counted, IInv, TypeOK
  <2>2. QED
    BY <1>1, <1>3, <2>1 DEF IInv, TypeOK, Pairs
<1>5. Asking' /\ AblationSet'
  BY <1>1 DEF IInv, Asking, AblationSet
<1>6. InOrder(survivors)' /\ SurvivorsRight'
  BY <1>1 DEF IInv, InOrder, SurvivorsRight, Enabled
<1>7. InOrder(RecordedPairs)'
  <2>1. \A i, j \in DOMAIN records : i < j => records[i].pair < records[j].pair
    BY DEF IInv, InOrder, RecordedPairs
  <2>2. \A i \in DOMAIN records : records'[i].pair < records'[Len(records) + 1].pair
    BY <1>1, <1>3, CurrentIsNext
  <2>3. \A i, j \in 1..(Len(records) + 1) : i < j =>
          i \in DOMAIN records /\ (j \in DOMAIN records \/ j = Len(records) + 1)
    BY <1>3
  <2>4. \A i, j \in DOMAIN records' : i < j => records'[i].pair < records'[j].pair
    BY <1>3, <2>1, <2>2, <2>3
  <2>5. QED
    BY <2>4 DEF InOrder, RecordedPairs
<1>8. RecordsRight'
  <2>1. SUFFICES ASSUME NEW i \in DOMAIN records'
                 PROVE  \E c \in DOMAIN Chain :
                          /\ Chain[c] = records'[i].by
                          /\ Chain[c] \in Enabled(records'[i].pair)
                          /\ Asked(c, records'[i].pair)
    BY <1>1 DEF RecordsRight, Enabled, Asked
  <2>2. CASE i \in DOMAIN records
    BY <1>3, <2>2 DEF IInv, RecordsRight
  <2>3. CASE i = Len(records) + 1
    <3>1. Asked(pos, Current)
      BY <1>1, CurrentIsNext DEF Asked
    <3>2. QED
      BY <1>1, <1>3, <2>3, <3>1
  <2>4. QED
    BY <1>3, <2>2, <2>3
<1>9. AllDecided'
  <2>1. {records'[i].pair : i \in DOMAIN records'}
          = {records[i].pair : i \in DOMAIN records} \cup {Current}
    BY <1>3
  <2>2. Decided' = Current /\ 1..Current = (1..Decided) \cup {Current}
    BY <1>1, CurrentIsNext, PairsAreNumbered DEF Decided, Current, IInv
  <2>3. QED
    BY <1>1, <2>1, <2>2 DEF IInv, AllDecided
<1>10. QED
  BY <1>4, <1>5, <1>6, <1>7, <1>8, <1>9 DEF IInv

LEMMA SurviveStep == IInv /\ Survive => IInv'
<1> SUFFICES ASSUME IInv, Survive PROVE IInv'
  OBVIOUS
<1>1. /\ phase = "ask" /\ phase' = "fetch" /\ pos \notin DOMAIN Chain
      /\ survivors' = Append(survivors, Current)
      /\ matches' = matches /\ request' = request /\ disabled' = disabled /\ pos' = pos
      /\ totalPairs' = totalPairs /\ hits' = hits /\ records' = records
  BY DEF Survive
<1>2. Current \in Pairs /\ survivors \in Seq(Pairs)
  BY <1>1, CurrentIsNext DEF IInv, TypeOK
<1>3. /\ survivors' \in Seq(Pairs)
      /\ DOMAIN survivors = 1..Len(survivors) /\ Len(survivors) \in Nat
      /\ DOMAIN survivors' = 1..(Len(survivors) + 1)
      /\ \A i \in DOMAIN survivors : survivors'[i] = survivors[i]
      /\ survivors'[Len(survivors) + 1] = Current
  BY <1>1, <1>2, Appending
<1>4. Enabled(Current) = {}
  <2>1. pos = Len(Chain) + 1
    BY <1>1, ChainIsFinite DEF IInv, TypeOK
  <2>2. \A j \in DOMAIN Chain : Chain[j] \notin Enabled(Current)
    BY <1>1, <2>1, CurrentIsNext, ChainIsFinite
  <2>3. Enabled(Current) \subseteq Names
    BY <1>2, PairsAreNumbered DEF Enabled, IInv
  <2>4. QED
    BY <2>2, <2>3 DEF Names
<1>5. TypeOK'
  BY <1>1, <1>3 DEF IInv, TypeOK, Pairs
<1>6. Asking' /\ AblationSet'
  BY <1>1 DEF IInv, Asking, AblationSet
<1>7. InOrder(RecordedPairs)' /\ RecordsRight'
  BY <1>1 DEF IInv, InOrder, RecordedPairs, RecordsRight, Enabled, Asked
<1>8. InOrder(survivors)'
  <2>1. \A i, j \in DOMAIN survivors : i < j => survivors[i] < survivors[j]
    BY DEF IInv, InOrder
  <2>2. \A i \in DOMAIN survivors : survivors'[i] < survivors'[Len(survivors) + 1]
    BY <1>1, <1>3, CurrentIsNext
  <2>3. \A i, j \in 1..(Len(survivors) + 1) : i < j =>
          i \in DOMAIN survivors /\ (j \in DOMAIN survivors \/ j = Len(survivors) + 1)
    BY <1>3
  <2>4. \A i, j \in DOMAIN survivors' : i < j => survivors'[i] < survivors'[j]
    BY <1>3, <2>1, <2>2, <2>3
  <2>5. QED
    BY <2>4 DEF InOrder
<1>9. SurvivorsRight'
  BY <1>1, <1>3, <1>4 DEF IInv, SurvivorsRight, Enabled
<1>10. AllDecided'
  <2>1. {survivors'[i] : i \in DOMAIN survivors'}
          = {survivors[i] : i \in DOMAIN survivors} \cup {Current}
    BY <1>3
  <2>2. Decided' = Current /\ 1..Current = (1..Decided) \cup {Current}
    BY <1>1, CurrentIsNext, PairsAreNumbered DEF Decided, Current, IInv
  <2>3. QED
    BY <1>1, <2>1, <2>2 DEF IInv, AllDecided
<1>11. QED
  BY <1>5, <1>6, <1>7, <1>8, <1>9, <1>10 DEF IInv

LEMMA NextInv == IInv /\ [Next]_vars => IInv'
  BY SetDisabledStep, FetchStep, PassedStep, FinishStep, SuppressStep, SurviveStep DEF Next

(* Every pair is in exactly one of the two lists, in order, recorded under  *)
(* its first enabled hit or passed on for want of one.                      *)
THEOREM FilterInvariant == Spec => []IInv
  BY InitInv, NextInv, PTL DEF Spec

(* When the loop is through, exactly the pairs without an enabled hit have  *)
(* survived.                                                                *)
LEMMA SurvivesIff ==
  ASSUME IInv, phase = "done", NEW p \in Pairs
  PROVE  (\E s \in DOMAIN survivors : survivors[s] = p) <=> Enabled(p) = {}
<1>1. p \in 1..Decided
  BY PairsAreNumbered DEF IInv, Asking, Decided
<1>2. CASE \E s \in DOMAIN survivors : survivors[s] = p
  BY <1>2 DEF IInv, SurvivorsRight
<1>3. CASE \E i \in DOMAIN records : records[i].pair = p
  <2>1. Enabled(p) # {}
    BY <1>3 DEF IInv, RecordsRight
  <2>2. QED
    BY <2>1, <1>2
<1>4. QED
  BY <1>1, <1>2, <1>3 DEF IInv, AllDecided

----------------------------------------------------------------------------
(* The refinement: a decision is a step of PairFilter, nothing else is      *)
(* visible.                                                                 *)

LEMMA AbstractDisabled ==
  ASSUME IInv, phase # "options", NEW p \in Pairs
  PROVE  OneStep!Enabled(p) = Enabled(p)
  BY PairsAreNumbered DEF IInv, AblationSet, OneStep!Enabled, Enabled

LEMMA RefineInit == Init => OneStep!Init
  BY DEF Init, Start, OneStep!Init, OneStep!Names, Names, Decided

LEMMA RefineSurvive == IInv /\ Survive => OneStep!PassOn
<1> SUFFICES ASSUME IInv, Survive PROVE OneStep!PassOn
  OBVIOUS
<1>1. /\ phase = "ask" /\ phase' = "fetch" /\ pos \notin DOMAIN Chain
      /\ survivors' = Append(survivors, Current)
      /\ matches' = matches /\ request' = request /\ records' = records
      /\ totalPairs' = totalPairs
  BY DEF Survive
<1>2. Current \in Pairs /\ Decided = Current - 1 /\ Decided' = Current /\ Current \in Nat
  BY <1>1, CurrentIsNext, PairsAreNumbered DEF Decided, Current, IInv
<1>3. Enabled(Current) = {}
  <2>1. pos = Len(Chain) + 1
    BY <1>1, ChainIsFinite DEF IInv, TypeOK
  <2>2. \A j \in DOMAIN Chain : Chain[j] \notin Enabled(Current)
    BY <1>1, <2>1, CurrentIsNext, ChainIsFinite
  <2>3. Enabled(Current) \subseteq Names
    BY <1>2, PairsAreNumbered DEF Enabled, IInv
  <2>4. QED
    BY <2>2, <2>3 DEF Names
<1>4. OneStep!Enabled(Current) = {}
  BY <1>1, <1>2, <1>3, AbstractDisabled
<1>5. Decided < Len(matches) /\ Decided + 1 = Current /\ Decided' = Decided + 1
  BY <1>2, PairsAreNumbered DEF IInv
<1>6. (Expanded(request) \cap Names)' = Expanded(request) \cap Names
  BY <1>1 DEF Expanded
<1>7. QED
  BY <1>1, <1>4, <1>5, <1>6 DEF OneStep!PassOn

LEMMA RefineSuppress == IInv /\ Suppress => OneStep!Filter
<1> SUFFICES ASSUME IInv, Suppress PROVE OneStep!Filter
  OBVIOUS
<1>1. /\ phase = "ask" /\ phase' = "fetch" /\ pos \in DOMAIN Chain
      /\ Chain[pos] \in Enabled(Current)
      /\ records' = Append(records, [pair |-> Current, by |-> Chain[pos]])
      /\ matches' = matches /\ request' = request /\ survivors' = survivors
      /\ totalPairs' = totalPairs
  BY DEF Suppress, Matches, Ablated, Enabled
<1>2. Current \in Pairs /\ Decided = Current - 1 /\ Decided' = Current /\ Current \in Nat
  BY <1>1, CurrentIsNext, PairsAreNumbered DEF Decided, Current, IInv
<1>3. OneStep!IsFirst(pos, Current)
  BY <1>1, <1>2, AbstractDisabled, CurrentIsNext DEF OneStep!IsFirst
<1>4. Decided < Len(matches) /\ Decided + 1 = Current /\ Decided' = Decided + 1
  BY <1>2, PairsAreNumbered DEF IInv
<1>5. (Expanded(request) \cap Names)' = Expanded(request) \cap Names
  BY <1>1 DEF Expanded
<1>6. QED
  BY <1>1, <1>3, <1>4, <1>5 DEF OneStep!Filter

LEMMA RefineOther ==
  ASSUME IInv, SetDisabled \/ Fetch \/ NoMatch \/ CountOnly \/ Finish \/ UNCHANGED vars
  PROVE  UNCHANGED OneStep!vars
<1>1. /\ matches' = matches /\ request' = request
      /\ records' = records /\ survivors' = survivors
  BY DEF SetDisabled, Fetch, NoMatch, CountOnly, Finish, vars
<1>2. Decided' = Decided
  <2>1. totalPairs \in Nat
    BY PairsAreNumbered DEF IInv, TypeOK
  <2>2. QED
    BY <2>1 DEF SetDisabled, Fetch, NoMatch, CountOnly, Finish, vars, Decided
<1>3. QED
  BY <1>1, <1>2 DEF OneStep!vars, Expanded

(* The loop implements the one-step filter, for every chain and request.    *)
THEOREM FilterRefines == Spec => ImplementsPairFilter
<1>1. IInv /\ [Next]_vars => [OneStep!PassOn \/ OneStep!Filter]_OneStep!vars
  BY RefineSurvive, RefineSuppress, RefineOther DEF Next
<1>2. QED
  BY RefineInit, <1>1, FilterInvariant, PTL DEF Spec, ImplementsPairFilter, OneStep!Spec

----------------------------------------------------------------------------
(* The whole process.                                                       *)

(* The verdicts name heuristics of the chain only.                          *)
LEMMA VerdictsAreMatches ==
  ASSUME NEW c \in Cases
  PROVE  Verdicts(c.unit) \in Seq(SUBSET Names)
<1>1. PICK n \in Nat : DOMAIN c.unit.pairs = 1..n
  BY CasesAssumption
<1>2. \A k, p : Matching(k, p) \subseteq {FilterOrder[i] : i \in DOMAIN FilterOrder}
  BY DEF Matching
<1>3. {FilterOrder[i] : i \in DOMAIN FilterOrder} = Names
  BY CasesAssumption DEF Names
<1>4. Verdicts(c.unit) = [p \in 1..n |-> Matching(Facts(c.unit), c.unit.pairs[p])]
  BY <1>1 DEF Verdicts
<1>5. \A p \in 1..n : Matching(Facts(c.unit), c.unit.pairs[p]) \in SUBSET Names
  BY <1>2, <1>3
<1>6. QED
  BY <1>4, <1>5

LEMMA DriverInitIsInit == DriverInit => Init
<1> SUFFICES ASSUME DriverInit PROVE Init
  OBVIOUS
<1>1. PICK c \in Cases : unit = c.unit
  BY DEF DriverInit
<1>2. matches \in Seq(SUBSET Names)
  BY <1>1, VerdictsAreMatches DEF DriverInit
<1>3. QED
  BY <1>2 DEF DriverInit, Init

LEMMA DriverStepIsStep == [DriverNext]_driverVars => [Next]_vars
<1> SUFFICES ASSUME [DriverNext]_driverVars PROVE [Next]_vars
  OBVIOUS
<1>1. CASE UNCHANGED driverVars
  BY <1>1 DEF driverVars
<1>2. CASE Options
  BY <1>2 DEF Options, Next
<1>3. CASE FilterLoop
  BY <1>3 DEF FilterLoop, Next
<1>4. CASE Open \/ Close \/ Parse \/ Call \/ NoDirectory \/ Unless \/ Scan
  BY <1>4 DEF Open, Close, Parse, Call, NoDirectory, Unless, Scan
<1>5. CASE Normalise \/ Build \/ Release \/ PrintStats \/ Unwind \/ Leave
  BY <1>5 DEF Normalise, Build, Release, PrintStats, Unwind, Leave
<1>6. QED
  BY <1>1, <1>2, <1>3, <1>4, <1>5 DEF DriverNext

(* In the process, too, every pair of the unit ends in exactly one of the   *)
(* two lists, under its first enabled hit or passed on for want of one.     *)
THEOREM DriverInvariant == DriverSpec => []IInv
<1>1. DriverInit => IInv
  BY DriverInitIsInit, InitInv
<1>2. IInv /\ [DriverNext]_driverVars => IInv'
  BY DriverStepIsStep, NextInv
<1>3. QED
  BY <1>1, <1>2, PTL DEF DriverSpec

(* And the process, whatever its mode, implements the one-step filter.      *)
THEOREM DriverRefines == DriverSpec => ImplementsPairFilter
<1>1. IInv /\ [DriverNext]_driverVars => [OneStep!PassOn \/ OneStep!Filter]_OneStep!vars
  BY DriverStepIsStep, RefineSurvive, RefineSuppress, RefineOther DEF Next
<1>2. DriverInit => OneStep!Init
  BY DriverInitIsInit, RefineInit
<1>3. QED
  BY <1>1, <1>2, DriverInvariant, PTL DEF DriverSpec, ImplementsPairFilter, OneStep!Spec

----------------------------------------------------------------------------
(* No verdict depends on which of the two functions has the anchor.         *)

LEMMA SidesExchanged ==
  ASSUME NEW p, NEW q, Mirrored(p, q), NEW S, NEW T
  PROVE  /\ OneEach(S, T, p) <=> OneEach(S, T, q)
         /\ Both(S, p) <=> Both(S, q)
         /\ Common(S, p) <=> Common(S, q)
         /\ {p.anchor, p.partner} = {q.anchor, q.partner}
  BY DEF Mirrored, OneEach, Both, Common

LEMMA MatchingMirrored ==
  ASSUME NEW k, NEW p, NEW q, Mirrored(p, q)
  PROVE  Matching(k, p) = Matching(k, q)
<1>1. BenignAnchor(p) <=> BenignAnchor(q)
  BY DEF Mirrored, BenignAnchor
<1>2. ReadReadPair(p) <=> ReadReadPair(q)
  BY DEF Mirrored, ReadReadPair
<1>3. CallGraph(k, p) <=> CallGraph(k, q)
  <2> DEFINE C(f) == CgReachable(k, f)
  <2> HIDE DEF C
  <2>1. \A r : CallGraph(k, r) <=>
          /\ (r.anchor \in k.irqReachable) = (r.partner \in k.irqReachable)
          /\ r.partner \in C(r.anchor) \/ r.anchor \in C(r.partner)
    BY DEF CallGraph, C
  <2>2. q.anchor = p.partner /\ q.partner = p.anchor
    BY DEF Mirrored
  <2>3. QED
    BY <2>1, <2>2
<1>4. LockAlias(k, p) <=> LockAlias(k, q)
  BY SidesExchanged DEF LockAlias
<1>5. RcuSerial(k, p) <=> RcuSerial(k, q)
  BY SidesExchanged DEF RcuSerial
<1>6. SeqlockRetry(k, p) <=> SeqlockRetry(k, q)
  BY SidesExchanged DEF SeqlockRetry
<1>7. IrqSerial(k, p) <=> IrqSerial(k, q)
  BY SidesExchanged DEF IrqSerial
<1>8. Lifecycle(k, p) <=> Lifecycle(k, q)
  BY SidesExchanged DEF Lifecycle
<1>9. PerCpu(k, p) <=> PerCpu(k, q)
  BY SidesExchanged DEF PerCpu
<1>10. CompletionOrder(k, p) <=> CompletionOrder(k, q)
  BY DEF Mirrored, CompletionOrder
<1>11. SubsystemLock(k, p) <=> SubsystemLock(k, q)
  BY SidesExchanged DEF SubsystemLock
<1>12. SafeAllocation(k, p) <=> SafeAllocation(k, q)
  <2>1. p.descs = q.descs
    BY DEF Mirrored
  <2>2. QED
    BY <2>1, SidesExchanged DEF SafeAllocation
<1>13. RegistrationPublish(k, p) <=> RegistrationPublish(k, q)
  BY DEF Mirrored, RegistrationPublish
<1>14. PmPhase(k, p) <=> PmPhase(k, q)
  BY SidesExchanged DEF PmPhase
<1>15. SeqcountReadWrite(k, p) <=> SeqcountReadWrite(k, q)
  BY SidesExchanged DEF SeqcountReadWrite
<1>16. QED
  BY <1>1, <1>2, <1>3, <1>4, <1>5, <1>6, <1>7, <1>8, <1>9, <1>10, <1>11, <1>12, <1>13,
     <1>14, <1>15 DEF Matching

(* Two pairs of the same functions that differ only in which of them has    *)
(* the anchor share their fate, whatever the unit.                          *)
THEOREM Sides == DriverSpec => []SideIndependent
<1> DEFINE Asked1 == matches = Verdicts(unit)
<1>1. DriverSpec => []Asked1
  <2>1. DriverInit => Asked1
    BY DEF DriverInit
  <2>2. Asked1 /\ [DriverNext]_driverVars => Asked1'
    <3> SUFFICES ASSUME Asked1, [DriverNext]_driverVars PROVE Asked1'
      OBVIOUS
    <3>1. matches' = matches
      BY DriverStepIsStep DEF Next, vars, SetDisabled, Fetch, NoMatch, CountOnly, Suppress,
         Survive, Finish
    <3>2. unit' = unit
      BY DEF DriverNext, driverVars
    <3>3. Verdicts(unit') = Verdicts(unit)
      BY <3>2
    <3>4. QED
      BY <3>1, <3>2, <3>3
  <2>3. QED
    BY <2>1, <2>2, PTL DEF DriverSpec
<1>2. IInv /\ Asked1 => SideIndependent
  <2> SUFFICES ASSUME IInv, Asked1, phase = "done", NEW i \in Pairs, NEW j \in Pairs,
                      Mirrored(unit.pairs[i], unit.pairs[j])
               PROVE  (\E s \in DOMAIN survivors : survivors[s] = i)
                        <=> (\E s \in DOMAIN survivors : survivors[s] = j)
    BY DEF SideIndependent
  <2>1. matches[i] = Matching(Facts(unit), unit.pairs[i])
    BY DEF Verdicts, Pairs
  <2>2. matches[j] = Matching(Facts(unit), unit.pairs[j])
    BY DEF Verdicts, Pairs
  <2>3. Enabled(i) = Enabled(j)
    BY <2>1, <2>2, MatchingMirrored DEF Enabled
  <2>4. QED
    BY <2>3, SurvivesIff
<1>3. QED
  BY <1>1, <1>2, DriverInvariant, PTL

----------------------------------------------------------------------------
(* What main and the passes do.                                             *)

Modes == {"anchors", "causal", "pairs", "filter", "litmus", "verify", "summary"}

(* A flag that is given decides the mode.                                   *)
LEMMA ModeKnown ==
  ASSUME flags \subseteq {ModeOrder[i] : i \in DOMAIN ModeOrder}
  PROVE  /\ flags = {} => Mode = "pta"
         /\ flags # {} => Mode \in Modes
<1>1. flags = {} => Mode = "pta"
  BY DEF Mode
<1>2. ASSUME flags # {} PROVE Mode \in Modes
  <2> DEFINE First(i) == ModeOrder[i] \in flags /\ \A j \in 1..(i - 1) : ModeOrder[j] \notin flags
  <2>1. DOMAIN ModeOrder = 1..7
    BY DEF ModeOrder
  <2>2. \A i \in 1..7 : ModeOrder[i] \in Modes
    BY DEF ModeOrder, Modes
  <2>3. \E i \in 1..7 : ModeOrder[i] \in flags
    BY <1>2, <2>1
  <2>4. \E i \in 1..7 : First(i)
    <3>1. CASE ModeOrder[1] \in flags
      BY <3>1
    <3>2. CASE ModeOrder[1] \notin flags /\ ModeOrder[2] \in flags
      BY <3>2
    <3>3. CASE (\A j \in 1..2 : ModeOrder[j] \notin flags) /\ ModeOrder[3] \in flags
      BY <3>3
    <3>4. CASE (\A j \in 1..3 : ModeOrder[j] \notin flags) /\ ModeOrder[4] \in flags
      BY <3>4
    <3>5. CASE (\A j \in 1..4 : ModeOrder[j] \notin flags) /\ ModeOrder[5] \in flags
      BY <3>5
    <3>6. CASE (\A j \in 1..5 : ModeOrder[j] \notin flags) /\ ModeOrder[6] \in flags
      BY <3>6
    <3>7. CASE (\A j \in 1..6 : ModeOrder[j] \notin flags) /\ ModeOrder[7] \in flags
      BY <3>7
    <3>8. QED
      BY <2>3, <3>1, <3>2, <3>3, <3>4, <3>5, <3>6, <3>7
  <2>5. Mode = ModeOrder[CHOOSE i \in DOMAIN ModeOrder : First(i)]
    BY <1>2 DEF Mode
  <2> HIDE DEF First
  <2>6. (CHOOSE i \in DOMAIN ModeOrder : First(i)) \in 1..7
    BY <2>1, <2>4
  <2>7. QED
    BY <2>2, <2>5, <2>6
<1>3. QED
  BY <1>1, <1>2

(* The start of the process, the results the mode wants, the end.           *)
LEMMA MainScript ==
  ASSUME flags \subseteq {ModeOrder[i] : i \in DOMAIN ModeOrder}
  PROVE  /\ Len(Wanted[Mode]) \in 1..6
         /\ Len(Script("main")) = Len(Wanted[Mode]) + 6
         /\ DOMAIN Script("main") = 1..(Len(Wanted[Mode]) + 6)
         /\ \A k \in 1..5 : Script("main")[k] = StartUp[k]
         /\ \A k \in 1..Len(Wanted[Mode]) : Script("main")[k + 5] = Wanted[Mode][k]
         /\ Script("main")[Len(Wanted[Mode]) + 6] = Do("close", "-")
         /\ \A k \in 1..Len(Wanted[Mode]) :
              \/ Wanted[Mode][k] = Do("print", "STATS")
              \/ \E p \in Passes : /\ Wanted[Mode][k] = Need(p)
                                   /\ p = "FSPTAPass" <=> flags = {}
<1> DEFINE Ops == {Need(p) : p \in Passes} \cup {Do("print", "STATS"), Do("close", "-")}
                    \cup {StartUp[k] : k \in 1..5}
           w == Wanted[Mode]
<1>1. Mode \in Modes \cup {"pta"} /\ (Mode = "pta" <=> flags = {})
  BY ModeKnown DEF Modes
<1>2. w \in Seq(Ops) /\ Len(w) \in 1..6
  <2>1. CASE Mode \in Modes \cup {"pta"} /\ Mode # "summary"
    <3>1. PICK p \in Passes : w = <<Need(p)>>
      BY <2>1 DEF Wanted, Modes, Passes
    <3>2. Need(p) \in Ops
      OBVIOUS
    <3> HIDE DEF Ops
    <3>3. QED
      BY <3>1, <3>2
  <2>2. CASE Mode = "summary"
    <3>1. w = <<Need("AnchorPass"), Need("CausalDetectPass"), Need("FnHeuristicsFilterPass"),
                Need("FunctionPairsPass"), Need("Herd7TranspilerPass"), Do("print", "STATS")>>
      BY <2>2 DEF Wanted
    <3>2. /\ Need("AnchorPass") \in Ops /\ Need("CausalDetectPass") \in Ops
          /\ Need("FnHeuristicsFilterPass") \in Ops /\ Need("FunctionPairsPass") \in Ops
          /\ Need("Herd7TranspilerPass") \in Ops /\ Do("print", "STATS") \in Ops
      BY DEF Passes
    <3> HIDE DEF Ops
    <3>3. QED
      BY <3>1, <3>2
  <2>3. QED
    BY <1>1, <2>1, <2>2
<1>3. \A k \in 1..Len(w) :
        \/ w[k] = Do("print", "STATS")
        \/ \E p \in Passes : /\ w[k] = Need(p)
                             /\ p = "FSPTAPass" <=> flags = {}
  BY <1>1 DEF Wanted, Modes, Do, Need, Passes
<1>4. StartUp \in Seq(Ops) /\ Len(StartUp) = 5 /\ Do("close", "-") \in Ops
  <2>1. StartUp = <<Do("options", "-"), Do("open", "other"), Do("open", "ir_load"),
                    Do("parse", "-"), Do("close", "-")>>
    BY DEF StartUp
  <2>2. \A k \in 1..5 : StartUp[k] \in Ops
    OBVIOUS
  <2>3. Do("close", "-") \in Ops
    OBVIOUS
  <2> HIDE DEF Ops
  <2>4. /\ Do("options", "-") \in Ops /\ Do("open", "other") \in Ops
        /\ Do("open", "ir_load") \in Ops /\ Do("parse", "-") \in Ops
    BY <2>1, <2>2
  <2>5. QED
    BY <2>1, <2>3, <2>4
<1>5. Script("main") = Append(StartUp \o w, Do("close", "-"))
  BY DEF Script
<1> HIDE DEF w, Ops
<1> DEFINE front == StartUp \o w
<1>6. /\ front \in Seq(Ops)
      /\ Len(front) = 5 + Len(w)
      /\ \A i \in 1..5 : front[i] = StartUp[i]
      /\ \A i \in 1..Len(w) : front[i + 5] = w[i]
  <2>1. /\ front \in Seq(Ops)
        /\ Len(front) = Len(StartUp) + Len(w)
        /\ \A i \in 1..(Len(StartUp) + Len(w)) :
             front[i] = IF i <= Len(StartUp) THEN StartUp[i] ELSE w[i - Len(StartUp)]
    BY <1>2, <1>4, ConcatProperties
  <2>2. \A i \in 1..Len(w) : i + 5 \in 1..(5 + Len(w)) /\ ~(i + 5 <= 5) /\ (i + 5) - 5 = i
    BY <1>2
  <2>3. \A i \in 1..5 : i \in 1..(5 + Len(w)) /\ i <= 5
    BY <1>2
  <2> HIDE DEF front
  <2>4. \A i \in 1..Len(w) : front[i + 5] = w[i]
    BY <1>4, <2>1, <2>2
  <2>5. \A i \in 1..5 : front[i] = StartUp[i]
    BY <1>4, <2>1, <2>3
  <2>6. QED
    BY <1>4, <2>1, <2>4, <2>5
<1>7. Script("main") = Append(front, Do("close", "-"))
  BY <1>5
<1> HIDE DEF front
<1>8. /\ Len(Script("main")) = Len(w) + 6
      /\ DOMAIN Script("main") = 1..(Len(w) + 6)
      /\ \A i \in 1..(5 + Len(w)) : Script("main")[i] = front[i]
      /\ Script("main")[Len(w) + 6] = Do("close", "-")
  <2> DEFINE end == Do("close", "-")
  <2>1. front \in Seq(Ops) /\ end \in Ops /\ Len(front) = 5 + Len(w)
    BY <1>4, <1>6
  <2>2. Script("main") = Append(front, end)
    BY <1>7
  <2>3. (5 + Len(w)) + 1 = Len(w) + 6 /\ Len(w) + 6 \in Nat
    BY <1>2
  <2> HIDE DEF end
  <2>4. /\ DOMAIN front = 1..Len(front)
        /\ Len(Append(front, end)) = Len(front) + 1
        /\ DOMAIN Append(front, end) = 1..(Len(front) + 1)
        /\ \A k \in DOMAIN front : Append(front, end)[k] = front[k]
        /\ Append(front, end)[Len(front) + 1] = end
    BY <2>1, Appending
  <2>5. QED
    BY <2>1, <2>2, <2>3, <2>4 DEF end
<1>9. \A k \in 1..Len(w) : k + 5 \in 1..(5 + Len(w))
  BY <1>2
<1>10. \A k \in 1..5 : k \in 1..(5 + Len(w))
  BY <1>2
<1>11. QED
  BY <1>2, <1>3, <1>6, <1>8, <1>9, <1>10 DEF w

(* What a pass does.                                                        *)
Chained == {"CausalDetectPass", "FunctionPairsPass", "FnHeuristicsFilterPass"}
Below(p) ==
  CASE p = "CausalDetectPass" -> "AnchorPass"
    [] p = "FunctionPairsPass" -> "CausalDetectPass"
    [] p = "FnHeuristicsFilterPass" -> "FunctionPairsPass"

Records(s) == \A k \in 1..Len(s) : s[k] = Do(s[k].op, s[k].arg)

PassOp(s, p, k) ==
  /\ s[k].op \in {"open", "close", "need", "unless", "scan", "normalise", "build", "release", "filter"}
  /\ s[k].op = "need" =>
       s[k].arg \in Passes \ {"FSPTAPass"} /\ Level(s[k].arg) < Level(p)
  /\ s[k].op = "unless" => \A j \in (k + 1)..Len(s) : s[j].op # "need"
  /\ s[k].op = "normalise" =>
       p = "FSPTAPass" \/ (p \in Chained /\ 2 < k /\ s[2] = Need(Below(p)))
  /\ s[k].op = "build" =>
       /\ p # "AnchorPass" /\ 1 < k /\ s[k - 1].op = "normalise"
       /\ k + 1 \in 1..Len(s) /\ s[k + 1].op = "release"
  /\ s[k].op = "release" => 1 < k /\ s[k - 1].op = "build"
  /\ s[k].op = "scan" => p = "AnchorPass"
  /\ s[k].op = "filter" => p = "FnHeuristicsFilterPass"
  /\ s[k].op = "open" => s[k].arg \in Phases
  /\ s[k].op = "close" => p = "AnchorPass" /\ k = 3

LEMMA PassScript ==
  ASSUME NEW p \in Passes
  PROVE  /\ Len(Script(p)) \in 1..7
         /\ DOMAIN Script(p) = 1..Len(Script(p))
         /\ \A k \in 1..Len(Script(p)) : PassOp(Script(p), p, k)
         /\ Records(Script(p))
<1>1. CASE p = "AnchorPass"
  <2>1. Script(p) = <<Do("open", "anchor_db"), Do("open", "summarize_extfn"), Do("close", "-"),
                      Do("scan", "-")>>
    BY <1>1 DEF Script
  <2>2. Records(Script(p))
    BY <2>1 DEF Records, Do, Need
  <2>3. /\ Len(Script(p)) \in 1..7 /\ DOMAIN Script(p) = 1..Len(Script(p))
        /\ \A k \in 1..Len(Script(p)) : PassOp(Script(p), p, k)
    BY <1>1, <2>1 DEF PassOp, Do, Phases
  <2>4. QED
    BY <2>2, <2>3
<1>2. CASE p = "CausalDetectPass"
  <2>1. Script(p) = <<Do("open", "bracket_extraction"), Need("AnchorPass"),
                      Do("unless", "AnchorPass"), Do("normalise", "-"), Do("build", "-"),
                      Do("release", "-")>>
    BY <1>2 DEF Script, After
  <2>2. Records(Script(p))
    BY <2>1 DEF Records, Do, Need
  <2>3. Len(Script(p)) = 6 /\ DOMAIN Script(p) = 1..6
    BY <2>1
  <2>4. \A k \in 1..3 : PassOp(Script(p), p, k)
    BY <1>2, <2>1 DEF PassOp, Do, Need, Phases, Passes, Chained, Below, Level
  <2>5. \A k \in 4..6 : PassOp(Script(p), p, k)
    BY <1>2, <2>1 DEF PassOp, Do, Need, Phases, Passes, Chained, Below, Level
  <2>6. QED
    BY <2>2, <2>3, <2>4, <2>5
<1>3. CASE p = "FunctionPairsPass"
  <2>1. Script(p) = <<Do("open", "function_pairing"), Need("CausalDetectPass"),
                      Do("unless", "CausalDetectPass"), Do("normalise", "-"), Do("build", "-"),
                      Do("release", "-")>>
    BY <1>3 DEF Script, After
  <2>2. Records(Script(p))
    BY <2>1 DEF Records, Do, Need
  <2>3. Len(Script(p)) = 6 /\ DOMAIN Script(p) = 1..6
    BY <2>1
  <2>4. \A k \in 1..3 : PassOp(Script(p), p, k)
    BY <1>3, <2>1 DEF PassOp, Do, Need, Phases, Passes, Chained, Below, Level
  <2>5. \A k \in 4..6 : PassOp(Script(p), p, k)
    BY <1>3, <2>1 DEF PassOp, Do, Need, Phases, Passes, Chained, Below, Level
  <2>6. QED
    BY <2>2, <2>3, <2>4, <2>5
<1>4. CASE p = "FnHeuristicsFilterPass"
  <2>1. ASSUME NEW a, NEW b, NEW c, NEW d, NEW e, NEW f, NEW g
        PROVE  Append(<<a, b, c, d, e, f>>, g) = <<a, b, c, d, e, f, g>>
    <3> DEFINE S == {a, b, c, d, e, f, g}
               long == <<a, b, c, d, e, f, g>>
               built == Append(<<a, b, c, d, e, f>>, g)
    <3>1. /\ a \in S /\ b \in S /\ c \in S /\ d \in S /\ e \in S /\ f \in S /\ g \in S
      OBVIOUS
    <3> HIDE DEF S
    <3>2. <<a, b, c, d, e, f>> \in Seq(S) /\ long \in Seq(S)
      BY <3>1
    <3>3. built \in Seq(S) /\ Len(built) = 7 /\ Len(long) = 7
      BY <3>1, <3>2
    <3>4. \A i \in 1..7 : built[i] = long[i]
      OBVIOUS
    <3>5. built = long
      <4> HIDE DEF long, built
      <4>1. QED
        BY <3>2, <3>3, <3>4, SeqEqual
    <3>6. QED
      BY <3>5
  <2>2. Script(p) = Append(<<Do("open", "mutex_filtering"), Need("FunctionPairsPass"),
                             Do("unless", "FunctionPairsPass"), Do("normalise", "-"),
                             Do("build", "-"), Do("release", "-")>>, Do("filter", "-"))
    BY <1>4 DEF Script, After
  <2>3. Script(p) = <<Do("open", "mutex_filtering"), Need("FunctionPairsPass"),
                      Do("unless", "FunctionPairsPass"), Do("normalise", "-"), Do("build", "-"),
                      Do("release", "-"), Do("filter", "-")>>
    BY <2>1, <2>2
  <2>4. Len(Script(p)) = 7 /\ DOMAIN Script(p) = 1..7
    BY <2>3
  <2>5. PassOp(Script(p), p, 1) /\ PassOp(Script(p), p, 4) /\ PassOp(Script(p), p, 5)
    BY <1>4, <2>3 DEF PassOp, Do, Need, Phases, Passes, Chained, Below, Level
  <2>6. PassOp(Script(p), p, 2) /\ PassOp(Script(p), p, 6) /\ PassOp(Script(p), p, 7)
    BY <1>4, <2>3 DEF PassOp, Do, Need, Phases, Passes, Chained, Below, Level
  <2>7. PassOp(Script(p), p, 3)
    <3>1. \A j \in 4..7 : Script(p)[j].op # "need"
      BY <2>3 DEF Do
    <3>2. Script(p)[3].op = "unless"
      BY <2>3 DEF Do
    <3>3. QED
      BY <2>4, <3>1, <3>2 DEF PassOp
  <2>8. Records(Script(p))
    BY <2>3 DEF Records, Do, Need
  <2>9. QED
    BY <2>4, <2>5, <2>6, <2>7, <2>8
<1>5. CASE p = "Herd7TranspilerPass"
  <2>1. Script(p) = <<Do("open", "transpiler"), Need("FnHeuristicsFilterPass")>>
    BY <1>5 DEF Script
  <2>2. Records(Script(p))
    BY <2>1 DEF Records, Do, Need
  <2>3. /\ Len(Script(p)) \in 1..7 /\ DOMAIN Script(p) = 1..Len(Script(p))
        /\ \A k \in 1..Len(Script(p)) : PassOp(Script(p), p, k)
    BY <1>5, <2>1 DEF PassOp, Do, Need, Phases, Passes, Level
  <2>4. QED
    BY <2>2, <2>3
<1>6. CASE p = "LitmusVerifierPass"
  <2>1. Script(p) = <<Need("FnHeuristicsFilterPass"), Need("Herd7TranspilerPass")>>
    BY <1>6 DEF Script
  <2>2. Records(Script(p))
    BY <2>1 DEF Records, Do, Need
  <2>3. /\ Len(Script(p)) \in 1..7 /\ DOMAIN Script(p) = 1..Len(Script(p))
        /\ \A k \in 1..Len(Script(p)) : PassOp(Script(p), p, k)
    BY <1>6, <2>1 DEF PassOp, Do, Need, Passes, Level
  <2>4. QED
    BY <2>2, <2>3
<1>7. CASE p = "FSPTAPass"
  <2>1. Script(p) = <<Do("normalise", "-"), Do("build", "-"), Do("release", "-")>>
    BY <1>7 DEF Script, OnSvf
  <2>2. Records(Script(p))
    BY <2>1 DEF Records, Do, Need
  <2>3. /\ Len(Script(p)) \in 1..7 /\ DOMAIN Script(p) = 1..Len(Script(p))
        /\ \A k \in 1..Len(Script(p)) : PassOp(Script(p), p, k)
    BY <1>7, <2>1 DEF PassOp, Do
  <2>4. QED
    BY <2>2, <2>3
<1>8. QED
  BY <1>1, <1>2, <1>3, <1>4, <1>5, <1>6, <1>7 DEF Passes

LEMMA ChainedScript ==
  ASSUME NEW p \in Chained
  PROVE  p \in Passes /\ 2 \in DOMAIN Script(p) /\ Script(p)[2] = Need(Below(p))
<1>1. p \in Passes
  BY DEF Chained, Passes
<1>2. \A ph, q : LET s == After(ph, q) IN DOMAIN s = 1..6 /\ Len(s) = 6 /\ s[2] = Need(q)
  BY DEF After
<1>3. CASE p = "CausalDetectPass"
  BY <1>1, <1>2, <1>3 DEF Script, Below
<1>4. CASE p = "FunctionPairsPass"
  BY <1>1, <1>2, <1>4 DEF Script, Below
<1>5. CASE p = "FnHeuristicsFilterPass"
  <2>1. Script(p) = Append(After("mutex_filtering", "FunctionPairsPass"), Do("filter", "-"))
    BY <1>5 DEF Script
  <2>2. 2 \in DOMAIN Script(p) /\ Script(p)[2] = Need("FunctionPairsPass")
    BY <2>1 DEF After
  <2>3. QED
    BY <1>1, <1>5, <2>2 DEF Below
<1>6. QED
  BY <1>3, <1>4, <1>5 DEF Chained

MainOp(s, k) ==
  /\ s[k].op \in {"options", "open", "parse", "close", "need", "print"}
  /\ s[k].op = "options" <=> k = 1
  /\ s[k].op = "open" <=> k \in {2, 3}
  /\ s[k].op = "open" => s[k].arg \in Phases
  /\ s[k].op = "parse" <=> k = 4
  /\ s[k].op = "close" <=> k \in {5, Len(s)}
  /\ s[k].op = "need" => s[k].arg \in Passes /\ (s[k].arg = "FSPTAPass" <=> flags = {})

LEMMA MainOps ==
  ASSUME flags \subseteq {ModeOrder[i] : i \in DOMAIN ModeOrder}
  PROVE  /\ Len(Script("main")) \in 7..12
         /\ DOMAIN Script("main") = 1..Len(Script("main"))
         /\ \A k \in 1..Len(Script("main")) : MainOp(Script("main"), k)
         /\ Records(Script("main"))
<1> DEFINE s == Script("main")
           w == Wanted[Mode]
<1>1. Len(s) = Len(w) + 6 /\ Len(w) \in 1..6 /\ DOMAIN s = 1..(Len(w) + 6)
  BY MainScript
<1>2. s[Len(w) + 6] = Do("close", "-")
  BY MainScript
<1>3. \A k \in 1..5 : s[k] = StartUp[k]
  BY MainScript
<1>4. ASSUME NEW k \in 1..Len(w)
      PROVE  \/ s[k + 5] = Do("print", "STATS")
             \/ \E p \in Passes : s[k + 5] = Need(p) /\ (p = "FSPTAPass" <=> flags = {})
  BY MainScript
<1> HIDE DEF s, w
<1>5. ASSUME NEW k \in 1..5 PROVE MainOp(s, k)
  <2>1. /\ StartUp[1] = Do("options", "-") /\ StartUp[2] = Do("open", "other")
        /\ StartUp[3] = Do("open", "ir_load") /\ StartUp[4] = Do("parse", "-")
        /\ StartUp[5] = Do("close", "-")
    BY DEF StartUp
  <2>2. Len(s) > 6
    BY <1>1
  <2>3. CASE k = 1
    BY <1>3, <2>1, <2>2, <2>3 DEF MainOp, Do
  <2>4. CASE k = 2
    BY <1>3, <2>1, <2>2, <2>4 DEF MainOp, Do, Phases
  <2>5. CASE k = 3
    BY <1>3, <2>1, <2>2, <2>5 DEF MainOp, Do, Phases
  <2>6. CASE k = 4
    BY <1>3, <2>1, <2>2, <2>6 DEF MainOp, Do
  <2>7. CASE k = 5
    BY <1>3, <2>1, <2>2, <2>7 DEF MainOp, Do
  <2>8. QED
    BY <2>3, <2>4, <2>5, <2>6, <2>7
<1>6. ASSUME NEW k \in 6..(Len(w) + 5) PROVE MainOp(s, k)
  <2>1. k - 5 \in 1..Len(w) /\ (k - 5) + 5 = k
    BY <1>1
  <2>2. \/ s[k] = Do("print", "STATS")
        \/ \E p \in Passes : s[k] = Need(p) /\ (p = "FSPTAPass" <=> flags = {})
    BY <1>4, <2>1
  <2>3. k \notin {1, 2, 3, 4, 5, Len(s)}
    BY <1>1
  <2>4. QED
    <3>1. CASE s[k] = Do("print", "STATS")
      BY <2>3, <3>1 DEF MainOp, Do
    <3>2. ASSUME NEW p \in Passes, s[k] = Need(p), p = "FSPTAPass" <=> flags = {}
          PROVE  MainOp(s, k)
      <4>1. s[k].op = "need" /\ s[k].arg = p
        BY <3>2 DEF Do, Need
      <4>2. QED
        BY <2>3, <3>2, <4>1 DEF MainOp
    <3>3. QED
      BY <2>2, <3>1, <3>2
<1>7. MainOp(s, Len(w) + 6)
  <2>1. Len(w) + 6 = Len(s) /\ Len(s) \notin {1, 2, 3, 4}
    BY <1>1
  <2>2. QED
    BY <1>2, <2>1 DEF MainOp, Do
<1>8. Records(s)
  <2>1. \A k \in 1..5 : s[k] = Do(s[k].op, s[k].arg)
    BY <1>3 DEF StartUp, Do
  <2>2. \A k \in 1..Len(w) : s[k + 5] = Do(s[k + 5].op, s[k + 5].arg)
    <3> SUFFICES ASSUME NEW k \in 1..Len(w) PROVE s[k + 5] = Do(s[k + 5].op, s[k + 5].arg)
      OBVIOUS
    <3>1. s[k + 5] = Do("print", "STATS") \/ \E p \in Passes : s[k + 5] = Need(p)
      BY <1>4
    <3>2. QED
      BY <3>1 DEF Do, Need
  <2>3. s[Len(w) + 6] = Do(s[Len(w) + 6].op, s[Len(w) + 6].arg)
    BY <1>2 DEF Do
  <2>4. \A k \in 1..Len(s) : k \in 1..5 \/ (k - 5 \in 1..Len(w) /\ (k - 5) + 5 = k) \/ k = Len(w) + 6
    BY <1>1
  <2>5. QED
    BY <2>1, <2>2, <2>3, <2>4 DEF Records
<1>9. \A k \in 1..Len(s) : k \in 1..5 \/ k \in 6..(Len(w) + 5) \/ k = Len(w) + 6
  BY <1>1
<1>10. \A k \in 1..Len(s) : MainOp(s, k)
  BY <1>5, <1>6, <1>7, <1>9
<1>11. Len(s) \in 7..12 /\ DOMAIN s = 1..Len(s)
  <2>1. Len(s) \in 7..12
    <3>1. \A n \in 1..6 : n + 6 \in 7..12
      OBVIOUS
    <3>2. QED
      BY <1>1, <3>1
  <2>2. DOMAIN s = 1..Len(s)
    BY <1>1
  <2>3. QED
    BY <2>1, <2>2
<1>12. QED
  BY <1>8, <1>10, <1>11 DEF s

----------------------------------------------------------------------------
(* The stack of main and the passes.                                        *)

StackDisciplined == StackOK /\ CalledForAResult /\ NeedsMet /\ ModesApart /\ NormalisedFirst

(* What is done depends on the mode only.                                   *)
LEMMA SameScripts ==
  ASSUME flags' = flags
  PROVE  \A p : Script(p)' = Script(p)
<1>1. Mode' = Mode
  BY DEF Mode
<1>2. QED
  BY <1>1 DEF Script

(* What the innermost frame is about to do.                                 *)
LEMMA TopFrame ==
  ASSUME DriverTypeOK, StackOK, stack # <<>>
  PROVE  /\ Len(stack) \in Nat \ {0} /\ DOMAIN stack = 1..Len(stack)
         /\ Top \in Frames /\ Top = stack[Len(stack)]
         /\ DOMAIN Script(Top.pass) = 1..Len(Script(Top.pass)) /\ Len(Script(Top.pass)) \in Nat
         /\ Records(Script(Top.pass))
         /\ Top.pc \in 1..(Len(Script(Top.pass)) + 1)
         /\ Top.pass = "main" <=> Len(stack) = 1
         /\ Ended <=> Top.pc = Len(Script(Top.pass)) + 1
         /\ Ended => Op.op = "none"
         /\ ~Ended => Top.pc \in DOMAIN Script(Top.pass) /\ Op = Script(Top.pass)[Top.pc]
<1>1. Len(stack) \in Nat \ {0} /\ DOMAIN stack = 1..Len(stack) /\ Len(stack) \in DOMAIN stack
  BY DEF StackOK
<1>2. Top \in Frames /\ Top = stack[Len(stack)]
  BY <1>1 DEF StackOK, Top
<1>3. /\ DOMAIN Script(Top.pass) = 1..Len(Script(Top.pass)) /\ Len(Script(Top.pass)) \in Nat
      /\ Records(Script(Top.pass))
  <2>1. CASE Top.pass = "main"
    <3>1. \A n \in 7..12 : n \in Nat
      OBVIOUS
    <3>2. QED
      BY <2>1, <3>1, MainOps DEF DriverTypeOK
  <2>2. CASE Top.pass \in Passes
    <3>1. \A n \in 1..7 : n \in Nat
      OBVIOUS
    <3>2. QED
      BY <2>2, <3>1, PassScript
  <2>3. QED
    BY <1>2, <2>1, <2>2 DEF Frames
<1>4. Top.pc \in Nat \ {0} /\ Top.pc <= Len(Script(Top.pass)) + 1
  BY <1>1, <1>2 DEF StackOK, Frames
<1>5. Top.pass = "main" <=> Len(stack) = 1
  BY <1>1, <1>2 DEF StackOK
<1>6. \A n \in Nat, k \in Nat \ {0} : k <= n + 1 =>
        k \in 1..(n + 1) /\ (k > n <=> k = n + 1) /\ (~(k > n) => k \in 1..n)
  OBVIOUS
<1>7. /\ Top.pc \in 1..(Len(Script(Top.pass)) + 1)
      /\ Ended <=> Top.pc = Len(Script(Top.pass)) + 1
      /\ ~Ended => Top.pc \in DOMAIN Script(Top.pass)
  BY <1>3, <1>4, <1>6 DEF Ended
<1>8. (Ended => Op.op = "none") /\ (~Ended => Op = Script(Top.pass)[Top.pc])
  BY DEF Op
<1>9. QED
  BY <1>1, <1>2, <1>3, <1>5, <1>7, <1>8

LEMMA Positions ==
  ASSUME NEW n \in Nat \ {0}
  PROVE  /\ n \in 1..n /\ n # n + 1 /\ n + 1 # 1 /\ (n + 1) - 1 = n
         /\ \A i \in 1..(n - 1) : i \in 1..n /\ i # n /\ i < n
         /\ \A i \in 1..n : i # n + 1 /\ (i # n => i \in 1..(n - 1))
         /\ \A i \in 1..(n + 1) : i \in 1..n \/ i = n + 1
         /\ \A i \in (1..n) \ {1} : n # 1
         /\ \A i \in (1..(n - 1)) \ {1} : i - 1 \in 1..(n - 1)
  OBVIOUS

(* The innermost frame moves on, past needs only if they are met.           *)
LEMMA TopMoves ==
  ASSUME Discipline, stack # <<>>, flags' = flags, cache' = cache,
         stack' \in Seq(Frames), Len(stack') = Len(stack),
         \A i \in 1..(Len(stack) - 1) : stack'[i] = stack[i],
         stack'[Len(stack)].pass = Top.pass,
         stack'[Len(stack)].pc \in Top.pc..(Len(Script(Top.pass)) + 1),
         \A k \in Top.pc..(stack'[Len(stack)].pc - 1) :
           Top.pass # "main" /\ Script(Top.pass)[k].op = "need" => Script(Top.pass)[k].arg \in cache
  PROVE  StackOK' /\ CalledForAResult' /\ NeedsMet' /\ ModesApart'
<1> DEFINE n == Len(stack)
<1>1. /\ n \in Nat \ {0} /\ DOMAIN stack = 1..n /\ Top = stack[n] /\ Top \in Frames
      /\ Top.pc \in 1..(Len(Script(Top.pass)) + 1) /\ Len(Script(Top.pass)) \in Nat
  BY TopFrame DEF Discipline
<1>2. DOMAIN stack' = 1..n /\ Len(stack)' = n
  BY <1>1
<1>3. \A p : Script(p)' = Script(p)
  BY SameScripts
<1> DEFINE k == stack'[n].pc
<1>4. k \in Nat \ {0} /\ Top.pc <= k /\ k <= Len(Script(Top.pass)) + 1 /\ Top.pc \in Nat \ {0}
  BY <1>1, <1>2 DEF Frames
<1>5. \A i \in 1..n : /\ stack'[i].pass = stack[i].pass
                      /\ i # n => stack'[i] = stack[i]
  <2>1. \A i \in 1..n : i # n => i \in 1..(n - 1)
    BY <1>1
  <2>2. QED
    BY <1>1, <2>1
<1>6. StackOK'
  <2>1. ASSUME NEW i \in 1..n
        PROVE  /\ stack'[i].pc <= Len(Script(stack'[i].pass)) + 1
               /\ stack'[i].pass = "main" <=> i = 1
    BY <1>1, <1>4, <1>5 DEF Discipline, StackOK
  <2>2. QED
    BY <1>2, <1>3, <2>1 DEF StackOK
<1>7. CalledForAResult'
  <2>1. ASSUME NEW i \in (1..n) \ {1}
        PROVE  /\ stack'[i].pass \notin cache
               /\ stack'[i - 1].pc > 1
               /\ Script(stack'[i - 1].pass)[stack'[i - 1].pc - 1] = Need(stack'[i].pass)
    <3>1. i - 1 \in 1..n /\ i - 1 # n
      BY <1>1
    <3>2. QED
      BY <1>1, <1>5, <3>1 DEF Discipline, CalledForAResult
  <2>2. \A i, j \in 1..n : i < j => Level(stack'[j].pass) < Level(stack'[i].pass)
    BY <1>1, <1>5 DEF Discipline, CalledForAResult
  <2>3. QED
    BY <1>2, <1>3, <2>1, <2>2 DEF CalledForAResult, Level, Need, Do
<1>8. NeedsMet'
  <2>1. ASSUME NEW i \in (1..n) \ {1}, NEW l \in 1..(stack'[i].pc - 1), i = n \/ l # stack'[i].pc - 1
        PROVE  Got(stack'[i], l)
    <3>1. CASE i # n
      BY <1>1, <1>5, <2>1, <3>1 DEF Discipline, NeedsMet
    <3>2. CASE i = n
      <4>1. Top.pass # "main"
        BY <1>1, <3>2 DEF Discipline, StackOK
      <4>2. CASE l \in 1..(Top.pc - 1)
        <5>1. Got(stack[n], l)
          BY <1>1, <3>2, <4>2 DEF Discipline, NeedsMet
        <5>2. QED
          BY <1>1, <3>2, <5>1 DEF Got
      <4>3. CASE l \in Top.pc..(k - 1)
        BY <1>1, <3>2, <4>1, <4>3 DEF Got
      <4>4. l \in 1..(Top.pc - 1) \/ l \in Top.pc..(k - 1)
        BY <1>4, <3>2
      <4>5. QED
        BY <4>2, <4>3, <4>4
    <3>3. QED
      BY <3>1, <3>2
  <2>2. \A i \in (1..n) \ {1} : \A l \in 1..(stack'[i].pc - 1) :
          (i = n \/ l # stack'[i].pc - 1) =>
            (Script(stack'[i].pass)[l].op = "need" => Script(stack'[i].pass)[l].arg \in cache)
    BY <2>1 DEF Got
  <2>3. \A p \in cache' : \A l \in DOMAIN Script(p)' :
          Script(p)'[l].op = "need" => Script(p)'[l].arg \in cache'
    BY <1>3 DEF Discipline, NeedsMet
  <2>4. QED
    BY <1>2, <1>3, <2>2, <2>3 DEF NeedsMet, Got
<1>9. ModesApart'
  BY <1>1, <1>2, <1>5 DEF Discipline, ModesApart
<1>10. QED
  BY <1>6, <1>7, <1>8, <1>9

(* What is built was rewritten just before, what is released just built.    *)
LEMMA WorkIsOrdered ==
  ASSUME DriverTypeOK, NEW p \in Passes \cup {"main"}, NEW k \in DOMAIN Script(p),
         Script(p)[k].op \in {"build", "release"}
  PROVE  1 < k /\ Script(p)[k - 1].op \in {"normalise", "build"}
<1>1. p # "main"
  <2> SUFFICES ASSUME p = "main" PROVE FALSE
    OBVIOUS
  <2>1. MainOp(Script("main"), k)
    BY MainOps DEF DriverTypeOK
  <2>2. QED
    BY <2>1 DEF MainOp
<1>2. PassOp(Script(p), p, k)
  BY <1>1, PassScript
<1>3. QED
  BY <1>2 DEF PassOp

(* The frame on top is exchanged.                                           *)
LEMMA Exchanged ==
  ASSUME NEW S, NEW s \in Seq(S), s # <<>>, NEW e \in S
  PROVE  /\ [s EXCEPT ![Len(s)] = e] \in Seq(S)
         /\ Len([s EXCEPT ![Len(s)] = e]) = Len(s)
         /\ [s EXCEPT ![Len(s)] = e][Len(s)] = e
         /\ \A i \in 1..Len(s) : i # Len(s) => [s EXCEPT ![Len(s)] = e][i] = s[i]
  OBVIOUS

At(f, pc, open) == [pass |-> f.pass, pc |-> pc, open |-> open]

LEMMA FrameFields ==
  ASSUME NEW f \in Frames, NEW pc \in Nat \ {0}, NEW open \in Int
  PROVE  /\ At(f, pc, open) \in Frames
         /\ At(f, pc, open).pass = f.pass
         /\ At(f, pc, open).pc = pc
         /\ At(f, pc, open).open = open
         /\ f.pc \in Nat \ {0} /\ f.open \in Int /\ f.pass \in Passes \cup {"main"}
         /\ [f EXCEPT !.pc = pc] = At(f, pc, f.open)
         /\ [f EXCEPT !.open = open] = At(f, f.pc, open)
  BY DEF Frames, At

(* The ways in which a step moves the frame on top.                         *)
LEMMA MovedTop ==
  ASSUME StackOK, stack # <<>>
  PROVE  /\ stack \in Seq(Frames) /\ Top \in Frames /\ Top = stack[Len(stack)]
         /\ Len(stack) \in Nat \ {0} /\ DOMAIN stack = 1..Len(stack)
         /\ Advanced = [stack EXCEPT ![Len(stack)] = At(Top, Top.pc + 1, Top.open)]
         /\ Returning = [stack EXCEPT ![Len(stack)] =
                            [Top EXCEPT !.pc = Len(Script(Top.pass)) + 1]]
         /\ [stack EXCEPT ![Len(stack)].open = @ - 1]
              = [stack EXCEPT ![Len(stack)] = At(Top, Top.pc, Top.open - 1)]
         /\ [Advanced EXCEPT ![Len(stack)].open = @ + 1]
              = [stack EXCEPT ![Len(stack)] = At(Top, Top.pc + 1, Top.open + 1)]
         /\ [Advanced EXCEPT ![Len(stack)].open = @ - 1]
              = [stack EXCEPT ![Len(stack)] = At(Top, Top.pc + 1, Top.open - 1)]
<1>1. /\ stack \in Seq(Frames) /\ Len(stack) \in Nat \ {0} /\ DOMAIN stack = 1..Len(stack)
      /\ Top = stack[Len(stack)] /\ Len(stack) \in 1..Len(stack)
  BY DEF StackOK, Top
<1>2. Top \in Frames
  BY <1>1
<1>3. Top.pc + 1 \in Nat \ {0} /\ Top.open - 1 \in Int
  BY <1>2 DEF Frames
<1>4. /\ [Top EXCEPT !.pc = Top.pc + 1] = At(Top, Top.pc + 1, Top.open)
      /\ [Top EXCEPT !.open = Top.open - 1] = At(Top, Top.pc, Top.open - 1)
  BY <1>2, <1>3, FrameFields
<1>5. Advanced = [stack EXCEPT ![Len(stack)] = [Top EXCEPT !.pc = Top.pc + 1]]
  BY <1>1 DEF Advanced
<1>6. Returning = [stack EXCEPT ![Len(stack)] = [Top EXCEPT !.pc = Len(Script(Top.pass)) + 1]]
  BY <1>1 DEF Returning
<1>7. [stack EXCEPT ![Len(stack)].open = @ - 1]
        = [stack EXCEPT ![Len(stack)] = [Top EXCEPT !.open = Top.open - 1]]
  BY <1>1
<1>8. ASSUME NEW d
      PROVE  [Advanced EXCEPT ![Len(stack)].open = d]
               = [stack EXCEPT ![Len(stack)] = At(Top, Top.pc + 1, d)]
  <2>1. Advanced = [stack EXCEPT ![Len(stack)] = At(Top, Top.pc + 1, Top.open)]
    BY <1>4, <1>5
  <2>2. Advanced[Len(stack)] = At(Top, Top.pc + 1, Top.open)
    BY <1>1, <2>1
  <2>3. [At(Top, Top.pc + 1, Top.open) EXCEPT !.open = d] = At(Top, Top.pc + 1, d)
    BY DEF At
  <2>4. [Advanced EXCEPT ![Len(stack)].open = d]
          = [Advanced EXCEPT ![Len(stack)] = [Advanced[Len(stack)] EXCEPT !.open = d]]
    OBVIOUS
  <2>5. QED
    BY <1>1, <2>1, <2>2, <2>3, <2>4
<1>9. /\ [Advanced EXCEPT ![Len(stack)].open = @ + 1]
           = [Advanced EXCEPT ![Len(stack)].open = Top.open + 1]
      /\ [Advanced EXCEPT ![Len(stack)].open = @ - 1]
           = [Advanced EXCEPT ![Len(stack)].open = Top.open - 1]
  <2>1. Advanced[Len(stack)].open = Top.open
    BY <1>1, <1>4, <1>5 DEF At
  <2>2. QED
    BY <2>1
<1>10. QED
  BY <1>1, <1>2, <1>4, <1>5, <1>6, <1>7, <1>8, <1>9

(* A need that is not met starts the pass.                                  *)
LEMMA Pushed ==
  ASSUME Discipline, Op.op = "need", Op.arg \notin cache, flags' = flags, cache' = cache,
         stack' = Append(Advanced, Frame(Op.arg)), normalised' = normalised
  PROVE  StackDisciplined'
<1> DEFINE n == Len(stack)
           p == Op.arg
<1>1. stack # <<>> /\ ~Ended
  BY DEF Op
<1>2. /\ n \in Nat \ {0} /\ DOMAIN stack = 1..n /\ Top = stack[n] /\ Top \in Frames
      /\ Top.pc \in 1..Len(Script(Top.pass)) /\ Len(Script(Top.pass)) \in Nat
      /\ Op = Script(Top.pass)[Top.pc]
      /\ Top.pass = "main" <=> n = 1
      /\ Op = Need(p)
  <2>1. /\ n \in Nat \ {0} /\ DOMAIN stack = 1..n /\ Top = stack[n] /\ Top \in Frames
        /\ Top.pc \in 1..Len(Script(Top.pass)) /\ Len(Script(Top.pass)) \in Nat
        /\ Op = Script(Top.pass)[Top.pc] /\ Records(Script(Top.pass))
        /\ Top.pass = "main" <=> n = 1
    BY <1>1, TopFrame DEF Discipline
  <2>2. Op = Do(Op.op, Op.arg)
    BY <2>1 DEF Records
  <2>3. QED
    BY <2>1, <2>2 DEF Need
<1>3. /\ p \in Passes /\ Level(p) < Level(Top.pass)
      /\ p = "FSPTAPass" <=> Top.pass = "main" /\ flags = {}
  <2>1. CASE Top.pass = "main"
    <3>1. MainOp(Script("main"), Top.pc)
      BY <1>2, <2>1, MainOps DEF Discipline, DriverTypeOK
    <3>2. p \in Passes /\ (p = "FSPTAPass" <=> flags = {})
      BY <1>2, <2>1, <3>1 DEF MainOp
    <3>3. \A q \in Passes : Level(q) < Level("main")
      BY DEF Passes, Level
    <3>4. QED
      BY <2>1, <3>2, <3>3
  <2>2. CASE Top.pass \in Passes
    <3>1. PassOp(Script(Top.pass), Top.pass, Top.pc)
      BY <1>2, <2>2, PassScript
    <3>2. "main" \notin Passes
      BY DEF Passes
    <3>3. QED
      BY <1>2, <2>2, <3>1, <3>2 DEF PassOp
  <2>3. QED
    BY <1>2, <2>1, <2>2 DEF Frames
<1> DEFINE adv == At(Top, Top.pc + 1, Top.open)
<1>4. /\ adv \in Frames /\ Frame(p) \in Frames
      /\ adv.pass = Top.pass /\ adv.pc = Top.pc + 1
      /\ Frame(p).pass = p /\ Frame(p).pc = 1
  BY <1>2, <1>3 DEF Frames, Frame, At
<1>5. /\ Advanced \in Seq(Frames) /\ Len(Advanced) = n
      /\ Advanced[n] = adv /\ \A i \in 1..n : i # n => Advanced[i] = stack[i]
  <2>1. Advanced = [stack EXCEPT ![n] = adv] /\ stack \in Seq(Frames)
    BY <1>1, MovedTop DEF Discipline
  <2> HIDE DEF adv, Frames
  <2>2. QED
    BY <1>1, <1>2, <1>4, <2>1, Exchanged
<1>6. /\ stack' \in Seq(Frames) /\ Len(stack') = n + 1 /\ DOMAIN stack' = 1..(n + 1)
      /\ stack'[n + 1] = Frame(p) /\ stack'[n] = adv
      /\ \A i \in 1..n : i # n => stack'[i] = stack[i]
  <2> HIDE DEF adv, n, p
  <2>1. /\ DOMAIN Advanced = 1..n
        /\ Append(Advanced, Frame(p)) \in Seq(Frames)
        /\ Len(Append(Advanced, Frame(p))) = n + 1
        /\ DOMAIN Append(Advanced, Frame(p)) = 1..(n + 1)
        /\ \A i \in DOMAIN Advanced : Append(Advanced, Frame(p))[i] = Advanced[i]
        /\ Append(Advanced, Frame(p))[n + 1] = Frame(p)
    BY <1>4, <1>5, Appending
  <2>2. n \in 1..n
    BY <1>2
  <2>3. stack' = Append(Advanced, Frame(p))
    BY DEF p
  <2>4. QED
    BY <1>5, <2>1, <2>2, <2>3
<1>7. \A q : Script(q)' = Script(q)
  BY SameScripts
<1> HIDE DEF adv, p
<1>8. \A i \in 1..n : stack'[i].pass = stack[i].pass
  BY <1>2, <1>4, <1>6
<1>9. \A i \in 1..(n + 1) : i \in 1..n \/ i = n + 1
  BY <1>2
<1>10. n \in 1..n /\ n + 1 # 1 /\ (n + 1) - 1 = n
  BY <1>2
<1>11. StackOK'
  <2>1. ASSUME NEW i \in 1..(n + 1)
        PROVE  /\ stack'[i].pc <= Len(Script(stack'[i].pass)) + 1
               /\ stack'[i].pass = "main" <=> i = 1
    <3>1. CASE i \in 1..n /\ i # n
      BY <1>2, <1>6, <3>1 DEF Discipline, StackOK
    <3>2. CASE i = n
      <4>1. stack'[i].pc = Top.pc + 1 /\ stack'[i].pass = Top.pass
        BY <1>4, <1>6, <3>2
      <4>2. \A m \in Nat : \A k \in 1..m : k + 1 <= m + 1
        OBVIOUS
      <4>3. Top.pc + 1 <= Len(Script(Top.pass)) + 1
        BY <1>2, <4>2
      <4>4. QED
        BY <1>2, <3>2, <4>1, <4>3
    <3>3. CASE i = n + 1
      <4>1. Len(Script(p)) \in 1..7 /\ p # "main"
        BY <1>3, PassScript DEF Passes
      <4>2. \A m \in 1..7 : 1 <= m + 1
        OBVIOUS
      <4>3. QED
        BY <1>4, <1>6, <1>10, <3>3, <4>1, <4>2
    <3>4. QED
      BY <1>9, <3>1, <3>2, <3>3
  <2>2. QED
    BY <1>6, <1>7, <2>1 DEF StackOK
<1>12. CalledForAResult'
  <2>1. ASSUME NEW i \in (1..(n + 1)) \ {1}
        PROVE  /\ stack'[i].pass \notin cache
               /\ stack'[i - 1].pc > 1
               /\ Script(stack'[i - 1].pass)[stack'[i - 1].pc - 1] = Need(stack'[i].pass)
    <3>1. CASE i \in 1..n
      <4>1. i - 1 \in 1..n /\ i - 1 # n /\ i \in (1..n) \ {1}
        BY <1>2, <3>1
      <4>2. QED
        BY <1>2, <1>6, <1>8, <4>1 DEF Discipline, CalledForAResult
    <3>2. CASE i = n + 1
      <4>1. stack'[i - 1] = adv /\ stack'[i] = Frame(p)
        BY <1>6, <1>10, <3>2
      <4>2. Top.pc + 1 > 1 /\ (Top.pc + 1) - 1 = Top.pc
        BY <1>2
      <4>3. p \notin cache
        BY DEF p
      <4>4. QED
        BY <1>2, <1>4, <4>1, <4>2, <4>3
    <3>3. QED
      BY <1>9, <3>1, <3>2
  <2>2. ASSUME NEW i \in 1..(n + 1), NEW j \in 1..(n + 1), i < j
        PROVE  Level(stack'[j].pass) < Level(stack'[i].pass)
    <3>1. i \in 1..n
      BY <1>2, <2>2
    <3>2. CASE j \in 1..n
      BY <1>2, <1>8, <2>2, <3>1, <3>2 DEF Discipline, CalledForAResult
    <3>3. CASE j = n + 1
      <4>1. stack'[j].pass = p /\ stack'[i].pass = stack[i].pass
        BY <1>4, <1>6, <1>8, <3>1, <3>3
      <4>2. \A q \in Passes \cup {"main"} : Level(q) \in Int
        BY DEF Passes, Level
      <4>3. Level(Top.pass) = Level(stack[i].pass) \/ Level(Top.pass) < Level(stack[i].pass)
        BY <1>2, <1>10, <3>1 DEF Discipline, CalledForAResult
      <4>4. stack[i].pass \in Passes \cup {"main"} /\ Top.pass \in Passes \cup {"main"}
        <5>1. \A f \in Frames : f.pass \in Passes \cup {"main"}
          BY DEF Frames
        <5>2. stack[i] \in Frames
          BY <1>2, <3>1 DEF Discipline, StackOK
        <5>3. QED
          BY <1>2, <5>1, <5>2
      <4>5. \A a, b, c \in Int : a < b /\ (b = c \/ b < c) => a < c
        OBVIOUS
      <4>6. QED
        BY <1>3, <4>1, <4>2, <4>3, <4>4, <4>5
    <3>4. QED
      BY <1>9, <3>2, <3>3
  <2>3. QED
    BY <1>6, <1>7, <2>1, <2>2 DEF CalledForAResult, Level, Need, Do
<1>13. NeedsMet'
  <2>1. ASSUME NEW i \in (1..(n + 1)) \ {1}, NEW l \in 1..(stack'[i].pc - 1),
               i = n + 1 \/ l # stack'[i].pc - 1
        PROVE  Got(stack'[i], l)
    <3>1. CASE i \in 1..n /\ i # n
      <4>1. stack'[i] = stack[i] /\ i \in DOMAIN stack \ {1} /\ i # n + 1
        BY <1>2, <1>6, <3>1, Positions
      <4>2. l \in 1..(stack[i].pc - 1) /\ l # stack[i].pc - 1
        BY <2>1, <4>1
      <4>3. Got(stack[i], l)
        BY <4>1, <4>2 DEF Discipline, NeedsMet
      <4>4. QED
        BY <4>1, <4>3
    <3>2. CASE i = n
      <4>1. stack'[i].pc = Top.pc + 1 /\ stack'[i].pass = Top.pass
        BY <1>4, <1>6, <3>2
      <4>2. i # n + 1 /\ n \in DOMAIN stack \ {1} /\ n = Len(stack)
        BY <1>2, <3>2, Positions
      <4>3. \A m \in Nat \ {0} : \A x \in 1..((m + 1) - 1) : x # (m + 1) - 1 => x \in 1..(m - 1)
        OBVIOUS
      <4>4. Top.pc \in Nat \ {0}
        BY <1>2
      <4>5. l \in 1..((Top.pc + 1) - 1) /\ l # (Top.pc + 1) - 1
        BY <2>1, <4>1, <4>2
      <4>6. l \in 1..(stack[n].pc - 1)
        BY <1>2, <4>3, <4>4, <4>5
      <4>7. Got(stack[n], l)
        BY <4>2, <4>6 DEF Discipline, NeedsMet
      <4>8. QED
        BY <1>2, <4>1, <4>7 DEF Got
    <3>3. CASE i = n + 1
      BY <1>4, <1>6, <2>1, <3>3
    <3>4. QED
      BY <1>9, <3>1, <3>2, <3>3
  <2>2. \A i \in (1..(n + 1)) \ {1} : \A l \in 1..(stack'[i].pc - 1) :
          (i = n + 1 \/ l # stack'[i].pc - 1) =>
            (Script(stack'[i].pass)[l].op = "need" => Script(stack'[i].pass)[l].arg \in cache)
    BY <2>1 DEF Got
  <2>3. \A q \in cache' : \A l \in DOMAIN Script(q)' :
          Script(q)'[l].op = "need" => Script(q)'[l].arg \in cache'
    BY <1>7 DEF Discipline, NeedsMet
  <2>4. QED
    BY <1>6, <1>7, <2>2, <2>3 DEF NeedsMet, Got
<1>14. ModesApart'
  <2>1. \A i \in 1..(n + 1) : stack'[i].pass = IF i = n + 1 THEN p ELSE stack[i].pass
    BY <1>2, <1>4, <1>6, <1>8, <1>9
  <2>2. flags = {} => p = "FSPTAPass"
    <3>1. ASSUME flags = {}, Top.pass = "FSPTAPass" PROVE FALSE
      <4>1. \A q \in Passes : ~(Level(q) < Level("FSPTAPass"))
        BY DEF Passes, Level
      <4>2. QED
        BY <1>3, <3>1, <4>1
    <3>2. flags = {} => Top.pass \in {"main", "FSPTAPass"}
      BY <1>2, <1>10 DEF Discipline, ModesApart
    <3>3. QED
      BY <1>3, <3>1, <3>2
  <2>3. flags # {} => p # "FSPTAPass"
    BY <1>3
  <2>4. \A i \in 1..(n + 1) : i # n + 1 => i \in 1..n
    BY <1>9
  <2>5. QED
    BY <1>2, <1>6, <2>1, <2>2, <2>3, <2>4 DEF Discipline, ModesApart
<1>15. NormalisedFirst'
  <2>1. ASSUME NEW i \in 1..(n + 1), stack'[i].pc \in DOMAIN Script(stack'[i].pass),
               Script(stack'[i].pass)[stack'[i].pc].op \in {"build", "release"}
        PROVE  normalised
    <3>1. CASE i \in 1..n /\ i # n
      <4>1. stack'[i] = stack[i] /\ i \in DOMAIN stack
        BY <1>2, <1>6, <3>1
      <4>2. QED
        BY <2>1, <4>1 DEF Discipline, NormalisedFirst
    <3>2. CASE i = n
      <4>1. stack'[i].pc = Top.pc + 1 /\ stack'[i].pass = Top.pass
        BY <1>4, <1>6, <3>2
      <4>2. Top.pass \in Passes \cup {"main"}
        BY <1>2 DEF Frames
      <4>3. Script(Top.pass)[(Top.pc + 1) - 1].op \in {"normalise", "build"}
        BY <2>1, <4>1, <4>2, WorkIsOrdered DEF Discipline
      <4>4. (Top.pc + 1) - 1 = Top.pc
        BY <1>2
      <4>5. QED
        BY <1>2, <4>3, <4>4 DEF Need, Do
    <3>3. CASE i = n + 1
      <4>1. stack'[i].pc = 1 /\ stack'[i].pass = p
        BY <1>4, <1>6, <3>3
      <4>2. 1 < 1
        BY <1>3, <2>1, <4>1, WorkIsOrdered DEF Discipline
      <4>3. QED
        BY <4>2
    <3>4. QED
      BY <1>9, <3>1, <3>2, <3>3
  <2>2. QED
    BY <1>6, <1>7, <2>1 DEF NormalisedFirst
<1>16. QED
  BY <1>11, <1>12, <1>13, <1>14, <1>15 DEF StackDisciplined

(* A pass that returns has its results cached; the one that asked goes on.  *)
LEMMA Popped ==
  ASSUME Discipline, stack # <<>>, Ended, flags' = flags,
         stack' = SubSeq(stack, 1, Len(stack) - 1), normalised' = normalised,
         cache' = IF Top.pass = "main" THEN cache ELSE cache \cup {Top.pass}
  PROVE  StackDisciplined' /\ Len(stack') = Len(stack) - 1
<1> DEFINE n == Len(stack)
<1>1. /\ n \in Nat \ {0} /\ DOMAIN stack = 1..n /\ Top = stack[n] /\ Top \in Frames
      /\ DOMAIN Script(Top.pass) = 1..Len(Script(Top.pass))
      /\ Top.pc = Len(Script(Top.pass)) + 1 /\ Len(Script(Top.pass)) \in Nat
      /\ Top.pass = "main" <=> n = 1
  BY TopFrame DEF Discipline
<1>2. /\ stack' \in Seq(Frames) /\ DOMAIN stack' = 1..(n - 1) /\ Len(stack') = n - 1
      /\ \A i \in 1..(n - 1) : stack'[i] = stack[i]
  <2>1. stack \in Seq(Frames)
    BY DEF Discipline, StackOK
  <2> HIDE DEF Frames
  <2>2. QED
    BY <1>1, <2>1
<1>3. \A q : Script(q)' = Script(q)
  BY SameScripts
<1>4. n \in 1..n /\ \A i \in 1..(n - 1) : i \in 1..n /\ i # n /\ i < n
  BY <1>1, Positions
<1>5. cache \subseteq cache' /\ cache' \subseteq cache \cup {Top.pass}
  OBVIOUS
<1>6. StackOK'
  BY <1>1, <1>2, <1>3, <1>4 DEF Discipline, StackOK
<1>7. CalledForAResult'
  <2>1. ASSUME NEW i \in (1..(n - 1)) \ {1}
        PROVE  /\ stack'[i].pass \notin cache'
               /\ stack'[i - 1].pc > 1
               /\ Script(stack'[i - 1].pass)[stack'[i - 1].pc - 1] = Need(stack'[i].pass)
    <3>1. i - 1 \in 1..(n - 1) /\ i \in DOMAIN stack \ {1}
      BY <1>1, <1>4, Positions
    <3>2. Level(stack[n].pass) < Level(stack[i].pass)
      BY <1>1, <1>4 DEF Discipline, CalledForAResult
    <3>3. \A q \in Passes \cup {"main"} : Level(q) \in Int
      BY DEF Passes, Level
    <3>4. \A f \in Frames : f.pass \in Passes \cup {"main"}
      BY DEF Frames
    <3>5. stack[i] \in Frames
      <4>1. stack \in Seq(Frames)
        BY DEF Discipline, StackOK
      <4> HIDE DEF Frames
      <4>2. QED
        BY <3>1, <4>1
    <3>6. \A a \in Int : ~(a < a)
      OBVIOUS
    <3>7. stack[i].pass # Top.pass
      BY <1>1, <3>2, <3>3, <3>4, <3>5, <3>6
    <3>8. /\ stack[i].pass \notin cache
          /\ stack[i - 1].pc > 1
          /\ Script(stack[i - 1].pass)[stack[i - 1].pc - 1] = Need(stack[i].pass)
      BY <3>1 DEF Discipline, CalledForAResult
    <3>9. stack'[i] = stack[i] /\ stack'[i - 1] = stack[i - 1]
      BY <1>2, <3>1
    <3>10. QED
      BY <1>5, <3>7, <3>8, <3>9
  <2>2. \A i, j \in 1..(n - 1) : i < j => Level(stack'[j].pass) < Level(stack'[i].pass)
    BY <1>1, <1>2, <1>4 DEF Discipline, CalledForAResult
  <2>3. QED
    BY <1>2, <1>3, <2>1, <2>2 DEF CalledForAResult, Level, Need, Do
<1>8. NeedsMet'
  <2>1. ASSUME NEW i \in (1..(n - 1)) \ {1}, NEW l \in 1..(stack'[i].pc - 1),
               i = n - 1 \/ l # stack'[i].pc - 1
        PROVE  Script(stack'[i].pass)[l].op = "need" => Script(stack'[i].pass)[l].arg \in cache'
    <3>1. stack'[i] = stack[i] /\ i \in DOMAIN stack \ {1} /\ i # n
      BY <1>1, <1>2, <1>4
    <3>2. CASE l # stack[i].pc - 1
      <4>1. Got(stack[i], l)
        BY <2>1, <3>1, <3>2 DEF Discipline, NeedsMet
      <4>2. QED
        BY <1>5, <3>1, <4>1 DEF Got
    <3>3. CASE l = stack[i].pc - 1
      <4>1. i = n - 1 /\ n \in DOMAIN stack \ {1} /\ n # 1
        BY <1>1, <1>4, <2>1, <3>1, <3>3, Positions
      <4>2. Script(stack[i].pass)[stack[i].pc - 1] = Need(Top.pass)
        BY <1>1, <4>1 DEF Discipline, CalledForAResult
      <4>3. Script(stack[i].pass)[l].arg = Top.pass
        BY <3>3, <4>2 DEF Need, Do
      <4>4. Top.pass # "main"
        BY <1>1, <4>1
      <4>5. QED
        BY <3>1, <4>3, <4>4
    <3>4. QED
      BY <3>2, <3>3
  <2>2. ASSUME NEW q \in cache', NEW l \in DOMAIN Script(q), Script(q)[l].op = "need"
        PROVE  Script(q)[l].arg \in cache'
    <3>1. CASE q \in cache
      BY <1>5, <2>2, <3>1 DEF Discipline, NeedsMet
    <3>2. CASE q \notin cache
      <4>1. q = Top.pass /\ n \in DOMAIN stack \ {1}
        BY <1>1, <3>2
      <4>2. l \in 1..(stack[n].pc - 1)
        <5>1. \A m \in Nat : (m + 1) - 1 = m
          OBVIOUS
        <5>2. QED
          BY <1>1, <4>1, <5>1
      <4>3. Got(Top, l)
        BY <1>1, <4>1, <4>2 DEF Discipline, NeedsMet
      <4>4. QED
        BY <1>5, <2>2, <4>1, <4>3 DEF Got
    <3>3. QED
      BY <3>1, <3>2
  <2>3. QED
    BY <1>2, <1>3, <2>1, <2>2 DEF NeedsMet, Got
<1>9. ModesApart'
  BY <1>1, <1>2, <1>4 DEF Discipline, ModesApart
<1>10. NormalisedFirst'
  BY <1>1, <1>2, <1>3, <1>4 DEF Discipline, NormalisedFirst
<1>11. QED
  BY <1>2, <1>6, <1>7, <1>8, <1>9, <1>10 DEF StackDisciplined

----------------------------------------------------------------------------
(* The steps.                                                               *)

LEMMA TopOp ==
  ASSUME Discipline, stack # <<>>, ~Ended
  PROVE  /\ Op.op \in {"options", "parse", "print"} => Top.pass = "main"
         /\ Op.op \in {"scan", "unless", "normalise", "build", "release", "filter"} => Top.pass \in Passes
         /\ Op.op = "scan" => Top.pass = "AnchorPass"
         /\ Op.op = "unless" =>
              \A j \in (Top.pc + 1)..Len(Script(Top.pass)) : Script(Top.pass)[j].op # "need"
         /\ Op.op = "normalise" /\ flags # {} => "AnchorPass" \in cache
         /\ Op.op = "build" =>
              /\ Top.pass # "AnchorPass" /\ Top.pc + 1 \in DOMAIN Script(Top.pass)
              /\ Script(Top.pass)[Top.pc + 1].op = "release"
<1>1. /\ Len(stack) \in Nat \ {0} /\ DOMAIN stack = 1..Len(stack) /\ Top = stack[Len(stack)]
      /\ Top \in Frames /\ Top.pc \in 1..Len(Script(Top.pass)) /\ Op = Script(Top.pass)[Top.pc]
      /\ DOMAIN Script(Top.pass) = 1..Len(Script(Top.pass))
      /\ Top.pass = "main" <=> Len(stack) = 1
  BY TopFrame DEF Discipline
<1>2. CASE Top.pass = "main"
  <2>1. MainOp(Script("main"), Top.pc)
    BY <1>1, <1>2, MainOps DEF Discipline, DriverTypeOK
  <2>2. QED
    BY <1>1, <1>2, <2>1 DEF MainOp
<1>3. CASE Top.pass \in Passes
  <2>1. PassOp(Script(Top.pass), Top.pass, Top.pc)
    BY <1>1, <1>3, PassScript
  <2>2. ASSUME Op.op = "normalise", flags # {} PROVE "AnchorPass" \in cache
    <3>1. "main" \notin Passes
      BY DEF Passes
    <3>2. Len(stack) \in DOMAIN stack \ {1}
      BY <1>1, <1>3, <3>1, Positions
    <3>3. Top.pass # "FSPTAPass"
      BY <1>1, <2>2, <3>2 DEF Discipline, ModesApart
    <3>4. Top.pass \in Chained /\ 2 < Top.pc /\ Script(Top.pass)[2] = Need(Below(Top.pass))
      BY <1>1, <2>1, <2>2, <3>3 DEF PassOp
    <3>5. 2 \in 1..(Top.pc - 1)
      BY <1>1, <3>4
    <3>6. Got(Top, 2)
      BY <1>1, <3>2, <3>5 DEF Discipline, NeedsMet
    <3>7. Below(Top.pass) \in cache
      BY <3>4, <3>6 DEF Got, Need, Do
    <3>8. ASSUME NEW p \in Chained, p \in cache PROVE Below(p) \in cache
      <4>1. p \in Passes /\ Script(p)[2] = Need(Below(p)) /\ 2 \in DOMAIN Script(p)
        BY ChainedScript
      <4>2. QED
        BY <3>8, <4>1 DEF Discipline, NeedsMet, Need, Do
    <3>9. CASE Top.pass = "CausalDetectPass"
      BY <3>7, <3>9 DEF Below
    <3>10. CASE Top.pass = "FunctionPairsPass"
      <4>1. "CausalDetectPass" \in cache
        BY <3>7, <3>10 DEF Below
      <4>2. QED
        BY <3>8, <4>1 DEF Below, Chained
    <3>11. CASE Top.pass = "FnHeuristicsFilterPass"
      <4>1. "FunctionPairsPass" \in cache
        BY <3>7, <3>11 DEF Below
      <4>2. "CausalDetectPass" \in cache
        BY <3>8, <4>1 DEF Below, Chained
      <4>3. QED
        BY <3>8, <4>2 DEF Below, Chained
    <3>12. QED
      BY <3>4, <3>9, <3>10, <3>11 DEF Chained
  <2>3. QED
    BY <1>1, <1>3, <2>1, <2>2 DEF PassOp
<1>4. QED
  BY <1>1, <1>2, <1>3 DEF Frames

(* A step that changes one frame leaves the stack disciplined.              *)
LEMMA TopChanges ==
  ASSUME Discipline, stack # <<>>, flags' = flags, cache' = cache, normalised => normalised',
         NEW f \in Frames, stack' = [stack EXCEPT ![Len(stack)] = f], f.pass = Top.pass,
         \/ f.pc = Top.pc
         \/ /\ ~Ended /\ f.pc = Top.pc + 1
            /\ Op.op = "need" => Top.pass = "main" \/ Op.arg \in cache
            /\ Op.op = "normalise" => normalised'
         \/ /\ ~Ended /\ f.pc = Len(Script(Top.pass)) + 1
            /\ Op.op \in {"unless", "parse"}
  PROVE  /\ StackDisciplined'
         /\ Len(stack') = Len(stack) /\ DOMAIN stack' = 1..Len(stack) /\ stack' # <<>>
         /\ stack'[Len(stack)] = f /\ Top' = f
         /\ \A i \in 1..Len(stack) : i # Len(stack) => stack'[i] = stack[i]
<1> DEFINE n == Len(stack)
           m == Len(Script(Top.pass))
<1>1. /\ n \in Nat \ {0} /\ DOMAIN stack = 1..n /\ Top = stack[n] /\ Top \in Frames
      /\ DOMAIN Script(Top.pass) = 1..m /\ m \in Nat
      /\ Top.pc \in 1..(m + 1)
      /\ Ended <=> Top.pc = m + 1
      /\ ~Ended => Top.pc \in 1..m /\ Op = Script(Top.pass)[Top.pc]
  BY TopFrame DEF Discipline
<1>2. /\ stack' \in Seq(Frames) /\ Len(stack') = n
      /\ stack'[n] = f /\ \A i \in 1..n : i # n => stack'[i] = stack[i]
  <2>1. stack \in Seq(Frames)
    BY DEF Discipline, StackOK
  <2> HIDE DEF Frames
  <2>2. QED
    BY <1>1, <2>1, Exchanged
<1>3. DOMAIN stack' = 1..n /\ stack' # <<>> /\ Top' = f
  <2>1. DOMAIN stack' = 1..Len(stack')
    <3>1. \A S : \A s \in Seq(S) : DOMAIN s = 1..Len(s)
      OBVIOUS
    <3>2. QED
      BY <1>2, <3>1
  <2>2. stack' # <<>>
    BY <1>1, <1>2
  <2>3. QED
    BY <1>2, <2>1, <2>2 DEF Top
<1>4. \A i \in 1..(n - 1) : stack'[i] = stack[i]
  BY <1>1, <1>2, Positions
<1> HIDE DEF m
<1>5. f.pc \in Top.pc..(m + 1)
  <2>1. \A k \in 1..m : k + 1 \in k..(m + 1) /\ m + 1 \in k..(m + 1)
    BY <1>1
  <2>2. \A k \in 1..(m + 1) : k \in k..(m + 1)
    BY <1>1
  <2>3. QED
    BY <1>1, <2>1, <2>2 DEF m
<1>6. ASSUME NEW k \in Top.pc..(f.pc - 1), Top.pass # "main", Script(Top.pass)[k].op = "need"
      PROVE  Script(Top.pass)[k].arg \in cache
  <2>1. Top.pc \in Nat
    BY <1>1
  <2>2. CASE f.pc = Top.pc
    BY <1>6, <2>1, <2>2
  <2>3. CASE ~Ended /\ f.pc = Top.pc + 1 /\ (Op.op = "need" => Top.pass = "main" \/ Op.arg \in cache)
    <3>1. k = Top.pc
      BY <1>6, <2>1, <2>3
    <3>2. QED
      BY <1>1, <1>6, <2>3, <3>1
  <2>4. CASE ~Ended /\ f.pc = m + 1 /\ Op.op \in {"unless", "parse"}
    <3>1. Op.op = "unless"
      BY <1>6, <2>4, TopOp
    <3>2. k = Top.pc \/ k \in (Top.pc + 1)..m
      BY <1>1, <1>6, <2>1, <2>4
    <3>3. \A j \in (Top.pc + 1)..m : Script(Top.pass)[j].op # "need"
      BY <2>4, <3>1, TopOp DEF m
    <3>4. QED
      BY <1>1, <1>6, <2>4, <3>1, <3>2, <3>3
  <2>5. QED
    BY <2>2, <2>3, <2>4 DEF m
<1>7. StackOK' /\ CalledForAResult' /\ NeedsMet' /\ ModesApart'
  <2>1. stack'[Len(stack)].pass = Top.pass /\ stack'[Len(stack)].pc = f.pc
    BY <1>2
  <2>2. QED
    BY <1>2, <1>4, <1>5, <1>6, <2>1, TopMoves DEF m
<1>8. NormalisedFirst'
  <2>1. \A p : Script(p)' = Script(p)
    BY SameScripts
  <2>2. ASSUME NEW i \in 1..n, stack'[i].pc \in DOMAIN Script(stack'[i].pass),
               Script(stack'[i].pass)[stack'[i].pc].op \in {"build", "release"}
        PROVE  normalised'
    <3>1. CASE i # n
      BY <1>1, <1>2, <2>2, <3>1 DEF Discipline, NormalisedFirst
    <3>2. CASE i = n /\ f.pc = Top.pc
      BY <1>1, <1>2, <2>2, <3>2 DEF Discipline, NormalisedFirst
    <3>3. CASE i = n /\ f.pc = m + 1
      BY <1>1, <1>2, <2>2, <3>3
    <3>4. CASE i = n /\ f.pc = Top.pc + 1 /\ ~Ended /\ (Op.op = "normalise" => normalised')
      <4>1. /\ Top.pc + 1 \in 1..m
            /\ Script(Top.pass)[Top.pc + 1].op \in {"build", "release"}
        BY <1>1, <1>2, <2>2, <3>4
      <4>2. Top.pass \in Passes
        <5>1. CASE Top.pass = "main"
          <6>1. MainOp(Script("main"), Top.pc + 1)
            BY <4>1, <5>1, MainOps DEF m, Discipline, DriverTypeOK
          <6>2. QED
            BY <4>1, <5>1, <6>1 DEF MainOp
        <5>2. QED
          BY <1>1, <5>1 DEF Frames
      <4>3. PassOp(Script(Top.pass), Top.pass, Top.pc + 1)
        BY <4>1, <4>2, PassScript DEF m
      <4>4. (Top.pc + 1) - 1 = Top.pc
        BY <1>1
      <4>5. Op.op \in {"normalise", "build"}
        BY <1>1, <3>4, <4>1, <4>3, <4>4 DEF PassOp
      <4>6. CASE Op.op = "build"
        <5>1. n \in DOMAIN stack /\ Top.pc \in DOMAIN Script(Top.pass)
          BY <1>1, <3>4, Positions
        <5>2. normalised
          BY <1>1, <3>4, <4>6, <5>1 DEF Discipline, NormalisedFirst
        <5>3. QED
          BY <5>2
      <4>7. QED
        BY <3>4, <4>5, <4>6
    <3>5. QED
      BY <3>1, <3>2, <3>3, <3>4 DEF m
  <2>3. QED
    BY <1>3, <2>1, <2>2 DEF NormalisedFirst
<1>9. QED
  BY <1>2, <1>3, <1>7, <1>8 DEF StackDisciplined

(* Nobody holds SVF but a pass about to release it; a process with an exit  *)
(* status is at its end.                                                    *)
LEMMA NotHeld ==
  ASSUME Discipline
  PROVE  /\ svf # "none" => stack # <<>> /\ ~Ended /\ Op.op = "release" /\ svf = Top.pass
         /\ stack # <<>> /\ exit # -1 => Ended /\ Len(stack) = 1
<1>1. ASSUME stack # <<>>, exit # -1 PROVE Ended /\ Len(stack) = 1
  <2>1. /\ Len(stack) \in Nat \ {0} /\ DOMAIN stack = 1..Len(stack) /\ Top = stack[Len(stack)]
        /\ Ended <=> Top.pc = Len(Script(Top.pass)) + 1
        /\ Top.pass = "main" <=> Len(stack) = 1
    BY <1>1, TopFrame DEF Discipline
  <2>2. Len(stack) \in DOMAIN stack
    BY <2>1, Positions
  <2>3. Len(stack) = 1 /\ stack[Len(stack)].pc = Len(Script("main")) + 1
    BY <1>1, <2>2 DEF Discipline, Exiting
  <2>4. QED
    BY <2>1, <2>3
<1>2. QED
  BY <1>1 DEF Discipline, HeldByRunning, Op

LEMMA Advances ==
  ASSUME Discipline, stack # <<>>, ~Ended, flags' = flags, cache' = cache, normalised' = normalised,
         Op.op # "need" \/ Top.pass = "main" \/ Op.arg \in cache, Op.op # "normalise", Op.op # "build",
         NEW f \in Frames, stack' = [stack EXCEPT ![Len(stack)] = f], f.pass = Top.pass,
         f.pc = Top.pc + 1, svf' = svf \/ svf' = "none", Op.op = "release" => svf' = "none",
         exit' = exit, made' = made
  PROVE  Discipline'
<1>1. StackDisciplined'
  BY TopChanges
<1>2. svf' = "none"
  BY NotHeld
<1>3. exit' = -1
  BY NotHeld
<1>4. DriverTypeOK' /\ ScannedFirst' /\ HeldByRunning' /\ MadeRight' /\ Exiting'
  BY <1>2, <1>3 DEF Discipline, DriverTypeOK, ScannedFirst, HeldByRunning, MadeRight, Exiting
<1>5. QED
  BY <1>1, <1>4 DEF StackDisciplined, Discipline

Steps ==
  \/ Options \/ Open \/ Close \/ Release \/ PrintStats
  \/ Call /\ Op.arg \in cache
  \/ NoDirectory
  \/ Unless /\ stack' = Advanced
  \/ Parse /\ stack' = Advanced /\ exit' = exit
  \/ FilterLoop /\ stack' = Advanced

LEMMA PlainSteps ==
  ASSUME Discipline, flags' = flags, Steps
  PROVE  Discipline'
<1>1. stack # <<>> /\ ~Ended
  BY DEF Steps, Options, Open, Close, Release, PrintStats, Call, NoDirectory, Unless, Parse,
     FilterLoop, Op
<1>2. /\ stack \in Seq(Frames) /\ Top \in Frames /\ Top = stack[Len(stack)]
      /\ Len(stack) \in Nat \ {0} /\ DOMAIN stack = 1..Len(stack)
      /\ Advanced = [stack EXCEPT ![Len(stack)] = At(Top, Top.pc + 1, Top.open)]
  BY <1>1, MovedTop DEF Discipline
<1>3. Top.pc + 1 \in Nat \ {0} /\ Top.open \in Int /\ Top.open + 1 \in Int /\ Top.open - 1 \in Int
  BY <1>2 DEF Frames
<1>4. PICK o \in Int : stack' = [stack EXCEPT ![Len(stack)] = At(Top, Top.pc + 1, o)]
  <2>1. CASE stack' = Advanced
    BY <1>2, <1>3, <2>1
  <2>2. CASE Open \/ Close
    BY <1>1, <1>3, <2>2, MovedTop DEF Discipline, Open, Close
  <2>3. QED
    BY <2>1, <2>2 DEF Steps, Options, Release, PrintStats, Call, NoDirectory
<1> DEFINE f == At(Top, Top.pc + 1, o)
<1>5. f \in Frames /\ f.pass = Top.pass /\ f.pc = Top.pc + 1
  <2>1. Top.pass \in Passes \cup {"main"}
    BY <1>2 DEF Frames
  <2>2. QED
    BY <1>3, <1>4, <2>1 DEF At, Frames
<1>6. /\ cache' = cache /\ normalised' = normalised /\ made' = made /\ exit' = exit
      /\ Op.op \notin {"normalise", "build"}
      /\ Op.op # "need" \/ Top.pass = "main" \/ Op.arg \in cache
      /\ svf' = svf \/ svf' = "none"
      /\ Op.op = "release" => svf' = "none"
  BY DEF Steps, Options, Open, Close, Release, PrintStats, Call, NoDirectory, Unless, Parse,
     FilterLoop
<1> HIDE DEF f
<1>7. stack' = [stack EXCEPT ![Len(stack)] = f]
  BY <1>4 DEF f
<1>8. QED
  BY <1>1, <1>5, <1>6, <1>7, Advances

(* A body that is cut short.                                                *)
LEMMA CutShort ==
  ASSUME Discipline, flags' = flags,
         (Parse /\ stack' = Returning /\ exit' = 1) \/ (Unless /\ stack' = Returning)
  PROVE  Discipline'
<1>1. stack # <<>> /\ ~Ended /\ Op.op \in {"unless", "parse"}
  BY DEF Unless, Parse, Op
<1> DEFINE n == Len(stack)
           f == [Top EXCEPT !.pc = Len(Script(Top.pass)) + 1]
<1>2. /\ n \in Nat \ {0} /\ DOMAIN stack = 1..n /\ Top = stack[n] /\ Top \in Frames
      /\ Len(Script(Top.pass)) \in Nat
      /\ Top.pass = "main" <=> n = 1
  BY <1>1, TopFrame DEF Discipline
<1>3. f \in Frames /\ f.pass = Top.pass /\ f.pc = Len(Script(Top.pass)) + 1
  BY <1>2, FrameFields DEF Frames
<1>4. stack' = [stack EXCEPT ![n] = f]
  BY <1>1, MovedTop DEF Discipline
<1>5. cache' = cache /\ normalised' = normalised /\ made' = made /\ svf' = svf
  BY DEF Parse, Unless
<1> HIDE DEF f
<1>6. StackDisciplined' /\ DOMAIN stack' = 1..n /\ stack'[n] = f
  BY <1>1, <1>3, <1>4, <1>5, TopChanges
<1>7. svf' = "none" /\ exit = -1
  BY <1>1, <1>5, NotHeld
<1>8. Exiting'
  <2>1. CASE exit' = exit
    BY <1>7, <2>1 DEF Exiting
  <2>2. CASE Op.op = "parse"
    <3>1. Top.pass = "main" /\ n = 1
      BY <1>1, <1>2, <2>2, TopOp
    <3>2. Script("main")' = Script("main")
      BY SameScripts
    <3>3. \A i \in DOMAIN stack' : i = 1 /\ stack'[i].pc = Len(Script("main")) + 1
      BY <1>3, <1>6, <3>1
    <3>4. QED
      BY <3>2, <3>3 DEF Exiting
  <2>3. QED
    BY <2>1, <2>2 DEF Parse, Unless
<1>9. DriverTypeOK' /\ ScannedFirst' /\ HeldByRunning' /\ MadeRight'
  BY <1>5, <1>7 DEF Discipline, DriverTypeOK, ScannedFirst, HeldByRunning, MadeRight
<1>10. QED
  BY <1>6, <1>8, <1>9 DEF StackDisciplined, Discipline

(* Steps that change which frames there are, or none.                       *)
LEMMA PushStep ==
  ASSUME Discipline, flags' = flags, Call, Op.arg \notin cache
  PROVE  Discipline'
<1>1. stack # <<>> /\ ~Ended /\ Op.op = "need"
  BY DEF Call, Op
<1>2. StackDisciplined'
  BY <1>1, Pushed DEF Call
<1>3. /\ cache' = cache /\ normalised' = normalised /\ made' = made /\ exit' = exit
      /\ svf' = "none" /\ exit = -1
  BY <1>1, NotHeld DEF Call
<1>4. DriverTypeOK' /\ ScannedFirst' /\ HeldByRunning' /\ MadeRight' /\ Exiting'
  BY <1>3 DEF Discipline, DriverTypeOK, ScannedFirst, HeldByRunning, MadeRight, Exiting
<1>5. QED
  BY <1>2, <1>4 DEF Discipline, StackDisciplined

LEMMA ScanStep ==
  ASSUME Discipline, flags' = flags, Scan
  PROVE  Discipline'
<1>1. stack # <<>> /\ ~Ended /\ Op.op = "scan"
  BY DEF Scan, Op
<1> DEFINE f == At(Top, Top.pc + 1, Top.open)
<1>2. /\ stack' = [stack EXCEPT ![Len(stack)] = f] /\ f \in Frames
      /\ f.pass = Top.pass /\ f.pc = Top.pc + 1 /\ Top = stack[Len(stack)]
      /\ Len(stack) \in Nat \ {0} /\ DOMAIN stack = 1..Len(stack)
      /\ Top.pass = "main" <=> Len(stack) = 1
  <2>1. /\ Top \in Frames /\ Top = stack[Len(stack)] /\ stack' = [stack EXCEPT ![Len(stack)] = f]
        /\ Len(stack) \in Nat \ {0} /\ DOMAIN stack = 1..Len(stack)
    BY <1>1, MovedTop DEF Discipline, Scan
  <2>2. Top.pc + 1 \in Nat \ {0} /\ Top.open \in Int /\ Top.pass \in Passes \cup {"main"}
    BY <2>1 DEF Frames
  <2>3. f \in Frames /\ f.pass = Top.pass /\ f.pc = Top.pc + 1
    BY <2>2 DEF At, Frames
  <2>4. Top.pass = "main" <=> Len(stack) = 1
    BY <1>1, TopFrame DEF Discipline
  <2>5. QED
    BY <2>1, <2>3, <2>4
<1> HIDE DEF f
<1>3. /\ cache' = cache /\ normalised' = normalised /\ svf' = svf /\ exit' = exit
      /\ made' = [made EXCEPT ![Top.pass] = Version]
  BY DEF Scan
<1>4. StackDisciplined'
  BY <1>1, <1>2, <1>3, TopChanges
<1>5. svf' = "none" /\ exit' = -1
  BY <1>1, <1>3, NotHeld
<1>6. Top.pass = "AnchorPass"
  BY <1>1, TopOp
<1>7. ~normalised
  <2>1. Len(stack) \in DOMAIN stack \ {1}
    BY <1>2, <1>6, Positions
  <2>2. Top.pass \notin cache
    BY <1>2, <2>1 DEF Discipline, CalledForAResult
  <2>3. flags # {}
    BY <1>2, <1>6, <2>1 DEF Discipline, ModesApart
  <2>4. QED
    BY <1>6, <2>2, <2>3 DEF Discipline, ScannedFirst
<1>8. DriverTypeOK' /\ MadeRight'
  BY <1>3, <1>6, <1>7 DEF Discipline, DriverTypeOK, MadeRight, Version, Passes
<1>9. ScannedFirst' /\ HeldByRunning' /\ Exiting'
  BY <1>3, <1>5 DEF Discipline, ScannedFirst, HeldByRunning, Exiting
<1>10. QED
  BY <1>4, <1>8, <1>9 DEF StackDisciplined, Discipline

LEMMA NormaliseStep ==
  ASSUME Discipline, flags' = flags, Normalise
  PROVE  Discipline'
<1>1. stack # <<>> /\ ~Ended /\ Op.op = "normalise"
  BY DEF Normalise, Op
<1> DEFINE f == At(Top, Top.pc + 1, Top.open)
<1>2. /\ stack' = [stack EXCEPT ![Len(stack)] = f] /\ f \in Frames
      /\ f.pass = Top.pass /\ f.pc = Top.pc + 1
  <2>1. Top \in Frames /\ stack' = [stack EXCEPT ![Len(stack)] = f]
    BY <1>1, MovedTop DEF Discipline, Normalise
  <2>2. Top.pc + 1 \in Nat \ {0} /\ Top.open \in Int /\ Top.pass \in Passes \cup {"main"}
    BY <2>1 DEF Frames
  <2>3. QED
    BY <2>1, <2>2 DEF At, Frames
<1> HIDE DEF f
<1>3. /\ cache' = cache /\ normalised' = TRUE /\ svf' = svf /\ exit' = exit /\ made' = made
  BY DEF Normalise
<1>4. StackDisciplined'
  BY <1>1, <1>2, <1>3, TopChanges
<1>5. svf' = "none" /\ exit' = -1
  BY <1>1, <1>3, NotHeld
<1>6. ScannedFirst'
  BY <1>1, <1>3, TopOp DEF ScannedFirst
<1>7. DriverTypeOK' /\ MadeRight' /\ HeldByRunning' /\ Exiting'
  BY <1>3, <1>5 DEF Discipline, DriverTypeOK, MadeRight, HeldByRunning, Exiting
<1>8. QED
  BY <1>4, <1>6, <1>7 DEF StackDisciplined, Discipline

LEMMA BuildStep ==
  ASSUME Discipline, flags' = flags, Build
  PROVE  Discipline'
<1>1. stack # <<>> /\ ~Ended /\ Op.op = "build"
  BY DEF Build, Op
<1> DEFINE f == At(Top, Top.pc + 1, Top.open)
<1>2. /\ stack' = [stack EXCEPT ![Len(stack)] = f] /\ f \in Frames
      /\ f.pass = Top.pass /\ f.pc = Top.pc + 1 /\ Top = stack[Len(stack)]
      /\ Len(stack) \in DOMAIN stack
  <2>1. /\ Top \in Frames /\ stack' = [stack EXCEPT ![Len(stack)] = f] /\ Top = stack[Len(stack)]
        /\ Len(stack) \in Nat \ {0} /\ DOMAIN stack = 1..Len(stack)
    BY <1>1, MovedTop DEF Discipline, Build
  <2>2. Top.pc + 1 \in Nat \ {0} /\ Top.open \in Int /\ Top.pass \in Passes \cup {"main"}
    BY <2>1 DEF Frames
  <2>3. f \in Frames /\ f.pass = Top.pass /\ f.pc = Top.pc + 1
    BY <2>2 DEF At, Frames
  <2>4. QED
    BY <2>1, <2>3, Positions
<1> HIDE DEF f
<1>3. /\ cache' = cache /\ normalised' = normalised /\ svf' = Top.pass /\ exit' = exit
      /\ made' = [made EXCEPT ![Top.pass] = Version]
  BY DEF Build
<1>4. StackDisciplined' /\ stack' # <<>> /\ Top' = f
  BY <1>1, <1>2, <1>3, TopChanges
<1>5. exit' = -1
  BY <1>1, <1>3, NotHeld
<1>6. /\ Top.pass \in Passes /\ Top.pass # "AnchorPass"
      /\ Top.pc + 1 \in DOMAIN Script(Top.pass)
      /\ Script(Top.pass)[Top.pc + 1].op = "release"
      /\ Top.pc \in DOMAIN Script(Top.pass) /\ Op = Script(Top.pass)[Top.pc]
      /\ DOMAIN Script(Top.pass) = 1..Len(Script(Top.pass)) /\ Len(Script(Top.pass)) \in Nat
  BY <1>1, TopOp, TopFrame DEF Discipline
<1>7. normalised
  BY <1>1, <1>2, <1>6 DEF Discipline, NormalisedFirst
<1>8. HeldByRunning'
  <2>1. Script(Top.pass)' = Script(f.pass)
    BY <1>2, <1>4, SameScripts
  <2>2. ~(f.pc > Len(Script(f.pass)))
    BY <1>2, <1>6
  <2>3. Op' = Script(Top.pass)[Top.pc + 1]
    BY <1>2, <1>4, <2>1, <2>2 DEF Op, Ended
  <2>4. QED
    BY <1>2, <1>3, <1>4, <1>6, <2>3 DEF HeldByRunning
<1>9. DriverTypeOK' /\ MadeRight'
  BY <1>3, <1>6, <1>7 DEF Discipline, DriverTypeOK, MadeRight, Version
<1>10. ScannedFirst' /\ Exiting'
  BY <1>3, <1>5 DEF Discipline, ScannedFirst, Exiting
<1>11. QED
  BY <1>4, <1>8, <1>9, <1>10 DEF StackDisciplined, Discipline

LEMMA UnwindStep ==
  ASSUME Discipline, flags' = flags, Unwind
  PROVE  Discipline'
<1>1. stack # <<>> /\ Ended
  BY DEF Unwind
<1> DEFINE f == At(Top, Top.pc, Top.open - 1)
<1>2. /\ stack' = [stack EXCEPT ![Len(stack)] = f] /\ f \in Frames
      /\ f.pass = Top.pass /\ f.pc = Top.pc /\ Top = stack[Len(stack)]
      /\ Len(stack) \in DOMAIN stack /\ DOMAIN stack = 1..Len(stack)
  <2>1. /\ Top \in Frames /\ stack' = [stack EXCEPT ![Len(stack)] = f] /\ Top = stack[Len(stack)]
        /\ Len(stack) \in Nat \ {0} /\ DOMAIN stack = 1..Len(stack)
    BY <1>1, MovedTop DEF Discipline, Unwind
  <2>2. Top.pc \in Nat \ {0} /\ Top.open - 1 \in Int /\ Top.pass \in Passes \cup {"main"}
    BY <2>1 DEF Frames
  <2>3. f \in Frames /\ f.pass = Top.pass /\ f.pc = Top.pc
    BY <2>2 DEF At, Frames
  <2>4. QED
    BY <2>1, <2>3, Positions
<1> HIDE DEF f
<1>3. /\ cache' = cache /\ normalised' = normalised /\ svf' = svf /\ exit' = exit /\ made' = made
  BY DEF Unwind
<1>4. /\ StackDisciplined' /\ DOMAIN stack' = 1..Len(stack) /\ stack'[Len(stack)] = f
      /\ \A i \in 1..Len(stack) : i # Len(stack) => stack'[i] = stack[i]
  BY <1>1, <1>2, <1>3, TopChanges
<1>5. svf' = "none"
  BY <1>1, <1>3, NotHeld
<1>6. Exiting'
  <2>1. Script("main")' = Script("main")
    BY SameScripts
  <2>2. \A i \in 1..Len(stack) : stack'[i].pc = stack[i].pc
    BY <1>2, <1>4
  <2>3. QED
    BY <1>2, <1>3, <1>4, <2>1, <2>2 DEF Discipline, Exiting
<1>7. DriverTypeOK' /\ ScannedFirst' /\ HeldByRunning' /\ MadeRight'
  BY <1>3, <1>5 DEF Discipline, DriverTypeOK, ScannedFirst, HeldByRunning, MadeRight
<1>8. QED
  BY <1>4, <1>6, <1>7 DEF StackDisciplined, Discipline

LEMMA LeaveStep ==
  ASSUME Discipline, flags' = flags, Leave
  PROVE  Discipline'
<1>1. stack # <<>> /\ Ended
  BY DEF Leave
<1>2. /\ Len(stack) \in Nat \ {0} /\ Top \in Frames
      /\ Top.pass = "main" <=> Len(stack) = 1
  BY <1>1, TopFrame DEF Discipline
<1>3. /\ normalised' = normalised /\ svf' = svf /\ made' = made
      /\ cache' = IF Top.pass = "main" THEN cache ELSE cache \cup {Top.pass}
      /\ exit' = IF Top.pass = "main" /\ exit = -1 THEN 0 ELSE exit
  BY DEF Leave
<1>4. StackDisciplined' /\ Len(stack') = Len(stack) - 1
  BY <1>1, <1>3, Popped DEF Leave
<1>5. svf' = "none"
  BY <1>1, <1>3, NotHeld
<1>6. Exiting'
  <2>1. CASE Len(stack) = 1
    <3>1. Len(stack') = 0 /\ stack' \in Seq(Frames)
      BY <1>4, <2>1 DEF StackDisciplined, StackOK
    <3>2. DOMAIN stack' = {}
      BY <3>1
    <3>3. QED
      BY <3>2 DEF Exiting
  <2>2. CASE Len(stack) # 1
    <3>1. exit' = -1
      BY <1>1, <1>2, <1>3, <2>2, NotHeld
    <3>2. QED
      BY <3>1 DEF Exiting
  <2>3. QED
    BY <2>1, <2>2
<1>7. cache \subseteq cache' /\ cache' \subseteq Passes
  BY <1>2, <1>3 DEF Discipline, DriverTypeOK, Frames
<1>8. DriverTypeOK' /\ ScannedFirst' /\ HeldByRunning' /\ MadeRight'
  BY <1>3, <1>5, <1>7 DEF Discipline, DriverTypeOK, ScannedFirst, HeldByRunning, MadeRight
<1>9. QED
  BY <1>4, <1>6, <1>8 DEF StackDisciplined, Discipline

LEMMA NoStep ==
  ASSUME Discipline, UNCHANGED <<flags, stack, cache, normalised, svf, made, exit>>
  PROVE  Discipline'
<1>1. \A p : Script(p)' = Script(p)
  BY SameScripts
<1>2. DriverTypeOK' /\ ScannedFirst' /\ MadeRight' /\ ModesApart'
  BY DEF Discipline, DriverTypeOK, ScannedFirst, MadeRight, ModesApart
<1>3. StackOK' /\ Exiting'
  BY <1>1 DEF Discipline, StackOK, Exiting
<1>4. CalledForAResult'
  BY <1>1 DEF Discipline, CalledForAResult, Level, Need, Do
<1>5. NeedsMet'
  BY <1>1 DEF Discipline, NeedsMet, Got
<1>6. NormalisedFirst'
  BY <1>1 DEF Discipline, NormalisedFirst
<1>7. HeldByRunning'
  <2>1. Top' = Top
    BY DEF Top
  <2>2. Ended' = Ended /\ Op' = Op
    BY <1>1, <2>1 DEF Ended, Op
  <2>3. QED
    BY <2>1, <2>2 DEF Discipline, HeldByRunning
<1>8. QED
  BY <1>2, <1>3, <1>4, <1>5, <1>6, <1>7 DEF Discipline

LEMMA DisciplineInit == DriverInit => Discipline
<1> SUFFICES ASSUME DriverInit PROVE Discipline
  OBVIOUS
<1>1. /\ stack = <<Frame("main")>> /\ cache = {} /\ normalised = FALSE /\ svf = "none"
      /\ made = [p \in Passes |-> "nothing"] /\ exit = -1
  BY DEF DriverInit
<1>2. DriverTypeOK
  BY <1>1, CasesAssumption DEF DriverInit, DriverTypeOK
<1>3. /\ stack \in Seq(Frames) /\ DOMAIN stack = {1} /\ stack[1] = Frame("main")
      /\ Frame("main").pass = "main" /\ Frame("main").pc = 1
  BY <1>1 DEF Frame, Frames
<1>4. Len(Script("main")) \in 7..12
  BY <1>2, MainOps DEF DriverTypeOK
<1>5. \A n \in 7..12 : 1 <= n + 1
  OBVIOUS
<1>6. StackOK
  BY <1>3, <1>4, <1>5 DEF StackOK
<1>7. CalledForAResult /\ ModesApart /\ ScannedFirst /\ HeldByRunning /\ MadeRight /\ Exiting
  BY <1>1, <1>3 DEF CalledForAResult, ModesApart, ScannedFirst, HeldByRunning, MadeRight, Exiting,
     Passes
<1>8. NeedsMet
  BY <1>1, <1>3 DEF NeedsMet
<1>9. NormalisedFirst
  <2>1. "main" \in Passes \cup {"main"}
    OBVIOUS
  <2>2. ~(1 < 1)
    OBVIOUS
  <2>3. QED
    BY <1>2, <1>3, <2>1, <2>2, WorkIsOrdered DEF NormalisedFirst
<1>10. QED
  BY <1>2, <1>6, <1>7, <1>8, <1>9 DEF Discipline

LEMMA DisciplineStep == Discipline /\ [DriverNext]_driverVars => Discipline'
<1> SUFFICES ASSUME Discipline, [DriverNext]_driverVars PROVE Discipline'
  OBVIOUS
<1>1. flags' = flags
  BY DEF DriverNext, driverVars
<1>2. CASE UNCHANGED driverVars
  BY <1>2, NoStep DEF driverVars
<1>3. CASE Options \/ Open \/ Close \/ Release \/ PrintStats
  BY <1>1, <1>3, PlainSteps DEF Steps
<1>4. CASE Call \/ NoDirectory
  BY <1>1, <1>4, PlainSteps, PushStep DEF Steps
<1>5. CASE Unless
  BY <1>1, <1>5, PlainSteps, CutShort DEF Steps, Unless
<1>6. CASE Parse
  BY <1>1, <1>6, PlainSteps, CutShort DEF Steps, Parse
<1>7. CASE FilterLoop
  <2>1. CASE stack' = Advanced
    BY <1>1, <1>7, <2>1, PlainSteps DEF Steps
  <2>2. CASE stack' = stack
    BY <1>1, <1>7, <2>2, NoStep DEF FilterLoop
  <2>3. QED
    BY <1>7, <2>1, <2>2 DEF FilterLoop
<1>8. CASE Scan \/ Normalise \/ Build \/ Unwind \/ Leave
  BY <1>1, <1>8, ScanStep, NormaliseStep, BuildStep, UnwindStep, LeaveStep
<1>9. QED
  BY <1>2, <1>3, <1>4, <1>5, <1>6, <1>7, <1>8 DEF DriverNext

(* In every mode, for every unit, passes run one inside the other, each     *)
(* because its results are asked for and missing; so an anchor scan comes   *)
(* before any rewriting, and SVF is built on the rewritten module and given *)
(* back before another pass runs.                                           *)
THEOREM PassesDisciplined == DriverSpec => []Discipline
  BY DisciplineInit, DisciplineStep, PTL DEF DriverSpec

(* Every mode runs its passes so that they agree on the module, on who      *)
(* holds SVF, and on which objects are shared.                              *)
THEOREM Agreement == DriverSpec => []PassesAgree
<1>1. Discipline => PassesAgree
  <2> SUFFICES ASSUME Discipline PROVE PassesAgree
    OBVIOUS
  <2>1. svf # "none" => stack # <<>> /\ Top.pass = svf
    BY NotHeld
  <2>2. exit # -1 => svf = "none"
    BY NotHeld
  <2>3. ASSUME NEW p \in Passes \ {"AnchorPass"}, NEW q \in Passes \ {"AnchorPass"},
               made[p] # "nothing", made[q] # "nothing"
        PROVE  /\ Shared(p).heap = Shared(q).heap
               /\ q = "FunctionPairsPass" => Shared(p).globals \subseteq Shared(q).globals
    <3>1. made[p] = "normalised" /\ made[q] = "normalised"
      BY <2>3 DEF Discipline, MadeRight
    <3>2. Shared(p).heap = unit.heap /\ Shared(q).heap = unit.heap
      BY <3>1 DEF Shared, SharedIn, HeapObjects
    <3>3. OneLevel \subseteq AnyLevel
      <4>1. <<>> \in Seq({"expr", "aggregate"}) /\ <<"expr">> \in Seq({"expr", "aggregate"})
        OBVIOUS
      <4>2. QED
        BY <4>1 DEF OneLevel, AnyLevel
    <3>4. \A r : Shared(r).globals
                   = UsedIn(unit, IF r = "FunctionPairsPass" THEN AnyLevel ELSE OneLevel)
      BY DEF Shared, SharedIn, UsedGlobals
    <3>5. \A C, D : C \subseteq D => UsedIn(unit, C) \subseteq UsedIn(unit, D)
      BY DEF UsedIn
    <3>6. q = "FunctionPairsPass" => Shared(p).globals \subseteq Shared(q).globals
      BY <3>3, <3>4, <3>5
    <3>7. QED
      BY <3>2, <3>6
  <2>4. \A p \in Passes \ {"AnchorPass"} : made[p] \in {"nothing", Version}
    BY DEF Discipline, MadeRight, Version
  <2>5. QED
    BY <2>1, <2>2, <2>3, <2>4 DEF PassesAgree, Discipline, MadeRight
<1>2. QED
  BY <1>1, PassesDisciplined, PTL

----------------------------------------------------------------------------
(* Sums over finite sets.  SumFunctionOnSet is a fold: a recursive function *)
(* on the subsets of the set, chosen by CHOOSE, that takes the elements in  *)
(* the order in which CHOOSE picks them.                                    *)
Picked(s) == CHOOSE x \in s : TRUE
SumBody(g, f, s) == IF s = {} THEN 0 ELSE f[Picked(s)] + g[s \ {Picked(s)}]
IsSum(g, f, S) == g = [s \in SUBSET S |-> SumBody(g, f, s)]
Sums(f, S) == CHOOSE g : IsSum(g, f, S)

LEMMA SumUnfold ==
  ASSUME NEW f, NEW S
  PROVE  SumFunctionOnSet(f, S) = Sums(f, S)[S]
  BY DEF SumFunctionOnSet, FoldFunctionOnSet, MapThenFoldSet, Sums, IsSum, SumBody, Picked

LEMMA PickedIn == ASSUME NEW s, s # {} PROVE Picked(s) \in s
  BY DEF Picked

(* A family of finite sets that is not empty has a smallest one.            *)
LEMMA LeastSet ==
  ASSUME NEW S, IsFiniteSet(S), NEW C \in SUBSET (SUBSET S), C # {}
  PROVE  \E T \in C : \A U \in C : ~ (U \subseteq T /\ U # T)
<1> DEFINE R == StrictSubsetOrdering(S)
<1>1. FiniteSubsetsOf(S) = SUBSET S
  BY FS_FiniteSubsetsOfFinite
<1>2. IsWellFoundedOn(R, SUBSET S)
  BY <1>1, FS_StrictSubsetOrderingWellFounded
<1>3. \A U, T \in SUBSET S : U \subseteq T /\ U # T => <<U, T>> \in R
  BY DEF StrictSubsetOrdering
<1> HIDE DEF R
<1>4. PICK T \in C : \A U \in C : ~ (<<U, T>> \in R)
  BY <1>2, WFMin
<1>5. QED
  BY <1>3, <1>4

(* Two such functions agree on the sets where both are defined.             *)
LEMMA SumUnique ==
  ASSUME NEW f, NEW S, NEW V, IsFiniteSet(S), S \subseteq V,
         NEW g, IsSum(g, f, S), NEW h, IsSum(h, f, V)
  PROVE  \A s \in SUBSET S : g[s] = h[s]
<1> DEFINE C == {s \in SUBSET S : g[s] # h[s]}
<1> SUFFICES ASSUME C # {} PROVE FALSE
  OBVIOUS
<1>1. PICK T \in C : \A U \in C : ~ (U \subseteq T /\ U # T)
  <2>1. C \in SUBSET (SUBSET S)
    OBVIOUS
  <2> HIDE DEF C
  <2>2. QED
    BY <2>1, LeastSet
<1>2. g[T] = SumBody(g, f, T) /\ h[T] = SumBody(h, f, T)
  BY <1>1 DEF IsSum
<1>3. T # {}
  BY <1>1, <1>2 DEF SumBody
<1>4. Picked(T) \in T
  BY <1>3, PickedIn
<1>5. g[T \ {Picked(T)}] = h[T \ {Picked(T)}]
  <2>1. T \ {Picked(T)} \in SUBSET S /\ T \ {Picked(T)} \notin C
    BY <1>1, <1>4
  <2>2. QED
    BY <2>1
<1>6. g[T] = h[T]
  BY <1>2, <1>3, <1>5 DEF SumBody
<1>7. QED
  BY <1>1, <1>6

LEMMA SumExists ==
  ASSUME NEW f, NEW S, IsFiniteSet(S)
  PROVE  \E g : IsSum(g, f, S)
<1> DEFINE C == {s \in SUBSET S : ~ \E g : IsSum(g, f, s)}
<1> SUFFICES ASSUME C # {} PROVE FALSE
  OBVIOUS
<1>1. PICK T \in C : \A U \in C : ~ (U \subseteq T /\ U # T)
  <2>1. C \in SUBSET (SUBSET S)
    OBVIOUS
  <2> HIDE DEF C
  <2>2. QED
    BY <2>1, LeastSet
<1> DEFINE Smaller == {U \in SUBSET T : U # T}
           E(U) == Sums(f, U)
           g == [s \in SUBSET T |-> SumBody(E(s \ {Picked(s)}), f, s)]
<1>2. \A U \in Smaller : IsSum(E(U), f, U)
  <2> TAKE U \in Smaller
  <2>1. \E e : IsSum(e, f, U)
    BY <1>1
  <2>2. QED
    BY <2>1 DEF Sums
<1>3. \A s \in SUBSET T : s # {} => s \ {Picked(s)} \in Smaller /\ Picked(s) \in s
  BY PickedIn
<1>4. \A U \in Smaller : g[U] = E(U)[U]
  <2> TAKE U \in Smaller
  <2>1. g[U] = SumBody(E(U \ {Picked(U)}), f, U)
    OBVIOUS
  <2>2. E(U)[U] = SumBody(E(U), f, U)
    BY <1>2 DEF IsSum
  <2>3. CASE U = {}
    BY <2>1, <2>2, <2>3 DEF SumBody
  <2>4. CASE U # {}
    <3> DEFINE W == U \ {Picked(U)}
    <3>1. W \in Smaller /\ W \in SUBSET U
      BY <1>3, <2>4
    <3>2. IsFiniteSet(W) /\ IsSum(E(W), f, W) /\ IsSum(E(U), f, U)
      <4>1. W \in SUBSET S
        BY <1>1, <3>1
      <4>2. QED
        BY <1>2, <3>1, <4>1, FS_Subset
    <3> HIDE DEF E
    <3>3. E(W)[W] = E(U)[W]
      BY <3>1, <3>2, SumUnique
    <3>4. QED
      BY <2>1, <2>2, <2>4, <3>3 DEF SumBody
  <2>5. QED
    BY <2>3, <2>4
<1>5. \A s \in SUBSET T : g[s] = SumBody(g, f, s)
  <2> TAKE s \in SUBSET T
  <2>1. CASE s = {}
    BY <2>1 DEF SumBody
  <2>2. CASE s # {}
    <3>1. g[s \ {Picked(s)}] = E(s \ {Picked(s)})[s \ {Picked(s)}]
      BY <1>3, <1>4, <2>2
    <3>2. g[s] = SumBody(E(s \ {Picked(s)}), f, s)
      OBVIOUS
    <3> HIDE DEF g, E
    <3>3. QED
      BY <2>2, <3>1, <3>2 DEF SumBody
  <2>3. QED
    BY <2>1, <2>2
<1>6. IsSum(g, f, T)
  <2>1. g = [s \in SUBSET T |-> g[s]]
    OBVIOUS
  <2> HIDE DEF g
  <2>2. QED
    BY <1>5, <2>1 DEF IsSum
<1>7. QED
  BY <1>1, <1>6

LEMMA SumFacts ==
  ASSUME NEW f, NEW S, IsFiniteSet(S)
  PROVE  /\ \A s \in SUBSET S : Sums(f, S)[s] = SumFunctionOnSet(f, s)
         /\ S = {} => SumFunctionOnSet(f, S) = 0
         /\ S # {} => /\ Picked(S) \in S
                      /\ SumFunctionOnSet(f, S)
                           = f[Picked(S)] + SumFunctionOnSet(f, S \ {Picked(S)})
<1>1. \A s \in SUBSET S : IsFiniteSet(s) /\ IsSum(Sums(f, s), f, s)
  <2> TAKE s \in SUBSET S
  <2>1. IsFiniteSet(s)
    BY FS_Subset
  <2>2. \E g : IsSum(g, f, s)
    BY <2>1, SumExists
  <2>3. QED
    BY <2>1, <2>2 DEF Sums
<1>2. \A s \in SUBSET S : Sums(f, S)[s] = SumFunctionOnSet(f, s)
  <2> TAKE s \in SUBSET S
  <2>1. IsFiniteSet(s) /\ IsSum(Sums(f, s), f, s) /\ IsSum(Sums(f, S), f, S)
    BY <1>1
  <2>2. Sums(f, s)[s] = Sums(f, S)[s]
    BY <2>1, SumUnique
  <2>3. QED
    BY <2>2, SumUnfold
<1>3. Sums(f, S)[S] = SumBody(Sums(f, S), f, S)
  BY <1>1 DEF IsSum
<1>4. S # {} => Picked(S) \in S
  BY PickedIn
<1>5. QED
  BY <1>2, <1>3, <1>4 DEF SumBody

(* The sum of integers is an integer and depends on the values only.        *)
LEMMA SumType ==
  ASSUME NEW S, IsFiniteSet(S), NEW f, \A x \in S : f[x] \in Int
  PROVE  SumFunctionOnSet(f, S) \in Int
<1> DEFINE C == {s \in SUBSET S : SumFunctionOnSet(f, s) \notin Int}
<1> SUFFICES ASSUME C # {} PROVE FALSE
  OBVIOUS
<1>1. PICK T \in C : \A U \in C : ~ (U \subseteq T /\ U # T)
  <2>1. C \in SUBSET (SUBSET S)
    OBVIOUS
  <2> HIDE DEF C
  <2>2. QED
    BY <2>1, LeastSet
<1>2. T \in SUBSET S /\ IsFiniteSet(T)
  BY <1>1, FS_Subset
<1>3. T # {} => Picked(T) \in T /\ SumFunctionOnSet(f, T \ {Picked(T)}) \in Int
  <2> SUFFICES ASSUME T # {}
               PROVE  Picked(T) \in T /\ SumFunctionOnSet(f, T \ {Picked(T)}) \in Int
    OBVIOUS
  <2>1. Picked(T) \in T
    BY PickedIn
  <2>2. T \ {Picked(T)} \in SUBSET S /\ T \ {Picked(T)} \notin C
    BY <1>1, <1>2, <2>1
  <2>3. QED
    BY <2>1, <2>2
<1>4. SumFunctionOnSet(f, T) \in Int
  <2>1. CASE T = {}
    <3>1. SumFunctionOnSet(f, T) = 0
      BY <1>2, <2>1, SumFacts
    <3>2. QED
      BY <3>1
  <2>2. CASE T # {}
    <3>1. SumFunctionOnSet(f, T) = f[Picked(T)] + SumFunctionOnSet(f, T \ {Picked(T)})
      BY <1>2, <2>2, SumFacts
    <3>2. f[Picked(T)] \in Int
      BY <1>2, <1>3, <2>2
    <3>3. QED
      BY <1>3, <2>2, <3>1, <3>2
  <2>3. QED
    BY <2>1, <2>2
<1>5. QED
  BY <1>1, <1>4

LEMMA SumSame ==
  ASSUME NEW S, IsFiniteSet(S), NEW f, NEW g, \A x \in S : f[x] = g[x]
  PROVE  SumFunctionOnSet(f, S) = SumFunctionOnSet(g, S)
<1> DEFINE C == {s \in SUBSET S : SumFunctionOnSet(f, s) # SumFunctionOnSet(g, s)}
<1> SUFFICES ASSUME C # {} PROVE FALSE
  OBVIOUS
<1>1. PICK T \in C : \A U \in C : ~ (U \subseteq T /\ U # T)
  <2>1. C \in SUBSET (SUBSET S)
    OBVIOUS
  <2> HIDE DEF C
  <2>2. QED
    BY <2>1, LeastSet
<1>2. T \in SUBSET S /\ IsFiniteSet(T)
  BY <1>1, FS_Subset
<1>3. T # {} => /\ Picked(T) \in T
                /\ SumFunctionOnSet(f, T \ {Picked(T)}) = SumFunctionOnSet(g, T \ {Picked(T)})
  <2> SUFFICES ASSUME T # {}
               PROVE  /\ Picked(T) \in T
                      /\ SumFunctionOnSet(f, T \ {Picked(T)})
                           = SumFunctionOnSet(g, T \ {Picked(T)})
    OBVIOUS
  <2>1. Picked(T) \in T
    BY PickedIn
  <2>2. T \ {Picked(T)} \in SUBSET S /\ T \ {Picked(T)} \notin C
    BY <1>1, <1>2, <2>1
  <2>3. QED
    BY <2>1, <2>2
<1>4. SumFunctionOnSet(f, T) = SumFunctionOnSet(g, T)
  BY <1>2, <1>3, SumFacts
<1>5. QED
  BY <1>1, <1>4

(* Any element may be taken first.                                          *)
LEMMA SumTake ==
  ASSUME NEW S, IsFiniteSet(S), NEW f, \A x \in S : f[x] \in Int
  PROVE  \A x \in S : SumFunctionOnSet(f, S) = f[x] + SumFunctionOnSet(f, S \ {x})
<1> DEFINE Sum(s) == SumFunctionOnSet(f, s)
           C == {s \in SUBSET S : ~ \A x \in s : Sum(s) = f[x] + Sum(s \ {x})}
<1> SUFFICES ASSUME C # {} PROVE FALSE
  OBVIOUS
<1>1. PICK T \in C : \A U \in C : ~ (U \subseteq T /\ U # T)
  <2>1. C \in SUBSET (SUBSET S)
    OBVIOUS
  <2> HIDE DEF C
  <2>2. QED
    BY <2>1, LeastSet
<1>2. PICK x \in T : Sum(T) # f[x] + Sum(T \ {x})
  BY <1>1
<1> DEFINE y == Picked(T)
<1>3. \A s \in SUBSET S : IsFiniteSet(s) /\ Sum(s) \in Int
  BY FS_Subset, SumType
<1>4. y \in T /\ Sum(T) = f[y] + Sum(T \ {y})
  BY <1>2, <1>3, SumFacts
<1> HIDE DEF Sum, y
<1>5. x # y
  BY <1>2, <1>4
<1>6. /\ T \ {x} \in SUBSET S /\ T \ {x} \notin C
      /\ T \ {y} \in SUBSET S /\ T \ {y} \notin C
  BY <1>1, <1>2, <1>4
<1>7. /\ Sum(T \ {y}) = f[x] + Sum((T \ {y}) \ {x})
      /\ Sum(T \ {x}) = f[y] + Sum((T \ {x}) \ {y})
  BY <1>2, <1>4, <1>5, <1>6
<1>8. (T \ {y}) \ {x} = (T \ {x}) \ {y} /\ (T \ {x}) \ {y} \in SUBSET S
  BY <1>1
<1>9. f[x] \in Int /\ f[y] \in Int /\ Sum((T \ {x}) \ {y}) \in Int
  BY <1>1, <1>2, <1>3, <1>4, <1>8
<1>10. \A a, b, c \in Int : a + (b + c) = b + (a + c)
  OBVIOUS
<1>11. Sum(T) = f[y] + (f[x] + Sum((T \ {x}) \ {y}))
  BY <1>4, <1>7, <1>8
<1>12. f[x] + Sum(T \ {x}) = f[x] + (f[y] + Sum((T \ {x}) \ {y}))
  BY <1>7
<1>13. QED
  BY <1>2, <1>9, <1>10, <1>11, <1>12

(* One value changes.                                                       *)
LEMMA SumUpdate ==
  ASSUME NEW S, IsFiniteSet(S), NEW f, NEW g, NEW x \in S,
         \A y \in S : f[y] \in Int, \A y \in S : g[y] \in Int,
         \A y \in S \ {x} : g[y] = f[y]
  PROVE  SumFunctionOnSet(g, S) = SumFunctionOnSet(f, S) + (g[x] - f[x])
<1>1. IsFiniteSet(S \ {x})
  BY FS_RemoveElement
<1>2. SumFunctionOnSet(f, S \ {x}) = SumFunctionOnSet(g, S \ {x})
  BY <1>1, SumSame
<1>3. SumFunctionOnSet(f, S \ {x}) \in Int
  BY <1>1, SumType
<1>4. /\ SumFunctionOnSet(f, S) = f[x] + SumFunctionOnSet(f, S \ {x})
      /\ SumFunctionOnSet(g, S) = g[x] + SumFunctionOnSet(g, S \ {x})
  BY SumTake
<1>5. QED
  BY <1>2, <1>3, <1>4

LEMMA SumZero ==
  ASSUME NEW S, IsFiniteSet(S), NEW f, \A x \in S : f[x] = 0
  PROVE  SumFunctionOnSet(f, S) = 0
<1> DEFINE C == {s \in SUBSET S : SumFunctionOnSet(f, s) # 0}
<1> SUFFICES ASSUME C # {} PROVE FALSE
  OBVIOUS
<1>1. PICK T \in C : \A U \in C : ~ (U \subseteq T /\ U # T)
  <2>1. C \in SUBSET (SUBSET S)
    OBVIOUS
  <2> HIDE DEF C
  <2>2. QED
    BY <2>1, LeastSet
<1>2. T \in SUBSET S /\ IsFiniteSet(T)
  BY <1>1, FS_Subset
<1>3. T # {}
  BY <1>1, <1>2, SumFacts
<1>4. Picked(T) \in T
  BY <1>3, PickedIn
<1>5. T \ {Picked(T)} \in SUBSET S /\ T \ {Picked(T)} \notin C
  BY <1>1, <1>2, <1>4
<1>6. SumFunctionOnSet(f, T) = f[Picked(T)] + 0
  BY <1>2, <1>3, <1>5, SumFacts
<1>7. QED
  BY <1>1, <1>2, <1>4, <1>6

----------------------------------------------------------------------------
(* The clock.  What the scope at i of s would keep at time t, and all of    *)
(* them together.                                                           *)
KeptAt(s, t, i) ==
  IF i < Len(s) THEN s[i + 1].start - s[i].start - s[i].child ELSE t - s[i].start - s[i].child
KeptBy(s, t) == [i \in 1..Len(s) |-> KeptAt(s, t, i)]
AllKept(s, t) == SumFunctionOnSet(KeptBy(s, t), 1..Len(s))

LEMMA KeptIsInt ==
  ASSUME NEW s \in Seq(ScopeRecords), NEW t \in Int
  PROVE  /\ Len(s) \in Nat /\ DOMAIN s = 1..Len(s) /\ IsFiniteSet(1..Len(s))
         /\ \A i \in 1..Len(s) :
              /\ s[i] \in ScopeRecords /\ s[i].start \in Int /\ s[i].child \in Int /\ s[i].phase \in Phases
              /\ KeptAt(s, t, i) \in Int /\ KeptBy(s, t)[i] = KeptAt(s, t, i)
              /\ (t - s[i].start) - s[i].child - (IF i < Len(s) THEN t - s[i + 1].start ELSE 0)
                   = KeptAt(s, t, i)
         /\ AllKept(s, t) \in Int
<1>1. Len(s) \in Nat /\ DOMAIN s = 1..Len(s)
  OBVIOUS
<1>2. IsFiniteSet(1..Len(s))
  BY <1>1, FS_Interval
<1>3. \A i \in 1..Len(s) :
        s[i] \in ScopeRecords /\ s[i].start \in Int /\ s[i].child \in Int /\ s[i].phase \in Phases
  <2>1. \A i \in 1..Len(s) : s[i] \in ScopeRecords
    <3> HIDE DEF ScopeRecords
    <3>1. QED
      OBVIOUS
  <2>2. QED
    BY <2>1 DEF ScopeRecords
<1>4. ASSUME NEW i \in 1..Len(s)
      PROVE  /\ KeptAt(s, t, i) \in Int
             /\ (t - s[i].start) - s[i].child - (IF i < Len(s) THEN t - s[i + 1].start ELSE 0)
                  = KeptAt(s, t, i)
  <2>1. CASE i < Len(s)
    <3>1. i + 1 \in 1..Len(s)
      BY <1>1, <2>1
    <3>2. s[i + 1].start \in Int /\ s[i].start \in Int /\ s[i].child \in Int
      BY <1>3, <3>1
    <3>3. \A a, b, c \in Int : (t - a) - b - (t - c) = c - a - b /\ c - a - b \in Int
      OBVIOUS
    <3>4. QED
      BY <2>1, <3>2, <3>3 DEF KeptAt
  <2>2. CASE ~(i < Len(s))
    <3>1. \A a, b \in Int : (t - a) - b - 0 = t - a - b /\ t - a - b \in Int
      OBVIOUS
    <3>2. QED
      BY <1>3, <2>2, <3>1 DEF KeptAt
  <2>3. QED
    BY <2>1, <2>2
<1>5. \A i \in 1..Len(s) : KeptBy(s, t)[i] = KeptAt(s, t, i)
  BY DEF KeptBy
<1>6. AllKept(s, t) \in Int
  BY <1>2, <1>4, <1>5, SumType DEF AllKept
<1>7. QED
  BY <1>1, <1>2, <1>3, <1>4, <1>5, <1>6

(* A tick is kept by the innermost scope.                                   *)
LEMMA Ticks ==
  ASSUME NEW s \in Seq(ScopeRecords), NEW t \in Int, s # <<>>
  PROVE  /\ AllKept(s, t + 1) = AllKept(s, t) + 1
         /\ \A i \in 1..Len(s) : KeptAt(s, t, i) >= 0 => KeptAt(s, t + 1, i) >= 0
<1> DEFINE n == Len(s)
           f == KeptBy(s, t)
           g == KeptBy(s, t + 1)
<1>1. /\ n \in Nat \ {0} /\ IsFiniteSet(1..n) /\ t + 1 \in Int
      /\ \A i \in 1..n : f[i] = KeptAt(s, t, i) /\ g[i] = KeptAt(s, t + 1, i)
      /\ \A i \in 1..n : f[i] \in Int /\ g[i] \in Int
  <2>1. n \in Nat /\ n # 0
    BY EmptySeq
  <2>2. t + 1 \in Int
    OBVIOUS
  <2>3. IsFiniteSet(1..n) /\ \A i \in 1..n : f[i] = KeptAt(s, t, i) /\ f[i] \in Int
    BY KeptIsInt
  <2>4. \A i \in 1..n : g[i] = KeptAt(s, t + 1, i) /\ g[i] \in Int
    <3> HIDE DEF ScopeRecords
    <3>1. QED
      BY <2>2, KeptIsInt
  <2>5. QED
    BY <2>1, <2>2, <2>3, <2>4
<1>2. \A i \in 1..n : i # n => i < n
  BY <1>1
<1>3. \A i \in (1..n) \ {n} : g[i] = f[i]
  BY <1>1, <1>2 DEF KeptAt
<1>4. g[n] = f[n] + 1
  <2>1. n \in 1..n /\ ~(n < n)
    BY <1>1
  <2>2. s[n].start \in Int /\ s[n].child \in Int
    BY <2>1, KeptIsInt
  <2>3. f[n] = t - s[n].start - s[n].child /\ g[n] = (t + 1) - s[n].start - s[n].child
    BY <1>1, <2>1 DEF KeptAt
  <2>4. \A a, b \in Int : (t + 1) - a - b = (t - a - b) + 1
    OBVIOUS
  <2>5. QED
    BY <2>2, <2>3, <2>4
<1>5. n \in 1..n
  BY <1>1
<1> HIDE DEF f, g
<1>6. SumFunctionOnSet(g, 1..n) = SumFunctionOnSet(f, 1..n) + (g[n] - f[n])
  <2> DEFINE S == 1..n
  <2>1. IsFiniteSet(S) /\ n \in S
    BY <1>1, <1>5
  <2>2. (\A y \in S : f[y] \in Int) /\ (\A y \in S : g[y] \in Int)
    BY <1>1
  <2>3. \A y \in S \ {n} : g[y] = f[y]
    BY <1>3
  <2> HIDE DEF S, n
  <2>4. SumFunctionOnSet(g, S) = SumFunctionOnSet(f, S) + (g[n] - f[n])
    BY <2>1, <2>2, <2>3, SumUpdate
  <2>5. QED
    BY <2>4 DEF S
<1>7. g[n] - f[n] = 1
  <2>1. \A a \in Int : (a + 1) - a = 1
    OBVIOUS
  <2>2. QED
    BY <1>1, <1>4, <1>5, <2>1
<1>8. AllKept(s, t + 1) = AllKept(s, t) + 1
  BY <1>6, <1>7 DEF AllKept, f, g
<1>9. \A a \in Int : a >= 0 => a + 1 >= 0
  OBVIOUS
<1>10. QED
  BY <1>1, <1>3, <1>4, <1>5, <1>8, <1>9

(* A scope that opens keeps nothing yet; the one around it stops keeping.   *)
LEMMA Opens ==
  ASSUME NEW s \in Seq(ScopeRecords), NEW t \in Int, NEW e \in ScopeRecords,
         e.start = t, e.child = 0
  PROVE  /\ AllKept(Append(s, e), t) = AllKept(s, t)
         /\ (\A i \in 1..Len(s) : KeptAt(s, t, i) >= 0) =>
               \A i \in 1..Len(Append(s, e)) : KeptAt(Append(s, e), t, i) >= 0
<1> DEFINE n == Len(s)
           u == Append(s, e)
           f == KeptBy(s, t)
           g == KeptBy(u, t)
<1>1. /\ n \in Nat /\ u \in Seq(ScopeRecords) /\ Len(u) = n + 1 /\ u[n + 1] = e
      /\ \A i \in 1..n : u[i] = s[i]
  <2> HIDE DEF ScopeRecords
  <2>1. QED
    BY KeptIsInt, Appending
<1> HIDE DEF u
<1>2. /\ IsFiniteSet(1..n) /\ IsFiniteSet(1..(n + 1))
      /\ \A i \in 1..n : f[i] = KeptAt(s, t, i) /\ f[i] \in Int
      /\ \A i \in 1..(n + 1) : g[i] = KeptAt(u, t, i) /\ g[i] \in Int
  <2> HIDE DEF ScopeRecords
  <2>1. IsFiniteSet(1..n) /\ \A i \in 1..n : f[i] = KeptAt(s, t, i) /\ f[i] \in Int
    BY KeptIsInt
  <2>2. /\ IsFiniteSet(1..Len(u))
        /\ \A i \in 1..Len(u) : g[i] = KeptAt(u, t, i) /\ g[i] \in Int
    BY <1>1, KeptIsInt
  <2>3. QED
    BY <1>1, <2>1, <2>2
<1>3. g[n + 1] = 0
  <2>1. n + 1 \in 1..(n + 1) /\ ~(n + 1 < n + 1)
    BY <1>1
  <2>2. g[n + 1] = t - t - 0
    BY <1>1, <1>2, <2>1 DEF KeptAt
  <2>3. QED
    BY <2>2
<1>4. \A i \in 1..n : g[i] = f[i]
  <2> SUFFICES ASSUME NEW i \in 1..n PROVE KeptAt(u, t, i) = KeptAt(s, t, i)
    BY <1>1, <1>2
  <2>1. i < n + 1 /\ (i < n => i + 1 \in 1..n) /\ (~(i < n) => i = n)
    BY <1>1
  <2>2. KeptAt(u, t, i) = u[i + 1].start - u[i].start - u[i].child
    BY <1>1, <2>1 DEF KeptAt
  <2>3. CASE i < n
    BY <1>1, <2>1, <2>2, <2>3 DEF KeptAt
  <2>4. CASE ~(i < n)
    BY <1>1, <2>1, <2>2, <2>4 DEF KeptAt
  <2>5. QED
    BY <2>3, <2>4
<1>5. (1..(n + 1)) \ {n + 1} = 1..n /\ n + 1 \in 1..(n + 1)
  BY <1>1
<1> HIDE DEF f, g
<1>6. SumFunctionOnSet(g, 1..(n + 1)) = g[n + 1] + SumFunctionOnSet(g, 1..n)
  <2> DEFINE S == 1..(n + 1)
  <2>1. IsFiniteSet(S) /\ n + 1 \in S /\ (\A i \in S : g[i] \in Int) /\ S \ {n + 1} = 1..n
    BY <1>2, <1>5
  <2> HIDE DEF S
  <2>2. SumFunctionOnSet(g, S) = g[n + 1] + SumFunctionOnSet(g, S \ {n + 1})
    BY <2>1, SumTake
  <2>3. QED
    BY <2>1, <2>2 DEF S
<1>7. SumFunctionOnSet(g, 1..n) = SumFunctionOnSet(f, 1..n)
  BY <1>2, <1>4, SumSame
<1>8. SumFunctionOnSet(f, 1..n) \in Int
  BY <1>2, SumType
<1>9. AllKept(u, t) = AllKept(s, t)
  <2>1. \A a \in Int : 0 + a = a
    OBVIOUS
  <2>2. QED
    BY <1>1, <1>3, <1>6, <1>7, <1>8, <2>1 DEF AllKept, f, g
<1>10. \A i \in 1..(n + 1) : i \in 1..n \/ i = n + 1
  BY <1>1
<1>11. ASSUME \A i \in 1..n : KeptAt(s, t, i) >= 0, NEW i \in 1..(n + 1)
       PROVE  KeptAt(u, t, i) >= 0
  <2>1. CASE i \in 1..n
    BY <1>2, <1>4, <1>11, <2>1
  <2>2. CASE i = n + 1
    BY <1>2, <1>3, <2>2
  <2>3. QED
    BY <1>10, <2>1, <2>2
<1>12. QED
  BY <1>1, <1>9, <1>11 DEF u

(* When a scope closes, what it kept is charged; the one around it keeps    *)
(* what it kept.                                                            *)
ClosedOf(s, t) ==
  LET rest == SubSeq(s, 1, Len(s) - 1)
  IN  IF rest = <<>> THEN rest ELSE [rest EXCEPT ![Len(rest)].child = @ + (t - s[Len(s)].start)]

LEMMA ClosedIs ==
  ASSUME NEW s \in Seq(ScopeRecords), NEW t \in Int, s # <<>>
  PROVE  /\ ClosedOf(s, t) \in Seq(ScopeRecords) /\ Len(ClosedOf(s, t)) = Len(s) - 1
         /\ \A i \in 1..(Len(s) - 1) :
              /\ ClosedOf(s, t)[i].start = s[i].start
              /\ ClosedOf(s, t)[i].child =
                   IF i = Len(s) - 1 THEN s[i].child + (t - s[Len(s)].start) ELSE s[i].child
<1> DEFINE n == Len(s)
           m == n - 1
           rest == SubSeq(s, 1, m)
           r == rest[m]
           e == [r EXCEPT !.child = @ + (t - s[n].start)]
<1>1. n \in Nat \ {0} /\ m \in Nat /\ n \in 1..n /\ \A i \in 1..m : i \in 1..n
  BY EmptySeq
<1>2. rest \in Seq(ScopeRecords) /\ Len(rest) = m /\ \A i \in 1..m : rest[i] = s[i]
  <2>1. \A i \in 1..m : s[i] \in ScopeRecords /\ 1 + i - 1 = i
    BY <1>1, KeptIsInt
  <2>0. \A k \in Nat : k \in Int /\ k - 1 + 1 = k /\ (1 <= k \/ k = 0)
    OBVIOUS
  <2>2. m \in Int /\ m - 1 + 1 = m /\ (1 <= m \/ m = 0)
    BY <1>1, <2>0
  <2> HIDE DEF ScopeRecords, m
  <2>3. /\ rest \in Seq(ScopeRecords)
        /\ Len(rest) = IF 1 <= m THEN m - 1 + 1 ELSE 0
        /\ \A i \in 1..(m - 1 + 1) : rest[i] = s[1 + i - 1]
    BY <2>1, <2>2, SubSeqProperties
  <2>4. QED
    BY <2>1, <2>2, <2>3
<1>3. CASE m = 0
  <2>1. rest = <<>>
    BY <1>2, <1>3, EmptySeq
  <2>2. ClosedOf(s, t) = rest
    BY <2>1 DEF ClosedOf
  <2>3. QED
    BY <1>2, <1>3, <2>2
<1>4. CASE m # 0
  <2>1. rest # <<>> /\ m \in 1..m
    <3>0. \A k \in Nat : k # 0 => k \in 1..k
      OBVIOUS
    <3>1. m \in 1..m
      BY <1>1, <1>4, <3>0
    <3>2. Len(<<>>) = 0
      BY EmptySeq
    <3> HIDE DEF rest, m
    <3>3. QED
      BY <1>2, <1>4, <3>1, <3>2
  <2>2. /\ r = s[m] /\ r \in ScopeRecords
        /\ s[n].start \in Int /\ s[m].child \in Int
    BY <1>1, <1>2, <2>1, KeptIsInt
  <2>3. /\ e \in ScopeRecords /\ e.start = s[m].start
        /\ e.child = s[m].child + (t - s[n].start)
    <3>1. \A a, b \in Int : a + (t - b) \in Int
      OBVIOUS
    <3>2. \A q \in ScopeRecords, c \in Int :
            /\ [q EXCEPT !.child = c] \in ScopeRecords
            /\ [q EXCEPT !.child = c].start = q.start
            /\ [q EXCEPT !.child = c].child = c
      BY DEF ScopeRecords
    <3>3. e = [r EXCEPT !.child = s[m].child + (t - s[n].start)]
      BY <2>2
    <3> DEFINE c == s[m].child + (t - s[n].start)
    <3>4. c \in Int
      BY <2>2, <3>1
    <3> HIDE DEF ScopeRecords, e, r, c
    <3>5. [r EXCEPT !.child = c] \in ScopeRecords /\ [r EXCEPT !.child = c].start = r.start
          /\ [r EXCEPT !.child = c].child = c
      BY <2>2, <3>2, <3>4
    <3>6. QED
      BY <2>2, <3>3, <3>5 DEF c
  <2>4. ClosedOf(s, t) = [rest EXCEPT ![m] = e]
    BY <1>2, <2>1 DEF ClosedOf
  <2> HIDE DEF e, rest, ScopeRecords
  <2>5. /\ [rest EXCEPT ![m] = e] \in Seq(ScopeRecords)
        /\ Len([rest EXCEPT ![m] = e]) = m
        /\ [rest EXCEPT ![m] = e][m] = e
        /\ \A i \in 1..m : i # m => [rest EXCEPT ![m] = e][i] = rest[i]
    BY <1>2, <2>1, <2>3, Exchanged
  <2>6. QED
    BY <1>2, <2>1, <2>3, <2>4, <2>5
<1>5. QED
  BY <1>3, <1>4

LEMMA Closes ==
  ASSUME NEW s \in Seq(ScopeRecords), NEW t \in Int, s # <<>>
  PROVE  /\ AllKept(s, t) = KeptAt(s, t, Len(s)) + AllKept(ClosedOf(s, t), t)
         /\ \A i \in 1..(Len(s) - 1) : KeptAt(ClosedOf(s, t), t, i) = KeptAt(s, t, i)
<1> DEFINE n == Len(s)
           m == n - 1
           u == ClosedOf(s, t)
           f == KeptBy(s, t)
           g == KeptBy(u, t)
<1>1. /\ n \in Nat \ {0} /\ m \in Nat /\ n \in 1..n /\ (1..n) \ {n} = 1..m
      /\ \A i \in 1..m : i \in 1..n /\ i < n /\ (i < m <=> i # m) /\ (i < m => i + 1 \in 1..m)
      /\ m + 1 = n
  BY EmptySeq
<1>2. /\ u \in Seq(ScopeRecords) /\ Len(u) = m
      /\ \A i \in 1..m :
           /\ u[i].start = s[i].start
           /\ u[i].child = IF i = m THEN s[i].child + (t - s[n].start) ELSE s[i].child
  BY ClosedIs
<1> HIDE DEF u
<1>3. \A i \in 1..n : s[i].start \in Int /\ s[i].child \in Int
  BY KeptIsInt
<1>4. ASSUME NEW i \in 1..m PROVE KeptAt(u, t, i) = KeptAt(s, t, i)
  <2>1. KeptAt(s, t, i) = s[i + 1].start - s[i].start - s[i].child
    BY <1>1 DEF KeptAt
  <2>2. CASE i < m
    BY <1>1, <1>2, <2>1, <2>2 DEF KeptAt
  <2>3. CASE ~(i < m)
    <3>1. i = m /\ i + 1 = n
      BY <1>1, <2>3
    <3>2. KeptAt(u, t, i) = t - s[i].start - (s[i].child + (t - s[n].start))
      BY <1>2, <2>3, <3>1 DEF KeptAt
    <3>3. \A a, b, c \in Int : t - a - (b + (t - c)) = c - a - b
      OBVIOUS
    <3>4. s[i].start \in Int /\ s[i].child \in Int /\ s[n].start \in Int
      BY <1>1, <1>3
    <3>5. QED
      BY <2>1, <3>1, <3>2, <3>3, <3>4
  <2>4. QED
    BY <2>2, <2>3
<1>5. /\ IsFiniteSet(1..n) /\ \A i \in 1..n : f[i] = KeptAt(s, t, i) /\ f[i] \in Int
      /\ IsFiniteSet(1..m) /\ \A i \in 1..m : g[i] = KeptAt(u, t, i) /\ g[i] \in Int
  <2>1. IsFiniteSet(1..n) /\ \A i \in 1..n : f[i] = KeptAt(s, t, i) /\ f[i] \in Int
    BY KeptIsInt
  <2>2. IsFiniteSet(1..Len(u)) /\ \A i \in 1..Len(u) : g[i] = KeptAt(u, t, i) /\ g[i] \in Int
    <3> HIDE DEF ScopeRecords
    <3>1. QED
      BY <1>2, KeptIsInt
  <2>3. QED
    BY <1>2, <2>1, <2>2
<1>6. \A i \in 1..m : g[i] = f[i]
  BY <1>1, <1>4, <1>5
<1> HIDE DEF f, g
<1>7. SumFunctionOnSet(f, 1..n) = f[n] + SumFunctionOnSet(f, 1..m)
  <2> DEFINE S == 1..n
  <2>1. IsFiniteSet(S) /\ n \in S /\ (\A i \in S : f[i] \in Int) /\ S \ {n} = 1..m
    BY <1>1, <1>5
  <2> HIDE DEF S, n
  <2>2. SumFunctionOnSet(f, S) = f[n] + SumFunctionOnSet(f, S \ {n})
    BY <2>1, SumTake
  <2>3. QED
    BY <2>1, <2>2 DEF S
<1>8. SumFunctionOnSet(f, 1..m) = SumFunctionOnSet(g, 1..m)
  <2>1. \A i \in 1..m : f[i] = g[i]
    BY <1>6
  <2> HIDE DEF m
  <2>2. QED
    BY <1>5, <2>1, SumSame
<1>9. AllKept(s, t) = KeptAt(s, t, n) + AllKept(u, t)
  BY <1>1, <1>2, <1>5, <1>7, <1>8 DEF AllKept, f, g
<1>10. QED
  BY <1>4, <1>9 DEF u

----------------------------------------------------------------------------
(* The account, for any list of scopes, time and charges.                   *)
Account(s, t, c) ==
  /\ \A i \in 1..Len(s) : KeptAt(s, t, i) >= 0
  /\ s # <<>> => SumFunctionOnSet(c, Phases) + AllKept(s, t) = t - s[1].start

LEMMA ChargesAdd ==
  ASSUME NEW c \in [Phases -> Int]
  PROVE  IsFiniteSet(Phases) /\ SumFunctionOnSet(c, Phases) \in Int /\ \A p \in Phases : c[p] \in Int
<1>1. IsFiniteSet(Phases)
  <2>1. \A S, x : IsFiniteSet(S) => IsFiniteSet(S \cup {x})
    BY FS_AddElement
  <2>2. IsFiniteSet(((({} \cup {"other"}) \cup {"ir_load"}) \cup {"anchor_db"}) \cup {"summarize_extfn"})
    BY <2>1, FS_EmptySet
  <2> DEFINE S4 == ((({} \cup {"other"}) \cup {"ir_load"}) \cup {"anchor_db"}) \cup {"summarize_extfn"}
  <2>3. Phases = (((S4 \cup {"bracket_extraction"}) \cup {"function_pairing"})
                    \cup {"mutex_filtering"}) \cup {"transpiler"}
    BY DEF Phases
  <2> HIDE DEF S4
  <2>4. QED
    BY <2>1, <2>2, <2>3 DEF S4
<1>2. \A p \in Phases : c[p] \in Int
  OBVIOUS
<1>3. QED
  BY <1>1, <1>2, SumType

(* Of integers that are not negative none exceeds the sum.                  *)
LEMMA SumAtLeast ==
  ASSUME NEW S, IsFiniteSet(S), NEW f, \A x \in S : f[x] \in Int /\ f[x] >= 0
  PROVE  /\ SumFunctionOnSet(f, S) >= 0
         /\ \A x \in S : SumFunctionOnSet(f, S) >= f[x]
<1>1. \A s \in SUBSET S : SumFunctionOnSet(f, s) >= 0
  <2> DEFINE C == {s \in SUBSET S : ~(SumFunctionOnSet(f, s) >= 0)}
  <2> SUFFICES ASSUME C # {} PROVE FALSE
    OBVIOUS
  <2>1. PICK T \in C : \A U \in C : ~ (U \subseteq T /\ U # T)
    <3>1. C \in SUBSET (SUBSET S)
      OBVIOUS
    <3> HIDE DEF C
    <3>2. QED
      BY <3>1, LeastSet
  <2>2. T \in SUBSET S /\ IsFiniteSet(T)
    BY <2>1, FS_Subset
  <2>3. T # {}
    <3>1. T = {} => SumFunctionOnSet(f, T) = 0
      BY <2>2, SumFacts
    <3>2. 0 >= 0
      OBVIOUS
    <3>3. QED
      BY <2>1, <3>1, <3>2
  <2>4. Picked(T) \in T
    BY <2>3, PickedIn
  <2> DEFINE U == T \ {Picked(T)}
  <2>5. U \in SUBSET S /\ U \notin C
    BY <2>1, <2>2, <2>4
  <2>6. SumFunctionOnSet(f, U) >= 0 /\ f[Picked(T)] \in Int /\ f[Picked(T)] >= 0
    BY <2>2, <2>4, <2>5
  <2>7. SumFunctionOnSet(f, U) \in Int
    <3>1. IsFiniteSet(U) /\ \A x \in U : f[x] \in Int
      BY <2>5, FS_Subset
    <3> HIDE DEF U
    <3>2. QED
      BY <3>1, SumType
  <2>8. SumFunctionOnSet(f, T) = f[Picked(T)] + SumFunctionOnSet(f, U)
    BY <2>2, <2>3, SumFacts
  <2> HIDE DEF U
  <2>9. SumFunctionOnSet(f, T) >= 0
    BY <2>6, <2>7, <2>8
  <2>10. QED
    BY <2>1, <2>9
<1>2. ASSUME NEW x \in S PROVE SumFunctionOnSet(f, S) >= f[x]
  <2>1. SumFunctionOnSet(f, S) = f[x] + SumFunctionOnSet(f, S \ {x})
    BY SumTake
  <2>2. IsFiniteSet(S \ {x})
    BY FS_RemoveElement
  <2>3. SumFunctionOnSet(f, S \ {x}) \in Int
    BY <2>2, SumType
  <2>4. S \ {x} \in SUBSET S
    OBVIOUS
  <2>5. SumFunctionOnSet(f, S \ {x}) >= 0
    BY <1>1, <2>4
  <2>6. QED
    BY <2>1, <2>3, <2>5
<1>3. S \in SUBSET S
  OBVIOUS
<1>4. QED
  BY <1>1, <1>2, <1>3

LEMMA AccountTicks ==
  ASSUME NEW s \in Seq(ScopeRecords), NEW t \in Int, NEW c \in [Phases -> Int], Account(s, t, c)
  PROVE  Account(s, t + 1, c)
<1>1. CASE s = <<>>
  BY <1>1 DEF Account
<1>2. CASE s # <<>>
  <2>1. /\ AllKept(s, t + 1) = AllKept(s, t) + 1
        /\ \A i \in 1..Len(s) : KeptAt(s, t, i) >= 0 => KeptAt(s, t + 1, i) >= 0
    BY <1>2, Ticks
  <2>2. AllKept(s, t) \in Int
    BY KeptIsInt
  <2>3. s[1].start \in Int
    <3>1. Len(s) \in Nat /\ (Len(s) # 0 => 1 \in 1..Len(s))
      OBVIOUS
    <3>2. Len(s) # 0
      BY <1>2, EmptySeq
    <3>3. QED
      BY <3>1, <3>2, KeptIsInt
  <2>4. SumFunctionOnSet(c, Phases) \in Int
    BY ChargesAdd
  <2>5. SumFunctionOnSet(c, Phases) + AllKept(s, t) = t - s[1].start
    BY <1>2 DEF Account
  <2>6. \A x, y, a \in Int : x + y = t - a => x + (y + 1) = (t + 1) - a
    OBVIOUS
  <2>7. SumFunctionOnSet(c, Phases) + AllKept(s, t + 1) = (t + 1) - s[1].start
    BY <2>1, <2>2, <2>3, <2>4, <2>5, <2>6
  <2>8. QED
    BY <2>1, <2>7 DEF Account
<1>3. QED
  BY <1>1, <1>2

LEMMA AccountOpens ==
  ASSUME NEW s \in Seq(ScopeRecords), NEW t \in Int, NEW c \in [Phases -> Int], Account(s, t, c),
         s = <<>> => SumFunctionOnSet(c, Phases) = 0,
         NEW e \in ScopeRecords, e.start = t, e.child = 0
  PROVE  /\ Account(Append(s, e), t, c)
         /\ Append(s, e) \in Seq(ScopeRecords) /\ Len(Append(s, e)) = Len(s) + 1
<1>1. /\ AllKept(Append(s, e), t) = AllKept(s, t)
      /\ \A i \in 1..Len(Append(s, e)) : KeptAt(Append(s, e), t, i) >= 0
  BY Opens DEF Account
<1>2. /\ Append(s, e) \in Seq(ScopeRecords) /\ Len(Append(s, e)) = Len(s) + 1
      /\ \A i \in DOMAIN s : Append(s, e)[i] = s[i]
      /\ Append(s, e)[Len(s) + 1] = e
  <2> HIDE DEF ScopeRecords
  <2>1. QED
    BY Appending
<1>3. CASE s = <<>>
  <2>1. Len(s) = 0 /\ 1..0 = {}
    BY <1>3, EmptySeq
  <2>2. AllKept(s, t) = 0
    <3> DEFINE f == KeptBy(s, t)
               S == 1..Len(s)
    <3>1. S = {}
      BY <2>1
    <3> HIDE DEF f, S
    <3>2. SumFunctionOnSet(f, S) = 0
      BY <3>1, FS_EmptySet, SumFacts
    <3>3. QED
      BY <3>2 DEF f, S, AllKept
  <2>3. Append(s, e)[1] = e
    BY <1>2, <2>1
  <2>4. 0 + 0 = t - t
    OBVIOUS
  <2>5. SumFunctionOnSet(c, Phases) + AllKept(Append(s, e), t) = t - Append(s, e)[1].start
    BY <1>1, <1>3, <2>2, <2>3, <2>4
  <2>6. QED
    BY <1>1, <1>2, <2>5 DEF Account
<1>4. CASE s # <<>>
  <2>1. 1 \in DOMAIN s
    BY <1>4
  <2>2. Append(s, e)[1] = s[1]
    BY <1>2, <2>1
  <2>3. QED
    BY <1>1, <1>2, <1>4, <2>2 DEF Account
<1>5. QED
  BY <1>3, <1>4

ChargedTo(s, t, c) ==
  [c EXCEPT ![s[Len(s)].phase] =
     @ + (IF t - s[Len(s)].start > s[Len(s)].child
          THEN (t - s[Len(s)].start) - s[Len(s)].child ELSE 0)]

LEMMA AccountCloses ==
  ASSUME NEW s \in Seq(ScopeRecords), NEW t \in Int, NEW c \in [Phases -> Int], Account(s, t, c),
         s # <<>>
  PROVE  /\ Account(ClosedOf(s, t), t, ChargedTo(s, t, c))
         /\ ChargedTo(s, t, c) \in [Phases -> Int]
         /\ ClosedOf(s, t) \in Seq(ScopeRecords) /\ Len(ClosedOf(s, t)) = Len(s) - 1
<1> DEFINE n == Len(s)
           u == ClosedOf(s, t)
           k == KeptAt(s, t, n)
           d == ChargedTo(s, t, c)
           p == s[n].phase
<1>1. n \in Nat \ {0} /\ n \in 1..n /\ 1 \in 1..n /\ ~(n < n)
  BY EmptySeq
<1>2. /\ s[n].start \in Int /\ s[n].child \in Int /\ p \in Phases /\ k \in Int
      /\ s[1].start \in Int
  BY <1>1, KeptIsInt
<1>3. k = (t - s[n].start) - s[n].child /\ k >= 0
  BY <1>1 DEF KeptAt, Account
<1>4. k = (IF t - s[n].start > s[n].child THEN (t - s[n].start) - s[n].child ELSE 0)
  <2>1. \A a, b, j \in Int : j = (t - a) - b /\ j >= 0
                               => j = (IF t - a > b THEN (t - a) - b ELSE 0)
    OBVIOUS
  <2> HIDE DEF k, n
  <2>2. QED
    BY <1>2, <1>3, <2>1
<1>5. d = [c EXCEPT ![p] = @ + k]
  BY <1>4 DEF ChargedTo
<1> HIDE DEF d, p, k
<1>6. c[p] \in Int /\ d[p] = c[p] + k /\ d \in [Phases -> Int] /\ \A x \in Phases \ {p} : d[x] = c[x]
  BY <1>2, <1>5
<1>7. SumFunctionOnSet(d, Phases) = SumFunctionOnSet(c, Phases) + k
  <2>1. IsFiniteSet(Phases) /\ IsFiniteSet(Phases \ {p}) /\ p \in Phases
    BY <1>2, ChargesAdd, FS_RemoveElement
  <2>2. \A x \in Phases : c[x] \in Int
    BY ChargesAdd
  <2>3. \A x \in Phases : d[x] \in Int
    BY <1>6, ChargesAdd
  <2>4. SumFunctionOnSet(c, Phases) = c[p] + SumFunctionOnSet(c, Phases \ {p})
    BY <2>1, <2>2, SumTake
  <2>5. SumFunctionOnSet(d, Phases) = d[p] + SumFunctionOnSet(d, Phases \ {p})
    BY <2>1, <2>3, SumTake
  <2>6. SumFunctionOnSet(d, Phases \ {p}) = SumFunctionOnSet(c, Phases \ {p})
    BY <1>6, <2>1, SumSame
  <2>7. SumFunctionOnSet(c, Phases \ {p}) \in Int
    BY <2>1, <2>2, SumType
  <2>8. QED
    BY <1>2, <1>6, <2>4, <2>5, <2>6, <2>7
<1>8. /\ u \in Seq(ScopeRecords) /\ Len(u) = n - 1
      /\ \A i \in 1..(n - 1) : u[i].start = s[i].start
  BY ClosedIs
<1>9. /\ AllKept(s, t) = k + AllKept(u, t)
      /\ \A i \in 1..(n - 1) : KeptAt(u, t, i) = KeptAt(s, t, i)
  BY Closes DEF k
<1> HIDE DEF u
<1>10. \A i \in 1..Len(u) : KeptAt(u, t, i) >= 0
  <2>1. \A i \in 1..(n - 1) : i \in 1..n
    BY <1>1
  <2>2. QED
    BY <1>8, <1>9, <2>1 DEF Account
<1>11. u # <<>> => SumFunctionOnSet(d, Phases) + AllKept(u, t) = t - u[1].start
  <2> SUFFICES ASSUME u # <<>>
               PROVE  SumFunctionOnSet(d, Phases) + AllKept(u, t) = t - u[1].start
    OBVIOUS
  <2>1. 1 \in 1..(n - 1)
    <3>1. Len(u) \in Nat \ {0}
      <4> HIDE DEF ScopeRecords
      <4>1. QED
        BY <1>8, EmptySeq
    <3>2. \A j \in Nat \ {0} : 1 \in 1..j
      OBVIOUS
    <3>3. QED
      BY <1>8, <3>1, <3>2
  <2>2. u[1].start = s[1].start
    BY <1>8, <2>1
  <2>3. SumFunctionOnSet(c, Phases) + AllKept(s, t) = t - s[1].start
    BY DEF Account
  <2>4. SumFunctionOnSet(c, Phases) \in Int
    BY ChargesAdd
  <2>5. AllKept(u, t) \in Int
    <3> HIDE DEF ScopeRecords
    <3>1. QED
      BY <1>8, KeptIsInt
  <2>6. \A x, y, z \in Int : (x + y) + z = x + (y + z)
    OBVIOUS
  <2>7. QED
    BY <1>2, <1>7, <1>9, <2>2, <2>3, <2>4, <2>5, <2>6
<1>12. QED
  BY <1>6, <1>8, <1>10, <1>11 DEF Account, u, d

----------------------------------------------------------------------------
(* The scopes that the frames of a stack have open, taken together.         *)
OpenIn(s) == [i \in 1..Len(s) |-> s[i].open]
AllOpen(s) == SumFunctionOnSet(OpenIn(s), 1..Len(s))

LEMMA OpenIsInt ==
  ASSUME NEW s \in Seq(Frames)
  PROVE  /\ Len(s) \in Nat /\ DOMAIN s = 1..Len(s) /\ IsFiniteSet(1..Len(s))
         /\ \A i \in 1..Len(s) : s[i] \in Frames /\ s[i].open \in Int /\ OpenIn(s)[i] = s[i].open
         /\ AllOpen(s) \in Int
<1>1. Len(s) \in Nat /\ DOMAIN s = 1..Len(s)
  OBVIOUS
<1>2. IsFiniteSet(1..Len(s))
  BY <1>1, FS_Interval
<1>3. \A i \in 1..Len(s) : s[i] \in Frames
  <2> HIDE DEF Frames
  <2>1. QED
    OBVIOUS
<1>4. \A i \in 1..Len(s) : s[i].open \in Int
  BY <1>3 DEF Frames
<1>5. \A i \in 1..Len(s) : OpenIn(s)[i] = s[i].open
  BY DEF OpenIn
<1>6. \A i \in 1..Len(s) : OpenIn(s)[i] \in Int
  BY <1>4, <1>5
<1>7. AllOpen(s) \in Int
  BY <1>2, <1>6, SumType DEF AllOpen
<1>8. QED
  BY <1>1, <1>2, <1>3, <1>4, <1>5, <1>7

(* The stack with a frame more.                                             *)
LEMMA OpenPushed ==
  ASSUME NEW s \in Seq(Frames), NEW u \in Seq(Frames), Len(u) = Len(s) + 1,
         \A i \in 1..Len(s) : u[i].open = s[i].open
  PROVE  AllOpen(u) = u[Len(u)].open + AllOpen(s)
<1> DEFINE m == Len(s)
           S == 1..(m + 1)
           f == OpenIn(s)
           g == OpenIn(u)
<1>1. m \in Nat /\ Len(u) = m + 1 /\ S = 1..(m + 1)
  OBVIOUS
<1>2. m + 1 \in S /\ S \ {m + 1} = 1..m /\ \A i \in 1..m : i \in S
  BY <1>1
<1>3. IsFiniteSet(1..m) /\ \A i \in 1..m : f[i] = s[i].open /\ f[i] \in Int
  BY OpenIsInt
<1>4. IsFiniteSet(S) /\ \A i \in S : g[i] = u[i].open /\ g[i] \in Int
  BY <1>1, OpenIsInt
<1>5. AllOpen(s) = SumFunctionOnSet(f, 1..m) /\ AllOpen(u) = SumFunctionOnSet(g, S)
  BY <1>1 DEF AllOpen
<1> HIDE DEF f, g, S, m
<1>6. SumFunctionOnSet(g, S) = g[m + 1] + SumFunctionOnSet(g, S \ {m + 1})
  BY <1>2, <1>4, SumTake
<1>7. \A i \in 1..m : g[i] = f[i]
  BY <1>2, <1>3, <1>4 DEF m
<1>8. SumFunctionOnSet(g, 1..m) = SumFunctionOnSet(f, 1..m)
  BY <1>3, <1>7, SumSame
<1>9. QED
  BY <1>1, <1>2, <1>4, <1>5, <1>6, <1>8

(* The stack with its last frame changed.                                   *)
LEMMA OpenChanged ==
  ASSUME NEW s \in Seq(Frames), NEW u \in Seq(Frames), s # <<>>, Len(u) = Len(s),
         \A i \in 1..Len(s) : i # Len(s) => u[i] = s[i]
  PROVE  AllOpen(u) = AllOpen(s) + (u[Len(s)].open - s[Len(s)].open)
<1> DEFINE n == Len(s)
           S == 1..n
           f == OpenIn(s)
           g == OpenIn(u)
<1>1. n \in Nat \ {0} /\ n \in S
  BY EmptySeq
<1>2. IsFiniteSet(S) /\ \A i \in S : f[i] = s[i].open /\ f[i] \in Int
  BY OpenIsInt
<1>3. IsFiniteSet(S) /\ \A i \in S : g[i] = u[i].open /\ g[i] \in Int
  BY OpenIsInt
<1>4. AllOpen(s) = SumFunctionOnSet(f, S) /\ AllOpen(u) = SumFunctionOnSet(g, S)
  BY DEF AllOpen
<1>5. \A i \in S \ {n} : g[i] = f[i]
  BY <1>2, <1>3
<1> HIDE DEF f, g, S, n
<1>6. SumFunctionOnSet(g, S) = g[n] + SumFunctionOnSet(g, S \ {n})
  BY <1>1, <1>3, SumTake
<1>7. SumFunctionOnSet(f, S) = f[n] + SumFunctionOnSet(f, S \ {n})
  BY <1>1, <1>2, SumTake
<1>8. IsFiniteSet(S \ {n})
  BY <1>2, FS_RemoveElement
<1>9. SumFunctionOnSet(g, S \ {n}) = SumFunctionOnSet(f, S \ {n})
  BY <1>5, <1>8, SumSame
<1>10. SumFunctionOnSet(f, S \ {n}) \in Int
  BY <1>2, <1>8, SumType
<1>11. AllOpen(u) = AllOpen(s) + (g[n] - f[n])
  BY <1>1, <1>2, <1>3, <1>4, <1>6, <1>7, <1>9, <1>10
<1>12. QED
  BY <1>1, <1>2, <1>3, <1>11 DEF n

(* If no frame has less than none, none has more than all.                  *)
LEMMA OpenAtLeast ==
  ASSUME NEW s \in Seq(Frames), \A i \in 1..Len(s) : s[i].open >= 0
  PROVE  AllOpen(s) >= 0 /\ \A i \in 1..Len(s) : AllOpen(s) >= s[i].open
<1> DEFINE f == OpenIn(s)
           S == 1..Len(s)
<1>1. IsFiniteSet(S) /\ \A i \in S : f[i] = s[i].open /\ f[i] \in Int /\ f[i] >= 0
  BY OpenIsInt
<1>2. AllOpen(s) = SumFunctionOnSet(f, S)
  BY DEF AllOpen
<1> HIDE DEF f, S
<1>3. SumFunctionOnSet(f, S) >= 0 /\ \A i \in S : SumFunctionOnSet(f, S) >= f[i]
  BY <1>1, SumAtLeast
<1>4. QED
  BY <1>1, <1>2, <1>3 DEF S

----------------------------------------------------------------------------
(* The invariant in these terms.                                            *)
Timed ==
  /\ ClockTypeOK
  /\ \A i \in 1..Len(stack) : EnoughOpen(stack[i])
  /\ Len(scopes) = AllOpen(stack)
  /\ NotYetCharged
  /\ Account(scopes, now, spent)

LEMMA TimedIsClocked ==
  ASSUME stack \in Seq(Frames)
  PROVE  Timed <=> Clocked
<1> SUFFICES ASSUME ClockTypeOK
             PROVE  /\ (\A i \in 1..Len(stack) : EnoughOpen(stack[i])) /\ Len(scopes) = AllOpen(stack)
                         <=> ScopesOfFrames
                    /\ Account(scopes, now, spent) <=> TimeConserved
  BY DEF Timed, Clocked
<1>1. SumFunction(OpenOf) = AllOpen(stack)
  <2>1. DOMAIN stack = 1..Len(stack)
    OBVIOUS
  <2>2. OpenOf = OpenIn(stack)
    BY <2>1 DEF OpenOf, OpenIn
  <2>3. DOMAIN OpenIn(stack) = 1..Len(stack)
    BY DEF OpenIn
  <2>4. QED
    BY <2>2, <2>3 DEF SumFunction, AllOpen
<1>2. (\A i \in 1..Len(stack) : EnoughOpen(stack[i])) /\ Len(scopes) = AllOpen(stack)
        <=> ScopesOfFrames
  <2>1. DOMAIN stack = 1..Len(stack)
    OBVIOUS
  <2>2. QED
    BY <1>1, <2>1 DEF ScopesOfFrames
<1>3. /\ scopes \in Seq(ScopeRecords) /\ now \in Int /\ DOMAIN scopes = 1..Len(scopes)
      /\ \A i \in 1..Len(scopes) : Kept(i) = KeptAt(scopes, now, i)
  <2>1. scopes \in Seq(ScopeRecords) /\ now \in Int
    BY DEF ClockTypeOK
  <2>2. \A i \in 1..Len(scopes) :
          (now - scopes[i].start) - scopes[i].child
            - (IF i < Len(scopes) THEN now - scopes[i + 1].start ELSE 0) = KeptAt(scopes, now, i)
    BY <2>1, KeptIsInt
  <2>3. QED
    BY <2>1, <2>2, KeptIsInt DEF Kept, Inner
<1>4. [i \in DOMAIN scopes |-> Kept(i)] = KeptBy(scopes, now)
  BY <1>3 DEF KeptBy
<1>5. SumFunction([i \in DOMAIN scopes |-> Kept(i)]) = AllKept(scopes, now)
  <2>1. DOMAIN KeptBy(scopes, now) = 1..Len(scopes)
    BY DEF KeptBy
  <2>2. QED
    BY <1>4, <2>1 DEF SumFunction, AllKept
<1>6. SumFunction(spent) = SumFunctionOnSet(spent, Phases)
  <2>1. DOMAIN spent = Phases
    BY DEF ClockTypeOK
  <2>2. QED
    BY <2>1 DEF SumFunction
<1>7. Account(scopes, now, spent) <=> TimeConserved
  BY <1>3, <1>5, <1>6 DEF Account, TimeConserved
<1>8. QED
  BY <1>2, <1>7

LEMMA AnchorOpens == Script("AnchorPass")[2].op = "open"
  BY DEF Script, Do

LEMMA SameEnough ==
  ASSUME flags' = flags
  PROVE  \A f : EnoughOpen(f)' <=> EnoughOpen(f)
<1>1. Script("main")' = Script("main")
  BY SameScripts
<1>2. QED
  BY <1>1 DEF EnoughOpen

(* While another pass runs, main has asked for a result of the mode.        *)
LEMMA MainBelow ==
  ASSUME Discipline, Len(stack) > 1
  PROVE  stack[1].pass = "main" /\ stack[1].pc \in 6..Len(Script("main"))
<1> DEFINE q == stack[1].pc
           w == Script("main")
<1>1. stack \in Seq(Frames) /\ 1 \in DOMAIN stack /\ 2 \in DOMAIN stack \ {1} /\ 2 - 1 = 1
  BY DEF Discipline, StackOK
<1>2. stack[1].pass = "main" /\ q <= Len(w) + 1
  BY <1>1 DEF Discipline, StackOK
<1>3. q \in Nat \ {0}
  <2>1. stack[1] \in Frames
    <3> HIDE DEF Frames
    <3>1. QED
      BY <1>1
  <2>2. QED
    BY <2>1 DEF Frames
<1>4. q > 1 /\ w[q - 1] = Need(stack[2].pass)
  <2>1. stack[2 - 1].pc > 1 /\ Script(stack[2 - 1].pass)[stack[2 - 1].pc - 1] = Need(stack[2].pass)
    BY <1>1 DEF Discipline, CalledForAResult
  <2>2. QED
    BY <1>1, <1>2, <2>1
<1>5. Len(w) \in 7..12 /\ \A k \in 1..Len(w) : MainOp(w, k)
  BY MainOps DEF Discipline, DriverTypeOK
<1> HIDE DEF q, w
<1>6. w[q - 1].op = "need"
  BY <1>4 DEF Need, Do
<1>7. \A k, m \in Nat : k # 0 /\ k <= m + 1 /\ k > 1 => k - 1 \in 1..m
  OBVIOUS
<1>8. q - 1 \in 1..Len(w)
  BY <1>2, <1>3, <1>4, <1>5, <1>7
<1>9. q - 1 \notin {1, 2, 3, 4, 5, Len(w)}
  BY <1>5, <1>6, <1>8 DEF MainOp
<1>10. \A k, m \in Nat : k - 1 \in 1..m /\ k - 1 \notin {1, 2, 3, 4, 5, m} => k \in 6..m
  OBVIOUS
<1>11. q \in 6..Len(w)
  BY <1>3, <1>5, <1>8, <1>9, <1>10
<1>12. QED
  BY <1>2, <1>11 DEF q, w

(* From then until it returns, some scope is open.                          *)
LEMMA SomeOpen ==
  ASSUME Discipline, Timed, stack # <<>>, stack[1].pc \in 3..Len(Script("main"))
  PROVE  scopes # <<>>
<1>1. stack \in Seq(Frames) /\ 1 \in 1..Len(stack)
  BY EmptySeq DEF Discipline, StackOK
<1>2. stack[1].pass = "main"
  BY <1>1 DEF Discipline, StackOK
<1>3. stack[1].open >= 1
  BY <1>1, <1>2 DEF Timed, EnoughOpen
<1>4. \A i \in 1..Len(stack) : stack[i].open >= 0
  BY DEF Timed, EnoughOpen
<1>5. AllOpen(stack) >= stack[1].open /\ AllOpen(stack) \in Int /\ stack[1].open \in Int
  BY <1>1, <1>4, OpenAtLeast, OpenIsInt
<1>6. Len(scopes) >= 1
  BY <1>3, <1>5 DEF Timed
<1>7. Len(<<>>) = 0
  BY EmptySeq
<1>8. QED
  BY <1>6, <1>7

(* What the running frame has open after a step of it.                      *)
LEMMA EnoughMoves ==
  ASSUME Discipline, Timed, stack # <<>>
  PROVE  /\ ~Ended /\ Op.op \notin {"open", "close"} => EnoughOpen(At(Top, Top.pc + 1, Top.open))
         /\ ~Ended /\ Op.op = "open" => EnoughOpen(At(Top, Top.pc + 1, Top.open + 1))
         /\ ~Ended /\ Op.op = "close" =>
              EnoughOpen(At(Top, Top.pc + 1, Top.open - 1)) /\ Top.open >= 1
         /\ EnoughOpen(At(Top, Len(Script(Top.pass)) + 1, Top.open))
         /\ Ended /\ Top.open > 0 => EnoughOpen(At(Top, Top.pc, Top.open - 1))
         /\ EnoughOpen(Top)
<1> DEFINE q == Top.pc
           o == Top.open
           p == Top.pass
           l == Len(Script(p))
           m == Len(Script("main"))
<1>1. /\ Top \in Frames /\ Len(stack) \in Nat \ {0} /\ Top = stack[Len(stack)]
      /\ l \in Nat /\ q \in 1..(l + 1)
      /\ Ended <=> q = l + 1
      /\ ~Ended => q \in 1..l /\ Op = Script(p)[q]
  BY TopFrame DEF Discipline
<1>2. q \in Nat \ {0} /\ o \in Int /\ p \in Passes \cup {"main"}
  BY <1>1 DEF Frames
<1>3. /\ m \in 7..12 /\ \A k \in 1..m : MainOp(Script("main"), k)
  BY MainOps DEF Discipline, DriverTypeOK
<1>4. p = "main" => l = m
  OBVIOUS
<1>5. p \in Passes => l \in 1..7 /\ \A k \in 1..l : PassOp(Script(p), p, k)
  BY PassScript
<1>6. "main" \notin Passes
  BY DEF Passes
<1>7. EnoughOpen(Top)
  <2>1. Len(stack) \in 1..Len(stack)
    BY <1>1
  <2>2. QED
    BY <1>1, <2>1 DEF Timed
<1>8. p = "AnchorPass" => l = 4 /\ Script(p)[2].op = "open"
  <2>1. Len(Script("AnchorPass")) = 4
    BY DEF Script
  <2>2. QED
    BY <2>1, AnchorOpens
<1>9. \A k, j \in Int : /\ At(Top, k, j).pass = p
                        /\ At(Top, k, j).pc = k
                        /\ At(Top, k, j).open = j
  BY DEF At
<1>10. /\ o >= 0
       /\ p = "main" /\ q \in 3..m => o >= 1
       /\ p = "main" /\ q \in 4..5 => o >= 2
       /\ p = "AnchorPass" /\ q = 3 => o >= 1
  BY <1>7 DEF EnoughOpen
<1>11. /\ ~Ended /\ p = "main" =>
            /\ Op.op = "open" <=> q \in {2, 3}
            /\ Op.op = "close" <=> q \in {5, m}
       /\ ~Ended /\ p # "main" =>
            /\ Op.op = "close" => p = "AnchorPass" /\ q = 3
            /\ p = "AnchorPass" /\ q = 2 => Op.op = "open"
  <2>1. ~Ended /\ p = "main" => MainOp(Script("main"), q)
    BY <1>1, <1>3
  <2>2. ~Ended /\ p # "main" => PassOp(Script(p), p, q)
    BY <1>1, <1>2, <1>5
  <2>3. QED
    BY <1>1, <1>8, <2>1, <2>2 DEF MainOp, PassOp
<1>12. /\ q + 1 \in Int /\ l + 1 \in Int /\ o + 1 \in Int /\ o - 1 \in Int /\ l + 1 \notin 3..l
       /\ p = "main" => l + 1 \notin 4..5 /\ l + 1 \notin 3..m
       /\ p = "AnchorPass" => l + 1 # 3
  <2>1. \A k \in Nat : k + 1 \in Int /\ k + 1 \notin 3..k /\ (k \in 7..12 => k + 1 \notin 4..5)
    OBVIOUS
  <2>2. \A k \in Int : k + 1 \in Int /\ k - 1 \in Int
    OBVIOUS
  <2>3. q \in Int /\ 4 + 1 # 3
    BY <1>2
  <2> HIDE DEF q, o, p, l, m
  <2>4. QED
    BY <1>1, <1>2, <1>3, <1>4, <1>8, <2>1, <2>2, <2>3
<1> HIDE DEF q, o, p, l, m
<1>13. ASSUME ~Ended, Op.op \notin {"open", "close"}
       PROVE  EnoughOpen(At(Top, q + 1, o))
  <2>1. p = "main" => q \notin {2, 3, 5, m}
    BY <1>11, <1>13
  <2>2. p = "main" /\ q + 1 \in 3..m => o >= 1
    BY <1>2, <1>3, <1>10, <2>1
  <2>3. p = "main" /\ q + 1 \in 4..5 => o >= 2
    BY <1>2, <1>10, <2>1
  <2>4. p = "AnchorPass" /\ q + 1 = 3 => o >= 1
    <3>1. \A k \in Nat : k + 1 = 3 => k = 2
      OBVIOUS
    <3>2. p = "AnchorPass" => p # "main"
      OBVIOUS
    <3>3. QED
      BY <1>2, <1>11, <1>13, <3>1, <3>2
  <2>5. QED
    BY <1>2, <1>9, <1>10, <1>12, <2>2, <2>3, <2>4 DEF EnoughOpen, m
<1>14. ASSUME ~Ended, Op.op = "open"
       PROVE  EnoughOpen(At(Top, q + 1, o + 1))
  <2>1. p = "main" => q \in {2, 3}
    BY <1>11, <1>14
  <2>2. o + 1 >= 1
    BY <1>2, <1>10
  <2>3. p = "main" /\ q + 1 \in 4..5 => o + 1 >= 2
    BY <1>2, <1>3, <1>10, <2>1
  <2>4. o + 1 >= 0
    BY <1>2, <1>10
  <2>5. QED
    BY <1>9, <1>12, <2>2, <2>3, <2>4 DEF EnoughOpen, m
<1>15. ASSUME ~Ended, Op.op = "close"
       PROVE  EnoughOpen(At(Top, q + 1, o - 1)) /\ o >= 1
  <2>1. CASE p = "main"
    <3>1. q \in {5, m}
      BY <1>11, <1>15, <2>1
    <3>2. o >= 1 /\ (q = 5 => o >= 2)
      BY <1>3, <1>10, <2>1, <3>1
    <3>3. o - 1 >= 0 /\ (q + 1 \in 3..m => o - 1 >= 1) /\ ~(q + 1 \in 4..5)
      BY <1>2, <1>3, <3>1, <3>2
    <3>4. QED
      BY <1>9, <1>12, <2>1, <3>2, <3>3 DEF EnoughOpen, m
  <2>2. CASE p # "main"
    <3>1. p = "AnchorPass" /\ q = 3
      BY <1>11, <1>15, <2>2
    <3>2. o >= 1 /\ o - 1 >= 0 /\ q + 1 # 3
      BY <1>2, <1>10, <3>1
    <3>3. QED
      BY <1>9, <1>12, <2>2, <3>2 DEF EnoughOpen, m
  <2>3. QED
    BY <2>1, <2>2
<1>16. EnoughOpen(At(Top, l + 1, o))
  BY <1>2, <1>9, <1>10, <1>12 DEF EnoughOpen, m
<1>17. ASSUME Ended, o > 0 PROVE EnoughOpen(At(Top, q, o - 1))
  <2>1. q = l + 1 /\ o - 1 >= 0 /\ q \in Int
    BY <1>1, <1>2, <1>17
  <2>2. QED
    BY <1>9, <1>12, <2>1 DEF EnoughOpen, m
<1>18. QED
  BY <1>7, <1>13, <1>14, <1>15, <1>16, <1>17 DEF q, o, p, l

(* A step of the running frame.                                             *)
LEMMA TopTimed ==
  ASSUME Discipline, Timed, stack # <<>>, flags' = flags, now' = now + 1,
         NEW f \in Frames, stack' = [stack EXCEPT ![Len(stack)] = f], f.pass = Top.pass,
         EnoughOpen(f), scopes' \in Seq(ScopeRecords), spent' \in [Phases -> Int],
         Len(scopes') = Len(scopes) + (f.open - Top.open), Account(scopes', now, spent'),
         (spent' = spent /\ f.pc >= Top.pc) \/ stack'[1].pc > 2
  PROVE  Timed'
<1> DEFINE n == Len(stack)
<1>1. /\ stack \in Seq(Frames) /\ n \in Nat \ {0} /\ Top = stack[n] /\ Top \in Frames
      /\ 1 \in 1..n
  BY TopFrame DEF Discipline, StackOK
<1>2. /\ stack' \in Seq(Frames) /\ Len(stack') = n /\ stack'[n] = f
      /\ \A i \in 1..n : i # n => stack'[i] = stack[i]
  <2> HIDE DEF Frames
  <2>1. QED
    BY <1>1, Exchanged
<1>3. AllOpen(stack') = AllOpen(stack) + (f.open - Top.open)
  <2> DEFINE u == stack'
  <2>1. /\ u \in Seq(Frames) /\ Len(u) = Len(stack)
        /\ \A i \in 1..Len(stack) : i # Len(stack) => u[i] = stack[i]
    BY <1>2
  <2> HIDE DEF u
  <2>2. AllOpen(u) = AllOpen(stack) + (u[Len(stack)].open - stack[Len(stack)].open)
    BY <1>1, <2>1, OpenChanged
  <2>3. QED
    BY <1>1, <1>2, <2>2 DEF u
<1>4. Len(scopes') = AllOpen(stack')
  BY <1>3 DEF Timed
<1>5. \A i \in 1..n : EnoughOpen(stack'[i])
  BY <1>2 DEF Timed
<1>6. \A i \in 1..Len(stack') : EnoughOpen(stack[i])'
  <2>1. Script("main")' = Script("main")
    BY SameScripts
  <2>2. QED
    BY <1>2, <1>5, <2>1 DEF EnoughOpen
<1>7. NotYetCharged'
  <2>1. CASE stack'[1].pc > 2
    <3>1. stack'[1].pc \in Nat
      <4>1. stack'[1] \in Frames
        BY <1>1, <1>2, OpenIsInt
      <4>2. QED
        BY <4>1 DEF Frames
    <3>2. QED
      BY <2>1, <3>1 DEF NotYetCharged
  <2>2. CASE spent' = spent /\ f.pc >= Top.pc
    <3>1. stack[1].pc <= stack'[1].pc /\ stack[1].pc \in Nat /\ stack'[1].pc \in Nat
      <4>1. stack[1] \in Frames /\ stack'[1] \in Frames
        BY <1>1, <1>2, OpenIsInt
      <4>2. stack[1].pc \in Nat /\ stack'[1].pc \in Nat
        BY <4>1 DEF Frames
      <4>3. QED
        BY <1>1, <1>2, <2>2, <4>2
    <3>2. QED
      BY <2>2, <3>1 DEF NotYetCharged, Timed
  <2>3. QED
    BY <2>1, <2>2
<1>8. now' \in Int /\ now \in Int
  BY DEF Timed, ClockTypeOK
<1>9. ClockTypeOK'
  BY <1>8 DEF ClockTypeOK
<1>10. Account(scopes', now', spent')
  <2> DEFINE s == scopes'
             c == spent'
             t == now
  <2>1. s \in Seq(ScopeRecords) /\ c \in [Phases -> Int] /\ t \in Int /\ Account(s, t, c)
    BY <1>8
  <2>2. now' = t + 1
    OBVIOUS
  <2> HIDE DEF s, c, t
  <2>3. Account(s, t + 1, c)
    BY <2>1, AccountTicks
  <2>4. QED
    BY <2>2, <2>3 DEF s, c
<1>11. QED
  BY <1>4, <1>6, <1>7, <1>9, <1>10 DEF Timed, Account, KeptAt, AllKept, KeptBy, AllOpen, OpenIn

(* Steps that open or close nothing.                                        *)
Quiet == Options \/ Parse \/ Unless \/ Scan \/ Normalise \/ Build \/ Release \/ FilterLoop \/ PrintStats
           \/ (Call /\ Op.arg \in cache) \/ NoDirectory

LEMMA QuietTimed ==
  ASSUME Discipline, Timed, flags' = flags, now' = now + 1, Quiet
  PROVE  Timed'
<1>1. stack # <<>> /\ ~Ended /\ Op.op \notin {"open", "close"}
  BY DEF Quiet, Options, Parse, Unless, Scan, Normalise, Build, Release, FilterLoop, PrintStats,
     Call, NoDirectory, Op
<1>2. scopes' = scopes /\ spent' = spent
  BY DEF Quiet, Options, Parse, Unless, Scan, Normalise, Build, Release, FilterLoop, PrintStats,
     Call, NoDirectory
<1>3. /\ Top \in Frames /\ Top = stack[Len(stack)] /\ stack \in Seq(Frames) /\ Len(stack) \in Nat \ {0}
      /\ Advanced = [stack EXCEPT ![Len(stack)] = At(Top, Top.pc + 1, Top.open)]
      /\ Returning = [stack EXCEPT ![Len(stack)] = [Top EXCEPT !.pc = Len(Script(Top.pass)) + 1]]
      /\ Len(Script(Top.pass)) \in Nat /\ Top.pc \in 1..(Len(Script(Top.pass)) + 1)
  BY <1>1, MovedTop, TopFrame DEF Discipline
<1>4. Top.pc \in Nat \ {0} /\ Top.open \in Int
  BY <1>3 DEF Frames
<1> DEFINE p == Top.pass
           o == Top.open
<1>0. p \in Passes \cup {"main"} /\ o \in Int /\ p = Top.pass /\ o = Top.open
  BY <1>3 DEF Frames
<1> HIDE DEF p, o
<1>9. \A k \in Nat \ {0} : /\ At(Top, k, Top.open) \in Frames
                            /\ At(Top, k, Top.open).pass = Top.pass
                            /\ At(Top, k, Top.open).pc = k
                            /\ At(Top, k, Top.open).open = Top.open
                            /\ [Top EXCEPT !.pc = k] = At(Top, k, Top.open)
  <2> TAKE k \in Nat \ {0}
  <2>1. At(Top, k, Top.open) = [pass |-> p, pc |-> k, open |-> o]
    BY <1>0 DEF At
  <2>2. [pass |-> p, pc |-> k, open |-> o] \in Frames
    BY <1>0 DEF Frames
  <2>3. [Top EXCEPT !.pc = k] = [pass |-> p, pc |-> k, open |-> o]
    BY <1>0, <1>3 DEF Frames
  <2>4. QED
    BY <1>0, <2>1, <2>2, <2>3
<1>5. PICK f \in Frames : /\ stack' = [stack EXCEPT ![Len(stack)] = f]
                          /\ f.pass = Top.pass /\ f.open = Top.open /\ f.pc >= Top.pc
                          /\ EnoughOpen(f)
  <2>1. CASE stack' = Advanced
    <3>1. Top.pc + 1 \in Nat \ {0} /\ Top.pc + 1 >= Top.pc
      BY <1>4
    <3>2. EnoughOpen(At(Top, Top.pc + 1, Top.open))
      BY <1>1, EnoughMoves
    <3>3. /\ At(Top, Top.pc + 1, Top.open) \in Frames
          /\ At(Top, Top.pc + 1, Top.open).pass = Top.pass
          /\ At(Top, Top.pc + 1, Top.open).pc = Top.pc + 1
          /\ At(Top, Top.pc + 1, Top.open).open = Top.open
      BY <1>9, <3>1
    <3>4. QED
      BY <1>3, <2>1, <3>1, <3>2, <3>3
  <2>2. CASE stack' = Returning
    <3> DEFINE e == Len(Script(Top.pass)) + 1
    <3>1. e \in Nat \ {0} /\ e >= Top.pc
      BY <1>3
    <3>2. EnoughOpen(At(Top, e, Top.open))
      BY <1>1, EnoughMoves
    <3>3. stack' = [stack EXCEPT ![Len(stack)] = [Top EXCEPT !.pc = e]]
      BY <1>3, <2>2
    <3> HIDE DEF e
    <3>4. /\ At(Top, e, Top.open) \in Frames
          /\ At(Top, e, Top.open).pass = Top.pass
          /\ At(Top, e, Top.open).pc = e
          /\ At(Top, e, Top.open).open = Top.open
          /\ [Top EXCEPT !.pc = e] = At(Top, e, Top.open)
      BY <1>9, <3>1
    <3>5. QED
      BY <3>1, <3>2, <3>3, <3>4
  <2>3. CASE stack' = stack
    <3>1. stack = [stack EXCEPT ![Len(stack)] = Top]
      BY <1>3
    <3>2. Top.pc >= Top.pc
      BY <1>4
    <3>3. EnoughOpen(Top)
      BY <1>1, EnoughMoves
    <3>4. QED
      BY <1>3, <2>3, <3>1, <3>2, <3>3
  <2>4. QED
    BY <2>1, <2>2, <2>3 DEF Quiet, Options, Parse, Unless, Scan, Normalise, Build, Release,
       FilterLoop, PrintStats, Call, NoDirectory
<1>6. /\ scopes' \in Seq(ScopeRecords) /\ spent' \in [Phases -> Int]
      /\ Account(scopes', now, spent')
  BY <1>2 DEF Timed, ClockTypeOK
<1>7. Len(scopes') = Len(scopes) + (f.open - Top.open)
  <2>1. Len(scopes) \in Nat
    BY DEF Timed, ClockTypeOK
  <2>2. \A a \in Nat, b \in Int : a = a + (b - b)
    OBVIOUS
  <2>3. QED
    BY <1>2, <1>4, <1>5, <2>1, <2>2
<1>8. QED
  BY <1>1, <1>2, <1>5, <1>6, <1>7, TopTimed

LEMMA RunningFrame ==
  ASSUME Discipline, stack # <<>>
  PROVE  /\ Top \in Frames /\ Top = stack[Len(stack)] /\ stack \in Seq(Frames)
         /\ Len(stack) \in Nat \ {0} /\ Top.pc \in Nat \ {0} /\ Top.open \in Int
         /\ Top.pass \in Passes \cup {"main"}
         /\ Top.pass = "main" <=> Len(stack) = 1
         /\ Len(Script("main")) \in 7..12
         /\ Ended /\ Top.pass = "main" => Top.pc > 2
         /\ Op.op = "open" => Op.arg \in Phases /\ (Top.pass = "main" => Top.pc \in {2, 3})
         /\ Op.op = "close" /\ Top.pass = "main" => Top.pc > 2
         /\ Op.op = "need" => Op.arg \in Passes
<1>1. /\ Top \in Frames /\ Top = stack[Len(stack)] /\ stack \in Seq(Frames)
      /\ Len(stack) \in Nat \ {0}
      /\ Top.pass = "main" <=> Len(stack) = 1
      /\ Ended <=> Top.pc = Len(Script(Top.pass)) + 1
      /\ Ended => Op.op = "none"
      /\ ~Ended => Top.pc \in DOMAIN Script(Top.pass) /\ Op = Script(Top.pass)[Top.pc]
      /\ DOMAIN Script(Top.pass) = 1..Len(Script(Top.pass))
  BY TopFrame DEF Discipline, StackOK
<1>2. Top.pc \in Nat \ {0} /\ Top.open \in Int /\ Top.pass \in Passes \cup {"main"}
  BY <1>1 DEF Frames
<1>3. /\ Len(Script("main")) \in 7..12
      /\ \A k \in 1..Len(Script("main")) : MainOp(Script("main"), k)
  BY MainOps DEF Discipline, DriverTypeOK
<1>4. ~Ended /\ Top.pass = "main" => MainOp(Script("main"), Top.pc) /\ Op = Script("main")[Top.pc]
  BY <1>1, <1>3
<1>5. ~Ended /\ Top.pass \in Passes => PassOp(Script(Top.pass), Top.pass, Top.pc)
  BY <1>1, PassScript
<1>6. "open" # "none" /\ "close" # "none" /\ "need" # "none"
  OBVIOUS
<1>7. \A l \in 7..12 : 5 > 2 /\ l > 2 /\ l + 1 > 2
  OBVIOUS
<1>8. Ended /\ Top.pass = "main" => Top.pc > 2
  BY <1>1, <1>3, <1>7
<1>9. Op.op = "close" /\ Top.pass = "main" => Top.pc > 2
  BY <1>1, <1>3, <1>4, <1>6, <1>7 DEF MainOp
<1>10. Op.op = "open" => Op.arg \in Phases /\ (Top.pass = "main" => Top.pc \in {2, 3})
  BY <1>1, <1>2, <1>4, <1>5, <1>6 DEF MainOp, PassOp
<1>11. Op.op = "need" => Op.arg \in Passes
  BY <1>1, <1>2, <1>4, <1>5, <1>6 DEF MainOp, PassOp
<1>12. QED
  BY <1>1, <1>2, <1>3, <1>8, <1>9, <1>10, <1>11

LEMMA OpenTimed ==
  ASSUME Discipline, Timed, flags' = flags, now' = now + 1, Open
  PROVE  Timed'
<1>1. stack # <<>> /\ ~Ended /\ Op.op = "open"
  BY DEF Open, Op
<1>2. /\ Top \in Frames /\ Top = stack[Len(stack)] /\ stack \in Seq(Frames)
      /\ Len(stack) \in Nat \ {0} /\ Top.pc \in Nat \ {0} /\ Top.open \in Int
      /\ Top.pass = "main" <=> Len(stack) = 1
      /\ Len(Script("main")) \in 7..12
      /\ Op.arg \in Phases /\ (Top.pass = "main" => Top.pc \in {2, 3})
  BY <1>1, RunningFrame
<1> DEFINE f == At(Top, Top.pc + 1, Top.open + 1)
           e == Scope(Op.arg)
<1>3. stack' = [stack EXCEPT ![Len(stack)] = f]
  BY <1>1, MovedTop DEF Discipline, Open
<1>4. Top.pc + 1 \in Nat \ {0} /\ Top.open + 1 \in Int /\ Top.pc + 1 >= Top.pc
  BY <1>2
<1>5. f \in Frames /\ f.pass = Top.pass /\ f.pc = Top.pc + 1 /\ f.open = Top.open + 1
  <2>1. Top.pass \in Passes \cup {"main"}
    BY <1>1, RunningFrame
  <2>2. QED
    BY <1>4, <2>1 DEF At, Frames
<1>6. EnoughOpen(f)
  BY <1>1, EnoughMoves
<1>7. scopes \in Seq(ScopeRecords) /\ now \in Int /\ spent \in [Phases -> Int]
  BY DEF Timed, ClockTypeOK
<1>8. e \in ScopeRecords /\ e.start = now /\ e.child = 0
  BY <1>2, <1>7 DEF Scope, ScopeRecords
<1>9. scopes = <<>> => SumFunctionOnSet(spent, Phases) = 0
  <2> SUFFICES ASSUME scopes = <<>> PROVE SumFunctionOnSet(spent, Phases) = 0
    OBVIOUS
  <2>1. ~(stack[1].pc \in 3..Len(Script("main")))
    BY <1>1, SomeOpen
  <2>2. ~(Len(stack) > 1)
    <3>1. \A m \in 7..12 : \A k \in 6..m : k \in 3..m
      OBVIOUS
    <3>2. QED
      BY <1>2, <2>1, <3>1, MainBelow
  <2>3. Len(stack) = 1
    <3>1. \A k \in Nat \ {0} : ~(k > 1) => k = 1
      OBVIOUS
    <3>2. QED
      BY <1>2, <2>2, <3>1
  <2>4. stack[1].pc = 2
    <3>1. \A m \in 7..12 : 3 \in 3..m
      OBVIOUS
    <3>2. QED
      BY <1>2, <2>1, <2>3, <3>1
  <2>5. \A p \in Phases : spent[p] = 0
    BY <1>1, <2>4 DEF Timed, NotYetCharged
  <2>6. IsFiniteSet(Phases)
    BY <1>7, ChargesAdd
  <2>7. QED
    BY <2>5, <2>6, SumZero
<1>10. /\ scopes' \in Seq(ScopeRecords) /\ Len(scopes') = Len(scopes) + 1
       /\ Account(scopes', now, spent)
  <2>1. scopes' = Append(scopes, e)
    BY DEF Open
  <2>2. Account(scopes, now, spent)
    BY DEF Timed
  <2> HIDE DEF e, ScopeRecords
  <2>3. /\ Account(Append(scopes, e), now, spent)
        /\ Append(scopes, e) \in Seq(ScopeRecords) /\ Len(Append(scopes, e)) = Len(scopes) + 1
    BY <1>7, <1>8, <1>9, <2>2, AccountOpens
  <2>4. QED
    BY <2>1, <2>3
<1>11. spent' = spent
  BY DEF Open
<1>12. Len(scopes') = Len(scopes) + (f.open - Top.open)
  <2>1. \A b \in Int : (b + 1) - b = 1
    OBVIOUS
  <2>2. QED
    BY <1>2, <1>5, <1>10, <2>1
<1> HIDE DEF f
<1>13. QED
  BY <1>1, <1>3, <1>4, <1>5, <1>6, <1>7, <1>10, <1>11, <1>12, TopTimed

LEMMA CloseTimed ==
  ASSUME Discipline, Timed, flags' = flags, now' = now + 1, Close \/ Unwind
  PROVE  Timed'
<1>1. stack # <<>>
  BY DEF Close, Unwind, Op
<1>2. /\ Top \in Frames /\ Top = stack[Len(stack)] /\ stack \in Seq(Frames)
      /\ Len(stack) \in Nat \ {0} /\ Top.pc \in Nat \ {0} /\ Top.open \in Int
      /\ Top.pass \in Passes \cup {"main"}
      /\ Top.pass = "main" <=> Len(stack) = 1
      /\ Len(Script("main")) \in 7..12
      /\ Ended /\ Top.pass = "main" => Top.pc > 2
      /\ Op.op = "close" /\ Top.pass = "main" => Top.pc > 2
  BY <1>1, RunningFrame
<1> DEFINE o == Top.open - 1
<1>3. PICK q \in Nat \ {0} :
        /\ stack' = [stack EXCEPT ![Len(stack)] = At(Top, q, o)]
        /\ EnoughOpen(At(Top, q, o)) /\ Top.open >= 1
        /\ Top.pass = "main" => q > 2
  <2>1. CASE Close
    <3>1. ~Ended /\ Op.op = "close"
      BY <2>1 DEF Close, Op
    <3>2. stack' = [stack EXCEPT ![Len(stack)] = At(Top, Top.pc + 1, o)]
      BY <1>1, <2>1, MovedTop DEF Discipline, Close
    <3>3. EnoughOpen(At(Top, Top.pc + 1, o)) /\ Top.open >= 1
      BY <1>1, <3>1, EnoughMoves
    <3>4. \A k \in Nat \ {0} : k + 1 \in Nat \ {0} /\ (k > 2 => k + 1 > 2)
      OBVIOUS
    <3>5. QED
      BY <1>2, <3>1, <3>2, <3>3, <3>4
  <2>2. CASE Unwind
    <3>1. Ended /\ Top.open > 0
      BY <2>2 DEF Unwind
    <3>2. stack' = [stack EXCEPT ![Len(stack)] = At(Top, Top.pc, o)]
      BY <1>1, <2>2, MovedTop DEF Discipline, Unwind
    <3>3. EnoughOpen(At(Top, Top.pc, o)) /\ Top.open >= 1
      <4>1. \A b \in Int : b > 0 => b >= 1
        OBVIOUS
      <4>2. QED
        BY <1>1, <1>2, <3>1, <4>1, EnoughMoves
    <3>4. QED
      BY <1>2, <3>1, <3>2, <3>3
  <2>3. QED
    BY <2>1, <2>2
<1> DEFINE f == At(Top, q, o)
<1>4. f \in Frames /\ f.pass = Top.pass /\ f.pc = q /\ f.open = o /\ o \in Int
  BY <1>2, <1>3 DEF At, Frames
<1>5. scopes \in Seq(ScopeRecords) /\ now \in Int /\ spent \in [Phases -> Int]
      /\ Account(scopes, now, spent)
  BY DEF Timed, ClockTypeOK
<1>6. scopes # <<>>
  <2>1. \A i \in 1..Len(stack) : stack[i].open >= 0
    BY DEF Timed, EnoughOpen
  <2>2. Len(stack) \in 1..Len(stack)
    BY <1>2
  <2>3. AllOpen(stack) >= Top.open /\ AllOpen(stack) \in Int
    BY <1>2, <2>1, <2>2, OpenAtLeast, OpenIsInt
  <2>4. Len(scopes) >= 1
    BY <1>2, <1>3, <2>3 DEF Timed
  <2>5. Len(<<>>) = 0
    BY EmptySeq
  <2>6. QED
    BY <2>4, <2>5
<1>7. scopes' = ClosedOf(scopes, now) /\ spent' = ChargedTo(scopes, now, spent)
  BY DEF Close, Unwind, Closed, ClosedOf, Charged, ChargedTo, Elapsed
<1>8. /\ Account(scopes', now, spent') /\ spent' \in [Phases -> Int]
      /\ scopes' \in Seq(ScopeRecords) /\ Len(scopes') = Len(scopes) - 1
  <2> HIDE DEF ScopeRecords
  <2>1. QED
    BY <1>5, <1>6, <1>7, AccountCloses
<1>9. Len(scopes') = Len(scopes) + (f.open - Top.open)
  <2>1. \A b \in Int : (b - 1) - b = -1
    OBVIOUS
  <2>2. \A a \in Nat : a - 1 = a + (-1)
    OBVIOUS
  <2>3. Len(scopes) \in Nat
    BY <1>5
  <2>4. QED
    BY <1>2, <1>4, <1>8, <2>1, <2>2, <2>3
<1>10. stack'[1].pc > 2
  <2>1. /\ stack'[Len(stack)] = f
        /\ \A i \in 1..Len(stack) : i # Len(stack) => stack'[i] = stack[i]
    <3> HIDE DEF f, Frames
    <3>1. stack' = [stack EXCEPT ![Len(stack)] = f]
      BY <1>3 DEF f
    <3>2. QED
      BY <1>1, <1>2, <1>4, <3>1, Exchanged
  <2>2. CASE Len(stack) = 1
    BY <1>2, <1>3, <1>4, <2>1, <2>2
  <2>3. CASE Len(stack) # 1
    <3>0. \A k \in Nat \ {0} : k # 1 => k > 1 /\ 1 \in 1..k
      OBVIOUS
    <3>1. Len(stack) > 1 /\ 1 \in 1..Len(stack)
      BY <1>2, <2>3, <3>0
    <3>2. stack[1].pc \in 6..Len(Script("main"))
      BY <3>1, MainBelow
    <3>3. \A m \in 7..12 : \A k \in 6..m : k > 2
      OBVIOUS
    <3>4. stack'[1] = stack[1]
      BY <2>1, <2>3, <3>1
    <3>5. QED
      BY <1>2, <3>2, <3>3, <3>4
  <2>4. QED
    BY <2>2, <2>3
<1> HIDE DEF f
<1>11. stack' = [stack EXCEPT ![Len(stack)] = f] /\ EnoughOpen(f)
  BY <1>3 DEF f
<1>12. QED
  BY <1>1, <1>4, <1>8, <1>9, <1>10, <1>11, TopTimed

(* The clock moves and nothing is opened or closed.                         *)
LEMMA StillTimed ==
  ASSUME Discipline, Timed, flags' = flags, now' = now + 1, scopes' = scopes, spent' = spent,
         stack' \in Seq(Frames), AllOpen(stack') = AllOpen(stack),
         \A i \in 1..Len(stack') : EnoughOpen(stack'[i]),
         stack' # <<>> => stack # <<>> /\ stack[1].pc <= stack'[1].pc
  PROVE  Timed'
<1>1. /\ scopes \in Seq(ScopeRecords) /\ now \in Int /\ spent \in [Phases -> Int]
      /\ Account(scopes, now, spent)
  BY DEF Timed, ClockTypeOK
<1>2. Account(scopes, now + 1, spent)
  <2> HIDE DEF ScopeRecords
  <2>1. QED
    BY <1>1, AccountTicks
<1>3. \A i \in 1..Len(stack') : EnoughOpen(stack[i])'
  <2>1. Script("main")' = Script("main")
    BY SameScripts
  <2>2. QED
    BY <2>1 DEF EnoughOpen
<1>4. NotYetCharged'
  <2> SUFFICES ASSUME stack' # <<>>, stack'[1].pc <= 2 PROVE \A p \in Phases : spent[p] = 0
    BY DEF NotYetCharged
  <2>1. stack[1].pc \in Nat /\ stack'[1].pc \in Nat
    <3>1. stack \in Seq(Frames) /\ 1 \in 1..Len(stack)
      BY EmptySeq DEF Discipline, StackOK
    <3>2. 1 \in 1..Len(stack')
      BY EmptySeq
    <3>3. stack[1] \in Frames /\ stack'[1] \in Frames
      BY <3>1, <3>2, OpenIsInt
    <3>4. QED
      BY <3>3 DEF Frames
  <2>2. stack[1].pc <= 2
    BY <2>1
  <2>3. QED
    BY <2>2 DEF Timed, NotYetCharged
<1>5. ClockTypeOK'
  <2>1. now' \in Int
    BY <1>1
  <2>2. QED
    BY <1>1, <2>1 DEF ClockTypeOK
<1>6. Account(scopes', now', spent')
  BY <1>2
<1>7. Len(scopes') = AllOpen(stack')
  BY DEF Timed
<1>8. QED
  BY <1>3, <1>4, <1>5, <1>6, <1>7 DEF Timed, Account, KeptAt, AllKept, KeptBy, AllOpen, OpenIn

LEMMA PushTimed ==
  ASSUME Discipline, Timed, flags' = flags, now' = now + 1, Call, Op.arg \notin cache
  PROVE  Timed'
<1> DEFINE n == Len(stack)
           f == At(Top, Top.pc + 1, Top.open)
           a == [stack EXCEPT ![n] = f]
           e == Frame(Op.arg)
           u == Append(a, e)
<1>1. stack # <<>> /\ ~Ended /\ Op.op = "need" /\ Op.op \notin {"open", "close"}
  BY DEF Call, Op
<1>2. /\ Top \in Frames /\ Top = stack[n] /\ stack \in Seq(Frames)
      /\ n \in Nat \ {0} /\ Top.pc \in Nat \ {0} /\ Top.open \in Int
      /\ Top.pass \in Passes \cup {"main"}
      /\ Op.arg \in Passes
  BY <1>1, RunningFrame
<1>3. stack' = u
  BY <1>1, MovedTop DEF Discipline, Call
<1>4. Top.pc + 1 \in Nat \ {0} /\ Top.pc <= Top.pc + 1
  BY <1>2
<1>5. f \in Frames /\ f.pc = Top.pc + 1 /\ f.open = Top.open
  BY <1>2, <1>4 DEF At, Frames
<1>6. e \in Frames /\ e.open = 0 /\ EnoughOpen(e)
  <2>1. e.pass \in Passes /\ e.pc = 1 /\ e.open = 0
    BY <1>2 DEF Frame
  <2>2. e \in Frames
    BY <1>2 DEF Frame, Frames
  <2>3. "main" \notin Passes
    BY DEF Passes
  <2> HIDE DEF e
  <2>4. QED
    BY <2>1, <2>2, <2>3 DEF EnoughOpen
<1>7. EnoughOpen(f)
  BY <1>1, EnoughMoves
<1> HIDE DEF f, e
<1>8. /\ a \in Seq(Frames) /\ Len(a) = n /\ a[n] = f
      /\ \A i \in 1..n : i # n => a[i] = stack[i]
  <2> HIDE DEF Frames
  <2>1. QED
    BY <1>1, <1>2, <1>5, Exchanged
<1> HIDE DEF a
<1>9. /\ u \in Seq(Frames) /\ Len(u) = n + 1 /\ u[n + 1] = e
      /\ \A i \in 1..n : u[i] = a[i]
  <2> HIDE DEF Frames
  <2>1. DOMAIN a = 1..n
    BY <1>8
  <2>2. QED
    <3>1. /\ Append(a, e) \in Seq(Frames) /\ Len(Append(a, e)) = Len(a) + 1
          /\ \A i \in DOMAIN a : Append(a, e)[i] = a[i]
          /\ Append(a, e)[Len(a) + 1] = e
      BY <1>6, <1>8, Appending
    <3>2. QED
      BY <1>8, <2>1, <3>1
<1> HIDE DEF u
<1>10. AllOpen(a) = AllOpen(stack)
  <2>1. AllOpen(a) = AllOpen(stack) + (a[n].open - stack[n].open)
    BY <1>1, <1>2, <1>8, OpenChanged
  <2>2. AllOpen(stack) \in Int
    BY <1>2, OpenIsInt
  <2>3. \A x, y \in Int : x + (y - y) = x
    OBVIOUS
  <2>4. QED
    BY <1>2, <1>5, <1>8, <2>1, <2>2, <2>3
<1>11. AllOpen(u) = AllOpen(stack)
  <2>1. \A i \in 1..Len(a) : u[i].open = a[i].open
    BY <1>8, <1>9
  <2>2. AllOpen(u) = u[Len(u)].open + AllOpen(a)
    BY <1>8, <1>9, <2>1, OpenPushed
  <2>3. AllOpen(a) \in Int
    BY <1>8, OpenIsInt
  <2>4. \A x \in Int : 0 + x = x
    OBVIOUS
  <2>5. QED
    BY <1>6, <1>9, <1>10, <2>2, <2>3, <2>4
<1>12. \A i \in 1..(n + 1) : EnoughOpen(u[i])
  <2>1. \A i \in 1..n : EnoughOpen(a[i])
    BY <1>7, <1>8 DEF Timed
  <2>2. \A i \in 1..(n + 1) : i \in 1..n \/ i = n + 1
    BY <1>2
  <2>3. QED
    BY <1>6, <1>9, <2>1, <2>2
<1>13. stack[1].pc <= u[1].pc
  <2>1. 1 \in 1..n
    BY <1>2
  <2>2. u[1] = a[1]
    BY <1>9, <2>1
  <2>3. CASE n = 1
    BY <1>2, <1>4, <1>5, <1>8, <2>2, <2>3
  <2>4. CASE n # 1
    <3>1. u[1] = stack[1]
      BY <1>8, <2>1, <2>2, <2>4
    <3>2. stack[1].pc \in Nat
      <4>1. stack[1] \in Frames
        BY <1>2, <2>1, OpenIsInt
      <4>2. QED
        BY <4>1 DEF Frames
    <3>3. QED
      BY <3>1, <3>2
  <2>5. QED
    BY <2>3, <2>4
<1>14. scopes' = scopes /\ spent' = spent
  BY DEF Call
<1>15. QED
  BY <1>1, <1>3, <1>9, <1>11, <1>12, <1>13, <1>14, StillTimed

LEMMA PopTimed ==
  ASSUME Discipline, Discipline', Timed, flags' = flags, now' = now + 1, Leave
  PROVE  Timed'
<1> DEFINE n == Len(stack)
           u == SubSeq(stack, 1, n - 1)
<1>1. stack # <<>> /\ Top.open = 0 /\ stack' = u /\ scopes' = scopes /\ spent' = spent
  BY DEF Leave
<1>2. Top = stack[n] /\ stack \in Seq(Frames) /\ n \in Nat \ {0}
  BY <1>1, RunningFrame
<1>3. n - 1 \in Int /\ n - 1 \in Nat /\ \A i \in 1..(n - 1) : i \in 1..n /\ 1 + i - 1 = i
  BY <1>2
<1>4. n = (n - 1) + 1 /\ (n - 1) - 1 + 1 = n - 1 /\ (1 <= n - 1 \/ n - 1 = 0)
  <2>1. \A k \in Nat \ {0} : k = (k - 1) + 1 /\ (k - 1) - 1 + 1 = k - 1 /\ (1 <= k - 1 \/ k - 1 = 0)
    OBVIOUS
  <2>2. QED
    BY <1>2, <2>1
<1>5. /\ u \in Seq(Frames) /\ Len(u) = n - 1
      /\ \A i \in 1..(n - 1) : u[i] = stack[i]
  <2> DEFINE m == n - 1
  <2>1. \A i \in 1..m : stack[i] \in Frames
    BY <1>2, <1>3, OpenIsInt
  <2>2. m \in Int /\ m - 1 + 1 = m /\ (1 <= m \/ m = 0) /\ \A i \in 1..m : 1 + i - 1 = i
    BY <1>3, <1>4
  <2> HIDE DEF m, Frames
  <2>3. /\ SubSeq(stack, 1, m) \in Seq(Frames)
        /\ Len(SubSeq(stack, 1, m)) = IF 1 <= m THEN m - 1 + 1 ELSE 0
        /\ \A i \in 1..(m - 1 + 1) : SubSeq(stack, 1, m)[i] = stack[1 + i - 1]
    BY <2>1, <2>2, SubSeqProperties
  <2>4. QED
    BY <2>2, <2>3 DEF m
<1> HIDE DEF u
<1>6. AllOpen(u) = AllOpen(stack)
  <2>1. \A i \in 1..Len(u) : stack[i].open = u[i].open
    BY <1>5
  <2>2. Len(stack) = Len(u) + 1
    BY <1>4, <1>5
  <2>3. AllOpen(stack) = stack[n].open + AllOpen(u)
    BY <1>2, <1>5, <2>1, <2>2, OpenPushed
  <2>4. AllOpen(u) \in Int
    BY <1>5, OpenIsInt
  <2>5. \A x \in Int : 0 + x = x
    OBVIOUS
  <2>6. QED
    BY <1>1, <1>2, <2>3, <2>4, <2>5
<1>7. \A i \in 1..Len(u) : EnoughOpen(u[i])
  BY <1>3, <1>5 DEF Timed
<1>8. u # <<>> => stack[1].pc <= u[1].pc
  <2> SUFFICES ASSUME u # <<>> PROVE stack[1].pc <= u[1].pc
    OBVIOUS
  <2>1. 1 \in 1..Len(u)
    <3>1. Len(u) \in Nat \ {0}
      <4> HIDE DEF Frames
      <4>1. QED
        BY <1>5, EmptySeq
    <3>2. \A k \in Nat \ {0} : 1 \in 1..k
      OBVIOUS
    <3>3. QED
      BY <3>1, <3>2
  <2>2. u[1] = stack[1] /\ 1 \in 1..n
    BY <1>3, <1>5, <2>1
  <2>3. stack[1].pc \in Nat
    <3>1. stack[1] \in Frames
      BY <1>2, <2>2, OpenIsInt
    <3>2. QED
      BY <3>1 DEF Frames
  <2>4. QED
    BY <2>2, <2>3
<1>9. QED
  BY <1>1, <1>5, <1>6, <1>7, <1>8, StillTimed

LEMMA ClockInit == DriverInit => Timed
<1> SUFFICES ASSUME DriverInit PROVE Timed
  OBVIOUS
<1> DEFINE e == Frame("main")
<1>1. stack = <<e>> /\ now = 0 /\ scopes = <<>> /\ spent = [p \in Phases |-> 0]
  BY DEF DriverInit
<1>2. e \in Frames /\ e.open = 0 /\ e.pc = 1 /\ e.pass = "main"
  BY DEF Frame, Frames
<1>3. ClockTypeOK
  <2>1. scopes \in Seq(ScopeRecords)
    BY <1>1, EmptySeq
  <2>2. QED
    BY <1>1, <2>1 DEF ClockTypeOK
<1> HIDE DEF e
<1>4. stack \in Seq(Frames) /\ Len(stack) = 1 /\ stack[1] = e
  <2> HIDE DEF Frames
  <2>1. QED
    BY <1>1, <1>2
<1>5. \A i \in 1..Len(stack) : EnoughOpen(stack[i])
  <2>1. \A i \in 1..1 : i = 1
    OBVIOUS
  <2>2. EnoughOpen(e)
    BY <1>2 DEF EnoughOpen
  <2>3. QED
    BY <1>4, <2>1, <2>2
<1>6. AllOpen(stack) = 0
  <2> DEFINE f == OpenIn(stack)
             S == 1..Len(stack)
  <2>1. IsFiniteSet(S) /\ \A i \in S : f[i] = 0
    <3>1. \A i \in 1..1 : i = 1
      OBVIOUS
    <3>2. IsFiniteSet(S) /\ \A i \in S : f[i] = stack[i].open
      BY <1>4, OpenIsInt
    <3>3. \A i \in S : i = 1
      BY <1>4, <3>1
    <3>4. QED
      BY <1>2, <1>4, <3>2, <3>3
  <2> HIDE DEF f, S
  <2>2. SumFunctionOnSet(f, S) = 0
    BY <2>1, SumZero
  <2>3. QED
    BY <2>2 DEF AllOpen, f, S
<1>7. Len(scopes) = 0
  BY <1>1, EmptySeq
<1>8. NotYetCharged
  BY <1>1 DEF NotYetCharged
<1>9. Account(scopes, now, spent)
  <2>1. 1..0 = {}
    OBVIOUS
  <2>2. QED
    BY <1>1, <1>7, <2>1 DEF Account
<1>10. QED
  BY <1>3, <1>5, <1>6, <1>7, <1>8, <1>9 DEF Timed

LEMMA ClockStep == Discipline /\ Timed /\ [DriverNext]_driverVars => Timed'
<1> SUFFICES ASSUME Discipline, Timed, [DriverNext]_driverVars PROVE Timed'
  OBVIOUS
<1>1. Discipline'
  BY DisciplineStep
<1>2. flags' = flags
  BY DEF DriverNext, driverVars
<1>3. CASE UNCHANGED driverVars
  <2>1. stack' = stack /\ scopes' = scopes /\ spent' = spent /\ now' = now
    BY <1>3 DEF driverVars
  <2>2. Script("main")' = Script("main")
    BY <1>2, SameScripts
  <2>3. QED
    BY <2>1, <2>2 DEF Timed, ClockTypeOK, EnoughOpen, NotYetCharged, Account, KeptAt, AllKept,
       KeptBy, AllOpen, OpenIn
<1>4. CASE DriverNext
  <2>1. now' = now + 1
    BY <1>4 DEF DriverNext
  <2>2. CASE Quiet
    BY <1>2, <2>1, <2>2, QuietTimed
  <2>3. CASE Open
    BY <1>2, <2>1, <2>3, OpenTimed
  <2>4. CASE Close \/ Unwind
    BY <1>2, <2>1, <2>4, CloseTimed
  <2>5. CASE Call /\ Op.arg \notin cache
    BY <1>2, <2>1, <2>5, PushTimed
  <2>6. CASE Leave
    BY <1>1, <1>2, <2>1, <2>6, PopTimed
  <2>7. QED
    BY <1>4, <2>2, <2>3, <2>4, <2>5, <2>6 DEF DriverNext, Quiet
<1>5. QED
  BY <1>3, <1>4

(* In every mode and for every unit, also one whose body is cut short, each *)
(* tick of the clock is charged to one phase, however phases nest.          *)
THEOREM Time == DriverSpec => [](Clocked /\ TimeConserved)
<1>1. DriverSpec => []Timed
  BY ClockInit, ClockStep, PassesDisciplined, PTL DEF DriverSpec
<1>2. Discipline /\ Timed => Clocked /\ TimeConserved
  BY TimedIsClocked DEF Discipline, StackOK, Clocked
<1>3. QED
  BY <1>1, <1>2, PassesDisciplined, PTL

----------------------------------------------------------------------------
(* The counters.                                                            *)

LEMMA NamesFinite == IsFiniteSet(Names)
<1>1. IsFiniteSet(1..Len(Chain))
  BY ChainIsFinite, FS_Interval
<1>2. Chain \in [1..Len(Chain) -> Names]
  <2>1. Chain \in Seq(STRING)
    BY ChainAssumption
  <2>2. Chain = [i \in 1..Len(Chain) |-> Chain[i]]
    BY <2>1
  <2>3. QED
    BY <2>2, ChainIsFinite
<1>3. Chain \in Surjection(1..Len(Chain), Names)
  BY <1>2 DEF Surjection, Names
<1>4. QED
  BY <1>1, <1>3, FS_Surjection

LEMMA DecidedInNat ==
  ASSUME IInv
  PROVE  /\ Decided \in Nat /\ totalPairs \in Nat /\ Decided <= totalPairs
         /\ totalPairs <= Len(matches) /\ Len(matches) \in Nat
         /\ phase = "ask" => totalPairs = Decided + 1 /\ totalPairs \notin 1..Decided
                              /\ 1..totalPairs = (1..Decided) \cup {totalPairs}
         /\ phase # "ask" => totalPairs = Decided
         /\ \A i \in DOMAIN Chain : HitBy(i) \subseteq 1..Decided /\ IsFiniteSet(HitBy(i))
                                     /\ Cardinality(HitBy(i)) \in Nat
<1>1. totalPairs \in Nat /\ totalPairs <= Len(matches) /\ Len(matches) \in Nat
  BY DEF IInv, TypeOK
<1>2. phase = "ask" => totalPairs >= 1
  BY DEF IInv, Asking
<1>3. Decided \in Nat /\ Decided <= totalPairs /\ (phase = "ask" => totalPairs = Decided + 1)
      /\ (phase # "ask" => totalPairs = Decided)
  BY <1>1, <1>2 DEF Decided
<1>4. \A d \in Nat : d + 1 \notin 1..d /\ 1..(d + 1) = (1..d) \cup {d + 1}
  OBVIOUS
<1>5. IsFiniteSet(1..Decided)
  BY <1>3, FS_Interval
<1>6. ASSUME NEW i \in DOMAIN Chain
      PROVE  HitBy(i) \subseteq 1..Decided /\ IsFiniteSet(HitBy(i)) /\ Cardinality(HitBy(i)) \in Nat
  <2>1. HitBy(i) \subseteq 1..Decided
    BY DEF HitBy
  <2>2. IsFiniteSet(HitBy(i))
    BY <1>5, <2>1, FS_Subset
  <2>3. QED
    BY <2>1, <2>2, FS_CardinalityType
<1>7. QED
  BY <1>1, <1>3, <1>4, <1>6

(* No pair decided in this step.                                            *)
LEMMA SameHitBy ==
  ASSUME matches' = matches, disabled' = disabled, Decided' = Decided
  PROVE  \A i : HitBy(i)' = HitBy(i)
  BY DEF HitBy, Asked, Enabled

(* The pair in hand decided.                                                *)
InHand(i) == Chain[i] \in matches[totalPairs] /\ Asked(i, totalPairs)
LEMMA HitByGrows ==
  ASSUME IInv, phase = "ask", matches' = matches, disabled' = disabled, totalPairs' = totalPairs,
         phase' = "fetch", NEW i \in DOMAIN Chain
  PROVE  /\ Decided' = Decided + 1
         /\ Cardinality(HitBy(i)') = Cardinality(HitBy(i)) + (IF InHand(i) THEN 1 ELSE 0)
<1>1. /\ Decided \in Nat /\ totalPairs = Decided + 1 /\ totalPairs \notin 1..Decided
      /\ 1..totalPairs = (1..Decided) \cup {totalPairs}
      /\ IsFiniteSet(HitBy(i)) /\ HitBy(i) \subseteq 1..Decided /\ Cardinality(HitBy(i)) \in Nat
  BY DecidedInNat
<1>2. Decided' = totalPairs
  BY DEF Decided
<1>3. HitBy(i)' = HitBy(i) \cup (IF InHand(i) THEN {totalPairs} ELSE {})
  <2>1. HitBy(i)' = {p \in 1..totalPairs : Chain[i] \in matches[p] /\ Asked(i, p)}
    BY <1>2 DEF HitBy, Asked, Enabled
  <2>2. QED
    BY <1>1, <2>1 DEF HitBy, InHand
<1>4. totalPairs \notin HitBy(i)
  BY <1>1
<1>5. Cardinality(HitBy(i) \cup {totalPairs}) = Cardinality(HitBy(i)) + 1
  BY <1>1, <1>4, FS_AddElement
<1>6. CASE InHand(i)
  BY <1>1, <1>2, <1>3, <1>5, <1>6
<1>7. CASE ~InHand(i)
  <2>1. HitBy(i)' = HitBy(i)
    BY <1>3, <1>7
  <2>2. QED
    BY <1>1, <1>2, <1>7, <2>1
<1>8. QED
  BY <1>6, <1>7

LEMMA TallyInit == Init => Tally
<1> SUFFICES ASSUME Init PROVE Tally
  OBVIOUS
<1>1. IInv
  BY InitInv
<1>2. phase = "options" /\ disabled = {} /\ totalPairs = 0 /\ records = <<>> /\ survivors = <<>>
      /\ hits = [h \in Names |-> 0]
  BY DEF Init, Start
<1>3. Decided = 0
  BY <1>2 DEF Decided
<1>4. 1..0 = {} /\ Len(<<>>) = 0 /\ DOMAIN <<>> = {} /\ 0 + 0 = 0
  OBVIOUS
<1>5. \A i \in DOMAIN Chain : hits[Chain[i]] = Cardinality(HitBy(i)) + AheadBy(i)
  <2> TAKE i \in DOMAIN Chain
  <2>1. HitBy(i) = {}
    BY <1>3, <1>4 DEF HitBy
  <2>2. Cardinality(HitBy(i)) = 0
    BY <2>1, FS_EmptySet
  <2>3. AheadBy(i) = 0 /\ hits[Chain[i]] = 0
    BY <1>2, ChainIsFinite DEF AheadBy
  <2>4. QED
    BY <1>4, <2>2, <2>3
<1>6. \A h \in Names \ disabled : hits[h] = Cardinality(RecordedBy(h))
  <2>1. \A h : RecordedBy(h) = {}
    BY <1>2, <1>4 DEF RecordedBy
  <2>2. QED
    BY <1>2, <2>1, FS_EmptySet
<1>7. SumFunctionOnSet(hits, Names \ disabled) = Len(records)
  <2>1. IsFiniteSet(Names \ disabled)
    BY NamesFinite, FS_Difference
  <2>2. \A h \in Names \ disabled : hits[h] = 0
    BY <1>2
  <2>3. SumFunctionOnSet(hits, Names \ disabled) = 0
    BY <2>1, <2>2, SumZero
  <2>4. QED
    BY <1>2, <1>4, <2>3
<1>8. Len(survivors) + Len(records) = Decided
  BY <1>2, <1>3, <1>4
<1>9. QED
  BY <1>5, <1>6, <1>7, <1>8 DEF Tally

(* Reading the option, when nothing has been counted.                       *)
LEMMA TallyOptions ==
  ASSUME IInv, Tally, SetDisabled
  PROVE  Tally'
<1>1. phase = "options" /\ phase' = "fetch" /\ totalPairs = 0
  BY DEF SetDisabled, IInv, AblationSet
<1>2. /\ matches' = matches /\ totalPairs' = totalPairs /\ hits' = hits /\ records' = records
      /\ survivors' = survivors
  BY DEF SetDisabled
<1>3. Decided = 0 /\ Decided' = 0 /\ 1..0 = {}
  BY <1>1, <1>2 DEF Decided
<1>4. \A i : HitBy(i) = {} /\ HitBy(i)' = {}
  BY <1>3 DEF HitBy
<1>5. \A i : AheadBy(i) = 0 /\ AheadBy(i)' = 0
  BY <1>1 DEF AheadBy
<1>6. \A i \in DOMAIN Chain : hits[Chain[i]] = 0
  <2>1. \A i \in DOMAIN Chain : hits[Chain[i]] = Cardinality({}) + 0
    BY <1>4, <1>5 DEF Tally
  <2>2. QED
    BY <2>1, FS_EmptySet
<1>7. Len(survivors) \in Nat /\ Len(records) \in Nat /\ Len(survivors) + Len(records) = 0
  BY <1>3 DEF IInv, TypeOK, Tally
<1>8. Len(records) = 0 /\ DOMAIN records = {}
  <2>1. Len(records) = 0
    BY <1>7
  <2>2. records \in Seq([pair : Pairs, by : Names])
    BY DEF IInv, TypeOK
  <2>3. QED
    BY <2>1, <2>2
<1>9. \A h \in Names : hits[h] = 0
  BY <1>6 DEF Names
<1>10. \A i \in DOMAIN Chain : hits'[Chain[i]] = Cardinality(HitBy(i)') + AheadBy(i)'
  BY <1>2, <1>4, <1>5, <1>6, FS_EmptySet
<1>11. \A h \in Names \ disabled' : hits'[h] = Cardinality(RecordedBy(h)')
  <2>1. \A h : RecordedBy(h)' = {}
    BY <1>2, <1>8 DEF RecordedBy
  <2>2. QED
    BY <1>2, <1>9, <2>1, FS_EmptySet
<1>12. SumFunctionOnSet(hits', Names \ disabled') = Len(records')
  <2>1. IsFiniteSet(Names \ disabled')
    BY NamesFinite, FS_Difference
  <2>2. \A h \in Names \ disabled' : hits'[h] = 0
    BY <1>2, <1>9
  <2>3. SumFunctionOnSet(hits', Names \ disabled') = 0
    BY <2>1, <2>2, SumZero
  <2>4. QED
    BY <1>2, <1>8, <2>3
<1>13. Len(survivors') + Len(records') = Decided'
  BY <1>2, <1>3, <1>7
<1>14. QED
  BY <1>10, <1>11, <1>12, <1>13 DEF Tally

(* Steps that count nothing and decide nothing.                             *)
LEMMA TallyIdle ==
  ASSUME IInv, Tally, matches' = matches, disabled' = disabled, Decided' = Decided, hits' = hits,
         records' = records, survivors' = survivors,
         \A i \in DOMAIN Chain : AheadBy(i)' = AheadBy(i)
  PROVE  Tally'
<1>1. \A i : HitBy(i)' = HitBy(i)
  BY SameHitBy
<1>2. \A h : RecordedBy(h)' = RecordedBy(h)
  BY DEF RecordedBy
<1>3. \A i \in DOMAIN Chain : hits'[Chain[i]] = Cardinality(HitBy(i)') + AheadBy(i)'
  BY <1>1 DEF Tally
<1>4. \A h \in Names \ disabled' : hits'[h] = Cardinality(RecordedBy(h)')
  BY <1>2 DEF Tally
<1>5. QED
  BY <1>3, <1>4 DEF Tally

(* A hit is counted.                                                        *)
LEMMA CountedHits ==
  ASSUME IInv, Matches
  PROVE  /\ pos \in DOMAIN Chain /\ Chain[pos] \in Names /\ Chain[pos] \in matches[totalPairs]
         /\ Counted[Chain[pos]] = hits[Chain[pos]] + 1
         /\ \A h \in Names : h # Chain[pos] => Counted[h] = hits[h]
         /\ \A h \in Names : hits[h] \in Nat /\ hits[h] \in Int /\ Counted[h] \in Nat /\ Counted[h] \in Int
         /\ \A i \in DOMAIN Chain : Chain[i] \in Names /\ (i # pos => Chain[i] # Chain[pos])
<1>1. pos \in DOMAIN Chain /\ Chain[pos] \in matches[totalPairs] /\ Chain[pos] \in Names
  BY ChainIsFinite DEF Matches, Current
<1>2. hits \in [Names -> Nat]
  BY DEF IInv, TypeOK
<1>3. Counted[Chain[pos]] = hits[Chain[pos]] + 1 /\ \A h \in Names : h # Chain[pos] => Counted[h] = hits[h]
  BY <1>1, <1>2 DEF Counted
<1>4. Counted \in [Names -> Nat]
  BY <1>1, <1>2 DEF Counted
<1>5. \A i \in DOMAIN Chain : Chain[i] \in Names /\ (i # pos => Chain[i] # Chain[pos])
  BY <1>1, ChainAssumption, ChainIsFinite
<1>6. QED
  BY <1>1, <1>2, <1>3, <1>4, <1>5

LEMMA TallyCount ==
  ASSUME IInv, Tally, CountOnly
  PROVE  Tally'
<1>1. /\ phase = "ask" /\ phase' = "ask" /\ Matches /\ Chain[pos] \in disabled /\ hits' = Counted
      /\ pos' = pos + 1 /\ matches' = matches /\ disabled' = disabled /\ totalPairs' = totalPairs
      /\ records' = records /\ survivors' = survivors
  BY DEF CountOnly, AfterAblated, Ablated
<1>2. /\ pos \in DOMAIN Chain /\ Chain[pos] \in Names /\ Chain[pos] \in matches[totalPairs]
      /\ Counted[Chain[pos]] = hits[Chain[pos]] + 1
      /\ \A h \in Names : h # Chain[pos] => Counted[h] = hits[h]
      /\ \A i \in DOMAIN Chain : Chain[i] \in Names /\ (i # pos => Chain[i] # Chain[pos])
  BY <1>1, CountedHits
<1>3. Decided' = Decided
  BY <1>1 DEF Decided
<1>4. \A i : HitBy(i)' = HitBy(i)
  BY <1>1, <1>3, SameHitBy
<1>5. \A i \in DOMAIN Chain : i \in Nat /\ (i # pos => (i < pos + 1 <=> i < pos)) /\ pos < pos + 1 /\ ~(pos < pos)
  BY <1>2, ChainIsFinite
<1>6. \A i \in DOMAIN Chain : hits'[Chain[i]] = Cardinality(HitBy(i)') + AheadBy(i)'
  <2> TAKE i \in DOMAIN Chain
  <2>1. hits[Chain[i]] = Cardinality(HitBy(i)) + AheadBy(i) /\ Cardinality(HitBy(i)) \in Nat
    BY DecidedInNat DEF Tally
  <2>2. CASE i = pos
    <3>1. AheadBy(i) = 0 /\ AheadBy(i)' = 1
      BY <1>1, <1>2, <1>5, <2>2 DEF AheadBy
    <3>2. QED
      BY <1>1, <1>2, <1>4, <2>1, <2>2, <3>1
  <2>3. CASE i # pos
    <3>1. AheadBy(i)' = AheadBy(i)
      BY <1>1, <1>5, <2>3 DEF AheadBy
    <3>2. QED
      BY <1>1, <1>2, <1>4, <2>1, <2>3, <3>1
  <2>4. QED
    BY <2>2, <2>3
<1>7. \A h \in Names \ disabled : hits'[h] = hits[h]
  BY <1>1, <1>2
<1>8. \A h : RecordedBy(h)' = RecordedBy(h)
  BY <1>1 DEF RecordedBy
<1>9. \A h \in Names \ disabled' : hits'[h] = Cardinality(RecordedBy(h)')
  BY <1>1, <1>7, <1>8 DEF Tally
<1>10. SumFunctionOnSet(hits', Names \ disabled') = Len(records')
  <2> DEFINE S == Names \ disabled
             f == hits
             g == hits'
  <2>1. IsFiniteSet(S)
    BY NamesFinite, FS_Difference
  <2>2. \A h \in S : g[h] = f[h]
    BY <1>7
  <2>3. SumFunctionOnSet(f, S) = Len(records)
    BY DEF Tally
  <2> HIDE DEF S, f, g
  <2>4. SumFunctionOnSet(g, S) = SumFunctionOnSet(f, S)
    BY <2>1, <2>2, SumSame
  <2>5. QED
    BY <1>1, <2>3, <2>4 DEF S, g
<1>11. Len(survivors') + Len(records') = Decided'
  BY <1>1, <1>3 DEF Tally
<1>12. QED
  BY <1>6, <1>9, <1>10, <1>11 DEF Tally

LEMMA TallySuppress ==
  ASSUME IInv, Tally, Suppress
  PROVE  Tally'
<1> DEFINE x == Chain[pos]
           e == [pair |-> totalPairs, by |-> x]
<1>1. /\ phase = "ask" /\ phase' = "fetch" /\ Matches /\ x \notin disabled /\ hits' = Counted
      /\ matches' = matches /\ disabled' = disabled /\ totalPairs' = totalPairs
      /\ records' = Append(records, e) /\ survivors' = survivors
  BY DEF Suppress, Ablated, Current
<1>2. /\ pos \in DOMAIN Chain /\ x \in Names /\ x \in matches[totalPairs]
      /\ Counted[x] = hits[x] + 1
      /\ \A h \in Names : h # x => Counted[h] = hits[h]
      /\ \A h \in Names : hits[h] \in Nat /\ hits[h] \in Int /\ Counted[h] \in Nat /\ Counted[h] \in Int
      /\ \A i \in DOMAIN Chain : Chain[i] \in Names /\ (i # pos => Chain[i] # x)
  BY <1>1, CountedHits
<1>3. /\ Len(records) \in Nat /\ DOMAIN records = 1..Len(records) /\ Len(records') = Len(records) + 1
      /\ DOMAIN records' = (1..Len(records)) \cup {Len(records) + 1}
      /\ Len(records) + 1 \notin 1..Len(records)
      /\ \A r \in 1..Len(records) : records'[r] = records[r]
      /\ records'[Len(records) + 1].by = x
  <2>1. Decided \in Nat /\ totalPairs \in Pairs
    <3>1. totalPairs \in Nat /\ totalPairs >= 1 /\ totalPairs <= Len(matches) /\ Pairs = 1..Len(matches)
      BY <1>1, PairsAreNumbered DEF IInv, TypeOK, Asking
    <3>2. QED
      BY <3>1, DecidedInNat
  <2>2. e \in [pair : Pairs, by : Names]
    BY <1>2, <2>1
  <2>3. records \in Seq([pair : Pairs, by : Names])
    BY DEF IInv, TypeOK
  <2> DEFINE S == [pair : Pairs, by : Names]
  <2>4. e.by = x
    OBVIOUS
  <2> HIDE DEF S, e
  <2>5. /\ DOMAIN records = 1..Len(records) /\ Len(records) \in Nat
        /\ Len(Append(records, e)) = Len(records) + 1
        /\ DOMAIN Append(records, e) = 1..(Len(records) + 1)
        /\ \A r \in DOMAIN records : Append(records, e)[r] = records[r]
        /\ Append(records, e)[Len(records) + 1] = e
    BY <2>2, <2>3, Appending DEF S
  <2>6. \A n \in Nat : 1..(n + 1) = (1..n) \cup {n + 1} /\ n + 1 \notin 1..n
    OBVIOUS
  <2>7. QED
    BY <1>1, <2>4, <2>5, <2>6
<1> HIDE DEF x, e
<1>4. /\ Decided' = Decided + 1
      /\ \A i \in DOMAIN Chain :
           Cardinality(HitBy(i)') = Cardinality(HitBy(i)) + (IF InHand(i) THEN 1 ELSE 0)
  BY <1>1, <1>2, HitByGrows
<1>5. \A j \in 1..(pos - 1) : Chain[j] \notin Enabled(totalPairs)
  BY <1>1 DEF IInv, Asking
<1>6. x \in Enabled(totalPairs)
  BY <1>1, <1>2 DEF Enabled
<1>7. \A i \in DOMAIN Chain : i \in Nat /\ ~(pos < pos) /\ pos \in Nat /\ pos >= 1
  BY <1>2, ChainIsFinite
<1>8. \A i \in DOMAIN Chain : hits'[Chain[i]] = Cardinality(HitBy(i)') + AheadBy(i)'
  <2> TAKE i \in DOMAIN Chain
  <2>1. hits[Chain[i]] = Cardinality(HitBy(i)) + AheadBy(i) /\ Cardinality(HitBy(i)) \in Nat
    BY DecidedInNat DEF Tally
  <2>2. AheadBy(i)' = 0
    BY <1>1 DEF AheadBy
  <2>3. CASE i = pos
    <3>1. InHand(i)
      BY <1>2, <1>5, <2>3 DEF InHand, Asked, x
    <3>2. AheadBy(i) = 0
      BY <1>7, <2>3 DEF AheadBy
    <3>3. hits'[Chain[i]] = hits[Chain[i]] + 1
      BY <1>1, <1>2, <2>3 DEF x
    <3>4. QED
      BY <1>4, <2>1, <2>2, <3>1, <3>2, <3>3
  <2>4. CASE i # pos
    <3>1. hits'[Chain[i]] = hits[Chain[i]]
      BY <1>1, <1>2, <2>4
    <3>2. AheadBy(i) = IF InHand(i) THEN 1 ELSE 0
      <4>1. CASE i < pos
        <5>1. \A j \in 1..(i - 1) : j \in 1..(pos - 1)
          BY <1>7, <4>1
        <5>2. Asked(i, totalPairs)
          BY <1>5, <5>1 DEF Asked
        <5>3. QED
          BY <1>1, <4>1, <5>2 DEF AheadBy, InHand
      <4>2. CASE ~(i < pos)
        <5>1. pos \in 1..(i - 1)
          BY <1>7, <2>4, <4>2
        <5>2. ~Asked(i, totalPairs)
          BY <1>6, <5>1 DEF Asked, x
        <5>3. QED
          BY <4>2, <5>2 DEF AheadBy, InHand
      <4>3. QED
        BY <4>1, <4>2
    <3>3. QED
      BY <1>4, <2>1, <2>2, <3>1, <3>2
  <2>5. QED
    BY <2>3, <2>4
<1>9. \A h \in Names \ disabled' : hits'[h] = Cardinality(RecordedBy(h)')
  <2> SUFFICES ASSUME NEW h \in Names \ disabled PROVE hits'[h] = Cardinality(RecordedBy(h)')
    BY <1>1
  <2>1. hits[h] = Cardinality(RecordedBy(h))
    BY DEF Tally
  <2>2. RecordedBy(h)' = RecordedBy(h) \cup (IF h = x THEN {Len(records) + 1} ELSE {})
    BY <1>3 DEF RecordedBy
  <2>3. CASE h = x
    <3>1. IsFiniteSet(RecordedBy(h)) /\ Len(records) + 1 \notin RecordedBy(h)
      <4>1. RecordedBy(h) \subseteq 1..Len(records) /\ IsFiniteSet(1..Len(records))
        BY <1>3, FS_Interval DEF RecordedBy
      <4>2. QED
        BY <1>3, <4>1, FS_Subset
    <3>2. Cardinality(RecordedBy(h) \cup {Len(records) + 1}) = Cardinality(RecordedBy(h)) + 1
      BY <3>1, FS_AddElement
    <3>3. QED
      BY <1>1, <1>2, <2>1, <2>2, <2>3, <3>2
  <2>4. CASE h # x
    <3>1. RecordedBy(h)' = RecordedBy(h)
      BY <2>2, <2>4
    <3>2. QED
      BY <1>1, <1>2, <2>1, <2>4, <3>1
  <2>5. QED
    BY <2>3, <2>4
<1>10. SumFunctionOnSet(hits', Names \ disabled') = Len(records')
  <2> DEFINE S == Names \ disabled
             f == hits
             g == hits'
  <2>1. IsFiniteSet(S) /\ x \in S
    BY <1>1, <1>2, NamesFinite, FS_Difference
  <2>2. (\A h \in S : f[h] \in Int) /\ (\A h \in S : g[h] \in Int) /\ g[x] = f[x] + 1 /\ f[x] \in Int
    BY <1>1, <1>2
  <2>3. \A h \in S \ {x} : g[h] = f[h]
    BY <1>1, <1>2
  <2>4. SumFunctionOnSet(f, S) = Len(records)
    BY DEF Tally
  <2> HIDE DEF S, f, g
  <2>5. SumFunctionOnSet(g, S) = SumFunctionOnSet(f, S) + (g[x] - f[x])
    BY <2>1, <2>2, <2>3, SumUpdate
  <2>6. SumFunctionOnSet(g, S) = Len(records) + 1
    BY <1>3, <2>2, <2>4, <2>5
  <2>7. QED
    BY <1>1, <1>3, <2>6 DEF S, g
<1>11. Len(survivors') + Len(records') = Decided'
  <2>1. Len(survivors) \in Nat /\ Len(survivors) + Len(records) = Decided
    BY DEF IInv, TypeOK, Tally
  <2>2. QED
    BY <1>1, <1>3, <1>4, <2>1
<1>12. QED
  BY <1>8, <1>9, <1>10, <1>11 DEF Tally

LEMMA TallySurvive ==
  ASSUME IInv, Tally, Survive
  PROVE  Tally'
<1>1. /\ phase = "ask" /\ phase' = "fetch" /\ pos \notin DOMAIN Chain /\ hits' = hits
      /\ matches' = matches /\ disabled' = disabled /\ totalPairs' = totalPairs
      /\ records' = records /\ survivors' = Append(survivors, totalPairs)
  BY DEF Survive, Current
<1>2. /\ Decided' = Decided + 1
      /\ \A i \in DOMAIN Chain :
           Cardinality(HitBy(i)') = Cardinality(HitBy(i)) + (IF InHand(i) THEN 1 ELSE 0)
  <2>1. phase = "ask"
    BY <1>1
  <2>2. Decided' = Decided + 1
    BY <1>1, DecidedInNat DEF Decided
  <2>3. QED
    BY <1>1, <2>2, HitByGrows
<1>3. \A i \in DOMAIN Chain : i < pos /\ \A j \in 1..(i - 1) : j \in 1..(pos - 1)
  <2>1. pos = Len(Chain) + 1 /\ Len(Chain) \in Nat /\ DOMAIN Chain = 1..Len(Chain)
    <3>1. pos \in 1..(Len(Chain) + 1)
      BY DEF IInv, TypeOK
    <3>2. QED
      BY <1>1, <3>1, ChainIsFinite
  <2>2. QED
    BY <2>1
<1>4. \A i \in DOMAIN Chain : Asked(i, totalPairs)
  <2>1. \A j \in 1..(pos - 1) : Chain[j] \notin Enabled(totalPairs)
    BY <1>1 DEF IInv, Asking
  <2>2. QED
    BY <1>3, <2>1 DEF Asked
<1>5. \A i \in DOMAIN Chain : hits'[Chain[i]] = Cardinality(HitBy(i)') + AheadBy(i)'
  <2> TAKE i \in DOMAIN Chain
  <2>1. hits[Chain[i]] = Cardinality(HitBy(i)) + AheadBy(i) /\ Cardinality(HitBy(i)) \in Nat
    BY DecidedInNat DEF Tally
  <2>2. AheadBy(i)' = 0 /\ AheadBy(i) = IF InHand(i) THEN 1 ELSE 0
    BY <1>1, <1>3, <1>4 DEF AheadBy, InHand
  <2>3. QED
    BY <1>1, <1>2, <2>1, <2>2
<1>6. \A h : RecordedBy(h)' = RecordedBy(h)
  BY <1>1 DEF RecordedBy
<1>7. \A h \in Names \ disabled' : hits'[h] = Cardinality(RecordedBy(h)')
  BY <1>1, <1>6 DEF Tally
<1>8. SumFunctionOnSet(hits', Names \ disabled') = Len(records')
  BY <1>1 DEF Tally
<1>9. Len(survivors') + Len(records') = Decided'
  <2>1. Len(survivors) \in Nat /\ Len(records) \in Nat /\ Len(survivors) + Len(records) = Decided
    BY DEF IInv, TypeOK, Tally
  <2>2. Len(survivors') = Len(survivors) + 1
    BY <1>1 DEF IInv, TypeOK
  <2>3. QED
    BY <1>1, <1>2, <2>1, <2>2
<1>10. QED
  BY <1>5, <1>7, <1>8, <1>9 DEF Tally

LEMMA TallyStep == IInv /\ Tally /\ [Next]_vars => Tally'
<1> SUFFICES ASSUME IInv, Tally, [Next]_vars PROVE Tally'
  OBVIOUS
<1>1. \A i \in DOMAIN Chain : i \in Nat /\ i >= 1
  BY ChainIsFinite
<1>2. CASE Fetch
  <2>1. /\ phase = "fetch" /\ phase' = "ask" /\ totalPairs' = totalPairs + 1 /\ pos' = 1
        /\ matches' = matches /\ disabled' = disabled /\ hits' = hits /\ records' = records
        /\ survivors' = survivors
    BY <1>2 DEF Fetch
  <2>2. Decided' = Decided
    BY <2>1, DecidedInNat DEF Decided
  <2>3. \A i \in DOMAIN Chain : AheadBy(i)' = AheadBy(i)
    BY <1>1, <2>1 DEF AheadBy
  <2>4. QED
    BY <2>1, <2>2, <2>3, TallyIdle
<1>3. CASE NoMatch
  <2>1. /\ phase = "ask" /\ phase' = "ask" /\ totalPairs' = totalPairs /\ pos' = pos + 1
        /\ matches' = matches /\ disabled' = disabled /\ hits' = hits /\ records' = records
        /\ survivors' = survivors /\ pos \in DOMAIN Chain /\ Chain[pos] \notin matches[totalPairs]
    BY <1>3 DEF NoMatch, Matches, Current
  <2>2. Decided' = Decided
    BY <2>1 DEF Decided
  <2>3. ASSUME NEW i \in DOMAIN Chain PROVE AheadBy(i)' = AheadBy(i)
    <3>1. i # pos => (i < pos + 1 <=> i < pos)
      BY <1>1, <2>1
    <3>2. CASE i = pos
      BY <2>1, <3>2 DEF AheadBy
    <3>3. CASE i # pos
      BY <2>1, <3>1, <3>3 DEF AheadBy
    <3>4. QED
      BY <3>2, <3>3
  <2>4. QED
    BY <2>1, <2>2, <2>3, TallyIdle
<1>4. CASE Finish \/ UNCHANGED vars
  <2>1. /\ totalPairs' = totalPairs /\ pos' = pos
        /\ matches' = matches /\ disabled' = disabled /\ hits' = hits /\ records' = records
        /\ survivors' = survivors
        /\ phase' = phase \/ (phase = "fetch" /\ phase' = "done")
    BY <1>4 DEF Finish, vars
  <2>2. Decided' = Decided
    BY <2>1 DEF Decided
  <2>3. \A i \in DOMAIN Chain : AheadBy(i)' = AheadBy(i)
    BY <2>1 DEF AheadBy
  <2>4. QED
    BY <2>1, <2>2, <2>3, TallyIdle
<1>5. CASE SetDisabled
  BY <1>5, TallyOptions
<1>6. CASE CountOnly
  BY <1>6, TallyCount
<1>7. CASE Suppress
  BY <1>7, TallySuppress
<1>8. CASE Survive
  BY <1>8, TallySurvive
<1>9. QED
  BY <1>2, <1>3, <1>4, <1>5, <1>6, <1>7, <1>8 DEF Next

LEMMA TallyAccounts == IInv /\ Tally => HitsAccounted
<1> SUFFICES ASSUME IInv, Tally, phase \in {"fetch", "done"}, NEW i \in DOMAIN Chain
             PROVE  /\ hits[Chain[i]] = Cardinality(HitBy(i))
                    /\ Chain[i] \notin disabled =>
                         hits[Chain[i]] = Cardinality({r \in DOMAIN records : records[r].by = Chain[i]})
  BY DEF HitsAccounted
<1>1. AheadBy(i) = 0 /\ Cardinality(HitBy(i)) \in Nat
  BY DecidedInNat DEF AheadBy
<1>2. hits[Chain[i]] = Cardinality(HitBy(i))
  BY <1>1 DEF Tally
<1>3. Chain[i] \in Names
  BY ChainIsFinite
<1>4. QED
  BY <1>2, <1>3 DEF Tally, RecordedBy

(* Whatever the heuristics say, each counter is the number of pairs its     *)
(* heuristic was asked about and matched, and those of the enabled ones are *)
(* the recorded pairs.                                                      *)
THEOREM Counters == Spec => [](Tally /\ HitsAccounted)
<1>1. Spec => []Tally
  BY TallyInit, TallyStep, FilterInvariant, PTL DEF Spec
<1>2. QED
  BY <1>1, TallyAccounts, FilterInvariant, PTL

----------------------------------------------------------------------------
(* The STATS lines.                                                         *)

LEMMA FilterOps ==
  LET s == Script("FnHeuristicsFilterPass")
  IN  /\ Len(s) = 7 /\ s[7].op = "filter"
      /\ \A k \in 1..7 : s[k].op # "parse" /\ (s[k].op = "unless" => s[k].arg = "FunctionPairsPass")
<1> DEFINE s == Script("FnHeuristicsFilterPass")
           front == <<Do("open", "mutex_filtering"), Need("FunctionPairsPass"),
                      Do("unless", "FunctionPairsPass"), Do("normalise", "-"), Do("build", "-"),
                      Do("release", "-")>>
           e == Do("filter", "-")
           S == {front[i] : i \in 1..6} \cup {e}
<1>1. s = Append(front, e)
  BY DEF Script, After
<1>2. front \in Seq(S) /\ Len(front) = 6 /\ e \in S
  <2>1. \A i \in 1..6 : front[i] \in S
    OBVIOUS
  <2>2. /\ Do("open", "mutex_filtering") \in S /\ Need("FunctionPairsPass") \in S
        /\ Do("unless", "FunctionPairsPass") \in S /\ Do("normalise", "-") \in S
        /\ Do("build", "-") \in S /\ Do("release", "-") \in S /\ e \in S
    BY <2>1
  <2> HIDE DEF S
  <2>3. QED
    BY <2>2
<1>3. /\ \A i \in 1..6 : front[i].op # "parse" /\ (front[i].op = "unless" => front[i].arg = "FunctionPairsPass")
      /\ e.op = "filter"
  BY DEF Do, Need
<1> HIDE DEF S, front, e
<1>4. /\ DOMAIN front = 1..6 /\ Len(s) = 7 /\ s[7] = e /\ \A i \in 1..6 : s[i] = front[i]
  <2>1. /\ DOMAIN front = 1..Len(front) /\ Len(Append(front, e)) = Len(front) + 1
        /\ \A i \in DOMAIN front : Append(front, e)[i] = front[i]
        /\ Append(front, e)[Len(front) + 1] = e
    BY <1>2, Appending
  <2>2. Len(front) + 1 = 7 /\ 1..Len(front) = 1..6
    BY <1>2
  <2> HIDE DEF s
  <2>3. s = Append(front, e)
    BY <1>1 DEF s
  <2>4. DOMAIN front = 1..6 /\ Len(s) = 7
    BY <2>1, <2>2, <2>3
  <2>5. s[7] = e
    BY <2>1, <2>2, <2>3
  <2>6. \A i \in 1..6 : s[i] = front[i]
    BY <2>1, <2>2, <2>3
  <2>7. QED
    BY <2>4, <2>5, <2>6
<1>5. \A k \in 1..7 : k \in 1..6 \/ k = 7
  OBVIOUS
<1>6. QED
  BY <1>3, <1>4, <1>5

(* The STATS lines are printed under --summary, after the filter's results  *)
(* have been asked for.                                                     *)
LEMMA PrintedLast ==
  ASSUME Discipline, stack # <<>>, ~Ended, Op.op = "print"
  PROVE  /\ Top.pass = "main" /\ Len(stack) = 1 /\ Top = stack[1] /\ Top.pc = 11
         /\ Top.pc <= Len(Script("main"))
         /\ Script("main")[8] = Need("FnHeuristicsFilterPass")
         /\ Mode = "summary"
<1> DEFINE w == Wanted[Mode]
<1>1. Top.pass = "main"
  BY TopOp
<1>2. Len(stack) = 1 /\ Top = stack[1] /\ Top.pc \in DOMAIN Script("main") /\ Op = Script("main")[Top.pc]
  BY <1>1, TopFrame DEF Discipline
<1>3. flags \subseteq {ModeOrder[i] : i \in DOMAIN ModeOrder}
  BY DEF Discipline, DriverTypeOK
<1>4. /\ Len(w) \in 1..6
      /\ DOMAIN Script("main") = 1..(Len(w) + 6) /\ Len(Script("main")) = Len(w) + 6
      /\ \A k \in 1..5 : Script("main")[k] = StartUp[k]
      /\ \A k \in 1..Len(w) : Script("main")[k + 5] = w[k]
      /\ Script("main")[Len(w) + 6] = Do("close", "-")
  BY <1>3, MainScript
<1>5. \A k \in 1..5 : StartUp[k].op # "print"
  BY DEF StartUp, Do
<1>6. Do("close", "-").op # "print"
  BY DEF Do
<1>7. PICK k \in 1..Len(w) : Top.pc = k + 5 /\ w[k].op = "print"
  <2>1. \A l \in 1..6 : \A q \in 1..(l + 6) : q \in 1..5 \/ q = l + 6 \/ (q - 5 \in 1..l /\ q = (q - 5) + 5)
    OBVIOUS
  <2>2. Script("main")[Top.pc].op = "print"
    BY <1>2
  <2> DEFINE q == Top.pc
             l == Len(w)
  <2>3. l \in 1..6 /\ q \in 1..(l + 6)
    BY <1>2, <1>4
  <2>4. Script("main")[q].op = "print"
    BY <2>2
  <2> HIDE DEF q, w, l
  <2>5. q \in 1..5 \/ q = l + 6 \/ (q - 5 \in 1..l /\ q = (q - 5) + 5)
    BY <2>1, <2>3
  <2>6. q \notin 1..5 /\ q # l + 6
    BY <1>4, <1>5, <1>6, <2>4 DEF l
  <2>7. q - 5 \in 1..l /\ q = (q - 5) + 5 /\ w[q - 5].op = "print"
    BY <1>4, <2>4, <2>5, <2>6 DEF l
  <2>8. QED
    BY <2>7 DEF q, l
<1>8. Mode \in Modes \cup {"pta"}
  BY <1>3, ModeKnown
<1>9. Mode = "summary"
  <2>1. \A m \in (Modes \cup {"pta"}) \ {"summary"} : \E p \in Passes : Wanted[m] = <<Need(p)>>
    BY DEF Modes, Wanted, Passes
  <2>2. \A p : Len(<<Need(p)>>) = 1 /\ <<Need(p)>>[1].op = "need"
    BY DEF Need, Do
  <2>3. Mode # "summary" => Len(w) = 1 /\ w[1].op = "need"
    <3> SUFFICES ASSUME Mode # "summary" PROVE Len(w) = 1 /\ w[1].op = "need"
      OBVIOUS
    <3>1. PICK p \in Passes : w = <<Need(p)>>
      BY <1>8, <2>1
    <3> HIDE DEF w
    <3>2. QED
      BY <2>2, <3>1
  <2> HIDE DEF w
  <2>4. \A j \in 1..1 : j = 1
    OBVIOUS
  <2>5. QED
    BY <1>7, <2>3, <2>4
<1>10. /\ w = <<Need("AnchorPass"), Need("CausalDetectPass"), Need("FnHeuristicsFilterPass"),
               Need("FunctionPairsPass"), Need("Herd7TranspilerPass"), Do("print", "STATS")>>
  BY <1>9 DEF Wanted
<1>11. Len(w) = 6 /\ w[3] = Need("FnHeuristicsFilterPass") /\ \A j \in 1..5 : w[j].op = "need"
  BY <1>10 DEF Need, Do
<1> HIDE DEF w
<1>12. k = 6
  <2>1. \A j \in 1..6 : j \in 1..5 \/ j = 6
    OBVIOUS
  <2>2. QED
    BY <1>7, <1>11, <2>1
<1>13. Script("main")[3 + 5] = w[3] /\ 3 + 5 = 8
  BY <1>4, <1>11
<1>14. QED
  BY <1>1, <1>2, <1>4, <1>7, <1>9, <1>11, <1>12, <1>13

(* The first thing main does.                                               *)
LEMMA FirstStep ==
  ASSUME Discipline, stack # <<>>, ~(stack[1].pc > 1)
  PROVE  ~Ended /\ Op.op = "options" /\ Len(stack) = 1
<1>1. /\ Top = stack[Len(stack)] /\ stack \in Seq(Frames) /\ Len(stack) \in Nat \ {0}
      /\ Top.pc \in Nat \ {0} /\ (Top.pass = "main" <=> Len(stack) = 1)
      /\ Len(Script("main")) \in 7..12
  BY RunningFrame
<1>2. Len(stack) = 1
  <2>1. \A m \in 7..12 : \A k \in 6..m : k > 1
    OBVIOUS
  <2>2. ~(Len(stack) > 1)
    BY <1>1, <2>1, MainBelow
  <2>3. \A k \in Nat \ {0} : ~(k > 1) => k = 1
    OBVIOUS
  <2>4. QED
    BY <1>1, <2>2, <2>3
<1>3. Top.pc = 1 /\ Top.pass = "main"
  <2>1. \A k \in Nat \ {0} : ~(k > 1) => k = 1
    OBVIOUS
  <2>2. QED
    BY <1>1, <1>2, <2>1
<1>4. ~Ended /\ Op = Script("main")[1]
  <2>1. ~(1 > Len(Script("main")))
    <3>1. \A m \in 7..12 : ~(1 > m)
      OBVIOUS
    <3>2. QED
      BY <1>1, <3>1
  <2>2. QED
    BY <1>3, <2>1 DEF Ended, Op
<1>5. Script("main")[1].op = "options"
  <2>1. Script("main")[1] = StartUp[1]
    BY MainScript DEF Discipline, DriverTypeOK
  <2>2. QED
    BY <2>1 DEF StartUp, Do
<1>6. QED
  BY <1>2, <1>4, <1>5

(* How a step changes the frame on top when it pushes and pops none.        *)
TopGoes(f) ==
  /\ stack # <<>> /\ f \in Frames /\ stack' = [stack EXCEPT ![Len(stack)] = f] /\ f.pass = Top.pass
  /\ cache' = cache
  /\ \/ f.pc = Top.pc
     \/ /\ ~Ended /\ f.pc = Top.pc + 1
        /\ Op.op = "need" => Op.arg \in cache \/ Mode = "litmus"
        /\ Op.op = "filter" => phase' = "done"
     \/ /\ ~Ended /\ f.pc = Len(Script(Top.pass)) + 1
        /\ Op.op = "parse" \/ (Op.op = "unless" /\ FoundNothing(Op.arg))

LEMMA Moves ==
  ASSUME Discipline, DriverNext
  PROVE  \/ \E f \in Frames : TopGoes(f)
         \/ Call /\ Op.arg \notin cache
         \/ Leave
<1>1. CASE Leave
  BY <1>1
<1>2. CASE Call /\ Op.arg \notin cache
  BY <1>2
<1>3. stack # <<>> => /\ Top \in Frames /\ Top = stack[Len(stack)] /\ stack \in Seq(Frames)
                      /\ Len(stack) \in Nat \ {0} /\ Top.pc \in Nat \ {0} /\ Top.open \in Int
                      /\ Len(Script(Top.pass)) \in Nat
  BY RunningFrame, TopFrame DEF Discipline
<1>4. stack # <<>> =>
        /\ Advanced = [stack EXCEPT ![Len(stack)] = At(Top, Top.pc + 1, Top.open)]
        /\ Returning = [stack EXCEPT ![Len(stack)] = [Top EXCEPT !.pc = Len(Script(Top.pass)) + 1]]
        /\ [stack EXCEPT ![Len(stack)].open = @ - 1]
             = [stack EXCEPT ![Len(stack)] = At(Top, Top.pc, Top.open - 1)]
        /\ [Advanced EXCEPT ![Len(stack)].open = @ + 1]
             = [stack EXCEPT ![Len(stack)] = At(Top, Top.pc + 1, Top.open + 1)]
        /\ [Advanced EXCEPT ![Len(stack)].open = @ - 1]
             = [stack EXCEPT ![Len(stack)] = At(Top, Top.pc + 1, Top.open - 1)]
  BY MovedTop DEF Discipline
<1>5. stack # <<>> => /\ Top.pc + 1 \in Nat \ {0} /\ Len(Script(Top.pass)) + 1 \in Nat \ {0}
                      /\ Top.open + 1 \in Int /\ Top.open - 1 \in Int
  BY <1>3
<1> DEFINE p == Top.pass
<1>0. stack # <<>> => \A k \in Nat \ {0} : \A o \in Int :
        At(Top, k, o) \in Frames /\ At(Top, k, o).pass = Top.pass /\ At(Top, k, o).pc = k
  <2>1. stack # <<>> => p \in Passes \cup {"main"}
    BY <1>3 DEF Frames
  <2> SUFFICES ASSUME stack # <<>>, NEW k \in Nat \ {0}, NEW o \in Int
               PROVE  At(Top, k, o) \in Frames /\ At(Top, k, o).pass = p /\ At(Top, k, o).pc = k
    OBVIOUS
  <2>2. At(Top, k, o) = [pass |-> p, pc |-> k, open |-> o]
    BY DEF At
  <2> HIDE DEF p
  <2>3. QED
    BY <2>1, <2>2 DEF Frames
<1>6. ASSUME stack # <<>>, ~Ended, cache' = cache, NEW o \in Int,
             stack' = [stack EXCEPT ![Len(stack)] = At(Top, Top.pc + 1, o)],
             Op.op = "need" => Op.arg \in cache \/ Mode = "litmus", Op.op = "filter" => phase' = "done"
      PROVE  \E f \in Frames : TopGoes(f)
  <2> DEFINE f == At(Top, Top.pc + 1, o)
  <2>1. f \in Frames /\ f.pass = Top.pass /\ f.pc = Top.pc + 1
    <3> DEFINE k == Top.pc + 1
    <3>1. k \in Nat \ {0} /\ Top \in Frames
      BY <1>3, <1>5, <1>6
    <3> HIDE DEF k
    <3>2. At(Top, k, o) \in Frames /\ At(Top, k, o).pass = Top.pass /\ At(Top, k, o).pc = k
      BY <1>0, <1>6, <3>1
    <3>3. QED
      BY <3>2 DEF k
  <2> HIDE DEF f
  <2>2. stack' = [stack EXCEPT ![Len(stack)] = f]
    BY <1>6 DEF f
  <2>3. TopGoes(f)
    BY <1>6, <2>1, <2>2 DEF TopGoes
  <2>4. QED
    BY <2>1, <2>3
<1>7. ASSUME stack # <<>>, ~Ended, cache' = cache, stack' = Advanced,
             Op.op = "need" => Op.arg \in cache \/ Mode = "litmus", Op.op = "filter" => phase' = "done"
      PROVE  \E f \in Frames : TopGoes(f)
  BY <1>3, <1>4, <1>6, <1>7
<1>8. ASSUME stack # <<>>, ~Ended, cache' = cache, stack' = Returning,
             Op.op = "parse" \/ (Op.op = "unless" /\ FoundNothing(Op.arg))
      PROVE  \E f \in Frames : TopGoes(f)
  <2> DEFINE e == Len(Script(Top.pass)) + 1
             f == [Top EXCEPT !.pc = e]
  <2>1. stack' = [stack EXCEPT ![Len(stack)] = f] /\ e \in Nat \ {0}
    BY <1>4, <1>5, <1>8
  <2>2. f.pc = Len(Script(Top.pass)) + 1 /\ f \in Frames /\ f.pass = Top.pass
    <3> HIDE DEF e
    <3>1. f.pc = e /\ f \in Frames /\ f.pass = Top.pass
      BY <1>3, <1>8, <2>1, FrameFields DEF Frames
    <3>2. QED
      BY <3>1 DEF e
  <2> HIDE DEF f
  <2>3. TopGoes(f)
    BY <1>8, <2>1, <2>2 DEF TopGoes
  <2>4. QED
    BY <2>2, <2>3
<1>9. CASE Unwind
  <2> DEFINE f == At(Top, Top.pc, Top.open - 1)
  <2>1. stack # <<>> /\ cache' = cache /\ stack' = [stack EXCEPT ![Len(stack)].open = @ - 1]
    BY <1>9 DEF Unwind
  <2>2. f \in Frames /\ f.pass = Top.pass /\ f.pc = Top.pc
    <3> DEFINE o == Top.open - 1
               k == Top.pc
    <3>1. k \in Nat \ {0} /\ Top \in Frames /\ o \in Int
      BY <1>3, <1>5, <2>1
    <3> HIDE DEF k, o
    <3>2. At(Top, k, o) \in Frames /\ At(Top, k, o).pass = Top.pass /\ At(Top, k, o).pc = k
      BY <1>0, <2>1, <3>1
    <3>3. QED
      BY <3>2 DEF k, o
  <2>3. stack' = [stack EXCEPT ![Len(stack)] = f]
    BY <1>4, <2>1
  <2> HIDE DEF f
  <2>4. TopGoes(f)
    BY <2>1, <2>2, <2>3 DEF TopGoes
  <2>5. QED
    BY <2>2, <2>4
<1>10. CASE Open
  <2>1. stack # <<>> /\ ~Ended /\ cache' = cache /\ Op.op = "open"
        /\ stack' = [Advanced EXCEPT ![Len(stack)].open = @ + 1]
    BY <1>10 DEF Open, Op
  <2>2. QED
    BY <1>4, <1>5, <1>6, <2>1
<1>11. CASE Close
  <2>1. stack # <<>> /\ ~Ended /\ cache' = cache /\ Op.op = "close"
        /\ stack' = [Advanced EXCEPT ![Len(stack)].open = @ - 1]
    BY <1>11 DEF Close, Op
  <2>2. QED
    BY <1>4, <1>5, <1>6, <2>1
<1>12. CASE Options \/ Scan \/ Normalise \/ Build \/ Release \/ PrintStats
                \/ (Call /\ Op.arg \in cache) \/ NoDirectory
  <2>1. stack # <<>> /\ ~Ended /\ cache' = cache /\ stack' = Advanced
        /\ (Op.op = "need" => Op.arg \in cache \/ Mode = "litmus") /\ Op.op # "filter"
    BY <1>12 DEF Options, Scan, Normalise, Build, Release, PrintStats, Call, NoDirectory, Op
  <2>2. QED
    BY <1>7, <2>1
<1>13. CASE FilterLoop
  <2>1. stack # <<>> /\ ~Ended /\ cache' = cache /\ Op.op = "filter"
        /\ stack' = IF phase' = "done" THEN Advanced ELSE stack
    BY <1>13 DEF FilterLoop, Op
  <2>2. CASE phase' = "done"
    BY <1>7, <2>1, <2>2
  <2>3. CASE phase' # "done"
    <3>1. stack' = [stack EXCEPT ![Len(stack)] = Top]
      BY <1>3, <2>1, <2>3
    <3>2. TopGoes(Top)
      BY <1>3, <2>1, <3>1 DEF TopGoes
    <3>3. QED
      BY <1>3, <2>1, <3>2
  <2>4. QED
    BY <2>2, <2>3
<1>14. CASE Unless
  <2>1. stack # <<>> /\ ~Ended /\ cache' = cache /\ Op.op = "unless"
        /\ stack' = IF FoundNothing(Op.arg) THEN Returning ELSE Advanced
    BY <1>14 DEF Unless, Op
  <2>2. QED
    BY <1>7, <1>8, <2>1
<1>15. CASE Parse
  <2>1. stack # <<>> /\ ~Ended /\ cache' = cache /\ Op.op = "parse"
        /\ (stack' = Returning \/ stack' = Advanced)
    BY <1>15 DEF Parse, Op
  <2>2. QED
    BY <1>7, <1>8, <2>1
<1>16. Call => (Call /\ Op.arg \in cache) \/ (Call /\ Op.arg \notin cache)
  OBVIOUS
<1>17. QED
  BY <1>1, <1>2, <1>9, <1>10, <1>11, <1>12, <1>13, <1>14, <1>15, <1>16 DEF DriverNext

(* What stays: the unit, what has been asked of the filter, its being done. *)
LEMMA Settled ==
  ASSUME DriverNext
  PROVE  /\ unit' = unit /\ matches' = matches /\ flags' = flags
         /\ phase = "done" => phase' = "done"
         /\ phase # "options" => phase' # "options" /\ disabled' = disabled
         /\ Through => Through'
<1>1. unit' = unit /\ flags' = flags
  BY DEF DriverNext
<1>2. [Next]_vars
  BY DriverStepIsStep
<1>3. /\ matches' = matches
      /\ phase = "done" => phase' = "done"
      /\ phase # "options" => phase' # "options" /\ disabled' = disabled
  <2>1. CASE UNCHANGED vars
    BY <2>1 DEF vars
  <2>2. CASE SetDisabled
    BY <2>2 DEF SetDisabled
  <2>3. CASE Fetch \/ Finish
    BY <2>3 DEF Fetch, Finish
  <2>4. CASE NoMatch \/ CountOnly \/ Suppress \/ Survive
    BY <2>4 DEF NoMatch, CountOnly, Suppress, Survive
  <2>5. QED
    BY <1>2, <2>1, <2>2, <2>3, <2>4 DEF Next
<1>4. Through => Through'
  BY <1>1, <1>3 DEF Through
<1>5. QED
  BY <1>1, <1>3, <1>4

(* No pair is matched where none is found.                                  *)
LEMMA UnitIsRead ==
  ASSUME UnitRead
  PROVE  /\ Len(unit.pairs) \in Nat /\ Len(matches) = Len(unit.pairs)
         /\ FoundNothing("FunctionPairsPass") => Len(unit.pairs) = 0
<1>1. PICK c \in Cases : unit = c.unit
  BY DEF UnitRead
<1>2. /\ Len(c.unit.pairs) \in Nat /\ DOMAIN c.unit.pairs = 1..Len(c.unit.pairs)
      /\ "FunctionPairsPass" \notin c.unit.found => Len(c.unit.pairs) = 0
  BY CasesAssumption
<1> DEFINE n == Len(c.unit.pairs)
<1>3. matches = [p \in 1..n |-> Matching(Facts(c.unit), c.unit.pairs[p])]
  BY <1>1, <1>2 DEF UnitRead, Verdicts
<1>4. Len(matches) = n
  <2> HIDE DEF n
  <2>1. n \in Nat
    BY <1>2 DEF n
  <2>2. matches \in Seq({matches[p] : p \in 1..n})
    BY <1>3, <2>1
  <2>3. QED
    BY <1>3, <2>1, <2>2
<1>5. QED
  BY <1>1, <1>2, <1>4 DEF FoundNothing

(* The frames after a step, as far as they were there before.               *)
LEMMA TopGone ==
  ASSUME Discipline, NEW f \in Frames, TopGoes(f)
  PROVE  /\ stack \in Seq(Frames) /\ Len(stack) \in Nat \ {0} /\ DOMAIN stack = 1..Len(stack)
         /\ Top = stack[Len(stack)] /\ 1 \in 1..Len(stack)
         /\ stack' \in Seq(Frames) /\ Len(stack') = Len(stack) /\ DOMAIN stack' = 1..Len(stack)
         /\ stack'[Len(stack)] = f
         /\ \A i \in 1..Len(stack) : i # Len(stack) => stack'[i] = stack[i]
<1>1. /\ stack \in Seq(Frames) /\ Len(stack) \in Nat \ {0} /\ DOMAIN stack = 1..Len(stack)
      /\ Top = stack[Len(stack)]
  BY RunningFrame, TopFrame DEF Discipline, TopGoes
<1>2. stack' = [stack EXCEPT ![Len(stack)] = f] /\ stack # <<>>
  BY DEF TopGoes
<1> HIDE DEF Frames
<1>3. /\ stack' \in Seq(Frames) /\ Len(stack') = Len(stack)
      /\ stack'[Len(stack)] = f
      /\ \A i \in 1..Len(stack) : i # Len(stack) => stack'[i] = stack[i]
  BY <1>1, <1>2, Exchanged
<1>4. DOMAIN stack' = 1..Len(stack)
  BY <1>3
<1>5. 1 \in 1..Len(stack)
  BY <1>1
<1>6. QED
  BY <1>1, <1>3, <1>4, <1>5

LEMMA PushGone ==
  ASSUME Discipline, Call, Op.arg \notin cache
  PROVE  /\ stack \in Seq(Frames) /\ Len(stack) \in Nat \ {0} /\ DOMAIN stack = 1..Len(stack)
         /\ stack # <<>> /\ Top = stack[Len(stack)] /\ 1 \in 1..Len(stack)
         /\ stack' \in Seq(Frames) /\ Len(stack') = Len(stack) + 1
         /\ DOMAIN stack' = 1..(Len(stack) + 1)
         /\ \A i \in 1..Len(stack) : stack'[i].pass = stack[i].pass
         /\ \A i \in 1..Len(stack) : stack'[i].pc = IF i = Len(stack) THEN stack[i].pc + 1 ELSE stack[i].pc
         /\ stack'[Len(stack) + 1] = Frame(Op.arg)
         /\ ~Ended /\ Op.op = "need" /\ cache' = cache
<1> DEFINE n == Len(stack)
           p == Top.pass
           o == Top.open
           k == Top.pc + 1
           f == At(Top, Top.pc + 1, Top.open)
           a == [stack EXCEPT ![n] = f]
           e == Frame(Op.arg)
<1>1. stack # <<>> /\ ~Ended /\ Op.op = "need" /\ cache' = cache /\ stack' = Append(Advanced, e)
  BY DEF Call, Op
<1>2. /\ Top \in Frames /\ Top = stack[n] /\ stack \in Seq(Frames) /\ n \in Nat \ {0}
      /\ Top.pc \in Nat \ {0} /\ o \in Int /\ p \in Passes \cup {"main"} /\ Op.arg \in Passes
  BY <1>1, RunningFrame
<1>3. stack' = Append(a, e)
  BY <1>1, MovedTop DEF Discipline
<1>4. k \in Nat \ {0}
  BY <1>2
<1>5. f \in Frames /\ f.pass = stack[n].pass /\ f.pc = stack[n].pc + 1
  <2>1. f = [pass |-> p, pc |-> k, open |-> o] /\ p = stack[n].pass /\ k = stack[n].pc + 1
    BY <1>2 DEF At
  <2> HIDE DEF f, p, k, o
  <2>2. QED
    BY <1>2, <1>4, <2>1 DEF Frames
<1>6. e \in Frames
  BY <1>2 DEF Frame, Frames
<1> HIDE DEF f, e
<1>7. a \in Seq(Frames) /\ Len(a) = n /\ a[n] = f /\ \A i \in 1..n : i # n => a[i] = stack[i]
  BY <1>1, <1>2, <1>5, Exchanged
<1>8. 1 \in 1..n /\ DOMAIN stack = 1..n
  BY <1>2
<1> HIDE DEF a
<1>9. /\ Append(a, e) \in Seq(Frames) /\ DOMAIN a = 1..Len(a) /\ Len(Append(a, e)) = Len(a) + 1
      /\ DOMAIN Append(a, e) = 1..(Len(a) + 1)
      /\ \A i \in DOMAIN a : Append(a, e)[i] = a[i]
      /\ Append(a, e)[Len(a) + 1] = e
  BY <1>6, <1>7, Appending
<1>10. /\ stack' \in Seq(Frames) /\ Len(stack') = n + 1 /\ DOMAIN stack' = 1..(n + 1)
       /\ \A i \in 1..n : stack'[i] = a[i]
       /\ stack'[n + 1] = e
  BY <1>3, <1>7, <1>9
<1>11. ASSUME NEW i \in 1..n
       PROVE  /\ stack'[i].pass = stack[i].pass
              /\ stack'[i].pc = IF i = n THEN stack[i].pc + 1 ELSE stack[i].pc
  <2>1. CASE i = n
    BY <1>5, <1>7, <1>10, <2>1
  <2>2. CASE i # n
    BY <1>7, <1>10, <2>2
  <2>3. QED
    BY <2>1, <2>2
<1>12. QED
  BY <1>1, <1>2, <1>8, <1>10, <1>11 DEF e

LEMMA PopGone ==
  ASSUME Discipline, Leave
  PROVE  /\ stack \in Seq(Frames) /\ Len(stack) \in Nat \ {0} /\ DOMAIN stack = 1..Len(stack)
         /\ stack # <<>> /\ Ended /\ Top = stack[Len(stack)]
         /\ Len(stack') = Len(stack) - 1 /\ DOMAIN stack' = 1..(Len(stack) - 1)
         /\ \A i \in 1..(Len(stack) - 1) : stack'[i] = stack[i]
         /\ cache' = (IF Top.pass = "main" THEN cache ELSE cache \cup {Top.pass})
<1> DEFINE n == Len(stack)
<1>1. stack # <<>> /\ Ended /\ stack' = SubSeq(stack, 1, n - 1)
      /\ cache' = IF Top.pass = "main" THEN cache ELSE cache \cup {Top.pass}
  BY DEF Leave
<1>2. stack \in Seq(Frames) /\ n \in Nat \ {0} /\ Top = stack[n] /\ DOMAIN stack = 1..n
  BY <1>1, RunningFrame, TopFrame DEF Discipline
<1>3. Len(stack') = n - 1 /\ DOMAIN stack' = 1..(n - 1) /\ \A i \in 1..(n - 1) : stack'[i] = stack[i]
  <2> HIDE DEF Frames
  <2>1. QED
    BY <1>1, <1>2
<1>4. QED
  BY <1>1, <1>2, <1>3

(* The filter returns when it is through.                                   *)
LEMMA FilterReturnsStep ==
  ASSUME Discipline, UnitRead, FilterReturns, DriverNext
  PROVE  FilterReturns'
<1> DEFINE F == "FnHeuristicsFilterPass"
           n == Len(stack)
<1>1. Through => Through'
  BY Settled
<1>2. \A p : Script(p)' = Script(p)
  BY SameScripts, Settled
<1>3. /\ Len(Script(F)) = 7 /\ Script(F)[7].op = "filter"
      /\ \A k \in 1..7 : Script(F)[k].op # "parse"
                         /\ (Script(F)[k].op = "unless" => Script(F)[k].arg = "FunctionPairsPass")
  BY FilterOps
<1>0. Len(Script(F)) + 1 = 8
  <2> DEFINE l == Len(Script(F))
  <2>1. l = 7
    BY <1>3
  <2> HIDE DEF l
  <2>2. l + 1 = 8
    BY <2>1
  <2>3. QED
    BY <2>2 DEF l
<1>4. \A i \in DOMAIN stack : stack[i].pass = F /\ stack[i].pc = 8 => Through
  BY <1>0 DEF FilterReturns
<1>5. SUFFICES /\ \A i \in DOMAIN stack' : stack'[i].pass = F /\ stack'[i].pc = 8 => Through'
               /\ F \in cache' => Through'
  <2>1. Len(Script(F)') + 1 = 8
    BY <1>0, <1>2
  <2>2. QED
    BY <2>1 DEF FilterReturns
<1>6. ASSUME stack # <<>>, ~Ended, Top.pass = F
      PROVE  Top.pc \in 1..7 /\ Op = Script(F)[Top.pc]
  BY <1>3, <1>6, TopFrame DEF Discipline
<1>7. stack # <<>> => Top.pc \in Nat /\ (Ended <=> Top.pc = Len(Script(Top.pass)) + 1)
  BY TopFrame, RunningFrame DEF Discipline
<1>8. CASE \E f \in Frames : TopGoes(f)
  <2>1. PICK f \in Frames : TopGoes(f)
    BY <1>8
  <2>2. /\ DOMAIN stack = 1..n /\ DOMAIN stack' = 1..n /\ stack'[n] = f /\ Top = stack[n] /\ n \in 1..n
        /\ \A i \in 1..n : i # n => stack'[i] = stack[i]
    BY <2>1, TopGone
  <2>3. cache' = cache /\ stack # <<>> /\ f.pass = Top.pass
    BY <2>1 DEF TopGoes
  <2>4. ASSUME f.pass = F, f.pc = 8 PROVE Through'
    <3>1. CASE f.pc = Top.pc
      BY <1>1, <1>4, <2>2, <2>3, <2>4, <3>1
    <3>2. CASE ~Ended /\ f.pc = Top.pc + 1 /\ (Op.op = "filter" => phase' = "done")
      <4>1. Top.pc = 7
        <5>1. \A k \in Nat : 8 = k + 1 => k = 7
          OBVIOUS
        <5>2. QED
          BY <1>7, <2>3, <2>4, <3>2, <5>1
      <4>2. Op.op = "filter"
        BY <1>3, <1>6, <2>3, <2>4, <3>2, <4>1
      <4>3. QED
        BY <3>2, <4>2 DEF Through
    <3>3. CASE ~Ended /\ (Op.op = "parse" \/ (Op.op = "unless" /\ FoundNothing(Op.arg)))
      <4>1. Op.op # "parse" /\ (Op.op = "unless" => Op.arg = "FunctionPairsPass")
        BY <1>3, <1>6, <2>3, <2>4, <3>3
      <4>2. Len(unit.pairs) = 0
        BY <3>3, <4>1, UnitIsRead
      <4>3. QED
        BY <1>1, <4>2 DEF Through
    <3>4. QED
      BY <2>1, <3>1, <3>2, <3>3 DEF TopGoes
  <2>5. QED
    BY <1>1, <1>4, <2>2, <2>3, <2>4 DEF FilterReturns
<1>9. CASE Call /\ Op.arg \notin cache
  <2>1. /\ DOMAIN stack = 1..n /\ DOMAIN stack' = 1..(n + 1) /\ n \in Nat \ {0} /\ Top = stack[n]
        /\ \A i \in 1..n : stack'[i].pass = stack[i].pass
        /\ \A i \in 1..n : stack'[i].pc = IF i = n THEN stack[i].pc + 1 ELSE stack[i].pc
        /\ stack'[n + 1] = Frame(Op.arg) /\ cache' = cache /\ stack # <<>> /\ ~Ended /\ Op.op = "need"
    BY <1>9, PushGone
  <2>2. ASSUME NEW i \in 1..(n + 1), stack'[i].pass = F, stack'[i].pc = 8 PROVE Through'
    <3>1. CASE i = n + 1
      <4>1. Frame(Op.arg).pc = 1
        BY DEF Frame
      <4>2. 1 # 8
        OBVIOUS
      <4>3. QED
        BY <2>1, <2>2, <3>1, <4>1, <4>2
    <3>2. CASE i = n
      <4>1. i \in 1..n
        BY <2>1, <3>2, Positions
      <4>2. Top.pass = F /\ Top.pc + 1 = 8
        BY <2>1, <2>2, <3>2, <4>1
      <4>3. Top.pc = 7
        <5>1. \A k \in Nat : k + 1 = 8 => k = 7
          OBVIOUS
        <5>2. QED
          BY <1>7, <2>1, <4>2, <5>1
      <4>4. Op.op = "filter"
        BY <1>3, <1>6, <2>1, <4>2, <4>3
      <4>5. QED
        BY <2>1, <4>4
    <3>3. CASE i \in 1..n /\ i # n
      BY <1>1, <1>4, <2>1, <2>2, <3>3
    <3>4. QED
      BY <2>1, <3>1, <3>2, <3>3, Positions
  <2>3. QED
    BY <1>1, <2>1, <2>2 DEF FilterReturns
<1>10. CASE Leave
  <2>1. /\ DOMAIN stack = 1..n /\ DOMAIN stack' = 1..(n - 1) /\ n \in Nat \ {0} /\ Top = stack[n]
        /\ \A i \in 1..(n - 1) : stack'[i] = stack[i]
        /\ cache' = (IF Top.pass = "main" THEN cache ELSE cache \cup {Top.pass})
        /\ Ended /\ stack # <<>>
    BY <1>10, PopGone
  <2>2. \A i \in 1..(n - 1) : i \in 1..n
    BY <2>1
  <2>3. F \in cache' => Through'
    <3>1. CASE Top.pass = F
      <4>1. Top.pc = 8
        <5>1. 7 + 1 = 8
          OBVIOUS
        <5>2. QED
          BY <1>3, <1>7, <2>1, <3>1, <5>1
      <4>2. n \in 1..n
        BY <2>1
      <4>3. QED
        BY <1>1, <1>4, <2>1, <3>1, <4>1, <4>2
    <3>2. CASE Top.pass # F
      BY <1>1, <2>1, <3>2 DEF FilterReturns
    <3>3. QED
      BY <3>1, <3>2
  <2>4. QED
    BY <1>1, <1>4, <2>1, <2>2, <2>3
<1>11. QED
  BY <1>8, <1>9, <1>10, Moves

(* Where main goes on it has got what it has asked for.                     *)
LEMMA MainGetsStep ==
  ASSUME Discipline, MainGets, DriverNext
  PROVE  MainGets'
<1>8. Mode' = Mode
  BY Settled DEF Mode
<1>9. CASE Mode = "litmus"
  BY <1>8, <1>9 DEF MainGets
<1>10. SUFFICES ASSUME Mode # "litmus" PROVE MainGets'
  BY <1>9
<1> DEFINE n == Len(stack)
           w == Script("main")
<1>1. Script("main")' = w
  BY SameScripts, Settled
<1>2. ASSUME NEW k \in Nat, stack' # <<>>, stack'[1].pass = "main", stack'[1].pc <= Len(w),
             k \in 1..(stack'[1].pc - 1), Len(stack') = 1 \/ k # stack'[1].pc - 1
      PROVE  w[k].op = "need" => w[k].arg \in cache'
  <2> SUFFICES ASSUME w[k].op = "need" PROVE w[k].arg \in cache'
    OBVIOUS
  <2>1. ASSUME stack # <<>>, stack[1].pass = "main", stack[1].pc <= Len(w),
               k \in 1..(stack[1].pc - 1), Len(stack) = 1 \/ k # stack[1].pc - 1
        PROVE  w[k].arg \in cache
    BY <1>10, <2>1 DEF MainGets, Got
  <2>2. CASE \E f \in Frames : TopGoes(f)
    <3>1. PICK f \in Frames : TopGoes(f)
      BY <2>2
    <3>2. /\ n \in Nat \ {0} /\ 1 \in 1..n /\ Len(stack') = n /\ stack'[n] = f /\ Top = stack[n]
          /\ \A i \in 1..n : i # n => stack'[i] = stack[i]
          /\ cache' = cache /\ stack # <<>> /\ f.pass = Top.pass
      BY <3>1, TopGone DEF TopGoes
    <3>3. CASE n # 1
      BY <1>2, <2>1, <3>2, <3>3
    <3>4. CASE n = 1
      <4>1. /\ Len(w) \in Nat /\ Top.pc \in Nat \ {0} /\ Top.pass = "main"
            /\ ~Ended => Top.pc <= Len(w) /\ Op = w[Top.pc]
            /\ Len(Script(Top.pass)) = Len(w)
        <5>1. Top.pass = "main" /\ Top.pc \in Nat \ {0} /\ Len(w) \in 7..12
          BY <3>2, <3>4, RunningFrame
        <5>2. ~Ended => Top.pc \in 1..Len(w) /\ Op = w[Top.pc]
          BY <3>2, <5>1, TopFrame DEF Discipline
        <5>3. \A m \in 7..12 : m \in Nat /\ \A j \in 1..m : j <= m
          OBVIOUS
        <5>4. QED
          BY <5>1, <5>2, <5>3
      <4>2. CASE f.pc = Top.pc
        BY <1>2, <2>1, <3>2, <3>4, <4>1, <4>2
      <4>3. CASE ~Ended /\ f.pc = Top.pc + 1 /\ (Op.op = "need" => Op.arg \in cache)
        <5>1. \A j \in Nat \ {0} : \A i \in 1..((j + 1) - 1) : i = j \/ i \in 1..(j - 1)
          OBVIOUS
        <5>2. k = Top.pc \/ k \in 1..(Top.pc - 1)
          BY <1>2, <3>2, <3>4, <4>1, <4>3, <5>1
        <5>3. CASE k = Top.pc
          BY <3>2, <4>1, <4>3, <5>3
        <5>4. CASE k \in 1..(Top.pc - 1)
          BY <2>1, <3>2, <3>4, <4>1, <4>3, <5>4
        <5>5. QED
          BY <5>2, <5>3, <5>4
      <4>4. CASE f.pc = Len(Script(Top.pass)) + 1
        <5>1. \A m \in Nat : ~(m + 1 <= m)
          OBVIOUS
        <5>2. QED
          BY <1>2, <3>2, <3>4, <4>1, <4>4, <5>1
      <4>5. QED
        BY <1>10, <3>1, <4>2, <4>3, <4>4 DEF TopGoes
    <3>5. QED
      BY <3>3, <3>4
  <2>3. CASE Call /\ Op.arg \notin cache
    <3>1. /\ n \in Nat \ {0} /\ 1 \in 1..n /\ Len(stack') = n + 1 /\ stack # <<>> /\ cache' = cache
          /\ Top = stack[n] /\ ~Ended
          /\ stack'[1].pass = stack[1].pass
          /\ stack'[1].pc = IF 1 = n THEN stack[1].pc + 1 ELSE stack[1].pc
      BY <2>3, PushGone
    <3>2. k # stack'[1].pc - 1
      <4>1. \A m \in Nat \ {0} : m + 1 # 1
        OBVIOUS
      <4>2. QED
        BY <1>2, <3>1, <4>1
    <3>3. CASE n = 1
      <4>1. Top.pc \in Nat \ {0} /\ Len(w) \in 7..12
        BY <3>1, RunningFrame
      <4>2. \A j \in Nat \ {0} : \A m \in 7..12 : \A i \in 1..((j + 1) - 1) :
              i # (j + 1) - 1 /\ j + 1 <= m => i \in 1..(j - 1) /\ j <= m
        OBVIOUS
      <4>3. k \in 1..(stack[1].pc - 1) /\ stack[1].pc <= Len(w)
        BY <1>2, <3>1, <3>2, <3>3, <4>1, <4>2
      <4>4. QED
        BY <1>2, <2>1, <3>1, <3>3, <4>3
    <3>4. CASE n # 1
      BY <1>2, <2>1, <3>1, <3>2, <3>4
    <3>5. QED
      BY <3>3, <3>4
  <2>4. CASE Leave
    <3>1. /\ n \in Nat \ {0} /\ DOMAIN stack = 1..n /\ Len(stack') = n - 1 /\ stack # <<>> /\ Top = stack[n]
          /\ \A i \in 1..(n - 1) : stack'[i] = stack[i]
          /\ cache' = (IF Top.pass = "main" THEN cache ELSE cache \cup {Top.pass})
      BY <2>4, PopGone
    <3>2. n # 1
      <4>1. stack' = SubSeq(stack, 1, n - 1)
        BY <2>4 DEF Leave
      <4>2. n = 1 => SubSeq(stack, 1, n - 1) = <<>>
        OBVIOUS
      <4>3. QED
        BY <1>2, <4>1, <4>2
    <3>3. 1 \in 1..(n - 1) /\ n > 1
      BY <3>1, <3>2
    <3>4. stack'[1] = stack[1]
      BY <3>1, <3>3
    <3>5. CASE k # stack[1].pc - 1
      BY <1>2, <2>1, <3>1, <3>4, <3>5
    <3>6. CASE k = stack[1].pc - 1
      <4>1. Len(stack') = 1
        BY <1>2, <3>4, <3>6
      <4>2. n = 2
        <5>1. \A m \in Nat : m - 1 = 1 => m = 2
          OBVIOUS
        <5>2. n \in Nat /\ n - 1 = 1
          BY <3>1, <4>1
        <5>3. QED
          BY <5>1, <5>2
      <4>3. 2 \in DOMAIN stack \ {1} /\ 2 - 1 = 1
        BY <3>1, <4>2
      <4>4. Script(stack[2 - 1].pass)[stack[2 - 1].pc - 1] = Need(stack[2].pass)
        BY <4>3 DEF Discipline, CalledForAResult
      <4>5. w[k] = Need(Top.pass)
        BY <1>2, <3>1, <3>4, <3>6, <4>2, <4>3, <4>4
      <4>6. Top.pass # "main"
        BY <3>1, <4>2, <4>3 DEF Discipline, StackOK
      <4>7. QED
        BY <3>1, <4>5, <4>6 DEF Need, Do
    <3>7. QED
      BY <3>5, <3>6
  <2>5. QED
    BY <2>2, <2>3, <2>4, Moves
<1>3. stack' # <<>> => stack'[1].pass = "main" /\ stack'[1].pc \in Nat
  <2>1. Discipline'
    BY DisciplineStep
  <2>2. StackOK'
    BY <2>1 DEF Discipline
  <2>3. stack' # <<>> => 1 \in DOMAIN stack' /\ stack' \in Seq(Frames)
    BY <2>2 DEF StackOK
  <2>4. stack' # <<>> => stack'[1].pass = "main"
    BY <2>2, <2>3 DEF StackOK
  <2>5. stack' # <<>> => stack'[1] \in Frames
    <3> HIDE DEF Frames
    <3>1. QED
      BY <2>3
  <2>6. QED
    BY <2>4, <2>5 DEF Frames
<1>4. \A m \in Nat : \A k \in 1..(m - 1) : k \in Nat
  OBVIOUS
<1>5. SUFFICES ASSUME stack' # <<>>, stack'[1].pc <= Len(w), NEW k \in 1..(stack'[1].pc - 1),
                      Len(stack') = 1 \/ k # stack'[1].pc - 1
               PROVE  w[k].op = "need" => w[k].arg \in cache'
  <2>1. \A k : (Got(stack[1], k)' <=> (w[k].op = "need" => w[k].arg \in cache')) \/ stack' = <<>>
    BY <1>1, <1>3 DEF Got
  <2>2. QED
    BY <1>1, <1>8, <2>1 DEF MainGets
<1>6. k \in Nat
  BY <1>3, <1>4, <1>5
<1>7. QED
  BY <1>2, <1>3, <1>5, <1>6

LEMMA OptionsReadStep ==
  ASSUME Discipline, OptionsRead, DriverNext
  PROVE  OptionsRead'
<1>1. stack # <<>>
  BY DEF DriverNext, Options, Open, Close, Parse, Call, NoDirectory, Unless, Scan, Normalise, Build,
     Release, FilterLoop, PrintStats, Unwind, Leave, Op
<1>2. CASE stack[1].pc > 1
  <2>1. phase # "options"
    BY <1>1, <1>2 DEF OptionsRead
  <2>2. QED
    BY <2>1, Settled DEF OptionsRead
<1>3. CASE ~(stack[1].pc > 1)
  <2>1. ~Ended /\ Op.op = "options"
    BY <1>1, <1>3, FirstStep
  <2>2. Options
    BY <2>1 DEF DriverNext, Open, Close, Parse, Call, NoDirectory, Unless, Scan, Normalise, Build,
       Release, FilterLoop, PrintStats, Unwind, Leave
  <2>3. phase' = "fetch"
    BY <2>2 DEF Options, SetDisabled
  <2>4. QED
    BY <2>3 DEF OptionsRead
<1>4. QED
  BY <1>2, <1>3

(* What the filter says when it is through.                                 *)
LEMMA WhenThrough ==
  ASSUME IInv, Tally, UnitRead, Through, phase # "options"
  PROVE  /\ totalPairs = Len(unit.pairs) /\ totalPairs \in Nat
         /\ totalPairs - Len(survivors) = Len(records)
         /\ Len(survivors) \in Nat /\ Len(records) \in Nat
         /\ totalPairs = Filtered + Len(survivors)
<1>1. Len(unit.pairs) \in Nat /\ Len(matches) = Len(unit.pairs)
  BY UnitIsRead
<1>2. totalPairs \in 0..Len(matches) /\ survivors \in Seq(Pairs) /\ records \in Seq([pair : Pairs, by : Names])
  BY DEF IInv, TypeOK
<1>3. Len(survivors) \in Nat /\ Len(records) \in Nat
  BY <1>2
<1>4. totalPairs = Len(matches) /\ phase # "ask"
  <2>1. CASE phase = "done"
    BY <2>1 DEF IInv, Asking
  <2>2. CASE Len(unit.pairs) = 0
    <3>1. \A m \in 0..0 : m = 0 /\ ~(m >= 1)
      OBVIOUS
    <3>2. totalPairs = 0 /\ ~(totalPairs >= 1)
      BY <1>1, <1>2, <2>2, <3>1
    <3>3. QED
      BY <1>1, <2>2, <3>2 DEF IInv, Asking
  <2>3. QED
    BY <2>1, <2>2 DEF Through
<1>5. Len(survivors) + Len(records) = totalPairs
  BY <1>4 DEF Tally, Decided
<1>6. \A t, s, r \in Nat : s + r = t => t - s = r /\ t = (t - s) + s
  OBVIOUS
<1>7. QED
  BY <1>1, <1>3, <1>4, <1>5, <1>6 DEF Filtered

LEMMA StatsPrintedStep ==
  ASSUME Discipline, IInv, Tally, UnitRead, FilterReturns, MainGets, OptionsRead, StatsPrinted, DriverNext
  PROVE  StatsPrinted'
<1>1. unit' = unit /\ (phase # "options" => phase' # "options" /\ disabled' = disabled)
  BY Settled
<1>2. CASE stats' = stats
  BY <1>1, <1>2 DEF StatsPrinted
<1>3. CASE PrintStats
  <2>1. stack # <<>> /\ ~Ended /\ Op.op = "print"
    BY <1>3 DEF PrintStats, Op
  <2>2. /\ Top.pass = "main" /\ Len(stack) = 1 /\ Top = stack[1] /\ Top.pc = 11
        /\ Top.pc <= Len(Script("main"))
        /\ Script("main")[8] = Need("FnHeuristicsFilterPass")
        /\ Mode # "litmus"
    BY <2>1, PrintedLast
  <2>3. "FnHeuristicsFilterPass" \in cache
    <3>1. 8 \in 1..(11 - 1) /\ 11 > 1
      OBVIOUS
    <3>2. Got(stack[1], 8)
      BY <2>1, <2>2, <3>1 DEF MainGets
    <3>3. QED
      BY <2>2, <3>2 DEF Got, Need, Do
  <2>4. phase # "options"
    <3>1. 11 > 1
      OBVIOUS
    <3>2. QED
      BY <2>1, <2>2, <3>1 DEF OptionsRead
  <2>5. Through
    BY <2>3 DEF FilterReturns
  <2>6. /\ totalPairs = Len(unit.pairs) /\ Filtered = Len(records)
        /\ totalPairs = Filtered + Len(survivors)
    BY <2>4, <2>5, WhenThrough DEF Filtered
  <2>7. stats' = [total |-> totalPairs, filtered |-> Filtered, surviving |-> Len(survivors),
                  heuristic |-> hits]
    BY <1>3 DEF PrintStats
  <2>8. /\ stats'.total = totalPairs /\ stats'.filtered = Filtered
        /\ stats'.surviving = Len(survivors) /\ stats'.heuristic = hits
    BY <2>7
  <2>9. SumFunctionOnSet(hits, Names \ disabled) = Len(records)
    BY DEF Tally
  <2>10. QED
    BY <1>1, <2>4, <2>6, <2>8, <2>9 DEF StatsPrinted
<1>4. QED
  BY <1>2, <1>3 DEF DriverNext, Options, Open, Close, Parse, Call, NoDirectory, Unless, Scan,
     Normalise, Build, Release, FilterLoop, Unwind, Leave

LEMMA ReportedInit == DriverInit => Reported
<1> SUFFICES ASSUME DriverInit PROVE Reported
  OBVIOUS
<1>1. Init
  BY DriverInitIsInit
<1>2. Tally
  BY <1>1, TallyInit
<1>3. UnitRead
  BY DEF DriverInit, UnitRead
<1>4. stack = <<Frame("main")>> /\ cache = {} /\ stats = <<>>
  BY DEF DriverInit
<1>5. Len(stack) = 1 /\ DOMAIN stack = {1} /\ stack[1].pass = "main" /\ stack[1].pc = 1
  BY <1>4 DEF Frame
<1>6. FilterReturns
  BY <1>4, <1>5 DEF FilterReturns
<1>7. MainGets
  <2>1. 1..(1 - 1) = {}
    OBVIOUS
  <2>2. QED
    BY <1>5, <2>1 DEF MainGets
<1>8. OptionsRead
  <2>1. ~(1 > 1)
    OBVIOUS
  <2>2. QED
    BY <1>5, <2>1 DEF OptionsRead
<1>9. StatsPrinted
  BY <1>4 DEF StatsPrinted
<1>10. QED
  BY <1>2, <1>3, <1>6, <1>7, <1>8, <1>9 DEF Reported

LEMMA ReportedStep == Discipline /\ IInv /\ Reported /\ [DriverNext]_driverVars => Reported'
<1> SUFFICES ASSUME Discipline, IInv, Reported, [DriverNext]_driverVars PROVE Reported'
  OBVIOUS
<1>1. Tally'
  BY DriverStepIsStep, TallyStep DEF Reported
<1>2. CASE DriverNext
  <2>1. UnitRead'
    BY <1>2, Settled DEF Reported, UnitRead, Verdicts
  <2>2. FilterReturns' /\ MainGets' /\ OptionsRead' /\ StatsPrinted'
    BY <1>2, FilterReturnsStep, MainGetsStep, OptionsReadStep, StatsPrintedStep DEF Reported
  <2>3. QED
    BY <1>1, <2>1, <2>2 DEF Reported
<1>3. CASE UNCHANGED driverVars
  <2>1. /\ unit' = unit /\ matches' = matches /\ flags' = flags /\ stack' = stack /\ cache' = cache
        /\ phase' = phase /\ stats' = stats /\ disabled' = disabled
    BY <1>3 DEF driverVars, vars
  <2>2. \A p : Script(p)' = Script(p)
    BY <2>1, SameScripts
  <2>3. UnitRead' /\ OptionsRead' /\ StatsPrinted'
    BY <2>1 DEF Reported, UnitRead, OptionsRead, StatsPrinted, Verdicts
  <2>4. FilterReturns'
    BY <2>1, <2>2 DEF Reported, FilterReturns, Through
  <2>5. MainGets'
    <3>1. Mode' = Mode
      BY <2>1 DEF Mode
    <3>2. QED
      BY <2>1, <2>2, <3>1 DEF Reported, MainGets, Got
  <2>6. QED
    BY <1>1, <2>3, <2>4, <2>5 DEF Reported
<1>4. QED
  BY <1>2, <1>3

(* Whatever mbcheck is started on and whatever is disabled, the STATS lines *)
(* of --summary come after the filter's loop and add up.                    *)
THEOREM Stats == DriverSpec => [](Reported /\ StatsAddUp)
<1>1. DriverSpec => []Reported
  BY ReportedInit, ReportedStep, PassesDisciplined, DriverInvariant, PTL DEF DriverSpec
<1>2. Reported /\ IInv => StatsAddUp
  <2>1. Reported /\ IInv => HitsAccounted
    BY TallyAccounts DEF Reported
  <2>2. QED
    BY <2>1 DEF Reported, StatsPrinted, StatsAddUp
<1>3. QED
  BY <1>1, <1>2, DriverInvariant, PTL

============================================================================

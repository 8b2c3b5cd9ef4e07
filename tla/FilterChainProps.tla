---------------------------- MODULE FilterChainProps ----------------------------
(****************************************************************************)
(* Properties of the filter loop.                                           *)
(****************************************************************************)
EXTENDS FilterChain, FiniteSetsExt

TypeOK ==
  /\ matches \in Seq(SUBSET Names)
  /\ request \in Requests
  /\ phase \in {"options", "fetch", "ask", "done"}
  /\ pos \in 1..(Len(Chain) + 1)
  /\ totalPairs \in 0..Len(matches)
  /\ hits \in [Names -> Nat]
  /\ records \in Seq([pair : Pairs, by : Names])
  /\ survivors \in Seq(Pairs)

Decided == IF phase = "ask" THEN totalPairs - 1 ELSE totalPairs

(* The loop implements the one-step filter: what is passed on, what is      *)
(* recorded, in which order and under which heuristic.                      *)
OneStep == INSTANCE PairFilter
  WITH disabled <- Expanded(request) \cap Names, decided <- Decided
ImplementsPairFilter == OneStep!Spec

(* The heuristics that were asked about pair p: all up to and with the one  *)
(* that ended its loop.                                                     *)
Enabled(p) == matches[p] \ disabled
Asked(i, p) == \A j \in 1..(i - 1) : Chain[j] \notin Enabled(p)
HitBy(i) == {p \in 1..Decided : Chain[i] \in matches[p] /\ Asked(i, p)}

(* A heuristic's counter is the number of pairs it was asked about and      *)
(* holds for mutually exclusive; the statistics of an enabled one are the   *)
(* pairs recorded under its name.                                           *)
HitsAccounted ==
  phase \in {"fetch", "done"} =>
    \A i \in DOMAIN Chain :
      /\ hits[Chain[i]] = Cardinality(HitBy(i))
      /\ Chain[i] \notin disabled =>
           hits[Chain[i]] = Cardinality({r \in DOMAIN records : records[r].by = Chain[i]})

(* The inductive invariant: the heuristics passed in the current loop have  *)
(* no enabled hit, pairs are recorded under their first enabled hit, passed *)
(* on without one, in order, and every pair that is through is in one of    *)
(* the two lists.                                                           *)
Asking ==
  /\ phase = "ask" =>
       totalPairs >= 1 /\ \A j \in 1..(pos - 1) : Chain[j] \notin Enabled(totalPairs)
  /\ phase = "done" => totalPairs = Len(matches)
AblationSet ==
  IF phase = "options" THEN totalPairs = 0 ELSE disabled = Expanded(request)
InOrder(s) == \A i, j \in DOMAIN s : i < j => s[i] < s[j]
RecordedPairs == [i \in DOMAIN records |-> records[i].pair]
RecordsRight ==
  \A i \in DOMAIN records :
    \E c \in DOMAIN Chain :
      /\ Chain[c] = records[i].by
      /\ Chain[c] \in Enabled(records[i].pair)
      /\ Asked(c, records[i].pair)
SurvivorsRight == \A i \in DOMAIN survivors : Enabled(survivors[i]) = {}
AllDecided ==
  {survivors[i] : i \in DOMAIN survivors} \cup {records[i].pair : i \in DOMAIN records} = 1..Decided
IInv ==
  /\ TypeOK /\ Asking /\ AblationSet
  /\ InOrder(survivors) /\ InOrder(RecordedPairs)
  /\ RecordsRight /\ SurvivorsRight /\ AllDecided

(* The inductive invariant behind HitsAccounted: a counter is ahead of the  *)
(* decided pairs by the pair in hand, if its heuristic was asked about it   *)
(* and has matched; and the counters of the enabled heuristics taken        *)
(* together are the recorded pairs.                                         *)
AheadBy(i) == IF phase = "ask" /\ i < pos /\ Chain[i] \in matches[totalPairs] THEN 1 ELSE 0
RecordedBy(h) == {r \in DOMAIN records : records[r].by = h}
Tally ==
  /\ \A i \in DOMAIN Chain : hits[Chain[i]] = Cardinality(HitBy(i)) + AheadBy(i)
  /\ \A h \in Names \ disabled : hits[h] = Cardinality(RecordedBy(h))
  /\ SumFunctionOnSet(hits, Names \ disabled) = Len(records)
  /\ Len(survivors) + Len(records) = Decided

----------------------------------------------------------------------------
(* Statements of the documentation and the comments.                        *)

(* "Use 'all' to disable every heuristic" (mbcheck.cpp:105), "the pair is    *)
(* NOT filtered even if the heuristic says it would be"                     *)
(* (fn_heuristics.h:17).                                                    *)
AllKeepsEveryPair ==
  phase = "done" /\ "all" \in request => records = <<>>

(* "Always record the hit so we can quantify what each heuristic would have *)
(* filtered" (fn_heuristics.cpp:2240-2241).                                 *)
HitsQuantifyEach ==
  phase = "done" =>
    \A h \in Names : hits[h] = Cardinality({p \in Pairs : h \in matches[p]})

(* "A pair is counted under the FIRST heuristic that suppressed it"         *)
(* (fn_heuristics.h:565).                                                   *)
CountedOnce ==
  phase = "done" => Len(records) = MapThenSumSet(LAMBDA h : hits[h], Names)

============================================================================

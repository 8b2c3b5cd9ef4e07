------------------------------ MODULE FilterChain ------------------------------
(****************************************************************************)
(* The filter loop of FnHeuristicsFilterPass::run (fn_heuristics.cpp, step  *)
(* 7) with the ablation set the driver hands it (mbcheck.cpp).  Every pair  *)
(* is put to the heuristics one after the other; a hit of a disabled one is *)
(* counted and passed over, a hit of an enabled one ends the loop.          *)
(*                                                                          *)
(* The pairs are numbered in the order of byAnchorFn; matches[p] is what    *)
(* the heuristics say about pair p (module Heuristics): their verdicts      *)
(* depend on neither the state nor the ablation.                            *)
(****************************************************************************)
EXTENDS Integers, Sequences, FiniteSets

CONSTANTS
  Chain,      \* the names of the heuristics, in the order they are pushed
  AllNames,   \* the names that the driver's "all" stands for
  Requests    \* the values --disable-heuristic may be given

Names == {Chain[i] : i \in DOMAIN Chain}

ASSUME ChainAssumption ==
  Chain \in Seq(STRING) /\ \A i, j \in DOMAIN Chain : Chain[i] = Chain[j] => i = j

VARIABLES
  matches,     \* no step changes it
  request,     \* the names of the option; no step changes it
  phase,       \* "options", "fetch", "ask" or "done"
  disabled,    \* the ablation set
  pos,         \* the heuristic to ask next
  totalPairs,  \* the pairs fetched
  hits,        \* heuristicHits
  records,     \* filteredRecords
  survivors    \* the pairs of byAnchorFn

Pairs == DOMAIN matches

vars == <<matches, request, phase, disabled, pos, totalPairs, hits, records, survivors>>

----------------------------------------------------------------------------
(* "all" stands for AllNames, any other name for itself, known or not.      *)
Expanded(r) == (r \ {"all"}) \cup (IF "all" \in r THEN AllNames ELSE {})

(* Is there another pair?                                                   *)
More_NotLast == totalPairs + 1 < Len(matches)                       \* mutant
More == totalPairs < Len(matches)

(* The pair in hand and what the heuristic at pos says of it.               *)
Current == totalPairs
Matches == pos \in DOMAIN Chain /\ Chain[pos] \in matches[Current]

(* Is a hit of the heuristic at pos ignored?                                *)
Ablated == Chain[pos] \in disabled

(* heuristicHits after a hit, enabled or not.                               *)
Counted == [hits EXCEPT ![Chain[pos]] = @ + 1]

(* Where the loop goes on after a hit that is ignored.                      *)
AfterAblated_Last == Len(Chain) + 1                             \* mutant
AfterAblated == pos + 1

Start ==
  /\ request \in Requests
  /\ phase = "options"
  /\ disabled = {}
  /\ pos = 1
  /\ totalPairs = 0
  /\ hits = [h \in Names |-> 0]
  /\ records = <<>>
  /\ survivors = <<>>

Init == matches \in Seq(SUBSET Names) /\ Start

(* main: the option is read before any pass runs.                           *)
SetDisabled ==
  /\ phase = "options"
  /\ disabled' = Expanded(request)
  /\ phase' = "fetch"
  /\ UNCHANGED <<matches, request, pos, totalPairs, hits, records, survivors>>

Fetch ==
  /\ phase = "fetch"
  /\ More
  /\ totalPairs' = totalPairs + 1
  /\ pos' = 1
  /\ phase' = "ask"
  /\ UNCHANGED <<matches, request, disabled, hits, records, survivors>>

NoMatch ==
  /\ phase = "ask"
  /\ pos \in DOMAIN Chain
  /\ ~Matches
  /\ pos' = pos + 1
  /\ UNCHANGED <<matches, request, phase, disabled, totalPairs, hits, records, survivors>>

CountOnly ==
  /\ phase = "ask"
  /\ Matches
  /\ Ablated
  /\ hits' = Counted
  /\ pos' = AfterAblated
  /\ UNCHANGED <<matches, request, phase, disabled, totalPairs, records, survivors>>

Suppress ==
  /\ phase = "ask"
  /\ Matches
  /\ ~Ablated
  /\ hits' = Counted
  /\ records' = Append(records, [pair |-> Current, by |-> Chain[pos]])
  /\ phase' = "fetch"
  /\ UNCHANGED <<matches, request, disabled, pos, totalPairs, survivors>>

Survive ==
  /\ phase = "ask"
  /\ pos \notin DOMAIN Chain
  /\ survivors' = Append(survivors, Current)
  /\ phase' = "fetch"
  /\ UNCHANGED <<matches, request, disabled, pos, totalPairs, hits, records>>

Finish ==
  /\ phase = "fetch"
  /\ ~More
  /\ phase' = "done"
  /\ UNCHANGED <<matches, request, disabled, pos, totalPairs, hits, records, survivors>>

Next ==
  \/ SetDisabled \/ Fetch \/ NoMatch \/ CountOnly \/ Suppress \/ Survive \/ Finish

(* The pass is a single thread that runs to its end.                        *)
Spec == Init /\ [][Next]_vars /\ WF_vars(Next)

============================================================================

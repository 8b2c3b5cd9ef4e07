------------------------------ MODULE PairFilter ------------------------------
(****************************************************************************)
(* What the filter promises the passes behind it: the pairs are decided in  *)
(* the order they come in, each in one step; a pair that no enabled         *)
(* heuristic holds for mutually exclusive is passed on, any other is        *)
(* recorded with the first enabled heuristic of the chain that does.        *)
(****************************************************************************)
EXTENDS Integers, Sequences

CONSTANT Chain    \* the heuristics in order

Names == {Chain[i] : i \in DOMAIN Chain}

VARIABLES matches, disabled, decided, survivors, records

vars == <<matches, disabled, decided, survivors, records>>

(* h suppresses p, is enabled, and no earlier enabled one suppresses p.     *)
Enabled(p) == matches[p] \ disabled
IsFirst(i, p) ==
  /\ i \in DOMAIN Chain
  /\ Chain[i] \in Enabled(p)
  /\ \A j \in 1..(i - 1) : Chain[j] \notin Enabled(p)

Init ==
  /\ matches \in Seq(SUBSET Names)
  /\ disabled \in SUBSET Names
  /\ decided = 0
  /\ survivors = <<>>
  /\ records = <<>>

PassOn ==
  /\ decided < Len(matches)
  /\ Enabled(decided + 1) = {}
  /\ survivors' = Append(survivors, decided + 1)
  /\ decided' = decided + 1
  /\ UNCHANGED <<matches, disabled, records>>

Filter ==
  /\ decided < Len(matches)
  /\ \E i \in DOMAIN Chain :
       /\ IsFirst(i, decided + 1)
       /\ records' = Append(records, [pair |-> decided + 1, by |-> Chain[i]])
  /\ decided' = decided + 1
  /\ UNCHANGED <<matches, disabled, survivors>>

Spec == Init /\ [][PassOn \/ Filter]_vars

============================================================================

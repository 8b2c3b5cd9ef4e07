-------------------------------- MODULE MCLitmus --------------------------------
(****************************************************************************)
(* Three pairs of two anchor functions and four partners: names that are    *)
(* one word, a word and a number, and that sanitising makes equal.          *)
(****************************************************************************)
EXTENDS Litmus

A == 101
B == 102
C == 103
NameOf == [f |-> <<A>>, g |-> <<A, B>>, p |-> <<C>>, q |-> <<C, 1>>, r |-> <<C, 1>>, s |-> <<B, C>>]

Pair(fn, partner, sig, empty) ==
  [fn |-> fn, partner |-> partner, name |-> NameOf[fn], pname |-> NameOf[partner], sig |-> sig, empty |-> empty]
PairsOf(fn, empty) ==
  {Pair(fn, p, sig, empty) : p \in {"p", "q", "r", "s"}, sig \in {"mb", "wmb"}}

Distinct(ps) ==
  \A i, j \in DOMAIN ps : i # j => <<ps[i].fn, ps[i].partner, ps[i].sig>> # <<ps[j].fn, ps[j].partner, ps[j].sig>>
MCInputs ==
  {ps \in {<<x, y, z>> : x \in PairsOf("f", FALSE), y \in PairsOf("f", FALSE) \cup {Pair("f", "p", "mb", TRUE)},
                       z \in PairsOf("f", FALSE) \cup PairsOf("g", FALSE) \cup {Pair("g", "p", "mb", TRUE)}} : Distinct(ps)}

============================================================================

--------------------------- MODULE MCLockPropagation ---------------------------
(****************************************************************************)
(* Three functions and two locks; every call graph with at most two callees *)
(* per function, recursive ones included, in which 1 is called from outside *)
(* and 2 and 3 may be internal.                                             *)
(****************************************************************************)
EXTENDS LockPropagation

Owns == {<<a, b, c>> : a \in {{1}, {1, 2}}, b \in {{}, {2}}, c \in {{}, {1}}}
Site(g, h) == [callee |-> g, held |-> h]
Careful(own, callees) == {Site(g, own) : g \in callees}
SitesOf(own, callees) ==
  {Careful(own, gs) : gs \in {hs \in SUBSET callees : Cardinality(hs) <= 2}}
    \cup {{Site(g, {})} : g \in callees}

MCPrograms ==
  UNION {[own : {o}, internal : {{2, 3}, {3}}, taken : {{}, {3}},
          sites : {<<a, b, c>> : a \in SitesOf(o[1], {2, 3}), b \in SitesOf(o[2], {2, 3}), c \in SitesOf(o[3], {1, 2})}] :
         o \in Owns}

============================================================================

----------------------------- MODULE MCFootprint -----------------------------
(****************************************************************************)
(* Every call graph over three functions (self loops, cycles and calls to a *)
(* declaration included), every choice of which of them touch an object.    *)
(****************************************************************************)
EXTENDS FootprintProps

CONSTANTS ext, a, b

MCDirect == {d \in [Fns -> SUBSET Objs] : d[1] \subseteq {a} /\ d[2] \in {{}, {b}}
                                          /\ d[3] \in {{}, {a}, {b}}}
MCPrograms ==
  [direct : MCDirect,
   calls  : {c \in [Fns -> SUBSET (Fns \cup Decls)] :
               \A f \in Fns : ext \in c[f] <=> f = 1}]

============================================================================

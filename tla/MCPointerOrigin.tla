---------------------------- MODULE MCPointerOrigin ----------------------------
(****************************************************************************)
(* Six values: 1 is the operand; 1, 3 and 6 may be casts; 2 is an           *)
(* instruction the walk goes through (it may be a PHI of a loop); 4 and 5   *)
(* are places a pointer may come from.                                      *)
(****************************************************************************)
EXTENDS PointerOrigin

Ops(vs) == {<<a>> : a \in vs} \cup {<<a, b>> : a \in vs, b \in vs}

MCGraphs ==
  {g \in [root : {1},
          kind : {<<k1, "step", "step", k4, k5, "step">> :
                    k1 \in {"step", "arg", "internal"}, k4 \in {"arg", "exported"}, k5 \in {"internal", "opaque"}},
          ops : {<<a, b, c, <<>>, <<>>, <<>> >> :
                    a \in {<<>>} \cup Ops({2, 3}),
                    b \in Ops({1, 3, 4, 5, 6}) \cup {<<3, 4, 1>>, <<4, 5, 3>>, <<6, 1, 3>>},
                    c \in {<<>>, <<2, 5>>, <<4>>}},
          base : {<<a, 2, c, 4, 5, d>> : a \in {1, 2, 4}, c \in {3, 4, 5}, d \in {2, 5}}] :
     \A v \in Values :
       /\ g.base[v] # v => g.kind[v] = "step" /\ g.ops[v] = <<>>
       /\ g.kind[v] # "step" => g.ops[v] = <<>>}

============================================================================

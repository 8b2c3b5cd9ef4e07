---------------------------- MODULE MCAnchorEffect ----------------------------
(****************************************************************************)
(* Three functions: 1 is called before its callees in module order, 3 may   *)
(* be a utility helper; every call graph with at most two calls per         *)
(* function, recursive ones included, and anchors of every strength.        *)
(****************************************************************************)
EXTENDS AnchorEffect

Args == {{}, {"Internal"}, {"Internal", "Unknown"}}
Anchor(o, args) == [ordering |-> o, args |-> args]
Call(f, args) == [callee |-> f, args |-> args]

BodiesOfOne == {{}, {Anchor("Acquire", {"Internal"}), Anchor("Release", {}), Anchor("Relaxed", {})}}
BodiesOfTwo == {{}, {Anchor("Release", {"Argument"})}}
BodiesOfThree == {{Anchor("Acquire", {}), Anchor("Release", {"Unknown"}), Anchor("SC", {"Internal"})}, {Anchor("SC", {"Unknown"})}}

CallsOf(callees) ==
  {<<>>} \cup {<<Call(g, a)>> : g \in callees, a \in Args}
    \cup {<<Call(g, {}), Call(h, {})>> : g \in callees, h \in callees}

MCPrograms ==
  {[utility |-> u, anchors |-> <<b1, b2, b3>>, calls |-> <<c1, c2, c3>>] :
     u \in {{}, {3}}, b1 \in BodiesOfOne, b2 \in BodiesOfTwo, b3 \in BodiesOfThree,
     c1 \in CallsOf({2, 3}), c2 \in CallsOf({1, 3}), c3 \in {<<>>, <<Call(1, {})>>, <<Call(2, {"Argument"})>>}}

============================================================================

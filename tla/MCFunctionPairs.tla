--------------------------- MODULE MCFunctionPairs ---------------------------
(****************************************************************************)
(* An anchor function 1, a partner 2 with every body of up to two           *)
(* instructions, a helper 3; a payload (object 1) and a flag (object 2).    *)
(* Bracket b1 is combined with a second one of the same or of another       *)
(* function under another label.                                            *)
(****************************************************************************)
EXTENDS FunctionPairsProps

CONSTANTS ext, L1, L2

Payload1 == 1
Flag == 2

Access(k, o) == [kind |-> k, objs |-> {o}]
Inst(k, S) == [kind |-> k, objs |-> S, loaded |-> "no", from |-> {}]
Deref(how) == [kind |-> "load", objs |-> {}, loaded |-> how, from |-> {Flag}]

MCInstructions ==
  {Inst("load", {Flag}), Inst("load", {Payload1}), Inst("store", {Payload1}),
   Inst("rmw", {Payload1}), Inst("call", {Payload1, Flag}),
   Deref("plain"), Deref("asm")}

MCBodies ==
  {f \in [Fns -> {<<>>} \cup {<<i>> : i \in MCInstructions}
                  \cup {<<i, j>> : i, j \in MCInstructions}] :
     f[1] = <<Inst("store", {Payload1})>> /\ f[3] \in {<<>>, <<Inst("load", {Flag})>>}}

MCCalls ==
  {c \in [Fns -> {{}, {ext}, {2}, {3}}] : c[1] = {ext} /\ c[2] # {ext} /\ c[3] \in {{}, {2}}}

Bracket(f, l, o, op, ch, b, a) ==
  [fn |-> f, label |-> l, ordering |-> o, op |-> op, channel |-> ch,
   before |-> b, after |-> a]

\* stlr, smp_wmb, smp_rmb, a casa between loads, a release with one neighbour
MCFirst ==
  {Bracket(1, L1, "Release", "store", {Flag}, Access("store", Payload1), NoAccess),
   Bracket(1, L1, "Release", "fence", {}, Access("store", Payload1), Access("store", Flag)),
   Bracket(1, L1, "Acquire", "fence", {}, Access("load", Flag), Access("load", Payload1)),
   Bracket(1, L1, "Acquire", "rmw", {Flag}, NoAccess, Access("load", Payload1)),
   Bracket(1, L1, "Relaxed", "store", {Flag}, Access("store", Payload1), NoAccess)}
MCSecond ==
  {Bracket(1, L2, "Acquire", "fence", {}, Access("load", Payload1), NoAccess),
   Bracket(2, L1, "SC", "fence", {}, NoAccess, Access("load", Flag))}

MCModules ==
  [body : MCBodies, calls : MCCalls, brackets : {<<b, c>> : b \in MCFirst, c \in MCSecond}]

============================================================================

----------------------------- MODULE SharedObjects -----------------------------
(****************************************************************************)
(* Which objects a pass takes for shared: heap objects, and globals that    *)
(* some function uses, directly or inside constants.  Three passes compute  *)
(* it, each with a copy of its own (causal_detect.cpp, function_pairs.cpp,  *)
(* pta.cpp).                                                                *)
(*                                                                          *)
(* A unit u has in u.uses, per global, the chains of constants that lead    *)
(* from it to a user that is an instruction or another global's             *)
(* initialiser; and in u.heap the allocations in it, those that SVF knows   *)
(* as they are ("malloc") and those of the kernel, which it knows after     *)
(* normaliseKernelAllocators has rewritten them.                            *)
(****************************************************************************)
EXTENDS Sequences

UsedIn(u, Chains) ==
  {g \in DOMAIN u.uses : \E c \in u.uses[g] : c.by = "instruction" /\ c.through \in Chains}

(* CausalDetectPass and FSPTAPass look one constant expression deep.        *)
OneLevel == {<<>>, <<"expr">>}
(* FunctionPairsPass follows expressions and aggregates to any depth.       *)
AnyLevel == Seq({"expr", "aggregate"})

UsedGlobals(u, pass) == UsedIn(u, IF pass = "FunctionPairsPass" THEN AnyLevel ELSE OneLevel)
HeapObjects(u, version) == IF version = "normalised" THEN u.heap ELSE u.heap \cap {"malloc"}

SharedIn(u, pass, version) ==
  [globals |-> UsedGlobals(u, pass), heap |-> HeapObjects(u, version)]

============================================================================

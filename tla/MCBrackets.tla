------------------------------ MODULE MCBrackets ------------------------------
(****************************************************************************)
(* Every function of up to three instructions, and every one that frames    *)
(* two anchors with two accesses, next to a second function that has no     *)
(* anchor of its own.  One block is spelt in capitals; dmb ish occurs in    *)
(* the text of the other two.                                               *)
(****************************************************************************)
EXTENDS Brackets

MCMnemonics == {"dmb ish", "dmb ishst", "dmb ishld", "stlr", "casal", "ldar"}
MCOrdering == [a \in MCMnemonics |->
  CASE a \in {"dmb ish", "casal"} -> "SC" [] a \in {"dmb ishst", "stlr"} -> "Release"
    [] OTHER -> "Acquire"]
MCKind == [a \in MCMnemonics |->
  CASE a = "stlr" -> "Store" [] a = "casal" -> "RMW" [] a = "ldar" -> "Load"
    [] OTHER -> "ThreadBarrier"]
Acc(op, o) == [op |-> op, obj |-> o]
Occurring(a) == IF a \in {"dmb ishst", "dmb ishld"} THEN {a, "dmb ish"} ELSE {a}
Asm(S, o) == [op |-> "asm", mnemonics |-> S, text |-> UNION {Occurring(a) : a \in S}, obj |-> o]
Capitals(S, o) == [op |-> "asm", mnemonics |-> S, text |-> {}, obj |-> o]

Accessing == {Acc("load", "payload"), Acc("store", "payload"), Acc("store", "flag")}
Anchoring ==
  {Asm({"dmb ish"}, None), Asm({"dmb ishst"}, None), Asm({"dmb ishld"}, None),
   Asm({"stlr"}, "flag"), Asm({"stlr"}, "payload"), Asm({"casal", "dmb ish"}, "flag"),
   Asm({"ldar"}, "flag"), Capitals({"dmb ish"}, None),
   [op |-> "call", callee |-> "wake_up", obj |-> "flag"],
   [op |-> "call", callee |-> "barrier", obj |-> None],
   [op |-> "call", callee |-> "kmalloc", obj |-> None]}

MCFirst ==
  {<<i, j, k>> : i \in Accessing \cup Anchoring, j \in Accessing \cup Anchoring,
                 k \in Accessing \cup Anchoring}
  \cup {<<i, x, y, k>> : i \in Accessing, x \in Anchoring, y \in Anchoring, k \in Accessing}
  \cup {<<x, i, j, y>> : x \in Anchoring, i \in Accessing, j \in Accessing, y \in Anchoring}
MCSecond == {<<Acc("store", "payload"), Acc("store", "flag")>>}

MCCodes == {<<a, b>> : a \in MCFirst, b \in MCSecond}
MCCallees == {"wake_up", "barrier", "kmalloc"}
MCLabel == [c \in MCCallees |->
  CASE c = "wake_up" -> "wake" [] c = "barrier" -> "barrier()" [] OTHER -> "kmalloc (ext)"]
MCCallOrdering == [c \in MCCallees |->
  CASE c = "wake_up" -> "Release" [] c = "barrier" -> "CompilerOnly" [] OTHER -> "SC"]

============================================================================

-------------------------------- MODULE Verifier --------------------------------
(****************************************************************************)
(* LitmusVerifierPass (litmus_verifier.cpp): the checks P1 to P8 of a test  *)
(* against the code it was built from.  Composed with Transpiler, whose     *)
(* test it reads; how a pair finds its test again is in Litmus.             *)
(*                                                                          *)
(* The verifier has tables and searches of its own, so that a mistake in    *)
(* the transpiler's would show.  What both define alike, locating the       *)
(* anchor and an access by its text, is taken from Transpiler; the verifier *)
(* also finds an access whose text was cut.                                 *)
(****************************************************************************)
EXTENDS Transpiler

VARIABLE checks    \* the report: "pass", "fail" or "skip" for each check

verifierVars == <<testVars, checks>>

----------------------------------------------------------------------------
(* What an instruction may leave in a test.                                 *)

kLoadMn == LoadAcquire \cup RMW.Acquire \cup RMW.SC
kStoreMn == (StoreRelease \ {"stlxp"}) \cup RMW.Release
barrierEquivToken(mn) ==
  CASE mn \in kLoadMn -> IF AsmOrdering(mn) = "SC" THEN "DMB ISH" ELSE "DMB LD"
    [] mn \in kStoreMn -> IF AsmOrdering(mn) = "SC" THEN "DMB ISH" ELSE "DMB ST"
    [] OTHER -> Empty
DirectToken(mn) ==
  CASE mn \in {"dmb ish", "dsb ish"} -> "DMB ISH"
    [] mn \in {"dmb ishst", "dmb oshst"} -> "DMB ST"
    [] mn = "dmb ishld" -> "DMB LD"
    [] mn = "dmb osh" -> "DMB OSH"
    [] mn = "dsb sy" -> "DSB SY"
    [] OTHER -> Empty

CallTokens_Anchors(fn) ==                                       \* mutant
  {orderingToHerd7Barrier(CallOrdering(fn))}
CallTokens(fn) ==
  IF fn.defined THEN {}
  ELSE LET listed == PrefixOrdering(fn.prefix)
       IN  {orderingToHerd7Barrier(IF Rank[listed] > Rank["Relaxed"] THEN listed ELSE fn.ordering)}
recordPlausibleTokens(inst) ==
  CASE inst.op = "asm" -> UNION {{DirectToken(mn), barrierEquivToken(mn)} :
                                   mn \in {t \in Texts(inst) : AsmOrdering(t) # "Relaxed"}}
    [] inst.op = "call" -> CallTokens(inst.fns[1])
    [] OTHER -> {}
plausibleBarriersBetween(code, lo, hi) ==
  (UNION {recordPlausibleTokens(code[i]) : i \in (lo + 1)..(hi - 1)}) \ {Empty}

expectedAnchorToken(p) ==
  IF p.site = "asm" /\ p.alloc # None THEN (IF p.label \in RMW.SC THEN "SWPAL" ELSE "STLR")
  ELSE IF p.site = "asm" /\ p.label \in {"dmb ish", "dsb ish"} THEN "DMB ISH"
  ELSE IF p.site = "asm" /\ p.label \in {"dmb ishst", "dmb oshst"} THEN "DMB ST"
  ELSE IF p.site = "asm" /\ p.label \in {"dmb ishld", "dmb oshld", "dsb ld"} THEN "DMB LD"
  ELSE IF p.site = "asm" /\ p.label = "dsb sy" THEN "DSB SY"
  ELSE orderingToHerd7Barrier(p.ordering)

----------------------------------------------------------------------------
(* The checks.                                                              *)

Verdict(ok) == IF ok THEN "pass" ELSE "fail"
Before == findInstByIR(pair.code, pair.before)
Anchor == findAnchorInstIdx(pair)
After == findInstByIR(pair.code, pair.after)
Tokens(thread) == {thread[i].op : i \in DOMAIN thread}

checkP1 ==
  LET at(k) == findInstByIR(pair.partner, pair.accesses[k])
  IN  Verdict(/\ Anchor # 0
              /\ Before < Anchor
              /\ pair.after # 0 => Anchor < After
              /\ \A k \in 2..Len(pair.accesses) : at(k - 1) <= at(k))

checkP2 ==
  LET expected == expectedAnchorToken(pair)
      full == {"DMB ISH", "DSB SY"}
      alts == CASE expected = "STLR" -> full \cup {"STLR", "SWPAL", "DMB ST"}
                [] expected = "SWPAL" -> full \cup {"SWPAL"}
                [] expected = "DMB ST" -> full \cup {"DMB ST", "STLR", "SWPAL"}
                [] expected = "DMB LD" -> full \cup {"DMB LD", "LDAR"}
                [] OTHER -> full
  IN  IF expected = Empty THEN "skip" ELSE Verdict(Tokens(p0) \cap alts # {})

checkP3 ==
  Verdict((/\ pair.alloc # None
           /\ pair.ordering \in {"Release", "SC"}
           /\ \E i \in Range(pair.accesses) : ~IsStore(pair.partner[i]))
          => Tokens(p1) \cap {"LDR", "LDAR"} # {})

(* The barriers that may stand on either side of the anchor.                *)
Plausible ==
  (IF pair.before # 0 THEN plausibleBarriersBetween(pair.code, Before, Anchor) ELSE {})
    \cup (IF pair.after # 0 THEN plausibleBarriersBetween(pair.code, Anchor, After) ELSE {})

checkP4 ==
  Verdict(/\ Anchor # 0
          /\ Tokens(p0) \cap (PureBarriers \cup {"LDAR"}) \subseteq Plausible \cup {expectedAnchorToken(pair)})

checkP5_NoFail == "pass"                                        \* mutant
checkP5 ==
  CASE pair.ordering = "CompilerOnly" -> "skip"
    [] pair.ordering \in {"SC", "Relaxed", "None"} -> "pass"
    [] pair.ordering = "Acquire" ->
         Verdict(Anchor # 0 /\ Plausible \cap {"DMB ISH", "DSB SY", "DMB OSH", "DMB ST"} = {})
    [] OTHER ->
         Verdict(Anchor # 0 /\ Plausible \cap {"DMB ISH", "DSB SY", "DMB OSH", "DMB LD"} = {})

(* An object without a description has the empty one.                       *)
checkP6 ==
  Verdict(/\ \A i \in {pair.before, pair.after} \ {0} : pair.code[i].obj # Empty
          /\ pair.alloc # Empty
          /\ \A i \in Range(pair.accesses) : pair.partner[i].obj # Empty)

checkP7 ==
  Verdict(\A v \in clause.payload \cup {clause.sync} : \E i \in DOMAIN p1 : p1[i].var = v)

CheckReport ==
  [P1 |-> checkP1, P2 |-> checkP2, P3 |-> checkP3, P4 |-> checkP4, P5 |-> checkP5, P6 |-> checkP6, P7 |-> checkP7,
   P8 |-> Verdict(checkP1 = "pass" /\ checkP4 = "pass" /\ checkP5 # "fail")]

----------------------------------------------------------------------------
VerifierInit == TestInit /\ checks = None

Transpile == TestNext /\ UNCHANGED checks

Verify ==
  /\ phase = "done"
  /\ checks = None
  /\ checks' = CheckReport
  /\ UNCHANGED testVars

VerifierNext == Transpile \/ Verify

VerifierSpec == VerifierInit /\ [][VerifierNext]_verifierVars

============================================================================

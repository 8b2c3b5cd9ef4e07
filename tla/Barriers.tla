-------------------------------- MODULE Barriers --------------------------------
(****************************************************************************)
(* The tables that give instructions their ordering: kAsmAnchors            *)
(* and kExtAnchors (anchors.h), which AnchorPass uses; the table of herd7   *)
(* tokens and the lowering of tokens to barriers of the transpiler          *)
(* (herd7_transpiler.cpp).  Mnemonics and prefixes are written as there.    *)
(****************************************************************************)
EXTENDS Naturals

Rank == [None |-> 0, CompilerOnly |-> 1, Relaxed |-> 2, Release |-> 3, Acquire |-> 4, SC |-> 5]
Orderings == DOMAIN Rank

----------------------------------------------------------------------------
(* kAsmAnchors.                                                             *)

ThreadBarrier ==
  [SC      |-> {"dmb ish", "dmb osh", "dsb sy", "dsb ish"},
   Acquire |-> {"dmb ishld", "dmb oshld", "dsb ld"},
   Release |-> {"dmb ishst", "dmb oshst", "dsb ishst", "dsb st"}]
LoadAcquire ==
  {"ldar", "ldaxr", "ldaxrb", "ldaxrh", "ldarb", "ldarh", "ldapr", "ldaprb", "ldaprh"}
StoreRelease == {"stlr", "stlxr", "stlxrb", "stlxrh", "stlrb", "stlrh", "stlxp"}
RMW ==
  [SC      |-> {"casal", "ldaddal", "ldclral", "ldeoral", "ldsetal", "swpal"},
   Acquire |-> {"ldadda", "ldclra", "ldeora", "ldseta", "casa", "cas"},
   Release |-> {"ldaddl", "ldclrl", "ldeorl", "ldsetl", "casl"},
   Relaxed |-> {"ldadd", "ldclr", "ldeor", "ldset"}]
RelaxedStore == {"stadd", "stclr", "steor", "str", "stset", "stxp"}
RelaxedLoad == {"ldr", "ldxp"}

Barriers == UNION {ThreadBarrier[o] : o \in DOMAIN ThreadBarrier}
RMWs == UNION {RMW[o] : o \in DOMAIN RMW}
Mnemonics == Barriers \cup LoadAcquire \cup StoreRelease \cup RMWs \cup RelaxedStore \cup RelaxedLoad

AsmOrdering(mn) ==
  CASE mn \in ThreadBarrier.SC \cup RMW.SC -> "SC"
    [] mn \in ThreadBarrier.Acquire \cup LoadAcquire \cup RMW.Acquire -> "Acquire"
    [] mn \in ThreadBarrier.Release \cup StoreRelease \cup RMW.Release -> "Release"
    [] OTHER -> "Relaxed"

(* The mnemonics AnchorPass makes an anchor of.                             *)
AnchorMnemonics == {mn \in Mnemonics \ LoadAcquire : AsmOrdering(mn) # "Relaxed"}

(* The texts a search for a label finds: those of longer mnemonics, too.    *)
Extensions(label) ==
  CASE label = "dmb ish" -> {"dmb ishld", "dmb ishst"}
    [] label = "dmb osh" -> {"dmb oshld", "dmb oshst"}
    [] label = "dsb ish" -> {"dsb ishst"}
    [] label = "cas" -> {"casa", "casl", "casal"}
    [] label = "casa" -> {"casal"}
    [] label = "ldadda" -> {"ldaddal"}
    [] label = "ldclra" -> {"ldclral"}
    [] label = "ldeora" -> {"ldeoral"}
    [] label = "ldseta" -> {"ldsetal"}
    [] label = "stlr" -> {"stlrb", "stlrh"}
    [] label = "stlxr" -> {"stlxrb", "stlxrh"}
    [] OTHER -> {}

----------------------------------------------------------------------------
(* Called functions, by what the tables and the pass know of them: the      *)
(* longest prefix of kExtAnchors, the row of kExtFnSummary or, of a defined *)
(* function, the effect found in its body, and the family of its name.      *)

kExtAnchors ==
  [SC |-> {"synchronize_rcu", "__get_cpu_var", "__put_cpu_var", "wake_up", "percpu_ref_kill"},
   Acquire |-> {"wait_for_completion", "read_seqcount", "_raw_spin_lock", "folio_lock",
                "lock_buffer", "rcu_seq_start"},
   Release |-> {"_raw_spin_unlock", "write_seqcount", "complete", "folio_unlock",
                "unlock_buffer", "rcu_seq_end"},
   CompilerOnly |-> {"__rcu_read_unlock", "__rcu_read_lock"}]
NoPrefix == ""
AnchorPrefixes == (UNION {kExtAnchors[o] : o \in DOMAIN kExtAnchors}) \cup {NoPrefix}
PrefixOrdering(prefix) ==
  IF prefix = NoPrefix THEN "None" ELSE CHOOSE o \in DOMAIN kExtAnchors : prefix \in kExtAnchors[o]

(* isBlocklistedExtAnchor, by family, and isUtilityHelperName.              *)
Blocklist ==
  {"callback-defer", "log", "string", "time", "lockref", "rbtree", "cpu feature", "init", "registration"}
Utility == "utility"
Callees ==
  [defined : BOOLEAN, prefix : AnchorPrefixes, ordering : Orderings,
   family : Blocklist \cup {Utility, "other"}]

(* What AnchorPass makes of a call of a declared function.                  *)
externalCallEffect(fn) ==
  IF fn.prefix # NoPrefix THEN PrefixOrdering(fn.prefix)
  ELSE IF fn.family \in Blocklist THEN "None"
  ELSE fn.ordering

(* The ordering AnchorPass records for a call: what a call means to its     *)
(* caller, as far as the tool knows.                                        *)
CallOrdering(fn) ==
  IF ~fn.defined THEN externalCallEffect(fn)
  ELSE IF fn.family = Utility \/ Rank[fn.ordering] <= Rank["Relaxed"] THEN "None"
  ELSE fn.ordering

(* The one collectExtFnOrderingInsts takes for a call between accesses.     *)
EmittedOrdering(fn) ==
  IF fn.defined THEN "None"
  ELSE IF Rank[PrefixOrdering(fn.prefix)] > Rank["Relaxed"] THEN PrefixOrdering(fn.prefix)
  ELSE IF Rank[fn.ordering] > Rank["Relaxed"] THEN fn.ordering
  ELSE "None"

----------------------------------------------------------------------------
(* mnemonicToHerd7; Empty for a mnemonic it does not know.  The tokens of   *)
(* instructions other than barriers are only told apart by their class.     *)
Empty == ""
PureBarriers == {"DMB ISH", "DMB ST", "DMB LD", "DMB OSH", "DSB SY"}
mnemonicToHerd7(mn) ==
  CASE mn = "dmb ish" -> "DMB ISH"
    [] mn \in {"dmb ishst", "dmb oshst"} -> "DMB ST"
    [] mn = "dmb ishld" -> "DMB LD"
    [] mn = "dmb osh" -> "DMB OSH"
    [] mn = "dsb sy" -> "DSB SY"
    [] mn \in LoadAcquire -> "LDAR"
    [] mn \in StoreRelease \ {"stlxp"} -> "STLR"
    [] mn \in RMW.SC \cup RMW.Acquire \cup RMW.Release -> mn
    [] OTHER -> Empty

(* isLoadInsn and isStoreInsn.                                              *)
IsLoadInsn(mn) == mn \in LoadAcquire \cup RMW.Acquire \cup RMW.SC
IsStoreInsn(mn) == mn \in (StoreRelease \ {"stlxp"}) \cup RMW.Release

(* barrierEquiv.                                                            *)
barrierEquiv(mn) ==
  IF IsLoadInsn(mn) \/ IsStoreInsn(mn)
  THEN IF AsmOrdering(mn) = "SC" THEN "DMB ISH" ELSE IF IsLoadInsn(mn) THEN "DMB LD" ELSE "DMB ST"
  ELSE mnemonicToHerd7(mn)

orderingToHerd7Barrier(o) ==
  CASE o = "SC" -> "DMB ISH" [] o = "Acquire" -> "DMB LD" [] o = "Release" -> "DMB ST"
    [] OTHER -> Empty

============================================================================

------------------------------ MODULE VerifierProps ------------------------------
(****************************************************************************)
(* What the checks P1 to P8 say of a test.                                  *)
(****************************************************************************)
EXTENDS Verifier

LineOps == {"LDR", "STR", "LDAR", "STLR", "SWPAL"} \cup PureBarriers
Lines == [op : LineOps, var : 0..Len(objs)]

TestTypeOK ==
  /\ phase \in {"register", "anchor", "hoist", "partner", "clause", "done", "skipped"}
  /\ objs \in Seq(Objs) /\ IsInjective(objs)
  /\ order \in Seq(DOMAIN pair.partner)
  /\ idx \in 1..(Len(order) + 1)
  /\ \A i \in DOMAIN p0 : p0[i] \in Lines
  /\ \A i \in DOMAIN p1 : p1[i] \in Lines
  /\ \A i \in DOMAIN p0 : p0[i].var = 0 <=> p0[i].op \in PureBarriers
  /\ \A i \in DOMAIN p1 : p1[i].var = 0 <=> p1[i].op \in PureBarriers

----------------------------------------------------------------------------
(* What AArch64 keeps in order within a thread: by barriers, by acquires    *)
(* and releases, and by the dependencies it is given.  What coherence of    *)
(* one object adds is left out.  An event is a set of kinds: R, W (reads,   *)
(* writes), A (acquires), Q (acquires, but may be done before an earlier    *)
(* release: ldapr), L (releases), AL (an atomic that does both), and the    *)
(* barriers FULL, LD and ST.  An atomic is one event.                       *)

Between2(i, j) == (i + 1)..(j - 1)
KeptDirectly(e, i, j) ==
  /\ i < j
  /\ \/ \E k \in Between2(i, j) : e[k] \cap {"FULL", "AL"} # {}
     \/ "R" \in e[i] /\ \E k \in Between2(i, j) : "LD" \in e[k]
     \/ "W" \in e[i] /\ "W" \in e[j] /\ \E k \in Between2(i, j) : "ST" \in e[k]
     \/ e[i] \cap {"A", "Q", "AL"} # {}
     \/ e[j] \cap {"L", "AL"} # {}
     \/ "L" \in e[i] /\ "A" \in e[j]
Depends(e, deps, i, j) == <<i, j>> \in deps /\ i < j /\ "R" \in e[i]

(* One after the other, any number of times: what is behind i is in every   *)
(* set closed under the steps from it.                                      *)
Memory(e) == {i \in DOMAIN e : e[i] \cap {"R", "W"} # {}}
OrderedAfter(e, deps, i) == {j \in Memory(e) : KeptDirectly(e, i, j) \/ Depends(e, deps, i, j)}
ClosedUnderOrder(e, deps, U) == \A i \in U : OrderedAfter(e, deps, i) \subseteq U
Kept(e, deps) ==
  {r \in Memory(e) \X Memory(e) :
     \A U \in SUBSET Memory(e) :
       (OrderedAfter(e, deps, r[1]) \subseteq U /\ ClosedUnderOrder(e, deps, U)) => r[2] \in U}

BarrierKind(o) == CASE o = "SC" -> {"FULL"} [] o = "Acquire" -> {"LD"} [] o = "Release" -> {"ST"} [] OTHER -> {}
LineEvent(line) ==
  CASE line.op = "LDR" -> {"R"}
    [] line.op = "STR" -> {"W"}
    [] line.op = "LDAR" -> {"R", "A"}
    [] line.op = "STLR" -> {"W", "L"}
    [] line.op = "SWPAL" -> {"R", "W", "AL"}
    [] line.op = "DMB LD" -> {"LD"}
    [] line.op = "DMB ST" -> {"ST"}
    [] OTHER -> {"FULL"}
LoadAcquirePC == {"ldapr", "ldaprb", "ldaprh"}
MnemonicEvent(mn) ==       \* "cas" is an acquire in kAsmAnchors only
  CASE mn \in Barriers -> BarrierKind(AsmOrdering(mn))
    [] mn \in LoadAcquire \ LoadAcquirePC -> {"R", "A"}
    [] mn \in LoadAcquirePC -> {"R", "Q"}
    [] mn \in StoreRelease -> {"W", "L"}
    [] mn \in RMW.SC -> {"R", "W", "AL"}
    [] mn \in RMW.Acquire \ {"cas"} -> {"R", "W", "A"}
    [] mn \in RMW.Release -> {"R", "W", "L"}
    [] mn \in RMW.Relaxed \cup {"cas"} -> {"R", "W"}
    [] mn \in RelaxedStore -> {"W"}
    [] OTHER -> {"R"}
InstEvent(inst) ==
  CASE inst.op = "load" -> {"R"}
    [] inst.op = "store" -> {"W"}
    [] inst.op = "asm" -> UNION {MnemonicEvent(mn) : mn \in Texts(inst)}
    [] OTHER -> BarrierKind(CallOrdering(inst.fns[1])) \cup (IF inst.obj = None THEN {} ELSE {"R"})

Events(thread) == [i \in DOMAIN thread |-> LineEvent(thread[i])]
CodeEvents(code) == [i \in DOMAIN code |-> InstEvent(code[i])]

(* The outcome sync=1, payload=0 is impossible: some payload is written in  *)
(* order before the flag, and read in order after it.  Addresses and stored *)
(* values of a test are constants, so nothing in it is ordered by a         *)
(* dependency; in the code, what the pair is given as one is.               *)
LastOf(S) == IF S = {} THEN 0 ELSE CHOOSE i \in S : \A j \in S : j <= i
WriteAt(v) == LastOf({i \in DOMAIN p0 : p0[i].var = v /\ "W" \in LineEvent(p0[i])})
ReadAt(v) == LastOf({i \in DOMAIN p1 : p1[i].var = v /\ "R" \in LineEvent(p1[i])})
TestForbids ==
  \E v \in clause.payload :
    /\ <<WriteAt(v), WriteAt(clause.sync)>> \in Kept(Events(p0), {})
    /\ <<ReadAt(clause.sync), ReadAt(v)>> \in Kept(Events(p1), {})

(* The same of the code.                                                    *)
CodeWriteAt(v) ==
  LET sides == {pair.before} \cup (IF IsFenceAnchor(pair) THEN {pair.after} ELSE {})
  IN  LastOf({i \in sides \ {0} : pair.code[i].op = "store" /\ pair.code[i].obj = objs[v]}
             \cup (IF WritesChannel(pair) /\ pair.alloc = objs[v] THEN {pair.at} ELSE {}))
CodeReadAt(v) == LastOf({i \in Range(pair.accesses) : pair.partner[i].obj = objs[v]})
CodeForbids ==
  \E v \in clause.payload :
    /\ <<CodeWriteAt(v), CodeWriteAt(clause.sync)>> \in Kept(CodeEvents(pair.code), pair.depends)
    /\ <<CodeReadAt(clause.sync), CodeReadAt(v)>> \in Kept(CodeEvents(pair.partner), pair.partnerDepends)

IsMP == phase = "done" /\ clause.payload # {}

----------------------------------------------------------------------------
(* The test is one herd7 can parse (TestTypeOK), and the register of a          *)
(* condition holds what P1 read last: it is loaded, not written, and by P0  *)
(* stored to.                                                               *)
ClauseReadsPublished ==
  phase = "done" =>
    \A v \in clause.payload \cup {clause.sync} :
      /\ \E i \in DOMAIN p0 : p0[i].var = v /\ "W" \in LineEvent(p0[i])
      /\ \E i \in DOMAIN p1 : p1[i].var = v /\ "R" \in LineEvent(p1[i])
      /\ \A i \in DOMAIN p1 : p1[i].var = v => p1[i].op # "STR"
TestWellFormed == TestTypeOK /\ ClauseReadsPublished

(* A test whose verdict is a verdict about ordering: executed in program    *)
(* order the outcome it asks for cannot happen.  So it is for every anchor  *)
(* that publishes, whatever the partner does and in whatever order, unless  *)
(* two objects it accesses go by the same description.                      *)
Publishes ==
  pair.alloc # None /\ (pair.site = "store plain" \/ (pair.site = "asm" /\ pair.ordering \in {"Release", "SC"}))
ImpossibleInOrder ==
  \E v \in clause.payload : WriteAt(v) < WriteAt(clause.sync) /\ ReadAt(clause.sync) < ReadAt(v)
ToldApart ==
  \A i, j \in DOMAIN pair.accesses :
    pair.partner[pair.accesses[i]].obj = pair.partner[pair.accesses[j]].obj => i = j
AboutOrdering == (IsMP /\ Publishes /\ ToldApart) => ImpossibleInOrder

----------------------------------------------------------------------------
(* The inductive invariant behind the two: what each thread is made of, how *)
(* far the test is built, that every access emitted has its line, and that  *)
(* no load of the channel comes behind a line of another object.            *)
Fences == {Fence(b) : b \in PureBarriers}
P0Lines == Fences \cup [op : {"LDR", "STR", "STLR", "SWPAL"}, var : DOMAIN objs]
P1Lines == Fences \cup [op : {"LDR", "LDAR"}, var : DOMAIN objs] \cup [op : {"STR"}, var : P1Stored]
TestStages ==
  /\ phase = "register" => objs = <<>>
  /\ phase \in {"anchor", "hoist", "partner", "done"} => objs = Registered
  /\ phase \in {"register", "anchor"} => p0 = <<>>
  /\ phase \in {"hoist", "partner", "done"} => p0 = AnchorThread(pair)
  /\ phase \in {"register", "anchor", "hoist"} => order = <<>> /\ idx = 1 /\ p1 = <<>>
  /\ phase \in {"partner", "done"} => order = Hoisted
  /\ phase = "done" => idx \notin DOMAIN order /\ clause # None /\ clause = Clause
Emitted ==
  phase \in {"partner", "done"} =>
    \A k \in 1..(idx - 1) : \E i \in DOMAIN p1 : p1[i] = PartnerAccess(Access(k))
Accounted ==
  \A i \in DOMAIN p1 :
    \/ p1[i] \in Fences
    \/ \E k \in 1..(idx - 1) : p1[i].var = Var(Access(k).obj)
    \/ WritesChannel(pair) /\ p1[i].var = Var(pair.alloc)
ChannelFirst ==
  (WritesChannel(pair) /\ ToldApart) =>
    \A i, j \in DOMAIN p1 :
      (i < j /\ p1[j].var = Var(pair.alloc) /\ p1[j].op # "STR") => p1[i].var \in {0, Var(pair.alloc)}
TestInv ==
  /\ pair \in Inputs /\ TestTypeOK
  /\ p0 \in Seq(P0Lines) /\ p1 \in Seq(P1Lines)
  /\ TestStages /\ Emitted /\ Accounted /\ ChannelFirst

----------------------------------------------------------------------------
(* What it takes for the test to order what the code orders.  The bracket   *)
(* is the access before and the flag: the anchor's own store, or the access *)
(* after a fence.                                                           *)
Flag == IF IsFenceAnchor(pair) THEN pair.after ELSE pair.at

(* Instructions between the accesses: those whose lowering orders what they *)
(* do.  Loads that acquire and stores that release do not, nor barriers     *)
(* without a token, nor calls taken for more or less than AnchorPass takes  *)
(* them for.                                                                *)
Plainly(inst) == inst.op \in {"load", "store"} /\ ~inst.long
ExactBarrier(inst) ==
  \/ /\ inst.op = "asm"
     /\ \A mn \in Texts(inst) : mn \in RMW.SC \/ (mn \in Barriers /\ mnemonicToHerd7(mn) # Empty)
  \/ inst.op = "call" /\ EmittedOrdering(inst.fns[1]) = CallOrdering(inst.fns[1])
ExactBarriers ==
  /\ \A i \in DOMAIN pair.code \ {pair.before, pair.at, pair.after} :
       Plainly(pair.code[i]) \/ ExactBarrier(pair.code[i])
  /\ \A i \in DOMAIN pair.partner \ Range(pair.accesses) :
       Plainly(pair.partner[i]) \/ ExactBarrier(pair.partner[i])

(* The anchor: a block that does what the test has for it, a release or a   *)
(* full atomic on the channel, and else the barrier or atomic of its label. *)
AnchorSeen ==
  LET texts == Texts(pair.code[pair.at])
  IN  IF pair.alloc # None THEN texts \cap (StoreRelease \cup RMW.Release \cup RMW.SC) # {}
      ELSE pair.label \in Barriers \cup RMW.SC /\ texts = {pair.label}
(* In front of a plain publication nothing orders.                          *)
AnchorKept ==
  /\ pair.site = "asm" => AnchorSeen
  /\ pair.site = "store plain" => \A i \in (pair.before + 1)..(pair.at - 1) : OrderingInsts(pair.code[i]) = <<>>

(* The accesses: found where they are, plain or an acquire of the channel,  *)
(* kept in their order, the flag read in front of the payload.              *)
AccessesKept ==
  /\ \A i \in {pair.before, pair.after} : findInstByIR(pair.code, i) = i
  /\ \A i \in Range(pair.accesses) :
       /\ findInstByIR(pair.partner, i) = i
       /\ \/ Plainly(pair.partner[i])
          \/ /\ IsChanLoad(pair.partner[i]) /\ ~pair.partner[i].long
             /\ Texts(pair.partner[i]) # {} /\ Texts(pair.partner[i]) \subseteq LoadAcquire \ LoadAcquirePC
  /\ \A i, j \in DOMAIN order : i < j => order[i] < order[j]
  /\ \A v \in clause.payload :
       CodeReadAt(clause.sync) # 0 /\ CodeReadAt(clause.sync) < CodeReadAt(v)

(* Dependencies do not reach a test.  None lies between the two accesses.   *)
Undepended(deps, i, j) == \A d \in deps : ~(i <= d[1] /\ d[2] <= j)
NoDependency ==
  /\ Undepended(pair.depends, pair.before, Flag)
  /\ \A v \in clause.payload :
       Undepended(pair.partnerDepends, CodeReadAt(clause.sync), CodeReadAt(v))

(* Then a test that forbids the outcome is right about the code, whatever   *)
(* the code's dependencies; and unless a dependency of the code orders the  *)
(* accesses, a test that allows the outcome is right, too.                  *)
ExactWhenKept ==
  (IsMP /\ ExactBarriers /\ AnchorKept /\ AccessesKept) =>
    /\ TestForbids => CodeForbids
    /\ NoDependency => (CodeForbids => TestForbids)

----------------------------------------------------------------------------
(* "compiler barrier only, no hardware fence" (anchors.h:26): what the      *)
(* table of anchors says is a compiler barrier puts no barrier in a test.   *)
CompilerOnlyIsNoFence ==
  \A i \in DOMAIN pair.partner :
    (pair.partner[i].op = "call" /\ CallOrdering(pair.partner[i].fns[1]) = "CompilerOnly")
      => OrderingInsts(pair.partner[i]) = <<>>

----------------------------------------------------------------------------

Verified == checks # None

----------------------------------------------------------------------------
(* Two passes written apart agree: what the transpiler lets stand in P0 and *)
(* in the condition, the verifier expects to find, whatever the code.  Only *)
(* for "dmb osh" their tables differ, and a plain publication has no        *)
(* instruction the verifier could locate.                                   *)
NoFalseAlarm ==
  (Verified /\ pair.label # "dmb osh") =>
    /\ checks.P2 # "fail"
    /\ checks.P3 = "pass"
    /\ pair.site # "store plain" => checks.P4 = "pass"
    /\ checks.P7 = "pass"

----------------------------------------------------------------------------
(* What passing P8 buys on the side of the anchor.  Where every barrier     *)
(* between is one both passes can see, and the anchor is a fence, a release *)
(* or a full atomic, what P0 keeps of the bracket the code keeps, and P0    *)
(* keeps what the code does not owe to a dependency.                        *)
HasBracket == pair.before # 0 /\ Flag # 0 /\ (WritesChannel(pair) \/ IsFenceAnchor(pair))
BarriersSeen ==
  \A i \in (pair.before + 1)..(Flag - 1) \ {pair.at} :
    ExactBarrier(pair.code[i]) \/ pair.code[i].op \in {"load", "store"}
BracketInTest == <<1, Len(p0)>> \in Kept(Events(p0), {})
BracketInCode == <<pair.before, Flag>> \in Kept(CodeEvents(pair.code), pair.depends)
P8MakesAnchorSideExact ==
  (Verified /\ checks.P8 = "pass" /\ HasBracket /\ BarriersSeen /\ AnchorSeen) =>
    /\ BracketInTest => BracketInCode
    /\ Undepended(pair.depends, pair.before, Flag) => (BracketInCode => BracketInTest)

----------------------------------------------------------------------------
(* "P1 /\ P4 /\ P5 together imply that the reduced IR contains no more      *)
(* happens-before than the original" (spec/MBCheckIR.tla:260): a test that  *)
(* passes P8 forbids no outcome that the code allows.                       *)
P8IsConservative == (Verified /\ checks.P8 = "pass" /\ IsMP /\ TestForbids) => CodeForbids

(* "every P0-write symbol has a P1 load" (litmus_verifier.h:10).             *)
P3IsClosure ==
  (Verified /\ checks.P3 = "pass") =>
    \A v \in P0Written : \E i \in DOMAIN p1 : p1[i].var = v /\ "R" \in LineEvent(p1[i])

============================================================================

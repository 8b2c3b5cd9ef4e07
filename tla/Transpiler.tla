------------------------------- MODULE Transpiler -------------------------------
(****************************************************************************)
(* From one surviving pair to one litmus test: the body of                  *)
(* Herd7TranspilerPass::run (herd7_transpiler.cpp) with the construction of *)
(* the two threads and of the condition.  How the test is named and stored  *)
(* is in Litmus.                                                            *)
(*                                                                          *)
(* A function is the sequence of its instructions that matter, flattened in *)
(* block order: plain accesses, inline-asm blocks (each a sequence of       *)
(* mnemonics, with the object they are given) and calls.  A line of a       *)
(* thread is its operation and its variable; the value register of a        *)
(* variable is the same in every line of a thread, so the variable stands   *)
(* for the register, and the MOV in front of a store is left out.           *)
(****************************************************************************)
EXTENDS Barriers, Sequences, SequencesExt, FiniteSets

CONSTANTS
  Objs,      \* shared objects, by description
  None,
  Inputs     \* pairs

(* Long: the printed instruction has more than 120 characters.              *)
Instructions ==
  [op : {"load", "store"}, obj : Objs, mns : {<<>>}, fns : {<<>>}, long : BOOLEAN]
    \cup [op : {"asm"}, obj : Objs \cup {None}, mns : Seq(Mnemonics), fns : {<<>>}, long : BOOLEAN]
    \cup [op : {"call"}, obj : Objs \cup {None}, mns : {<<>>}, fns : [{1} -> Callees], long : BOOLEAN]

Texts(inst) == {inst.mns[i] : i \in DOMAIN inst.mns}

(* A pair: the anchor function with its bracket, the partner function with  *)
(* the accesses found in it; 0 is for no access.  The anchor is an asm      *)
(* block in which the label of the hit is found, with the ordering the      *)
(* table has for it, a call, or the plain store of a synthetic publication. *)
(* A block or a call was located as the first that fits the hit, and its    *)
(* sides are the nearest accesses.  The address, data and control           *)
(* dependencies that order an access of a function behind one of its loads  *)
(* are pairs of positions; no pass looks at them.                           *)
IsAnchorInst(p, i) ==
  \/ p.site = "asm" /\ p.code[i].op = "asm"
       /\ Texts(p.code[i]) \cap ({p.label} \cup Extensions(p.label)) # {}
  \/ p.site = "call" /\ p.code[i].op = "call" /\ p.code[i].fns = p.code[p.at].fns
Located(p) ==
  /\ IsAnchorInst(p, p.at)
  /\ \A i \in 1..(p.at - 1) : ~IsAnchorInst(p, i)
  /\ \A i \in DOMAIN p.code :
       p.code[i].op \in {"load", "store"} => i <= p.before \/ (p.after # 0 /\ p.after <= i)

ASSUME InputsAssumption ==
  \A p \in Inputs :
    /\ p.code \in Seq(Instructions) /\ p.partner \in Seq(Instructions)
    /\ p.ordering \in Orderings
    /\ \/ p.site = "asm" /\ p.label \in AnchorMnemonics /\ p.ordering = AsmOrdering(p.label) /\ Located(p)
       \/ p.site = "call" /\ Located(p)
       \/ p.site = "store plain" /\ p.ordering = "Relaxed" /\ p.code[p.at].op = "store"
    /\ p.alloc \in Objs \cup {None}
    /\ p.at \in DOMAIN p.code
    /\ p.before \in 0..(p.at - 1)
    /\ p.after \in {0} \cup ((p.at + 1)..Len(p.code))
    /\ p.before # 0 => p.code[p.before].op \in {"load", "store"}
    /\ p.after # 0 => p.code[p.after].op \in {"load", "store"}
    /\ p.accesses \in Seq(DOMAIN p.partner)
    /\ \A i \in DOMAIN p.accesses : p.partner[p.accesses[i]].obj \in Objs
    /\ p.depends \subseteq (DOMAIN p.code) \X (DOMAIN p.code)
    /\ p.partnerDepends \subseteq (DOMAIN p.partner) \X (DOMAIN p.partner)

VARIABLES
  pair,    \* the input; no step changes it
  phase,   \* "register", "anchor", "hoist", "partner", "clause", "done" or "skipped"
  objs,    \* VarMap: the objects in the order of their variables
  order,   \* orderedAccesses
  idx,     \* the access being emitted
  p0, p1,  \* the lines of the threads
  clause   \* the condition

testVars == <<pair, phase, objs, order, idx, p0, p1, clause>>

----------------------------------------------------------------------------
(* Texts.  An instruction with a result is printed with its unique name.    *)

(* The elements of a sequence in S, in their order; and each element once,  *)
(* where it is first.                                                       *)
Within(seq, S) == FlattenSeq([i \in DOMAIN seq |-> IF seq[i] \in S THEN <<seq[i]>> ELSE <<>>])
Once(seq) ==
  FlattenSeq([i \in DOMAIN seq |-> IF \E j \in 1..(i - 1) : seq[j] = seq[i] THEN <<>> ELSE <<seq[i]>>])

FirstOf(S) == IF S = {} THEN 0 ELSE CHOOSE i \in S : \A j \in S : i <= j
HasResult(inst) ==
  inst.op = "load" \/ (inst.op = "asm" /\ Texts(inst) \cap (LoadAcquire \cup RMWs \cup RelaxedLoad) # {})

(* findInstByIR: the first instruction with the text of the one at i.       *)
findInstByIR(code, i) ==
  IF i = 0 THEN 0
  ELSE FirstOf({j \in DOMAIN code : j = i \/ (code[j] = code[i] /\ ~HasResult(code[i]))})

(* A plain store is not searched for.                                       *)
findAnchorInstIdx(p) == FirstOf({i \in DOMAIN p.code : IsAnchorInst(p, i)})

(* Whether an access is a store is read off its text; so is whether it is   *)
(* an acquire load.                                                         *)
IsStore(inst) ==
  inst.op = "store" \/ Texts(inst) \cap {"stlr", "stlrb", "stlrh", "stlxr", "stlxrb", "stlxrh", "swpal"} # {}
SrcIsAcquire(inst) == Texts(inst) \cap LoadAcquire # {}

----------------------------------------------------------------------------
(* Ordering instructions: token, the barrier it is lowered to, and whether  *)
(* it is a load that acquires.                                              *)

AsmOrderingInst(mn) ==
  [token |-> mnemonicToHerd7(mn), lowered |-> barrierEquiv(mn), acquires |-> IsLoadInsn(mn)]
OrderingMnemonics == {mn \in Mnemonics : mnemonicToHerd7(mn) # Empty /\ AsmOrdering(mn) # "Relaxed"}
collectAsmOrderingInsts(inst) ==
  LET kept == Within(inst.mns, OrderingMnemonics)
  IN  [i \in DOMAIN kept |-> AsmOrderingInst(kept[i])]
collectExtFnOrderingInsts(inst) ==
  LET token == orderingToHerd7Barrier(EmittedOrdering(inst.fns[1]))
  IN  IF token = Empty THEN <<>> ELSE <<[token |-> token, lowered |-> token, acquires |-> FALSE]>>
OrderingInsts(inst) ==
  CASE inst.op = "asm" -> collectAsmOrderingInsts(inst)
    [] inst.op = "call" -> collectExtFnOrderingInsts(inst)
    [] OTHER -> <<>>

(* Between lo and hi, exclusive; each token once, where it is first.        *)
collectOrderingBetween(code, lo, hi) ==
  Once(FlattenSeq([i \in 1..(hi - lo - 1) |-> OrderingInsts(code[lo + i])]))

Line(op, var) == [op |-> op, var |-> var]
Fence(op) == Line(op, 0)
emitOrderingInsts(ois) == [i \in DOMAIN ois |-> Fence(ois[i].lowered)]

(* VarMap.                                                                  *)
Var(obj) == FirstOf({v \in DOMAIN objs : objs[v] = obj})
Registered ==
  LET named(i) == IF i = 0 THEN <<>> ELSE <<pair.code[i].obj>>
      alloc == IF pair.alloc = None THEN <<>> ELSE <<pair.alloc>>
      accessed == [i \in DOMAIN pair.accesses |-> pair.partner[pair.accesses[i]].obj]
  IN  Once(named(pair.before) \o alloc \o named(pair.after) \o accessed)

emitAccess(obj, store) == Line(IF store THEN "STR" ELSE "LDR", Var(obj))

----------------------------------------------------------------------------
(* P0.                                                                      *)

WritesChannel(p) == p.alloc # None /\ p.site \in {"asm", "store plain"}
IsFenceAnchor(p) == p.alloc = None /\ p.site = "asm"

emitAnchor(p) ==
  LET barrier == IF p.site = "asm" /\ mnemonicToHerd7(p.label) \in PureBarriers
                 THEN mnemonicToHerd7(p.label) ELSE orderingToHerd7Barrier(p.ordering)
  IN  IF WritesChannel(p)
      THEN <<Line(IF p.site = "store plain" THEN "STR"
                  ELSE IF p.label \in RMW.SC THEN "SWPAL" ELSE "STLR", Var(p.alloc))>>
      ELSE IF barrier = Empty THEN <<>> ELSE <<Fence(barrier)>>

BracketAccess(p, i) ==
  IF i = 0 THEN <<>> ELSE <<emitAccess(p.code[i].obj, p.code[i].op = "store")>>
Between(code, lo, hi) ==
  IF lo # 0 /\ hi # 0 /\ lo < hi THEN emitOrderingInsts(collectOrderingBetween(code, lo, hi)) ELSE <<>>

AnchorThread(p) ==
  LET b == findInstByIR(p.code, p.before)
      m == findAnchorInstIdx(p)
      a == findInstByIR(p.code, p.after)
  IN  BracketAccess(p, p.before) \o Between(p.code, b, m) \o emitAnchor(p)
        \o (IF IsFenceAnchor(p) THEN Between(p.code, m, a) \o BracketAccess(p, p.after) ELSE <<>>)

----------------------------------------------------------------------------
(* P1.                                                                      *)

Access(i) == pair.partner[order[i]]
IsChanLoad(inst) == WritesChannel(pair) /\ ~IsStore(inst) /\ inst.obj = pair.alloc

(* Loads of the channel come first, the rest keeps its order.               *)
Hoisted_Not == pair.accesses                                    \* mutant
ChanLoads == {i \in DOMAIN pair.partner : IsChanLoad(pair.partner[i])}
Hoisted ==
  IF pair.accesses # <<>> /\ pair.accesses[1] \in ChanLoads THEN pair.accesses
  ELSE Within(pair.accesses, ChanLoads) \o Within(pair.accesses, DOMAIN pair.partner \ ChanLoads)

(* emitOrderingOrChannelLoad: in front of the first access a load that      *)
(* acquires is taken for the load of the channel.                           *)
emitOrderingOrChannelLoad(ois) ==
  [i \in DOMAIN ois |-> IF ois[i].acquires /\ WritesChannel(pair)
                        THEN Line("LDAR", Var(pair.alloc)) ELSE Fence(ois[i].lowered)]

(* The text of a partner access was cut to 120 characters (instToStr of     *)
(* function_pairs.cpp); an access whose text was cut is not found.          *)
OrderingBefore(i) ==
  LET at(k) == IF Access(k).long THEN 0 ELSE findInstByIR(pair.partner, order[k])
  IN  IF i = 1
      THEN IF at(1) = 0 THEN <<>> ELSE emitOrderingOrChannelLoad(collectOrderingBetween(pair.partner, 0, at(1)))
      ELSE Between(pair.partner, at(i - 1), at(i))

PartnerAccess_Ldar(inst) ==                                     \* mutant
  IF IsChanLoad(inst) THEN Line("LDAR", Var(inst.obj)) ELSE emitAccess(inst.obj, IsStore(inst))
PartnerAccess(inst) ==
  IF IsChanLoad(inst) /\ SrcIsAcquire(inst) THEN Line("LDAR", Var(inst.obj))
  ELSE emitAccess(inst.obj, IsStore(inst))

----------------------------------------------------------------------------
(* The condition: none, "exists (sync=1)" when payload is empty, and else   *)
(* "~exists (sync=1 /\ every payload=0)".                                   *)

P0Written_After ==                                              \* mutant
  {Var(pair.code[i].obj) : i \in {j \in {pair.before, pair.after} : j # 0}}
    \cup (IF pair.alloc = None THEN {} ELSE {Var(pair.alloc)})
P0Written ==
  {Var(pair.code[i].obj) : i \in {j \in {pair.before} \cup (IF IsFenceAnchor(pair) THEN {pair.after} ELSE {}) :
                                    j # 0 /\ pair.code[j].op = "store"}}
    \cup (IF WritesChannel(pair) THEN {Var(pair.alloc)} ELSE {})
P1Stored == {Var(pair.partner[i].obj) : i \in {j \in Range(pair.accesses) : IsStore(pair.partner[j])}}
Loaded == ({p1[i].var : i \in DOMAIN p1} \ {0}) \ P1Stored

(* The order of the names x, y, z, w, v, u, t, s, r, q and a0 to a9 as      *)
(* texts; a pair has fewer than twenty objects.                             *)
TextOrder(v) == IF v <= 3 THEN 10 + v ELSE IF v <= 10 THEN 10 - v ELSE v - 21

SyncVar ==
  LET publishes == /\ pair.alloc # None
                   /\ \/ pair.site = "asm" /\ pair.ordering \in {"Release", "SC"}
                      \/ pair.site = "store plain"
      flag == IsFenceAnchor(pair) /\ pair.after # 0 /\ pair.code[pair.after].op = "store"
      candidates == Loaded \cap P0Written
  IN  IF publishes /\ Var(pair.alloc) \in Loaded THEN Var(pair.alloc)
      ELSE IF flag /\ Var(pair.code[pair.after].obj) \in Loaded THEN Var(pair.code[pair.after].obj)
      ELSE IF candidates = {} THEN 0
      ELSE CHOOSE v \in candidates : \A w \in candidates : TextOrder(v) <= TextOrder(w)

Clause_AllLoads ==                                              \* mutant
  IF SyncVar = 0 THEN None ELSE [sync |-> SyncVar, payload |-> Loaded \ {SyncVar}]
Clause ==
  IF Cardinality(Loaded) = 1
  THEN IF Loaded \subseteq P0Written THEN [sync |-> CHOOSE v \in Loaded : TRUE, payload |-> {}] ELSE None
  ELSE IF SyncVar = 0 THEN None
  ELSE [sync |-> SyncVar, payload |-> (Loaded \cap P0Written) \ {SyncVar}]

----------------------------------------------------------------------------
TestInit ==
  /\ pair \in Inputs
  /\ phase = "register"
  /\ objs = <<>>
  /\ order = <<>>
  /\ idx = 1
  /\ p0 = <<>>
  /\ p1 = <<>>
  /\ clause = None

(* A pair without any access is left out before anything is built.          *)
RegisterObjects ==
  /\ phase = "register"
  /\ IF pair.before = 0 /\ pair.after = 0 /\ pair.accesses = <<>>
     THEN phase' = "skipped" /\ UNCHANGED objs
     ELSE phase' = "anchor" /\ objs' = Registered
  /\ UNCHANGED <<pair, order, idx, p0, p1, clause>>

BuildAnchorThread ==
  /\ phase = "anchor"
  /\ phase' = "hoist"
  /\ p0' = AnchorThread(pair)
  /\ UNCHANGED <<pair, objs, order, idx, p1, clause>>

OrderAccesses ==
  /\ phase = "hoist"
  /\ phase' = "partner"
  /\ order' = Hoisted
  /\ UNCHANGED <<pair, objs, idx, p0, p1, clause>>

EmitPartnerAccess ==
  /\ phase = "partner"
  /\ idx \in DOMAIN order
  /\ p1' = p1 \o OrderingBefore(idx) \o <<PartnerAccess(Access(idx))>>
  /\ idx' = idx + 1
  /\ UNCHANGED <<pair, phase, objs, order, p0, clause>>

(* A pair without a condition has no test.                                  *)
BuildExistsClause ==
  /\ phase = "partner"
  /\ idx \notin DOMAIN order
  /\ clause' = Clause
  /\ phase' = IF Clause = None THEN "skipped" ELSE "done"
  /\ UNCHANGED <<pair, objs, order, idx, p0, p1>>

TestNext ==
  \/ RegisterObjects \/ BuildAnchorThread \/ OrderAccesses
  \/ EmitPartnerAccess \/ BuildExistsClause

TestSpec == TestInit /\ [][TestNext]_testVars

============================================================================

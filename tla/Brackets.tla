------------------------------- MODULE Brackets -------------------------------
(****************************************************************************)
(* From instructions to anchor brackets: the scan of AnchorPass::run        *)
(* (anchor_pass.cpp) and the bracket extraction, deduplication and          *)
(* strict-publish synthesis of CausalDetectPass::run (causal_detect.cpp).   *)
(*                                                                          *)
(* A function is the sequence of the instructions that matter, flattened in *)
(* block order: accesses to shared objects, inline-asm blocks and calls (a  *)
(* volatile store offers a compiler-only hit, which addHit drops: it is a   *)
(* store).                                                                  *)
(* The text of an asm block is seen in two ways: mnemonics are those that   *)
(* collectAsmAnchors recognises, whatever their case and spacing; text is   *)
(* the labels that occur in the block as it is written (dmb ish also occurs *)
(* in dmb ishst, and does not in DMB ISH).  Two accesses have the same text *)
(* when both store to the same object in the same way (a load is printed    *)
(* with its result register, so its text is unique).  The order in which    *)
(* the mnemonics of one block are recorded is left open.                    *)
(* Functions are numbered; both passes visit each of them once.  Between    *)
(* the two the module is rewritten: normaliseKernelAllocators               *)
(* (allocatorPre.cpp) replaces kernel allocators by malloc for SVF.         *)
(****************************************************************************)
EXTENDS Integers, Sequences, FiniteSets

CONSTANTS
  NumFns,       \* the functions are 1..NumFns
  Objs,         \* shared objects
  Globals,      \* those that are named globals
  Mnemonics,    \* rows of kAsmAnchors
  AsmOrdering, AsmKind,
  Callees,      \* functions that have an anchor entry or a call effect
  CallLabel, CallOrdering,
  Allocators,   \* those of them that are kernel allocators
  None,
  Codes         \* the modules considered

Rank == [None |-> 0, CompilerOnly |-> 1, Relaxed |-> 2, Release |-> 3,
         Acquire |-> 4, SC |-> 5]
Orderings == DOMAIN Rank
Fns == 1..NumFns
PlainLabel == "store (plain, no barrier)"

Instructions ==
  [op : {"load", "store", "atomic store"}, obj : Objs]
    \cup [op : {"asm"}, mnemonics : SUBSET Mnemonics, text : SUBSET Mnemonics,
          obj : Objs \cup {None}]
    \cup [op : {"call"}, callee : Callees, obj : Objs \cup {None}]
    \cup [op : {"malloc"}]

ASSUME NumFnsAssumption == NumFns \in Nat
ASSUME TablesAssumption ==
  /\ AsmOrdering \in [Mnemonics -> Orderings]
  /\ AsmKind \in [Mnemonics -> {"ThreadBarrier", "Store", "RMW", "Load"}]
  /\ CallOrdering \in [Callees -> Orderings]
  /\ Allocators \subseteq Callees
  /\ \A c \in Callees : CallLabel[c] \notin Mnemonics \cup {PlainLabel}
  /\ PlainLabel \notin Mnemonics
  /\ "asm" \notin Callees
ASSUME CodesAssumption == \A c \in Codes : c \in [Fns -> Seq(Instructions)]

VARIABLES
  code,       \* the module under analysis
  strict,     \* the option --strict-publish; no step changes it
  phase,      \* "anchors", "bracket", "dedup", "publish" or "done"
  fn,         \* the function being visited
  pc,         \* the instruction, hit or candidate being visited
  hits,       \* AnchorPass: the hits of every function
  candidates, \* the brackets of fn before deduplication
  brackets    \* perFunction

vars == <<code, strict, phase, fn, pc, hits, candidates, brackets>>

----------------------------------------------------------------------------
(* AnchorPass::run.                                                         *)

AsmHit(a) == [label |-> a, ordering |-> AsmOrdering[a], site |-> "asm"]
CallHit(c) == [label |-> CallLabel[c], ordering |-> CallOrdering[c], site |-> c]

(* The hits an instruction offers to addHit: pure loads and relaxed         *)
(* mnemonics are skipped before, compiler-only hits inside.                 *)
Offered(inst) ==
  {h \in
     IF inst.op = "asm"
     THEN {AsmHit(a) : a \in {b \in inst.mnemonics :
                                AsmKind[b] # "Load" /\ AsmOrdering[b] # "Relaxed"}}
     ELSE IF inst.op = "call" THEN {CallHit(inst.callee)}
     ELSE {} : h.ordering # "CompilerOnly"}

(* A hit is recorded unless the function already has one with its label.    *)
Fresh_Any(h) == TRUE                                            \* mutant
Fresh(h) == \A i \in DOMAIN hits[fn] : hits[fn][i].label # h.label

(* normaliseKernelAllocators; malloc itself is no anchor.                   *)
Rewritten(inst) ==
  IF inst.op = "call" /\ inst.callee \in Allocators THEN [op |-> "malloc"] ELSE inst

(* CausalDetectPass::run, locating an anchor.  The text of an asm block is  *)
(* searched for the label as it stands.                                     *)
IsAnchorInst_Whole(inst, hit) ==                                \* mutant
  IF hit.site = "asm" THEN inst.op = "asm" /\ inst.text = {hit.label}
  ELSE inst.op = "call" /\ inst.callee = hit.site
IsAnchorInst(inst, hit) ==
  IF hit.site = "asm" THEN inst.op = "asm" /\ hit.label \in inst.text
  ELSE inst.op = "call" /\ inst.callee = hit.site

Plain(inst) == inst.op \in {"load", "store", "atomic store"}

(* The last element of a set of positions and the first one; 0 for none.    *)
LastOf(S) == IF S = {} THEN 0 ELSE CHOOSE i \in S : \A j \in S : j <= i
FirstOf(S) == IF S = {} THEN 0 ELSE CHOOSE i \in S : \A j \in S : i <= j

AnchorIdx(f, hit) == FirstOf({i \in DOMAIN code[f] : IsAnchorInst(code[f][i], hit)})
BeforeIdx(f, at) == LastOf({i \in 1..(at - 1) : Plain(code[f][i])})
AfterIdx(f, at) == FirstOf({i \in DOMAIN code[f] : i > at /\ Plain(code[f][i])})

BracketAt(f, hit, at) ==
  [label |-> hit.label, ordering |-> hit.ordering, site |-> hit.site, at |-> at,
   before |-> BeforeIdx(f, at), alloc |-> code[f][at].obj, after |-> AfterIdx(f, at)]

Located(f, hit) == AnchorIdx(f, hit) # 0
Formed(f, hit) == BracketAt(f, hit, AnchorIdx(f, hit))

(* A bracket is recorded when its anchor is found again and has a shared    *)
(* access on either side.                                                   *)
HasSide(br) == br.before # 0 \/ br.after # 0
Bracketed(f, hit) == Located(f, hit) /\ HasSide(Formed(f, hit))

SameText(f, i, j) ==
  \/ i = j
  \/ /\ i # 0 /\ j # 0
     /\ code[f][i].op # "load" /\ code[f][i].op = code[f][j].op
     /\ code[f][i].obj = code[f][j].obj
SameEvent(f, b, c) == SameText(f, b.before, c.before) /\ SameText(f, b.after, c.after)

Stronger_Weaker(b, c) == Rank[b.ordering] < Rank[c.ordering]    \* mutant
Stronger(b, c) == Rank[b.ordering] > Rank[c.ordering]

(* Has a release or acquire asm anchor, by the order of the enumerators.    *)
Synchronises(f) ==
  \E i \in DOMAIN hits[f] :
    hits[f][i].site = "asm" /\ Rank[hits[f][i].ordering] >= Rank["Release"]

(* The first store (not an atomic one) to a global that follows a store to  *)
(* another object, global or not, and the first such earlier store.         *)
Stores(f) == {i \in DOMAIN code[f] : code[f][i].op = "store"}
Payloads_Any(f, j) == {i \in Stores(f) : i < j}                 \* mutant
Payloads(f, j) == {i \in Stores(f) : i < j /\ code[f][i].obj # code[f][j].obj}
FlagIdx(f) == FirstOf({j \in Stores(f) : code[f][j].obj \in Globals /\ Payloads(f, j) # {}})
PlainBracket(f) ==
  [label |-> PlainLabel, ordering |-> "Relaxed", site |-> "store plain",
   at |-> FlagIdx(f), before |-> FirstOf(Payloads(f, FlagIdx(f))),
   alloc |-> code[f][FlagIdx(f)].obj, after |-> 0]

----------------------------------------------------------------------------
Init ==
  /\ code \in Codes
  /\ strict \in BOOLEAN
  /\ phase = "anchors"
  /\ fn = 1
  /\ pc = 1
  /\ hits = [f \in Fns |-> <<>>]
  /\ candidates = <<>>
  /\ brackets = [f \in Fns |-> <<>>]

(* AnchorPass, one addHit that records something.                           *)
AddHit ==
  /\ phase = "anchors"
  /\ fn \in Fns
  /\ pc \in DOMAIN code[fn]
  /\ \E h \in Offered(code[fn][pc]) :
       Fresh(h) /\ hits' = [hits EXCEPT ![fn] = Append(@, h)]
  /\ UNCHANGED <<code, strict, phase, fn, pc, candidates, brackets>>

(* Nothing (more) to record at this instruction.                            *)
NextInst ==
  /\ phase = "anchors"
  /\ fn \in Fns
  /\ pc \in DOMAIN code[fn]
  /\ \A h \in Offered(code[fn][pc]) : ~Fresh(h)
  /\ pc' = pc + 1
  /\ UNCHANGED <<code, strict, phase, fn, hits, candidates, brackets>>

NextFn ==
  /\ phase = "anchors"
  /\ fn \in Fns
  /\ pc \notin DOMAIN code[fn]
  /\ fn' = fn + 1
  /\ pc' = 1
  /\ UNCHANGED <<code, strict, phase, hits, candidates, brackets>>

(* The early return of CausalDetect: no function has an anchor.             *)
NoAnchors ==
  /\ phase = "anchors"
  /\ fn \notin Fns
  /\ \A f \in Fns : hits[f] = <<>>
  /\ phase' = "done"
  /\ UNCHANGED <<code, strict, fn, pc, hits, candidates, brackets>>

StartBrackets ==
  /\ phase = "anchors"
  /\ fn \notin Fns
  /\ \E f \in Fns : hits[f] # <<>>
  /\ phase' = "bracket"
  /\ fn' = 1
  /\ code' = [f \in Fns |-> [i \in DOMAIN code[f] |-> Rewritten(code[f][i])]]
  /\ UNCHANGED <<strict, pc, hits, candidates, brackets>>

(* One anchor hit of the current function.                                  *)
FormBracket ==
  /\ phase = "bracket"
  /\ fn \in Fns
  /\ pc \in DOMAIN hits[fn]
  /\ candidates' = IF Bracketed(fn, hits[fn][pc])
                   THEN Append(candidates, Formed(fn, hits[fn][pc])) ELSE candidates
  /\ pc' = pc + 1
  /\ UNCHANGED <<code, strict, phase, fn, hits, brackets>>

StartDedup ==
  /\ phase = "bracket"
  /\ fn \in Fns
  /\ pc \notin DOMAIN hits[fn]
  /\ phase' = "dedup"
  /\ pc' = 1
  /\ UNCHANGED <<code, strict, fn, hits, candidates, brackets>>

(* A candidate for an event already kept replaces the kept bracket if it is *)
(* stronger.                                                                *)
Merge ==
  /\ phase = "dedup"
  /\ pc \in DOMAIN candidates
  /\ \E k \in DOMAIN brackets[fn] :
       /\ SameEvent(fn, brackets[fn][k], candidates[pc])
       /\ brackets' = IF Stronger(candidates[pc], brackets[fn][k])
                      THEN [brackets EXCEPT ![fn][k] = candidates[pc]]
                      ELSE brackets
  /\ pc' = pc + 1
  /\ UNCHANGED <<code, strict, phase, fn, hits, candidates>>

Keep ==
  /\ phase = "dedup"
  /\ pc \in DOMAIN candidates
  /\ \A k \in DOMAIN brackets[fn] : ~SameEvent(fn, brackets[fn][k], candidates[pc])
  /\ brackets' = [brackets EXCEPT ![fn] = Append(@, candidates[pc])]
  /\ pc' = pc + 1
  /\ UNCHANGED <<code, strict, phase, fn, hits, candidates>>

FnDone ==
  /\ phase = "dedup"
  /\ pc \notin DOMAIN candidates
  /\ phase' = "bracket"
  /\ fn' = fn + 1
  /\ pc' = 1
  /\ candidates' = <<>>
  /\ UNCHANGED <<code, strict, hits, brackets>>

StartPublish ==
  /\ phase = "bracket"
  /\ fn \notin Fns
  /\ IF strict THEN phase' = "publish" /\ fn' = 1 ELSE phase' = "done" /\ UNCHANGED fn
  /\ UNCHANGED <<code, strict, pc, hits, candidates, brackets>>

(* Strict publish, one function.                                            *)
Publish ==
  /\ phase = "publish"
  /\ fn \in Fns
  /\ brackets' = IF ~Synchronises(fn) /\ FlagIdx(fn) # 0
                 THEN [brackets EXCEPT ![fn] = Append(@, PlainBracket(fn))]
                 ELSE brackets
  /\ fn' = fn + 1
  /\ UNCHANGED <<code, strict, phase, pc, hits, candidates>>

Finish ==
  /\ phase = "publish"
  /\ fn \notin Fns
  /\ phase' = "done"
  /\ UNCHANGED <<code, strict, fn, pc, hits, candidates, brackets>>

Next ==
  \/ AddHit \/ NextInst \/ NextFn \/ NoAnchors \/ StartBrackets
  \/ FormBracket \/ StartDedup \/ Merge \/ Keep \/ FnDone
  \/ StartPublish \/ Publish \/ Finish

(* Both passes are a single thread that runs to its end.                    *)
Spec == Init /\ [][Next]_vars /\ WF_vars(Next)

----------------------------------------------------------------------------
(* Properties of the brackets.                                              *)

(* The functions whose brackets are deduplicated.                           *)
Handled == {f \in Fns : phase \in {"publish", "done"}
                          \/ (phase \in {"bracket", "dedup"} /\ f < fn)}

FromHit(f, b) == \E i \in DOMAIN hits[f] : Bracketed(f, hits[f][i]) /\ b = Formed(f, hits[f][i])
RealBrackets(f) == {k \in DOMAIN brackets[f] : brackets[f][k].label # PlainLabel}

(* The shape of the state: every candidate and every bracket but the plain  *)
(* one was formed from a hit of its function.                               *)
Labels == Mnemonics \cup {CallLabel[c] : c \in Callees}
HitRecords == [label : Labels, ordering : Orderings, site : Callees \cup {"asm"}]
BracketRecords ==
  [label : Labels \cup {PlainLabel}, ordering : Orderings,
   site : Callees \cup {"asm", "store plain"}, at : Nat, before : Nat,
   alloc : Objs \cup {None}, after : Nat]
TypeOK ==
  /\ code \in [Fns -> Seq(Instructions)] /\ strict \in BOOLEAN
  /\ phase \in {"anchors", "bracket", "dedup", "publish", "done"}
  /\ fn \in 1..(NumFns + 1) /\ pc \in Nat \ {0}
  /\ phase = "dedup" => fn \in Fns
  /\ phase = "anchors" /\ fn \notin Fns => pc = 1
  /\ hits \in [Fns -> Seq(HitRecords)]
  /\ candidates \in Seq(BracketRecords)
  /\ brackets \in [Fns -> Seq(BracketRecords)]
  /\ candidates # <<>> => phase \in {"bracket", "dedup"} /\ fn \in Fns
  /\ \A i \in DOMAIN candidates : FromHit(fn, candidates[i])
  /\ \A f \in Fns : \A k \in RealBrackets(f) : FromHit(f, brackets[f][k])

(* A label names one bracket of a function: what partner matching needs to  *)
(* deduplicate its pairs by label.                                          *)
LabelsDistinct ==
  \A f \in Fns : \A j, k \in DOMAIN brackets[f] :
    brackets[f][j].label = brackets[f][k].label => j = k

(* Deduplication loses no event: once a function is handled, whatever its   *)
(* hits bracket has a bracket with the same neighbours that is at least as  *)
(* strong.                                                                  *)
NoEventLost ==
  \A f \in Handled : \A i \in DOMAIN hits[f] :
    Bracketed(f, hits[f][i]) =>
      \E k \in DOMAIN brackets[f] :
        /\ SameEvent(f, brackets[f][k], Formed(f, hits[f][i]))
        /\ Rank[brackets[f][k].ordering] >= Rank[hits[f][i].ordering]

(* No two brackets of a function describe the same event.                   *)
EventsDistinct ==
  \A f \in Fns : \A j, k \in RealBrackets(f) :
    SameEvent(f, brackets[f][j], brackets[f][k]) => j = k

(* The instruction a hit was found in, by the scan's own reading.           *)
StemsFrom(inst, h) ==
  IF h.site = "asm" THEN inst.op = "asm" /\ h.label \in inst.mnemonics
  ELSE inst.op = "call" /\ inst.callee = h.site

(* A hit that is there to be found again: a call the rewriting leaves, or a *)
(* mnemonic that some block spells as the table does.  A hit in "DMB ISH"   *)
(* or in "dmb<TAB>ish" alone is not.                                        *)
Lasting(f, h) ==
  IF h.site = "asm"
  THEN \E p \in DOMAIN code[f] :
         code[f][p].op = "asm" /\ h.label \in code[f][p].mnemonics \cap code[f][p].text
  ELSE h.site \notin Allocators

(* A function with a lasting anchor and a shared access anywhere is         *)
(* represented: whatever other text the label occurs in first, and the      *)
(* bracket need only have one side.  EveryHitPaired says what becomes of    *)
(* the other anchors.                                                       *)
NoAnchoredFunctionIgnored ==
  \A f \in Handled :
    /\ \E i \in DOMAIN hits[f] : Lasting(f, hits[f][i])
    /\ \E i \in DOMAIN code[f] : Plain(code[f][i])
    => brackets[f] # <<>>

(* A synthetic bracket is the message-passing shape: a store to any shared  *)
(* object, then a store to another one that is a global, in a function      *)
(* without a release asm anchor.  (The comment above the code asks for two  *)
(* globals: see BothTargetsGlobal.)                                         *)
PlainPublishIsMP ==
  \A f \in Fns : \A k \in DOMAIN brackets[f] :
    LET b == brackets[f][k]
    IN  b.label = PlainLabel =>
          /\ b.before \in Stores(f) /\ b.at \in Stores(f) /\ b.before < b.at
          /\ code[f][b.before].obj # code[f][b.at].obj
          /\ b.alloc \in Globals
          /\ \A i \in DOMAIN code[f] : code[f][i].op = "asm" =>
               \A a \in code[f][i].mnemonics :
                 AsmKind[a] # "Load" => AsmOrdering[a] \notin {"Release", "SC"}

(* The inductive invariant.  AnchorPass: the hits of a function have        *)
(* distinct labels, each is of an instruction that is still there after the *)
(* rewriting unless it is an allocator call, and no mnemonic of an          *)
(* instruction already visited is missing.  CausalDetectPass: the           *)
(* candidates stand for exactly the hits visited so far that have a side;   *)
(* the brackets of the function being deduplicated stand for exactly the    *)
(* candidates visited so far; the later functions have none; strict publish *)
(* adds one bracket, and only to functions it has visited.                  *)
HitLabelsDistinct ==
  \A f \in Fns : \A i, j \in DOMAIN hits[f] :
    hits[f][i].label = hits[f][j].label => i = j

HitsAreFound ==
  \A f \in Fns : \A i \in DOMAIN hits[f] :
    /\ hits[f][i].site \notin Allocators =>
         \E p \in DOMAIN code[f] : StemsFrom(code[f][p], hits[f][i])
    /\ hits[f][i].label \in Mnemonics => hits[f][i] = AsmHit(hits[f][i].label)
    /\ hits[f][i].label # PlainLabel

Visited(f, p) == phase = "anchors" => f < fn \/ (f = fn /\ p < pc)
Recorded(f, a) ==
  \/ AsmKind[a] = "Load" \/ AsmOrdering[a] \in {"Relaxed", "CompilerOnly"}
  \/ \E i \in DOMAIN hits[f] : hits[f][i].label = a
NoMnemonicMissed ==
  \A f \in Fns : \A p \in DOMAIN code[f] :
    code[f][p].op = "asm" /\ Visited(f, p) => \A a \in code[f][p].mnemonics : Recorded(f, a)

CandidatesAreHits ==
  phase \in {"bracket", "dedup"} /\ fn \in Fns =>
    LET seen == {i \in DOMAIN hits[fn] : phase = "bracket" => i < pc}
    IN  /\ \A i \in seen :
             Bracketed(fn, hits[fn][i]) =>
               \E c \in DOMAIN candidates : candidates[c] = Formed(fn, hits[fn][i])
        /\ \A c \in DOMAIN candidates :
             \E i \in seen : Bracketed(fn, hits[fn][i]) /\ candidates[c] = Formed(fn, hits[fn][i])
        /\ \A c, d \in DOMAIN candidates :
             candidates[c].label = candidates[d].label => c = d

BracketsAreCandidates ==
  phase = "dedup" =>
    /\ \A i \in DOMAIN candidates :
         i < pc => \E k \in DOMAIN brackets[fn] :
                     /\ SameEvent(fn, brackets[fn][k], candidates[i])
                     /\ Rank[brackets[fn][k].ordering] >= Rank[candidates[i].ordering]
    /\ \A k \in DOMAIN brackets[fn] :
         \E i \in DOMAIN candidates : i < pc /\ brackets[fn][k] = candidates[i]

NotYet ==
  /\ \A f \in Fns : f \notin Handled /\ ~(phase = "dedup" /\ f = fn) => brackets[f] = <<>>
  /\ \A f \in Fns : phase = "anchors" /\ f > fn => hits[f] = <<>>

PublishedOnce ==
  \A f \in Fns : \A k \in DOMAIN brackets[f] :
    brackets[f][k].label = PlainLabel =>
      /\ phase = "done" \/ (phase = "publish" /\ f < fn)
      /\ brackets[f][k] = PlainBracket(f)
      /\ FlagIdx(f) # 0 /\ ~Synchronises(f)

IInv ==
  /\ TypeOK
  /\ HitLabelsDistinct
  /\ HitsAreFound
  /\ NoMnemonicMissed
  /\ PublishedOnce
  /\ CandidatesAreHits
  /\ BracketsAreCandidates
  /\ NotYet
  /\ LabelsDistinct
  /\ EventsDistinct

----------------------------------------------------------------------------
(* Statements of the documentation and the comments.                        *)

(* "For every anchor instruction site, scan backwards for the last shared   *)
(* load/store and forwards for the first" (causal_detect.h, step 4).        *)
EverySiteBracketed ==
  phase = "done" =>
    \A f \in Fns : \A i \in DOMAIN code[f] :
      Offered(code[f][i]) # {} /\ HasSide([before |-> BeforeIdx(f, i), after |-> AfterIdx(f, i)])
        => \E k \in RealBrackets(f) :
             /\ SameText(f, brackets[f][k].before, BeforeIdx(f, i))
             /\ SameText(f, brackets[f][k].after, AfterIdx(f, i))

(* Allocators "are intentionally NOT blocklisted -- they still emit anchors *)
(* and BenignAnchorHeuristic decides per-pair whether to suppress"          *)
(* (anchors.h:263-265): they get as far as a bracket.                       *)
AllocatorAnchorsBracketed ==
  \A f \in Handled :
    hits[f] # <<>> /\ (\E i \in DOMAIN code[f] : Plain(code[f][i]))
      => brackets[f] # <<>>

(* "we pair each AnchorHit with the instruction that best represents it by  *)
(* matching site text" (causal_detect.cpp:280-281): no hit is left without. *)
EveryHitPaired ==
  phase \in {"bracket", "dedup", "publish", "done"} =>
    \A f \in Fns : \A i \in DOMAIN hits[f] : Located(f, hits[f][i])

(* "Both store targets must be GLOBAL (heap-only stores are scoped to one   *)
(* allocation and not visible to a partner via name)"                       *)
(* (causal_detect.cpp:419-420).                                             *)
BothTargetsGlobal ==
  \A f \in Fns : \A k \in DOMAIN brackets[f] :
    brackets[f][k].label = PlainLabel =>
      {code[f][brackets[f][k].before].obj, code[f][brackets[f][k].at].obj} \subseteq Globals

(* "require the asm string to contain the hit label (mnemonic) to avoid     *)
(* matching unrelated inline asm" (causal_detect.cpp:286-287).              *)
AnchorHasItsMnemonic ==
  \A f \in Fns : \A k \in DOMAIN brackets[f] :
    brackets[f][k].site = "asm" =>
      brackets[f][k].label \in code[f][brackets[f][k].at].mnemonics

(* Brackets "with identical before/after IR instructions [...] represent    *)
(* the same logical event" (causal_detect.cpp:369-370): they do not publish *)
(* through different channels.                                              *)
MergedShareChannel ==
  \A f \in Handled : \A i \in {j \in DOMAIN hits[f] : Bracketed(f, hits[f][j])} :
    LET br == Formed(f, hits[f][i])
    IN  br.alloc # None =>
          \E k \in DOMAIN brackets[f] :
            /\ SameEvent(f, brackets[f][k], br)
            /\ brackets[f][k].alloc \in {br.alloc, None}

(* Strict publish synthesises a bracket "for functions that exhibit the     *)
(* message-passing (MP) shape WITHOUT any release barrier"                  *)
(* (causal_detect.h): also when no function of the module has an anchor,    *)
(* and also when the function has only an acquire barrier.                  *)
PublishWithoutAnchors ==
  phase = "done" /\ strict /\ (\A f \in Fns : hits[f] = <<>>) =>
    \A f \in Fns : FlagIdx(f) # 0 =>
      \E k \in DOMAIN brackets[f] : brackets[f][k].label = PlainLabel
PublishDespiteAcquire ==
  phase = "done" /\ strict /\ (\E f \in Fns : hits[f] # <<>>) =>
    \A f \in Fns :
      /\ FlagIdx(f) # 0
      /\ \A i \in DOMAIN hits[f] : hits[f][i].ordering \notin {"Release", "SC"}
      => \E k \in DOMAIN brackets[f] : brackets[f][k].label = PlainLabel

============================================================================

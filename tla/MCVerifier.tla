------------------------------ MODULE MCVerifier ------------------------------
(****************************************************************************)
(* Anchor functions and partner functions of a payload x, a channel c and   *)
(* another object z.                                                        *)
(* Brackets are formed as CausalDetectPass forms them.                      *)
(****************************************************************************)
EXTENDS VerifierProps

(* Empty is an object without a description.                                 *)
MCObjs == {"x", "c", "z", Empty}

Inst(op, obj) == [op |-> op, obj |-> obj, mns |-> <<>>, fns |-> <<>>, long |-> FALSE]
Ld(o) == Inst("load", o)
St(o) == Inst("store", o)
Asm(mn, o) == [Inst("asm", o) EXCEPT !.mns = <<mn>>]
Block(first, second, o) == [Inst("asm", o) EXCEPT !.mns = <<first, second>>]
Long(inst) == [inst EXCEPT !.long = TRUE]
Fn(defined, prefix, ordering, family) ==
  [defined |-> defined, prefix |-> prefix, ordering |-> ordering, family |-> family]
Call(fn, o) == [Inst("call", o) EXCEPT !.fns = <<fn>>]

Printk == Fn(FALSE, NoPrefix, "SC", "log")
RcuLock == Fn(FALSE, "__rcu_read_lock", "SC", "other")
MutexLock == Fn(FALSE, NoPrefix, "SC", "other")
SpinLock == Fn(FALSE, "_raw_spin_lock", "SC", "other")
Complete_ == Fn(FALSE, "complete", "SC", "other")
Helper == Fn(TRUE, NoPrefix, "SC", "other")
Getter == Fn(TRUE, NoPrefix, "None", "other")

----------------------------------------------------------------------------
(* The hits of a function and the bracket of each.                          *)
Hits(code) ==
  {[site |-> "asm", label |-> mn, ordering |-> AsmOrdering(mn)] :
     mn \in (UNION {Texts(code[i]) : i \in DOMAIN code}) \cap AnchorMnemonics}
  \cup {[site |-> "call", label |-> "(ext)", ordering |-> CallOrdering(code[i].fns[1])] :
     i \in {j \in DOMAIN code : code[j].op = "call" /\ Rank[CallOrdering(code[j].fns[1])] > Rank["Relaxed"]}}
At(code, h) ==
  FirstOf({i \in DOMAIN code :
    \/ h.site = "asm" /\ Texts(code[i]) \cap ({h.label} \cup Extensions(h.label)) # {}
    \/ h.site = "call" /\ code[i].op = "call" /\ Rank[CallOrdering(code[i].fns[1])] > Rank["Relaxed"]})
Plain(code, S) == {i \in S \cap DOMAIN code : code[i].op \in {"load", "store"}}
Bracket(code, h) ==
  LET at == At(code, h)
  IN  [code |-> code, site |-> h.site, label |-> h.label, ordering |-> h.ordering, at |-> at,
       alloc |-> code[at].obj, before |-> LastOf(Plain(code, 1..(at - 1))),
       after |-> FirstOf(Plain(code, (at + 1)..Len(code)))]
PlainFlag(code) ==
  [code |-> code, site |-> "store plain", label |-> "store", ordering |-> "Relaxed", at |-> Len(code),
   alloc |-> code[Len(code)].obj, before |-> 1, after |-> 0]

Opt(S) == {<<>>} \cup {<<s>> : s \in S}
AnchorBodies(first, mid, anchors, last) ==
  {a \o b \o c \o d : a \in first, b \in Opt(mid), c \in Opt(anchors), d \in Opt(last)}
BracketsOf(bodies) ==
  (UNION {{Bracket(c, h) : h \in Hits(c)} : c \in bodies})
    \cup {PlainFlag(c) : c \in {d \in bodies : d # <<>> /\ d[1] = St("x") /\ d[Len(d)] = St("c")
              /\ \A h \in Hits(d) : h.site # "asm"}}

Between_ == {Asm("dmb ish", None), Asm("dmb ishld", None), Asm("dmb ishst", None), Asm("dsb ish", None),
             Asm("stlr", None), Asm("ldar", None), Asm("swpal", None), Call(Printk, None),
             Call(RcuLock, None), Call(Helper, None), Call(SpinLock, None)}
Anchors ==
  {Asm(mn, None) : mn \in {"dmb ish", "dmb ishld", "dmb ishst", "dsb ish"}}
  \cup {Asm(mn, "c") : mn \in {"stlr", "swpal", "casal", "casa", "casl"}}
  \cup {Asm("stlxr", Empty), Asm("dmb osh", None), Asm("stlr", None)}
  \cup {Call(f, "c") : f \in {MutexLock, Complete_}}
BlockBodies ==      \* several mnemonics in a block; a label found in another's text
  {<<St("x"), Block(mn, "dmb ish", None), acc>> : mn \in {"dmb ishst", "dmb ishld"}, acc \in {St("c"), Ld("c")}}
  \cup {<<St("x"), Block("ldr", "stlr", "c")>>, <<St("x"), Asm("dmb ishst", None), Ld("c"), Asm("dmb ish", None)>>}
ManyBrackets ==
  BracketsOf({<<St("z"), Asm("stlr", "c")>>} \cup BlockBodies \cup AnchorBodies({<<>>, <<St("x")>>, <<Ld("x")>>, <<St("x"), Asm("dmb ish", None), St("x")>>}, Between_, Anchors, {St("c"), Ld("c"), St("x")}))
FewBrackets ==
  BracketsOf({<<St("x"), Asm("stlr", "c")>>, <<St("x"), Asm("dmb ishst", None), St("c")>>,
              <<St("x"), Asm("casa", "c")>>, <<St("x"), Asm("dmb ish", None), Ld("c")>>,
              <<St("x"), St("c")>>, <<St("x"), Call(MutexLock, "c"), St("c")>>})

Accesses(code) ==
  LET found == {i \in DOMAIN code : code[i].obj \in MCObjs /\ \A j \in 1..(i - 1) : code[j].obj # code[i].obj}
  IN  SetToSortSeq(found, <)
PartnerOf(bodies) == {[partner |-> b, accesses |-> Accesses(b)] : b \in bodies}
ManyPartners ==
  PartnerOf({a \o b \o c \o d :
     a \in Opt({Asm("ldar", None), Asm("dmb ishld", None), Call(RcuLock, None)}),
     b \in Opt({Ld("c"), Asm("ldar", "c"), Long(Asm("ldar", "c")), St("c"), Ld("x")}),
     c \in Opt(Between_),
     d \in Opt({Ld("x"), Ld("c"), St("x"), Asm("ldar", "c"), Asm("ldar", "x"), Long(Ld("x")), Call(Getter, "x"), Asm("casal", "c")})})
FewPartners ==
  PartnerOf({<<Asm("ldar", "c"), Ld("x")>>, <<Ld("c"), Asm("dmb ishld", None), Ld("x")>>, <<Ld("c"), Ld("x")>>,
             <<Ld("x"), Asm("dmb ish", None), Ld("c")>>, <<St("c"), Ld("x")>>})
LongPartners ==     \* an access between or in front; two objects of one description
  PartnerOf({<<Ld("x"), Asm("dmb ishld", None), Ld("c"), Ld("z")>>, <<Ld("z"), Asm("dmb ish", None), Ld("c"), Ld("x")>>})
  \cup {[partner |-> <<Ld("c"), Ld("x"), Ld("c")>>, accesses |-> <<1, 2, 3>>]}

Pairs(brs, ps) ==
  {[code |-> b.code, site |-> b.site, label |-> b.label, ordering |-> b.ordering, at |-> b.at, alloc |-> b.alloc,
    before |-> b.before, after |-> b.after, partner |-> p.partner, accesses |-> p.accesses,
    depends |-> {}, partnerDepends |-> {}] : b \in brs, p \in ps}

(* Code ordered by dependencies: a partner that follows the pointer it      *)
(* loads, directly or over a third object; a store behind what it depends   *)
(* on, with and without a barrier that orders, too.                         *)
Loads(code) == {i \in DOMAIN code : code[i].op = "load" \/ code[i].obj = "c"}
Dependencies(code) == SUBSET {<<i, j>> \in Loads(code) \X (DOMAIN code) : i < j /\ code[j].op \in {"load", "store"}}
DependentPartners ==
  PartnerOf({<<Ld("c"), Ld("x")>>, <<Ld("c"), Asm("dmb ishst", None), Ld("x")>>, <<Asm("ldapr", "c"), Ld("x")>>,
             <<Ld("c"), Ld("z"), Ld("x")>>, <<Ld("c"), Asm("dmb ishld", None), Ld("x")>>, <<Ld("x"), Ld("c")>>})
DependentBrackets ==
  BracketsOf({<<Ld("x"), Asm("dmb ishst", None), St("c")>>, <<St("x"), Asm("dmb ishst", None), Ld("z"), St("c")>>,
              <<Ld("x"), Asm("dmb ishld", None), St("c")>>, <<St("x"), Asm("stlr", "c")>>})
Dependent ==
  UNION {{[p EXCEPT !.depends = d, !.partnerDepends = e] : d \in Dependencies(p.code), e \in Dependencies(p.partner)} :
           p \in Pairs(DependentBrackets, DependentPartners) \cup Pairs({PlainFlag(<<St("x"), St("c")>>)}, DependentPartners)}

MCInputs == Pairs(ManyBrackets, FewPartners) \cup Pairs(FewBrackets, ManyPartners \cup LongPartners) \cup Dependent

============================================================================

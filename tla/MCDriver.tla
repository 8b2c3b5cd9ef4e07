----------------------------- MODULE MCDriver -------------------------------
(****************************************************************************)
(* Two functions of every shape the scan tells apart, the first of which    *)
(* may call the second, with the pair in both directions, under --summary,  *)
(* with every heuristic enabled and with "all"; fewer shapes with every     *)
(* kind of anchor label, access and object, under single names, "all", and  *)
(* "all" with the names it leaves out or that no heuristic has; and a few   *)
(* units for each set of mode flags, those of which a pass finds nothing    *)
(* included, and those that use their globals in every way.                 *)
(****************************************************************************)
EXTENDS DriverProps

MCAllNames ==
  {"BenignAnchor", "ReadRead", "CallGraph", "LockAlias", "Lifecycle", "RcuSerial",
   "CompletionOrder", "IrqSerial", "SubsystemLock", "PerCpu", "SafeAllocation"}

MCRequests ==
  {{}, {"LockAlias"}, {"BenignAnchor", "CallGraph"}, {"all"},
   {"all", "SeqlockRetry", "RegistrationPublish", "PmPhase", "no such name"}}

CallOf(api, fns, globs, objs) == [api |-> api, fns |-> fns, globs |-> globs, objs |-> objs]

(* Object 1 is a seqlock, global 1 a driver structure that points to global *)
(* 2, whose operations hold function 2.                                     *)
BodiesOf(f) ==
  {{}} \cup
  {{c} : c \in
     [api : {"_raw_spin_lock", "complete", "wait_for_completion"}, fns : {{}}, globs : {{}},
      objs : {{1}, {2}}]
     \cup [api : {"_raw_spin_unlock", "lock_asm", "write_seqlock", "get_cpu_ptr"},
           fns : {{}}, globs : {{}}, objs : {{1}}]
     \cup [api : {"read_seqbegin", "rcu_read_lock", "synchronize_rcu", "disable_irq", "rtnl_lock",
                  "device_lock", "regmap_read", "dma_sync_single_for_cpu", "timer_init_key"},
           fns : {{}}, globs : {{}}, objs : {{}}]
     \cup [api : {"request_irq", "irq_set_handler"}, fns : {{3 - f}}, globs : {{}}, objs : {{}}]
     \cup [api : {"platform_driver_register", "device_register"}, fns : {{}}, globs : {{1}},
           objs : {{}}]}
  \cup {{CallOf("rcu_read_lock", {}, {}, {}), CallOf("synchronize_rcu", {}, {}, {})}}

Plain == <<"foo", "bar">>
SpecialNames ==
  {<<"foo", "resume">>, <<"foo", "runtime", "suspend">>, <<"foo", "kref", "release">>,
   <<"foo", "cleanup">>, <<"foo", "irq", "handler">>, <<"timekeeping", "resume">>,
   <<"ktime", "get">>, <<"", "", "initstub", "", "foo">>}

Shape(body, name, loads, entry, section) ==
  [body |-> body, name |-> name, loads |-> loads, entry |-> entry, section |-> section,
   mentions |-> {}]
ShapesOf(f) ==
  {Shape(b, Plain, {}, "none", "none") : b \in BodiesOf(f)}
  \cup {Shape({}, n, {}, "none", "none") : n \in SpecialNames}
  \cup {Shape({}, Plain, {1}, "none", "none"), Shape({}, Plain, {}, "initcall", "none"),
        Shape({}, Plain, {}, "none", "exit"),
        [Shape({}, Plain, {}, "none", "none") EXCEPT !.mentions = {3 - f}]}
FewShapes(f) ==
  {s \in ShapesOf(f) :
     s.name = Plain /\ s.mentions = {} /\ s.body \in {{}, {CallOf("_raw_spin_lock", {}, {}, {1})}}}

Attributes ==
  [label : {"sync", "alloc"}, writes : BOOLEAN, descs : {{"other"}, {"other", "iomem"}}]
Ordinary == [label |-> "sync", writes |-> TRUE, descs |-> {"other"}]

Use(through, by) == [through |-> through, by |-> by]
Uses ==
  {Use(t, b) : t \in {<<>>, <<"expr">>, <<"aggregate">>, <<"expr", "expr">>},
               b \in {"instruction", "initialiser"}}

(* called: does function 1 call function 2?                                 *)
Unit(s1, s2, called, a) ==
  LET s == <<s1, s2>>
      pair(x, y) == [anchor |-> x, partner |-> y, label |-> a.label, writes |-> a.writes,
                     descs |-> a.descs]
  IN  [name |-> [f \in Fns |-> s[f].name], section |-> [f \in Fns |-> s[f].section],
       entry |-> [f \in Fns |-> s[f].entry], body |-> [f \in Fns |-> s[f].body],
       mentions |-> [f \in Fns |-> s[f].mentions], loads |-> [f \in Fns |-> s[f].loads], seqlocks |-> {1},
       globals |-> <<{[async |-> FALSE, fns |-> {}, globs |-> {2}]},
                     {[async |-> FALSE, globs |-> {},
                       fns |-> IF \E c \in s1.body \cup s2.body : 1 \in c.globs THEN {2} ELSE {}]}>>,
       internal |-> IF called THEN {2} ELSE {},
       calls |-> <<IF called THEN {2} ELSE {}, {}>>, extraInit |-> {}, extraExit |-> {},
       pairs |-> <<pair(1, 2), pair(2, 1)>>,
       found |-> {"AnchorPass", "CausalDetectPass", "FunctionPairsPass"},
       uses |-> [g \in Globals |-> {Use(<<>>, "instruction")}], heap |-> {"malloc", "kernel"}]

Found == {{}, {"AnchorPass"}, {"AnchorPass", "CausalDetectPass"}}
Nothing(u, found) == [u EXCEPT !.pairs = <<>>, !.found = found]

Used(u, s) == [u EXCEPT !.uses = [g \in Globals |-> s[g]]]

Case(u, r, m) == [unit |-> u, request |-> r, flags |-> m]
Plainest == Unit(CHOOSE s \in FewShapes(1) : s.body = {}, CHOOSE s \in FewShapes(2) : s.body = {},
                 FALSE, Ordinary)

MCCases ==
  {Case(Unit(s1, s2, c, Ordinary), r, {"summary"}) :
     s1 \in ShapesOf(1), s2 \in ShapesOf(2), c \in BOOLEAN, r \in {{}, {"all"}}}
  \cup {Case(Unit(s1, s2, c, a), r, {"summary"}) :
     s1 \in FewShapes(1), s2 \in FewShapes(2), c \in BOOLEAN, a \in Attributes, r \in MCRequests}
  \cup {Case(u, {}, m) :
     u \in {Plainest} \cup {Nothing(Plainest, f) : f \in Found}, m \in SUBSET {ModeOrder[i] : i \in DOMAIN ModeOrder}}
  \cup {Case(Used(Plainest, <<{a}, s>>), {}, {m}) :
     a \in Uses, s \in {{}} \cup {{b} : b \in Uses}, m \in {"pairs", "summary"}}

============================================================================

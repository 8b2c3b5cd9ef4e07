----------------------------- MODULE CrossTuSeeds -----------------------------
(****************************************************************************)
(* The pre-pass over a whole corpus (_collect_global_init_seeds of          *)
(* run_kernel_noLTO.py) that finds functions only init or only exit code    *)
(* calls, across translation units, and what becomes of its two seed files  *)
(* in each run of mbcheck.                                                  *)
(*                                                                          *)
(* A corpus is a sequence of units.  Functions are known by their bare      *)
(* names; a unit is a record of                                             *)
(*   defs       : the names it defines                                      *)
(*   internal   : those of internal linkage                                 *)
(*   calls      : per name, the names its body calls, {} if not defined     *)
(*   taken      : the names it mentions other than in a call, and those one *)
(*                character short of a called name (the pattern backtracks) *)
(*   tokens     : per initcall marker, the names the text may stand for,    *)
(*                the longest first                                         *)
(*   exitcalls  : the names of its exitcall variables                       *)
(*   initSection, exitSection : the names it defines in .init/.exit.text    *)
(*   readable   : can the file be opened?                                   *)
(****************************************************************************)
EXTENDS Naturals, Sequences, FiniteSets

(* A file that cannot be read contributes nothing.                          *)
Scanned(c) == {i \in DOMAIN c : c[i].readable}

FnDefs(c) == UNION {c[i].defs : i \in Scanned(c)}
AddrTaken_None(c) == {}                                         \* mutant
AddrTaken(c) == UNION {c[i].taken : i \in Scanned(c)}
CallersOf(c, g) ==
  UNION {{f \in c[i].defs : g \in c[i].calls[f]} : i \in Scanned(c)}

(* _resolve_initcall_candidate: the first name of a marker that is in S.    *)
Resolved(token, S) ==
  {token[k] : k \in {j \in DOMAIN token : token[j] \in S /\ \A l \in 1..(j - 1) : token[l] \notin S}}

InitCalls(c) ==
  UNION {(UNION {Resolved(t, FnDefs(c)) : t \in c[i].tokens}) \cup c[i].initSection : i \in Scanned(c)}
ExitCalls(c) ==
  (UNION {c[i].exitcalls \cup c[i].exitSection : i \in Scanned(c)}) \cap FnDefs(c)

(* The functions a pass of _expand adds to out: all of their callers,       *)
(* anywhere, are in it.                                                     *)
Joinable_SomeCaller(c, out) ==                                  \* mutant
  {g \in FnDefs(c) \ (out \cup AddrTaken(c)) : CallersOf(c, g) \cap out # {}}
Joinable(c, out) ==
  {g \in FnDefs(c) \ (out \cup AddrTaken(c)) :
     CallersOf(c, g) # {} /\ CallersOf(c, g) \subseteq out}

(* _expand: passes until none adds anything; no more are needed than there  *)
(* are functions.                                                           *)
Expand(c, seed) ==
  LET passes == Cardinality(FnDefs(c))
      out[n \in 0..passes] ==
        IF n = 0 THEN seed ELSE out[n - 1] \cup Joinable(c, out[n - 1])
  IN  out[passes]

(* The two files: what is in both sets is left out of both.                 *)
Overlap(c) == Expand(c, InitCalls(c)) \cap Expand(c, ExitCalls(c))
InitSeedFile(c) == Expand(c, InitCalls(c)) \ Overlap(c)
ExitSeedFile(c) == Expand(c, ExitCalls(c)) \ Overlap(c)

----------------------------------------------------------------------------
(* mbcheck on a unit: of a file, the names that the unit has, be it as      *)
(* declarations only, are added to its own seeds.  Those do not include the *)
(* exitcall variables, which mbcheck does not look at.                      *)
Known(u) == u.defs \cup UNION {u.calls[f] : f \in u.defs}
OwnInit(u) == u.initSection \cup UNION {Resolved(t, Known(u)) : t \in u.tokens}
OwnExit(u) == u.exitSection

(* The unit as module Lifecycle has it.                                     *)
UnitProgram(c, k) ==
  [corpus |-> c,
   calls |-> [f \in DOMAIN c[k].calls |-> c[k].calls[f] \cap c[k].defs],
   internal |-> c[k].internal,
   initSeed |-> OwnInit(c[k]) \cup (InitSeedFile(c) \cap Known(c[k])),
   exitSeed |-> OwnExit(c[k]) \cup (ExitSeedFile(c) \cap Known(c[k])),
   lifecycleName |-> c[k].initSection \cup c[k].exitSection,
   recurring |-> {}, addrTaken |-> c[k].taken \cap c[k].defs, async |-> {}]

============================================================================

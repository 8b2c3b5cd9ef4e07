----------------------------- MODULE MCLifecycle -----------------------------
(****************************************************************************)
(* Function 3 is the init entry, function 4 the exit entry; 1 and 2 are     *)
(* helpers called in every way, internal or not, callbacks or not.  The     *)
(* helpers come first in name order, so that a chain of calls needs several *)
(* passes.  The programs of Alone are single modules; those of Seeded are   *)
(* the units of corpora of two, where each unit has an entry and a helper,  *)
(* and the pre-pass has written the seed files.                             *)
(****************************************************************************)
EXTENDS LifecycleProps

Helpers == {1, 2}

Alone ==
  [corpus : {<<>>},
   calls : {c \in [Fns -> SUBSET Helpers] : 1 \notin c[1]},
   internal : {Helpers, {1}}, initSeed : {{3}, {2, 3}}, exitSeed : {{4}}, lifecycleName : {{3, 4}},
   recurring : {{}, {2}}, addrTaken : {{}, {1}, {1, 3}}, async : {{}, {1}, {2}}]

(* A unit with entry e and helper h, of what is called and taken.  The init *)
(* entry is known by its section or by a marker whose text names 1 or 3.    *)
Unit(e, h, calls, static, taken, marked, readable) ==
  [defs |-> {e, h},
   internal |-> static \cap {h},
   calls |-> [f \in Fns |-> IF f \in {e, h} THEN calls[f] ELSE {}],
   taken |-> taken,
   tokens |-> IF e = 3 /\ marked THEN {<<3, 1>>} ELSE {},
   initSection |-> IF e = 3 /\ ~marked THEN {3} ELSE {},
   exitcalls |-> IF e = 4 /\ marked THEN {4} ELSE {},
   exitSection |-> IF e = 4 /\ ~marked THEN {4} ELSE {},
   readable |-> readable]

(* Function 4 is registered as an initcall as well as an exitcall.          *)
Both(calls, static) ==
  [Unit(4, 2, calls, static, {}, TRUE, TRUE) EXCEPT !.tokens = {<<4>>}]

Corpora ==
  {<<Unit(3, 1, calls, static, taken, marked, TRUE),
     Unit(4, 2, calls, static, {}, marked, readable)>> :
     calls \in [Fns -> SUBSET Helpers], static \in {{}, {2}}, taken \in {{}, {2}},
     marked \in BOOLEAN, readable \in BOOLEAN}
  \cup {<<Unit(3, 1, calls, static, {}, TRUE, TRUE), Both(calls, static)>> :
          calls \in [Fns -> SUBSET Helpers], static \in {{}, {2}}}

(* A static helper is called in its own unit only.                          *)
Seeded == {UnitProgram(c, k) : c \in {d \in Corpora : WellScoped(d)}, k \in {1, 2}}

MCPrograms == Alone \cup Seeded

============================================================================

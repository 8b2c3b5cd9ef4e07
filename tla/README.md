# A verification project for mbcheck

mbcheck looks for missing memory barriers in C code, mostly the Linux kernel.
One run takes the LLVM IR of one translation unit, finds the *anchors* in it
(barriers, atomics, ordered calls), the shared accesses around each anchor, the
functions that touch the same objects, drops pairs that cannot run in parallel,
writes one herd7 litmus test per surviving pair and checks the tests against
the IR. A Python driver does this for a whole kernel build with a pool of
workers and herd7.

This directory holds TLA+ models of the algorithms on that path, the TLC runs
that check them on small instances and TLAPS proofs of the results that hold
for modules (translation units) of every size. Paths below are relative to
`src/src/` unless they start with `src/`. `PROJECT.json` maps every definition
to its lines.

## 1. The system

```
  .ll ─> AnchorPass ─> CausalDetect ─> FunctionPairs ─> FnHeuristicsFilter ─> Herd7Transpiler ─> LitmusVerifier
          hits,         brackets         pairs            filteredPairs         litmusFiles        reports
          effects       (SVF)            (footprints)     (tags, lock sets)
      └──────────────────────── one process, one thread: driver/mbcheck.cpp ────────────────────────────┘

  script/run_kernel_noLTO.py:  thread pool ─> [mbcheck --summary ─> mbcheck --litmus ─> herd7 per file] per module
                               a first sweep over all .ll files writes seed files that every mbcheck run reads
```

The passes run one after the other in one thread. Each reads its predecessor's
result object and the LLVM module, and none of them calls back. What is hard in
them is not scheduling but fixpoints computed in place over call graphs with
cycles, work lists in an order that has nothing to do with the calls, and facts
that one pass leaves behind as text (a label, a printed instruction, a file
name) for a later pass to find again. The sweep is concurrent: workers share a
budget of herd7 runs and a directory tree, and every external process may fail
or be killed by its timeout.

### Inventory

| Component (code) | State | Operations | Interacts by | What is hard | Correct when | Module |
|---|---|---|---|---|---|---|
| Anchor scan (`lib/anchor_pass.cpp`, `include/lib/anchors.h`) | hits per function, labels seen | scan inline asm, volatile stores and calls | `AnchorPassResult` | a label is kept once per function and is all that later passes have | every function with an anchor is known | `Brackets` |
| Effect summary (`computeFnEffectSummary`) | effect per function | seed, propagate to fixpoint | call-effect anchors of the scan | in-place passes on recursive call graphs; what happens to callee-local memory must not leak to callers | largest reachable ordering, nothing invented | `AnchorEffect` |
| Pointer origin (`tracePointerOrigin`) | stack, seen set, two flags, budget 64 | walk back over definitions | gates the effect summary | cyclic definitions, casts entered twice, early cut-off | excludes only internal pointers | `PointerOrigin` |
| Bracket formation (`lib/causal_detect.cpp`, `lib/allocatorPre.cpp`) | candidates, brackets per function | rewrite allocators, locate, scan sides, merge, strict publish | hits by label, IR by position | the module is rewritten in between; merge in hit order | no event lost, one bracket per event and per label | `Brackets` |
| Footprints (`lib/function_pairs.cpp` 179-252) | footprint, caller and callee maps, work list | scan, absorb | `SharedObj` sets of SVF | an update after a function left the list; recursion | transitive footprint, exactly | `Footprint`, `TransitiveFootprint` |
| Partner matching (`lib/function_pairs.cpp` 254-560) | pairs | required and relevant objects, accesses | brackets, footprints | footprints are transitive, accesses are not; deduplication by label | every possible partner, no other | `FunctionPairs` |
| Lifecycle classes (`lib/fn_heuristics.cpp`) | four tag sets, IRQ closure | propagate, strip, close, exempt | name and seed facts, `LifecycleHeuristic` | two classes in one in-place loop; strips come after the conclusions | tag only what nothing else enters | `Lifecycle` |
| Lock inheritance (`lib/fn_heuristics.cpp`) | lock set per function | intersect over callers | `LockAliasHeuristic` | in place, recursion | inherited implies held | `LockPropagation` |
| Heuristic chain (`lib/fn_heuristics.cpp`, `include/lib/fn_heuristics.h`) | facts per function; hit counters, records, survivors | scan the module, fifteen verdicts, the loop with its ablation set | `filteredPairs` | counts depend on the enabled set; name and callee matches stand for facts | a pair is dropped under the first enabled hit, counters add up, verdicts do not depend on sides | `IrScan`, `Heuristics`, `FilterPass`, `FilterChain`, `PairFilter` |
| Litmus tests (`lib/herd7_transpiler.cpp`, `include/lib/ext_fn_summary.h`) | variables, two threads, clause; counters, file map | register, emit P0, hoist, emit P1, clause; name and store | file names, the text of the test | instructions found by printed text, four tables of orderings, names that collide once sanitised | the test forbids what the code forbids | `Barriers`, `Transpiler`, `Litmus` |
| Litmus checks (`lib/litmus_verifier.cpp`) | consumed files, verdicts | match, P1 to P8 | file names and a comment line | a second set of tables and searches; numbers at the end of names | each pair against its own test, no false alarm | `Verifier`, `Litmus` |
| Driver, phase timer, points-to report (`driver/mbcheck.cpp`, `lib/phase_timer.cpp`, `lib/pta.cpp`) | flags, pass stack, result cache, the module, SVF, clock and scopes | options, need, normalise, build, release, filter, print | one module and one SVF shared by all passes | the module is rewritten while results point into it; phases nest | passes agree on the module, SVF given back, time conserved | `Driver`, `SharedObjects` |
| Sweep (`script/run_kernel_noLTO.py`) | per-task stage, files on disk, budget | submit, summary, litmus, validate, collect | processes, directories, a semaphore | interleaving, timeouts, partial output, stale files | budget respected, own files, ends | `Sweep` |
| Cross-TU seeds (same script, seed files) | merged call graph, closures | pre-scan, merge by name, two closures, overlap | seed files read by every `mbcheck` | functions identified by bare name | what is tagged in one unit is enclosed in the corpus | `CrossTuSeeds`, `Lifecycle` |
| Tables of names, patch synthesis, corpus and report scripts, tests | - | - | - | - | - | not modelled (section 7) |

## 2. The modules

A component is a module of state and actions. The properties of the larger
ones, and their inductive invariant `IInv`, are in `<Module>Props`; those of the
smaller ones stand at the end of the module, after the specification.
`MC<Module>` gives TLC a set of inputs. The theorems are in eight modules, one
per pass and named after what they start from: `FootprintProofs`,
`FunctionPairsProofs`, `BracketsProofs`, `LockPropagationProofs`,
`AnchorPassProofs` (`AnchorEffect` and `PointerOrigin`), `LifecycleProofs` (with
`CrossTuSeeds`), `DriverProofs` (`FilterChain`, the passes around it and their
clock) and `LitmusProofs` (the tests from the pass that writes them to the sweep
that runs them: `Transpiler`, `Verifier`, `Litmus`, `Sweep`). In
every module the *input* (the program under analysis, the corpus, the options)
is a variable that `Init` chooses from a constant set and no step changes. TLC
enumerates a finite family; the proofs are about every input that satisfies the
named `ASSUME`.

What LLVM and SVF answer (who calls whom, what a pointer may point to, what is
shared, linkage) is part of the input. Functions are numbered in the order in
which the code iterates (module order or name order), because these loops
update in place and their intermediate states depend on it.

**Footprint** - steps 5 and 5b of `FunctionPairsPass::run`. `Scan(f)` is one
iteration of the loop over functions, `FillWorklist` the initial push in name
order, `Absorb` and `Discard` one iteration of the work list loop with and
without growth (pop the back, absorb the callees, push all callers whether
queued or not), `StartMatching` its end. `worklist` is the vector, `footprint`,
`callerMap`, `calleeMap` are the maps of those names. `TransitiveFootprint` is
the abstract specification: all footprints, exact, in one step. `Footprint`
implements it under the mapping "nothing is published before matching starts".

**FunctionPairs** - step 6, and `ReadReadPair`, which consumes it. It
*composes* with the footprint computation through the specification
`TransitiveFootprint` (an INSTANCE), not through its loop: `Footprints` is that
specification's `Publish`. `MatchBracket` is one iteration over the brackets
with all its partners; `Required`, `Relevant`, `Payload`, `HitsRelevant`, `Hit`
are the sets and the lambda of the same names or purpose; `Filter` applies
`allLoads`.

**Brackets** - `AnchorPass::run` (hits per label), the rewriting of allocator
calls, and `CausalDetectPass::run`. `AddHit` is one `addHit` that records
something; the order within one asm block is left open. `StartBrackets` rewrites
the code, as `normaliseKernelAllocators` does, before the anchors are looked up
by label. `FormBracket`, `Merge`, `Keep` are one hit and one candidate.
`Publish` is strict publish for one function, `NoAnchors` the early return that
precedes it. Printed text is abstracted to what comparisons of it can tell:
`SameText` (two stores to one object print the same, loads never), and two
views of an asm block that need not agree: `mnemonics`, what `AnchorPass`
recognises whatever the case and the blanks, and `text`, the labels that occur
in the block as it is written, which is what `CausalDetectPass` searches
(`dmb ish` occurs in `dmb ishst`, and does not in `DMB ISH`).

**AnchorEffect** - `computeFnEffectSummary`. `VisitCall` is one call
instruction, `NextFunction`, `NextPass`, `Return` the loops around it.
`Rank` has the enumerators' values, since `raiseTo` compares those. The origins
that gate anchors and calls are inputs here and the output of **PointerOrigin**,
the walk of `tracePointerOrigin`: `Look` and `Drop` are one iteration (`Drop`
that of a value seen before), `Answer` the return from within it, `Verdict` the
code after the loop; `AlreadySeen` is the pair of `insert` calls. `stk`, `seen`,
`sawArg`, `sawInternal`, `budget` are the locals of these purposes.

**Lifecycle** - H27 and the strips that follow (G5.2, G5.4, G5.5) in the order
of the code, and the verdict `MutuallyExclusive` of `LifecycleHeuristic`. Which
functions are seeds is input here and the output of `IrScan`.

**CrossTuSeeds** - the pre-pass of the sweep over all `.ll` files: the union of
calls, markers, sections and mentioned names by bare function name, the two
closures, the removal of their overlap, and what one run of `mbcheck` does with
the two files. `UnitProgram(c, k)` is the program of `Lifecycle` that
results for unit `k`; this is how the two are composed, and
`CorpusTagsEnclosed` speaks about both.

**LockPropagation** - step 4 of the filter pass. The input says more than the
code looks at: which of its locks a function really holds at each call, and
whose address is taken. That is what makes "inherited implies held" a statement
about executions and not about the loop.

**IrScan, Heuristics, FilterPass** - what step 2 and 3 of the filter pass read
off a module (name suffixes, sections, markers, registration calls, the walk of
static initialisers, lock and completion objects, whose address is taken and
how), the fifteen verdicts as
predicates on a pair, and both joined: `Verdicts(u)` says for each pair of unit
`u` which heuristics match. A name is the sequence of its words, a callee one
representative of all the callees a test treats alike.

**FilterChain, PairFilter** - the loop over pairs and heuristics. `SetDisabled`
is the driver's ablation set with `all` expanded, `Fetch` takes the next pair,
`NoMatch` goes on to the next heuristic, `CountOnly` counts a hit of a disabled
one and goes on, `Suppress` records a hit of an enabled one, `Survive` passes
the pair on, `Finish` ends the loop. `PairFilter` is what
the passes behind it may rely on: one step per pair, by the first enabled hit.

**Barriers, Transpiler** - the tables of orderings (of anchors, of the
transpiler's tokens) and the body of `Herd7TranspilerPass::run` for one pair:
registration of variables, P0 with its barriers, hoisting of the partner's
channel loads, P1, the condition, and the cases in which no test is made. A line
of a thread is an operation and a variable; registers and layout are left out.

**Verifier** - P1 to P8 of `LitmusVerifierPass`, on the tests `Transpiler`
builds, with the verifier's own tables and searches. `VerifierProps` has what
AArch64 keeps in order within a thread (`Kept`), applied to the test and to the
code, so that the two can be compared: by barriers, by acquires and releases
(`ldapr` apart from `ldar`), by dependencies, and by any chain of these. The
address, data and control dependencies of the two functions are part of the
input (`depends`, `partnerDepends`, pairs of positions); a test has none, since
a line of it has no operands. What coherence of one object adds is left out.

**Litmus** - `Herd7TranspilerPass::run` and `LitmusVerifierPass::run` as far as
names go: `Emit` is one iteration of the first, `VerifyPair` of the second, one
loop after the other (`loop`). A sanitised name is the sequence of its parts
between underscores, numbers told from words; `KeyOf` cuts a trailing number, as
the verifier does; `Precedes` is the order of the `std::map`.

**Driver** - `mbcheck` as a process. A pass is a script of operations (need a
result, normalise the module, build and release SVF, open and close a phase), a
stack of passes runs them, results are cached. `NoDirectory` is the early end of
`--herd7` when the directory for the tests cannot be made. `Driver` *composes*
the filter: it EXTENDS `FilterChain` and `FilterPass`, and the filter's steps
are steps of the process while `FnHeuristicsFilterPass` is on top.
**SharedObjects** is the set of shared objects as each of three passes computes
it with its own copy.

**Sweep** - `_process_file` and the collection loop of `main`. `Start`,
`Summary`, `Write`, `List`, `Validate`, `Return` are the stages of a task,
`Collect`, `Report`, `Exit` the main thread. A litmus run may be cut off after
any subset of its writes (`List` is enabled all along); a summary run may
succeed, fail with or without statistics, or time out; making the directory may
raise. A path is a sequence of tokens in which `_` and `/` are tokens of their
own, and `SubName` replaces each `/` by two `_`, as `replace("/", "__")` does;
two paths can therefore become one directory.

## 3. The runs

All times are with two workers on one machine; none is above two minutes.

| Run | Question | Inputs (bounds) | States |
|---|---|---|---|
| `footprint` | Does the work list compute exactly the transitive footprints, and end? | every call graph on 3 functions with self loops and cycles, one calling a declaration; objects placed in 12 ways | 92,784 |
| `pairs` | Is every function that can touch an ordered object paired with that bracket, and nothing else? When does a pair have no accesses? | partner bodies of up to 2 instructions of 7 shapes, a helper, 5 first brackets x 2 second ones | 41,040 |
| `brackets` | Does merging lose an event? Is a function whose anchor is there to be found again ever without bracket? Is a synthetic bracket message passing? | every function of 3 instructions out of 14 (one a block in capitals, which is scanned but not found again), and of 4 with two anchors inside or outside two accesses; both settings of strict publish | 232,772 |
| `lifecycle` | Are tags confined to functions only the lifecycle entries reach, in the unit and in the corpus? Do callbacks keep their pairs? | two helpers called in every way from each other, an init and an exit entry; linkage, callbacks, seeds varied; and corpora of two units with the seed files made from them, one of whose entries may be registered as initcall and exitcall | 163,660 |
| `effect` | Is the summary the largest reachable ordering? | 3 functions, up to 2 calls each, recursion, a utility helper, anchors of all strengths and origins | 72,104 |
| `origin` | Is an excluded operand a cast, and internal on every path on which the walk can follow it? | 6 values of every kind, definition cycles, casts and values that are none; budget 4 so that it runs out | 45,892 |
| `locks` | Is an inherited lock held? Did the loop finish? | 3 functions, 2 locks, up to 2 callees each, recursion | 33,496 |
| `litmus` | Is each pair verified against its own test? | 3 pairs of 2 anchor functions and 4 partners (a word, a word and a number, equal after sanitising, a split word) | 8,505 |
| `litmus_test` | Does the test forbid what the code forbids? Do the checks agree with the transpiler? | anchor functions of up to 4 instructions (14 kinds of anchors, 11 of what may stand between; blocks of two mnemonics, a label found in another's text, and a few longer shapes) with 5 partners; 6 brackets with every partner of up to 4 instructions and with partners of three accesses; a payload, a channel, another object, one without description; and brackets and partners with every dependency of a later access on an earlier load | 324,354 |
| `driver` | Does the process filter as promised, add up, and pass on what the next pass can use? | 2 functions of about 42 shapes each, with and without a call, with none and all heuristics disabled; fewer shapes under 5 ablation requests; every subset of the mode flags; a pass that finds nothing; globals used in every way; a directory that cannot be made | 587,052 |
| `sweep` | Does the budget add up under every interleaving, is each verdict about the module's own file or one left in its directory, does it end? | 3 modules (two of one base name and all with directories of their own, or all three sharing `a___b`), 2 workers, up to 2 files each, budget 0 (unlimited) or 3 (fewer than files), clean directories or a stale file that is rewritten or not | 947,312 |
| `disable_all` | Does `--disable-heuristic=all` keep every pair, as its help says? It does not. | as `driver` | violation |

Why these sizes: the fixpoints (footprint, lifecycle, effect, locks) go wrong,
if at all, when a function is passed over that still had something to learn.
Three functions are the fewest in which an update can travel against the
iteration order along a chain (two more passes), around a cycle, and into a
function that already left the list; the input families have them all, and the
mutants that stop early, or absorb from the wrong side, are found. For every
larger call graph there are the proofs. Two brackets with one partner are what
deduplication can confuse; two anchors between the same accesses what merging
can; three tasks over two workers what a queue, a budget of three and a shared
directory need. Four instructions of an anchor function hold an access, a
barrier, an anchor and an access, which is all a bracket consists of; two
functions are all a heuristic looks at, with a callee and a registered handler
among them. Symmetry is not used: the iteration orders are part of what is
checked.

`CHECK_DEADLOCK FALSE` stands in every configuration, since every pass and the
sweep come to an end. That they do not end too early is what `Terminates`,
`ComputesClosure`, and `Ends` of `Driver` and of `Sweep` say.

What the properties are about:

* `FootprintProps!IInv` (no lost update, no invented access), `CompleteWhenMatching`:
  a footprint is never short of an access in a helper's helper, never charged
  with an unrelated one.
* `EveryMatchRecorded`: rests on a label naming one bracket of a function, which
  two earlier passes establish (`LabelsDistinct`, theorem `BracketsInvariant`).
  `EmptyOnlyThroughHelpers`: matching is transitive, collecting is not; a pair
  without accesses always comes from that gap.
* `NoEventLost`: whatever order the hits come in, an event keeps a bracket at
  least as strong as its strongest anchor. `NoAnchoredFunctionIgnored`: a
  function with a shared access and an anchor that is there to be found again
  (`Lasting`: a call the rewriting leaves, or a mnemonic that some block spells
  as the table does) has a bracket, whatever other text its label occurs in
  first. A function whose only barrier reads `DMB ISH` has none (section 6).
  `PlainPublishIsMP`: a synthetic bracket is a store and then a store to another
  object that is a global. The payload need not be one, against the comment
  (section 6).
* `TagsAreEnclosed`: no chain of direct calls that avoids the seeds leads from
  outside into a tagged function. `CallbackPairsSurvive`: two callbacks are
  never taken for mutually exclusive.
* `CorpusTagsEnclosed`: the same for a whole corpus and the seed files, where a
  name names one function, no unit calls what is static in another
  (`WellScoped`), every file can be read, and a marker names a function that is
  defined and that its unit knows (`Unambiguous`). The corpora of the run and of
  the theorem hold units as the pre-pass reads them off (`WellFormed`): only
  what a unit defines calls or is static or in a section.
* `EffectIsLargest`. `ExclusionSound`, on every graph: an operand the walk
  excludes is a cast (or what else `stripPointerCasts` looks through), and
  whatever it may be on a path that meets no bare value (one that is passed on
  as it is, not as what a cast is of) is internal. PHIs, selects and GEPs behind
  a cast are followed; an operand that is itself an argument, PHI, select, GEP
  or call is never excluded. What lies behind a bare value is not vouched for,
  and the exclusion can be wrong there (section 6).
* `InheritedIsHeld`: on modules that hold their locks at every call and store no
  internal function's address, an inherited lock is one that every call chain
  holds. Both conditions are needed (section 6).
* `ExactWhenUnambiguous`: where the names can be told apart, the counters of the
  transpiler and the matching of the verifier agree, though files come back in
  text order.
* `TestWellFormed`: herd7 can parse the test, and its condition is about what P0
  writes and P1 reads. `AboutOrdering`: for an anchor that publishes, the outcome
  asked for cannot happen in program order, so the verdict is about ordering and
  not about a test that holds or fails anyway. This holds whatever the partner
  does and in whatever order, unless two of the objects it accesses have one
  description (`ToldApart`): descriptions are what hoisting goes by, and nothing
  makes them unique (`lib/function_pairs.cpp:149`). `ExactWhenKept`: where the
  barriers between are ones the tables know, the anchor does what the test has for
  it (`AnchorSeen`: a release or full atomic on the channel, or a block that is its
  label and nothing else; nothing that orders in front of a plain publication) and
  the accesses are found where they are and stay in their order (`ExactBarriers`,
  `AnchorKept`, `AccessesKept`), a test that forbids the outcome is right about the
  code, whatever depends on what there; and a test that allows it is right unless
  a dependency of the code lies between the two accesses (`NoDependency`).
  Section 6 lists what those conditions exclude. `NoFalseAlarm`,
  `P8MakesAnchorSideExact`: what the second, independent set of tables says; the
  latter has the same two parts for the bracket alone.
* `StatsAddUp`, `ImplementsPairFilter`, `SideIndependent`: every pair is decided
  once, by the first enabled hit; the STATS lines can be added up; a pair and its
  mirror image share their fate.
* `PassesAgree`: SVF is one global object and is never used by two passes; the
  allocator rewriting that erases calls happens before anything that is kept
  points into the module; brackets are formed only for objects that partners are
  looked for with. `TimeConserved`: every tick is in one phase.
* `Sweep!IInv` (budget conservation), `SkippedOnlyWithoutBudget`, `Ends`.
  `OwnLitmus`: where no `_` of a path stands before a `_` or a `/` (`PlainPaths`),
  every verdict is about a file the module's own run wrote, or about one that an
  earlier sweep left and that this run did not write again. That the second kind
  exists is in section 6 (`CountIsCurrent`), and so are the paths that collide.

Each property has a mutant, a definition replaced by a plausible slip of the
same code (a dropped guard, the wrong map, a missing re-push), under which TLC
finds it violated; the mutants stand before the definitions they alter, marked
`\* mutant`.

## 4. Fairness

`Spec` of the passes has `WF_vars(Next)`: one thread, no waiting, so an enabled
step is eventually taken. `Driver` has the same for the whole process, the
filter loop included. Only `footprint`, `lifecycle` and `driver` check a
liveness property with it. `PointerOrigin`, `Litmus`, `Transpiler` and
`Verifier` state no liveness and no fairness. In `Sweep`, weak fairness is on
each task, on the collection of each result and on the main thread: operating
system threads are scheduled, and each external process is run with a timeout,
so a stage ends. It is on the task as a whole, not on its single actions: that a
litmus run writes all its files before it ends is not assumed.

## 5. The proofs

All theorems hold for every value of the constants under the named assumptions
of the modules, which TLC evaluates on the families of the runs:

* functions are finitely many and ordered (`FnsAssumption`, `NumFnsAssumption`,
  `ObjsAssumption`, `SizeAssumption`, `NamesAssumption`, `BudgetAssumption`), and
  the input has its type (`ProgramsAssumption`, `DeclsAssumption`,
  `CodesAssumption`, `CorporaAssumption`);
* the tables of names answer for every name, and the labels of calls, of asm and
  of synthetic publications are told apart (`TablesAssumption`; nothing is assumed
  about which label occurs in which text); the chain names
  each heuristic once (`ChainAssumption`) and is that of the pass, a unit without
  pairs is one in which no pair was found, flags are those of the command line
  (`CasesAssumption`);
* a cast has one underlying value, which is no cast (`GraphsAssumption`);
* a bracket of the input is one that the passes before it can form: its sides
  lie around its anchor and are the nearest loads or stores, its label is in the
  anchor's text and in no block before it (`Located`), accesses of the partner
  exist and touch something (`InputsAssumption`); a pair of functions has each
  text of accesses once and fewer pairs than `unsigned` can count
  (`PairListsAssumption`); no two modules of a corpus are one file
  (`CorporaAssumption`), and a seeded unit is one of the corpus its seeds come
  from (`CorpusAssumption`);
* a label names one bracket of a function (`ModulesAssumption` of
  `FunctionPairs`). This is what `LabelsDistinct` says of the pass that forms the
  brackets, and `BracketsInvariant` proves it.

| Theorem | Shows |
|---|---|
| `FootprintInvariant`, `FootprintComplete` | the work list computes the transitive footprints of every call graph |
| `FootprintRefines` | every step of it is a step of `TransitiveFootprint` or a stutter (safety part of the refinement) |
| `PairsInvariant`, `EveryMatch` | pairs are real, complete, and carry their own accesses |
| `EmptyPairs` | `EmptyOnlyThroughHelpers` |
| `BracketsInvariant` | hits and brackets are well formed, labels and events distinct in a function, every bracket stems from a hit of it, whatever the order of the hits |
| `DedupLosesNoEvent` | merging keeps for every candidate a bracket of the same event that is at least as strong |
| `AnchoredFunctionsRepresented` | a function with a shared access and an anchor that is there to be found again has a bracket |
| `SyntheticBracketsArePublishes` | what strict publish adds is a store and a later store to another object, a global, with no releasing anchor in the function |
| `LifecycleInvariant`, `TagsEnclosed`, `CallbacksSurvive` | the classes are the least closed ones; tags are enclosed; callbacks stay unpaired |
| `CorpusEnclosed` | tags that come from seed files are enclosed in the whole corpus, for any number of units |
| `IrqClosure` | what is taken for reachable from asynchronous contexts is exactly that, in whatever order it is visited |
| `SummaryInvariant`, `SummaryIsLargest` | nothing is invented, and the effect is the largest reachable one |
| `WalkInvariant`, `ExcludedSoundly` | a verdict on a pointer has a witness; on every graph, cyclic or not, and with any budget, an excluded operand is a cast and internal on every path without a bare value |
| `LockInvariant`, `LocksAreHeld`, `LocksComplete` | inherited locks are held on disciplined modules; the loop did not stop early |
| `FilterInvariant`, `FilterRefines` | every pair is in one of two lists, in order, under its first enabled hit; the loop implements `PairFilter` (safety part) |
| `Counters` | each counter is the number of pairs its heuristic was asked about and matched; the enabled ones sum to the records |
| `DriverInvariant`, `DriverRefines` | the same of the whole process: the passes around the loop leave it alone, and `Verdicts(unit)` is a possible input of it |
| `PassesDisciplined`, `Agreement` | passes nest, each runs because its result is missing; none runs while another holds SVF, no kept result points to what was rewritten, the passes knew the same shared objects |
| `Time` | every tick is in exactly one phase or in one open scope |
| `Stats` | the STATS lines come after the whole filter and add up |
| `Sides` | mirrored pairs share their fate, for every unit and ablation: all fifteen verdicts are symmetric |
| `LitmusInvariant`, `OwnTestVerified` | no test serves two pairs and no pair two tests; where names can be told apart each pair is verified against its own test, and every test is |
| `TestInvariant`, `TestsWellFormed` | for two functions of any length: what a test consists of while it is built, that it can be parsed, and that its condition is about what P0 stores and P1 loads |
| `VerdictIsAboutOrdering` | `AboutOrdering`: hoisting puts the load of the channel in front of everything else |
| `NoFalseAlarms` | the verifier's own tables and searches agree with the transpiler's on P2, P3, P4 and P7 |
| `AnchorSidesExact` | where a test passes P8, what it keeps of the bracket the code keeps, and what the code keeps without a dependency inside the bracket the test keeps |
| `OrderingExact` | `ExactWhenKept`: for functions of any length and any dependencies, under the named conditions, the test forbids nothing the code allows, and everything the code forbids without a dependency between the accesses |
| `SweepInvariant`, `SkippedOnly` | for any number of modules and workers: a listed file is without verdict only if the budget is used up |
| `BudgetKept` | the runs of herd7 and the budget left add up to the limit, under every interleaving |
| `FilesAreOwn`, `PlainNamesAreOwn` | where directories are apart, every verdict is about a file of the module's own litmus run or about one left there that it did not write again; they are apart where no `_` of a path stands before a `_` or a `/` |

**Fixpoints.** The argument is the same in all of them. Reachability is not
recursive but "in every closed set" (`Reach`, `ClassOf`, `Reaching`, `NotHeld`),
so one inclusion needs a closed set to be exhibited, the other a witness; no
induction on paths. The wanted property (`CompleteWhenMatching`,
`EffectIsLargest`, ...) is not inductive. The invariant adds two facts:
*soundness*, everything in the state so far lies in the least closed set
(`NoInventedAccess`, `TagsAreInClasses`, `NothingInvented`, `Justified`,
`Witnessed`), and *progress*, whatever was passed over is settled
(`NoLostUpdate`: not queued means absorbed; `Propagating`, `SettledUpTo`,
`Settled`: in a pass without change everything before the position is closed;
`NothingLost`: what a value leads to has been seen or is on the stack). At the
end progress says that the state is closed, so it contains the least closed set;
soundness gives the converse. Locks are the dual: `NotHeld(l)` is the least set
of functions that may be entered without `l`. The functions that did not inherit
`l` form a set that satisfies its closure condition (by `Justified`), so
`NotHeld(l)` lies inside it, and a function that did inherit `l` is in no way
entered without it.

`CorpusEnclosed` puts two of these together: the closures of the pre-pass are
taken in the union of all calls, and the set of functions a unit may tag is closed
in that union, since a unit knows all callers of what it defines as static.
`SeedTags` adds to the invariant what the strips leave of the seeds.

**Brackets.** `LabelsDistinct` rests on `HitLabelsDistinct` (`seenLabels`),
`EventsDistinct` and `NoEventLost` on what merging one candidate does to a list
that already has both: a lemma per case (a new event, a weaker one, a stronger
one). Progress is that of a list: what lies before `pc` has been dealt with
(`NoMnemonicMissed`, `PublishedOnce`, `NotYet`). `NoAnchoredFunctionIgnored` then
needs an event for a hit that is there to be found again: the rewriting leaves
asm blocks and other calls alone, and a bracket located in another block with the
label in its text is a bracket all the same.

**Filter and driver.** The filter loop is no fixpoint. Its invariant says what
is known of the pair in hand (no enabled hit before `pos`), and that the two
lists are in order and together are the pairs decided; the step to `PairFilter`
then needs that the first enabled hit is the one recorded. Every step of `Driver`
is a step of the loop or leaves the loop's variables alone (`DriverStepIsStep`),
so that the theorems carry over. `Sides` unfolds the fifteen verdicts, one lemma
for them all; with `SurvivesIff`, the verdicts alone decide who survives.

`Discipline` is what the stack of passes is like: `main` at the bottom, each
pass on top of one that asked for it and has not got it, no pass twice, results
other than the anchor scan's made on the normalised module, SVF held only by the
innermost pass and only until its next step releases it. `PassesAgree` follows
in one step; without the shape of the stack a pass could be asked for again
while it runs. `Clocked` ties the open scopes to the frames that opened them
(`ScopesOfFrames`), so that a scope is never closed that the pass has not
opened; `TimeConserved` is inductive only with that. `Tally` says by how much a
counter may be ahead of the pairs decided (one, in the middle of a pair,
`AheadBy`), and `Reported` that the lines are printed after the filter has
returned.

**Tests.** `LitmusInv` says of every stored test that its name leads back to its
pair, by the verifier's rule, and was given before the counter moved on
(`Bookkept`); that is why no name is given twice. `TestInv` says what the lines of
each thread are (`P0Lines`, `P1Lines`), how far the test is (`TestStages`), that
every access so far has its line (`Emitted`), and that lines stem from accesses
(`Accounted`); `ChannelFirst` is the order hoisting establishes and the emission
of P1 keeps.

**Test and code.** The two theorems on exactness compare what a thread of the
test keeps in order (`Kept`) with what the function it was made from keeps.
Positions differ: one instruction may become no line, or several, and equal
barriers are merged. An event is therefore reduced to the marks it leaves on the
order of those around it (`Marks`: a full, a load or a store barrier), and
whether two accesses are kept in order depends on the two and on the *set* of
marks between (`DirectByMarks`). `Kept` itself is by closed sets, since a chain
may go over any accesses; detours over an access between add nothing where none
of these releases, or reads and writes, short of a full atomic (`KeptIsDirect`,
`Inner`), a dependency adds to what is kept and takes nothing away
(`KeptMonotone`), and one that does not lie between the two accesses adds
nothing to them (`KeptUndepended`). Hence the two parts of the theorems: the
test is compared with the code stripped of its dependencies, and the code with
itself. Then it is enough that the lines emitted for a stretch of code leave the
marks of that stretch (`FencesBetween`, from `SeenMarks` for one instruction),
that merging loses none, and that accesses at the ends do what they did
(`AccessSeen`). For P0 the ends are the first and the last line
(`WritesKeptAlike`). For P1 the invariant `Placed` says where each access
stands, that the places rise, and that between two of them are exactly the lines
that were put in front of the second; the marks between any two accesses are
then the union over the gaps between (`GapMarks`, `PlacedMarks`), and the last
read of a variable is at the place of its last access (`ReadsPlaced`). The
proofs found two conditions that had been too weak, and the run then showed a
counterexample for each: a block that carries the label of its anchor and a
second mnemonic (`AnchorSeen`), and a load of the channel hoisted in front of an
access of a third object and so in front of a barrier it came after, which then
orders the payload load behind it (the strict order in `AccessesKept`).

**Sweep.** `SInv` relates what a task has counted to the stage it is in; for
`FilesAreOwn` the files on disk in a module's directory are those its own run
has written and those left there that it has not. `PlainNamesAreOwn` needs that
replacing `/` by `__` can be undone on plain paths: a token of the path stands
at a known place of the result, and two `_` in a row are there only for a `/`.
The runs of herd7 are a set of pairs of module and verdict (`HerdRuns`), so that
the budget is a cardinality that one step changes by one.

Sums over phases and counters, flattened sequences and the shape of lists are
folds and recursive functions, and library induction theorems take a predicate as
a parameter, which the provers cannot instantiate. Induction is therefore done
by the least counterexample: a non-empty set of naturals has a least element
(`NatSet`, `HasMin`), and the recursive equation of the fold contradicts it. That
gives the few facts about `FlattenSeq` (`Joins`) and about sums that the
proofs need. Each proof module has a lemma per action, lemmas for the operators
the model is built from (`ReachFacts`, `ClassFacts`, `ReachingFacts`,
`SeedIsLargest`, `NameOrderIsSeq`, `FirstPosition`) and a temporal step at the end.

Only model-checked is what needs fairness, which is outside what the prover does:
all liveness (`Terminates`, the fairness part of `ComputesClosure`, `Ends`). Every
invariant and every safety part of a refinement that a run checks has its theorem.

## 6. Disagreements between the code and its words

Where a comment, a header or a help text says something the code does not do,
the statement is a definition at the end of the module that has the properties,
next to the quoted line. All of them were checked and found violated. One is
kept as a run with `expect: violation` and listed under `findings`:

* `AllKeepsEveryPair` (`disable_all`). "Use 'all' to disable every heuristic"
  (`driver/mbcheck.cpp:105`); `all` stands for eleven names (`:658`), the chain
  has fifteen heuristics. SeqlockRetry, RegistrationPublish, PmPhase and
  SeqcountReadWrite go on filtering, so the baseline of an ablation is not
  without filter.

Three more touch the verdict directly:

* `DroppedPartnerNeverWrites` (`FunctionPairsProps`). "Sound: a data race requires
  at least one write" (`lib/fn_heuristics.cpp:117`). The filter looks at the
  *first* access per object; a partner that loads and then stores is dropped.
* `AllocatorAnchorsBracketed` (`Brackets`). Allocator anchors "still
  emit anchors and BenignAnchorHeuristic decides" (`include/lib/anchors.h:263`);
  the calls are rewritten to `malloc` before their anchors are looked up, and no
  bracket is formed.
* `ExcludedIsInternal` (`PointerOrigin`). "INCLUDE unless we can prove internal"
  (`lib/anchor_pass.cpp:316`). A value that is no cast is dropped by the second
  `insert`, so a cast of a PHI of two values, a cast of an allocation and an
  argument as it is, is excluded: behind a bare value nothing is vouched for. An operand
  that is itself no cast (an argument, PHI, select, GEP, call or load, which with
  opaque pointers is nearly every one) ends in Unknown and is never excluded, so
  the exclusion hardly ever applies.

To see one of these and of the following, put the definition in a
configuration of the module's MC module as an INVARIANT (`OnlyAsyncExempted` as
a PROPERTY):

| Definition (module) | The words | The code |
|---|---|---|
| `AcquireMatchesPolledObject` (FunctionPairsProps) | acquire uses the object before the barrier, `lib/function_pairs.cpp:281` | `>= Release` also holds for Acquire |
| `EveryObjectRepresented` (FunctionPairsProps) | first instruction per shared object, `:513` | one object per instruction |
| `DroppedAnchorNeverWrites` (FunctionPairsProps) | RMW anchors are caught by the bracket side, `lib/fn_heuristics.cpp:124` | only before and after are looked at |
| `EveryHitPaired` (Brackets) | we pair each AnchorHit with the instruction, `lib/causal_detect.cpp:280` | found on lower-cased text with blanks made equal (`lib/anchor_pass.cpp:78`), searched for in the text as it is written (`:295`): a hit in `DMB ISH`, or with a tab, gets no bracket; calls to allocators neither |
| `BothTargetsGlobal` (Brackets) | both store targets must be global, `:419` | the payload may be any shared object (`:495`) |
| `EverySiteBracketed` (Brackets) | every anchor site, `include/lib/causal_detect.h` | one per label and function |
| `AnchorHasItsMnemonic` (Brackets) | avoid unrelated asm, `lib/causal_detect.cpp:286` | substring: `dmb ish` is found in `dmb ishst` |
| `MergedShareChannel` (Brackets) | the same logical event, `:369` | anchors on two objects are merged |
| `PublishWithoutAnchors`, `PublishDespiteAcquire` (Brackets) | every defined function; without any release barrier, `:400` | early return; Acquire counts as Release |
| `HelpersOfCallbacksUntagged` (LifecycleProps) | nor anything reachable only from them, `lib/fn_heuristics.cpp:1269` | the strip does not cascade |
| `InitOnlyNotReachedFromExit` (LifecycleProps) | not reachable from exit, `include/lib/fn_heuristics.h:189` | only direct callers and exit-*only* functions count |
| `OnlyAsyncExempted` (LifecycleProps) | the irqReachable gate is critical, `lib/fn_heuristics.cpp:1909` | there is no gate |
| `NoOrderingLost` (AnchorEffect) | acquire and release are incomparable, `spec/OrderingLattice.tla:23` | the larger enumerator wins |
| `ArgumentRecognised` (PointerOrigin) | reaches at least one argument, `lib/anchor_pass.cpp:236` | a bare argument ends in Unknown (the safe side) |
| `CallersExhaustive`, `CalledUnderLock` (LockPropagation) | every caller is visible; always called under a lock, `lib/fn_heuristics.cpp:2076`, `:2060` | callbacks; locks held only elsewhere in the caller |
| `FilenamesUnique`, `EveryTestVerified`, `VerifiedAgainstOwnPair` (Litmus) | unique file names, every test, exactly one matching file | colliding names; numbers at the end of names |
| `TimedOutContributesNothing`, `CountIsCurrent` (Sweep) | help of `--timeout`; the count is correct | exit code dropped; directory reused |
| `Separate` (Sweep) | distinct `.ll` files do not collide, `script/run_kernel_noLTO.py:630` | `a_/b.ll` and `a/_b.ll` are both `a___b`: they write, count and judge each other's files |
| `CallersInClass` (LifecycleProps) | every caller of f is in init_set, `script/run_kernel_noLTO.py:175` | names in both classes are removed, their callees stay |
| `HitsQuantifyEach` (FilterChainProps) | quantify what each heuristic would have filtered, `lib/fn_heuristics.cpp:2240` | heuristics after the first enabled hit are not asked |
| `CountedOnce` (FilterChainProps) | counted under the first heuristic, `include/lib/fn_heuristics.h:565` | under ablation a pair is counted by several |
| `SharedMirrored` (DriverProps) | mirrors CausalDetectPass exactly, `lib/function_pairs.cpp:75` | one pass follows constants one level deep, the other to any depth |
| `FinalReleaseIsExit` (DriverProps) | `_kref_release` is kept as final teardown, `lib/fn_heuristics.cpp:1047` | stripped again by the callback strip |
| `RegistrarAndHandlerKept` (DriverProps) | the two can run concurrently, `include/lib/fn_heuristics.h:129` | RegistrationPublish drops what CallGraph keeps |
| `RuntimePmKept` (DriverProps) | cannot suppress a runtime-vs-suspend pair, `lib/fn_heuristics.cpp:817` | `_runtime_suspend` ends in `_suspend` |
| `LockAliasNamesALock` (DriverProps) | both acquire an exclusive lock, `include/lib/fn_heuristics.h:148` | inline-asm counters count as acquires |
| `P8IsConservative` (VerifierProps) | no more happens-before than the original, `spec/MBCheckIR.tla:260` | the test can forbid what the code allows |
| `CompilerOnlyIsNoFence` (VerifierProps) | compiler barrier only, `include/lib/anchors.h:26` | its name is in the other table as a full barrier (`include/lib/ext_fn_summary.h:586`) |
| `P3IsClosure` (VerifierProps) | every P0-write symbol has a P1 load, `include/lib/litmus_verifier.h:10` | one load of any symbol in P1 is enough |

What `ExactWhenKept` and `NoFalseAlarm` exclude by name is where a test and its
code may differ; each was seen in a counterexample before it was excluded:

* A line of a test has no operands, so no dependency of the code reaches it. A
  partner that loads the published pointer and then what it points to is ordered
  by the address; its test has two independent loads and may report the outcome
  as possible. Likewise a store behind a branch on the load that opens a bracket.
  `NoDependency` excludes these, in one direction only.
* Loads that acquire and stores that release *between* the accesses become `DMB
  LD` and `DMB ST`; acquire loads of an object that is not the channel are
  emitted as plain `LDR` (the test for the text "load acquire" never matches);
  `ldapr` becomes `LDAR`, which orders more; a compare-and-swap with acquire
  only is stored as `STLR`.
* A block of two barriers is emitted as the one its label names. Where a load of the
  channel is hoisted over a third object's access, barriers are collected between
  other instructions than in the code.
* Tokens without lowering: `dsb ish`, `dsb ishst`, `dsb st`, `dsb ld`, `dmb oshld`
  and `stlxp` leave nothing in the test. `dmb osh` fails P2 and P4.
* Names on the block list (logging and the like) emit a barrier when they stand
  between accesses; what orders inside a helper that is defined is not emitted.
* The text of a partner's access is cut at 120 characters
  (`lib/function_pairs.cpp:42`), after which the transpiler does not find it.
* Synthetic publications of strict publish always fail P1, P4 and P8, as their
  label is no instruction. P5 may fail where nothing was left out.

Seen in the sources, and not stated as a definition: one benign object
hides the whole pair from `SafeAllocation`; `disable_irq_nosync` is taken for a
call that waits; `device_register` counts as a registration and as a sign of an
init function; "either function" in the comment on `ConservativeAnyLock` is
"both" in its code, which nothing calls; seed names that are only declared in a
unit are accepted, against "definitions" (`lib/fn_heuristics.cpp:1214`); an
`.ll` file that cannot be read adds no callers and no message; a failed write of
a litmus test still ends in exit status 0; `FSPTAPass` does not release the
SVFIR it has built.

## 7. What is not modelled, and why

* The contents of tables: the names of external functions, mnemonics and
  registration calls are represented by one name for each way the code treats
  them. `ext_fn_summary.h` alone has 10,000 lines of them.
* Text: option parsing, the parsing of tests and STATS lines, printed
  instructions (except where they are cut or found again), report text. The
  models assume functions with debug information, where descriptions of objects
  are variable names.
* SVF, LLVM and herd7: external. Points-to answers are arbitrary sets in the
  inputs; herd7 answers, fails or times out.
* The memory of a process (bad_alloc, the memory sampler), logging. SVF's own
  state; `Driver` only knows who holds it.
* Patch synthesis, corpus generation, claim runner, report scripts: sequential
  programs around files and command lines.
* The repository's own TLA+ files under `spec/` specify P1 to P8; they are not
  reused, only quoted where the code disagrees.

## 8. Plan

Done, in this order: Footprint with TransitiveFootprint, FunctionPairs,
Brackets, Lifecycle, AnchorEffect, PointerOrigin, Sweep, Litmus,
LockPropagation; Barriers, Transpiler, Verifier; IrScan, Heuristics, FilterPass,
FilterChain with PairFilter, Driver, SharedObjects; CrossTuSeeds; and the proofs
of section 5, which cover every module with a specification of its own and every
safety property of the runs.

Next:

1. The lifetime of SVF's results in `Driver`, one object at a time.
2. Patch synthesis: the order in which candidate barriers are tried against herd7.

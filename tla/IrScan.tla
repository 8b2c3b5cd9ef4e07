-------------------------------- MODULE IrScan --------------------------------
(****************************************************************************)
(* What FnHeuristicsFilterPass::run (fn_heuristics.cpp) reads off a module  *)
(* before it reasons about it: the scan of names, sections, module asm,     *)
(* seed files and calls (step 2), the typed walk of static initialisers     *)
(* (G5.5) and the objects of locks, completions and per-CPU pointers        *)
(* (step 3).  LifecycleInput is the program that module Lifecycle starts    *)
(* from; the other operators are the sets module Heuristics decides with.   *)
(*                                                                          *)
(* A unit is a record                                                       *)
(*   name     : name[f], the words of f's name between underscores          *)
(*   section  : section[f], "init", "exit" or "none"                        *)
(*   entry    : entry[f], "initcall" or "exitcall" if module asm registers f*)
(*   body     : body[f], the calls of f that some test below looks at       *)
(*   mentions : mentions[f], the functions whose address f takes otherwise  *)
(*              than in those calls: it stores, compares, returns or passes *)
(*              it                                                          *)
(*   loads    : loads[f], the seqlock globals f loads from                  *)
(*   globals  : globals[g], the leaves of g's initialiser                   *)
(*   seqlocks : the objects that are globals of a seqlock type              *)
(*   internal : the functions of internal linkage                           *)
(*   calls    : calls[f], the defined functions f calls directly            *)
(*   extraInit, extraExit : the names of the seed files                     *)
(* A call has the name api of its callee (or "lock_asm", an inline-asm      *)
(* atomic add or LL/SC loop), the functions fns and globals globs among the *)
(* arguments the test looks at, and the objects objs its pointer may have.  *)
(* A name in a table below stands for all callees every test treats alike.  *)
(****************************************************************************)
EXTENDS Integers, Sequences, FiniteSets

CONSTANTS NumFns, Globals

Fns == 1..NumFns

----------------------------------------------------------------------------
(* StringRef::ends_with("_" + suffix) for a name and a suffix in words.     *)
EndsWith(n, w) ==
  Len(n) > Len(w) /\ SubSeq(n, Len(n) - Len(w) + 1, Len(n)) = w
EndsWithAny(n, suffixes) == \E w \in suffixes : EndsWith(n, w)

(* isInitName: "__initstub__", whatever follows.                            *)
IsInitName(n) == Len(n) >= 5 /\ SubSeq(n, 1, 4) = <<"", "", "initstub", "">>

ExitSuffixes ==
  {<<"kref", "release">>, <<"kobject", "release">>, <<"free", "dev">>, <<"cleanup">>}
IsExitName(n) == EndsWithAny(n, ExitSuffixes)

SuspendPhases == {"suspend", "freeze", "poweroff"}
ResumePhases == {"resume", "restore", "thaw"}

(* Driver-model and power-management callbacks that recur.                  *)
RecurringSuffixes ==
  {<<w>> : w \in {"probe", "attach", "bind", "remove", "detach", "unbind",
                  "powerup", "powerdown"}}
  \cup {<<ph>> : ph \in (SuspendPhases \ {"poweroff"}) \cup ResumePhases}
  \cup {<<ph, s>> : ph \in ResumePhases, s \in {"noirq", "early"}}
  \cup {<<ph, s>> : ph \in SuspendPhases \ {"poweroff"}, s \in {"noirq", "late"}}
  \cup {<<"suspend", "early">>, <<"runtime", "idle">>}

(* File, page-cache, super-block and memory-mapping operations, interrupt   *)
(* handlers and work functions.                                             *)
RuntimeSuffixes ==
  {<<w>> : w \in {"show", "store", "open", "release", "ioctl", "mmap", "poll", "fasync",
                  "llseek", "fsync", "readpage", "writepage", "readahead", "writepages",
                  "releasepage", "invalidatepage", "statfs", "fault", "nopage", "isr",
                  "interrupt", "handler", "workfn", "kthread"}}
  \cup {<<v, "iter">> : v \in {"read", "write"}}
  \cup {<<"iter", v>> : v \in {"read", "write"}}
  \cup {<<"splice", v>> : v \in {"read", "write"}}
  \cup {<<v, "inode">> : v \in {"destroy", "evict", "drop", "dirty", "write"}}
  \cup {<<"set", "page", "dirty">>, <<"dirty", "folio">>, <<"release", "folio">>,
        <<"invalidate", "folio">>, <<"put", "super">>, <<"sync", "fs">>,
        <<"page", "mkwrite">>, <<"huge", "fault">>, <<"threaded", "irq">>,
        <<"work", "fn">>, <<"timer", "fn">>}

(* sysfsRuntime.                                                            *)
SysfsRuntime(u) ==
  {f \in Fns : EndsWithAny(u.name[f], RuntimeSuffixes \cup RecurringSuffixes)}

----------------------------------------------------------------------------
(* The tables of callees.                                                   *)
ExclusiveLockAcquires == {"_raw_spin_lock", "mutex_lock", "write_seqlock"}
SpinLockCalls == {"_raw_spin_lock", "_raw_spin_unlock"}
RcuReadLocks == {"rcu_read_lock"}
RcuSyncCalls == {"synchronize_rcu"}
IrqSyncCalls == {"disable_irq"}
CompletionSignals == {"complete"}
CompletionWaits == {"wait_for_completion"}
PerCpuAccessors == {"get_cpu_ptr"}
SubsysLocks ==
  {"rtnl_lock", "netdev_lock", "i2c_lock_bus", "spi_bus_lock", "pci_lock_rescan_remove",
   "device_lock", "acpi_bus_lock", "usb_lock_device", "console_lock", "console_trylock"}
RegmapCalls == {"regmap_read"}
DmaSyncCalls == {"dma_sync_single_for_cpu"}
SeqlockReads == {"read_seqbegin"}
SeqlockWrites == {"write_seqlock"}
InitIndicators == {"timer_init_key", "device_register"}

(* Registration of a handler for an interrupt, tasklet, work, thread or     *)
(* timer; of another callback; of a structure with callbacks in it.         *)
AsyncRegistrations == {"request_irq"}
DirectRegistrations == {"irq_set_handler"}
StructRegistrations == {"platform_driver_register", "device_register"}

Calling(u, apis) == {f \in Fns : \E c \in u.body[f] : c.api \in apis}
Operands(u, f, apis) == UNION {c.objs : c \in {d \in u.body[f] : d.api \in apis}}

----------------------------------------------------------------------------
(* walkTyped: callbacks stored inside an asynchronous structure, wherever   *)
(* it is nested in an initialiser; the walk stops at other globals.         *)
StaticCallbacks(u) ==
  UNION {UNION {l.fns : l \in {m \in u.globals[g] : m.async}} : g \in Globals}

(* The handlers the irq closure starts from.                                *)
AsyncHandlers(u) ==
  StaticCallbacks(u)
  \cup UNION {UNION {c.fns : c \in {d \in u.body[f] : d.api \in AsyncRegistrations}} : f \in Fns}

(* regWalk: from the initialiser of a global into those of the globals it   *)
(* mentions, each visited once.                                             *)
Mentioned(u, S) == S \cup UNION {UNION {l.globs : l \in u.globals[g]} : g \in S}
WalkedGlobals(u, S) ==
  LET Walk[n \in Nat] == IF n = 0 THEN S ELSE Mentioned(u, Walk[n - 1])
  IN  Walk[Cardinality(Globals)]
CallbacksIn(u, S) == UNION {UNION {l.fns : l \in u.globals[g]} : g \in WalkedGlobals(u, S)}

(* registeredBy.                                                            *)
RegisteredBy(u) ==
  [cb \in Fns |->
     {f \in Fns : \E c \in u.body[f] :
        \/ c.api \in AsyncRegistrations \cup DirectRegistrations /\ cb \in c.fns
        \/ c.api \in StructRegistrations /\ cb \in CallbacksIn(u, c.globs)}]

(* A seqlock is seen through the spin lock embedded in a global of its      *)
(* type: who calls a spin-lock function on it writes, who only loads reads. *)
SeqlocksLocked(u, f) == Operands(u, f, SpinLockCalls) \cap u.seqlocks
SeqWriters(u) == {f \in Fns : SeqlocksLocked(u, f) # {}}
SeqReaders(u) == {f \in Fns : u.loads[f] \ SeqlocksLocked(u, f) # {}}

----------------------------------------------------------------------------
(* lockSets before inheritance: the objects of acquire functions and of all *)
(* pointer arguments of inline asm that looks like a lock.                  *)
OwnLocks(u) == [f \in Fns |-> Operands(u, f, ExclusiveLockAcquires \cup {"lock_asm"})]

InitSeed(u) ==
  {f \in Fns : u.entry[f] = "initcall" \/ u.section[f] = "init" \/ IsInitName(u.name[f])}
  \cup u.extraInit \cup Calling(u, InitIndicators)
ExitSeed(u) ==
  {f \in Fns : u.entry[f] = "exitcall" \/ u.section[f] = "exit" \/ IsExitName(u.name[f])}
  \cup u.extraExit

(* hasAddressTaken: used otherwise than as the callee of a call, in an      *)
(* instruction or as a leaf of an initialiser.                              *)
AddrTaken(u) ==
  UNION {u.mentions[f] : f \in Fns}
  \cup (UNION {UNION {c.fns : c \in u.body[f]} : f \in Fns})
  \cup UNION {UNION {l.fns : l \in u.globals[g]} : g \in Globals}

(* What module Lifecycle starts from.                                       *)
LifecycleInput(u) ==
  [internal |-> u.internal, calls |-> u.calls,
   initSeed |-> InitSeed(u), exitSeed |-> ExitSeed(u),
   lifecycleName |-> {f \in Fns : u.section[f] # "none" \/ IsInitName(u.name[f]) \/ IsExitName(u.name[f])},
   recurring |-> SysfsRuntime(u), addrTaken |-> AddrTaken(u), async |-> AsyncHandlers(u)]

============================================================================

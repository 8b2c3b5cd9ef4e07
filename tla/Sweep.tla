--------------------------------- MODULE Sweep ---------------------------------
(****************************************************************************)
(* The corpus sweep (script/run_kernel_noLTO.py, _process_file and the      *)
(* thread pool of main): workers run mbcheck --summary and, where pairs     *)
(* survive, mbcheck --litmus on one module each, count and validate the     *)
(* litmus files they then find on disk with herd7, under a budget of herd7  *)
(* runs all workers share; the main thread collects the results as they     *)
(* complete.                                                                *)
(*                                                                          *)
(* A corpus is a record of                                                  *)
(*   path   : per module, its path below testdir without the suffix; each   *)
(*            "/" and each "_" is a token of its own                        *)
(*   litmus : per module, the litmus files a complete --litmus run writes   *)
(*   stale  : the names an earlier sweep left in every litmus directory     *)
(*   limit  : --limit-herd7, the budget of herd7 runs; 0 is unlimited       *)
(* mbcheck and herd7 are external: a process may end, fail or run into its  *)
(* timeout at any point.                                                    *)
(****************************************************************************)
EXTENDS Integers, FiniteSets, Sequences, SequencesExt, FiniteSetsExt

CONSTANTS
  NumModules,  \* ll_files, in sorted order
  Jobs,        \* workers
  Names,       \* names of litmus files, in sorted order
  Parts,       \* the other characters of paths, or what stands for runs of them
  Corpora

Modules == 1..NumModules

ASSUME SizeAssumption == NumModules \in Nat \ {0} /\ Jobs \in Nat \ {0}
ASSUME NamesAssumption == Names \subseteq Nat
ASSUME CorporaAssumption ==
  \A c \in Corpora :
    /\ c.path \in [Modules -> Seq(Parts \cup {"underscore", "slash"})]
    /\ \A m, n \in Modules : m # n => c.path[m] # c.path[n]
    /\ c.litmus \in [Modules -> SUBSET Names]
    /\ c.stale \subseteq Names
    /\ c.limit \in Nat

VARIABLES
  corpus,   \* the input; no step changes it
  stage,    \* per module, how far its task is
  code,     \* per module, the exit code of the summary run
  pending,  \* per module, litmus files its --litmus run has still to write
  disk,     \* the litmus files: records of directory, name and writer
  listed,   \* per module, what glob found: litmus_total is its size
  verdicts, \* per module, herd7_results: the name and the writer of each file
  budget,   \* herd7_sem
  results,  \* modules whose result main has collected
  main      \* "collecting", "raised", "reported" or "exited"

vars == <<corpus, stage, code, pending, disk, listed, verdicts, budget, results, main>>

----------------------------------------------------------------------------
(* The litmus directory of a module: its path with "/" replaced by "__".    *)
Replaced(p) ==
  FlattenSeq([i \in DOMAIN p |-> IF p[i] = "slash" THEN <<"underscore", "underscore">>
                                                   ELSE <<p[i]>>])
SubName_Stem(m) ==                                              \* mutant
  LET p == corpus.path[m] IN SubSeq(p, Max({0} \cup {i \in DOMAIN p : p[i] = "slash"}) + 1, Len(p))
SubName(m) == Replaced(corpus.path[m])

FilesIn(d) == {f.name : f \in {g \in disk : g.dir = d}}
WriterOf(d, n) == (CHOOSE f \in disk : f.dir = d /\ f.name = n).by

Running == {m \in Modules : stage[m] \in {"summary", "litmus", "validate"}}
Ended == {m \in Modules : stage[m] \in {"returned", "raised"}}
ToValidate(m) == listed[m] \ {v.name : v \in verdicts[m]}

----------------------------------------------------------------------------
Init ==
  /\ corpus \in Corpora
  /\ stage = [m \in Modules |-> "queued"]
  /\ code = [m \in Modules |-> "none"]
  /\ pending = [m \in Modules |-> {}]
  /\ disk = {[dir |-> SubName(m), name |-> n, by |-> 0] : m \in Modules, n \in corpus.stale}
  /\ listed = [m \in Modules |-> {}]
  /\ verdicts = [m \in Modules |-> {}]
  /\ budget = corpus.limit
  /\ results = {}
  /\ main = "collecting"

(* A free worker takes the task submitted first.                            *)
Start(m) ==
  /\ stage[m] = "queued"
  /\ \A k \in Modules : stage[k] = "queued" => m <= k
  /\ Cardinality(Running) < Jobs
  /\ stage' = [stage EXCEPT ![m] = "summary"]
  /\ UNCHANGED <<corpus, code, pending, disk, listed, verdicts, budget, results, main>>

(* _run_summary ends: normally, with a failure after or before its          *)
(* statistics, or by its timeout, which leaves no statistics.  Surviving    *)
(* pairs lead to the litmus run; making its directory may raise.            *)
Summary(m) ==
  /\ stage[m] = "summary"
  /\ \E c \in {"ok", "failed", "timeout"}, s \in {corpus.litmus[m], {}}, t \in {"litmus", "raised"} :
       /\ c = "ok" => s = corpus.litmus[m]
       /\ c = "timeout" => s = {}
       /\ code' = [code EXCEPT ![m] = c]
       /\ stage' = [stage EXCEPT ![m] = IF s = {} THEN "returned" ELSE t]
       /\ pending' = [pending EXCEPT ![m] = s]
  /\ UNCHANGED <<corpus, disk, listed, verdicts, budget, results, main>>

(* mbcheck --litmus writes, or overwrites, a file.                          *)
Write(m) ==
  /\ stage[m] = "litmus"
  /\ \E n \in pending[m] :
       /\ disk' = {f \in disk : ~(f.dir = SubName(m) /\ f.name = n)}
                    \cup {[dir |-> SubName(m), name |-> n, by |-> m]}
       /\ pending' = [pending EXCEPT ![m] = @ \ {n}]
  /\ UNCHANGED <<corpus, stage, code, listed, verdicts, budget, results, main>>

(* The litmus run ends, complete or not; its exit code is not looked at.    *)
(* The files of the directory are listed.                                   *)
List(m) ==
  /\ stage[m] = "litmus"
  /\ listed' = [listed EXCEPT ![m] = FilesIn(SubName(m))]
  /\ stage' = [stage EXCEPT ![m] = "validate"]
  /\ UNCHANGED <<corpus, code, pending, disk, verdicts, budget, results, main>>

(* acquire(blocking=False) on the shared budget.                            *)
Exhausted_Early == corpus.limit # 0 /\ budget <= 1                 \* mutant
Exhausted_Never == FALSE                                        \* mutant
Exhausted == corpus.limit # 0 /\ budget = 0
Acquire_Unchecked == budget' = IF budget > 0 THEN budget - 1 ELSE budget  \* mutant
Acquire ==
  /\ corpus.limit # 0 => budget > 0
  /\ budget' = IF corpus.limit = 0 THEN budget ELSE budget - 1

(* herd7 on the next file, as it is on disk now.                            *)
Validate(m) ==
  /\ stage[m] = "validate"
  /\ ToValidate(m) # {}
  /\ Acquire
  /\ LET n == Min(ToValidate(m))
     IN  verdicts' = [verdicts EXCEPT ![m] = @ \cup {[name |-> n, by |-> WriterOf(SubName(m), n)]}]
  /\ UNCHANGED <<corpus, stage, code, pending, disk, listed, results, main>>

(* All files are validated or the budget is exhausted.                      *)
Return(m) ==
  /\ stage[m] = "validate"
  /\ ToValidate(m) = {} \/ Exhausted
  /\ stage' = [stage EXCEPT ![m] = "returned"]
  /\ UNCHANGED <<corpus, code, pending, disk, listed, verdicts, budget, results, main>>

(* as_completed; a task that raised ends the collection.                    *)
Collect(m) ==
  /\ main = "collecting"
  /\ m \notin results
  /\ \/ stage[m] = "returned" /\ results' = results \cup {m} /\ main' = main
     \/ stage[m] = "raised" /\ results' = results /\ main' = "raised"
  /\ UNCHANGED <<corpus, stage, code, pending, disk, listed, verdicts, budget>>

Report ==
  /\ main = "collecting"
  /\ results = Modules
  /\ main' = "reported"
  /\ UNCHANGED <<corpus, stage, code, pending, disk, listed, verdicts, budget, results>>

(* The pool waits for every task before the exception leaves main.          *)
Exit ==
  /\ main = "raised"
  /\ Ended = Modules
  /\ main' = "exited"
  /\ UNCHANGED <<corpus, stage, code, pending, disk, listed, verdicts, budget, results>>

Task(m) == Start(m) \/ Summary(m) \/ Write(m) \/ List(m) \/ Validate(m) \/ Return(m)

Next == (\E m \in Modules : Task(m) \/ Collect(m)) \/ Report \/ Exit

(* Every process has a timeout, threads are scheduled fairly.               *)
Spec ==
  /\ Init /\ [][Next]_vars
  /\ \A m \in Modules : WF_vars(Task(m)) /\ WF_vars(Collect(m))
  /\ WF_vars(Report \/ Exit)

----------------------------------------------------------------------------
(* Properties of the sweep.                                                 *)

TypeOK ==
  /\ corpus \in Corpora
  /\ stage \in [Modules -> {"queued", "summary", "litmus", "validate", "returned", "raised"}]
  /\ code \in [Modules -> {"none", "ok", "failed", "timeout"}]
  /\ pending \in [Modules -> SUBSET Names]
  /\ listed \in [Modules -> SUBSET Names]
  /\ verdicts \in [Modules -> SUBSET [name : Names, by : Modules \cup {0}]]
  /\ \A m \in Modules : \A v \in verdicts[m] : v.name \in listed[m]
  /\ budget \in 0..corpus.limit
  /\ results \subseteq Modules
  /\ main \in {"collecting", "raised", "reported", "exited"}

(* "Max total herd7 invocations": however the workers interleave, the runs  *)
(* of herd7 and what is left of the budget add up to the limit.             *)
HerdRuns == UNION {{<<m, v>> : v \in verdicts[m]} : m \in Modules}
BudgetRespected ==
  corpus.limit # 0 =>
    IsFiniteSet(HerdRuns) /\ Cardinality(HerdRuns) + budget = corpus.limit

(* What the tasks and main have of each other, an inductive invariant: a    *)
(* listed file stays on disk, a task that has returned has validated its    *)
(* files or has seen the budget exhausted, for good, and main reports when  *)
(* every task has returned.                                                 *)
DiskOK ==
  /\ \A f \in disk : f.name \in Names /\ f.by \in Modules \cup {0}
  /\ \A m \in Modules :
       IF stage[m] \in {"validate", "returned"}
       THEN listed[m] \subseteq FilesIn(SubName(m))
       ELSE listed[m] = {} /\ verdicts[m] = {}
Validated ==
  /\ \A m \in results : stage[m] = "returned"
  /\ main = "reported" => results = Modules
  /\ \A m \in Modules :
       stage[m] = "returned" => ToValidate(m) = {} \/ (corpus.limit # 0 /\ budget = 0)
SInv == TypeOK /\ DiskOK /\ Validated
IInv == SInv /\ BudgetRespected

(* A report in which a listed file has no verdict is a report of a sweep    *)
(* that used its whole budget; a file is not skipped for any other reason.  *)
SkippedOnlyWithoutBudget ==
  main = "reported" =>
    \A m \in Modules : ToValidate(m) = {} \/ (corpus.limit # 0 /\ budget = 0)

(* "distinct .ll files sharing a basename do not collide": where no "_" of  *)
(* a path stands before a "_" or a "/", every file a module counts and      *)
(* every verdict it reports is about a file of its own litmus run, or about *)
(* one an earlier sweep left in its directory; the latter only if this      *)
(* run did not write a file of that name, because it would write none or    *)
(* ended before it did.                                                     *)
PlainPaths ==
  \A m \in Modules : LET p == corpus.path[m] IN
    \A i \in 1..(Len(p) - 1) : p[i] = "underscore" => p[i + 1] \notin {"underscore", "slash"}
OwnOrStale(m, f) ==
  \/ f.by = m
  \/ f.by = 0 /\ f.name \in corpus.stale /\ (f.name \in corpus.litmus[m] => f.name \in pending[m])
Owned(m) ==
  /\ listed[m] \subseteq corpus.litmus[m] \cup corpus.stale
  /\ \A v \in verdicts[m] : OwnOrStale(m, v)
OwnLitmus == PlainPaths => \A m \in Modules : Owned(m)

(* Where no two modules share a directory, the same holds of any paths.     *)
Separate == \A m, n \in Modules : m # n => SubName(m) # SubName(n)
OwnFiles == Separate => \A m \in Modules : Owned(m)

(* The sweep ends with a report or with the exception of a task: no worker  *)
(* waits for the budget, no task is left behind.                            *)
Ends == <>(main \in {"reported", "exited"})

----------------------------------------------------------------------------
(* "A module that exceeds it contributes nothing" (--timeout,               *)
(* run_kernel_noLTO.py:727-729): no litmus file of a litmus run that did    *)
(* not complete is counted.                                                 *)
TimedOutContributesNothing ==
  main = "reported" => \A m \in Modules : pending[m] # {} => listed[m] = {}

(* "The actual count is taken from files on disk after --litmus so the      *)
(* aggregation is correct" (run_kernel_noLTO.py:626-628): the count is that *)
(* of the files this sweep wrote.                                           *)
CountIsCurrent ==
  main = "reported" =>
    \A m \in Modules : listed[m] \subseteq corpus.litmus[m]

============================================================================

--------------------------------- MODULE Litmus ---------------------------------
(****************************************************************************)
(* From surviving pairs to litmus files and back: Herd7TranspilerPass::run  *)
(* (herd7_transpiler.cpp) names and stores one litmus test per pair, and    *)
(* LitmusVerifierPass::run (litmus_verifier.cpp) finds the test of each     *)
(* pair again, by file name and anchor comment, to check it against the IR. *)
(* What the tests contain, and what the checks P1..P8 find, is left out.    *)
(*                                                                          *)
(* A function name, once sanitised, is the sequence of parts it has between *)
(* "_"; a part below Word is a number, any other part is a word; parts are  *)
(* numbered in the order of their text.  Pairs are numbered in the order of *)
(* filteredPairs.byAnchorFn.                                                *)
(****************************************************************************)
EXTENDS Integers, Sequences, SequencesExt, FiniteSets

CONSTANTS
  Word,       \* the first part that is not a number
  PairLists   \* sequences of surviving pairs, see Pairs

NameParts == Nat
FnNames == Seq(NameParts) \ {<<>>}

(* name and pname are sanitised, fn and partner the functions themselves;   *)
(* sig is label, ordering and site of the anchor; empty tells that no test  *)
(* is generated for the pair.                                               *)
ASSUME WordAssumption == Word \in Nat
ASSUME PairListsAssumption ==
  \A p \in PairLists : DOMAIN p = 1..Len(p) /\ Len(p) \in Nat /\ \A i \in DOMAIN p :
    /\ p[i].name \in FnNames /\ p[i].pname \in FnNames
    /\ p[i].empty \in BOOLEAN
    /\ Len(p) < Word
    /\ \A j \in DOMAIN p :
         /\ p[i].fn = p[j].fn => p[i].name = p[j].name
         /\ p[i].partner = p[j].partner => p[i].pname = p[j].pname
         /\ i # j /\ p[i].fn = p[j].fn /\ p[i].partner = p[j].partner => p[i].sig # p[j].sig

VARIABLES
  pairs,     \* the input; no step changes it
  pos,       \* the pair being emitted, then the pair being verified
  loop,      \* "emit", "verify" or "done"
  counter,   \* pairCounter: tests emitted per pair key
  files,     \* litmusFiles: per test name, the pair whose test is stored
  consumed,  \* test names the verifier has matched
  reports    \* the tests verified: pair and test name

litmusVars == <<pairs, pos, loop, counter, files, consumed, reports>>

----------------------------------------------------------------------------
PairKey(i) == pairs[i].name \o pairs[i].pname

(* The verifier's key of a test name: a trailing number is taken for the    *)
(* number of a duplicate.                                                   *)
KeyOf_Whole(n) == n                                             \* mutant
KeyOf(n) == IF Last(n) < Word THEN Front(n) ELSE n

(* The order of std::map<std::string, ...>; "." sorts before "_": the first *)
(* name ends where they part, or goes on with the smaller part.             *)
Precedes(n, m) ==
  \E k \in DOMAIN m :
    /\ \A l \in 1..(k - 1) : l \in DOMAIN n /\ n[l] = m[l]
    /\ k \in DOMAIN n => n[k] < m[k]

Count(k) == IF k \in DOMAIN counter THEN counter[k] ELSE 0
TestName_Bare(i) == PairKey(i)                                  \* mutant
TestName(i) == IF Count(PairKey(i)) = 0 THEN PairKey(i) ELSE Append(PairKey(i), Count(PairKey(i)))

(* The unconsumed tests of the pair's key with the pair's anchor comment.   *)
Matches_Consumed(i) ==                                          \* mutant
  {n \in DOMAIN files : KeyOf(n) = PairKey(i) /\ pairs[files[n]].sig = pairs[i].sig}
Matches(i) ==
  {n \in DOMAIN files \ consumed : KeyOf(n) = PairKey(i) /\ pairs[files[n]].sig = pairs[i].sig}

----------------------------------------------------------------------------
LitmusInit ==
  /\ pairs \in PairLists
  /\ pos = 1
  /\ loop = "emit"
  /\ counter = <<>>
  /\ files = <<>>
  /\ consumed = {}
  /\ reports = {}

(* emplace keeps the test that is already there.                            *)
Emit ==
  /\ loop = "emit"
  /\ pos \in DOMAIN pairs
  /\ pos' = pos + 1
  /\ IF pairs[pos].empty THEN UNCHANGED <<counter, files>>
     ELSE LET k == PairKey(pos)
              n == TestName(pos)
          IN  /\ counter' = [x \in DOMAIN counter \cup {k} |-> IF x = k THEN Count(k) + 1 ELSE counter[x]]
              /\ files' = [x \in DOMAIN files \cup {n} |-> IF x \in DOMAIN files THEN files[x] ELSE pos]
  /\ UNCHANGED <<pairs, loop, consumed, reports>>

StartVerifier ==
  /\ loop = "emit"
  /\ pos \notin DOMAIN pairs
  /\ pos' = 1
  /\ loop' = "verify"
  /\ UNCHANGED <<pairs, counter, files, consumed, reports>>

(* A pair without a match is passed over.                                   *)
VerifyPair ==
  /\ loop = "verify"
  /\ pos \in DOMAIN pairs
  /\ pos' = pos + 1
  /\ IF Matches(pos) = {} THEN UNCHANGED <<consumed, reports>>
     ELSE LET n == CHOOSE m \in Matches(pos) : \A l \in Matches(pos) \ {m} : Precedes(m, l)
          IN  /\ consumed' = consumed \cup {n}
              /\ reports' = reports \cup {[pair |-> pos, test |-> n]}
  /\ UNCHANGED <<pairs, loop, counter, files>>

VerifierReturns ==
  /\ loop = "verify"
  /\ pos \notin DOMAIN pairs
  /\ loop' = "done"
  /\ UNCHANGED <<pairs, pos, counter, files, consumed, reports>>

LitmusNext == Emit \/ StartVerifier \/ VerifyPair \/ VerifierReturns

LitmusSpec == LitmusInit /\ [][LitmusNext]_litmusVars

----------------------------------------------------------------------------
(* Properties of naming and storage.                                       *)

LitmusTypeOK ==
  /\ pairs \in PairLists
  /\ pos \in 1..(Len(pairs) + 1)
  /\ loop \in {"emit", "verify", "done"}
  /\ \A k \in DOMAIN counter : counter[k] \in 1..Len(pairs)
  /\ DOMAIN files \subseteq FnNames /\ IsFiniteSet(DOMAIN files)
  /\ \A n \in DOMAIN files : files[n] \in {i \in DOMAIN pairs : ~pairs[i].empty}
  /\ consumed \subseteq DOMAIN files
  /\ \A r \in reports : r.pair \in DOMAIN pairs /\ r.test \in consumed

(* No test is verified for two pairs and no pair with two tests.            *)
VerifiedOnce ==
  \A r, s \in reports : r # s => r.test # s.test /\ r.pair # s.pair
(* Names that can be told apart: different functions have different pair    *)
(* keys, and no partner's name ends in a number.                            *)
Unambiguous ==
  \A i, j \in DOMAIN pairs :
    /\ PairKey(i) = PairKey(j) => pairs[i].fn = pairs[j].fn /\ pairs[i].partner = pairs[j].partner
    /\ Last(pairs[i].pname) >= Word

(* Then the bookkeeping of the two passes agrees, though the second only    *)
(* sees names and comments of the first: every pair with a test is verified *)
(* against its own test, and every test is verified.                        *)
ExactWhenUnambiguous ==
  (loop = "done" /\ Unambiguous) =>
    /\ \A i \in DOMAIN pairs : ~pairs[i].empty =>
         \E n \in DOMAIN files : files[n] = i /\ [pair |-> i, test |-> n] \in reports
    /\ consumed = DOMAIN files

(* Why they hold.  In every case, what has been verified lies behind, and   *)
(* while tests are emitted nothing has.  Where names can be told apart the  *)
(* name of a stored test leads back to its pair's key, by the verifier's    *)
(* rule, and was given before the counter of the key moved on; so no name   *)
(* is given twice, every pair that has been emitted has its own test, and   *)
(* every pair that has been looked at is reported with that.                *)
Behind ==
  /\ loop = "emit" =>
       /\ consumed = {} /\ reports = {}
       /\ \A n \in DOMAIN files : files[n] < pos
       /\ \A k \in DOMAIN counter : counter[k] < pos
  /\ loop = "done" => pos = Len(pairs) + 1
  /\ \A r \in reports : r.pair < pos
Given(n, k) ==
  /\ KeyOf(n) = k /\ k \in DOMAIN counter
  /\ n = k \/ \E c \in 1..(counter[k] - 1) : n = Append(k, c)
Bookkept ==
  /\ \A n \in DOMAIN files : Given(n, PairKey(files[n]))
  /\ \A n, m \in DOMAIN files : files[n] = files[m] => n = m
  /\ \A i \in DOMAIN pairs :
       ~pairs[i].empty /\ (loop = "emit" => i < pos) => \E n \in DOMAIN files : files[n] = i
  /\ \A i \in DOMAIN pairs :
       ~pairs[i].empty /\ loop # "emit" /\ i < pos =>
         \E n \in DOMAIN files : files[n] = i /\ [pair |-> i, test |-> n] \in reports
  /\ \A r \in reports : files[r.test] = r.pair
  /\ consumed = {r.test : r \in reports}
LitmusInv == LitmusTypeOK /\ VerifiedOnce /\ Behind /\ (Unambiguous => Bookkept)

----------------------------------------------------------------------------
(* "Track how many litmus files we've emitted per anchor-function pair to   *)
(* generate unique filenames" (herd7_transpiler.cpp:1264-1265): no test is  *)
(* dropped because its name is taken.                                       *)
FilenamesUnique ==
  loop # "emit" =>
    Cardinality(DOMAIN files) = Cardinality({i \in DOMAIN pairs : ~pairs[i].empty})

(* "for every generated litmus test, re-derive IR facts and check ..."      *)
(* (mbcheck.cpp:89).                                                        *)
EveryTestVerified == loop = "done" => consumed = DOMAIN files

(* A test is checked against the pair it was generated from.                *)
VerifiedAgainstOwnPair == \A r \in reports : files[r.test] = r.pair

============================================================================

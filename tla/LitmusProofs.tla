------------------------------ MODULE LitmusProofs ------------------------------
(****************************************************************************)
(* Proofs about litmus tests, from the pair to the report of a sweep: how   *)
(* one run of mbcheck names test files, stores them and finds them again    *)
(* (Litmus), for every list of pairs and whatever their functions are       *)
(* called; how the sweep counts and judges them (Sweep), for every corpus,  *)
(* every number of workers and every interleaving of their steps; and what  *)
(* a test holds and what its checks say of it (Transpiler, Verifier), for   *)
(* every pair of functions of any length.                                   *)
(****************************************************************************)
EXTENDS Litmus, Sweep, VerifierProps, TLAPS, FiniteSetTheorems, SequenceTheorems, WellFoundedInduction

LEMMA HasMin ==
  ASSUME NEW T, T \subseteq Nat, T # {}
  PROVE  Min(T) \in T /\ \A x \in T : Min(T) <= x
<1> DEFINE R == OpToRel(<, Nat)
<1>1. \E x \in T : \A y \in T : ~(<<y, x>> \in R)
  BY NatLessThanWellFounded, WFMin
<1>2. \A x, y \in Nat : y < x => <<y, x>> \in R
  BY DEF OpToRel
<1> HIDE DEF R
<1>3. \E x \in T : \A y \in T : ~(y < x)
  BY <1>1, <1>2, Zenon
<1>4. \A x, y \in Nat : ~(y < x) => x <= y
  BY SMT
<1>5. \E x \in T : \A y \in T : x <= y
  BY <1>3, <1>4
<1>6. QED
  BY <1>5 DEF Min

----------------------------------------------------------------------------
(* The order of names is total ...                                          *)
LEMMA PrecedesTotal ==
  ASSUME NEW n \in FnNames, NEW m \in FnNames, n # m
  PROVE  Precedes(n, m) \/ Precedes(m, n)
<1>1. /\ Len(n) \in Nat /\ DOMAIN n = 1..Len(n) /\ \A l \in 1..Len(n) : n[l] \in Nat
      /\ Len(m) \in Nat /\ DOMAIN m = 1..Len(m) /\ \A l \in 1..Len(m) : m[l] \in Nat
  BY DEF FnNames, NameParts
<1> DEFINE Parting == {k \in Nat \ {0} : k > Len(n) \/ k > Len(m) \/ n[k] # m[k]}
           k == Min(Parting)
<1>2. k \in Parting /\ \A l \in Parting : k <= l
  <2>1. Len(n) + 1 \in Parting /\ Parting \subseteq Nat
    BY <1>1
  <2> HIDE DEF Parting
  <2>2. QED
    BY <2>1, HasMin
<1>3. k \in Nat \ {0} /\ \A l \in 1..(k - 1) : l \notin Parting
  <2> HIDE DEF k
  <2>1. k \in Nat \ {0}
    BY <1>2
  <2>2. \A l \in 1..(k - 1) : l \in Nat /\ ~(k <= l)
    BY <2>1
  <2> HIDE DEF Parting
  <2>3. QED
    BY <1>2, <2>1, <2>2
<1> HIDE DEF k
<1>4. \A l \in 1..(k - 1) : l \in 1..Len(n) /\ l \in 1..Len(m) /\ n[l] = m[l]
  BY <1>1, <1>3
<1>5. CASE k \in 1..Len(n) /\ k \in 1..Len(m)
  <2>1. n[k] < m[k] \/ m[k] < n[k]
    BY <1>1, <1>2, <1>5
  <2>2. QED
    BY <1>1, <1>4, <1>5, <2>1 DEF Precedes
<1>6. CASE k \notin 1..Len(n) /\ k \in 1..Len(m)
  BY <1>1, <1>4, <1>6 DEF Precedes
<1>7. CASE k \in 1..Len(n) /\ k \notin 1..Len(m)
  BY <1>1, <1>4, <1>7 DEF Precedes
<1>8. CASE k \notin 1..Len(n) /\ k \notin 1..Len(m)
  <2>1. k = 1 \/ k - 1 \in 1..(k - 1)
    BY <1>3
  <2>2. Len(n) = k - 1 /\ Len(m) = k - 1
    BY <1>1, <1>3, <1>4, <1>8, <2>1
  <2>3. n \in Seq(Nat) /\ m \in Seq(Nat) /\ Len(n) = Len(m) /\ \A l \in 1..Len(n) : n[l] = m[l]
    BY <1>1, <1>4, <2>2 DEF FnNames, NameParts
  <2>4. n = m
    BY <2>3
  <2>5. QED
    BY <2>4
<1>9. QED
  BY <1>5, <1>6, <1>7, <1>8

(* ... and transitive: of two places where names part the first decides.    *)
LEMMA PrecedesTransitive ==
  ASSUME NEW a \in FnNames, NEW b \in FnNames, NEW c \in FnNames, Precedes(a, b), Precedes(b, c)
  PROVE  Precedes(a, c)
<1>1. /\ Len(a) \in Nat /\ DOMAIN a = 1..Len(a) /\ \A l \in 1..Len(a) : a[l] \in Nat
      /\ Len(b) \in Nat /\ DOMAIN b = 1..Len(b) /\ \A l \in 1..Len(b) : b[l] \in Nat
      /\ Len(c) \in Nat /\ DOMAIN c = 1..Len(c) /\ \A l \in 1..Len(c) : c[l] \in Nat
  BY DEF FnNames, NameParts
<1>2. PICK j \in 1..Len(b) : /\ \A l \in 1..(j - 1) : l \in 1..Len(a) /\ a[l] = b[l]
                             /\ j \in 1..Len(a) => a[j] < b[j]
  BY <1>1 DEF Precedes
<1>3. PICK k \in 1..Len(c) : /\ \A l \in 1..(k - 1) : l \in 1..Len(b) /\ b[l] = c[l]
                             /\ k \in 1..Len(b) => b[k] < c[k]
  BY <1>1 DEF Precedes
<1>4. CASE j < k
  <2>1. j \in 1..(k - 1) /\ j \in 1..Len(c) /\ \A l \in 1..(j - 1) : l \in 1..(k - 1)
    BY <1>1, <1>4
  <2>2. \A l \in 1..(j - 1) : l \in 1..Len(a) /\ a[l] = c[l]
    BY <1>2, <1>3, <2>1
  <2>3. j \in 1..Len(a) => a[j] < c[j]
    BY <1>2, <1>3, <2>1
  <2>4. QED
    BY <1>1, <2>1, <2>2, <2>3 DEF Precedes
<1>5. CASE j = k
  <2>1. \A l \in 1..(k - 1) : l \in 1..Len(a) /\ a[l] = c[l]
    BY <1>2, <1>3, <1>5
  <2>2. k \in 1..Len(a) => a[k] < c[k]
    BY <1>1, <1>2, <1>3, <1>5
  <2>3. QED
    BY <1>1, <2>1, <2>2 DEF Precedes
<1>6. CASE k < j
  <2>1. k \in 1..(j - 1) /\ k \in 1..Len(b) /\ \A l \in 1..(k - 1) : l \in 1..(j - 1)
    BY <1>1, <1>6
  <2>2. \A l \in 1..(k - 1) : l \in 1..Len(a) /\ a[l] = c[l]
    BY <1>2, <1>3, <2>1
  <2>3. k \in 1..Len(a) => a[k] < c[k]
    BY <1>2, <1>3, <2>1
  <2>4. QED
    BY <1>1, <2>2, <2>3 DEF Precedes
<1>7. QED
  BY <1>1, <1>4, <1>5, <1>6

(* So a finite set of names has a first one: a smallest set without would   *)
(* have one after a name is taken out of it.                                *)
First(m, S) == m \in S /\ \A l \in S \ {m} : Precedes(m, l)
LEMMA HasFirst ==
  ASSUME NEW S, IsFiniteSet(S), S # {}, S \subseteq FnNames
  PROVE  \E m \in S : First(m, S)
<1> DEFINE Bad == {X \in SUBSET S : X # {} /\ ~\E m \in X : First(m, X)}
           Sizes == {n \in Nat : \E X \in Bad : Cardinality(X) = n}
<1>1. CASE Bad = {}
  BY <1>1
<1>2. CASE Bad # {}
  <2>1. \A X \in SUBSET S : IsFiniteSet(X) /\ Cardinality(X) \in Nat
    BY FS_Subset, FS_CardinalityType
  <2>2. Sizes # {}
    BY <1>2, <2>1
  <2>3. Min(Sizes) \in Sizes /\ \A n \in Sizes : Min(Sizes) <= n
    <3> HIDE DEF Sizes
    <3>1. Sizes \subseteq Nat
      BY DEF Sizes
    <3>2. QED
      BY <2>2, <3>1, HasMin
  <2>4. PICK X \in Bad : Cardinality(X) = Min(Sizes)
    BY <2>3
  <2>5. \A Y \in Bad : Cardinality(X) <= Cardinality(Y)
    BY <2>1, <2>3, <2>4
  <2>6. PICK x \in X : TRUE
    OBVIOUS
  <2> DEFINE Y == X \ {x}
  <2>7. Y \in SUBSET S /\ Cardinality(Y) = Cardinality(X) - 1
    BY <2>1, <2>6, FS_RemoveElement
  <2>8. Y \notin Bad
    <3>1. Cardinality(X) \in Nat
      BY <2>1
    <3> HIDE DEF Bad, Y
    <3>2. QED
      BY <2>5, <2>7, <3>1
  <2>9. CASE Y = {}
    <3>1. First(x, X)
      BY <2>6, <2>9 DEF First
    <3>2. QED
      BY <2>6, <3>1
  <2>10. CASE Y # {}
    <3>1. PICK y \in Y : First(y, Y)
      BY <2>7, <2>8, <2>10
    <3>2. x \in FnNames /\ y \in FnNames /\ x # y
      BY <2>6
    <3>3. CASE Precedes(y, x)
      <4>1. First(y, X)
        BY <3>1, <3>3 DEF First
      <4>2. QED
        BY <4>1
    <3>4. CASE Precedes(x, y)
      <4>1. ASSUME NEW l \in X \ {x} PROVE Precedes(x, l)
        <5>1. l = y \/ Precedes(y, l)
          BY <3>1, <4>1 DEF First
        <5>2. l \in FnNames
          BY <4>1
        <5>3. QED
          BY <3>2, <3>4, <5>1, <5>2, PrecedesTransitive
      <4>2. First(x, X)
        BY <2>6, <4>1 DEF First
      <4>3. QED
        BY <2>6, <4>2
    <3>5. QED
      BY <3>2, <3>3, <3>4, PrecedesTotal
  <2>11. QED
    BY <2>9, <2>10
<1>3. QED
  BY <1>1, <1>2

----------------------------------------------------------------------------
(* Names and keys.                                                          *)

LEMMA InputFacts ==
  ASSUME pairs \in PairLists
  PROVE  /\ DOMAIN pairs = 1..Len(pairs) /\ Len(pairs) \in Nat
         /\ \A i \in DOMAIN pairs :
              /\ pairs[i].name \in FnNames /\ pairs[i].pname \in FnNames
              /\ pairs[i].empty \in BOOLEAN /\ Len(pairs) < Word
              /\ \A j \in DOMAIN pairs :
                   i # j /\ pairs[i].fn = pairs[j].fn /\ pairs[i].partner = pairs[j].partner
                     => pairs[i].sig # pairs[j].sig
  BY PairListsAssumption

LEMMA Numbered ==
  ASSUME NEW k \in FnNames, NEW c \in Nat
  PROVE  /\ Append(k, c) \in FnNames /\ Append(k, c) # k
         /\ Last(Append(k, c)) = c /\ Front(Append(k, c)) = k
<1> DEFINE a == Append(k, c)
           f == SubSeq(a, 1, Len(k))
<1>1. k \in Seq(Nat) /\ Len(k) \in Nat
  BY DEF FnNames, NameParts
<1>2. /\ a \in Seq(Nat) /\ Len(a) = Len(k) + 1 /\ a[Len(k) + 1] = c
      /\ \A i \in 1..Len(k) : a[i] = k[i]
  BY <1>1
<1> HIDE DEF a
<1>3. a # k /\ a # <<>>
  BY <1>1, <1>2
<1>4. Last(a) = c
  BY <1>2 DEF Last
<1>5. f = k
  <2> DEFINE N == Len(k)
  <2>1. N \in Nat /\ N - 1 + 1 = N /\ (1 <= N \/ N = 0) /\ \A i \in 1..N : 1 + i - 1 = i
    BY <1>1
  <2>2. \A i \in 1..N : a[i] \in Nat
    BY <1>1, <1>2
  <2> HIDE DEF N
  <2>3. /\ SubSeq(a, 1, N) \in Seq(Nat)
        /\ Len(SubSeq(a, 1, N)) = IF 1 <= N THEN N - 1 + 1 ELSE 0
        /\ \A i \in 1..(N - 1 + 1) : SubSeq(a, 1, N)[i] = a[1 + i - 1]
    BY <2>1, <2>2, SubSeqProperties
  <2>4. f \in Seq(Nat) /\ Len(f) = Len(k) /\ \A i \in 1..Len(k) : f[i] = k[i]
    BY <1>2, <2>1, <2>3 DEF N
  <2> HIDE DEF f
  <2>5. QED
    BY <1>1, <2>4
<1>6. Front(a) = f
  <2>1. Len(a) - 1 = Len(k)
    BY <1>1, <1>2
  <2>2. QED
    BY <2>1 DEF Front
<1>7. QED
  BY <1>2, <1>3, <1>4, <1>5, <1>6 DEF FnNames, NameParts, a

LEMMA KeyFacts ==
  ASSUME pairs \in PairLists, NEW i \in DOMAIN pairs
  PROVE  /\ PairKey(i) \in FnNames
         /\ Last(pairs[i].pname) >= Word => KeyOf(PairKey(i)) = PairKey(i)
<1> DEFINE s == pairs[i].name
           t == pairs[i].pname
           k == s \o t
<1>1. s \in Seq(Nat) /\ t \in Seq(Nat) /\ t # <<>>
  BY InputFacts DEF FnNames, NameParts
<1> HIDE DEF s, t
<1>2. /\ k \in Seq(Nat) /\ Len(k) = Len(s) + Len(t)
      /\ \A j \in 1..(Len(s) + Len(t)) : k[j] = IF j <= Len(s) THEN s[j] ELSE t[j - Len(s)]
  BY <1>1, ConcatProperties, Zenon
<1> HIDE DEF k
<1>3. Len(s) \in Nat /\ Len(t) \in Nat /\ Len(t) # 0
  BY <1>1
<1>4. k # <<>>
  BY <1>2, <1>3
<1>5. Last(k) = Last(t)
  <2>1. /\ Len(k) \in 1..(Len(s) + Len(t)) /\ ~(Len(k) <= Len(s)) /\ Len(k) - Len(s) = Len(t)
    BY <1>2, <1>3
  <2>2. k[Len(k)] = t[Len(t)]
    BY <1>2, <2>1
  <2>3. QED
    BY <2>2 DEF Last
<1>6. Last(t) \in Nat
  BY <1>1, <1>3 DEF Last
<1>7. Last(t) >= Word => KeyOf(k) = k
  BY <1>5, <1>6, WordAssumption DEF KeyOf
<1>8. k \in FnNames
  BY <1>2, <1>4 DEF FnNames, NameParts
<1>9. PairKey(i) = k
  BY DEF PairKey, k, s, t
<1>10. QED
  BY <1>7, <1>8, <1>9 DEF t

(* The name of the next test of a pair.                                     *)
LEMMA NameFacts ==
  ASSUME LitmusTypeOK, NEW i \in DOMAIN pairs
  PROVE  /\ Count(PairKey(i)) \in 0..Len(pairs)
         /\ Count(PairKey(i)) # 0 <=> PairKey(i) \in DOMAIN counter
         /\ TestName(i) \in FnNames
<1>1. PairKey(i) \in FnNames /\ Len(pairs) \in Nat
  BY KeyFacts, InputFacts DEF LitmusTypeOK
<1>2. /\ Count(PairKey(i)) \in 0..Len(pairs)
      /\ Count(PairKey(i)) # 0 <=> PairKey(i) \in DOMAIN counter
  BY <1>1 DEF LitmusTypeOK, Count
<1>3. TestName(i) \in FnNames
  <2>1. Count(PairKey(i)) \in Nat
    BY <1>1, <1>2
  <2>2. QED
    BY <1>1, <2>1, Numbered DEF TestName
<1>4. QED
  BY <1>2, <1>3

(* Where names can be told apart, the verifier finds for a pair what is     *)
(* stored for it and nothing else.                                          *)
LEMMA OwnTestOnly ==
  ASSUME LitmusTypeOK, Unambiguous, Bookkept, NEW i \in DOMAIN pairs
  PROVE  Matches(i) = {n \in DOMAIN files \ consumed : files[n] = i}
<1>1. SUFFICES ASSUME NEW n \in DOMAIN files
               PROVE  (KeyOf(n) = PairKey(i) /\ pairs[files[n]].sig = pairs[i].sig) <=> files[n] = i
  BY DEF Matches
<1>2. files[n] \in DOMAIN pairs /\ KeyOf(n) = PairKey(files[n])
  BY DEF LitmusTypeOK, Bookkept, Given
<1>3. ASSUME KeyOf(n) = PairKey(i), pairs[files[n]].sig = pairs[i].sig PROVE files[n] = i
  <2>1. pairs[files[n]].fn = pairs[i].fn /\ pairs[files[n]].partner = pairs[i].partner
    BY <1>2, <1>3 DEF Unambiguous
  <2>2. QED
    BY <1>2, <1>3, <2>1, InputFacts DEF LitmusTypeOK
<1>4. QED
  BY <1>2, <1>3

----------------------------------------------------------------------------
(* The steps.                                                               *)

LEMMA LitmusStarts == LitmusInit => LitmusInv
<1> SUFFICES ASSUME LitmusInit PROVE LitmusInv
  OBVIOUS
<1>1. /\ pairs \in PairLists /\ pos = 1 /\ loop = "emit" /\ consumed = {} /\ reports = {}
      /\ DOMAIN counter = {} /\ DOMAIN files = {} /\ Len(pairs) \in Nat
  BY InputFacts DEF LitmusInit
<1>2. LitmusTypeOK
  BY <1>1, FS_EmptySet DEF LitmusTypeOK
<1>3. VerifiedOnce /\ Behind
  BY <1>1 DEF VerifiedOnce, Behind
<1>4. Bookkept
  <2>1. \A i \in DOMAIN pairs : ~(i < pos)
    BY <1>1, InputFacts
  <2>2. QED
    BY <1>1, <2>1 DEF Bookkept
<1>5. QED
  BY <1>2, <1>3, <1>4 DEF LitmusInv

(* A test is stored under a name of its own, or its name is taken.          *)
LEMMA EmitStep ==
  ASSUME LitmusInv, Emit
  PROVE  LitmusInv'
<1> DEFINE k == PairKey(pos)
           n == TestName(pos)
<1>1. /\ loop = "emit" /\ pos \in DOMAIN pairs /\ pos' = pos + 1
      /\ pairs' = pairs /\ loop' = loop /\ consumed' = consumed /\ reports' = reports
  BY DEF Emit
<1>2. /\ pairs \in PairLists /\ Len(pairs) \in Nat /\ pos \in 1..Len(pairs) /\ Len(pairs) < Word
      /\ pos' \in 1..(Len(pairs) + 1)
      /\ consumed = {} /\ reports = {}
      /\ \A x \in DOMAIN files : files[x] < pos
      /\ \A x \in DOMAIN counter : counter[x] < pos
  BY <1>1, InputFacts DEF LitmusInv, LitmusTypeOK, Behind
<1>3. \A i : PairKey(i)' = PairKey(i)
  BY <1>1 DEF PairKey
<1>4. Unambiguous' = Unambiguous
  BY <1>1, <1>3 DEF Unambiguous
<1>5. CASE pairs[pos].empty
  <2>1. counter' = counter /\ files' = files
    BY <1>5 DEF Emit
  <2>2. LitmusTypeOK'
    BY <1>1, <1>2, <2>1 DEF LitmusInv, LitmusTypeOK
  <2>3. VerifiedOnce' /\ Behind'
    <3>1. \A x \in Int : x < pos => x < pos'
      BY <1>1, <1>2
    <3>2. \A x \in DOMAIN files : files[x] \in Int
      BY InputFacts DEF LitmusInv, LitmusTypeOK
    <3>3. \A x \in DOMAIN counter : counter[x] \in Int
      BY <1>2 DEF LitmusInv, LitmusTypeOK
    <3>4. QED
      BY <1>1, <1>2, <2>1, <3>1, <3>2, <3>3 DEF VerifiedOnce, Behind
  <2>4. ASSUME Unambiguous' PROVE Bookkept'
    <3>1. Bookkept
      BY <1>4, <2>4 DEF LitmusInv
    <3>2. \A i \in DOMAIN pairs : i < pos' => i < pos \/ i = pos
      BY <1>1, <1>2, InputFacts
    <3>3. \A i \in DOMAIN pairs : ~pairs[i].empty /\ i < pos' => \E x \in DOMAIN files : files[x] = i
      BY <1>1, <1>5, <3>1, <3>2 DEF Bookkept
    <3>4. \A x \in DOMAIN files : Given(x, PairKey(files[x]))'
      BY <1>3, <2>1, <3>1 DEF Bookkept, Given
    <3>5. QED
      BY <1>1, <2>1, <3>1, <3>3, <3>4 DEF Bookkept
  <2>5. QED
    BY <2>2, <2>3, <2>4 DEF LitmusInv
<1>6. CASE ~pairs[pos].empty
  <2>1. /\ counter' = [x \in DOMAIN counter \cup {k} |-> IF x = k THEN Count(k) + 1 ELSE counter[x]]
        /\ files' = [x \in DOMAIN files \cup {n} |-> IF x \in DOMAIN files THEN files[x] ELSE pos]
    BY <1>6 DEF Emit
  <2>2. /\ k \in FnNames /\ n \in FnNames /\ Count(k) \in 0..Len(pairs)
        /\ Count(k) # 0 <=> k \in DOMAIN counter
    BY <1>1, KeyFacts, NameFacts DEF LitmusInv, LitmusTypeOK
  <2>3. n = IF Count(k) = 0 THEN k ELSE Append(k, Count(k))
    BY DEF TestName
  <2>4. Count(k) < pos /\ (k \in DOMAIN counter => counter[k] = Count(k))
    BY <1>2, <2>2 DEF Count
  <2> HIDE DEF k, n
  <2>5. /\ DOMAIN counter' = DOMAIN counter \cup {k}
        /\ counter'[k] = Count(k) + 1
        /\ \A x \in DOMAIN counter \ {k} : counter'[x] = counter[x]
    BY <2>1
  <2>6. /\ DOMAIN files' = DOMAIN files \cup {n}
        /\ \A x \in DOMAIN files : files'[x] = files[x]
        /\ n \notin DOMAIN files => files'[n] = pos
    BY <2>1
  <2>7. \A x \in DOMAIN counter' : counter'[x] \in 1..Len(pairs) /\ counter'[x] < pos'
    <3>1. Count(k) + 1 \in 1..Len(pairs) /\ Count(k) + 1 < pos'
      BY <1>1, <1>2, <2>2, <2>4
    <3>2. ASSUME NEW x \in DOMAIN counter PROVE counter[x] \in 1..Len(pairs) /\ counter[x] < pos'
      <4>1. counter[x] \in 1..Len(pairs) /\ counter[x] < pos
        BY <1>2 DEF LitmusInv, LitmusTypeOK
      <4>2. QED
        BY <1>1, <1>2, <4>1
    <3>3. QED
      BY <2>5, <3>1, <3>2
  <2>8. \A x \in DOMAIN files' : /\ files'[x] \in {i \in DOMAIN pairs : ~pairs[i].empty}
                                 /\ files'[x] < pos'
    <3>1. \A x \in DOMAIN files : files[x] \in {i \in DOMAIN pairs : ~pairs[i].empty}
      BY DEF LitmusInv, LitmusTypeOK
    <3>2. \A i \in DOMAIN pairs : i < pos \/ i = pos => i < pos'
      BY <1>1, <1>2, InputFacts
    <3>3. QED
      BY <1>1, <1>2, <1>6, <2>6, <3>1, <3>2
  <2>9. LitmusTypeOK'
    <3>1. DOMAIN files' \subseteq FnNames /\ IsFiniteSet(DOMAIN files')
      BY <2>2, <2>6, FS_AddElement DEF LitmusInv, LitmusTypeOK
    <3>2. QED
      BY <1>1, <1>2, <2>7, <2>8, <3>1 DEF LitmusInv, LitmusTypeOK
  <2>10. VerifiedOnce' /\ Behind'
    BY <1>1, <1>2, <2>7, <2>8 DEF VerifiedOnce, Behind
  <2>11. ASSUME Unambiguous' PROVE Bookkept'
    <3>1. Bookkept /\ Unambiguous
      BY <1>4, <2>11 DEF LitmusInv
    <3>2. KeyOf(k) = k
      BY <1>1, <1>2, <3>1, KeyFacts DEF Unambiguous, k
    <3>3. /\ KeyOf(n) = k /\ k \in DOMAIN counter'
          /\ n = k \/ \E c \in 1..(counter'[k] - 1) : n = Append(k, c)
      <4>1. CASE Count(k) = 0
        BY <2>3, <2>5, <3>2, <4>1
      <4>2. CASE Count(k) # 0
        <5>1. Count(k) \in Nat /\ Count(k) < Word /\ n = Append(k, Count(k))
          BY <1>2, <2>2, <2>3, <2>4, <4>2, WordAssumption
        <5>2. KeyOf(n) = k
          BY <2>2, <5>1, Numbered DEF KeyOf
        <5>3. Count(k) \in 1..(counter'[k] - 1)
          BY <2>2, <2>5, <4>2
        <5>4. QED
          BY <2>5, <5>1, <5>2, <5>3
      <4>3. QED
        BY <4>1, <4>2
    <3>4. ASSUME NEW x \in DOMAIN files PROVE Given(x, PairKey(files[x]))'
      <4> DEFINE q == PairKey(files[x])
      <4>1. /\ KeyOf(x) = q /\ q \in DOMAIN counter
            /\ x = q \/ \E c \in 1..(counter[q] - 1) : x = Append(q, c)
        BY <3>1 DEF Bookkept, Given
      <4>2. PairKey(files[x])' = q
        BY <1>3, <2>6
      <4> HIDE DEF q
      <4>3. counter[q] \in Nat /\ counter'[q] \in Nat /\ counter[q] <= counter'[q]
        <5>1. counter[q] \in 1..Len(pairs)
          BY <4>1 DEF LitmusInv, LitmusTypeOK
        <5>2. counter'[q] = counter[q] \/ counter'[q] = counter[q] + 1
          BY <2>4, <2>5, <4>1
        <5>3. QED
          BY <1>2, <5>1, <5>2
      <4>4. \A c \in 1..(counter[q] - 1) : c \in 1..(counter'[q] - 1)
        BY <4>3
      <4>5. q \in DOMAIN counter'
        BY <2>5, <4>1
      <4>6. x = q \/ \E c \in 1..(counter'[q] - 1) : x = Append(q, c)
        BY <4>1, <4>4
      <4>7. QED
        BY <4>1, <4>2, <4>5, <4>6 DEF Given
    <3>5. n \notin DOMAIN files
      <4>1. SUFFICES ASSUME n \in DOMAIN files PROVE FALSE
        OBVIOUS
      <4>2. /\ KeyOf(n) = PairKey(files[n]) /\ PairKey(files[n]) \in DOMAIN counter
            /\ n = PairKey(files[n]) \/ \E c \in 1..(counter[PairKey(files[n])] - 1) : n = Append(PairKey(files[n]), c)
        BY <3>1, <4>1 DEF Bookkept, Given
      <4>3. KeyOf(n) = k
        BY <3>3
      <4>4. k \in DOMAIN counter /\ (n = k \/ \E c \in 1..(counter[k] - 1) : n = Append(k, c))
        BY <4>2, <4>3
      <4>5. Count(k) # 0 /\ Count(k) \in Nat /\ counter[k] = Count(k) /\ n = Append(k, Count(k))
        BY <2>2, <2>3, <2>4, <4>4
      <4>6. n # k
        BY <2>2, <4>5, Numbered
      <4>7. PICK c \in 1..(Count(k) - 1) : n = Append(k, c)
        BY <4>4, <4>5, <4>6
      <4>8. c \in Nat /\ c # Count(k)
        BY <4>5
      <4>9. Last(n) = c /\ Last(n) = Count(k)
        BY <2>2, <4>5, <4>7, <4>8, Numbered
      <4>10. QED
        BY <4>8, <4>9
    <3>6. files'[n] = pos /\ \A x \in DOMAIN files : files'[x] = files[x] /\ files[x] < pos
      BY <1>2, <2>6, <3>5
    <3>7. \A x \in DOMAIN files' : Given(x, PairKey(files[x]))'
      <4>1. ASSUME NEW x \in DOMAIN files', x = n PROVE Given(x, PairKey(files[x]))'
        <5>1. PairKey(files[x])' = k
          BY <1>1, <3>6, <4>1 DEF PairKey, k
        <5>2. QED
          BY <3>3, <4>1, <5>1 DEF Given
      <4>2. QED
        BY <2>6, <3>4, <4>1
    <3>8. \A x, y \in DOMAIN files' : files'[x] = files'[y] => x = y
      <4>1. \A x \in DOMAIN files : files'[x] # pos
        BY <1>2, <3>6
      <4>2. QED
        BY <2>6, <3>1, <3>6, <4>1 DEF Bookkept
    <3>9. ASSUME NEW i \in DOMAIN pairs, ~pairs[i].empty, i < pos'
          PROVE  \E x \in DOMAIN files' : files'[x] = i
      <4>1. CASE i = pos
        BY <2>6, <3>6, <4>1
      <4>2. CASE i < pos
        <5>1. PICK x \in DOMAIN files : files[x] = i
          BY <3>1, <3>9, <4>2 DEF Bookkept
        <5>2. QED
          BY <2>6, <5>1
      <4>3. QED
        BY <1>1, <1>2, <3>9, <4>1, <4>2, InputFacts
    <3>10. QED
      BY <1>1, <1>2, <3>7, <3>8, <3>9 DEF Bookkept
  <2>12. QED
    BY <2>9, <2>10, <2>11 DEF LitmusInv
<1>7. QED
  BY <1>5, <1>6

LEMMA StartVerifierStep ==
  ASSUME LitmusInv, StartVerifier
  PROVE  LitmusInv'
<1>1. /\ loop = "emit" /\ pos \notin DOMAIN pairs /\ pos' = 1 /\ loop' = "verify"
      /\ pairs' = pairs /\ counter' = counter /\ files' = files /\ consumed' = consumed /\ reports' = reports
  BY DEF StartVerifier
<1>2. /\ DOMAIN pairs = 1..Len(pairs) /\ Len(pairs) \in Nat /\ pos \in 1..(Len(pairs) + 1)
      /\ consumed = {} /\ reports = {}
  BY <1>1, InputFacts DEF LitmusInv, LitmusTypeOK, Behind
<1>3. /\ \A i \in DOMAIN pairs : i < pos /\ ~(i < 1)
      /\ 1 \in 1..(Len(pairs) + 1)
  BY <1>1, <1>2
<1>4. LitmusTypeOK'
  BY <1>1, <1>3 DEF LitmusInv, LitmusTypeOK
<1>5. VerifiedOnce' /\ Behind'
  BY <1>1, <1>2 DEF VerifiedOnce, Behind
<1>6. ASSUME Unambiguous' PROVE Bookkept'
  <2>1. Bookkept
    BY <1>1, <1>6 DEF LitmusInv, Unambiguous, PairKey
  <2>2. \A x \in DOMAIN files : Given(x, PairKey(files[x]))'
    BY <1>1, <2>1 DEF Bookkept, Given, PairKey
  <2>3. QED
    BY <1>1, <1>2, <1>3, <2>1, <2>2 DEF Bookkept
<1>7. QED
  BY <1>4, <1>5, <1>6 DEF LitmusInv

(* The test matched is one of the matches, in every case: there is a first. *)
LEMMA VerifyStep ==
  ASSUME LitmusInv, VerifyPair
  PROVE  LitmusInv'
<1> DEFINE n == CHOOSE m \in Matches(pos) : \A l \in Matches(pos) \ {m} : Precedes(m, l)
           r == [pair |-> pos, test |-> n]
<1>1. /\ loop = "verify" /\ pos \in DOMAIN pairs /\ pos' = pos + 1
      /\ pairs' = pairs /\ loop' = loop /\ counter' = counter /\ files' = files
  BY DEF VerifyPair
<1>2. /\ DOMAIN pairs = 1..Len(pairs) /\ Len(pairs) \in Nat /\ pos \in 1..Len(pairs)
      /\ pos' \in 1..(Len(pairs) + 1)
      /\ \A i \in DOMAIN pairs : i < pos' <=> i < pos \/ i = pos
  <2>1. DOMAIN pairs = 1..Len(pairs) /\ Len(pairs) \in Nat
    BY InputFacts DEF LitmusInv, LitmusTypeOK
  <2>2. QED
    BY <1>1, <2>1
<1>3. Unambiguous' = Unambiguous /\ (\A x \in DOMAIN files : Given(x, PairKey(files[x]))' = Given(x, PairKey(files[x])))
  BY <1>1 DEF Unambiguous, PairKey, Given
<1>4. \A s \in reports : s.pair < pos /\ s.pair \in DOMAIN pairs /\ s.test \in consumed
  BY DEF LitmusInv, LitmusTypeOK, Behind
<1>5. CASE Matches(pos) = {}
  <2>1. consumed' = consumed /\ reports' = reports
    BY <1>5 DEF VerifyPair
  <2>2. LitmusTypeOK'
    BY <1>1, <1>2, <2>1 DEF LitmusInv, LitmusTypeOK
  <2>3. VerifiedOnce' /\ Behind'
    BY <1>1, <1>2, <1>4, <2>1 DEF LitmusInv, VerifiedOnce, Behind
  <2>4. ASSUME Unambiguous' PROVE Bookkept'
    <3>1. Unambiguous /\ Bookkept
      BY <1>3, <2>4 DEF LitmusInv
    <3>2. ~pairs[pos].empty => \E x \in DOMAIN files \ consumed : files[x] = pos
      <4>1. \A x \in consumed : files[x] < pos
        BY <1>4, <3>1 DEF Bookkept
      <4>2. \A x \in consumed : files[x] # pos
        BY <1>2, <4>1
      <4>3. QED
        BY <1>1, <3>1, <4>2 DEF Bookkept
    <3>3. pairs[pos].empty \/ FALSE
      BY <1>1, <1>5, <3>1, <3>2, OwnTestOnly DEF LitmusInv
    <3>4. QED
      BY <1>1, <1>2, <1>3, <2>1, <3>1, <3>3 DEF Bookkept
  <2>5. QED
    BY <2>2, <2>3, <2>4 DEF LitmusInv
<1>6. CASE Matches(pos) # {}
  <2>1. consumed' = consumed \cup {n} /\ reports' = reports \cup {r}
    BY <1>6 DEF VerifyPair
  <2>2. n \in DOMAIN files \ consumed /\ n \in Matches(pos)
    <3>1. Matches(pos) \subseteq DOMAIN files \ consumed
      BY DEF Matches
    <3>2. Matches(pos) \subseteq FnNames /\ IsFiniteSet(Matches(pos))
      BY <3>1, FS_Subset DEF LitmusInv, LitmusTypeOK
    <3>3. \E m \in Matches(pos) : First(m, Matches(pos))
      BY <1>6, <3>2, HasFirst
    <3>4. \E m \in Matches(pos) : \A l \in Matches(pos) \ {m} : Precedes(m, l)
      BY <3>3 DEF First
    <3>5. n \in Matches(pos)
      BY <3>4
    <3>6. QED
      BY <3>1, <3>5
  <2> HIDE DEF n
  <2>3. r.pair = pos /\ r.test = n /\ r \notin reports
    BY <1>2, <1>4
  <2> HIDE DEF r
  <2>4. LitmusTypeOK'
    <3>1. \A s \in reports' : s.pair \in DOMAIN pairs /\ s.test \in consumed'
      BY <1>1, <1>4, <2>1, <2>3
    <3>2. QED
      BY <1>1, <1>2, <2>1, <2>2, <3>1 DEF LitmusInv, LitmusTypeOK
  <2>5. VerifiedOnce'
    <3>1. \A s \in reports : s.test # r.test /\ s.pair # r.pair
      BY <1>2, <1>4, <2>2, <2>3
    <3>2. QED
      BY <2>1, <3>1 DEF LitmusInv, VerifiedOnce
  <2>6. Behind'
    BY <1>1, <1>2, <1>4, <2>1, <2>3 DEF LitmusInv, Behind
  <2>7. ASSUME Unambiguous' PROVE Bookkept'
    <3>1. Unambiguous /\ Bookkept
      BY <1>3, <2>7 DEF LitmusInv
    <3>2. files[n] = pos
      BY <1>1, <2>2, <3>1, OwnTestOnly DEF LitmusInv
    <3>3. ASSUME NEW i \in DOMAIN pairs, ~pairs[i].empty, i < pos'
          PROVE  \E x \in DOMAIN files : files[x] = i /\ [pair |-> i, test |-> x] \in reports'
      <4>1. CASE i = pos
        BY <2>1, <2>2, <3>2, <4>1 DEF r
      <4>2. CASE i < pos
        BY <1>1, <2>1, <3>1, <3>3, <4>2 DEF Bookkept
      <4>3. QED
        BY <1>2, <3>3, <4>1, <4>2
    <3>4. \A s \in reports' : files[s.test] = s.pair
      BY <2>1, <2>3, <3>1, <3>2 DEF Bookkept
    <3>5. consumed' = {s.test : s \in reports'}
      BY <2>1, <2>3, <3>1 DEF Bookkept
    <3>6. QED
      BY <1>1, <1>3, <3>1, <3>3, <3>4, <3>5 DEF Bookkept
  <2>8. QED
    BY <2>4, <2>5, <2>6, <2>7 DEF LitmusInv
<1>7. QED
  BY <1>5, <1>6

LEMMA VerifierReturnsStep ==
  ASSUME LitmusInv, VerifierReturns
  PROVE  LitmusInv'
<1>1. /\ loop = "verify" /\ pos \notin DOMAIN pairs /\ loop' = "done" /\ pos' = pos
      /\ pairs' = pairs /\ counter' = counter /\ files' = files /\ consumed' = consumed /\ reports' = reports
  BY DEF VerifierReturns
<1>2. pos = Len(pairs) + 1
  <2>1. DOMAIN pairs = 1..Len(pairs) /\ Len(pairs) \in Nat /\ pos \in 1..(Len(pairs) + 1)
    BY InputFacts DEF LitmusInv, LitmusTypeOK
  <2>2. QED
    BY <1>1, <2>1
<1>3. LitmusTypeOK'
  BY <1>1 DEF LitmusInv, LitmusTypeOK
<1>4. VerifiedOnce' /\ Behind'
  BY <1>1, <1>2 DEF LitmusInv, VerifiedOnce, Behind
<1>5. ASSUME Unambiguous' PROVE Bookkept'
  <2>1. Bookkept
    BY <1>1, <1>5 DEF LitmusInv, Unambiguous, PairKey
  <2>2. \A x \in DOMAIN files : Given(x, PairKey(files[x]))'
    BY <1>1, <2>1 DEF Bookkept, Given, PairKey
  <2>3. QED
    BY <1>1, <2>1, <2>2 DEF Bookkept
<1>6. QED
  BY <1>3, <1>4, <1>5 DEF LitmusInv

(* Whatever the names: no test is verified for two pairs and no pair with   *)
(* two tests.  Where they can be told apart the bookkeeping is exact.       *)
THEOREM LitmusInvariant == LitmusSpec => []LitmusInv
<1>1. LitmusInv /\ [LitmusNext]_litmusVars => LitmusInv'
  <2> SUFFICES ASSUME LitmusInv, [LitmusNext]_litmusVars PROVE LitmusInv'
    OBVIOUS
  <2>1. CASE UNCHANGED litmusVars
    <3>1. /\ pairs' = pairs /\ pos' = pos /\ loop' = loop /\ counter' = counter /\ files' = files
          /\ consumed' = consumed /\ reports' = reports
      BY <2>1 DEF litmusVars
    <3>2. LitmusTypeOK' /\ VerifiedOnce' /\ Behind'
      BY <3>1 DEF LitmusInv, LitmusTypeOK, VerifiedOnce, Behind
    <3>3. ASSUME Unambiguous' PROVE Bookkept'
      <4>1. Bookkept
        BY <3>1, <3>3 DEF LitmusInv, Unambiguous, PairKey
      <4>2. \A x \in DOMAIN files : Given(x, PairKey(files[x]))'
        BY <3>1, <4>1 DEF Bookkept, Given, PairKey
      <4>3. QED
        BY <3>1, <4>1, <4>2 DEF Bookkept
    <3>4. QED
      BY <3>2, <3>3 DEF LitmusInv
  <2>2. QED
    BY <2>1, EmitStep, StartVerifierStep, VerifyStep, VerifierReturnsStep DEF LitmusNext
<1>2. QED
  BY <1>1, LitmusStarts, PTL DEF LitmusSpec

(* Where names can be told apart, every pair with a test is verified        *)
(* against its own test, and every test is verified.                        *)
THEOREM OwnTestVerified == LitmusSpec => []ExactWhenUnambiguous
<1>1. ASSUME LitmusInv, loop = "done", Unambiguous
      PROVE  /\ \A i \in DOMAIN pairs : ~pairs[i].empty =>
                  \E n \in DOMAIN files : files[n] = i /\ [pair |-> i, test |-> n] \in reports
             /\ consumed = DOMAIN files
  <2>1. Bookkept /\ \A i \in DOMAIN pairs : i < pos
    <3>1. DOMAIN pairs = 1..Len(pairs) /\ Len(pairs) \in Nat /\ pos = Len(pairs) + 1
      BY <1>1, InputFacts DEF LitmusInv, LitmusTypeOK, Behind
    <3>2. QED
      BY <1>1, <3>1 DEF LitmusInv
  <2>2. \A i \in DOMAIN pairs : ~pairs[i].empty =>
          \E n \in DOMAIN files : files[n] = i /\ [pair |-> i, test |-> n] \in reports
    BY <1>1, <2>1 DEF Bookkept
  <2>3. ASSUME NEW n \in DOMAIN files PROVE n \in consumed
    <3>1. files[n] \in DOMAIN pairs /\ ~pairs[files[n]].empty
      BY <1>1 DEF LitmusInv, LitmusTypeOK
    <3>2. PICK m \in DOMAIN files : files[m] = files[n] /\ [pair |-> files[n], test |-> m] \in reports
      BY <2>2, <3>1
    <3>3. m = n
      BY <2>1, <3>2 DEF Bookkept
    <3>4. [pair |-> files[n], test |-> m].test = m
      OBVIOUS
    <3>5. QED
      BY <2>1, <3>2, <3>3, <3>4 DEF Bookkept
  <2>4. consumed \subseteq DOMAIN files
    BY <1>1 DEF LitmusInv, LitmusTypeOK
  <2>5. QED
    BY <2>2, <2>3, <2>4
<1>2. LitmusInv => ExactWhenUnambiguous
  BY <1>1 DEF ExactWhenUnambiguous
<1>3. QED
  BY <1>2, LitmusInvariant, PTL

----------------------------------------------------------------------------
(* The sweep.                                                               *)

Stages == {"queued", "summary", "litmus", "validate", "returned", "raised"}

LEMMA CorpusSets ==
  ASSUME TypeOK
  PROVE  /\ corpus.litmus \in [Modules -> SUBSET Names]
         /\ corpus.stale \subseteq Names
         /\ corpus.limit \in Nat
  BY CorporaAssumption DEF TypeOK

LEMMA InitInv == Init => SInv
<1> SUFFICES ASSUME Init PROVE SInv
  OBVIOUS
<1>1. corpus.stale \subseteq Names /\ corpus.limit \in Nat
  BY CorporaAssumption DEF Init
<1>2. TypeOK
  BY <1>1 DEF Init, TypeOK
<1>3. DiskOK
  BY <1>1 DEF Init, DiskOK
<1>4. Validated
  BY SizeAssumption DEF Init, Validated, Modules
<1>5. QED
  BY <1>2, <1>3, <1>4 DEF SInv

(* The corpus stays, and the directories with it.                           *)
LEMMA SameDirectories ==
  ASSUME [Next]_vars
  PROVE  corpus' = corpus /\ (\A m : SubName(m)' = SubName(m))
<1>1. corpus' = corpus
  BY DEF Next, Task, Start, Summary, Write, List, Validate, Return, Collect, Report, Exit, vars
<1>2. QED
  BY <1>1 DEF SubName

----------------------------------------------------------------------------
(* Steps of a task.                                                         *)

LEMMA StartStep ==
  ASSUME SInv, [Next]_vars, NEW m \in Modules, Start(m)
  PROVE  SInv'
<1>1. /\ stage[m] = "queued" /\ stage' = [stage EXCEPT ![m] = "summary"]
      /\ UNCHANGED <<corpus, code, pending, disk, listed, verdicts, budget, results, main>>
  BY DEF Start
<1>2. TypeOK'
  BY <1>1 DEF SInv, TypeOK
<1>3. DiskOK'
  BY <1>1, SameDirectories DEF SInv, TypeOK, DiskOK, FilesIn
<1>4. Validated'
  BY <1>1 DEF SInv, TypeOK, Validated, ToValidate
<1>5. QED
  BY <1>2, <1>3, <1>4 DEF SInv

LEMMA SummaryStep ==
  ASSUME SInv, [Next]_vars, NEW m \in Modules, Summary(m)
  PROVE  SInv'
<1>1. /\ stage[m] = "summary"
      /\ UNCHANGED <<corpus, disk, listed, verdicts, budget, results, main>>
  BY DEF Summary
<1>2. PICK c \in {"ok", "failed", "timeout"}, s \in {corpus.litmus[m], {}}, t \in {"litmus", "raised"} :
        /\ code' = [code EXCEPT ![m] = c]
        /\ stage' = [stage EXCEPT ![m] = IF s = {} THEN "returned" ELSE t]
        /\ pending' = [pending EXCEPT ![m] = s]
  BY DEF Summary
<1>3. s \subseteq Names
  BY CorpusSets DEF SInv
<1>4. TypeOK'
  BY <1>1, <1>2, <1>3 DEF SInv, TypeOK
<1>5. listed[m] = {} /\ verdicts[m] = {}
  BY <1>1 DEF SInv, DiskOK
<1>6. stage \in [Modules -> Stages] /\ stage'[m] \in {"returned", "litmus", "raised"}
      /\ \A k \in Modules \ {m} : stage'[k] = stage[k]
  BY <1>2 DEF SInv, TypeOK, Stages
<1>7. DiskOK'
  BY <1>1, <1>5, <1>6, SameDirectories DEF SInv, DiskOK, FilesIn
<1>8. Validated'
  BY <1>1, <1>5, <1>6 DEF SInv, TypeOK, Validated, ToValidate
<1>9. QED
  BY <1>4, <1>7, <1>8 DEF SInv

(* A file that is written again stays there under its name.                 *)
LEMMA WriteStep ==
  ASSUME SInv, [Next]_vars, NEW m \in Modules, Write(m)
  PROVE  SInv'
<1>1. /\ stage[m] = "litmus"
      /\ UNCHANGED <<corpus, stage, code, listed, verdicts, budget, results, main>>
  BY DEF Write
<1>2. PICK n \in pending[m] :
        /\ disk' = {f \in disk : ~(f.dir = SubName(m) /\ f.name = n)}
                     \cup {[dir |-> SubName(m), name |-> n, by |-> m]}
        /\ pending' = [pending EXCEPT ![m] = @ \ {n}]
  BY DEF Write
<1>3. n \in Names
  BY DEF SInv, TypeOK
<1>4. TypeOK'
  BY <1>1, <1>2 DEF SInv, TypeOK
<1>5. \A d : FilesIn(d) \subseteq FilesIn(d)'
  <2>1. SUFFICES ASSUME NEW d, NEW f \in disk, f.dir = d
                 PROVE  \E g \in disk' : g.dir = d /\ g.name = f.name
    BY DEF FilesIn
  <2> DEFINE new == [dir |-> SubName(m), name |-> n, by |-> m]
  <2>2. CASE f.dir = SubName(m) /\ f.name = n
    <3>1. new \in disk' /\ new.dir = d /\ new.name = f.name
      BY <1>2, <2>1, <2>2
    <3>2. QED
      BY <3>1
  <2>3. CASE ~(f.dir = SubName(m) /\ f.name = n)
    BY <1>2, <2>1, <2>3
  <2>4. QED
    BY <2>2, <2>3
<1>6. \A f \in disk' : f.name \in Names /\ f.by \in Modules \cup {0}
  BY <1>2, <1>3 DEF SInv, DiskOK
<1>7. DiskOK'
  <2>1. \A k \in Modules :
          IF stage[k] \in {"validate", "returned"}
          THEN listed[k] \subseteq FilesIn(SubName(k))'
          ELSE listed[k] = {} /\ verdicts[k] = {}
    BY <1>5, SameDirectories DEF SInv, DiskOK
  <2>2. QED
    BY <1>1, <1>6, <2>1 DEF DiskOK
<1>8. Validated'
  BY <1>1 DEF SInv, Validated, ToValidate
<1>9. QED
  BY <1>4, <1>7, <1>8 DEF SInv

LEMMA ListStep ==
  ASSUME SInv, [Next]_vars, NEW m \in Modules, List(m)
  PROVE  SInv'
<1>1. /\ stage[m] = "litmus" /\ stage' = [stage EXCEPT ![m] = "validate"]
      /\ listed' = [listed EXCEPT ![m] = FilesIn(SubName(m))]
      /\ UNCHANGED <<corpus, code, pending, disk, verdicts, budget, results, main>>
  BY DEF List
<1>2. FilesIn(SubName(m)) \subseteq Names
  BY DEF SInv, DiskOK, FilesIn
<1>3. verdicts[m] = {}
  BY <1>1 DEF SInv, DiskOK
<1>4. TypeOK'
  BY <1>1, <1>2, <1>3 DEF SInv, TypeOK
<1>5. /\ stage \in [Modules -> Stages] /\ stage'[m] = "validate"
      /\ listed'[m] = FilesIn(SubName(m))
      /\ \A k \in Modules \ {m} : stage'[k] = stage[k] /\ listed'[k] = listed[k]
  BY <1>1 DEF SInv, TypeOK, Stages
<1>6. DiskOK'
  BY <1>1, <1>5, SameDirectories DEF SInv, DiskOK, FilesIn
<1>7. Validated'
  BY <1>1, <1>5 DEF SInv, TypeOK, Validated, ToValidate
<1>8. QED
  BY <1>4, <1>6, <1>7 DEF SInv

(* The budget of a limited sweep stays at zero once it is there.            *)
LEMMA ValidateStep ==
  ASSUME SInv, [Next]_vars, NEW m \in Modules, Validate(m)
  PROVE  SInv'
<1> DEFINE n == Min(ToValidate(m))
           v == [name |-> n, by |-> WriterOf(SubName(m), n)]
<1>1. /\ stage[m] = "validate" /\ ToValidate(m) # {} /\ Acquire
      /\ verdicts' = [verdicts EXCEPT ![m] = @ \cup {v}]
      /\ UNCHANGED <<corpus, stage, code, pending, disk, listed, results, main>>
  BY DEF Validate
<1>2. n \in ToValidate(m)
  <2>1. ToValidate(m) \subseteq Nat
    BY NamesAssumption DEF SInv, TypeOK, ToValidate
  <2>2. QED
    BY <1>1, <2>1, HasMin
<1>3. v.name \in listed[m] /\ v.by \in Modules \cup {0}
  <2>1. n \in listed[m] /\ listed[m] \subseteq FilesIn(SubName(m))
    BY <1>1, <1>2 DEF SInv, DiskOK, ToValidate
  <2>2. \E f \in disk : f.dir = SubName(m) /\ f.name = n
    BY <2>1 DEF FilesIn
  <2>3. WriterOf(SubName(m), n) \in Modules \cup {0}
    <3>1. (CHOOSE f \in disk : f.dir = SubName(m) /\ f.name = n) \in disk
      BY <2>2
    <3>2. QED
      BY <3>1 DEF SInv, DiskOK, WriterOf
  <2>4. QED
    BY <2>1, <2>3
<1>4. /\ corpus.limit = 0 => budget' = budget
      /\ corpus.limit # 0 => budget > 0 /\ budget' = budget - 1
      /\ budget \in 0..corpus.limit /\ corpus.limit \in Nat
  BY <1>1, CorpusSets DEF Acquire, SInv, TypeOK
<1>5. TypeOK'
  <2>1. budget' \in 0..corpus.limit
    BY <1>4
  <2>2. v \in [name : Names, by : Modules \cup {0}]
    BY <1>3 DEF SInv, TypeOK
  <2>3. verdicts' \in [Modules -> SUBSET [name : Names, by : Modules \cup {0}]]
    <3> HIDE DEF v
    <3>1. QED
      BY <1>1, <2>2 DEF SInv, TypeOK
  <2>4. \A k \in Modules : \A w \in verdicts'[k] : w.name \in listed[k]
    <3> HIDE DEF v
    <3>1. \A k \in Modules : verdicts'[k] \subseteq verdicts[k] \cup (IF k = m THEN {v} ELSE {})
      BY <1>1 DEF SInv, TypeOK
    <3>2. QED
      BY <1>3, <3>1 DEF SInv, TypeOK
  <2>5. QED
    BY <1>1, <2>1, <2>3, <2>4 DEF SInv, TypeOK
<1>6. \A k \in Modules \ {m} : verdicts'[k] = verdicts[k]
  BY <1>1 DEF SInv, TypeOK
<1>7. DiskOK'
  BY <1>1, <1>6, SameDirectories DEF SInv, DiskOK, FilesIn
<1>8. Validated'
  <2>1. corpus.limit # 0 => budget # 0
    BY <1>4
  <2>2. \A k \in Modules : stage[k] = "returned" => ToValidate(k) = {} /\ k # m
    BY <1>1, <2>1 DEF SInv, Validated
  <2>3. \A k \in Modules : stage[k] = "returned" => ToValidate(k)' = {}
    BY <1>1, <1>6, <2>2 DEF ToValidate
  <2>4. QED
    BY <1>1, <2>3 DEF SInv, Validated
<1>9. QED
  BY <1>5, <1>7, <1>8 DEF SInv

LEMMA ReturnStep ==
  ASSUME SInv, [Next]_vars, NEW m \in Modules, Return(m)
  PROVE  SInv'
<1>1. /\ stage[m] = "validate" /\ stage' = [stage EXCEPT ![m] = "returned"]
      /\ ToValidate(m) = {} \/ (corpus.limit # 0 /\ budget = 0)
      /\ UNCHANGED <<corpus, code, pending, disk, listed, verdicts, budget, results, main>>
  BY DEF Return, Exhausted
<1>2. TypeOK'
  BY <1>1 DEF SInv, TypeOK
<1>3. /\ stage \in [Modules -> Stages] /\ stage'[m] = "returned"
      /\ \A k \in Modules \ {m} : stage'[k] = stage[k]
  BY <1>1 DEF SInv, TypeOK, Stages
<1>4. DiskOK'
  BY <1>1, <1>3, SameDirectories DEF SInv, DiskOK, FilesIn
<1>5. Validated'
  BY <1>1, <1>3 DEF SInv, Validated, ToValidate
<1>6. QED
  BY <1>2, <1>4, <1>5 DEF SInv

(* Steps of main.                                                           *)
LEMMA MainStep ==
  ASSUME SInv, [Next]_vars,
         (\E m \in Modules : Collect(m)) \/ Report \/ Exit \/ UNCHANGED vars
  PROVE  SInv'
<1>1. UNCHANGED <<corpus, stage, code, pending, disk, listed, verdicts, budget>>
  BY DEF Collect, Report, Exit, vars
<1>2. /\ results' \subseteq Modules
      /\ main' \in {"collecting", "raised", "reported", "exited"}
      /\ \A m \in results' : stage[m] = "returned"
      /\ main' = "reported" => results' = Modules
  <2>1. CASE \E m \in Modules : Collect(m)
    BY <2>1 DEF Collect, SInv, TypeOK, Validated
  <2>2. CASE Report
    BY <2>2 DEF Report, SInv, TypeOK, Validated
  <2>3. CASE Exit
    BY <2>3 DEF Exit, SInv, TypeOK, Validated
  <2>4. CASE UNCHANGED vars
    BY <2>4 DEF vars, SInv, TypeOK, Validated
  <2>5. QED
    BY <2>1, <2>2, <2>3, <2>4
<1>3. TypeOK'
  BY <1>1, <1>2 DEF SInv, TypeOK
<1>4. DiskOK'
  BY <1>1, SameDirectories DEF SInv, DiskOK, FilesIn
<1>5. Validated'
  BY <1>1, <1>2 DEF SInv, Validated, ToValidate
<1>6. QED
  BY <1>3, <1>4, <1>5 DEF SInv

LEMMA NextInv ==
  ASSUME SInv, [Next]_vars
  PROVE  SInv'
<1>1. CASE \E m \in Modules : Task(m)
  BY <1>1, StartStep, SummaryStep, WriteStep, ListStep, ValidateStep, ReturnStep DEF Task
<1>2. CASE (\E m \in Modules : Collect(m)) \/ Report \/ Exit \/ UNCHANGED vars
  BY <1>2, MainStep
<1>3. QED
  BY <1>1, <1>2 DEF Next

(* Listed files stay on disk, tasks return validated or out of budget, main *)
(* reports when all have returned.                                          *)
THEOREM SweepInvariant == Spec => []SInv
  BY InitInv, NextInv, PTL DEF Spec

(* However the workers interleave, a report in which a listed file has no   *)
(* verdict is that of a sweep that used its whole budget.                   *)
THEOREM SkippedOnly == Spec => []SkippedOnlyWithoutBudget
<1>1. SInv => SkippedOnlyWithoutBudget
  BY DEF SInv, Validated, SkippedOnlyWithoutBudget
<1>2. QED
  BY <1>1, SweepInvariant, PTL

----------------------------------------------------------------------------
(* Where no two modules share a directory, files and verdicts are the       *)
(* module's own or left from an earlier sweep and not written again.        *)
OwnDisk ==
  /\ \A f \in disk : \E m \in Modules :
       /\ f.dir = SubName(m)
       /\ f.name \in corpus.litmus[m] \cup corpus.stale
       /\ stage[m] \in {"litmus", "validate"} => OwnOrStale(m, f)
       /\ f.by \in {m, 0} /\ (f.by = 0 => f.name \in corpus.stale)
  /\ \A m \in Modules : pending[m] \subseteq corpus.litmus[m]
  /\ \A m \in Modules : Owned(m)

LEMMA OwnDiskStep ==
  ASSUME SInv, Separate, OwnDisk, [Next]_vars
  PROVE  OwnDisk'
<1>1. corpus' = corpus /\ \A m : SubName(m)' = SubName(m)
  BY SameDirectories
<1>2. ASSUME NEW m \in Modules, Summary(m) PROVE OwnDisk'
  <2>1. /\ stage[m] = "summary"
        /\ \A k \in Modules : k # m => stage'[k] = stage[k] /\ pending'[k] = pending[k]
        /\ pending'[m] \subseteq corpus.litmus[m]
        /\ stage'[m] \in {"litmus", "validate"} => pending'[m] = corpus.litmus[m]
        /\ UNCHANGED <<disk, listed, verdicts>>
    <3>1. PICK c \in {"ok", "failed", "timeout"}, z \in {corpus.litmus[m], {}}, t \in {"litmus", "raised"} :
            /\ stage' = [stage EXCEPT ![m] = IF z = {} THEN "returned" ELSE t]
            /\ pending' = [pending EXCEPT ![m] = z]
      BY <1>2 DEF Summary
    <3>2. stage[m] = "summary" /\ UNCHANGED <<disk, listed, verdicts>>
      BY <1>2 DEF Summary
    <3>3. /\ stage'[m] = IF z = {} THEN "returned" ELSE t
          /\ pending'[m] = z
          /\ \A k \in Modules : k # m => stage'[k] = stage[k] /\ pending'[k] = pending[k]
      BY <3>1 DEF SInv, TypeOK
    <3>4. QED
      BY <3>2, <3>3
  <2>2. listed[m] = {} /\ verdicts[m] = {}
    BY <2>1 DEF SInv, DiskOK
  <2>3. \A k \in Modules : Owned(k)'
    BY <1>1, <2>1, <2>2 DEF OwnDisk, Owned, OwnOrStale
  <2>4. \A k \in Modules : pending'[k] \subseteq corpus.litmus[k]
    BY <2>1 DEF OwnDisk
  <2>5. ASSUME NEW f \in disk', NEW k \in Modules,
               /\ f.dir = SubName(k) /\ f.name \in corpus.litmus[k] \cup corpus.stale
               /\ stage[k] \in {"litmus", "validate"} => OwnOrStale(k, f)
               /\ f.by \in {k, 0} /\ (f.by = 0 => f.name \in corpus.stale)
        PROVE  stage'[k] \in {"litmus", "validate"} => OwnOrStale(k, f)'
    <3>1. CASE k = m
      BY <1>1, <2>1, <2>5, <3>1 DEF OwnOrStale
    <3>2. CASE k # m
      BY <1>1, <2>1, <2>5, <3>2 DEF OwnOrStale
    <3>3. QED
      BY <3>1, <3>2
  <2>6. QED
    BY <1>1, <2>1, <2>3, <2>4, <2>5 DEF OwnDisk
<1>3. ASSUME NEW m \in Modules, Write(m) PROVE OwnDisk'
  <2>1. PICK n \in pending[m] :
          /\ disk' = {f \in disk : ~(f.dir = SubName(m) /\ f.name = n)}
                       \cup {[dir |-> SubName(m), name |-> n, by |-> m]}
          /\ pending' = [pending EXCEPT ![m] = @ \ {n}]
    BY <1>3 DEF Write
  <2>2. n \in corpus.litmus[m]
    BY DEF OwnDisk
  <2>3. /\ stage[m] = "litmus" /\ UNCHANGED <<stage, listed, verdicts>>
        /\ pending'[m] = pending[m] \ {n}
        /\ \A k \in Modules : k # m => pending'[k] = pending[k]
    BY <1>3, <2>1 DEF Write, SInv, TypeOK
  <2>4. listed[m] = {} /\ verdicts[m] = {}
    BY <2>3 DEF SInv, DiskOK
  <2>5. \A k \in Modules : Owned(k)'
    BY <1>1, <2>3, <2>4 DEF OwnDisk, Owned, OwnOrStale
  <2>6. \A k \in Modules : pending'[k] \subseteq corpus.litmus[k]
    BY <2>3 DEF OwnDisk
  <2>7. ASSUME NEW f \in disk'
        PROVE  \E k \in Modules :
                 /\ f.dir = SubName(k) /\ f.name \in corpus.litmus[k] \cup corpus.stale
                 /\ stage[k] \in {"litmus", "validate"} => OwnOrStale(k, f)'
                 /\ f.by \in {k, 0} /\ (f.by = 0 => f.name \in corpus.stale)
    <3>1. CASE f = [dir |-> SubName(m), name |-> n, by |-> m]
      <4>1. f.dir = SubName(m) /\ f.name = n /\ f.by = m /\ m # 0
        BY <3>1 DEF Modules
      <4>2. OwnOrStale(m, f)'
        BY <4>1 DEF OwnOrStale
      <4>3. QED
        BY <2>2, <4>1, <4>2
    <3>2. CASE f \in disk /\ ~(f.dir = SubName(m) /\ f.name = n)
      <4>1. PICK k \in Modules :
              /\ f.dir = SubName(k) /\ f.name \in corpus.litmus[k] \cup corpus.stale
              /\ stage[k] \in {"litmus", "validate"} => OwnOrStale(k, f)
              /\ f.by \in {k, 0} /\ (f.by = 0 => f.name \in corpus.stale)
        BY <3>2 DEF OwnDisk
      <4>2. f.name \in pending[k] => f.name \in pending'[k]
        BY <2>3, <3>2, <4>1
      <4>3. stage[k] \in {"litmus", "validate"} => OwnOrStale(k, f)'
        BY <1>1, <4>1, <4>2 DEF OwnOrStale
      <4>4. QED
        BY <4>1, <4>3
    <3>3. QED
      BY <2>1, <3>1, <3>2
  <2>8. QED
    BY <1>1, <2>3, <2>5, <2>6, <2>7 DEF OwnDisk
<1>4. ASSUME NEW m \in Modules, List(m) PROVE OwnDisk'
  <2>1. FilesIn(SubName(m)) \subseteq corpus.litmus[m] \cup corpus.stale
    <3>1. SUFFICES ASSUME NEW f \in disk, f.dir = SubName(m)
                   PROVE  f.name \in corpus.litmus[m] \cup corpus.stale
      BY DEF FilesIn
    <3>2. PICK k \in Modules : f.dir = SubName(k) /\ f.name \in corpus.litmus[k] \cup corpus.stale
      BY DEF OwnDisk
    <3>3. k = m
      BY <3>1, <3>2 DEF Separate
    <3>4. QED
      BY <3>2, <3>3
  <2>2. /\ stage[m] = "litmus" /\ UNCHANGED <<disk, pending, verdicts>>
        /\ listed'[m] = FilesIn(SubName(m)) /\ stage'[m] = "validate"
        /\ \A k \in Modules : k # m => listed'[k] = listed[k] /\ stage'[k] = stage[k]
    BY <1>4 DEF List, SInv, TypeOK
  <2>3. \A k \in Modules : Owned(k)'
    BY <1>1, <2>1, <2>2 DEF OwnDisk, Owned, OwnOrStale
  <2>4. \A k \in Modules : stage'[k] \in {"litmus", "validate"} => stage[k] \in {"litmus", "validate"}
    BY <2>2
  <2>5. \A k \in Modules, f \in disk : OwnOrStale(k, f)' <=> OwnOrStale(k, f)
    BY <1>1, <2>2 DEF OwnOrStale
  <2>6. QED
    BY <1>1, <2>2, <2>3, <2>4, <2>5 DEF OwnDisk
<1>5. ASSUME NEW m \in Modules, Validate(m) PROVE OwnDisk'
  <2> DEFINE n == Min(ToValidate(m))
             v == [name |-> n, by |-> WriterOf(SubName(m), n)]
  <2>1. /\ stage[m] = "validate" /\ ToValidate(m) # {}
        /\ verdicts' = [verdicts EXCEPT ![m] = @ \cup {v}]
        /\ UNCHANGED <<disk, pending, listed, stage>>
    BY <1>5 DEF Validate
  <2>2. n \in ToValidate(m)
    <3>1. ToValidate(m) \subseteq Nat
      BY NamesAssumption DEF SInv, TypeOK, ToValidate
    <3>2. QED
      BY <2>1, <3>1, HasMin
  <2>3. OwnOrStale(m, v)
    <3>1. \E f \in disk : f.dir = SubName(m) /\ f.name = n
      BY <2>1, <2>2 DEF SInv, DiskOK, ToValidate, FilesIn
    <3>2. PICK f \in disk : f.dir = SubName(m) /\ f.name = n /\ f.by = WriterOf(SubName(m), n)
      BY <3>1 DEF WriterOf
    <3>3. PICK k \in Modules : f.dir = SubName(k) /\ (stage[k] \in {"litmus", "validate"} => OwnOrStale(k, f))
      BY DEF OwnDisk
    <3>4. k = m
      BY <3>2, <3>3 DEF Separate
    <3>5. OwnOrStale(m, f)
      BY <2>1, <3>3, <3>4
    <3>6. v.name = f.name /\ v.by = f.by
      BY <3>2
    <3> HIDE DEF v
    <3>7. QED
      BY <3>5, <3>6 DEF OwnOrStale
  <2>4. \A k \in Modules : Owned(k)'
    <3> HIDE DEF v
    <3>1. \A k \in Modules : verdicts'[k] \subseteq verdicts[k] \cup (IF k = m THEN {v} ELSE {})
      BY <2>1 DEF SInv, TypeOK
    <3>2. \A k \in Modules : \A w \in verdicts'[k] : OwnOrStale(k, w)
      BY <2>3, <3>1 DEF OwnDisk, Owned
    <3>3. QED
      BY <1>1, <2>1, <3>2 DEF OwnDisk, Owned, OwnOrStale
  <2>5. QED
    BY <1>1, <2>1, <2>4 DEF OwnDisk, OwnOrStale
<1>6. CASE \/ \E m \in Modules : Start(m) \/ Return(m) \/ Collect(m)
           \/ Report \/ Exit \/ UNCHANGED vars
  <2>1. UNCHANGED <<disk, pending, listed, verdicts>>
    BY <1>6 DEF Start, Return, Collect, Report, Exit, vars
  <2>2. \A k \in Modules : stage'[k] \in {"litmus", "validate"} => stage[k] \in {"litmus", "validate"}
    BY <1>6 DEF Start, Return, Collect, Report, Exit, vars, SInv, TypeOK
  <2>3. /\ \A k \in Modules, f \in disk : OwnOrStale(k, f)' <=> OwnOrStale(k, f)
        /\ \A k \in Modules : Owned(k)' <=> Owned(k)
    BY <1>1, <2>1 DEF OwnOrStale, Owned
  <2>4. QED
    BY <1>1, <2>1, <2>2, <2>3 DEF OwnDisk
<1>7. QED
  BY <1>2, <1>3, <1>4, <1>5, <1>6 DEF Next, Task

(* Where directories are apart, every file a module counts and every        *)
(* verdict it reports is about a file its own litmus run wrote, or one of   *)
(* an earlier sweep that it did not write again.                            *)
THEOREM FilesAreOwn == Spec => []OwnFiles
<1> DEFINE Inv == SInv /\ (Separate => OwnDisk)
<1>1. Init => Inv
  <2>1. ASSUME Init PROVE OwnDisk
    <3>1. \A f \in disk : \E m \in Modules :
            f.dir = SubName(m) /\ f.name \in corpus.stale /\ f.by = 0 /\ stage[m] = "queued"
      BY <2>1 DEF Init
    <3>2. \A m \in Modules : pending[m] = {} /\ Owned(m)
      BY <2>1 DEF Init, Owned
    <3>3. QED
      BY <3>1, <3>2 DEF OwnDisk
  <2>2. QED
    BY <2>1, InitInv
<1>2. Inv /\ [Next]_vars => Inv'
  <2> SUFFICES ASSUME Inv, [Next]_vars PROVE Inv'
    OBVIOUS
  <2>1. Separate' => Separate
    BY SameDirectories DEF Separate
  <2>2. QED
    BY <2>1, NextInv, OwnDiskStep
<1>3. Inv => OwnFiles
  BY DEF OwnDisk, OwnFiles
<1>4. QED
  BY <1>1, <1>2, <1>3, PTL DEF Spec

----------------------------------------------------------------------------
(* The budget.  Every run of herd7 acquires one unit of a limited budget    *)
(* and is about a file that had no verdict.                                 *)

LEMMA BudgetStep ==
  ASSUME SInv, BudgetRespected, [Next]_vars
  PROVE  BudgetRespected'
<1>1. corpus' = corpus /\ corpus.limit \in Nat /\ budget \in 0..corpus.limit
  BY SameDirectories, CorpusSets DEF SInv, TypeOK
<1>2. CASE UNCHANGED <<verdicts, budget>>
  BY <1>1, <1>2 DEF BudgetRespected, HerdRuns
<1>3. ASSUME NEW m \in Modules, Validate(m) PROVE BudgetRespected'
  <2> DEFINE n == Min(ToValidate(m))
             v == [name |-> n, by |-> WriterOf(SubName(m), n)]
  <2>1. /\ ToValidate(m) # {} /\ Acquire
        /\ verdicts' = [verdicts EXCEPT ![m] = @ \cup {v}]
    BY <1>3 DEF Validate
  <2>2. n \in ToValidate(m)
    <3>1. ToValidate(m) \subseteq Nat
      BY NamesAssumption DEF SInv, TypeOK, ToValidate
    <3>2. QED
      BY <2>1, <3>1, HasMin
  <2>3. v \notin verdicts[m]
    BY <2>2 DEF ToValidate
  <2>4. <<m, v>> \notin HerdRuns
    BY <2>3 DEF HerdRuns
  <2>5. HerdRuns' = HerdRuns \cup {<<m, v>>}
    <3> HIDE DEF v
    <3>1. \A k \in Modules : verdicts'[k] = verdicts[k] \cup (IF k = m THEN {v} ELSE {})
      BY <2>1 DEF SInv, TypeOK
    <3>2. ASSUME NEW r PROVE r \in HerdRuns' <=> r \in HerdRuns \/ r = <<m, v>>
      BY <3>1 DEF HerdRuns
    <3>3. QED
      BY <3>2
  <2> HIDE DEF v
  <2>6. CASE corpus.limit = 0
    BY <1>1, <2>6 DEF BudgetRespected
  <2>7. CASE corpus.limit # 0
    <3>1. IsFiniteSet(HerdRuns) /\ Cardinality(HerdRuns) + budget = corpus.limit
      BY <2>7 DEF BudgetRespected
    <3>2. IsFiniteSet(HerdRuns') /\ Cardinality(HerdRuns') = Cardinality(HerdRuns) + 1
      BY <2>4, <2>5, <3>1, FS_AddElement
    <3>3. budget' = budget - 1
      BY <2>1, <2>7 DEF Acquire
    <3>4. Cardinality(HerdRuns) \in Nat
      BY <3>1, FS_CardinalityType
    <3>5. Cardinality(HerdRuns') + budget' = corpus.limit
      BY <1>1, <3>1, <3>2, <3>3, <3>4
    <3>6. QED
      BY <1>1, <3>2, <3>5 DEF BudgetRespected
  <2>8. QED
    BY <2>6, <2>7
<1>4. CASE \/ \E m \in Modules : Start(m) \/ Summary(m) \/ Write(m) \/ List(m) \/ Return(m) \/ Collect(m)
           \/ Report \/ Exit \/ UNCHANGED vars
  BY <1>2, <1>4 DEF Start, Summary, Write, List, Return, Collect, Report, Exit, vars
<1>5. QED
  BY <1>3, <1>4 DEF Next, Task

(* Types, the relations between tasks and main, and the budget: however the *)
(* workers interleave, the runs of herd7 and what is left add up to the     *)
(* limit.                                                                   *)
THEOREM BudgetKept == Spec => []IInv
<1>1. Init => IInv
  <2>1. ASSUME Init PROVE BudgetRespected
    <3>1. HerdRuns = {}
      BY <2>1 DEF Init, HerdRuns
    <3>2. IsFiniteSet(HerdRuns) /\ Cardinality(HerdRuns) = 0
      BY <3>1, FS_EmptySet
    <3>3. corpus.limit \in Nat /\ budget = corpus.limit
      BY <2>1, CorporaAssumption DEF Init
    <3>4. QED
      BY <3>2, <3>3 DEF BudgetRespected
  <2>2. QED
    BY <2>1, InitInv DEF IInv
<1>2. IInv /\ [Next]_vars => IInv'
  BY NextInv, BudgetStep DEF IInv
<1>3. QED
  BY <1>1, <1>2, PTL DEF Spec

----------------------------------------------------------------------------
(* Sequences.  Induction over the numbers, as a statement about sets.       *)
LEMMA NatSet ==
  ASSUME NEW S, 0 \in S, \A n \in Nat : n \in S => n + 1 \in S
  PROVE  \A n \in Nat : n \in S
<1> SUFFICES ASSUME Nat \ S # {} PROVE FALSE
  OBVIOUS
<1> DEFINE m == Min(Nat \ S)
<1>1. m \in Nat \ S /\ \A n \in Nat \ S : m <= n
  BY HasMin
<1> HIDE DEF m
<1>2. m - 1 \in Nat /\ ~(m <= m - 1) /\ (m - 1) + 1 = m
  BY <1>1
<1>3. m - 1 \in S
  BY <1>1, <1>2
<1>4. QED
  BY <1>1, <1>2, <1>3

LEMMA RangeOfOne ==
  ASSUME NEW x
  PROVE  Range(<<x>>) = {x} /\ Range(<<>>) = {}
  BY DEF Range

(* What a concatenation consists of.                                        *)
LEMMA Joined ==
  ASSUME NEW T, NEW s \in Seq(T), NEW t \in Seq(T)
  PROVE  /\ s \o t \in Seq(T)
         /\ Len(s \o t) = Len(s) + Len(t)
         /\ \A i \in 1..Len(s) : (s \o t)[i] = s[i]
         /\ \A i \in 1..Len(t) : (s \o t)[Len(s) + i] = t[i]
         /\ Range(s \o t) = Range(s) \cup Range(t)
<1> DEFINE c == s \o t
<1>1. c \in Seq(T) /\ Len(c) = Len(s) + Len(t)
      /\ \A i \in 1..(Len(s) + Len(t)) : c[i] = IF i <= Len(s) THEN s[i] ELSE t[i - Len(s)]
  BY ConcatProperties, Zenon
<1> HIDE DEF c
<1>2. Len(s) \in Nat /\ Len(t) \in Nat /\ DOMAIN s = 1..Len(s) /\ DOMAIN t = 1..Len(t)
      /\ DOMAIN c = 1..(Len(s) + Len(t))
  BY <1>1
<1>3. \A i \in 1..Len(s) : i \in 1..(Len(s) + Len(t)) /\ c[i] = s[i]
  BY <1>1, <1>2
<1>4. \A i \in 1..Len(t) : Len(s) + i \in 1..(Len(s) + Len(t)) /\ c[Len(s) + i] = t[i]
  <2> TAKE i \in 1..Len(t)
  <2>1. Len(s) + i \in 1..(Len(s) + Len(t)) /\ ~(Len(s) + i <= Len(s)) /\ (Len(s) + i) - Len(s) = i
    BY <1>2
  <2>2. QED
    BY <1>1, <2>1
<1>5. \A i \in 1..(Len(s) + Len(t)) : c[i] \in Range(s) \cup Range(t)
  <2> TAKE i \in 1..(Len(s) + Len(t))
  <2>1. CASE i <= Len(s)
    <3>1. i \in DOMAIN s
      BY <1>2, <2>1
    <3>2. QED
      BY <1>1, <2>1, <3>1 DEF Range
  <2>2. CASE ~(i <= Len(s))
    <3>1. i - Len(s) \in DOMAIN t
      BY <1>2, <2>2
    <3>2. QED
      BY <1>1, <2>2, <3>1 DEF Range
  <2>3. QED
    BY <2>1, <2>2
<1>6. Range(c) = Range(s) \cup Range(t)
  <2>1. Range(c) \subseteq Range(s) \cup Range(t)
    BY <1>2, <1>5 DEF Range
  <2>2. Range(s) \subseteq Range(c)
    BY <1>2, <1>3 DEF Range
  <2>3. Range(t) \subseteq Range(c)
    BY <1>2, <1>4 DEF Range
  <2>4. QED
    BY <2>1, <2>2, <2>3
<1>7. QED
  BY <1>1, <1>3, <1>4, <1>6 DEF c

(* FlattenSeq joins the prefixes of a sequence of sequences, one by one.    *)
Joins(f, s, n) == f = [i \in 1..n |-> IF i = 1 THEN s[i] ELSE f[i - 1] \o s[i]]

LEMMA JoinsExist ==
  ASSUME NEW s
  PROVE  \A n \in Nat : n # 0 => \E f : Joins(f, s, n)
<1> DEFINE S == {n \in Nat : n # 0 => \E f : Joins(f, s, n)}
<1>1. 0 \in S
  OBVIOUS
<1>2. ASSUME NEW n \in Nat, n \in S PROVE n + 1 \in S
  <2>1. CASE n = 0
    <3> DEFINE f == [i \in 1..1 |-> s[i]]
    <3>1. f = [i \in 1..1 |-> IF i = 1 THEN s[i] ELSE f[i - 1] \o s[i]]
      OBVIOUS
    <3>2. Joins(f, s, 1)
      BY <3>1 DEF Joins
    <3>3. QED
      BY <2>1, <3>2
  <2>2. CASE n # 0
    <3>1. PICK f : Joins(f, s, n)
      BY <1>2, <2>2
    <3>2. f = [i \in 1..n |-> IF i = 1 THEN s[i] ELSE f[i - 1] \o s[i]]
      BY <3>1 DEF Joins
    <3> DEFINE g == [i \in 1..(n + 1) |-> IF i = n + 1 THEN f[n] \o s[n + 1] ELSE f[i]]
               h == [i \in 1..(n + 1) |-> IF i = 1 THEN s[i] ELSE g[i - 1] \o s[i]]
    <3>3. ASSUME NEW i \in 1..(n + 1) PROVE g[i] = h[i]
      <4>1. CASE i = n + 1
        <5>1. i # 1 /\ i - 1 = n /\ n \in 1..(n + 1) /\ n # n + 1
          BY <2>2, <4>1
        <5>2. QED
          BY <4>1, <5>1
      <4>2. CASE i # n + 1
        <5>1. i \in 1..n /\ (i # 1 => i - 1 \in 1..(n + 1) /\ i - 1 # n + 1)
          BY <4>2
        <5>2. f[i] = IF i = 1 THEN s[i] ELSE f[i - 1] \o s[i]
          BY <3>2, <5>1
        <5>3. QED
          BY <4>2, <5>1, <5>2
      <4>3. QED
        BY <4>1, <4>2
    <3>4. g = [i \in 1..(n + 1) |-> g[i]] /\ h = [i \in 1..(n + 1) |-> h[i]]
      OBVIOUS
    <3> HIDE DEF g, h
    <3>5. g = h
      BY <3>3, <3>4
    <3>6. Joins(g, s, n + 1)
      BY <3>5 DEF Joins, h
    <3>7. QED
      BY <3>6
  <2>3. QED
    BY <2>1, <2>2
<1> HIDE DEF S
<1>3. \A n \in Nat : n \in S
  BY <1>1, <1>2, NatSet
<1>4. QED
  BY <1>3 DEF S

LEMMA FlattenJoins ==
  ASSUME NEW s, Len(s) \in Nat, Len(s) # 0
  PROVE  \E f : Joins(f, s, Len(s)) /\ FlattenSeq(s) = f[Len(s)]
<1> DEFINE f == CHOOSE g : Joins(g, s, Len(s))
<1>1. Joins(f, s, Len(s))
  BY JoinsExist
<1>2. FlattenSeq(s) = f[Len(s)]
  BY DEF FlattenSeq, Joins
<1>3. QED
  BY <1>1, <1>2

(* It has the elements of all of them.                                      *)
LEMMA Flattened ==
  ASSUME NEW T, NEW s \in Seq(Seq(T))
  PROVE  /\ FlattenSeq(s) \in Seq(T)
         /\ Range(FlattenSeq(s)) = UNION {Range(s[i]) : i \in 1..Len(s)}
<1>1. Len(s) \in Nat /\ \A i \in 1..Len(s) : s[i] \in Seq(T)
  OBVIOUS
<1>2. CASE Len(s) = 0
  <2>1. s = <<>> /\ FlattenSeq(s) = s
    BY <1>2 DEF FlattenSeq
  <2>2. Range(<<>>) = {}
    BY DEF Range
  <2>3. {Range(s[i]) : i \in 1..Len(s)} = {}
    BY <1>2
  <2>4. QED
      <3>1. UNION {Range(s[i]) : i \in 1..Len(s)} = {}
        BY <2>3
      <3>2. QED
        <4>1. <<>> \in Seq(T)
          OBVIOUS
        <4>2. QED
          BY <2>1, <2>2, <3>1, <4>1, Zenon
    <1>3. CASE Len(s) # 0
  <2>1. PICK f : Joins(f, s, Len(s)) /\ FlattenSeq(s) = f[Len(s)]
    BY <1>1, <1>3, FlattenJoins
  <2> DEFINE N == Len(s)
             Good(i) == f[i] \in Seq(T) /\ Range(f[i]) = UNION {Range(s[j]) : j \in 1..i}
             S == {i \in Nat : i \in 1..N => Good(i)}
  <2>2. \A i \in 1..N : f[i] = IF i = 1 THEN s[i] ELSE f[i - 1] \o s[i]
    BY <2>1 DEF Joins
  <2>3. ASSUME NEW i \in Nat, i \in S PROVE i + 1 \in S
    <3> SUFFICES ASSUME i + 1 \in 1..N PROVE Good(i + 1)
      OBVIOUS
    <3>1. CASE i = 0
      <4>1. f[1] = s[1] /\ 1 \in 1..N
        BY <1>1, <1>3, <2>2
      <4>2. {Range(s[j]) : j \in 1..1} = {Range(s[1])}
        OBVIOUS
      <4>3. QED
        BY <1>1, <3>1, <4>1, <4>2
    <3>2. CASE i # 0
      <4>1. i \in 1..N /\ i + 1 # 1 /\ (i + 1) - 1 = i
        BY <1>1, <3>2
      <4>2. f[i] \in Seq(T) /\ Range(f[i]) = UNION {Range(s[j]) : j \in 1..i}
        BY <2>3, <4>1
      <4>3. f[i + 1] = f[i] \o s[i + 1]
        BY <2>2, <4>1
      <4>4. s[i + 1] \in Seq(T)
        BY <1>1
      <4>5. f[i + 1] \in Seq(T) /\ Range(f[i + 1]) = Range(f[i]) \cup Range(s[i + 1])
        BY <4>2, <4>3, <4>4, Joined
      <4>6. 1..(i + 1) = (1..i) \cup {i + 1}
        BY <4>1
      <4>7. QED
        BY <4>2, <4>5, <4>6
    <3>3. QED
      BY <3>1, <3>2
  <2>4. 0 \in S
    OBVIOUS
  <2> HIDE DEF S
  <2>5. \A i \in Nat : i \in S
    BY <2>3, <2>4, NatSet
  <2>6. Good(N)
    <3>1. N \in Nat /\ N \in 1..N
      BY <1>1, <1>3
    <3>2. N \in S
      BY <2>5, <3>1
    <3> HIDE DEF Good, N
    <3>3. QED
      BY <3>1, <3>2 DEF S
  <2>7. QED
    BY <2>1, <2>6
<1>4. QED
  BY <1>2, <1>3

----------------------------------------------------------------------------
(* Where each token of a path comes to stand in the name of its directory.  *)
Width(t) == IF t = "slash" THEN 2 ELSE 1
Head1(t) == IF t = "slash" THEN "underscore" ELSE t
Places(o, p) ==
  /\ \A i \in 0..Len(p) : o[i] \in Nat /\ o[i] <= Len(Replaced(p))
  /\ o[0] = 0 /\ o[Len(p)] = Len(Replaced(p))
  /\ \A i \in 1..Len(p) :
       /\ o[i] = o[i - 1] + Width(p[i])
       /\ Replaced(p)[o[i - 1] + 1] = Head1(p[i])
       /\ p[i] = "slash" => Replaced(p)[o[i - 1] + 2] = "underscore"

LEMMA HasPlaces ==
  ASSUME NEW T, "underscore" \in T, NEW p \in Seq(T)
  PROVE  \E o : Places(o, p)
<1> DEFINE N == Len(p)
           W(t) == IF t = "slash" THEN <<"underscore", "underscore">> ELSE <<t>>
           s == [i \in DOMAIN p |-> W(p[i])]
           F == Replaced(p)
<1>1. N \in Nat /\ DOMAIN p = 1..N /\ \A i \in 1..N : p[i] \in T
  OBVIOUS
<1>2. F = FlattenSeq(s)
  BY DEF Replaced
<1>3. /\ \A t \in T : W(t) \in Seq(T) /\ Len(W(t)) = Width(t) /\ W(t)[1] = Head1(t)
      /\ W("slash")[2] = "underscore"
  <2>1. ASSUME NEW t \in T, t = "slash"
        PROVE  W(t) \in Seq(T) /\ Len(W(t)) = Width(t) /\ W(t)[1] = Head1(t)
    BY <2>1 DEF Width, Head1
  <2>2. ASSUME NEW t \in T, t # "slash"
        PROVE  W(t) \in Seq(T) /\ Len(W(t)) = Width(t) /\ W(t)[1] = Head1(t)
    BY <2>2 DEF Width, Head1
  <2>3. W("slash")[2] = "underscore"
    OBVIOUS
  <2>4. QED
    BY <2>1, <2>2, <2>3
<1> HIDE DEF W
<1>4. /\ Len(s) = N /\ \A i \in 1..N : s[i] = W(p[i]) /\ s[i] \in Seq(T)
      /\ \A i \in 1..N : Len(s[i]) = Width(p[i]) /\ s[i][1] = Head1(p[i])
      /\ \A i \in 1..N : p[i] = "slash" => s[i][2] = "underscore"
  <2>1. s \in [1..N -> Seq(T)] /\ \A i \in 1..N : s[i] = W(p[i])
    BY <1>1, <1>3
  <2>2. Len(s) = N
    BY <1>1, <2>1
  <2>3. QED
    BY <1>1, <1>3, <2>1, <2>2
<1> HIDE DEF s, F
<1>5. CASE N = 0
  <2> DEFINE o == [i \in {0} |-> 0]
  <2>1. s = <<>> /\ F = s
    <3>1. s = <<>>
      BY <1>4, <1>5, <1>1 DEF s
    <3>2. QED
      BY <1>2, <1>4, <1>5, <3>1 DEF FlattenSeq
  <2>2. Len(F) = 0
    BY <2>1
  <2>3. Places(o, p)
    BY <1>5, <2>2 DEF Places, F
  <2>4. QED
    BY <2>3
<1>6. CASE N # 0
  <2>1. PICK f : Joins(f, s, N) /\ F = f[N]
    <3>1. Len(s) \in Nat /\ Len(s) # 0
      BY <1>1, <1>4, <1>6
    <3>2. \E f : Joins(f, s, Len(s)) /\ FlattenSeq(s) = f[Len(s)]
      BY <3>1, FlattenJoins
    <3>3. QED
      BY <1>2, <1>4, <3>2
  <2>2. \A i \in 1..N : f[i] = IF i = 1 THEN s[i] ELSE f[i - 1] \o s[i]
    BY <2>1 DEF Joins
  <2> DEFINE Grown(i) == f[i] \in Seq(T)
             S == {i \in Nat : i \in 1..N => Grown(i)}
  <2>3. \A i \in 1..N : f[i] \in Seq(T)
    <3>1. 0 \in S
      OBVIOUS
    <3>2. ASSUME NEW i \in Nat, i \in S PROVE i + 1 \in S
      <4> SUFFICES ASSUME i + 1 \in 1..N PROVE f[i + 1] \in Seq(T)
        OBVIOUS
      <4>1. CASE i = 0
        <5>1. f[1] = s[1] /\ 1 \in 1..N
          BY <1>1, <1>6, <2>2
        <5>2. QED
          BY <1>4, <4>1, <5>1
      <4>2. CASE i # 0
        <5>1. i \in 1..N /\ i + 1 # 1 /\ (i + 1) - 1 = i
          BY <1>1, <4>2
        <5>2. f[i] \in Seq(T) /\ f[i + 1] = f[i] \o s[i + 1] /\ s[i + 1] \in Seq(T)
          BY <1>4, <2>2, <3>2, <5>1
        <5>3. QED
          BY <5>2, Joined
      <4>3. QED
        BY <4>1, <4>2
    <3> HIDE DEF S
    <3>3. \A i \in Nat : i \in S
      BY <3>1, <3>2, NatSet
    <3>4. QED
      BY <1>1, <3>3 DEF S
  <2> DEFINE o == [i \in 0..N |-> IF i = 0 THEN 0 ELSE Len(f[i])]
  <2>4. o[0] = 0 /\ \A i \in 1..N : o[i] = Len(f[i]) /\ o[i] \in Nat
    BY <1>1, <2>3
  <2> HIDE DEF o
  <2>5. ASSUME NEW i \in 1..N
        PROVE  /\ o[i - 1] \in Nat
               /\ o[i] = o[i - 1] + Len(s[i])
               /\ \A j \in 1..Len(s[i]) : f[i][o[i - 1] + j] = s[i][j]
    <3>1. CASE i = 1
      <4>1. f[i] = s[i] /\ o[i - 1] = 0 /\ o[i] = Len(s[i]) /\ Len(s[i]) \in Nat
        BY <1>4, <2>2, <2>4, <3>1
      <4>2. QED
        BY <4>1
    <3>2. CASE i # 1
      <4>1. i - 1 \in 1..N
        BY <1>1, <3>2
      <4>2. f[i] = f[i - 1] \o s[i] /\ f[i - 1] \in Seq(T) /\ s[i] \in Seq(T)
            /\ o[i - 1] = Len(f[i - 1]) /\ o[i] = Len(f[i])
        BY <1>4, <2>2, <2>3, <2>4, <3>2, <4>1
      <4>3. /\ Len(f[i - 1] \o s[i]) = Len(f[i - 1]) + Len(s[i])
            /\ \A j \in 1..Len(s[i]) : (f[i - 1] \o s[i])[Len(f[i - 1]) + j] = s[i][j]
        <5> DEFINE u == f[i - 1]
                   w == s[i]
        <5>1. u \in Seq(T) /\ w \in Seq(T)
          BY <4>2
        <5> HIDE DEF u, w
        <5>2. Len(u \o w) = Len(u) + Len(w) /\ \A j \in 1..Len(w) : (u \o w)[Len(u) + j] = w[j]
          BY <5>1, Joined
        <5>3. QED
          BY <5>2 DEF u, w
      <4>4. QED
        BY <2>4, <4>1, <4>2, <4>3
    <3>3. QED
      BY <3>1, <3>2
  <2> DEFINE Extends(i) == o[i] <= Len(F) /\ \A j \in 1..o[i] : F[j] = f[i][j]
             R == {k \in Nat : k \in 0..(N - 1) => Extends(N - k)}
  <2>6. \A i \in 1..N : Extends(i)
    <3>1. 0 \in R
      <4>1. N \in 1..N /\ o[N] = Len(F) /\ o[N] \in Nat
        BY <1>1, <1>6, <2>1, <2>4
      <4>2. Extends(N) /\ N - 0 = N
        BY <1>1, <2>1, <4>1
      <4>3. QED
        BY <4>2
    <3>2. ASSUME NEW k \in Nat, k \in R PROVE k + 1 \in R
      <4> SUFFICES ASSUME k + 1 \in 0..(N - 1) PROVE Extends(N - (k + 1))
        OBVIOUS
      <4> DEFINE i == N - (k + 1)
      <4>1. i \in 1..N /\ i + 1 \in 1..N /\ N - k = i + 1 /\ k \in 0..(N - 1) /\ i + 1 # 1 /\ (i + 1) - 1 = i
        <5>1. N \in Nat /\ k \in Nat /\ k + 1 <= N - 1
          BY <1>1
        <5> HIDE DEF N
        <5>2. QED
          BY <5>1
      <4>2. Extends(i + 1)
        BY <3>2, <4>1
      <4> HIDE DEF i
      <4>3. o[i] \in Nat /\ o[i + 1] = o[i] + Len(s[i + 1]) /\ Len(s[i + 1]) \in Nat
        <5>1. o[i + 1] = o[(i + 1) - 1] + Len(s[i + 1])
          BY <2>5, <4>1
        <5>2. QED
          BY <1>4, <2>4, <4>1, <5>1
      <4>4. o[i] <= o[i + 1]
        BY <4>3
      <4>5. ASSUME NEW j \in 1..o[i] PROVE F[j] = f[i][j]
        <5>1. f[i + 1] = f[i] \o s[i + 1] /\ f[i] \in Seq(T) /\ s[i + 1] \in Seq(T) /\ o[i] = Len(f[i])
          BY <1>4, <2>2, <2>3, <2>4, <4>1
        <5>2. j \in 1..Len(f[i])
          BY <5>1
        <5>3. (f[i] \o s[i + 1])[j] = f[i][j]
          BY <5>1, <5>2, Joined
        <5>4. j \in 1..o[i + 1]
          BY <4>3, <4>4
        <5>5. QED
          BY <4>2, <5>1, <5>3, <5>4
      <4>6. Len(F) \in Nat
        BY <1>1, <1>6, <2>1, <2>3
      <4>7. o[i + 1] \in Nat /\ o[i + 1] <= Len(F)
        BY <2>4, <4>1, <4>2
      <4>8. o[i] <= Len(F)
        BY <4>3, <4>4, <4>6, <4>7
      <4>9. QED
        BY <4>5, <4>8 DEF i
    <3> HIDE DEF R, Extends
    <3>3. \A k \in Nat : k \in R
      BY <3>1, <3>2, NatSet
    <3>4. ASSUME NEW i \in 1..N PROVE Extends(i)
      <4>1. N - i \in Nat /\ N - i \in 0..(N - 1) /\ N - (N - i) = i
        BY <1>1
      <4>2. N - i \in R
        BY <3>3, <4>1
      <4>3. QED
        BY <4>1, <4>2 DEF R
    <3>5. QED
      BY <3>4
  <2>7. ASSUME NEW i \in 1..N
        PROVE  /\ o[i] = o[i - 1] + Width(p[i])
               /\ F[o[i - 1] + 1] = Head1(p[i])
               /\ p[i] = "slash" => F[o[i - 1] + 2] = "underscore"
    <3>1. Len(s[i]) = Width(p[i]) /\ s[i][1] = Head1(p[i]) /\ (p[i] = "slash" => s[i][2] = "underscore")
      BY <1>4
    <3>2. /\ o[i - 1] \in Nat
          /\ o[i] = o[i - 1] + Len(s[i])
          /\ \A j \in 1..Len(s[i]) : f[i][o[i - 1] + j] = s[i][j]
      BY <2>5
    <3>3. /\ Width(p[i]) \in {1, 2} /\ (p[i] = "slash" => Width(p[i]) = 2)
      BY DEF Width
    <3>4. ASSUME NEW j \in 1..Len(s[i]) PROVE F[o[i - 1] + j] = s[i][j]
      <4>1. o[i - 1] + j \in 1..o[i]
        BY <3>1, <3>2, <3>3
      <4>2. F[o[i - 1] + j] = f[i][o[i - 1] + j]
        BY <2>6, <4>1
      <4>3. QED
        BY <3>2, <4>2
    <3>5. 1 \in 1..Len(s[i]) /\ (p[i] = "slash" => 2 \in 1..Len(s[i]))
      BY <3>1, <3>3
    <3>6. QED
      BY <3>1, <3>2, <3>4, <3>5
  <2>8. \A i \in 0..N : o[i] \in Nat /\ o[i] <= Len(F)
    <3>1. Len(F) \in Nat
      BY <1>1, <1>6, <2>1, <2>3
    <3>2. QED
      BY <1>1, <2>4, <2>6, <3>1
  <2>9. o[N] = Len(F)
    BY <1>1, <1>6, <2>1, <2>4
  <2>10. Places(o, p)
    BY <2>4, <2>7, <2>8, <2>9 DEF Places, F
  <2>11. QED
    BY <2>10
<1>7. QED
  BY <1>5, <1>6

(* Two plain paths of one directory agree as far as the first goes.         *)
PlainPath(p) == \A i \in 1..(Len(p) - 1) : p[i] = "underscore" => p[i + 1] \notin {"underscore", "slash"}

LEMMA SamePrefix ==
  ASSUME NEW T, "underscore" \in T, NEW p \in Seq(T), NEW q \in Seq(T), NEW o, NEW r,
         Places(o, p), Places(r, q), PlainPath(p), PlainPath(q), Replaced(p) = Replaced(q)
  PROVE  /\ Len(p) <= Len(q)
         /\ o[Len(p)] = r[Len(p)]
         /\ \A i \in 1..Len(p) : p[i] = q[i]
<1> DEFINE F == Replaced(p)
           P(k) == k <= Len(q) /\ o[k] = r[k] /\ \A i \in 1..k : p[i] = q[i]
           S == {k \in Nat : k <= Len(p) => P(k)}
<1>1. Len(p) \in Nat /\ Len(q) \in Nat
  OBVIOUS
<1>2. /\ \A i \in 0..Len(p) : o[i] \in Nat /\ o[i] <= Len(F)
      /\ o[0] = 0 /\ o[Len(p)] = Len(F)
      /\ \A i \in 1..Len(p) :
           o[i] = o[i - 1] + Width(p[i]) /\ F[o[i - 1] + 1] = Head1(p[i])
           /\ (p[i] = "slash" => F[o[i - 1] + 2] = "underscore")
  BY DEF Places
<1>3. /\ \A i \in 0..Len(q) : r[i] \in Nat /\ r[i] <= Len(F)
      /\ r[0] = 0 /\ r[Len(q)] = Len(F)
      /\ \A i \in 1..Len(q) :
           r[i] = r[i - 1] + Width(q[i]) /\ F[r[i - 1] + 1] = Head1(q[i])
           /\ (q[i] = "slash" => F[r[i - 1] + 2] = "underscore")
  BY DEF Places
<1> HIDE DEF F
<1>4. 0 \in S
  BY <1>1, <1>2, <1>3
<1>5. ASSUME NEW k \in Nat, k \in S PROVE k + 1 \in S
  <2> SUFFICES ASSUME k + 1 <= Len(p) PROVE P(k + 1)
    OBVIOUS
  <2> DEFINE a == p[k + 1]
             b == q[k + 1]
             e == o[k]
  <2>1. P(k) /\ k + 1 \in 1..Len(p) /\ (k + 1) - 1 = k /\ k \in 0..Len(p) /\ k + 1 \in 0..Len(p)
    BY <1>1, <1>5
  <2>2. /\ e \in Nat /\ o[k + 1] = e + Width(a) /\ F[e + 1] = Head1(a)
        /\ (a = "slash" => F[e + 2] = "underscore") /\ o[k + 1] <= Len(F)
    BY <1>2, <2>1
  <2>3. Width(a) \in {1, 2} /\ Width(b) \in {1, 2}
    BY DEF Width
  <2>4. Len(F) \in Nat
    BY <1>1, <1>2
  <2>5. k # Len(q)
    <3>1. ASSUME k = Len(q) PROVE FALSE
      <4>1. e = Len(F)
        BY <1>3, <2>1, <3>1
      <4>2. QED
        BY <2>2, <2>3, <2>4, <4>1
    <3>2. QED
      BY <3>1
  <2>6. k + 1 \in 1..Len(q) /\ k + 1 \in 0..Len(q)
    BY <1>1, <2>1, <2>5
  <2>7. /\ r[k + 1] = e + Width(b) /\ F[e + 1] = Head1(b)
        /\ (b = "slash" => F[e + 2] = "underscore") /\ r[k + 1] <= Len(F)
    BY <1>3, <2>1, <2>6
  <2>8. ASSUME a = "slash", b # "slash" PROVE FALSE
    <3>1. b = "underscore" /\ F[e + 2] = "underscore" /\ Width(a) = 2 /\ Width(b) = 1
      BY <2>2, <2>7, <2>8 DEF Head1, Width
    <3>2. r[k + 1] = e + 1 /\ ~(Len(F) <= e + 1)
      BY <2>2, <2>4, <2>7, <3>1
    <3>3. k + 1 # Len(q)
      BY <1>3, <2>2, <2>4, <3>2
    <3>4. k + 2 \in 1..Len(q) /\ (k + 2) - 1 = k + 1 /\ k + 1 \in 1..(Len(q) - 1) /\ (k + 1) + 1 = k + 2
      BY <1>1, <2>6, <3>3
    <3>5. F[r[k + 1] + 1] = Head1(q[k + 2])
      BY <1>3, <3>4
    <3>6. (e + 1) + 1 = e + 2
      BY <2>2
    <3>7. Head1(q[k + 2]) = "underscore"
      BY <3>1, <3>2, <3>5, <3>6
    <3>8. q[k + 2] \in {"underscore", "slash"}
      BY <3>7 DEF Head1
    <3>9. QED
      BY <3>1, <3>4, <3>8 DEF PlainPath
  <2>9. ASSUME b = "slash", a # "slash" PROVE FALSE
    <3>1. a = "underscore" /\ F[e + 2] = "underscore" /\ Width(b) = 2 /\ Width(a) = 1
      BY <2>2, <2>7, <2>9 DEF Head1, Width
    <3>2. o[k + 1] = e + 1 /\ ~(Len(F) <= e + 1)
      BY <2>2, <2>4, <2>7, <3>1
    <3>3. k + 1 # Len(p)
      BY <1>2, <2>2, <2>4, <3>2
    <3>4. k + 2 \in 1..Len(p) /\ (k + 2) - 1 = k + 1 /\ k + 1 \in 1..(Len(p) - 1) /\ (k + 1) + 1 = k + 2
      BY <1>1, <2>1, <3>3
    <3>5. F[o[k + 1] + 1] = Head1(p[k + 2])
      BY <1>2, <3>4
    <3>6. (e + 1) + 1 = e + 2
      BY <2>2
    <3>7. Head1(p[k + 2]) = "underscore"
      BY <3>1, <3>2, <3>5, <3>6
    <3>8. p[k + 2] \in {"underscore", "slash"}
      BY <3>7 DEF Head1
    <3>9. QED
      BY <3>1, <3>4, <3>8 DEF PlainPath
  <2>10. a = b
    <3>1. CASE a = "slash"
      BY <2>8, <3>1
    <3>2. CASE a # "slash"
      <4>1. b # "slash"
        BY <2>9, <3>2
      <4>2. QED
        BY <2>2, <2>7, <3>2, <4>1 DEF Head1
    <3>3. QED
      BY <3>1, <3>2
  <2>11. o[k + 1] = r[k + 1]
    BY <2>2, <2>7, <2>10
  <2>12. \A i \in 1..(k + 1) : p[i] = q[i]
    <3>1. \A i \in 1..(k + 1) : i = k + 1 \/ i \in 1..k
      OBVIOUS
    <3>2. QED
      BY <2>1, <2>10, <3>1
  <2>13. QED
    BY <2>6, <2>11, <2>12
<1> HIDE DEF S, P
<1>6. \A k \in Nat : k \in S
  BY <1>4, <1>5, NatSet
<1>7. Len(p) \in S
  BY <1>1, <1>6
<1>8. P(Len(p))
  BY <1>1, <1>7 DEF S
<1>9. QED
  BY <1>8 DEF P

(* So modules of different plain paths have different directories.          *)
LEMMA PlainIsSeparate ==
  ASSUME corpus \in Corpora, PlainPaths
  PROVE  Separate
<1> DEFINE T == Parts \cup {"underscore", "slash"}
<1>1. \A m \in Modules : corpus.path[m] \in Seq(T)
  BY CorporaAssumption
<1>2. \A m, n \in Modules : m # n => corpus.path[m] # corpus.path[n]
  BY CorporaAssumption
<1>3. ASSUME NEW m \in Modules, NEW n \in Modules, SubName(m) = SubName(n)
      PROVE  corpus.path[m] = corpus.path[n]
  <2> DEFINE p == corpus.path[m]
             q == corpus.path[n]
  <2>1. p \in Seq(T) /\ q \in Seq(T) /\ "underscore" \in T /\ PlainPath(p) /\ PlainPath(q)
    BY <1>1 DEF PlainPaths, PlainPath
  <2>2. Replaced(p) = Replaced(q)
    BY <1>3 DEF SubName
  <2> HIDE DEF p, q, T
  <2>3. PICK o : Places(o, p)
    BY <2>1, HasPlaces
  <2>4. PICK r : Places(r, q)
    BY <2>1, HasPlaces
  <2>5. Len(p) <= Len(q) /\ \A i \in 1..Len(p) : p[i] = q[i]
    BY <2>1, <2>2, <2>3, <2>4, SamePrefix
  <2>6. Len(q) <= Len(p)
    BY <2>1, <2>2, <2>3, <2>4, SamePrefix
  <2>7. p = q
    BY <2>1, <2>5, <2>6
  <2>8. QED
    BY <2>7 DEF p, q
<1>4. QED
  BY <1>2, <1>3 DEF Separate

(* In a corpus of plain paths modules that share a base name do not         *)
(* collide: they count and judge only files of their own directory.         *)
THEOREM PlainNamesAreOwn == Spec => []OwnLitmus
<1>1. SInv /\ OwnFiles => OwnLitmus
  BY PlainIsSeparate DEF SInv, TypeOK, OwnFiles, OwnLitmus
<1>2. QED
  BY <1>1, SweepInvariant, FilesAreOwn, PTL

----------------------------------------------------------------------------
(* What stays of a sequence.                                                *)
LEMMA WithinFacts ==
  ASSUME NEW T, NEW s \in Seq(T), NEW S
  PROVE  Within(s, S) \in Seq(T \cap S) /\ Range(Within(s, S)) = Range(s) \cap S
<1> DEFINE parts == [i \in DOMAIN s |-> IF s[i] \in S THEN <<s[i]>> ELSE <<>>]
<1>1. Len(s) \in Nat /\ DOMAIN s = 1..Len(s) /\ \A i \in 1..Len(s) : s[i] \in T
  OBVIOUS
<1>2. parts \in Seq(Seq(T \cap S)) /\ Len(parts) = Len(s)
  <2>1. \A i \in 1..Len(s) : parts[i] \in Seq(T \cap S)
    <3> TAKE i \in 1..Len(s)
    <3>1. CASE s[i] \in S
      <4>1. s[i] \in T \cap S
        BY <1>1, <3>1
      <4>2. QED
        BY <1>1, <3>1, <4>1
    <3>2. CASE s[i] \notin S
      BY <1>1, <3>2
    <3>3. QED
      BY <3>1, <3>2
  <2>2. parts \in [1..Len(s) -> Seq(T \cap S)]
    BY <1>1, <2>1
  <2> HIDE DEF parts
  <2>3. QED
    BY <1>1, <2>2
<1>3. \A i \in 1..Len(s) : Range(parts[i]) = {s[i]} \cap S
  <2> TAKE i \in 1..Len(s)
  <2>1. Range(<<s[i]>>) = {s[i]} /\ Range(<<>>) = {}
    BY DEF Range
  <2>2. QED
    BY <1>1, <2>1
<1>4. Within(s, S) = FlattenSeq(parts)
  BY DEF Within
<1> HIDE DEF parts
<1>5. Within(s, S) \in Seq(T \cap S) /\ Range(Within(s, S)) = UNION {Range(parts[i]) : i \in 1..Len(s)}
  BY <1>2, <1>4, Flattened
<1>6. Range(s) = {s[i] : i \in 1..Len(s)}
  BY <1>1 DEF Range
<1>7. QED
  BY <1>3, <1>5, <1>6

(* Each element is kept, once.                                              *)
LEMMA OnceFacts ==
  ASSUME NEW T, NEW s \in Seq(T)
  PROVE  Once(s) \in Seq(T) /\ Range(Once(s)) = Range(s) /\ IsInjective(Once(s))
<1> DEFINE IsFirst(i) == \A j \in 1..(i - 1) : s[j] # s[i]
           parts == [i \in DOMAIN s |-> IF \E j \in 1..(i - 1) : s[j] = s[i] THEN <<>> ELSE <<s[i]>>]
<1>1. Len(s) \in Nat /\ DOMAIN s = 1..Len(s) /\ \A i \in 1..Len(s) : s[i] \in T
  OBVIOUS
<1>2. Once(s) = FlattenSeq(parts)
  BY DEF Once
<1>3. \A i \in 1..Len(s) : parts[i] = IF IsFirst(i) THEN <<s[i]>> ELSE <<>>
  BY <1>1
<1>4. parts \in [1..Len(s) -> Seq(T)]
  BY <1>1
<1> HIDE DEF parts
<1>5. parts \in Seq(Seq(T)) /\ Len(parts) = Len(s)
  BY <1>1, <1>4
<1>6. CASE Len(s) = 0
  <2>1. Once(s) = <<>> /\ s = <<>>
    BY <1>2, <1>5, <1>6 DEF FlattenSeq
  <2>2. QED
    BY <2>1 DEF IsInjective
<1>7. CASE Len(s) # 0
  <2>1. PICK f : Joins(f, parts, Len(parts)) /\ FlattenSeq(parts) = f[Len(parts)]
    BY <1>1, <1>5, <1>7, FlattenJoins
  <2> DEFINE N == Len(s)
             Good(i) == f[i] \in Seq(T) /\ Range(f[i]) = {s[j] : j \in 1..i} /\ IsInjective(f[i])
             S == {i \in Nat : i \in 1..N => Good(i)}
  <2>2. \A i \in 1..N : f[i] = IF i = 1 THEN parts[i] ELSE f[i - 1] \o parts[i]
    BY <1>5, <2>1 DEF Joins
  <2>3. ASSUME NEW i \in Nat, i \in S PROVE i + 1 \in S
    <3> SUFFICES ASSUME i + 1 \in 1..N PROVE Good(i + 1)
      OBVIOUS
    <3>1. CASE i = 0
      <4>1. f[1] = <<s[1]>> /\ 1 \in 1..N /\ s[1] \in T
        <5>1. 1 \in 1..N
          BY <1>1, <1>7
        <5>2. IsFirst(1)
          OBVIOUS
        <5>3. parts[1] = <<s[1]>>
          BY <1>3, <5>1, <5>2
        <5>4. QED
          BY <1>1, <2>2, <5>1, <5>3
      <4>2. {s[j] : j \in 1..1} = {s[1]} /\ Range(<<s[1]>>) = {s[1]} /\ IsInjective(<<s[1]>>)
        BY DEF Range, IsInjective
      <4>3. QED
        <5>1. f[1] \in Seq(T)
          BY <4>1
        <5>2. Good(1)
          BY <4>1, <4>2, <5>1
        <5>3. QED
          BY <3>1, <5>2
    <3>2. CASE i # 0
      <4>1. i \in 1..N /\ i + 1 # 1 /\ (i + 1) - 1 = i
        BY <1>1, <3>2
      <4>2. f[i] \in Seq(T) /\ Range(f[i]) = {s[j] : j \in 1..i} /\ IsInjective(f[i])
        BY <2>3, <4>1
      <4>3. f[i + 1] = f[i] \o parts[i + 1]
        BY <2>2, <4>1
      <4>4. 1..(i + 1) = (1..i) \cup {i + 1}
        BY <4>1
      <4>5. CASE IsFirst(i + 1)
        <5>1. parts[i + 1] = <<s[i + 1]>> /\ s[i + 1] \in T /\ s[i + 1] \notin Range(f[i])
          BY <1>1, <1>3, <4>1, <4>2, <4>5
        <5>2. f[i + 1] = Append(f[i], s[i + 1])
          BY <4>2, <4>3, <5>1
        <5>3. f[i + 1] \in Seq(T) /\ Range(f[i + 1]) = Range(f[i]) \cup {s[i + 1]}
            <6>1. <<s[i + 1]>> \in Seq(T) /\ Range(<<s[i + 1]>>) = {s[i + 1]}
              BY <5>1 DEF Range
            <6>2. QED
              <7> DEFINE t == <<s[i + 1]>>
              <7>1. t \in Seq(T) /\ Range(t) = {s[i + 1]} /\ f[i + 1] = f[i] \o t
                BY <4>3, <5>1, <6>1
              <7> HIDE DEF t
              <7>2. f[i] \in Seq(T)
                BY <4>2
              <7>3. f[i] \o t \in Seq(T) /\ Range(f[i] \o t) = Range(f[i]) \cup Range(t)
                BY <7>1, <7>2, Joined
              <7>4. QED
                BY <7>1, <7>3
          <5>4. IsInjective(f[i + 1])
          <6>1. DOMAIN f[i] = 1..Len(f[i]) /\ DOMAIN f[i + 1] = 1..(Len(f[i]) + 1) /\ Len(f[i]) \in Nat
            BY <4>2, <5>2
          <6>2. \A a \in 1..Len(f[i]) : f[i + 1][a] = f[i][a] /\ f[i][a] # s[i + 1]
            BY <4>2, <5>1, <5>2, <6>1 DEF Range
          <6>3. f[i + 1][Len(f[i]) + 1] = s[i + 1]
            BY <4>2, <5>2
          <6>4. \A a \in 1..(Len(f[i]) + 1) : a \in 1..Len(f[i]) \/ a = Len(f[i]) + 1
            BY <6>1
          <6>5. QED
            BY <4>2, <6>1, <6>2, <6>3, <6>4 DEF IsInjective
        <5>5. QED
          BY <4>2, <4>4, <5>3, <5>4
      <4>6. CASE ~IsFirst(i + 1)
        <5>1. parts[i + 1] = <<>> /\ f[i + 1] = f[i]
          <6>1. parts[i + 1] = <<>>
            BY <1>3, <4>6
          <6>2. f[i] \o <<>> = f[i]
            BY <4>2, ConcatEmptySeq
          <6>3. QED
            BY <4>3, <6>1, <6>2
        <5>2. s[i + 1] \in {s[j] : j \in 1..i}
          BY <4>1, <4>6
        <5>3. QED
          BY <4>2, <4>4, <5>1, <5>2
      <4>7. QED
        BY <4>5, <4>6
    <3>3. QED
      BY <3>1, <3>2
  <2>4. 0 \in S
    OBVIOUS
  <2> HIDE DEF S
  <2>5. \A i \in Nat : i \in S
    BY <2>3, <2>4, NatSet
  <2>6. Good(N)
    <3>1. N \in Nat /\ N \in 1..N
      BY <1>1, <1>7
    <3>2. N \in S
      BY <2>5, <3>1
    <3> HIDE DEF Good, N
    <3>3. QED
      BY <3>1, <3>2 DEF S
  <2>7. Range(s) = {s[i] : i \in 1..N}
    BY <1>1 DEF Range
  <2>8. QED
    BY <1>2, <1>5, <2>1, <2>6, <2>7
<1>8. QED
  BY <1>6, <1>7

----------------------------------------------------------------------------
(* The tables.  An instruction of the code is lowered to a barrier herd7    *)
(* takes without operands.                                                  *)
LEMMA LoweredIsBarrier ==
  ASSUME NEW mn \in OrderingMnemonics
  PROVE  barrierEquiv(mn) \in PureBarriers
<1>1. mnemonicToHerd7(mn) # Empty
  BY DEF OrderingMnemonics
<1>2. CASE IsLoadInsn(mn) \/ IsStoreInsn(mn)
  BY <1>2 DEF barrierEquiv, PureBarriers
<1>3. CASE ~IsLoadInsn(mn) /\ ~IsStoreInsn(mn)
  <2>1. barrierEquiv(mn) = mnemonicToHerd7(mn)
    BY <1>3 DEF barrierEquiv
  <2>2. /\ mn \notin LoadAcquire /\ mn \notin StoreRelease \ {"stlxp"}
        /\ mn \notin RMW.SC \cup RMW.Acquire \cup RMW.Release
    BY <1>3 DEF IsLoadInsn, IsStoreInsn
  <2>3. QED
    BY <1>1, <2>1, <2>2 DEF mnemonicToHerd7, PureBarriers
<1>4. QED
  BY <1>2, <1>3

LEMMA OrderingIsBarrier ==
  ASSUME NEW o
  PROVE  orderingToHerd7Barrier(o) \in PureBarriers \cup {Empty}
  BY DEF orderingToHerd7Barrier, PureBarriers

OrderingInstSet ==
  {AsmOrderingInst(mn) : mn \in OrderingMnemonics}
    \cup {[token |-> b, lowered |-> b, acquires |-> FALSE] : b \in PureBarriers}

LEMMA OrderingInstLowered ==
  ASSUME NEW oi \in OrderingInstSet
  PROVE  oi.lowered \in PureBarriers
<1>1. CASE \E mn \in OrderingMnemonics : oi = AsmOrderingInst(mn)
  <2>1. PICK mn \in OrderingMnemonics : oi = AsmOrderingInst(mn)
    BY <1>1
  <2>2. oi.lowered = barrierEquiv(mn)
    BY <2>1 DEF AsmOrderingInst
  <2>3. QED
    BY <2>2, LoweredIsBarrier
<1>2. CASE \E b \in PureBarriers : oi = [token |-> b, lowered |-> b, acquires |-> FALSE]
  BY <1>2
<1>3. QED
  BY <1>1, <1>2 DEF OrderingInstSet

LEMMA InstKinds ==
  ASSUME NEW inst \in Instructions
  PROVE  /\ inst.op \in {"load", "store", "asm", "call"}
         /\ inst.op \in {"load", "store"} => inst.obj \in Objs
         /\ inst.mns \in Seq(Mnemonics)
         /\ inst.op # "asm" => inst.mns = <<>>
         /\ inst.op = "call" => inst.fns \in [{1} -> Callees]
<1>1. CASE inst \in [op : {"load", "store"}, obj : Objs, mns : {<<>>}, fns : {<<>>}, long : BOOLEAN]
  <2>1. inst.mns = <<>> /\ <<>> \in Seq(Mnemonics)
    BY <1>1
  <2>2. QED
    BY <1>1, <2>1
<1>2. CASE inst \in [op : {"asm"}, obj : Objs \cup {None}, mns : Seq(Mnemonics), fns : {<<>>}, long : BOOLEAN]
  BY <1>2
<1>3. CASE inst \in [op : {"call"}, obj : Objs \cup {None}, mns : {<<>>}, fns : [{1} -> Callees], long : BOOLEAN]
  <2>1. inst.mns = <<>> /\ <<>> \in Seq(Mnemonics)
    BY <1>3
  <2>2. QED
    BY <1>3, <2>1
<1>4. QED
  BY <1>1, <1>2, <1>3 DEF Instructions

(* The ordering instructions of one instruction.                            *)
LEMMA OrderingInstsOf ==
  ASSUME NEW inst \in Instructions
  PROVE  /\ OrderingInsts(inst) \in Seq(OrderingInstSet)
         /\ inst.op = "asm" => Range(OrderingInsts(inst)) = {AsmOrderingInst(mn) : mn \in Texts(inst) \cap OrderingMnemonics}
         /\ inst.op = "call" =>
              LET token == orderingToHerd7Barrier(EmittedOrdering(inst.fns[1]))
              IN  Range(OrderingInsts(inst))
                    = IF token = Empty THEN {} ELSE {[token |-> token, lowered |-> token, acquires |-> FALSE]}
         /\ inst.op \in {"load", "store"} => OrderingInsts(inst) = <<>>
<1>1. CASE inst.op = "asm"
  <2> DEFINE kept == Within(inst.mns, OrderingMnemonics)
             ois == [i \in DOMAIN kept |-> AsmOrderingInst(kept[i])]
  <2>1. OrderingInsts(inst) = ois
    BY <1>1 DEF OrderingInsts, collectAsmOrderingInsts
  <2>2. inst.mns \in Seq(Mnemonics)
    BY InstKinds
  <2>3. kept \in Seq(Mnemonics \cap OrderingMnemonics) /\ Range(kept) = Range(inst.mns) \cap OrderingMnemonics
    BY <2>2, WithinFacts
  <2> HIDE DEF kept
  <2>4. Len(kept) \in Nat /\ DOMAIN kept = 1..Len(kept) /\ \A i \in 1..Len(kept) : kept[i] \in OrderingMnemonics
    BY <2>3
  <2>5. \A i \in 1..Len(kept) : AsmOrderingInst(kept[i]) \in OrderingInstSet
    BY <2>4 DEF OrderingInstSet
  <2>6. ois \in Seq(OrderingInstSet)
    BY <2>4, <2>5
  <2>7. Range(ois) = {AsmOrderingInst(mn) : mn \in Range(kept)}
    BY DEF Range
  <2>8. Range(inst.mns) = Texts(inst)
    BY DEF Range, Texts
  <2>9. QED
    BY <1>1, <2>1, <2>3, <2>6, <2>7, <2>8
<1>2. CASE inst.op = "call"
  <2> DEFINE token == orderingToHerd7Barrier(EmittedOrdering(inst.fns[1]))
             oi == [token |-> token, lowered |-> token, acquires |-> FALSE]
  <2>1. OrderingInsts(inst) = IF token = Empty THEN <<>> ELSE <<oi>>
    BY <1>2 DEF OrderingInsts, collectExtFnOrderingInsts
  <2>2. token # Empty => token \in PureBarriers
    BY OrderingIsBarrier
  <2>3. token # Empty => oi \in OrderingInstSet
    BY <2>2 DEF OrderingInstSet
  <2> HIDE DEF token
  <2> HIDE DEF oi
  <2>4. Range(<<>>) = {} /\ Range(<<oi>>) = {oi}
    BY RangeOfOne
  <2>5. OrderingInsts(inst) \in Seq(OrderingInstSet)
    BY <2>1, <2>3
  <2>6. Range(OrderingInsts(inst)) = IF token = Empty THEN {} ELSE {oi}
    BY <2>1, <2>4
  <2>7. QED
    BY <1>2, <2>5, <2>6 DEF token, oi
<1>3. CASE inst.op \in {"load", "store"}
  BY <1>3 DEF OrderingInsts
<1>4. QED
  BY <1>1, <1>2, <1>3, InstKinds

(* Those between two positions are those of the instructions between.       *)
LEMMA CollectedBetween ==
  ASSUME NEW insts \in Seq(Instructions), NEW lo \in Nat, NEW hi \in DOMAIN insts, lo < hi
  PROVE  /\ collectOrderingBetween(insts, lo, hi) \in Seq(OrderingInstSet)
         /\ Range(collectOrderingBetween(insts, lo, hi))
              = UNION {Range(OrderingInsts(insts[k])) : k \in (lo + 1)..(hi - 1)}
<1> DEFINE each == [i \in 1..(hi - lo - 1) |-> OrderingInsts(insts[lo + i])]
           all == FlattenSeq(each)
<1>1. /\ Len(insts) \in Nat /\ hi \in 1..Len(insts) /\ hi - lo - 1 \in Nat
      /\ \A k \in 1..Len(insts) : insts[k] \in Instructions
  OBVIOUS
<1>2. \A i \in 1..(hi - lo - 1) : lo + i \in 1..Len(insts) /\ lo + i \in (lo + 1)..(hi - 1)
  BY <1>1
<1>3. \A i \in 1..(hi - lo - 1) : each[i] \in Seq(OrderingInstSet)
  BY <1>1, <1>2, OrderingInstsOf
<1>4. each \in Seq(Seq(OrderingInstSet)) /\ Len(each) = hi - lo - 1
  <2> DEFINE n == hi - lo - 1
  <2>1. n \in Nat /\ each \in [1..n -> Seq(OrderingInstSet)]
    BY <1>1, <1>3
  <2> HIDE DEF each, n
  <2>2. each \in Seq(Seq(OrderingInstSet)) /\ Len(each) = n
    BY <2>1
  <2>3. QED
    BY <2>2 DEF n
<1>5. all \in Seq(OrderingInstSet) /\ Range(all) = UNION {Range(each[i]) : i \in 1..(hi - lo - 1)}
  <2> HIDE DEF each
  <2>1. QED
    BY <1>4, Flattened
<1>6. {Range(each[i]) : i \in 1..(hi - lo - 1)} = {Range(OrderingInsts(insts[k])) : k \in (lo + 1)..(hi - 1)}
  <2>1. \A i \in 1..(hi - lo - 1) : each[i] = OrderingInsts(insts[lo + i])
    OBVIOUS
  <2> HIDE DEF each
  <2>2. \A k \in (lo + 1)..(hi - 1) : k - lo \in 1..(hi - lo - 1) /\ lo + (k - lo) = k
    BY <1>1
  <2>3. QED
    BY <1>2, <2>1, <2>2
<1>7. collectOrderingBetween(insts, lo, hi) = Once(all)
  BY DEF collectOrderingBetween
<1> HIDE DEF all, each
<1>8. QED
  BY <1>5, <1>6, <1>7, OnceFacts

LEMMA EmittedFences ==
  ASSUME NEW ois \in Seq(OrderingInstSet)
  PROVE  /\ emitOrderingInsts(ois) \in Seq(Fences)
         /\ Range(emitOrderingInsts(ois)) = {Fence(oi.lowered) : oi \in Range(ois)}
<1>1. Len(ois) \in Nat /\ DOMAIN ois = 1..Len(ois) /\ \A i \in 1..Len(ois) : ois[i] \in OrderingInstSet
  OBVIOUS
<1>2. \A i \in 1..Len(ois) : Fence(ois[i].lowered) \in Fences
  BY <1>1, OrderingInstLowered DEF Fences
<1>3. QED
  BY <1>1, <1>2 DEF emitOrderingInsts, Range

----------------------------------------------------------------------------
(* Searches.                                                                *)
LEMMA FirstOfFacts ==
  ASSUME NEW S, S \subseteq Nat \ {0}
  PROVE  /\ S = {} => FirstOf(S) = 0
         /\ S # {} => FirstOf(S) \in S /\ \A j \in S : FirstOf(S) <= j
<1>1. CASE S # {}
  <2>1. Min(S) \in S /\ \A j \in S : Min(S) <= j
    BY <1>1, HasMin
  <2>2. QED
    BY <1>1, <2>1 DEF FirstOf
<1>2. QED
  BY <1>1 DEF FirstOf

LEMMA LastOfFacts ==
  ASSUME NEW S, NEW n \in Nat, S \subseteq 1..n
  PROVE  /\ S = {} => LastOf(S) = 0
         /\ S # {} => LastOf(S) \in S /\ \A j \in S : j <= LastOf(S)
<1>1. CASE S # {}
  <2> DEFINE R == {n - i : i \in S}
  <2>1. R \subseteq Nat /\ R # {}
    <3>1. \A i \in S : n - i \in Nat
      OBVIOUS
    <3>2. QED
      BY <1>1, <3>1
  <2>2. Min(R) \in R /\ \A j \in R : Min(R) <= j
    BY <2>1, HasMin
  <2>3. PICK i \in S : Min(R) = n - i
    BY <2>2
  <2>4. \A j \in S : n - i <= n - j
    BY <2>2, <2>3
  <2>5. \A j \in S : j <= i
    BY <2>4
  <2>6. QED
    BY <1>1, <2>5 DEF LastOf
<1>2. QED
  BY <1>1 DEF LastOf

LEMMA Found ==
  ASSUME NEW T, NEW insts \in Seq(T), NEW i \in 0..Len(insts)
  PROVE  findInstByIR(insts, i) \in 0..Len(insts)
<1>1. CASE i = 0
  BY <1>1 DEF findInstByIR
<1>2. CASE i # 0
  <2> DEFINE S == {j \in DOMAIN insts : j = i \/ (insts[j] = insts[i] /\ ~HasResult(insts[i]))}
  <2>1. S \subseteq 1..Len(insts) /\ i \in S
    BY <1>2
  <2>2. findInstByIR(insts, i) = FirstOf(S)
    BY <1>2 DEF findInstByIR
  <2> HIDE DEF S
  <2>3. FirstOf(S) \in S
      <3>1. S \subseteq Nat \ {0} /\ S # {}
        BY <2>1
      <3>2. QED
        BY <3>1, FirstOfFacts
    <2>4. FirstOf(S) \in 1..Len(insts)
      BY <2>1, <2>3, Zenon
    <2>5. Len(insts) \in Nat
      OBVIOUS
    <2>6. QED
      BY <2>2, <2>4, <2>5
<1>3. QED
  BY <1>1, <1>2

LEMMA AnchorFound ==
  ASSUME NEW p \in Inputs
  PROVE  /\ findAnchorInstIdx(p) \in 0..Len(p.code)
         /\ p.site # "store plain" => findAnchorInstIdx(p) = p.at /\ p.at # 0
         /\ p.site = "store plain" => findAnchorInstIdx(p) = 0
<1> DEFINE S == {i \in DOMAIN p.code : IsAnchorInst(p, i)}
<1>1. p.code \in Seq(Instructions) /\ p.at \in DOMAIN p.code
  BY InputsAssumption
<1>2. Len(p.code) \in Nat /\ DOMAIN p.code = 1..Len(p.code)
  BY <1>1
<1>3. S \subseteq 1..Len(p.code)
  BY <1>2
<1>4. p.site # "store plain" => Located(p)
  BY InputsAssumption, Zenon
<1>5. p.site # "store plain" => p.at \in S /\ \A i \in 1..(p.at - 1) : i \notin S
  BY <1>1, <1>4 DEF Located
<1>6. p.site = "store plain" => S = {}
  BY DEF IsAnchorInst
<1>7. findAnchorInstIdx(p) = FirstOf(S)
  BY DEF findAnchorInstIdx
<1> HIDE DEF S
<1>8. S \subseteq Nat \ {0}
  BY <1>2, <1>3
<1>9. S # {} => FirstOf(S) \in S /\ \A j \in S : FirstOf(S) <= j
  BY <1>8, FirstOfFacts
<1>10. S = {} => FirstOf(S) = 0
  BY <1>8, FirstOfFacts
<1> DEFINE found == findAnchorInstIdx(p)
           N == Len(p.code)
<1>11. p.site = "store plain" => found = 0
  BY <1>6, <1>7, <1>10
<1>12. ASSUME p.site # "store plain" PROVE found = p.at
  <2>1. FirstOf(S) \in S /\ FirstOf(S) <= p.at
    BY <1>5, <1>9, <1>12
  <2>2. FirstOf(S) \in 1..Len(p.code) /\ p.at \in 1..Len(p.code)
    BY <1>1, <1>2, <1>3, <2>1
  <2>3. FirstOf(S) \notin 1..(p.at - 1)
    BY <1>5, <1>12, <2>1
  <2>4. FirstOf(S) = p.at
    BY <1>2, <2>1, <2>2, <2>3
  <2>5. QED
    BY <1>7, <2>4
<1>13. p.at \in 1..N /\ N \in Nat
  BY <1>1, <1>2
<1> HIDE DEF found, N
<1>14. p.at # 0 /\ p.at \in 0..N /\ 0 \in 0..N
  BY <1>13
<1>15. found \in 0..N
  BY <1>11, <1>12, <1>14
<1>16. QED
  BY <1>11, <1>12, <1>14, <1>15, Zenon DEF found, N


----------------------------------------------------------------------------
(* Variables.  Every object of the pair has one, and no two have the same.  *)
LEMMA PairFacts ==
  ASSUME pair \in Inputs
  PROVE  /\ pair.code \in Seq(Instructions) /\ Len(pair.code) \in Nat /\ DOMAIN pair.code = 1..Len(pair.code)
         /\ pair.partner \in Seq(Instructions) /\ Len(pair.partner) \in Nat
         /\ DOMAIN pair.partner = 1..Len(pair.partner)
         /\ pair.before \in 0..Len(pair.code) /\ pair.after \in 0..Len(pair.code)
         /\ pair.before # 0 => pair.before \in DOMAIN pair.code /\ pair.code[pair.before].obj \in Objs
         /\ pair.after # 0 => pair.after \in DOMAIN pair.code /\ pair.code[pair.after].obj \in Objs
         /\ pair.alloc # None => pair.alloc \in Objs
         /\ pair.accesses \in Seq(DOMAIN pair.partner) /\ Len(pair.accesses) \in Nat
         /\ DOMAIN pair.accesses = 1..Len(pair.accesses)
         /\ \A k \in 1..Len(pair.accesses) :
              pair.accesses[k] \in DOMAIN pair.partner /\ pair.partner[pair.accesses[k]].obj \in Objs
<1>1. /\ pair.code \in Seq(Instructions) /\ pair.partner \in Seq(Instructions)
      /\ pair.at \in DOMAIN pair.code
      /\ pair.before \in 0..(pair.at - 1)
      /\ pair.after \in {0} \cup ((pair.at + 1)..Len(pair.code))
      /\ pair.alloc \in Objs \cup {None}
      /\ pair.accesses \in Seq(DOMAIN pair.partner)
      /\ \A i \in DOMAIN pair.accesses : pair.partner[pair.accesses[i]].obj \in Objs
  BY InputsAssumption
<1>2. /\ pair.before # 0 => pair.code[pair.before].op \in {"load", "store"}
      /\ pair.after # 0 => pair.code[pair.after].op \in {"load", "store"}
  BY InputsAssumption
<1>3. /\ Len(pair.code) \in Nat /\ DOMAIN pair.code = 1..Len(pair.code)
      /\ \A i \in 1..Len(pair.code) : pair.code[i] \in Instructions
      /\ Len(pair.partner) \in Nat /\ DOMAIN pair.partner = 1..Len(pair.partner)
  BY <1>1
<1>4. /\ pair.before \in 0..Len(pair.code) /\ (pair.before # 0 => pair.before \in 1..Len(pair.code))
      /\ pair.after \in 0..Len(pair.code) /\ (pair.after # 0 => pair.after \in 1..Len(pair.code))
  BY <1>1, <1>3
<1>5. /\ pair.before # 0 => pair.code[pair.before].obj \in Objs
      /\ pair.after # 0 => pair.code[pair.after].obj \in Objs
  BY <1>2, <1>3, <1>4, InstKinds
<1>6. /\ Len(pair.accesses) \in Nat /\ DOMAIN pair.accesses = 1..Len(pair.accesses)
      /\ \A k \in 1..Len(pair.accesses) : pair.accesses[k] \in DOMAIN pair.partner
  BY <1>1
<1>7. QED
  BY <1>1, <1>3, <1>4, <1>5, <1>6

LEMMA RegisteredFacts ==
  ASSUME pair \in Inputs
  PROVE  /\ Registered \in Seq(Objs) /\ IsInjective(Registered)
         /\ pair.before # 0 => pair.code[pair.before].obj \in Range(Registered)
         /\ pair.alloc # None => pair.alloc \in Range(Registered)
         /\ pair.after # 0 => pair.code[pair.after].obj \in Range(Registered)
         /\ \A k \in 1..Len(pair.accesses) : pair.partner[pair.accesses[k]].obj \in Range(Registered)
<1> DEFINE named(i) == IF i = 0 THEN <<>> ELSE <<pair.code[i].obj>>
           a == named(pair.before)
           b == IF pair.alloc = None THEN <<>> ELSE <<pair.alloc>>
           c == named(pair.after)
           d == [i \in DOMAIN pair.accesses |-> pair.partner[pair.accesses[i]].obj]
           all == a \o b \o c \o d
<1>1. Registered = Once(all)
  BY DEF Registered
<1>2. a \in Seq(Objs) /\ (pair.before # 0 => pair.code[pair.before].obj \in Range(a))
  <2>1. CASE pair.before = 0
    BY <2>1
  <2>2. CASE pair.before # 0
    <3>1. a = <<pair.code[pair.before].obj>> /\ pair.code[pair.before].obj \in Objs
      BY <2>2, PairFacts
    <3>2. QED
      BY <3>1, RangeOfOne
  <2>3. QED
    BY <2>1, <2>2
<1>3. b \in Seq(Objs) /\ (pair.alloc # None => pair.alloc \in Range(b))
  <2>1. CASE pair.alloc = None
    BY <2>1
  <2>2. CASE pair.alloc # None
    <3>1. b = <<pair.alloc>> /\ pair.alloc \in Objs
      BY <2>2, PairFacts
    <3>2. QED
      BY <3>1, RangeOfOne
  <2>3. QED
    BY <2>1, <2>2
<1>4. c \in Seq(Objs) /\ (pair.after # 0 => pair.code[pair.after].obj \in Range(c))
  <2>1. CASE pair.after = 0
    BY <2>1
  <2>2. CASE pair.after # 0
    <3>1. c = <<pair.code[pair.after].obj>> /\ pair.code[pair.after].obj \in Objs
      BY <2>2, PairFacts
    <3>2. QED
      BY <3>1, RangeOfOne
  <2>3. QED
    BY <2>1, <2>2
<1>5. d \in Seq(Objs) /\ \A k \in 1..Len(pair.accesses) : pair.partner[pair.accesses[k]].obj \in Range(d)
  <2> DEFINE N == Len(pair.accesses)
             e(k) == pair.partner[pair.accesses[k]].obj
  <2>1. N \in Nat /\ DOMAIN pair.accesses = 1..N /\ \A k \in 1..N : e(k) \in Objs
    BY PairFacts
  <2>2. d = [i \in 1..N |-> e(i)]
    BY <2>1
  <2> HIDE DEF N, e, d
  <2>3. d \in Seq(Objs) /\ DOMAIN d = 1..N /\ \A k \in 1..N : d[k] = e(k)
    BY <2>1, <2>2
  <2>4. \A k \in 1..N : e(k) \in Range(d)
    BY <2>3 DEF Range
  <2>5. QED
    BY <2>3, <2>4 DEF N, e
<1> HIDE DEF a, b, c, d
<1> DEFINE ab == a \o b
           abc == ab \o c
<1>6. ab \in Seq(Objs) /\ Range(ab) = Range(a) \cup Range(b)
  BY <1>2, <1>3, Joined
<1> HIDE DEF ab
<1>7. abc \in Seq(Objs) /\ Range(abc) = Range(ab) \cup Range(c)
  BY <1>4, <1>6, Joined
<1>8. all = abc \o d
  BY DEF ab
<1> HIDE DEF all, abc
<1>9. all \in Seq(Objs) /\ Range(all) = Range(abc) \cup Range(d)
  BY <1>5, <1>7, <1>8, Joined
<1>10. Once(all) \in Seq(Objs) /\ Range(Once(all)) = Range(all) /\ IsInjective(Once(all))
  BY <1>9, OnceFacts
<1>12. Range(Registered) = Range(a) \cup Range(b) \cup Range(c) \cup Range(d)
  BY <1>1, <1>6, <1>7, <1>9, <1>10
<1>11. QED
  BY <1>1, <1>2, <1>3, <1>4, <1>5, <1>10, <1>12

LEMMA VarOf ==
  ASSUME objs \in Seq(Objs), NEW o \in Range(objs)
  PROVE  Var(o) \in DOMAIN objs /\ objs[Var(o)] = o /\ Var(o) # 0
<1> DEFINE S == {v \in DOMAIN objs : objs[v] = o}
<1>1. DOMAIN objs = 1..Len(objs) /\ Len(objs) \in Nat
  OBVIOUS
<1>2. S \subseteq Nat \ {0} /\ S # {}
  BY <1>1 DEF Range
<1>3. Var(o) = FirstOf(S)
  BY DEF Var
<1> HIDE DEF S
<1>4. Var(o) \in S
  BY <1>2, <1>3, FirstOfFacts
<1>5. QED
  BY <1>2, <1>4 DEF S

----------------------------------------------------------------------------
(* Threads.                                                                 *)
LEMMA BetweenFacts ==
  ASSUME NEW insts \in Seq(Instructions), NEW lo \in 0..Len(insts), NEW hi \in 0..Len(insts)
  PROVE  /\ Between(insts, lo, hi) \in Seq(Fences)
         /\ Range(Between(insts, lo, hi))
              = IF lo # 0 /\ hi # 0 /\ lo < hi
                THEN {Fence(oi.lowered) : oi \in UNION {Range(OrderingInsts(insts[k])) : k \in (lo + 1)..(hi - 1)}}
                ELSE {}
<1>1. CASE lo # 0 /\ hi # 0 /\ lo < hi
  <2>1. Len(insts) \in Nat /\ lo \in Nat /\ hi \in DOMAIN insts
    BY <1>1
  <2> DEFINE ois == collectOrderingBetween(insts, lo, hi)
  <2>2. ois \in Seq(OrderingInstSet)
        /\ Range(ois) = UNION {Range(OrderingInsts(insts[k])) : k \in (lo + 1)..(hi - 1)}
    BY <1>1, <2>1, CollectedBetween
  <2>3. Between(insts, lo, hi) = emitOrderingInsts(ois)
    BY <1>1 DEF Between
  <2> HIDE DEF ois
  <2>4. emitOrderingInsts(ois) \in Seq(Fences)
        /\ Range(emitOrderingInsts(ois)) = {Fence(oi.lowered) : oi \in Range(ois)}
    BY <2>2, EmittedFences
  <2>5. QED
    BY <1>1, <2>2, <2>3, <2>4
<1>2. CASE ~(lo # 0 /\ hi # 0 /\ lo < hi)
  <2>1. Between(insts, lo, hi) = <<>>
    BY <1>2 DEF Between
  <2>2. <<>> \in Seq(Fences)
    OBVIOUS
  <2>3. QED
    BY <1>2, <2>1, <2>2, RangeOfOne
<1>3. QED
  BY <1>1, <1>2

LEMMA AccessLine ==
  ASSUME objs \in Seq(Objs), NEW o \in Range(objs), NEW store
  PROVE  /\ emitAccess(o, store) = Line(IF store THEN "STR" ELSE "LDR", Var(o))
         /\ emitAccess(o, store) \in P0Lines
         /\ emitAccess(o, store).var = Var(o)
  BY VarOf DEF emitAccess, Line, P0Lines

LEMMA AnchorLine ==
  ASSUME NEW p, objs \in Seq(Objs), p.alloc # None => p.alloc \in Range(objs)
  PROVE  /\ emitAnchor(p) \in Seq(P0Lines)
         /\ WritesChannel(p) =>
              \E op \in {"STR", "STLR", "SWPAL"} : emitAnchor(p) = <<Line(op, Var(p.alloc))>>
         /\ ~WritesChannel(p) => Range(emitAnchor(p)) \subseteq Fences
<1> DEFINE op == IF p.site = "store plain" THEN "STR" ELSE IF p.label \in RMW.SC THEN "SWPAL" ELSE "STLR"
           barrier == IF p.site = "asm" /\ mnemonicToHerd7(p.label) \in PureBarriers
                      THEN mnemonicToHerd7(p.label) ELSE orderingToHerd7Barrier(p.ordering)
<1>1. CASE WritesChannel(p)
  <2>1. op \in {"STR", "STLR", "SWPAL"} /\ emitAnchor(p) = <<Line(op, Var(p.alloc))>>
    BY <1>1 DEF emitAnchor
  <2> HIDE DEF op
  <2>2. Var(p.alloc) \in DOMAIN objs
    BY <1>1, VarOf DEF WritesChannel
  <2>3. Line(op, Var(p.alloc)) \in P0Lines
    BY <2>1, <2>2 DEF Line, P0Lines
  <2>4. QED
    BY <1>1, <2>1, <2>3
<1>2. CASE ~WritesChannel(p)
  <2>1. emitAnchor(p) = IF barrier = Empty THEN <<>> ELSE <<Fence(barrier)>>
    BY <1>2 DEF emitAnchor
  <2>2. barrier # Empty => barrier \in PureBarriers
    BY OrderingIsBarrier
  <2> HIDE DEF barrier
  <2>3. barrier # Empty => Fence(barrier) \in Fences
    BY <2>2 DEF Fences
  <2>4. CASE barrier = Empty
    <3>1. emitAnchor(p) = <<>> /\ Range(<<>>) = {}
      BY <2>1, <2>4, RangeOfOne
    <3>2. <<>> \in Seq(P0Lines)
      OBVIOUS
    <3>3. QED
      BY <1>2, <3>1, <3>2, Zenon
  <2>5. CASE barrier # Empty
    <3>1. Range(<<Fence(barrier)>>) = {Fence(barrier)}
      BY RangeOfOne
    <3>2. QED
      BY <1>2, <2>1, <2>3, <2>5, <3>1 DEF P0Lines
  <2>6. QED
    BY <2>4, <2>5
<1>3. QED
  BY <1>1, <1>2

LEMMA FencesAreLines ==
  ASSUME NEW s \in Seq(Fences)
  PROVE  s \in Seq(P0Lines) /\ s \in Seq(P1Lines)
  BY DEF P0Lines, P1Lines

LEMMA BracketLine ==
  ASSUME pair \in Inputs, objs = Registered, NEW i \in {pair.before, pair.after}
  PROVE  /\ BracketAccess(pair, i) \in Seq(P0Lines)
         /\ i = 0 => BracketAccess(pair, i) = <<>>
         /\ i # 0 => BracketAccess(pair, i) = <<emitAccess(pair.code[i].obj, pair.code[i].op = "store")>>
<1>1. objs \in Seq(Objs)
  BY RegisteredFacts
<1>2. i # 0 => pair.code[i].obj \in Range(objs)
  BY RegisteredFacts
<1>3. CASE i = 0
  BY <1>3 DEF BracketAccess
<1>4. CASE i # 0
  <2>1. emitAccess(pair.code[i].obj, pair.code[i].op = "store") \in P0Lines
    BY <1>1, <1>2, <1>4, AccessLine
  <2>2. QED
    BY <1>4, <2>1 DEF BracketAccess
<1>5. QED
  BY <1>3, <1>4

(* The thread of the anchor: the access before, the barriers, the anchor,   *)
(* and behind a fence the barriers and the access after.                    *)
LEMMA ThreadOfAnchor ==
  ASSUME pair \in Inputs, objs = Registered
  PROVE  LET b == findInstByIR(pair.code, pair.before)
             m == findAnchorInstIdx(pair)
             a == findInstByIR(pair.code, pair.after)
         IN  /\ AnchorThread(pair) \in Seq(P0Lines)
             /\ Range(AnchorThread(pair))
                  = Range(BracketAccess(pair, pair.before)) \cup Range(Between(pair.code, b, m))
                      \cup Range(emitAnchor(pair))
                      \cup (IF IsFenceAnchor(pair)
                            THEN Range(Between(pair.code, m, a)) \cup Range(BracketAccess(pair, pair.after)) ELSE {})
<1> DEFINE b == findInstByIR(pair.code, pair.before)
           m == findAnchorInstIdx(pair)
           a == findInstByIR(pair.code, pair.after)
           s == BracketAccess(pair, pair.before)
           t == Between(pair.code, b, m)
           u == emitAnchor(pair)
           v == Between(pair.code, m, a)
           w == BracketAccess(pair, pair.after)
           x == IF IsFenceAnchor(pair) THEN v \o w ELSE <<>>
<1>1. AnchorThread(pair) = s \o t \o u \o x
  BY DEF AnchorThread
<1>2. s \in Seq(P0Lines) /\ w \in Seq(P0Lines)
  BY BracketLine
<1>3. u \in Seq(P0Lines)
  BY RegisteredFacts, AnchorLine
<1>4. b \in 0..Len(pair.code) /\ m \in 0..Len(pair.code) /\ a \in 0..Len(pair.code)
  BY PairFacts, Found, AnchorFound
<1> HIDE DEF b, m, a
<1>5. t \in Seq(P0Lines) /\ v \in Seq(P0Lines)
  BY <1>4, PairFacts, BetweenFacts, FencesAreLines
<1> HIDE DEF s, t, u, v, w
<1> DEFINE vw == v \o w
           st == s \o t
           stu == st \o u
<1>6. vw \in Seq(P0Lines) /\ Range(vw) = Range(v) \cup Range(w)
  BY <1>2, <1>5, Joined
<1>7. x = IF IsFenceAnchor(pair) THEN vw ELSE <<>>
  OBVIOUS
<1> HIDE DEF vw
<1>8. x \in Seq(P0Lines) /\ Range(x) = IF IsFenceAnchor(pair) THEN Range(v) \cup Range(w) ELSE {}
  <2>1. CASE IsFenceAnchor(pair)
    BY <1>6, <1>7, <2>1
  <2>2. CASE ~IsFenceAnchor(pair)
    <3>1. <<>> \in Seq(P0Lines) /\ Range(<<>>) = {}
      <4>1. <<>> \in Seq(P0Lines)
        OBVIOUS
      <4>2. QED
        BY <4>1, RangeOfOne, Zenon
    <3>2. x = <<>>
      BY <1>7, <2>2
    <3>3. QED
      BY <2>2, <3>1, <3>2, Zenon
  <2>3. QED
    BY <2>1, <2>2
<1> HIDE DEF x
<1>9. st \in Seq(P0Lines) /\ Range(st) = Range(s) \cup Range(t)
  BY <1>2, <1>5, Joined
<1>10. AnchorThread(pair) = stu \o x
  BY <1>1
<1> HIDE DEF st
<1>11. stu \in Seq(P0Lines) /\ Range(stu) = Range(st) \cup Range(u)
  BY <1>3, <1>9, Joined
<1> HIDE DEF stu
<1>12. AnchorThread(pair) \in Seq(P0Lines) /\ Range(AnchorThread(pair)) = Range(stu) \cup Range(x)
  BY <1>8, <1>10, <1>11, Joined
<1>13. QED
  BY <1>8, <1>9, <1>11, <1>12 DEF s, t, u, v, w, b, m, a


(* The thread of the partner.  The accesses emitted are those found, the    *)
(* loads of the channel in front when no two of them are told apart.        *)
LEMMA HoistedFacts ==
  ASSUME pair \in Inputs
  PROVE  /\ Hoisted \in Seq(DOMAIN pair.partner)
         /\ Range(Hoisted) = Range(pair.accesses)
         /\ ToldApart => \A k \in DOMAIN Hoisted : Hoisted[k] \in ChanLoads => \A l \in 1..k : Hoisted[l] \in ChanLoads
<1> DEFINE s == pair.accesses
           D == DOMAIN pair.partner
<1>1. s \in Seq(D) /\ Len(s) \in Nat /\ DOMAIN s = 1..Len(s)
      /\ \A k \in 1..Len(s) : s[k] \in D
  BY PairFacts
<1>2. CASE s # <<>> /\ s[1] \in ChanLoads
  <2>1. Hoisted = s
    BY <1>2 DEF Hoisted
  <2>2. ASSUME ToldApart, NEW k \in DOMAIN s, s[k] \in ChanLoads PROVE k = 1
    <3>1. 1 \in DOMAIN s
      BY <1>1, <1>2
    <3>2. pair.partner[s[k]].obj = pair.alloc /\ pair.partner[s[1]].obj = pair.alloc
      BY <1>2, <2>2 DEF ChanLoads, IsChanLoad
    <3>3. QED
      BY <2>2, <3>1, <3>2 DEF ToldApart
  <2>3. QED
    BY <1>1, <1>2, <2>1, <2>2
<1>3. CASE ~(s # <<>> /\ s[1] \in ChanLoads)
  <2> DEFINE t == Within(s, ChanLoads)
             u == Within(s, D \ ChanLoads)
             C == ChanLoads
             h == t \o u
  <2>1. Hoisted = h
    BY <1>3 DEF Hoisted
  <2>2. t \in Seq(D \cap C) /\ Range(t) = Range(s) \cap C
    BY <1>1, WithinFacts
  <2>3. u \in Seq(D \cap (D \ C)) /\ Range(u) = Range(s) \cap (D \ C)
    BY <1>1, WithinFacts
  <2> HIDE DEF t, u, C
  <2>4. t \in Seq(D) /\ u \in Seq(D)
    BY <2>2, <2>3
  <2>5. /\ h \in Seq(D) /\ Len(h) = Len(t) + Len(u)
        /\ \A i \in 1..Len(t) : h[i] = t[i]
        /\ \A i \in 1..Len(u) : h[Len(t) + i] = u[i]
        /\ Range(h) = Range(t) \cup Range(u)
    BY <2>4, Joined
  <2> HIDE DEF h
  <2>6. Range(s) \subseteq D
    BY <1>1 DEF Range
  <2>7. Range(h) = Range(s)
    BY <2>2, <2>3, <2>5, <2>6
  <2>8. Len(t) \in Nat /\ Len(u) \in Nat /\ DOMAIN h = 1..(Len(t) + Len(u))
        /\ (\A i \in 1..Len(t) : t[i] \in C) /\ (\A i \in 1..Len(u) : u[i] \notin C)
    BY <2>2, <2>3, <2>4, <2>5
  <2>9. ASSUME NEW k \in DOMAIN h, h[k] \in C, NEW l \in 1..k PROVE h[l] \in C
    <3>1. CASE k <= Len(t)
      BY <2>5, <2>8, <3>1
    <3>2. CASE ~(k <= Len(t))
      <4>1. k - Len(t) \in 1..Len(u) /\ Len(t) + (k - Len(t)) = k
        BY <2>8, <3>2
      <4>2. QED
        BY <2>5, <2>8, <2>9, <4>1
    <3>3. QED
      BY <3>1, <3>2
  <2>10. QED
    BY <2>1, <2>5, <2>7, <2>9 DEF C
<1>4. QED
  BY <1>2, <1>3

LEMMA VarInjective ==
  ASSUME objs \in Seq(Objs), NEW o \in Range(objs), NEW q \in Range(objs), Var(o) = Var(q)
  PROVE  o = q
BY VarOf

(* The line of an access.                                                   *)
LEMMA PartnerLine ==
  ASSUME pair \in Inputs, objs = Registered, order = Hoisted, NEW k \in DOMAIN order
  PROVE  /\ Access(k).obj \in Range(objs)
         /\ PartnerAccess(Access(k)) \in P1Lines
         /\ PartnerAccess(Access(k)).var = Var(Access(k).obj)
         /\ PartnerAccess(Access(k)).op = "STR" <=> IsStore(Access(k))
         /\ PartnerAccess(Access(k)).op \in {"LDR", "LDAR", "STR"}
<1> DEFINE i == order[k]
           inst == pair.partner[i]
<1>1. i \in Range(pair.accesses) /\ i \in DOMAIN pair.partner
  BY HoistedFacts DEF Range
<1>2. PICK n \in 1..Len(pair.accesses) : pair.accesses[n] = i
  BY <1>1, PairFacts DEF Range
<1>3. inst.obj \in Range(objs) /\ objs \in Seq(Objs)
  BY <1>2, RegisteredFacts
<1>4. Var(inst.obj) \in DOMAIN objs
  BY <1>3, VarOf
<1>5. IsStore(inst) => Var(inst.obj) \in P1Stored
  BY <1>1 DEF P1Stored
<1>6. Access(k) = inst
  BY DEF Access
<1> HIDE DEF inst
<1>7. PartnerAccess(inst) = Line(IF IsChanLoad(inst) /\ SrcIsAcquire(inst) THEN "LDAR"
                                 ELSE IF IsStore(inst) THEN "STR" ELSE "LDR", Var(inst.obj))
  BY DEF PartnerAccess, emitAccess
<1>8. IsChanLoad(inst) => ~IsStore(inst)
  BY DEF IsChanLoad
<1> DEFINE op == IF IsChanLoad(inst) /\ SrcIsAcquire(inst) THEN "LDAR" ELSE IF IsStore(inst) THEN "STR" ELSE "LDR"
<1>9. op \in {"LDR", "LDAR", "STR"} /\ (op = "STR" <=> IsStore(inst))
  BY <1>8
<1> HIDE DEF op
<1>10. PartnerAccess(inst) = [op |-> op, var |-> Var(inst.obj)]
  BY <1>7 DEF Line, op
<1>11. PartnerAccess(inst) \in P1Lines
  BY <1>4, <1>5, <1>9, <1>10 DEF P1Lines
<1>12. QED
  BY <1>3, <1>6, <1>9, <1>10, <1>11

(* The lines in front of an access: barriers, and in front of the first     *)
(* loads of the channel.                                                    *)
LEMMA LinesBefore ==
  ASSUME pair \in Inputs, objs = Registered, order = Hoisted, NEW k \in DOMAIN order
  PROVE  /\ OrderingBefore(k) \in Seq(P1Lines)
         /\ k # 1 => OrderingBefore(k) \in Seq(Fences)
         /\ \A i \in DOMAIN OrderingBefore(k) :
              OrderingBefore(k)[i] \in Fences
                \/ (WritesChannel(pair) /\ OrderingBefore(k)[i].var = Var(pair.alloc))
<1> DEFINE at(n) == IF Access(n).long THEN 0 ELSE findInstByIR(pair.partner, order[n])
           N == Len(pair.partner)
<1>1. order \in Seq(DOMAIN pair.partner) /\ Len(order) \in Nat /\ DOMAIN order = 1..Len(order)
  BY HoistedFacts
<1>2. pair.partner \in Seq(Instructions) /\ N \in Nat /\ DOMAIN pair.partner = 1..N
  BY PairFacts
<1>3. ASSUME NEW n \in DOMAIN order PROVE at(n) \in 0..N
  <2>1. order[n] \in 0..N
    BY <1>1, <1>2
  <2>2. findInstByIR(pair.partner, order[n]) \in 0..N
    BY <1>2, <2>1, Found
  <2>3. QED
    BY <1>2, <2>2
<1>4. CASE k # 1
  <2>1. k \in DOMAIN order /\ k - 1 \in DOMAIN order
    BY <1>1, <1>4
  <2>2. OrderingBefore(k) = Between(pair.partner, at(k - 1), at(k))
    BY <1>4 DEF OrderingBefore
  <2>3. at(k - 1) \in 0..N /\ at(k) \in 0..N
    BY <1>3, <2>1
  <2> HIDE DEF at
  <2>4. OrderingBefore(k) \in Seq(Fences)
    BY <1>2, <2>2, <2>3, BetweenFacts
  <2>5. QED
    BY <1>4, <2>4, FencesAreLines
<1>5. CASE k = 1
  <2> DEFINE ois == collectOrderingBetween(pair.partner, 0, at(1))
             e == emitOrderingOrChannelLoad(ois)
  <2>1. OrderingBefore(k) = IF at(1) = 0 THEN <<>> ELSE e
    BY <1>5 DEF OrderingBefore
  <2>2. at(1) \in 0..N
    BY <1>3, <1>5
  <2> HIDE DEF at
  <2>3. CASE at(1) = 0
    <3>1. <<>> \in Seq(P1Lines) /\ DOMAIN <<>> = {}
      OBVIOUS
    <3>2. OrderingBefore(k) = <<>>
      BY <2>1, <2>3
    <3>3. QED
      BY <1>5, <3>1, <3>2, Zenon
  <2>4. CASE at(1) # 0
    <3>1. ois \in Seq(OrderingInstSet)
      BY <1>2, <2>2, <2>4, CollectedBetween
    <3> HIDE DEF ois
    <3>2. Len(ois) \in Nat /\ DOMAIN ois = 1..Len(ois) /\ \A i \in 1..Len(ois) : ois[i] \in OrderingInstSet
      BY <3>1
    <3>3. \A i \in 1..Len(ois) : Fence(ois[i].lowered) \in Fences
      BY <3>2, OrderingInstLowered DEF Fences
    <3>4. WritesChannel(pair) => Var(pair.alloc) \in DOMAIN objs
      BY RegisteredFacts, VarOf DEF WritesChannel
    <3>5. DOMAIN e = 1..Len(ois) /\ \A i \in 1..Len(ois) :
            \/ e[i] \in Fences
            \/ WritesChannel(pair) /\ e[i] = Line("LDAR", Var(pair.alloc))
      BY <3>2, <3>3 DEF emitOrderingOrChannelLoad
    <3>6. e = [i \in 1..Len(ois) |-> e[i]]
      BY <3>2 DEF emitOrderingOrChannelLoad
    <3> HIDE DEF e
    <3>7. \A i \in 1..Len(ois) :
            /\ e[i] \in P1Lines
            /\ e[i] \in Fences \/ (WritesChannel(pair) /\ e[i].var = Var(pair.alloc))
      BY <3>4, <3>5 DEF P1Lines, Line
    <3>8. e \in Seq(P1Lines)
      BY <3>2, <3>6, <3>7
    <3>9. QED
      BY <1>5, <2>1, <2>4, <3>5, <3>7, <3>8
  <2>5. QED
    BY <2>3, <2>4
<1>6. QED
  BY <1>4, <1>5

LEMMA JoinedAt ==
  ASSUME NEW T, NEW s \in Seq(T), NEW t \in Seq(T), NEW i \in 1..Len(t)
  PROVE  (s \o t)[Len(s) + i] = t[i]
BY Joined

LEMMA Extended ==
  ASSUME NEW T, NEW s \in Seq(T), NEW t \in Seq(T), NEW z \in Seq(T), Len(z) = 1
  PROVE  /\ (s \o t) \o z \in Seq(T) /\ Len((s \o t) \o z) = Len(s) + Len(t) + 1
         /\ \A i \in 1..Len(s) : ((s \o t) \o z)[i] = s[i]
         /\ \A i \in (Len(s) + 1)..(Len(s) + Len(t)) : \E j \in DOMAIN t : ((s \o t) \o z)[i] = t[j]
         /\ ((s \o t) \o z)[Len(s) + Len(t) + 1] = z[1]
<1> DEFINE st == s \o t
           r == st \o z
<1>1. /\ st \in Seq(T) /\ Len(st) = Len(s) + Len(t)
      /\ \A i \in 1..Len(s) : st[i] = s[i]
      /\ \A i \in 1..Len(t) : st[Len(s) + i] = t[i]
  BY Joined
<1>2. r = st \o z
  OBVIOUS
<1> HIDE DEF st, r
<1>8. st \in Seq(T)
  BY <1>1
<1>9. /\ st \o z \in Seq(T) /\ Len(st \o z) = Len(st) + Len(z)
      /\ \A i \in 1..Len(st) : (st \o z)[i] = st[i]
      /\ \A i \in 1..Len(z) : (st \o z)[Len(st) + i] = z[i]
  <2>1. st \o z \in Seq(T)
    BY <1>8, Joined
  <2>2. Len(st \o z) = Len(st) + Len(z)
    BY <1>8, Joined
  <2>3. \A i \in 1..Len(st) : (st \o z)[i] = st[i]
    BY <1>8, Joined
  <2>4. ASSUME NEW i \in 1..Len(z) PROVE (st \o z)[Len(st) + i] = z[i]
    <3>1. QED
      BY <1>8, JoinedAt
  <2>5. QED
    BY <2>1, <2>2, <2>3, <2>4
<1>3. /\ r \in Seq(T) /\ Len(r) = Len(st) + Len(z)
      /\ \A i \in 1..Len(st) : r[i] = st[i]
      /\ \A i \in 1..Len(z) : r[Len(st) + i] = z[i]
  BY <1>2, <1>9
<1>4. Len(s) \in Nat /\ Len(t) \in Nat /\ DOMAIN t = 1..Len(t)
  OBVIOUS
<1>5. ASSUME NEW i \in (Len(s) + 1)..(Len(s) + Len(t)) PROVE \E j \in DOMAIN t : r[i] = t[j]
  <2>1. i - Len(s) \in 1..Len(t) /\ Len(s) + (i - Len(s)) = i /\ i \in 1..Len(st)
    BY <1>1, <1>4
  <2>2. r[i] = t[i - Len(s)]
    BY <1>1, <1>3, <2>1
  <2>3. QED
    BY <1>4, <2>1, <2>2
<1>6. /\ r \in Seq(T) /\ Len(r) = Len(s) + Len(t) + 1
      /\ \A i \in 1..Len(s) : r[i] = s[i]
      /\ r[Len(s) + Len(t) + 1] = z[1]
  BY <1>1, <1>3, <1>4
<1>7. QED
  BY <1>5, <1>6 DEF r, st


LEMMA FenceLine ==
  ASSUME NEW l \in Fences
  PROVE  l.var = 0 /\ l.op \in PureBarriers /\ l = [op |-> l.op, var |-> 0]
BY DEF Fences, Fence, Line

LEMMA AccessOps ==
  {"LDR", "STR", "LDAR", "STLR", "SWPAL"} \cap PureBarriers = {}
BY DEF PureBarriers

(* The lines of a thread are well-formed, and those of P1 tell loads from   *)
(* stores by their variable.                                                *)
LEMMA P0LineFacts ==
  ASSUME objs \in Seq(Objs), NEW l \in P0Lines
  PROVE  l \in Lines /\ (l.var = 0 <=> l.op \in PureBarriers)
<1>1. Len(objs) \in Nat /\ DOMAIN objs = 1..Len(objs)
  OBVIOUS
<1>2. CASE l \in Fences
  <2>1. l.op \in LineOps
    BY <1>2, FenceLine DEF LineOps
  <2>2. QED
    BY <1>1, <1>2, <2>1, FenceLine DEF Lines
<1>3. CASE l \in [op : {"LDR", "STR", "STLR", "SWPAL"}, var : DOMAIN objs]
  <2>1. l.op \in {"LDR", "STR", "STLR", "SWPAL"} /\ l.var \in 1..Len(objs) /\ l = [op |-> l.op, var |-> l.var]
    BY <1>1, <1>3
  <2>2. l.op \in LineOps /\ l.op \notin PureBarriers
    BY <2>1, AccessOps DEF LineOps
  <2>3. QED
    BY <1>1, <2>1, <2>2 DEF Lines
<1>4. QED
  BY <1>2, <1>3 DEF P0Lines

LEMMA StoredVars ==
  ASSUME pair \in Inputs, objs = Registered
  PROVE  P1Stored \subseteq DOMAIN objs
<1>1. ASSUME NEW i \in Range(pair.accesses) PROVE Var(pair.partner[i].obj) \in DOMAIN objs
  <2>1. PICK n \in 1..Len(pair.accesses) : pair.accesses[n] = i
    BY PairFacts DEF Range
  <2>2. QED
    BY <2>1, RegisteredFacts, VarOf
<1>2. QED
  BY <1>1 DEF P1Stored

LEMMA P1LineFacts ==
  ASSUME pair \in Inputs, objs = Registered, NEW l \in P1Lines
  PROVE  /\ l \in Lines /\ (l.var = 0 <=> l.op \in PureBarriers)
         /\ l.op = "STR" => l.var \in P1Stored
         /\ l.var # 0 => l.op \in {"LDR", "LDAR", "STR"}
<1>1. Len(objs) \in Nat /\ DOMAIN objs = 1..Len(objs) /\ P1Stored \subseteq 1..Len(objs)
  BY RegisteredFacts, StoredVars
<1>2. CASE l \in Fences
  <2>1. l.op \in LineOps /\ l.op # "STR"
    BY <1>2, FenceLine, AccessOps DEF LineOps
  <2>2. QED
    BY <1>1, <1>2, <2>1, FenceLine DEF Lines
<1>3. CASE l \in [op : {"LDR", "LDAR"}, var : DOMAIN objs]
  <2>1. l.op \in {"LDR", "LDAR"} /\ l.var \in 1..Len(objs) /\ l = [op |-> l.op, var |-> l.var]
    BY <1>1, <1>3
  <2>2. l.op \in LineOps /\ l.op \notin PureBarriers
    BY <2>1, AccessOps DEF LineOps
  <2>3. QED
    BY <1>1, <2>1, <2>2 DEF Lines
<1>4. CASE l \in [op : {"STR"}, var : P1Stored]
  <2>1. l.op = "STR" /\ l.var \in P1Stored /\ l.var \in 1..Len(objs) /\ l = [op |-> l.op, var |-> l.var]
    BY <1>1, <1>4
  <2>2. l.op \in LineOps /\ l.op \notin PureBarriers
    BY <2>1, AccessOps DEF LineOps
  <2>3. QED
    BY <1>1, <2>1, <2>2 DEF Lines
<1>5. QED
  BY <1>2, <1>3, <1>4 DEF P1Lines

(* One access emitted.                                                      *)
LEMMA AccessEmitted ==
  ASSUME TestInv, phase = "partner", idx \in DOMAIN order,
         NEW r, r = p1 \o OrderingBefore(idx) \o <<PartnerAccess(Access(idx))>>
  PROVE  /\ r \in Seq(P1Lines)
         /\ \A k \in 1..idx : \E i \in DOMAIN r : r[i] = PartnerAccess(Access(k))
         /\ \A i \in DOMAIN r :
              \/ r[i] \in Fences
              \/ \E k \in 1..idx : r[i].var = Var(Access(k).obj)
              \/ WritesChannel(pair) /\ r[i].var = Var(pair.alloc)
         /\ (WritesChannel(pair) /\ ToldApart) =>
              \A i, j \in DOMAIN r :
                (i < j /\ r[j].var = Var(pair.alloc) /\ r[j].op # "STR") => r[i].var \in {0, Var(pair.alloc)}
<1> DEFINE t == OrderingBefore(idx)
           x == PartnerAccess(Access(idx))
           n == Len(p1)
           m == Len(t)
<1>1. /\ pair \in Inputs /\ objs = Registered /\ order = Hoisted
      /\ p1 \in Seq(P1Lines)
  BY DEF TestInv, TestStages
<1>2. order \in Seq(DOMAIN pair.partner) /\ Len(order) \in Nat /\ DOMAIN order = 1..Len(order) /\ idx \in Nat \ {0}
  BY <1>1, HoistedFacts
<1>3. t \in Seq(P1Lines) /\ x \in P1Lines
  BY <1>1, LinesBefore, PartnerLine
<1>4. /\ \A i \in DOMAIN t : t[i] \in Fences \/ (WritesChannel(pair) /\ t[i].var = Var(pair.alloc))
      /\ idx # 1 => \A i \in DOMAIN t : t[i] \in Fences
  <2>1. idx # 1 => t \in Seq(Fences)
    BY <1>1, LinesBefore
  <2>2. \A i \in DOMAIN t : t[i] \in Fences \/ (WritesChannel(pair) /\ t[i].var = Var(pair.alloc))
    BY <1>1, LinesBefore
  <2> HIDE DEF t
  <2>3. QED
    BY <2>1, <2>2
<1>5. x.var = Var(Access(idx).obj) /\ (x.op = "STR" <=> IsStore(Access(idx))) /\ Access(idx).obj \in Range(objs)
  BY <1>1, PartnerLine
<1> DEFINE z == <<x>>
<1>6. r = (p1 \o t) \o z
  OBVIOUS
<1>7. /\ \A k \in 1..(idx - 1) : \E i \in DOMAIN p1 : p1[i] = PartnerAccess(Access(k))
      /\ \A i \in DOMAIN p1 :
           \/ p1[i] \in Fences
           \/ \E k \in 1..(idx - 1) : p1[i].var = Var(Access(k).obj)
           \/ WritesChannel(pair) /\ p1[i].var = Var(pair.alloc)
      /\ (WritesChannel(pair) /\ ToldApart) =>
           \A i, j \in DOMAIN p1 :
             (i < j /\ p1[j].var = Var(pair.alloc) /\ p1[j].op # "STR") => p1[i].var \in {0, Var(pair.alloc)}
  BY DEF TestInv, Emitted, Accounted, ChannelFirst
<1> HIDE DEF t, x
<1>15. z \in Seq(P1Lines) /\ Len(z) = 1 /\ z[1] = x
  BY <1>3
<1> HIDE DEF z
<1>16. p1 \in Seq(P1Lines) /\ t \in Seq(P1Lines)
  BY <1>1, <1>3
<1> DEFINE pto == (p1 \o t) \o z
<1>17. /\ pto \in Seq(P1Lines) /\ Len(pto) = Len(p1) + Len(t) + 1
       /\ \A i \in 1..Len(p1) : pto[i] = p1[i]
       /\ \A i \in (Len(p1) + 1)..(Len(p1) + Len(t)) : \E j \in DOMAIN t : pto[i] = t[j]
       /\ pto[Len(p1) + Len(t) + 1] = z[1]
  <2>1. pto \in Seq(P1Lines) /\ Len(pto) = Len(p1) + Len(t) + 1
    BY <1>15, <1>16, Extended
  <2>2. \A i \in 1..Len(p1) : pto[i] = p1[i]
    BY <1>15, <1>16, Extended
  <2>3. ASSUME NEW i \in (Len(p1) + 1)..(Len(p1) + Len(t)) PROVE \E j \in DOMAIN t : pto[i] = t[j]
    BY <1>15, <1>16, Extended
  <2>4. pto[Len(p1) + Len(t) + 1] = z[1]
    BY <1>15, <1>16, Extended
  <2>5. QED
    BY <2>1, <2>2, <2>3, <2>4
<1>18. r = pto
  BY <1>6
<1> HIDE DEF pto
<1>8. /\ r \in Seq(P1Lines) /\ Len(r) = n + m + 1
      /\ \A i \in 1..n : r[i] = p1[i]
      /\ \A i \in (n + 1)..(n + m) : \E j \in DOMAIN t : r[i] = t[j]
      /\ r[n + m + 1] = x
  BY <1>15, <1>17, <1>18
<1>9. n \in Nat /\ m \in Nat /\ DOMAIN p1 = 1..n /\ DOMAIN r = 1..(n + m + 1)
  BY <1>1, <1>3, <1>8
<1>10. \A i \in DOMAIN r : i \in 1..n \/ i \in (n + 1)..(n + m) \/ i = n + m + 1
  BY <1>9
<1>11. ASSUME NEW k \in 1..idx PROVE \E i \in DOMAIN r : r[i] = PartnerAccess(Access(k))
  <2>1. CASE k = idx
    BY <1>8, <1>9, <2>1 DEF x
  <2>2. CASE k # idx
    <3>1. k \in 1..(idx - 1)
      BY <1>2, <2>2
    <3>2. PICK i \in DOMAIN p1 : p1[i] = PartnerAccess(Access(k))
      BY <1>7, <3>1
    <3>3. i \in DOMAIN r /\ r[i] = p1[i]
      BY <1>8, <1>9
    <3>4. QED
      BY <3>2, <3>3
  <2>3. QED
    BY <2>1, <2>2
<1>12. ASSUME NEW i \in DOMAIN r
       PROVE  \/ r[i] \in Fences
              \/ \E k \in 1..idx : r[i].var = Var(Access(k).obj)
              \/ WritesChannel(pair) /\ r[i].var = Var(pair.alloc)
  <2>1. CASE i \in 1..n
    <3>1. r[i] = p1[i] /\ i \in DOMAIN p1
      BY <1>8, <1>9, <2>1
    <3>2. \A k \in 1..(idx - 1) : k \in 1..idx
      BY <1>2
    <3>3. QED
      BY <1>7, <3>1, <3>2
  <2>2. CASE i \in (n + 1)..(n + m)
    BY <1>4, <1>8, <2>2
  <2>3. CASE i = n + m + 1
    <3>1. idx \in 1..idx
      BY <1>2
    <3>2. r[i].var = Var(Access(idx).obj)
      BY <1>5, <1>8, <2>3
    <3>3. QED
      BY <3>1, <3>2
  <2>4. QED
    BY <1>10, <2>1, <2>2, <2>3
<1>13. ASSUME WritesChannel(pair), ToldApart, NEW i \in DOMAIN r, NEW j \in DOMAIN r,
              i < j, r[j].var = Var(pair.alloc), r[j].op # "STR"
       PROVE  r[i].var \in {0, Var(pair.alloc)}
  <2>1. CASE j \in 1..n
    <3>1. i \in 1..n
      BY <1>9, <1>13, <2>1
    <3>2. QED
      BY <1>7, <1>8, <1>9, <1>13, <2>1, <3>1
  <2>2. CASE idx = 1
    <3>1. CASE i \in 1..n
      <4>1. \A k \in 1..(idx - 1) : FALSE
        BY <2>2
      <4>2. r[i] \in Fences \/ r[i].var = Var(pair.alloc)
        BY <1>7, <1>8, <1>9, <3>1, <4>1
      <4>3. QED
        BY <4>2, FenceLine
    <3>2. CASE i \in (n + 1)..(n + m)
      BY <1>4, <1>8, <3>2, FenceLine
    <3>3. i # n + m + 1
      BY <1>9, <1>13
    <3>4. QED
      BY <1>10, <3>1, <3>2, <3>3
  <2>3. CASE j \in (n + 1)..(n + m) /\ idx # 1
    <3>1. PICK k \in DOMAIN t : r[j] = t[k]
      BY <1>8, <2>3
    <3>2. r[j].var = 0
      BY <1>4, <2>3, <3>1, FenceLine
    <3>3. Var(pair.alloc) # 0
      BY <1>1, <1>13, RegisteredFacts, VarOf DEF WritesChannel
    <3>4. QED
      BY <1>13, <3>2, <3>3
  <2>4. CASE j = n + m + 1 /\ idx # 1
    <3>1. pair.alloc \in Range(objs) /\ objs \in Seq(Objs)
      BY <1>1, <1>13, RegisteredFacts DEF WritesChannel
    <3>2. Var(Access(idx).obj) = Var(pair.alloc) /\ ~IsStore(Access(idx))
      BY <1>5, <1>8, <1>13, <2>4
    <3>3. Access(idx).obj = pair.alloc
      BY <1>5, <3>1, <3>2, VarInjective
    <3>4. order[idx] \in ChanLoads
      BY <1>2, <1>13, <3>2, <3>3 DEF Access, ChanLoads, IsChanLoad
    <3>5. \A k \in 1..idx : order[k] \in ChanLoads
      BY <1>1, <1>13, <3>4, HoistedFacts
    <3>6. \A k \in 1..idx : Access(k).obj = pair.alloc
      BY <3>5 DEF ChanLoads, IsChanLoad, Access
    <3>7. i \in 1..n \/ i \in (n + 1)..(n + m)
      BY <1>9, <1>10, <1>13, <2>4
    <3>8. r[i] \in Fences \/ r[i].var = Var(pair.alloc)
      BY <1>12, <3>6
    <3>9. QED
      BY <3>8, FenceLine
  <2>5. QED
    BY <1>10, <2>1, <2>2, <2>3, <2>4
<1>14. QED
  BY <1>8, <1>11, <1>12, <1>13


----------------------------------------------------------------------------
(* Where the pair and its variables stay, so does what is read off them.    *)
LEMMA SameNames ==
  ASSUME pair' = pair, objs' = objs
  PROVE  /\ \A o : Var(o)' = Var(o)
         /\ P0Lines' = P0Lines /\ P1Lines' = P1Lines /\ Lines' = Lines
         /\ ToldApart' = ToldApart /\ ChanLoads' = ChanLoads /\ Hoisted' = Hoisted
<1>1. \A o : Var(o)' = Var(o)
  BY DEF Var
<1>2. P0Lines' = P0Lines /\ Lines' = Lines
  BY DEF P0Lines, Lines
<1>3. P1Stored' = P1Stored
  BY DEF P1Stored, Var
<1>4. P1Lines' = P1Lines
  BY <1>3 DEF P1Lines
<1>5. ToldApart' = ToldApart
  BY DEF ToldApart
<1>6. ChanLoads' = ChanLoads
  BY DEF ChanLoads, IsChanLoad
<1>7. Hoisted' = Hoisted
  BY <1>6 DEF Hoisted
<1>8. QED
  BY <1>1, <1>2, <1>4, <1>5, <1>6, <1>7

LEMMA SameThread ==
  ASSUME pair' = pair, objs' = objs
  PROVE  AnchorThread(pair)' = AnchorThread(pair)
<1>1. BracketAccess(pair, pair.before)' = BracketAccess(pair, pair.before)
      /\ BracketAccess(pair, pair.after)' = BracketAccess(pair, pair.after)
  BY DEF BracketAccess, emitAccess, Var
<1>2. emitAnchor(pair)' = emitAnchor(pair)
  BY DEF emitAnchor, Var
<1>3. QED
  BY <1>1, <1>2 DEF AnchorThread, BracketAccess, emitAccess, Var, emitAnchor

LEMMA SameAccess ==
  ASSUME pair' = pair, objs' = objs, order' = order
  PROVE  \A k : Access(k)' = Access(k) /\ PartnerAccess(Access(k))' = PartnerAccess(Access(k))
BY DEF Access, PartnerAccess, IsChanLoad, emitAccess, Var

LEMMA SameClause ==
  ASSUME pair' = pair, objs' = objs, p1' = p1
  PROVE  Clause' = Clause
<1>1. P1Stored' = P1Stored /\ P0Written' = P0Written
  BY DEF P1Stored, P0Written, Var
<1>2. Loaded' = Loaded
  BY <1>1 DEF Loaded
<1>3. SyncVar' = SyncVar
  BY <1>1, <1>2 DEF SyncVar, Var
<1>4. QED
  BY <1>1, <1>2, <1>3 DEF Clause


(* With the lines in the sets of the two threads the types follow.          *)
LEMMA LinesTyped ==
  ASSUME pair \in Inputs, objs \in Seq(Objs), p0 \in Seq(P0Lines), p1 \in Seq(P1Lines),
         p1 = <<>> \/ objs = Registered
  PROVE  /\ \A i \in DOMAIN p0 : p0[i] \in Lines
         /\ \A i \in DOMAIN p1 : p1[i] \in Lines
         /\ \A i \in DOMAIN p0 : p0[i].var = 0 <=> p0[i].op \in PureBarriers
         /\ \A i \in DOMAIN p1 : p1[i].var = 0 <=> p1[i].op \in PureBarriers
<1>1. ASSUME NEW i \in DOMAIN p0 PROVE p0[i] \in Lines /\ (p0[i].var = 0 <=> p0[i].op \in PureBarriers)
  <2>1. p0[i] \in P0Lines
    OBVIOUS
  <2>2. QED
    BY <2>1, P0LineFacts
<1>2. ASSUME NEW i \in DOMAIN p1 PROVE p1[i] \in Lines /\ (p1[i].var = 0 <=> p1[i].op \in PureBarriers)
  <2>1. p1[i] \in P1Lines /\ objs = Registered
    <3>1. p1 # <<>>
      BY <1>2
    <3>2. QED
      BY <3>1
  <2>2. QED
    BY <2>1, P1LineFacts
<1>3. QED
  BY <1>1, <1>2

LEMMA TestInvInit == TestInit => TestInv
<1> SUFFICES ASSUME TestInit PROVE TestInv
  OBVIOUS
<1> USE DEF TestInit
<1>1. /\ objs \in Seq(Objs) /\ order \in Seq(DOMAIN pair.partner)
      /\ p0 \in Seq(P0Lines) /\ p1 \in Seq(P1Lines) /\ DOMAIN p1 = {} /\ DOMAIN p0 = {} /\ Len(order) = 0
  OBVIOUS
<1>2. IsInjective(objs)
  BY DEF IsInjective
<1>3. TestTypeOK
  BY <1>1, <1>2 DEF TestTypeOK
<1>4. TestStages /\ Emitted /\ Accounted /\ ChannelFirst
  BY <1>1 DEF TestStages, Emitted, Accounted, ChannelFirst
<1>5. QED
  BY <1>1, <1>3, <1>4 DEF TestInv

LEMMA TestInvStep == TestInv /\ [TestNext]_testVars => TestInv'
<1> SUFFICES ASSUME TestInv, [TestNext]_testVars PROVE TestInv'
  OBVIOUS
<1>1. /\ pair \in Inputs /\ TestTypeOK
      /\ p0 \in Seq(P0Lines) /\ p1 \in Seq(P1Lines)
      /\ TestStages /\ Emitted /\ Accounted /\ ChannelFirst
  BY DEF TestInv
<1>2. CASE RegisterObjects
  <2>1. /\ pair' = pair /\ order' = <<>> /\ idx' = 1 /\ p0' = <<>> /\ p1' = <<>> /\ objs = <<>>
        /\ \/ phase' = "skipped" /\ objs' = <<>>
           \/ phase' = "anchor" /\ objs' = Registered
    BY <1>1, <1>2 DEF RegisterObjects, TestStages
  <2>2. Registered' = Registered
    BY <2>1 DEF Registered
  <2>3. <<>> \in Seq(Objs) /\ IsInjective(<<>>)
    BY DEF IsInjective
  <2>4. objs' \in Seq(Objs) /\ IsInjective(objs')
    BY <1>1, <2>1, <2>3, RegisteredFacts
  <2>5. /\ <<>> \in Seq(DOMAIN pair.partner) /\ <<>> \in Seq(P0Lines') /\ <<>> \in Seq(P1Lines')
        /\ DOMAIN <<>> = {} /\ Len(<<>>) = 0
    OBVIOUS
  <2>6. TestTypeOK'
    BY <2>1, <2>4, <2>5 DEF TestTypeOK
  <2>7. TestStages'
    BY <2>1, <2>2 DEF TestStages
  <2>8. Emitted' /\ Accounted' /\ ChannelFirst'
    BY <2>1, <2>5 DEF Emitted, Accounted, ChannelFirst
  <2>9. QED
    BY <1>1, <2>1, <2>5, <2>6, <2>7, <2>8 DEF TestInv
<1>3. CASE BuildAnchorThread
  <2>1. /\ pair' = pair /\ objs' = objs /\ order' = <<>> /\ idx' = 1 /\ p1' = <<>>
        /\ phase' = "hoist" /\ p0' = AnchorThread(pair) /\ objs = Registered
    BY <1>1, <1>3 DEF BuildAnchorThread, TestStages
  <2>2. Registered' = Registered
    BY <2>1 DEF Registered
  <2>3. AnchorThread(pair)' = AnchorThread(pair) /\ P0Lines' = P0Lines
    BY <2>1, SameThread, SameNames
  <2>4. p0' \in Seq(P0Lines')
    BY <1>1, <2>1, <2>3, ThreadOfAnchor
  <2>5. /\ <<>> \in Seq(DOMAIN pair.partner) /\ <<>> \in Seq(P1Lines')
        /\ DOMAIN <<>> = {} /\ Len(<<>>) = 0
    OBVIOUS
  <2>6. \A i \in DOMAIN p0' : p0'[i] \in Lines' /\ (p0'[i].var = 0 <=> p0'[i].op \in PureBarriers)
    <3>1. objs \in Seq(Objs) /\ Lines' = Lines
      BY <1>1, <2>1, SameNames DEF TestTypeOK
    <3>2. ASSUME NEW i \in DOMAIN p0' PROVE p0'[i] \in P0Lines
      BY <2>3, <2>4
    <3>3. QED
      BY <3>1, <3>2, P0LineFacts
  <2>7. TestTypeOK'
    BY <1>1, <2>1, <2>5, <2>6 DEF TestTypeOK
  <2>8. TestStages'
    BY <2>1, <2>2, <2>3 DEF TestStages
  <2>9. Emitted' /\ Accounted' /\ ChannelFirst'
    BY <2>1, <2>5 DEF Emitted, Accounted, ChannelFirst
  <2>10. QED
    BY <1>1, <2>1, <2>4, <2>5, <2>7, <2>8, <2>9 DEF TestInv
<1>4. CASE OrderAccesses
  <2>1. /\ pair' = pair /\ objs' = objs /\ order' = Hoisted /\ idx' = 1 /\ p1' = <<>> /\ p0' = p0
        /\ phase' = "partner" /\ p0 = AnchorThread(pair) /\ objs = Registered
    BY <1>1, <1>4 DEF OrderAccesses, TestStages
  <2>2. Registered' = Registered
    BY <2>1 DEF Registered
  <2>3. /\ AnchorThread(pair)' = AnchorThread(pair) /\ P0Lines' = P0Lines /\ Lines' = Lines
        /\ Hoisted' = Hoisted
    BY <2>1, SameThread, SameNames
  <2>4. order' \in Seq(DOMAIN pair.partner) /\ Len(order') \in Nat
    BY <1>1, <2>1, HoistedFacts
  <2>5. <<>> \in Seq(P1Lines') /\ DOMAIN <<>> = {}
    OBVIOUS
  <2>6. idx' \in 1..(Len(order') + 1)
    BY <2>1, <2>4
  <2>7. TestTypeOK'
    BY <1>1, <2>1, <2>3, <2>4, <2>5, <2>6 DEF TestTypeOK
  <2>8. TestStages'
    BY <2>1, <2>2, <2>3 DEF TestStages
  <2>9. Emitted' /\ Accounted' /\ ChannelFirst'
    BY <2>1, <2>5 DEF Emitted, Accounted, ChannelFirst
  <2>10. QED
    BY <1>1, <2>1, <2>3, <2>5, <2>7, <2>8, <2>9 DEF TestInv
<1>5. CASE EmitPartnerAccess
  <2>1. /\ pair' = pair /\ objs' = objs /\ order' = order /\ idx' = idx + 1 /\ p0' = p0
        /\ phase = "partner" /\ phase' = "partner" /\ idx \in DOMAIN order
        /\ p1' = p1 \o OrderingBefore(idx) \o <<PartnerAccess(Access(idx))>>
    BY <1>5 DEF EmitPartnerAccess
  <2>2. p0 = AnchorThread(pair) /\ objs = Registered /\ order = Hoisted
    BY <1>1, <2>1 DEF TestStages
  <2>3. /\ Registered' = Registered /\ AnchorThread(pair)' = AnchorThread(pair) /\ P0Lines' = P0Lines
        /\ P1Lines' = P1Lines /\ Lines' = Lines /\ Hoisted' = Hoisted /\ ToldApart' = ToldApart
        /\ \A o : Var(o)' = Var(o)
        /\ \A k : Access(k)' = Access(k) /\ PartnerAccess(Access(k))' = PartnerAccess(Access(k))
    BY <2>1, SameThread, SameNames, SameAccess DEF Registered
  <2>4. idx \in Nat /\ idx' - 1 = idx /\ idx' \in 1..(Len(order) + 1)
    <3>1. Len(order) \in Nat /\ DOMAIN order = 1..Len(order)
      BY <1>1 DEF TestTypeOK
    <3>2. QED
      BY <2>1, <3>1
  <2>5. /\ p1' \in Seq(P1Lines)
        /\ \A k \in 1..idx : \E i \in DOMAIN p1' : p1'[i] = PartnerAccess(Access(k))
        /\ \A i \in DOMAIN p1' :
             \/ p1'[i] \in Fences
             \/ \E k \in 1..idx : p1'[i].var = Var(Access(k).obj)
             \/ WritesChannel(pair) /\ p1'[i].var = Var(pair.alloc)
        /\ (WritesChannel(pair) /\ ToldApart) =>
             \A i, j \in DOMAIN p1' :
               (i < j /\ p1'[j].var = Var(pair.alloc) /\ p1'[j].op # "STR") => p1'[i].var \in {0, Var(pair.alloc)}
    BY <2>1, AccessEmitted
  <2>6. \A i \in DOMAIN p1' : p1'[i] \in Lines /\ (p1'[i].var = 0 <=> p1'[i].op \in PureBarriers)
    <3>1. ASSUME NEW i \in DOMAIN p1' PROVE p1'[i] \in P1Lines
      BY <2>5
    <3>2. QED
      BY <1>1, <2>2, <3>1, P1LineFacts
  <2>7. TestTypeOK'
    BY <1>1, <2>1, <2>3, <2>4, <2>6 DEF TestTypeOK
  <2>8. TestStages'
    BY <2>1, <2>2, <2>3 DEF TestStages
  <2>9. Emitted'
    BY <2>1, <2>3, <2>4, <2>5 DEF Emitted
  <2>10. Accounted'
    <3>1. \A k : Var(Access(k).obj)' = Var(Access(k).obj)
      BY <2>1 DEF Var, Access
    <3>2. Var(pair.alloc)' = Var(pair.alloc)
      BY <2>1 DEF Var
    <3>3. QED
      BY <2>1, <2>4, <2>5, <3>1, <3>2 DEF Accounted
  <2>11. ChannelFirst'
    <3>1. Var(pair.alloc)' = Var(pair.alloc)
      BY <2>1 DEF Var
    <3>2. QED
      BY <2>1, <2>3, <2>5, <3>1 DEF ChannelFirst
  <2>12. QED
    BY <1>1, <2>1, <2>3, <2>5, <2>7, <2>8, <2>9, <2>10, <2>11 DEF TestInv
<1>6. CASE BuildExistsClause \/ UNCHANGED testVars
  <2>1. /\ pair' = pair /\ objs' = objs /\ order' = order /\ idx' = idx /\ p0' = p0 /\ p1' = p1
        /\ \/ phase' = phase /\ clause' = clause
           \/ /\ phase = "partner" /\ idx \notin DOMAIN order /\ clause' = Clause
              /\ phase' = IF Clause = None THEN "skipped" ELSE "done"
    BY <1>6 DEF BuildExistsClause, testVars
  <2>2. /\ Registered' = Registered /\ AnchorThread(pair)' = AnchorThread(pair) /\ P0Lines' = P0Lines
        /\ P1Lines' = P1Lines /\ Lines' = Lines /\ Hoisted' = Hoisted /\ ToldApart' = ToldApart
        /\ \A k : PartnerAccess(Access(k))' = PartnerAccess(Access(k))
        /\ Clause' = Clause
    BY <2>1, SameThread, SameNames, SameAccess, SameClause DEF Registered
  <2>3. \A k : Var(Access(k).obj)' = Var(Access(k).obj)
    BY <2>1 DEF Var, Access
  <2>4. Var(pair.alloc)' = Var(pair.alloc)
    BY <2>1 DEF Var
  <2>5. TestTypeOK'
    BY <1>1, <2>1, <2>2 DEF TestTypeOK
  <2>6. TestStages'
    BY <1>1, <2>1, <2>2 DEF TestStages
  <2>7. Emitted'
    BY <1>1, <2>1, <2>2 DEF Emitted
  <2>8. Accounted'
    BY <1>1, <2>1, <2>3, <2>4 DEF Accounted
  <2>9. ChannelFirst'
    BY <1>1, <2>1, <2>2, <2>4 DEF ChannelFirst
  <2>10. QED
    BY <1>1, <2>1, <2>2, <2>5, <2>6, <2>7, <2>8, <2>9 DEF TestInv
<1>7. QED
  BY <1>2, <1>3, <1>4, <1>5, <1>6 DEF TestNext

(* Every test built is one of two threads that hold what they should.       *)
THEOREM TestInvariant == VerifierSpec => []TestInv
<1>1. VerifierInit => TestInv
  BY TestInvInit DEF VerifierInit
<1>2. [VerifierNext]_verifierVars => [TestNext]_testVars
  BY DEF VerifierNext, Transpile, Verify, verifierVars, testVars
<1>3. TestInv /\ [VerifierNext]_verifierVars => TestInv'
  BY <1>2, TestInvStep
<1>4. QED
  BY <1>1, <1>3, PTL DEF VerifierSpec


----------------------------------------------------------------------------
(* The condition.                                                           *)

(* TextOrder is bounded from below, so a set of variables has a first.      *)
LEMMA TextFirst ==
  ASSUME NEW S, S \subseteq Nat, S # {}
  PROVE  \E v \in S : \A w \in S : TextOrder(v) <= TextOrder(w)
<1> DEFINE R == {TextOrder(v) + 21 : v \in S}
<1>1. \A v \in Nat : TextOrder(v) \in Int /\ TextOrder(v) + 21 \in Nat
  BY DEF TextOrder
<1>2. R \subseteq Nat /\ R # {}
  BY <1>1
<1>3. Min(R) \in R /\ \A x \in R : Min(R) <= x
  BY <1>2, HasMin
<1>4. PICK v \in S : Min(R) = TextOrder(v) + 21
  BY <1>3
<1>5. ASSUME NEW w \in S PROVE TextOrder(v) <= TextOrder(w)
  <2>1. TextOrder(v) + 21 <= TextOrder(w) + 21
    BY <1>3, <1>4
  <2>2. TextOrder(v) \in Int /\ TextOrder(w) \in Int
    BY <1>1
  <2> HIDE DEF R
  <2>3. QED
    BY <2>1, <2>2
<1>6. QED
  BY <1>5

LEMMA LoadedVars ==
  ASSUME pair \in Inputs, objs = Registered, p1 \in Seq(P1Lines), NEW v \in Loaded
  PROVE  /\ v \in DOMAIN objs /\ v # 0
         /\ \E i \in DOMAIN p1 : p1[i].var = v /\ "R" \in LineEvent(p1[i])
         /\ \A i \in DOMAIN p1 : p1[i].var = v => p1[i].op # "STR"
<1>1. v # 0 /\ v \notin P1Stored /\ \E i \in DOMAIN p1 : p1[i].var = v
  BY DEF Loaded
<1>2. ASSUME NEW i \in DOMAIN p1, p1[i].var = v
      PROVE  p1[i].op \in {"LDR", "LDAR"} /\ v \in 0..Len(objs)
  <2>1. p1[i] \in P1Lines
    OBVIOUS
  <2>2. /\ p1[i].op = "STR" => p1[i].var \in P1Stored
        /\ p1[i].var # 0 => p1[i].op \in {"LDR", "LDAR", "STR"}
        /\ p1[i] \in Lines
    BY <2>1, P1LineFacts
  <2>3. p1[i].var \in 0..Len(objs)
    BY <2>2 DEF Lines
  <2>4. QED
    BY <1>1, <1>2, <2>2, <2>3
<1>3. \A i \in DOMAIN p1 : p1[i].var = v => "R" \in LineEvent(p1[i])
  BY <1>2 DEF LineEvent
<1>4. objs \in Seq(Objs)
  BY RegisteredFacts
<1>5. QED
  BY <1>1, <1>2, <1>3, <1>4

(* The register of a condition is loaded by P1, not written by it, and      *)
(* written by P0.                                                           *)
LEMMA SyncPublished ==
  ASSUME pair \in Inputs, objs = Registered, p1 \in Seq(P1Lines), SyncVar # 0
  PROVE  SyncVar \in Loaded \cap P0Written
<1> DEFINE publishes == /\ pair.alloc # None
                        /\ \/ pair.site = "asm" /\ pair.ordering \in {"Release", "SC"}
                           \/ pair.site = "store plain"
           flag == IsFenceAnchor(pair) /\ pair.after # 0 /\ pair.code[pair.after].op = "store"
           candidates == Loaded \cap P0Written
<1>1. CASE publishes /\ Var(pair.alloc) \in Loaded
  <2>1. SyncVar = Var(pair.alloc)
    BY <1>1 DEF SyncVar
  <2>2. Var(pair.alloc) \in P0Written
    BY <1>1 DEF P0Written, WritesChannel
  <2>3. QED
    BY <1>1, <2>1, <2>2
<1>2. CASE ~(publishes /\ Var(pair.alloc) \in Loaded) /\ flag /\ Var(pair.code[pair.after].obj) \in Loaded
  <2>1. SyncVar = Var(pair.code[pair.after].obj)
    BY <1>2 DEF SyncVar
  <2>2. Var(pair.code[pair.after].obj) \in P0Written
    BY <1>2 DEF P0Written
  <2>3. QED
    BY <1>2, <2>1, <2>2
<1>3. CASE /\ ~(publishes /\ Var(pair.alloc) \in Loaded)
           /\ ~(flag /\ Var(pair.code[pair.after].obj) \in Loaded)
  <2>1. SyncVar = IF candidates = {} THEN 0
                  ELSE CHOOSE v \in candidates : \A w \in candidates : TextOrder(v) <= TextOrder(w)
    BY <1>3 DEF SyncVar
  <2>2. candidates # {}
    BY <2>1
  <2>3. candidates \subseteq Nat
    <3>1. objs \in Seq(Objs)
      BY RegisteredFacts
    <3>2. DOMAIN objs \subseteq Nat
      BY <3>1
    <3>3. QED
      BY <3>2, LoadedVars
  <2> HIDE DEF candidates
  <2>4. \E v \in candidates : \A w \in candidates : TextOrder(v) <= TextOrder(w)
    BY <2>2, <2>3, TextFirst
  <2>5. SyncVar \in candidates
    BY <2>1, <2>2, <2>4
  <2>6. QED
    BY <2>5 DEF candidates
<1>4. QED
  BY <1>1, <1>2, <1>3

LEMMA ClausePublished ==
  ASSUME pair \in Inputs, objs = Registered, p1 \in Seq(P1Lines), Clause # None
  PROVE  /\ Clause.sync \in Loaded \cap P0Written
         /\ Clause.payload \subseteq Loaded \cap P0Written
         /\ Clause.payload # {} =>
              Clause.sync = SyncVar /\ Clause.payload = (Loaded \cap P0Written) \ {SyncVar}
<1>1. CASE Cardinality(Loaded) = 1
  <2>1. Loaded # {}
    <3>1. Cardinality({}) = 0
      BY FS_EmptySet
    <3>2. 1 # 0
      OBVIOUS
    <3>3. QED
      BY <1>1, <3>1, <3>2, Zenon
  <2>2. Loaded \subseteq P0Written /\ Clause = [sync |-> CHOOSE v \in Loaded : TRUE, payload |-> {}]
    BY <1>1 DEF Clause
  <2>3. (CHOOSE v \in Loaded : TRUE) \in Loaded
    BY <2>1
  <2>4. QED
    BY <2>2, <2>3
<1>2. CASE Cardinality(Loaded) # 1
  <2>1. SyncVar # 0 /\ Clause = [sync |-> SyncVar, payload |-> (Loaded \cap P0Written) \ {SyncVar}]
    BY <1>2 DEF Clause
  <2>2. SyncVar \in Loaded \cap P0Written
    BY <2>1, SyncPublished
  <2>3. QED
    BY <2>1, <2>2
<1>3. QED
  BY <1>1, <1>2

(* P0 holds the line that writes.                                           *)
LEMMA WrittenVars ==
  ASSUME pair \in Inputs, objs = Registered, p0 = AnchorThread(pair), NEW v \in P0Written
  PROVE  \E i \in DOMAIN p0 : p0[i].var = v /\ "W" \in LineEvent(p0[i])
<1> DEFINE lines == Range(BracketAccess(pair, pair.before)) \cup Range(emitAnchor(pair))
                      \cup (IF IsFenceAnchor(pair) THEN Range(BracketAccess(pair, pair.after)) ELSE {})
<1>1. lines \subseteq Range(p0)
  BY ThreadOfAnchor
<1>2. \E l \in lines : l.var = v /\ l.op \in {"STR", "STLR", "SWPAL"}
  <2>1. ASSUME NEW i \in {pair.before, pair.after}, i # 0, pair.code[i].op = "store"
        PROVE  \E l \in Range(BracketAccess(pair, i)) : l.var = Var(pair.code[i].obj) /\ l.op = "STR"
    <3> DEFINE l == Line("STR", Var(pair.code[i].obj))
    <3>1. BracketAccess(pair, i) = <<l>>
      BY <2>1, BracketLine DEF emitAccess
    <3>2. l.op = "STR" /\ l.var = Var(pair.code[i].obj)
      BY DEF Line
    <3> HIDE DEF l
    <3>3. l \in Range(BracketAccess(pair, i))
      BY <3>1, RangeOfOne
    <3>4. QED
      BY <3>2, <3>3
  <2>2. CASE WritesChannel(pair) /\ v = Var(pair.alloc)
    <3>1. pair.alloc # None => pair.alloc \in Range(objs)
      BY RegisteredFacts
    <3>2. objs \in Seq(Objs)
      BY RegisteredFacts
    <3>3. PICK op \in {"STR", "STLR", "SWPAL"} : emitAnchor(pair) = <<Line(op, Var(pair.alloc))>>
      BY <2>2, <3>1, <3>2, AnchorLine
    <3> DEFINE l == Line(op, Var(pair.alloc))
    <3>4. l.op = op /\ l.var = v
      BY <2>2 DEF Line
    <3> HIDE DEF l
    <3>5. l \in Range(emitAnchor(pair))
      BY <3>3, RangeOfOne DEF l
    <3>6. QED
      BY <3>4, <3>5
  <2>3. CASE pair.before # 0 /\ pair.code[pair.before].op = "store" /\ v = Var(pair.code[pair.before].obj)
    BY <2>1, <2>3
  <2>4. CASE IsFenceAnchor(pair) /\ pair.after # 0 /\ pair.code[pair.after].op = "store"
               /\ v = Var(pair.code[pair.after].obj)
    <3>1. Range(BracketAccess(pair, pair.after)) \subseteq lines
      BY <2>4
    <3> HIDE DEF lines
    <3>2. QED
      BY <2>1, <2>4, <3>1
  <2>5. QED
    BY <2>2, <2>3, <2>4 DEF P0Written
<1> HIDE DEF lines
<1>3. \E l \in Range(p0) : l.var = v /\ "W" \in LineEvent(l)
  BY <1>1, <1>2 DEF LineEvent
<1>4. QED
  BY <1>3 DEF Range

LEMMA ClauseGrounded == TestInv => ClauseReadsPublished
<1> SUFFICES ASSUME TestInv, phase = "done", NEW v \in clause.payload \cup {clause.sync}
             PROVE  /\ \E i \in DOMAIN p0 : p0[i].var = v /\ "W" \in LineEvent(p0[i])
                    /\ \E i \in DOMAIN p1 : p1[i].var = v /\ "R" \in LineEvent(p1[i])
                    /\ \A i \in DOMAIN p1 : p1[i].var = v => p1[i].op # "STR"
  BY DEF ClauseReadsPublished
<1>1. /\ pair \in Inputs /\ objs = Registered /\ p0 = AnchorThread(pair) /\ p1 \in Seq(P1Lines)
      /\ clause = Clause /\ Clause # None
  BY DEF TestInv, TestStages
<1>2. v \in Loaded \cap P0Written
  BY <1>1, ClausePublished
<1>3. QED
  BY <1>1, <1>2, LoadedVars, WrittenVars

(* The register a condition reads holds what P1 loaded last, and P0 stores *)
(* to it: of every test, whatever the pair.                                 *)
THEOREM TestsWellFormed == VerifierSpec => []TestWellFormed
<1>1. TestInv => TestWellFormed
  BY ClauseGrounded DEF TestWellFormed, TestInv
<1>2. QED
  BY <1>1, TestInvariant, PTL


----------------------------------------------------------------------------
(* A verdict about ordering.                                                *)

(* Where the anchor writes the channel, its line is the last of P0.         *)
LEMMA AnchorIsLast ==
  ASSUME pair \in Inputs, objs = Registered, WritesChannel(pair)
  PROVE  LET th == AnchorThread(pair)
         IN  th \in Seq(P0Lines) /\ Len(th) # 0 /\ th[Len(th)].var = Var(pair.alloc)
               /\ "W" \in LineEvent(th[Len(th)])
<1> DEFINE b == findInstByIR(pair.code, pair.before)
           m == findAnchorInstIdx(pair)
           s == BracketAccess(pair, pair.before)
           t == Between(pair.code, b, m)
           u == emitAnchor(pair)
           th == AnchorThread(pair)
<1>1. ~IsFenceAnchor(pair)
  BY DEF WritesChannel, IsFenceAnchor
<1>2. th = ((s \o t) \o u) \o <<>>
  BY <1>1 DEF AnchorThread
<1>3. s \in Seq(P0Lines)
  BY BracketLine
<1>4. objs \in Seq(Objs) /\ (pair.alloc # None => pair.alloc \in Range(objs))
  BY RegisteredFacts
<1>5. u \in Seq(P0Lines) /\ \E op \in {"STR", "STLR", "SWPAL"} : u = <<Line(op, Var(pair.alloc))>>
  BY <1>4, AnchorLine
<1>6. PICK op \in {"STR", "STLR", "SWPAL"} : u = <<Line(op, Var(pair.alloc))>>
  BY <1>5
<1>7. b \in 0..Len(pair.code) /\ m \in 0..Len(pair.code)
  BY PairFacts, Found, AnchorFound
<1> HIDE DEF b, m
<1>8. t \in Seq(P0Lines)
  BY <1>7, PairFacts, BetweenFacts, FencesAreLines
<1>9. Len(u) = 1 /\ u[1].var = Var(pair.alloc) /\ u[1].op = op
  BY <1>6 DEF Line
<1> HIDE DEF s, t, u
<1> DEFINE stu == (s \o t) \o u
<1>10. stu \in Seq(P0Lines) /\ Len(stu) = Len(s) + Len(t) + 1 /\ stu[Len(s) + Len(t) + 1] = u[1]
  BY <1>3, <1>5, <1>8, <1>9, Extended
<1>11. th = stu \o <<>>
  BY <1>2
<1> HIDE DEF th
<1> HIDE DEF stu
<1>12. th = stu
  BY <1>10, <1>11, ConcatEmptySeq
<1>13. Len(s) \in Nat /\ Len(t) \in Nat
  BY <1>3, <1>8
<1>14. th \in Seq(P0Lines) /\ Len(th) # 0 /\ th[Len(th)].var = Var(pair.alloc) /\ th[Len(th)].op = op
  BY <1>9, <1>10, <1>12, <1>13
<1>15. "W" \in LineEvent(th[Len(th)])
  BY <1>14 DEF LineEvent
<1>16. QED
  BY <1>14, <1>15 DEF th

(* The last write and the last read of a variable that is written and read. *)
LEMMA WriteAtFacts ==
  ASSUME p0 \in Seq(P0Lines), NEW v, \E i \in DOMAIN p0 : p0[i].var = v /\ "W" \in LineEvent(p0[i])
  PROVE  /\ WriteAt(v) \in DOMAIN p0 /\ p0[WriteAt(v)].var = v
         /\ \A i \in DOMAIN p0 : (p0[i].var = v /\ "W" \in LineEvent(p0[i])) => i <= WriteAt(v)
<1> DEFINE S == {i \in DOMAIN p0 : p0[i].var = v /\ "W" \in LineEvent(p0[i])}
<1>1. Len(p0) \in Nat /\ DOMAIN p0 = 1..Len(p0)
  OBVIOUS
<1>2. S \subseteq 1..Len(p0) /\ S # {}
  BY <1>1
<1>3. WriteAt(v) = LastOf(S)
  BY DEF WriteAt
<1> HIDE DEF S
<1>4. WriteAt(v) \in S /\ \A j \in S : j <= WriteAt(v)
  BY <1>1, <1>2, <1>3, LastOfFacts
<1>5. QED
  BY <1>4 DEF S

LEMMA ReadAtFacts ==
  ASSUME p1 \in Seq(P1Lines), NEW v, \E i \in DOMAIN p1 : p1[i].var = v /\ "R" \in LineEvent(p1[i])
  PROVE  /\ ReadAt(v) \in DOMAIN p1 /\ p1[ReadAt(v)].var = v
         /\ \A i \in DOMAIN p1 : (p1[i].var = v /\ "R" \in LineEvent(p1[i])) => i <= ReadAt(v)
<1> DEFINE S == {i \in DOMAIN p1 : p1[i].var = v /\ "R" \in LineEvent(p1[i])}
<1>1. Len(p1) \in Nat /\ DOMAIN p1 = 1..Len(p1)
  OBVIOUS
<1>2. S \subseteq 1..Len(p1) /\ S # {}
  BY <1>1
<1>3. ReadAt(v) = LastOf(S)
  BY DEF ReadAt
<1> HIDE DEF S
<1>4. ReadAt(v) \in S /\ \A j \in S : j <= ReadAt(v)
  BY <1>1, <1>2, <1>3, LastOfFacts
<1>5. QED
  BY <1>4 DEF S

(* A publication makes the channel the flag: its other candidate, the       *)
(* access in front, is alone and has no second to be the payload.           *)
LEMMA FlagIsChannel ==
  ASSUME TestInv, IsMP, Publishes
  PROVE  /\ WritesChannel(pair) /\ clause.sync = Var(pair.alloc)
         /\ \A v \in clause.payload : v # Var(pair.alloc)
<1>1. /\ pair \in Inputs /\ objs = Registered /\ p1 \in Seq(P1Lines) /\ clause = Clause /\ Clause # None
      /\ clause.payload # {}
  BY DEF TestInv, TestStages, IsMP
<1>2. WritesChannel(pair) /\ ~IsFenceAnchor(pair)
  BY DEF Publishes, WritesChannel, IsFenceAnchor
<1>3. clause.sync = SyncVar /\ clause.payload = (Loaded \cap P0Written) \ {SyncVar} /\ SyncVar \in Loaded \cap P0Written
  BY <1>1, ClausePublished
<1>4. ASSUME NEW v \in P0Written, v # Var(pair.alloc) PROVE v = Var(pair.code[pair.before].obj)
  BY <1>2, <1>4 DEF P0Written
<1>5. Var(pair.alloc) \in Loaded
  <2>1. SUFFICES ASSUME Var(pair.alloc) \notin Loaded PROVE FALSE
    OBVIOUS
  <2>2. SyncVar # Var(pair.alloc)
    BY <1>3, <2>1
  <2>3. PICK v \in clause.payload : TRUE
    BY <1>1
  <2>4. v \in Loaded /\ v \in P0Written /\ v # SyncVar
    BY <1>3
  <2>5. v # Var(pair.alloc)
    BY <2>1, <2>4
  <2>6. QED
    BY <1>3, <1>4, <2>2, <2>4, <2>5
<1>6. SyncVar = Var(pair.alloc)
  BY <1>5 DEF SyncVar, Publishes
<1>7. QED
  BY <1>2, <1>3, <1>6

LEMMA InOrderImpossible == TestInv => AboutOrdering
<1> SUFFICES ASSUME TestInv, IsMP, Publishes, ToldApart PROVE ImpossibleInOrder
  BY DEF AboutOrdering
<1>1. /\ pair \in Inputs /\ objs = Registered /\ p0 = AnchorThread(pair)
      /\ p0 \in Seq(P0Lines) /\ p1 \in Seq(P1Lines)
      /\ phase = "done" /\ clause.payload # {} /\ ChannelFirst
  BY DEF TestInv, TestStages, IsMP
<1>2. /\ WritesChannel(pair) /\ clause.sync = Var(pair.alloc)
      /\ \A v \in clause.payload : v # Var(pair.alloc)
  BY FlagIsChannel
<1> DEFINE f == clause.sync
<1>3. PICK v \in clause.payload : v # f
  BY <1>1, <1>2
<1>4. ASSUME NEW w \in {v, f}
      PROVE  /\ \E i \in DOMAIN p0 : p0[i].var = w /\ "W" \in LineEvent(p0[i])
             /\ \E i \in DOMAIN p1 : p1[i].var = w /\ "R" \in LineEvent(p1[i])
             /\ \A i \in DOMAIN p1 : p1[i].var = w => p1[i].op # "STR"
  BY <1>1, ClauseGrounded DEF ClauseReadsPublished
<1>5. WriteAt(v) < WriteAt(f)
  <2>1. WriteAt(v) \in DOMAIN p0 /\ p0[WriteAt(v)].var = v
    BY <1>1, <1>4, WriteAtFacts
  <2>2. /\ WriteAt(f) \in DOMAIN p0
        /\ \A i \in DOMAIN p0 : (p0[i].var = f /\ "W" \in LineEvent(p0[i])) => i <= WriteAt(f)
    BY <1>1, <1>4, WriteAtFacts
  <2>3. Len(p0) # 0 /\ p0[Len(p0)].var = f /\ "W" \in LineEvent(p0[Len(p0)])
    BY <1>1, <1>2, AnchorIsLast
  <2>4. Len(p0) \in Nat /\ DOMAIN p0 = 1..Len(p0)
    BY <1>1
  <2>5. Len(p0) <= WriteAt(f) /\ WriteAt(v) # Len(p0)
    BY <1>3, <2>1, <2>2, <2>3, <2>4
  <2> HIDE DEF f
  <2>6. QED
    BY <2>1, <2>2, <2>4, <2>5
<1>6. ReadAt(f) < ReadAt(v)
  <2>1. ReadAt(v) \in DOMAIN p1 /\ p1[ReadAt(v)].var = v
    BY <1>1, <1>4, ReadAtFacts
  <2>2. ReadAt(f) \in DOMAIN p1 /\ p1[ReadAt(f)].var = f /\ p1[ReadAt(f)].op # "STR"
    BY <1>1, <1>4, ReadAtFacts
  <2>3. v # 0
    <3>1. v \in Loaded
      BY <1>1, ClausePublished DEF TestInv, TestStages
    <3>2. QED
      BY <1>1, <3>1, LoadedVars
  <2>4. ~(ReadAt(v) < ReadAt(f))
    <3>1. \A i, j \in DOMAIN p1 :
            (i < j /\ p1[j].var = Var(pair.alloc) /\ p1[j].op # "STR") => p1[i].var \in {0, Var(pair.alloc)}
      BY <1>1, <1>2 DEF ChannelFirst
    <3>2. QED
      BY <1>2, <1>3, <2>1, <2>2, <2>3, <3>1
  <2>5. ReadAt(v) # ReadAt(f)
    BY <1>3, <2>1, <2>2
  <2>6. DOMAIN p1 = 1..Len(p1) /\ Len(p1) \in Nat
    BY <1>1
  <2> HIDE DEF f
  <2>7. QED
    BY <2>1, <2>2, <2>4, <2>5, <2>6
<1>7. QED
  BY <1>5, <1>6 DEF ImpossibleInOrder

(* The outcome a test asks for is impossible in program order, whatever the *)
(* code and the partner, where the accesses can be told apart.              *)
THEOREM VerdictIsAboutOrdering == VerifierSpec => []AboutOrdering
BY InOrderImpossible, TestInvariant, PTL


----------------------------------------------------------------------------
(* The verifier's tables against the transpiler's.                          *)
LEMMA EmptyIsNoBarrier == Empty \notin PureBarriers
BY Zenon DEF Empty, PureBarriers

(* What the transpiler lowers an instruction to the verifier expects of it. *)
LEMMA LoweredIsDirect ==
  ASSUME NEW mn \in OrderingMnemonics
  PROVE  barrierEquiv(mn) \in {DirectToken(mn), barrierEquivToken(mn)}
<1>1. CASE IsLoadInsn(mn)
  <2>1. mn \in kLoadMn
    BY <1>1 DEF IsLoadInsn, kLoadMn
  <2>3. mn \notin kStoreMn
    BY <2>1 DEF kLoadMn, kStoreMn, LoadAcquire, StoreRelease, RMW
  <2>2. QED
    BY <1>1, <2>1, <2>3 DEF barrierEquiv, barrierEquivToken
<1>2. CASE ~IsLoadInsn(mn) /\ IsStoreInsn(mn)
  <2>1. mn \in kStoreMn /\ mn \notin kLoadMn
    BY <1>2 DEF IsLoadInsn, IsStoreInsn, kLoadMn, kStoreMn
  <2>2. QED
    BY <1>2, <2>1 DEF barrierEquiv, barrierEquivToken
<1>3. CASE ~IsLoadInsn(mn) /\ ~IsStoreInsn(mn)
  <2>1. barrierEquiv(mn) = mnemonicToHerd7(mn) /\ mnemonicToHerd7(mn) # Empty
    BY <1>3 DEF barrierEquiv, OrderingMnemonics
  <2>2. /\ mn \notin LoadAcquire /\ mn \notin StoreRelease \ {"stlxp"}
        /\ mn \notin RMW.SC \cup RMW.Acquire \cup RMW.Release
    BY <1>3 DEF IsLoadInsn, IsStoreInsn
  <2>3. mnemonicToHerd7(mn) = DirectToken(mn)
    BY <2>1, <2>2 DEF mnemonicToHerd7, DirectToken
  <2>4. QED
    BY <2>1, <2>3
<1>4. QED
  BY <1>1, <1>2, <1>3

LEMMA CallTokensAgree ==
  ASSUME NEW fn, orderingToHerd7Barrier(EmittedOrdering(fn)) # Empty
  PROVE  orderingToHerd7Barrier(EmittedOrdering(fn)) \in CallTokens(fn)
<1>1. orderingToHerd7Barrier("None") = Empty
  BY DEF orderingToHerd7Barrier
<1>2. EmittedOrdering(fn) # "None"
  BY <1>1
<1> DEFINE prior == PrefixOrdering(fn.prefix)
           known == Rank[prior] > Rank["Relaxed"]
<1>3. ~fn.defined /\ EmittedOrdering(fn) = IF known THEN prior ELSE fn.ordering
  BY <1>2 DEF EmittedOrdering
<1>4. QED
  BY <1>3 DEF CallTokens

LEMMA LoweredIsPlausible ==
  ASSUME NEW inst \in Instructions, NEW oi \in Range(OrderingInsts(inst))
  PROVE  oi.lowered \in recordPlausibleTokens(inst) \ {Empty}
<1>1. oi.lowered # Empty
  <2>1. oi \in OrderingInstSet
    BY OrderingInstsOf DEF Range
  <2>2. QED
    BY <2>1, OrderingInstLowered, EmptyIsNoBarrier
<1>2. CASE inst.op = "asm"
  <2>1. PICK mn \in Texts(inst) \cap OrderingMnemonics : oi = AsmOrderingInst(mn)
    BY <1>2, OrderingInstsOf
  <2>2. oi.lowered = barrierEquiv(mn)
    BY <2>1 DEF AsmOrderingInst
  <2>3. AsmOrdering(mn) # "Relaxed"
    BY <2>1 DEF OrderingMnemonics
  <2>4. recordPlausibleTokens(inst)
          = UNION {{DirectToken(n), barrierEquivToken(n)} : n \in {t \in Texts(inst) : AsmOrdering(t) # "Relaxed"}}
    BY <1>2 DEF recordPlausibleTokens
  <2>5. barrierEquiv(mn) \in {DirectToken(mn), barrierEquivToken(mn)}
    BY LoweredIsDirect
  <2>6. {DirectToken(mn), barrierEquivToken(mn)} \subseteq recordPlausibleTokens(inst)
    BY <2>1, <2>3, <2>4
  <2>7. QED
    BY <1>1, <2>2, <2>5, <2>6
<1>3. CASE inst.op = "call"
  <2> DEFINE token == orderingToHerd7Barrier(EmittedOrdering(inst.fns[1]))
  <2>1. oi \in IF token = Empty THEN {} ELSE {[token |-> token, lowered |-> token, acquires |-> FALSE]}
    BY <1>3, OrderingInstsOf
  <2>2. token # Empty /\ oi.lowered = token
    BY <2>1
  <2>3. token \in CallTokens(inst.fns[1])
    BY <2>2, CallTokensAgree
  <2>4. recordPlausibleTokens(inst) = CallTokens(inst.fns[1])
    BY <1>3 DEF recordPlausibleTokens
  <2>5. QED
    BY <1>1, <2>2, <2>3, <2>4
<1>4. CASE inst.op \in {"load", "store"}
  BY <1>4, OrderingInstsOf, RangeOfOne
<1>5. QED
  BY <1>2, <1>3, <1>4, InstKinds

(* The anchor: a line with the token the verifier expects, if it expects    *)
(* one, and no other barrier.                                               *)
LEMMA AnchorToken ==
  ASSUME pair \in Inputs, pair.label # "dmb osh"
  PROVE  /\ expectedAnchorToken(pair) # Empty =>
              \E l \in Range(emitAnchor(pair)) : l.op = expectedAnchorToken(pair)
         /\ \A l \in Range(emitAnchor(pair)) :
              l.op \in PureBarriers \cup {"LDAR"} => l.op = expectedAnchorToken(pair)
         /\ expectedAnchorToken(pair) \in {"STLR", "SWPAL", "DMB ISH", "DMB ST", "DMB LD", "DSB SY", Empty}
         /\ pair.site = "store plain" => expectedAnchorToken(pair) = Empty
<1> DEFINE o == orderingToHerd7Barrier(pair.ordering)
           barrier == IF pair.site = "asm" /\ mnemonicToHerd7(pair.label) \in PureBarriers
                      THEN mnemonicToHerd7(pair.label) ELSE o
           op == IF pair.site = "store plain" THEN "STR"
                 ELSE IF pair.label \in RMW.SC THEN "SWPAL" ELSE "STLR"
<1>1. o \in {"DMB ISH", "DMB LD", "DMB ST", Empty} /\ (pair.ordering = "Relaxed" => o = Empty)
  BY DEF orderingToHerd7Barrier
<1>2. /\ pair.site = "asm" => pair.ordering = AsmOrdering(pair.label)
      /\ pair.site \in {"asm", "call", "store plain"}
      /\ pair.site = "store plain" => pair.ordering = "Relaxed"
  BY InputsAssumption
<1>3. pair.site = "store plain" => expectedAnchorToken(pair) = Empty
  BY <1>1, <1>2 DEF expectedAnchorToken
<1>4. CASE WritesChannel(pair)
  <2> DEFINE l == Line(op, Var(pair.alloc))
  <2>1. emitAnchor(pair) = <<l>>
    BY <1>4 DEF emitAnchor
  <2>2. l.op = op
    BY DEF Line
  <2>3. op \notin PureBarriers /\ op # "LDAR"
    BY DEF PureBarriers
  <2>4. pair.site = "asm" => expectedAnchorToken(pair) = op /\ op \in {"SWPAL", "STLR"}
    BY <1>4 DEF WritesChannel, expectedAnchorToken
  <2>5. pair.site \in {"asm", "store plain"}
    BY <1>4 DEF WritesChannel
  <2> HIDE DEF l, op
  <2>6. Range(emitAnchor(pair)) = {l}
    BY <2>1, RangeOfOne
  <2>7. QED
    BY <1>3, <2>2, <2>3, <2>4, <2>5, <2>6
<1>5. CASE ~WritesChannel(pair)
  <2>1. emitAnchor(pair) = IF barrier = Empty THEN <<>> ELSE <<Fence(barrier)>>
    BY <1>5 DEF emitAnchor
  <2>2. barrier = expectedAnchorToken(pair)
    <3>1. CASE pair.site = "asm"
      <4>1. pair.alloc = None
        BY <1>5, <3>1 DEF WritesChannel
      <4>2. CASE pair.label \in {"dmb ish", "dmb ishst", "dmb oshst", "dmb ishld", "dsb sy"}
        <5>4. pair.label \notin LoadAcquire \cup StoreRelease \cup RMW.SC \cup RMW.Acquire \cup RMW.Release
          BY <4>2 DEF LoadAcquire, StoreRelease, RMW
        <5>1. mnemonicToHerd7(pair.label) = expectedAnchorToken(pair)
          BY <3>1, <4>1, <4>2, <5>4 DEF mnemonicToHerd7, expectedAnchorToken
        <5>2. mnemonicToHerd7(pair.label) \in PureBarriers
          BY <4>2, <5>4 DEF mnemonicToHerd7, PureBarriers
        <5>3. QED
          BY <3>1, <5>1, <5>2
      <4>3. CASE pair.label \notin {"dmb ish", "dmb ishst", "dmb oshst", "dmb ishld", "dsb sy"}
        <5>1. mnemonicToHerd7(pair.label) \notin PureBarriers
          <6>1. mnemonicToHerd7(pair.label) \in {"LDAR", "STLR", Empty}
                  \cup RMW.SC \cup RMW.Acquire \cup RMW.Release
            BY <4>3 DEF mnemonicToHerd7
          <6>2. "LDAR" \notin PureBarriers /\ "STLR" \notin PureBarriers
                /\ (RMW.SC \cup RMW.Acquire \cup RMW.Release) \cap PureBarriers = {}
            BY DEF PureBarriers, RMW
          <6>3. QED
            BY <6>1, <6>2, EmptyIsNoBarrier
        <5>2. barrier = o
          BY <5>1
        <5>3. CASE pair.label \in {"dsb ish", "dmb oshld", "dsb ld"}
          <6>1. CASE pair.label = "dsb ish"
            <7>1. pair.ordering = "SC"
              BY <1>2, <3>1, <6>1 DEF AsmOrdering, ThreadBarrier, LoadAcquire, StoreRelease, RMW
            <7>2. QED
              BY <3>1, <4>1, <5>2, <6>1, <7>1 DEF orderingToHerd7Barrier, expectedAnchorToken
          <6>2. CASE pair.label \in {"dmb oshld", "dsb ld"}
            <7>1. pair.ordering = "Acquire"
              BY <1>2, <3>1, <6>2 DEF AsmOrdering, ThreadBarrier, LoadAcquire, StoreRelease, RMW
            <7>2. QED
              BY <3>1, <4>1, <5>2, <6>2, <7>1 DEF orderingToHerd7Barrier, expectedAnchorToken
          <6>3. QED
            BY <5>3, <6>1, <6>2
        <5>4. CASE pair.label \notin {"dsb ish", "dmb oshld", "dsb ld"}
          BY <3>1, <4>1, <4>3, <5>2, <5>4 DEF expectedAnchorToken
        <5>5. QED
          BY <5>3, <5>4
      <4>4. QED
        BY <4>2, <4>3
    <3>2. CASE pair.site # "asm"
      BY <3>2 DEF expectedAnchorToken
    <3>3. QED
      BY <3>1, <3>2
  <2>3. barrier \in {"DMB ISH", "DMB ST", "DMB LD", "DSB SY", Empty}
    <3>1. CASE pair.site = "asm" /\ mnemonicToHerd7(pair.label) \in PureBarriers
      <4>1. mnemonicToHerd7(pair.label) # "DMB OSH"
        <5>1. mnemonicToHerd7(pair.label) \in {"DMB ISH", "DMB ST", "DMB LD", "DSB SY", "LDAR", "STLR", Empty}
                \cup RMW.SC \cup RMW.Acquire \cup RMW.Release
          BY DEF mnemonicToHerd7
        <5>2. "DMB OSH" # Empty /\ "DMB OSH" \notin RMW.SC \cup RMW.Acquire \cup RMW.Release
          <6>1. "DMB OSH" \in PureBarriers
            BY DEF PureBarriers
          <6>2. "DMB OSH" # Empty
            BY <6>1, EmptyIsNoBarrier
          <6>3. "DMB OSH" \notin RMW.SC \cup RMW.Acquire \cup RMW.Release
            BY DEF RMW
          <6>4. QED
            BY <6>2, <6>3
        <5>3. QED
          BY <5>1, <5>2
      <4>2. QED
        BY <3>1, <4>1 DEF PureBarriers
    <3>2. CASE ~(pair.site = "asm" /\ mnemonicToHerd7(pair.label) \in PureBarriers)
      BY <1>1, <3>2
    <3>3. QED
      BY <3>1, <3>2
  <2> DEFINE l == Fence(barrier)
  <2>4. emitAnchor(pair) = IF barrier = Empty THEN <<>> ELSE <<l>>
    BY <2>1
  <2> HIDE DEF barrier
  <2>5. l.op = barrier
    BY DEF Fence, Line
  <2> HIDE DEF l
  <2>6. Range(emitAnchor(pair)) = IF barrier = Empty THEN {} ELSE {l}
    BY <2>4, RangeOfOne
  <2>7. QED
    BY <1>3, <2>2, <2>3, <2>5, <2>6
<1>6. QED
  BY <1>4, <1>5


----------------------------------------------------------------------------
(* No false alarm.                                                          *)
LEMMA TokensAre ==
  ASSUME NEW th
  PROVE  Tokens(th) = {l.op : l \in Range(th)}
BY DEF Tokens, Range

LEMMA AnchorLineInP0 ==
  ASSUME pair \in Inputs, objs = Registered, p0 = AnchorThread(pair)
  PROVE  Range(emitAnchor(pair)) \subseteq Range(p0)
BY ThreadOfAnchor

LEMMA P2NeverFails ==
  ASSUME pair \in Inputs, objs = Registered, p0 = AnchorThread(pair), pair.label # "dmb osh"
  PROVE  checkP2 # "fail"
<1> DEFINE expected == expectedAnchorToken(pair)
           full == {"DMB ISH", "DSB SY"}
           alts == CASE expected = "STLR" -> full \cup {"STLR", "SWPAL", "DMB ST"}
                     [] expected = "SWPAL" -> full \cup {"SWPAL"}
                     [] expected = "DMB ST" -> full \cup {"DMB ST", "STLR", "SWPAL"}
                     [] expected = "DMB LD" -> full \cup {"DMB LD", "LDAR"}
                     [] OTHER -> full
<1>1. checkP2 = IF expected = Empty THEN "skip" ELSE Verdict(Tokens(p0) \cap alts # {})
  BY DEF checkP2
<1>2. CASE expected = Empty
  BY <1>1, <1>2
<1>3. CASE expected # Empty
  <2>1. \E l \in Range(emitAnchor(pair)) : l.op = expected
    BY <1>3, AnchorToken
  <2>2. expected \in Tokens(p0)
    BY <2>1, AnchorLineInP0, TokensAre
  <2>3. expected \in {"STLR", "SWPAL", "DMB ISH", "DMB ST", "DMB LD", "DSB SY"}
    BY <1>3, AnchorToken
  <2> HIDE DEF expected
  <2>4. expected \in alts
    BY <2>3
  <2> HIDE DEF alts
  <2>5. QED
    BY <1>1, <1>3, <2>2, <2>4 DEF Verdict
<1>4. QED
  BY <1>2, <1>3

LEMMA P3Passes ==
  ASSUME TestInv, phase = "done"
  PROVE  checkP3 = "pass"
<1>1. /\ pair \in Inputs /\ objs = Registered /\ order = Hoisted /\ p1 \in Seq(P1Lines)
      /\ idx \in 1..(Len(order) + 1) /\ idx \notin DOMAIN order
      /\ \A k \in 1..(idx - 1) : \E i \in DOMAIN p1 : p1[i] = PartnerAccess(Access(k))
  BY DEF TestInv, TestTypeOK, TestStages, Emitted
<1>2. order \in Seq(DOMAIN pair.partner) /\ Len(order) \in Nat /\ DOMAIN order = 1..Len(order)
      /\ Range(order) = Range(pair.accesses)
  BY <1>1, HoistedFacts
<1>3. ASSUME NEW i \in Range(pair.accesses), ~IsStore(pair.partner[i])
      PROVE  Tokens(p1) \cap {"LDR", "LDAR"} # {}
  <2>1. PICK k \in DOMAIN order : order[k] = i
    BY <1>2 DEF Range
  <2>2. k \in 1..(idx - 1)
    BY <1>1, <1>2
  <2>3. PICK j \in DOMAIN p1 : p1[j] = PartnerAccess(Access(k))
    BY <1>1, <2>2
  <2>4. ~IsStore(Access(k))
    BY <1>3, <2>1 DEF Access
  <2>5. p1[j].op \in {"LDR", "LDAR"}
    BY <1>1, <2>3, <2>4, PartnerLine
  <2>6. p1[j].op \in Tokens(p1)
    BY DEF Tokens
  <2>7. QED
    BY <2>5, <2>6
<1>4. QED
  BY <1>3 DEF checkP3, Verdict

(* A barrier between two positions of the anchor function is plausible.     *)
LEMMA BetweenIsPlausible ==
  ASSUME pair \in Inputs, NEW lo \in 0..Len(pair.code), NEW hi \in 0..Len(pair.code),
         NEW l \in Range(Between(pair.code, lo, hi))
  PROVE  lo # 0 /\ hi # 0 /\ l.op \in plausibleBarriersBetween(pair.code, lo, hi)
<1>1. pair.code \in Seq(Instructions) /\ Len(pair.code) \in Nat
  BY PairFacts
<1>2. lo # 0 /\ hi # 0 /\ lo < hi
  BY <1>1, BetweenFacts
<1>3. l \in {Fence(oi.lowered) : oi \in UNION {Range(OrderingInsts(pair.code[k])) : k \in (lo + 1)..(hi - 1)}}
  BY <1>1, <1>2, BetweenFacts
<1>9. PICK k \in (lo + 1)..(hi - 1) : \E oi \in Range(OrderingInsts(pair.code[k])) : l = Fence(oi.lowered)
  BY <1>3
<1>4. PICK oi \in Range(OrderingInsts(pair.code[k])) : l = Fence(oi.lowered)
  BY <1>9
<1>5. pair.code[k] \in Instructions
  BY <1>1
<1>6. oi.lowered \in recordPlausibleTokens(pair.code[k]) \ {Empty}
  BY <1>5, LoweredIsPlausible
<1>7. l.op = oi.lowered
  BY <1>4 DEF Fence, Line
<1>8. QED
  BY <1>2, <1>6, <1>7 DEF plausibleBarriersBetween

LEMMA P4Passes ==
  ASSUME pair \in Inputs, objs = Registered, p0 = AnchorThread(pair), pair.label # "dmb osh",
         pair.site # "store plain"
  PROVE  checkP4 = "pass"
<1>1. Anchor # 0
  BY AnchorFound DEF Anchor
<1>2. /\ Before \in 0..Len(pair.code) /\ Anchor \in 0..Len(pair.code) /\ After \in 0..Len(pair.code)
      /\ pair.before = 0 => Before = 0
      /\ pair.after = 0 => After = 0
  BY PairFacts, Found, AnchorFound DEF Before, Anchor, After, findInstByIR
<1>3. ASSUME NEW l \in Range(p0), l.op \in PureBarriers \cup {"LDAR"}
      PROVE  l.op \in Plausible \cup {expectedAnchorToken(pair)}
  <2>1. \/ l \in Range(BracketAccess(pair, pair.before))
        \/ l \in Range(Between(pair.code, Before, Anchor))
        \/ l \in Range(emitAnchor(pair))
        \/ l \in Range(Between(pair.code, Anchor, After))
        \/ l \in Range(BracketAccess(pair, pair.after))
    BY ThreadOfAnchor DEF Before, Anchor, After
  <2>2. ASSUME NEW i \in {pair.before, pair.after}, l \in Range(BracketAccess(pair, i)) PROVE FALSE
    <3>1. CASE i = 0
      BY <2>2, <3>1, BracketLine, RangeOfOne
    <3>2. CASE i # 0
      <4> DEFINE q == emitAccess(pair.code[i].obj, pair.code[i].op = "store")
      <4>1. BracketAccess(pair, i) = <<q>>
        BY <3>2, BracketLine
      <4>2. q.op \in {"LDR", "STR"}
        BY DEF emitAccess, Line
      <4> HIDE DEF q
      <4>3. l = q
        BY <2>2, <4>1, RangeOfOne
      <4>4. QED
        BY <1>3, <4>2, <4>3 DEF PureBarriers
    <3>3. QED
      BY <3>1, <3>2
  <2>3. CASE l \in Range(Between(pair.code, Before, Anchor))
    <3>1. Before # 0 /\ l.op \in plausibleBarriersBetween(pair.code, Before, Anchor)
      BY <1>2, <2>3, BetweenIsPlausible
    <3>2. QED
      BY <1>2, <3>1 DEF Plausible
  <2>4. CASE l \in Range(Between(pair.code, Anchor, After))
    <3>1. After # 0 /\ l.op \in plausibleBarriersBetween(pair.code, Anchor, After)
      BY <1>2, <2>4, BetweenIsPlausible
    <3>2. QED
      BY <1>2, <3>1 DEF Plausible
  <2>5. CASE l \in Range(emitAnchor(pair))
    BY <1>3, <2>5, AnchorToken
  <2>6. QED
    BY <2>1, <2>2, <2>3, <2>4, <2>5
<1>4. Tokens(p0) \cap (PureBarriers \cup {"LDAR"}) \subseteq Plausible \cup {expectedAnchorToken(pair)}
  BY <1>3, TokensAre
<1>5. QED
  BY <1>1, <1>4 DEF checkP4, Verdict

LEMMA P7Passes ==
  ASSUME TestInv, phase = "done"
  PROVE  checkP7 = "pass"
BY ClauseGrounded DEF ClauseReadsPublished, checkP7, Verdict

(* The report is made of a finished test, and nothing moves after it.       *)
ReportInv == TestInv /\ NoFalseAlarm /\ (Verified => phase = "done")

(* Two passes written apart agree on every test: no mistaken alarm of the   *)
(* checks on tokens and on the condition.                                   *)
THEOREM NoFalseAlarms == VerifierSpec => []NoFalseAlarm
<1>1. VerifierInit => ReportInv
  <2> SUFFICES ASSUME VerifierInit PROVE ReportInv
    OBVIOUS
  <2>1. TestInv /\ ~Verified
    BY TestInvInit DEF VerifierInit, Verified
  <2>2. QED
    BY <2>1 DEF ReportInv, NoFalseAlarm
<1>2. ReportInv /\ [VerifierNext]_verifierVars => ReportInv'
  <2> SUFFICES ASSUME ReportInv, [VerifierNext]_verifierVars PROVE ReportInv'
    OBVIOUS
  <2>1. TestInv /\ NoFalseAlarm /\ (Verified => phase = "done")
    BY DEF ReportInv
  <2>2. [TestNext]_testVars
    BY DEF VerifierNext, Transpile, Verify, verifierVars, testVars
  <2>3. TestInv'
    BY <2>1, <2>2, TestInvStep
  <2>4. CASE Verify
    <3>1. phase = "done" /\ phase' = "done" /\ pair' = pair /\ checks' = CheckReport
      BY <2>4 DEF Verify, testVars
    <3>2. pair \in Inputs /\ objs = Registered /\ p0 = AnchorThread(pair)
      BY <2>1, <3>1 DEF TestInv, TestStages
    <3>3. /\ CheckReport.P2 = checkP2 /\ CheckReport.P3 = checkP3
          /\ CheckReport.P4 = checkP4 /\ CheckReport.P7 = checkP7
      BY DEF CheckReport
    <3>4. ASSUME pair.label # "dmb osh"
          PROVE  /\ checkP2 # "fail" /\ checkP3 = "pass"
                 /\ pair.site # "store plain" => checkP4 = "pass"
                 /\ checkP7 = "pass"
      BY <2>1, <3>1, <3>2, <3>4, P2NeverFails, P3Passes, P4Passes, P7Passes
    <3>5. NoFalseAlarm'
      BY <3>1, <3>3, <3>4 DEF NoFalseAlarm
    <3>6. QED
      BY <2>3, <3>1, <3>5 DEF ReportInv
  <2>5. CASE TestNext /\ checks' = checks
    <3>1. phase # "done"
      BY <2>5 DEF TestNext, RegisterObjects, BuildAnchorThread, OrderAccesses, EmitPartnerAccess, BuildExistsClause
    <3>2. ~Verified'
      BY <2>1, <2>5, <3>1 DEF Verified
    <3>3. QED
      BY <2>3, <3>2 DEF ReportInv, NoFalseAlarm
  <2>6. CASE UNCHANGED verifierVars
    <3>1. NoFalseAlarm' /\ (Verified' => phase' = "done")
      BY <2>1, <2>6 DEF NoFalseAlarm, Verified, verifierVars, testVars
    <3>2. QED
      BY <2>3, <3>1 DEF ReportInv
  <2>7. QED
    BY <2>4, <2>5, <2>6 DEF VerifierNext, Transpile
<1>3. ReportInv => NoFalseAlarm
  BY DEF ReportInv
<1>4. QED
  BY <1>1, <1>2, <1>3, PTL DEF VerifierSpec

----------------------------------------------------------------------------
(* What the test keeps in order and what the code keeps (ExactWhenKept and  *)
(* P8MakesAnchorSideExact).  An event is reduced to the marks it leaves on  *)
(* the order of those around it; the lines of a thread leave the marks of   *)
(* the instructions they stand for.                                         *)
(* What an event does to the order of those on either side of it.           *)
Marks(ev) == (IF ev \cap {"FULL", "AL"} # {} THEN {"FULL"} ELSE {}) \cup (ev \cap {"LD", "ST"})
MarksBetween(e, i, j) == UNION {Marks(e[k]) : k \in Between2(i, j)}
Ordering(from, marks, to) ==
  \/ "FULL" \in marks
  \/ "R" \in from /\ "LD" \in marks
  \/ "W" \in from /\ "W" \in to /\ "ST" \in marks
  \/ from \cap {"A", "Q", "AL"} # {}
  \/ to \cap {"L", "AL"} # {}
  \/ "L" \in from /\ "A" \in to

LEMMA DirectByMarks ==
  ASSUME NEW e, NEW i, NEW j
  PROVE  KeptDirectly(e, i, j) <=> i < j /\ Ordering(e[i], MarksBetween(e, i, j), e[j])
<1>1. "FULL" \in MarksBetween(e, i, j) <=> \E k \in Between2(i, j) : e[k] \cap {"FULL", "AL"} # {}
  <2>1. \A ev : "FULL" \in Marks(ev) <=> ev \cap {"FULL", "AL"} # {}
    BY DEF Marks
  <2>2. QED
    BY <2>1 DEF MarksBetween
<1>2. "LD" \in MarksBetween(e, i, j) <=> \E k \in Between2(i, j) : "LD" \in e[k]
  <2>1. \A ev : "LD" \in Marks(ev) <=> "LD" \in ev
    BY DEF Marks
  <2>2. QED
    BY <2>1 DEF MarksBetween
<1>3. "ST" \in MarksBetween(e, i, j) <=> \E k \in Between2(i, j) : "ST" \in e[k]
  <2>1. \A ev : "ST" \in Marks(ev) <=> "ST" \in ev
    BY DEF Marks
  <2>2. QED
    BY <2>1 DEF MarksBetween
<1>4. QED
  BY <1>1, <1>2, <1>3, Zenon DEF KeptDirectly, Ordering

(* What is kept directly is kept, with or without dependencies; what is     *)
(* kept without them is kept with them.                                     *)
LEMMA DirectIsKept ==
  ASSUME NEW e, NEW deps, NEW i, NEW j, i \in DOMAIN e, j \in DOMAIN e,
         e[i] \cap {"R", "W"} # {}, e[j] \cap {"R", "W"} # {}, KeptDirectly(e, i, j)
  PROVE  <<i, j>> \in Kept(e, deps)
<1>1. i \in Memory(e) /\ j \in Memory(e)
  BY DEF Memory
<1>2. j \in OrderedAfter(e, deps, i)
  BY <1>1 DEF OrderedAfter
<1>3. QED
  BY <1>1, <1>2 DEF Kept

LEMMA KeptMonotone ==
  ASSUME NEW e, NEW deps, NEW i, NEW j, <<i, j>> \in Kept(e, {})
  PROVE  <<i, j>> \in Kept(e, deps)
<1>1. \A k : OrderedAfter(e, {}, k) \subseteq OrderedAfter(e, deps, k)
  BY DEF OrderedAfter, Depends
<1>2. i \in Memory(e) /\ j \in Memory(e)
  BY DEF Kept
<1>3. ASSUME NEW U \in SUBSET Memory(e), OrderedAfter(e, deps, i) \subseteq U, ClosedUnderOrder(e, deps, U)
      PROVE  j \in U
  <2>1. OrderedAfter(e, {}, i) \subseteq U /\ ClosedUnderOrder(e, {}, U)
    BY <1>1, <1>3 DEF ClosedUnderOrder
  <2>2. QED
    BY <2>1 DEF Kept
<1>4. QED
  BY <1>2, <1>3 DEF Kept

LEMMA KeptForward ==
  ASSUME NEW e, NEW deps, NEW n \in Nat, DOMAIN e = 1..n, NEW k
  PROVE  /\ Memory(e) \subseteq 1..n
         /\ \A b \in OrderedAfter(e, deps, k) : b \in Memory(e) /\ k < b
BY DEF Memory, OrderedAfter, KeptDirectly, Depends

(* Where no dependency lies between, what is kept owes nothing to one.      *)
LEMMA KeptUndepended ==
  ASSUME NEW e, NEW deps, NEW n \in Nat, DOMAIN e = 1..n, NEW i, NEW j,
         <<i, j>> \in Kept(e, deps), Undepended(deps, i, j)
  PROVE  <<i, j>> \in Kept(e, {})
<1>1. i \in Memory(e) /\ j \in Memory(e)
  BY DEF Kept
<1>2. i \in 1..n /\ j \in 1..n
  BY <1>1, KeptForward
<1>3. ASSUME NEW U \in SUBSET Memory(e), OrderedAfter(e, {}, i) \subseteq U, ClosedUnderOrder(e, {}, U)
      PROVE  j \in U
  <2> DEFINE V == {b \in Memory(e) : (b \in U /\ i < b) \/ j < b}
  <2>1. ASSUME NEW m \in 1..n, i <= m, NEW b \in OrderedAfter(e, deps, m), ~(j < b)
        PROVE  b \in OrderedAfter(e, {}, m)
    <3>1. b \in Memory(e) /\ b \in 1..n /\ b <= j
      <4>1. b \in Memory(e) /\ Memory(e) \subseteq 1..n
        BY <2>1, KeptForward
      <4>2. b \in 1..n /\ j \in 1..n /\ ~(j < b)
        BY <1>2, <2>1, <4>1
      <4>3. QED
        BY <4>1, <4>2
    <3>2. <<m, b>> \notin deps
      <4>1. \A d \in deps : ~(i <= d[1] /\ d[2] <= j)
        BY DEF Undepended
      <4>2. <<m, b>>[1] = m /\ <<m, b>>[2] = b
        OBVIOUS
      <4>3. QED
        BY <2>1, <3>1, <4>1, <4>2
    <3>3. QED
      BY <2>1, <3>1, <3>2 DEF OrderedAfter, Depends
  <2>2. OrderedAfter(e, deps, i) \subseteq V
    <3> SUFFICES ASSUME NEW b \in OrderedAfter(e, deps, i), ~(j < b) PROVE b \in U /\ i < b /\ b \in Memory(e)
      BY KeptForward
    <3>1. b \in Memory(e) /\ i < b
      BY KeptForward
    <3>2. i <= i
      BY <1>2
    <3>3. b \in OrderedAfter(e, {}, i)
      BY <1>2, <2>1, <3>2
    <3>4. QED
      BY <1>3, <3>1, <3>3
  <2>3. ASSUME NEW m \in V, NEW b \in OrderedAfter(e, deps, m)
        PROVE  b \in V
    <3>1. b \in Memory(e) /\ m < b /\ m \in 1..n /\ b \in 1..n
      BY <2>3, KeptForward
    <3>2. CASE j < b
      BY <3>1, <3>2
    <3>3. CASE ~(j < b)
      <4>1. ~(j < m)
        BY <1>2, <3>1, <3>3
      <4>2. m \in U /\ i < m
        BY <2>3, <4>1
      <4>3. i <= m /\ i < b
        BY <1>2, <3>1, <4>2
      <4>4. b \in OrderedAfter(e, {}, m)
        BY <2>1, <2>3, <3>1, <3>3, <4>3
      <4>5. b \in U
        BY <1>3, <4>2, <4>4 DEF ClosedUnderOrder
      <4>6. QED
        BY <3>1, <4>3, <4>5
    <3>4. QED
      BY <3>2, <3>3
  <2>4. ClosedUnderOrder(e, deps, V)
    BY <2>3 DEF ClosedUnderOrder
  <2>5. V \in SUBSET Memory(e)
    OBVIOUS
  <2> HIDE DEF V
  <2>6. j \in V
    BY <2>2, <2>4, <2>5 DEF Kept
  <2>7. QED
    BY <1>2, <2>6 DEF V
<1>4. QED
  BY <1>1, <1>3 DEF Kept

LEMMA KeptInOrder ==
  ASSUME NEW e, NEW deps, NEW n \in Nat, DOMAIN e = 1..n, NEW i, NEW j, <<i, j>> \in Kept(e, deps)
  PROVE  i < j
<1> DEFINE U == {b \in Memory(e) : i < b}
<1>1. i \in Memory(e) /\ i \in 1..n
  <2>1. i \in Memory(e)
    BY DEF Kept
  <2>2. QED
    BY <2>1, KeptForward
<1>2. OrderedAfter(e, deps, i) \subseteq U
  BY KeptForward
<1>3. ASSUME NEW m \in U, NEW b \in OrderedAfter(e, deps, m)
      PROVE  b \in U
  <2>1. b \in Memory(e) /\ m < b /\ m \in 1..n /\ b \in 1..n /\ i < m
    BY <1>3, KeptForward
  <2>2. QED
    BY <1>1, <2>1
<1>4. ClosedUnderOrder(e, deps, U) /\ U \in SUBSET Memory(e)
  BY <1>3 DEF ClosedUnderOrder
<1> HIDE DEF U
<1>5. j \in U
  BY <1>2, <1>4 DEF Kept
<1>6. QED
  BY <1>5 DEF U

(* A detour over an access between adds nothing, unless that releases       *)
(* without acquiring or writes while it acquires.                           *)
Inner(ev) == "AL" \in ev \/ ("L" \notin ev /\ ("W" \in ev => ev \cap {"R", "A", "Q"} = {}))

LEMMA DirectOverInner ==
  ASSUME NEW e, NEW n \in Nat, NEW i \in 1..n, NEW m \in 1..n, NEW b \in 1..n,
         "L" \in e[i] => "AL" \in e[i], Inner(e[m]), KeptDirectly(e, i, m), KeptDirectly(e, m, b)
  PROVE  KeptDirectly(e, i, b)
<1>1. i < m /\ m < b
  BY DEF KeptDirectly
<1>2. /\ m \in Between2(i, b) /\ i < b
      /\ \A k \in Between2(i, m) : k \in Between2(i, b)
      /\ \A k \in Between2(m, b) : k \in Between2(i, b)
  BY <1>1 DEF Between2
<1>3. CASE "AL" \in e[m]
  BY <1>2, <1>3 DEF KeptDirectly
<1>4. CASE "AL" \notin e[m]
  <2>1. "L" \notin e[m] /\ ("W" \in e[m] => e[m] \cap {"R", "A", "Q"} = {})
    BY <1>4 DEF Inner
  <2>2. CASE \E k \in Between2(i, m) : e[k] \cap {"FULL", "AL"} # {}
    BY <1>2, <2>2 DEF KeptDirectly
  <2>3. CASE "R" \in e[i] /\ \E k \in Between2(i, m) : "LD" \in e[k]
    BY <1>2, <2>3 DEF KeptDirectly
  <2>4. CASE "W" \in e[i] /\ "W" \in e[m] /\ \E k \in Between2(i, m) : "ST" \in e[k]
    <3>1. "R" \notin e[m] /\ e[m] \cap {"A", "Q", "AL"} = {} /\ "L" \notin e[m]
      BY <1>4, <2>1, <2>4
    <3>2. \/ \E k \in Between2(m, b) : e[k] \cap {"FULL", "AL"} # {}
          \/ "W" \in e[b] \/ e[b] \cap {"L", "AL"} # {}
      BY <3>1 DEF KeptDirectly
    <3>3. QED
      BY <1>2, <2>4, <3>2 DEF KeptDirectly
  <2>5. CASE e[i] \cap {"A", "Q", "AL"} # {}
    BY <1>2, <2>5 DEF KeptDirectly
  <2>6. e[m] \cap {"L", "AL"} = {}
    BY <1>4, <2>1
  <2>7. "L" \in e[i] => e[i] \cap {"A", "Q", "AL"} # {}
    OBVIOUS
  <2>8. QED
    BY <2>2, <2>3, <2>4, <2>5, <2>6, <2>7 DEF KeptDirectly
<1>5. QED
  BY <1>3, <1>4

LEMMA KeptIsDirect ==
  ASSUME NEW e, NEW n \in Nat, DOMAIN e = 1..n, NEW i \in 1..n, NEW j \in 1..n,
         e[i] \cap {"R", "W"} # {}, e[j] \cap {"R", "W"} # {}, "L" \in e[i] => "AL" \in e[i],
         \A m \in Between2(i, j) : Inner(e[m])
  PROVE  <<i, j>> \in Kept(e, {}) <=> KeptDirectly(e, i, j)
<1> DEFINE U == {b \in Memory(e) : b <= j => KeptDirectly(e, i, b)}
<1>1. KeptDirectly(e, i, j) => <<i, j>> \in Kept(e, {})
  BY DirectIsKept
<1>2. \A k : \A b \in OrderedAfter(e, {}, k) : KeptDirectly(e, k, b)
  BY DEF OrderedAfter, Depends
<1>3. OrderedAfter(e, {}, i) \subseteq U
  BY <1>2, KeptForward
<1>4. ASSUME NEW m \in U, NEW b \in OrderedAfter(e, {}, m)
      PROVE  b \in U
  <2>1. b \in Memory(e) /\ m < b /\ m \in 1..n /\ b \in 1..n /\ KeptDirectly(e, m, b)
    BY <1>2, <1>4, KeptForward
  <2>2. ASSUME b <= j PROVE KeptDirectly(e, i, b)
    <3>1. m < j /\ m <= j
      BY <2>1, <2>2
    <3>2. KeptDirectly(e, i, m)
      BY <1>4, <3>1
    <3>3. i < m
      BY <3>2 DEF KeptDirectly
    <3>4. m \in Between2(i, j)
      BY <2>1, <3>1, <3>3 DEF Between2
    <3>5. Inner(e[m])
      BY <3>4
    <3>6. QED
      BY <2>1, <3>2, <3>5, DirectOverInner
  <2>3. QED
    BY <2>1, <2>2
<1>5. ClosedUnderOrder(e, {}, U) /\ U \in SUBSET Memory(e)
  BY <1>4 DEF ClosedUnderOrder
<1> HIDE DEF U
<1>6. ASSUME <<i, j>> \in Kept(e, {})
      PROVE  KeptDirectly(e, i, j)
  <2>1. j \in U
    BY <1>3, <1>5, <1>6 DEF Kept
  <2>2. QED
    BY <2>1 DEF U
<1>7. QED
  BY <1>1, <1>6

(* A barrier both passes see leaves in the test what it does in the code.   *)
MarkOf(token) == Marks(LineEvent(Fence(token)))

LEMMA FenceMarks ==
  ASSUME NEW token
  PROVE  /\ LineEvent(Fence("DMB LD")) = {"LD"} /\ LineEvent(Fence("DMB ST")) = {"ST"}
         /\ token \in PureBarriers \ {"DMB LD", "DMB ST"} => LineEvent(Fence(token)) = {"FULL"}
         /\ MarkOf("DMB LD") = {"LD"} /\ MarkOf("DMB ST") = {"ST"}
         /\ token \in PureBarriers \ {"DMB LD", "DMB ST"} => MarkOf(token) = {"FULL"}
<1>1. LineEvent(Fence("DMB LD")) = {"LD"} /\ LineEvent(Fence("DMB ST")) = {"ST"}
  BY DEF LineEvent, Fence, Line
<1>2. ASSUME token \in PureBarriers \ {"DMB LD", "DMB ST"}
      PROVE  LineEvent(Fence(token)) = {"FULL"}
  BY <1>2 DEF PureBarriers, LineEvent, Fence, Line
<1>3. Marks({"LD"}) = {"LD"} /\ Marks({"ST"}) = {"ST"} /\ Marks({"FULL"}) = {"FULL"}
  BY DEF Marks
<1>4. QED
  BY <1>1, <1>2, <1>3 DEF MarkOf

LEMMA AtomicsApart ==
  ASSUME NEW mn \in RMW.SC
  PROVE  /\ mn \notin Barriers /\ mn \notin LoadAcquire /\ mn \notin StoreRelease
         /\ mn \notin RMW.Acquire /\ mn \notin RMW.Release /\ mn \notin RelaxedStore
         /\ mn \notin LoadAcquirePC /\ mn \notin RMW.Relaxed \cup {"cas"}
         /\ mn \in RMWs /\ mn \in Mnemonics
         /\ mn \notin UNION {ThreadBarrier[o] : o \in {"Acquire", "Release"}}
<1>1. mn \in {"casal", "ldaddal", "ldclral", "ldeoral", "ldsetal", "swpal"}
  BY DEF RMW
<1>2. mn \notin LoadAcquire
  BY <1>1 DEF LoadAcquire
<1>3. mn \notin StoreRelease
  BY <1>1 DEF StoreRelease
<1>4. mn \notin ThreadBarrier.SC /\ mn \notin ThreadBarrier.Acquire /\ mn \notin ThreadBarrier.Release
  BY <1>1 DEF ThreadBarrier
<1>5. mn \in Barriers <=> mn \in ThreadBarrier.SC \/ mn \in ThreadBarrier.Acquire \/ mn \in ThreadBarrier.Release
  BY DEF Barriers, ThreadBarrier
<1>6. mn \notin RMW.Acquire /\ mn \notin RMW.Release /\ mn \notin RelaxedStore
  BY <1>1 DEF RMW, RelaxedStore
<1>7. mn \in RMWs
  BY <1>1 DEF RMW, RMWs
<1>8. mn \notin LoadAcquirePC /\ mn \notin RMW.Relaxed \cup {"cas"}
  BY <1>1 DEF LoadAcquirePC, RMW
<1>9. QED
  BY <1>2, <1>3, <1>4, <1>5, <1>6, <1>7, <1>8 DEF Mnemonics

LEMMA BarriersApart ==
  ASSUME NEW mn \in Barriers
  PROVE  /\ mn \notin LoadAcquire /\ mn \notin StoreRelease
         /\ mn \notin RMW.SC /\ mn \notin RMW.Acquire /\ mn \notin RMW.Release
         /\ mn \notin LoadAcquirePC /\ mn \notin RMW.Relaxed \cup {"cas"}
         /\ mn \in Mnemonics
         /\ mn \in ThreadBarrier.SC \/ mn \in ThreadBarrier.Acquire \/ mn \in ThreadBarrier.Release
         /\ mn \in ThreadBarrier.SC => mn \notin ThreadBarrier.Acquire /\ mn \notin ThreadBarrier.Release
         /\ mn \in ThreadBarrier.Acquire => mn \notin ThreadBarrier.Release
<1>1. mn \in ThreadBarrier.SC \/ mn \in ThreadBarrier.Acquire \/ mn \in ThreadBarrier.Release
  BY DEF Barriers, ThreadBarrier
<1>2. mn \in {"dmb ish", "dmb osh", "dsb sy", "dsb ish", "dmb ishld", "dmb oshld", "dsb ld",
              "dmb ishst", "dmb oshst", "dsb ishst", "dsb st"}
  BY <1>1 DEF ThreadBarrier
<1>3. mn \notin LoadAcquire
  BY <1>2 DEF LoadAcquire
<1>4. mn \notin StoreRelease
  BY <1>2 DEF StoreRelease
<1>5. mn \notin RMW.SC /\ mn \notin RMW.Acquire /\ mn \notin RMW.Release
  BY <1>2 DEF RMW
<1>6. /\ mn \in ThreadBarrier.SC => mn \notin ThreadBarrier.Acquire /\ mn \notin ThreadBarrier.Release
      /\ mn \in ThreadBarrier.Acquire => mn \notin ThreadBarrier.Release
  BY DEF ThreadBarrier
<1>7. mn \notin LoadAcquirePC /\ mn \notin RMW.Relaxed \cup {"cas"}
  BY <1>2 DEF LoadAcquirePC, RMW
<1>8. QED
  BY <1>1, <1>3, <1>4, <1>5, <1>6, <1>7 DEF Mnemonics

LEMMA BarrierOrdering ==
  ASSUME NEW mn \in Barriers
  PROVE  /\ mn \in ThreadBarrier.SC => AsmOrdering(mn) = "SC"
         /\ mn \in ThreadBarrier.Acquire => AsmOrdering(mn) = "Acquire"
         /\ mn \in ThreadBarrier.Release => AsmOrdering(mn) = "Release"
         /\ MnemonicEvent(mn) = BarrierKind(AsmOrdering(mn))
         /\ ~IsLoadInsn(mn) /\ ~IsStoreInsn(mn) /\ barrierEquiv(mn) = mnemonicToHerd7(mn)
<1>1. /\ mn \in ThreadBarrier.SC => AsmOrdering(mn) = "SC"
      /\ mn \in ThreadBarrier.Acquire => AsmOrdering(mn) = "Acquire"
      /\ mn \in ThreadBarrier.Release => AsmOrdering(mn) = "Release"
  BY BarriersApart DEF AsmOrdering
<1>2. ~IsLoadInsn(mn) /\ ~IsStoreInsn(mn)
  BY BarriersApart DEF IsLoadInsn, IsStoreInsn
<1>3. mn \notin RelaxedStore
  BY BarriersApart DEF RelaxedStore, ThreadBarrier
<1>4. MnemonicEvent(mn) = BarrierKind(AsmOrdering(mn))
  BY <1>3, BarriersApart DEF MnemonicEvent
<1>5. QED
  BY <1>1, <1>2, <1>4 DEF barrierEquiv

LEMMA BarrierToken ==
  ASSUME NEW mn \in Barriers
  PROVE  /\ mn \in {"dmb ish", "dmb osh", "dsb sy"} => mnemonicToHerd7(mn) \in {"DMB ISH", "DMB OSH", "DSB SY"}
         /\ mn = "dmb ishld" => mnemonicToHerd7(mn) = "DMB LD"
         /\ mn \in {"dmb ishst", "dmb oshst"} => mnemonicToHerd7(mn) = "DMB ST"
         /\ mn \in {"dsb ish", "dmb oshld", "dsb ld", "dsb ishst", "dsb st"} => mnemonicToHerd7(mn) = Empty
<1>1. mn \notin RMW.SC \cup RMW.Acquire \cup RMW.Release /\ mn \notin StoreRelease \ {"stlxp"} /\ mn \notin LoadAcquire
  BY BarriersApart
<1>2. QED
  BY <1>1 DEF mnemonicToHerd7

LEMMA SeenMnemonic ==
  ASSUME NEW mn, mn \in RMW.SC \/ (mn \in Barriers /\ mnemonicToHerd7(mn) # Empty)
  PROVE  /\ mn \in OrderingMnemonics
         /\ MarkOf(barrierEquiv(mn)) = Marks(MnemonicEvent(mn))
         /\ mn \in RMW.SC => MnemonicEvent(mn) = {"R", "W", "AL"}
         /\ mn \notin RMW.SC => MnemonicEvent(mn) \subseteq {"FULL", "LD", "ST"}
<1>1. CASE mn \in RMW.SC
  <2>1. MnemonicEvent(mn) = {"R", "W", "AL"}
    BY <1>1, AtomicsApart DEF MnemonicEvent
  <2>2. AsmOrdering(mn) = "SC"
    <3>1. /\ mn \notin ThreadBarrier.Acquire \cup LoadAcquire \cup RMW.Acquire
          /\ mn \notin ThreadBarrier.Release \cup StoreRelease \cup RMW.Release
      BY <1>1, AtomicsApart DEF Barriers, ThreadBarrier
    <3>2. QED
      BY <1>1, <3>1 DEF AsmOrdering
  <2>3. IsLoadInsn(mn)
    BY <1>1 DEF IsLoadInsn
  <2>4. barrierEquiv(mn) = "DMB ISH"
    BY <2>2, <2>3 DEF barrierEquiv
  <2>5. mn \in {"casal", "ldaddal", "ldclral", "ldeoral", "ldsetal", "swpal"}
    BY <1>1 DEF RMW
  <2>6. mnemonicToHerd7(mn) = mn
    <3>1. mn \notin StoreRelease \ {"stlxp"} /\ mn \notin LoadAcquire /\ mn \in RMW.SC \cup RMW.Acquire \cup RMW.Release
      BY <1>1, AtomicsApart
    <3>2. mn \notin {"dmb ish", "dmb ishst", "dmb oshst", "dmb ishld", "dmb osh", "dsb sy"}
      BY <2>5
    <3>3. QED
      BY <3>1, <3>2 DEF mnemonicToHerd7
  <2>7. mn # Empty
    BY <2>5, Zenon DEF Empty
  <2>8. Marks({"R", "W", "AL"}) = {"FULL"}
    BY DEF Marks
  <2>9. MarkOf("DMB ISH") = {"FULL"}
    BY FenceMarks DEF PureBarriers
  <2>10. mn \in OrderingMnemonics
    BY <1>1, <2>2, <2>6, <2>7, AtomicsApart DEF OrderingMnemonics
  <2>11. QED
    BY <1>1, <2>1, <2>4, <2>8, <2>9, <2>10
<1>2. CASE mn \notin RMW.SC
  <2>1. mn \in Barriers /\ mnemonicToHerd7(mn) # Empty
    BY <1>2
  <2>2. /\ MnemonicEvent(mn) = BarrierKind(AsmOrdering(mn)) /\ barrierEquiv(mn) = mnemonicToHerd7(mn)
        /\ mn \in Mnemonics
    BY <2>1, BarrierOrdering, BarriersApart
  <2>3. mn \in {"dmb ish", "dmb osh", "dsb sy", "dmb ishld", "dmb ishst", "dmb oshst"}
    <3>1. mn \in ThreadBarrier.SC \/ mn \in ThreadBarrier.Acquire \/ mn \in ThreadBarrier.Release
      BY <2>1, BarriersApart
    <3>2. mn \notin {"dsb ish", "dmb oshld", "dsb ld", "dsb ishst", "dsb st"}
      BY <2>1, BarrierToken
    <3>3. QED
      BY <3>1, <3>2 DEF ThreadBarrier
  <2>4. CASE mn \in {"dmb ish", "dmb osh", "dsb sy"}
    <3>1. mnemonicToHerd7(mn) \in PureBarriers \ {"DMB LD", "DMB ST"}
      BY <2>1, <2>4, BarrierToken DEF PureBarriers
    <3>2. AsmOrdering(mn) = "SC"
      BY <2>1, <2>4, BarrierOrdering DEF ThreadBarrier
    <3>3. BarrierKind("SC") = {"FULL"} /\ Marks({"FULL"}) = {"FULL"}
      BY DEF BarrierKind, Marks
    <3>4. MarkOf(mnemonicToHerd7(mn)) = {"FULL"}
      BY <3>1, FenceMarks
    <3>5. QED
      BY <1>2, <2>1, <2>2, <3>2, <3>3, <3>4 DEF OrderingMnemonics
  <2>5. CASE mn = "dmb ishld"
    <3>1. mnemonicToHerd7(mn) = "DMB LD"
      BY <2>1, <2>5, BarrierToken
    <3>2. AsmOrdering(mn) = "Acquire"
      BY <2>1, <2>5, BarrierOrdering DEF ThreadBarrier
    <3>3. BarrierKind("Acquire") = {"LD"} /\ Marks({"LD"}) = {"LD"}
      BY DEF BarrierKind, Marks
    <3>4. QED
      BY <1>2, <2>1, <2>2, <3>1, <3>2, <3>3, FenceMarks DEF OrderingMnemonics
  <2>6. CASE mn \in {"dmb ishst", "dmb oshst"}
    <3>1. mnemonicToHerd7(mn) = "DMB ST"
      BY <2>1, <2>6, BarrierToken
    <3>2. AsmOrdering(mn) = "Release"
      BY <2>1, <2>6, BarrierOrdering DEF ThreadBarrier
    <3>3. BarrierKind("Release") = {"ST"} /\ Marks({"ST"}) = {"ST"}
      BY DEF BarrierKind, Marks
    <3>4. QED
      BY <1>2, <2>1, <2>2, <3>1, <3>2, <3>3, FenceMarks DEF OrderingMnemonics
  <2>7. QED
    BY <2>3, <2>4, <2>5, <2>6
<1>3. QED
  BY <1>1, <1>2

LEMMA MarksOfUnion ==
  ASSUME NEW S
  PROVE  Marks(UNION S) = UNION {Marks(ev) : ev \in S}
  BY DEF Marks

LEMMA BarrierMarks ==
  ASSUME NEW o \in Orderings
  PROVE  /\ BarrierKind(o) \subseteq {"FULL", "LD", "ST"}
         /\ LET token == orderingToHerd7Barrier(o)
            IN  /\ token = Empty => BarrierKind(o) = {}
                /\ token # Empty => token \in PureBarriers /\ MarkOf(token) = BarrierKind(o)
<1>1. o \in {"None", "CompilerOnly", "Relaxed", "Release", "Acquire", "SC"}
  BY DEF Orderings, Rank
<1>2. BarrierKind(o) \subseteq {"FULL", "LD", "ST"}
  BY DEF BarrierKind
<1>3. CASE o = "SC"
  BY <1>2, <1>3, FenceMarks, EmptyIsNoBarrier DEF BarrierKind, orderingToHerd7Barrier, PureBarriers
<1>4. CASE o = "Acquire"
  BY <1>2, <1>4, FenceMarks, EmptyIsNoBarrier DEF BarrierKind, orderingToHerd7Barrier, PureBarriers
<1>5. CASE o = "Release"
  BY <1>2, <1>5, FenceMarks, EmptyIsNoBarrier DEF BarrierKind, orderingToHerd7Barrier, PureBarriers
<1>6. CASE o \in {"None", "CompilerOnly", "Relaxed"}
  BY <1>2, <1>6 DEF BarrierKind, orderingToHerd7Barrier
<1>7. QED
  BY <1>1, <1>3, <1>4, <1>5, <1>6

LEMMA CallOrderings ==
  ASSUME NEW fn \in Callees
  PROVE  CallOrdering(fn) \in Orderings
<1>1. fn.ordering \in Orderings
  BY DEF Callees
<1>2. "None" \in Orderings
  BY DEF Orderings, Rank
<1>3. fn.prefix # NoPrefix => PrefixOrdering(fn.prefix) \in Orderings
  <2>1. fn.prefix \in AnchorPrefixes
    BY DEF Callees
  <2>2. fn.prefix # NoPrefix => \E o \in DOMAIN kExtAnchors : fn.prefix \in kExtAnchors[o]
    BY <2>1, Zenon DEF AnchorPrefixes
  <2>3. fn.prefix # NoPrefix => PrefixOrdering(fn.prefix) \in DOMAIN kExtAnchors
    BY <2>2, Zenon DEF PrefixOrdering
  <2>4. DOMAIN kExtAnchors \subseteq Orderings
    BY DEF kExtAnchors, Orderings, Rank
  <2>5. QED
    BY <2>3, <2>4, Zenon
<1>4. externalCallEffect(fn) \in Orderings
  BY <1>1, <1>2, <1>3, Zenon DEF externalCallEffect
<1>5. QED
  BY <1>1, <1>2, <1>4, Zenon DEF CallOrdering

LEMMA SeenMarks ==
  ASSUME NEW inst \in Instructions, ExactBarrier(inst) \/ inst.op \in {"load", "store"}
  PROVE  /\ UNION {MarkOf(oi.lowered) : oi \in Range(OrderingInsts(inst))} = Marks(InstEvent(inst))
         /\ Inner(InstEvent(inst))
         /\ inst.op = "load" => InstEvent(inst) = {"R"}
         /\ inst.op = "store" => InstEvent(inst) = {"W"}
<1>0. inst.op \in {"load", "store", "asm", "call"}
  BY InstKinds
<1>1. CASE inst.op \in {"load", "store"}
  <2>1. InstEvent(inst) = IF inst.op = "load" THEN {"R"} ELSE {"W"}
    BY <1>1 DEF InstEvent
  <2>2. Range(OrderingInsts(inst)) = {}
    BY <1>1, OrderingInstsOf, RangeOfOne
  <2>3. Marks({"R"}) = {} /\ Marks({"W"}) = {} /\ Inner({"R"}) /\ Inner({"W"})
    BY DEF Marks, Inner
  <2>4. QED
    BY <1>1, <2>1, <2>2, <2>3
<1>2. CASE inst.op = "asm"
  <2>1. \A mn \in Texts(inst) : mn \in RMW.SC \/ (mn \in Barriers /\ mnemonicToHerd7(mn) # Empty)
    BY <1>2 DEF ExactBarrier
  <2>2. /\ Range(OrderingInsts(inst)) = {AsmOrderingInst(mn) : mn \in Texts(inst) \cap OrderingMnemonics}
        /\ InstEvent(inst) = UNION {MnemonicEvent(mn) : mn \in Texts(inst)}
    BY <1>2, OrderingInstsOf DEF InstEvent
  <2>3. Texts(inst) \cap OrderingMnemonics = Texts(inst)
    BY <2>1, SeenMnemonic
  <2> DEFINE S == {MnemonicEvent(mn) : mn \in Texts(inst)}
             O == Range(OrderingInsts(inst))
  <2>4. UNION {MarkOf(oi.lowered) : oi \in O} = UNION {Marks(ev) : ev \in S}
    <3>1. \A mn \in Texts(inst) : MarkOf(AsmOrderingInst(mn).lowered) = Marks(MnemonicEvent(mn))
      <4>1. \A mn : AsmOrderingInst(mn).lowered = barrierEquiv(mn)
        BY DEF AsmOrderingInst
      <4>2. QED
        BY <2>1, <4>1, SeenMnemonic
    <3>2. O = {AsmOrderingInst(mn) : mn \in Texts(inst)}
      BY <2>2, <2>3
    <3> HIDE DEF O
    <3>3. QED
      BY <3>1, <3>2
  <2>5. Inner(UNION S)
    <3>1. CASE \E mn \in Texts(inst) : mn \in RMW.SC
      BY <2>1, <3>1, SeenMnemonic DEF Inner
    <3>2. CASE \A mn \in Texts(inst) : mn \notin RMW.SC
      <4>1. UNION S \subseteq {"FULL", "LD", "ST"}
        BY <2>1, <3>2, SeenMnemonic
      <4> HIDE DEF S
      <4>2. QED
        BY <4>1 DEF Inner
    <3>3. QED
      BY <3>1, <3>2
  <2>6. QED
    BY <1>2, <2>2, <2>4, <2>5, MarksOfUnion
<1>3. CASE inst.op = "call"
  <2> DEFINE fn == inst.fns[1]
             o == CallOrdering(fn)
             token == orderingToHerd7Barrier(o)
             obj == IF inst.obj = None THEN {} ELSE {"R"}
  <2>1. EmittedOrdering(fn) = o
    BY <1>3 DEF ExactBarrier
  <2>2. InstEvent(inst) = BarrierKind(o) \cup obj
    BY <1>3 DEF InstEvent
  <2>3. Range(OrderingInsts(inst))
          = IF token = Empty THEN {} ELSE {[token |-> token, lowered |-> token, acquires |-> FALSE]}
    BY <1>3, <2>1, OrderingInstsOf
  <2>4. o \in Orderings
    BY <1>3, InstKinds, CallOrderings
  <2> HIDE DEF o
  <2>5. /\ BarrierKind(o) \subseteq {"FULL", "LD", "ST"}
        /\ token = Empty => BarrierKind(o) = {}
        /\ token # Empty => MarkOf(token) = BarrierKind(o)
    BY <2>4, BarrierMarks
  <2>6. Marks(BarrierKind(o) \cup obj) = BarrierKind(o) /\ Inner(BarrierKind(o) \cup obj)
    BY <2>5 DEF Marks, Inner
  <2> HIDE DEF token
  <2>7. UNION {MarkOf(oi.lowered) : oi \in Range(OrderingInsts(inst))} = BarrierKind(o)
    <3>1. CASE token = Empty
      BY <2>3, <2>5, <3>1
    <3>2. CASE token # Empty
      <4> DEFINE one == [token |-> token, lowered |-> token, acquires |-> FALSE]
      <4>1. Range(OrderingInsts(inst)) = {one} /\ one.lowered = token
        BY <2>3, <3>2
      <4> HIDE DEF one
      <4>2. QED
        BY <2>5, <3>2, <4>1
    <3>3. QED
      BY <3>1, <3>2
  <2>8. QED
    BY <1>3, <2>2, <2>6, <2>7
<1>4. QED
  BY <1>0, <1>1, <1>2, <1>3


LEMMA FencesBetween ==
  ASSUME NEW insts \in Seq(Instructions), NEW lo \in 1..Len(insts), NEW hi \in 1..Len(insts), lo < hi,
         \A k \in (lo + 1)..(hi - 1) : ExactBarrier(insts[k]) \/ insts[k].op \in {"load", "store"}
  PROVE  UNION {Marks(LineEvent(line)) : line \in Range(Between(insts, lo, hi))}
           = UNION {Marks(InstEvent(insts[k])) : k \in (lo + 1)..(hi - 1)}
<1> DEFINE O(k) == Range(OrderingInsts(insts[k]))
           K == (lo + 1)..(hi - 1)
           F == Range(Between(insts, lo, hi))
<1>1. F = {Fence(oi.lowered) : oi \in UNION {O(k) : k \in K}}
  <2>1. Len(insts) \in Nat
    OBVIOUS
  <2>2. lo \in 0..Len(insts) /\ hi \in 0..Len(insts) /\ lo # 0 /\ hi # 0
    BY <2>1
  <2>3. QED
    BY <2>2, BetweenFacts
<1>2. \A k \in K : UNION {MarkOf(oi.lowered) : oi \in O(k)} = Marks(InstEvent(insts[k]))
  <2>1. \A k \in K : insts[k] \in Instructions
    OBVIOUS
  <2>2. QED
    BY <2>1, SeenMarks
<1> HIDE DEF O, K, F
<1>3. UNION {Marks(LineEvent(line)) : line \in F} = UNION {MarkOf(oi.lowered) : oi \in UNION {O(k) : k \in K}}
  BY <1>1 DEF MarkOf
<1>4. UNION {MarkOf(oi.lowered) : oi \in UNION {O(k) : k \in K}} = UNION {UNION {MarkOf(oi.lowered) : oi \in O(k)} : k \in K}
  OBVIOUS
<1>5. UNION {UNION {MarkOf(oi.lowered) : oi \in O(k)} : k \in K} = UNION {Marks(InstEvent(insts[k])) : k \in K}
  BY <1>2
<1>6. QED
  BY <1>3, <1>4, <1>5 DEF F, K

Enclose(x, t, y) == (<<x>> \o t) \o <<y>>

LEMMA Enclosed ==
  ASSUME NEW T, NEW x \in T, NEW y \in T, NEW t \in Seq(T)
  PROVE  LET s == Enclose(x, t, y)
         IN  /\ s \in Seq(T) /\ Len(s) \in Nat /\ Len(s) >= 2
             /\ s[1] = x /\ s[Len(s)] = y
             /\ \A k \in Between2(1, Len(s)) : s[k] \in Range(t)
             /\ \A l \in Range(t) : \E k \in Between2(1, Len(s)) : s[k] = l
<1> DEFINE s == Enclose(x, t, y)
           a == <<x>>
           z == <<y>>
           u == a \o t
<1>1. a \in Seq(T) /\ Len(a) = 1 /\ a[1] = x /\ z \in Seq(T) /\ Len(z) = 1 /\ z[1] = y
  OBVIOUS
<1>2. Len(t) \in Nat /\ Range(t) = {t[i] : i \in 1..Len(t)}
  BY DEF Range
<1>3. s = u \o z
  BY DEF Enclose
<1> HIDE DEF a, z, s
<1>4. u \in Seq(T) /\ Len(u) = 1 + Len(t) /\ u[1] = x /\ \A i \in 1..Len(t) : u[1 + i] = t[i]
  <2>1. /\ u \in Seq(T) /\ Len(u) = Len(a) + Len(t) /\ (\A i \in 1..Len(a) : u[i] = a[i])
        /\ \A i \in 1..Len(t) : u[Len(a) + i] = t[i]
    <3>1. a \in Seq(T)
      BY <1>1
    <3>2. QED
      BY <3>1, Joined
  <2> HIDE DEF u
  <2>2. 1 \in 1..Len(a)
    BY <1>1
  <2>3. u[1] = x
    BY <1>1, <2>1, <2>2
  <2>4. \A i \in 1..Len(t) : u[1 + i] = t[i]
    BY <1>1, <2>1
  <2>5. QED
    BY <1>1, <2>1, <2>3, <2>4
<1> HIDE DEF u
<1>5. /\ s \in Seq(T) /\ Len(s) = Len(t) + 2
      /\ \A i \in 1..(Len(t) + 1) : s[i] = u[i]
      /\ s[Len(t) + 2] = y
  <2>1. s \in Seq(T) /\ Len(s) = Len(u) + Len(z) /\ (\A i \in 1..Len(u) : s[i] = u[i])
        /\ \A i \in 1..Len(z) : s[Len(u) + i] = z[i]
    <3>1. u \in Seq(T) /\ z \in Seq(T)
      BY <1>1, <1>4
    <3>2. QED
      BY <1>3, <3>1, Joined
  <2>2. s[Len(u) + 1] = z[1]
    BY <1>1, <2>1
  <2>3. Len(u) = Len(t) + 1 /\ Len(u) + 1 = Len(t) + 2
    BY <1>2, <1>4
  <2>4. s[Len(t) + 2] = y
    BY <1>1, <2>2, <2>3
  <2>5. Len(s) = Len(t) + 2
    BY <1>1, <1>2, <2>1, <2>3
  <2>6. \A i \in 1..(Len(t) + 1) : s[i] = u[i]
    BY <2>1, <2>3
  <2>7. QED
    BY <2>1, <2>4, <2>5, <2>6
<1>6. Between2(1, Len(s)) = 2..(Len(t) + 1)
  BY <1>2, <1>5 DEF Between2
<1>7. \A k \in 2..(Len(t) + 1) : k - 1 \in 1..Len(t) /\ s[k] = t[k - 1]
  <2> TAKE k \in 2..(Len(t) + 1)
  <2>1. k - 1 \in 1..Len(t) /\ 1 + (k - 1) = k /\ k \in 1..(Len(t) + 1)
    BY <1>2
  <2>2. u[1 + (k - 1)] = t[k - 1]
    BY <1>4, <2>1
  <2>3. QED
    BY <1>5, <2>1, <2>2
<1>8. \A i \in 1..Len(t) : i + 1 \in 2..(Len(t) + 1) /\ s[i + 1] = t[i]
  <2> TAKE i \in 1..Len(t)
  <2>1. i + 1 \in 2..(Len(t) + 1) /\ (i + 1) - 1 = i
    BY <1>2
  <2>2. QED
    BY <1>7, <2>1
<1>9. QED
  <2>1. s[1] = x
    BY <1>2, <1>4, <1>5
  <2>2. \A k \in Between2(1, Len(s)) : s[k] \in Range(t)
    BY <1>2, <1>6, <1>7
  <2>3. \A l \in Range(t) : \E k \in Between2(1, Len(s)) : s[k] = l
    BY <1>2, <1>6, <1>8
  <2>4. Len(s) \in Nat /\ Len(s) >= 2 /\ s[Len(s)] = y
    BY <1>2, <1>5
  <2>5. s \in Seq(T)
    BY <1>5
  <2>6. QED
    BY <2>1, <2>2, <2>3, <2>4, <2>5, Zenon DEF s

LEMMA EnclosedEvents ==
  ASSUME NEW T, NEW x \in T, NEW y \in T, NEW t \in Seq(T)
  PROVE  LET s == Enclose(x, t, y)
         IN  /\ DOMAIN Events(s) = 1..Len(s) /\ Len(s) \in Nat /\ Len(s) >= 2
             /\ Events(s)[1] = LineEvent(x) /\ Events(s)[Len(s)] = LineEvent(y)
             /\ \A k \in Between2(1, Len(s)) : \E l \in Range(t) : Events(s)[k] = LineEvent(l)
             /\ MarksBetween(Events(s), 1, Len(s)) = UNION {Marks(LineEvent(l)) : l \in Range(t)}
<1> DEFINE s == Enclose(x, t, y)
<1>1. /\ s \in Seq(T) /\ Len(s) \in Nat /\ Len(s) >= 2
      /\ s[1] = x /\ s[Len(s)] = y
      /\ \A k \in Between2(1, Len(s)) : s[k] \in Range(t)
      /\ \A l \in Range(t) : \E k \in Between2(1, Len(s)) : s[k] = l
  BY Enclosed
<1> HIDE DEF s
<1>2. DOMAIN s = 1..Len(s) /\ DOMAIN Events(s) = 1..Len(s)
  BY <1>1 DEF Events
<1>3. \A k \in 1..Len(s) : Events(s)[k] = LineEvent(s[k])
  BY <1>2 DEF Events
<1>4. 1 \in 1..Len(s) /\ Len(s) \in 1..Len(s) /\ \A k \in Between2(1, Len(s)) : k \in 1..Len(s)
  BY <1>1 DEF Between2
<1> DEFINE R == Range(t)
           B == Between2(1, Len(s))
<1> HIDE DEF R, B
<1>5. \A k \in B : Events(s)[k] = LineEvent(s[k]) /\ s[k] \in R
  BY <1>1, <1>3, <1>4 DEF R, B
<1>6. UNION {Marks(Events(s)[k]) : k \in B} = UNION {Marks(LineEvent(l)) : l \in R}
  <2>1. \A l \in R : \E k \in B : s[k] = l
    BY <1>1 DEF R, B
  <2> HIDE DEF Marks, LineEvent
  <2>2. {Marks(Events(s)[k]) : k \in B} = {Marks(LineEvent(l)) : l \in R}
    <3>1. ASSUME NEW k \in B PROVE Marks(Events(s)[k]) \in {Marks(LineEvent(l)) : l \in R}
      BY <1>5
    <3>2. ASSUME NEW l \in R PROVE Marks(LineEvent(l)) \in {Marks(Events(s)[k]) : k \in B}
      <4>1. PICK k \in B : s[k] = l
        BY <2>1
      <4>2. QED
        BY <1>5, <4>1
    <3>3. QED
      BY <3>1, <3>2
  <2>3. QED
    BY <2>2
<1>7. QED
  BY <1>1, <1>2, <1>3, <1>4, <1>5, <1>6 DEF MarksBetween, R, B, s


Chain(x, b, c, d, y) == ((<<x>> \o b) \o c) \o (d \o <<y>>)
Middle(b, c, d) == (b \o c) \o d

LEMMA EnclosedTwice ==
  ASSUME NEW T, NEW x \in T, NEW y \in T, NEW b \in Seq(T), NEW c \in Seq(T), NEW d \in Seq(T)
  PROVE  Chain(x, b, c, d, y) = Enclose(x, Middle(b, c, d), y)
<1> DEFINE a == <<x>>
           z == <<y>>
           bc == b \o c
           ab == a \o b
           abc == ab \o c
           bcd == bc \o d
<1>1. a \in Seq(T)
  OBVIOUS
<1>2. z \in Seq(T)
  OBVIOUS
<1> HIDE DEF a, z
<1>3. bc \in Seq(T)
  BY ConcatProperties
<1>4. ab \in Seq(T)
  BY <1>1, ConcatProperties
<1>5. abc = a \o bc
  BY <1>1, ConcatAssociative
<1>6. abc \in Seq(T)
  BY <1>4, ConcatProperties
<1> HIDE DEF abc
<1>7. (abc \o d) \o z = abc \o (d \o z)
  BY <1>2, <1>6, ConcatAssociative
<1> HIDE DEF bc
<1>8. (a \o bc) \o d = a \o bcd
  BY <1>1, <1>3, ConcatAssociative
<1> HIDE DEF ab, bcd
<1>9. abc \o (d \o z) = (a \o bcd) \o z
  BY <1>5, <1>7, <1>8
<1>10. QED
  BY <1>9 DEF abc, ab, bcd, bc, a, z, Chain, Middle, Enclose

FenceLines ==
  Range(Between(pair.code, Before, Anchor)) \cup Range(emitAnchor(pair))
    \cup Range(Between(pair.code, Anchor, After))

LEMMA AnchorPieces ==
  ASSUME pair \in Inputs, objs = Registered
  PROVE  /\ Between(pair.code, Before, Anchor) \in Seq(P0Lines) /\ Between(pair.code, Anchor, After) \in Seq(P0Lines)
         /\ emitAnchor(pair) \in Seq(P0Lines)
         /\ \A i \in {pair.before, pair.after} :
              i # 0 => /\ BracketAccess(pair, i) = <<emitAccess(pair.code[i].obj, pair.code[i].op = "store")>>
                       /\ emitAccess(pair.code[i].obj, pair.code[i].op = "store") \in P0Lines
                       /\ emitAccess(pair.code[i].obj, pair.code[i].op = "store").var = Var(pair.code[i].obj)
                       /\ LineEvent(emitAccess(pair.code[i].obj, pair.code[i].op = "store"))
                            = IF pair.code[i].op = "store" THEN {"W"} ELSE {"R"}
         /\ AnchorThread(pair)
              = BracketAccess(pair, pair.before) \o Between(pair.code, Before, Anchor) \o emitAnchor(pair)
                 \o (IF IsFenceAnchor(pair) THEN Between(pair.code, Anchor, After) \o BracketAccess(pair, pair.after) ELSE <<>>)
<1>1. Before \in 0..Len(pair.code) /\ Anchor \in 0..Len(pair.code) /\ After \in 0..Len(pair.code)
  BY PairFacts, Found, AnchorFound DEF Before, Anchor, After
<1>2. Between(pair.code, Before, Anchor) \in Seq(P0Lines) /\ Between(pair.code, Anchor, After) \in Seq(P0Lines)
  BY <1>1, PairFacts, BetweenFacts, FencesAreLines
<1>3. objs \in Seq(Objs)
  BY RegisteredFacts
<1>4. emitAnchor(pair) \in Seq(P0Lines)
  BY RegisteredFacts, AnchorLine
<1>5. ASSUME NEW i \in {pair.before, pair.after}, i # 0
      PROVE  /\ BracketAccess(pair, i) = <<emitAccess(pair.code[i].obj, pair.code[i].op = "store")>>
             /\ emitAccess(pair.code[i].obj, pair.code[i].op = "store") \in P0Lines
             /\ emitAccess(pair.code[i].obj, pair.code[i].op = "store").var = Var(pair.code[i].obj)
             /\ LineEvent(emitAccess(pair.code[i].obj, pair.code[i].op = "store"))
                  = IF pair.code[i].op = "store" THEN {"W"} ELSE {"R"}
  <2> DEFINE o == pair.code[i].obj
             store == pair.code[i].op = "store"
             l == emitAccess(o, store)
  <2>1. o \in Range(objs)
    BY <1>5, RegisteredFacts
  <2> HIDE DEF o
  <2>2. l \in P0Lines /\ l.var = Var(o)
    BY <1>3, <2>1, AccessLine
  <2>3. l = Line(IF store THEN "STR" ELSE "LDR", Var(o))
    BY <1>3, <2>1, AccessLine
  <2>4. LineEvent(l) = IF store THEN {"W"} ELSE {"R"}
    <3>1. \A v : LineEvent(Line("STR", v)) = {"W"} /\ LineEvent(Line("LDR", v)) = {"R"}
      BY DEF LineEvent, Line
    <3>2. LineEvent(Line(IF store THEN "STR" ELSE "LDR", Var(o))) = IF store THEN {"W"} ELSE {"R"}
      BY <3>1
    <3>3. QED
      BY <2>3, <3>2
  <2>5. BracketAccess(pair, i) = <<emitAccess(pair.code[i].obj, pair.code[i].op = "store")>>
    BY <1>5, BracketLine
  <2>6. QED
    BY <2>2, <2>4, <2>5 DEF o
<1>6. AnchorThread(pair)
        = BracketAccess(pair, pair.before) \o Between(pair.code, Before, Anchor) \o emitAnchor(pair)
           \o (IF IsFenceAnchor(pair) THEN Between(pair.code, Anchor, After) \o BracketAccess(pair, pair.after) ELSE <<>>)
  BY DEF AnchorThread, Before, Anchor, After
<1>7. QED
  BY <1>2, <1>4, <1>5, <1>6

LEMMA FenceThread ==
  ASSUME pair \in Inputs, objs = Registered, IsFenceAnchor(pair), pair.before # 0, pair.after # 0
  PROVE  LET e == Events(AnchorThread(pair))
             n == Len(AnchorThread(pair))
         IN  /\ DOMAIN e = 1..n /\ n \in Nat /\ n >= 2
             /\ e[1] = IF pair.code[pair.before].op = "store" THEN {"W"} ELSE {"R"}
             /\ e[n] = IF pair.code[pair.after].op = "store" THEN {"W"} ELSE {"R"}
             /\ \A k \in Between2(1, n) : \E l \in FenceLines : e[k] = LineEvent(l)
             /\ MarksBetween(e, 1, n) = UNION {Marks(LineEvent(l)) : l \in FenceLines}
             /\ AnchorThread(pair)[1].var = Var(pair.code[pair.before].obj)
             /\ AnchorThread(pair)[n].var = Var(pair.code[pair.after].obj)
             /\ \A k \in Between2(1, n) : AnchorThread(pair)[k] \in FenceLines
<1> DEFINE b1 == Between(pair.code, Before, Anchor)
           b2 == Between(pair.code, Anchor, After)
           an == emitAnchor(pair)
           x == emitAccess(pair.code[pair.before].obj, pair.code[pair.before].op = "store")
           y == emitAccess(pair.code[pair.after].obj, pair.code[pair.after].op = "store")
           t == (b1 \o an) \o b2
<1>1. b1 \in Seq(P0Lines) /\ b2 \in Seq(P0Lines) /\ an \in Seq(P0Lines)
  BY AnchorPieces
<1>2. /\ x \in P0Lines /\ x.var = Var(pair.code[pair.before].obj)
      /\ LineEvent(x) = IF pair.code[pair.before].op = "store" THEN {"W"} ELSE {"R"}
      /\ BracketAccess(pair, pair.before) = <<x>>
  BY AnchorPieces
<1>3. /\ y \in P0Lines /\ y.var = Var(pair.code[pair.after].obj)
      /\ LineEvent(y) = IF pair.code[pair.after].op = "store" THEN {"W"} ELSE {"R"}
      /\ BracketAccess(pair, pair.after) = <<y>>
  BY AnchorPieces
<1>4. AnchorThread(pair)
        = BracketAccess(pair, pair.before) \o b1 \o an
           \o (IF IsFenceAnchor(pair) THEN b2 \o BracketAccess(pair, pair.after) ELSE <<>>)
  BY AnchorPieces
<1>5. FenceLines = Range(b1) \cup Range(an) \cup Range(b2)
  BY DEF FenceLines
<1> HIDE DEF b1, b2, an, x, y
<1>6. AnchorThread(pair) = ((<<x>> \o b1) \o an) \o (b2 \o <<y>>)
  BY <1>2, <1>3, <1>4
<1>7. x \in P0Lines
  BY <1>2
<1>8. y \in P0Lines
  BY <1>3
<1>9. AnchorThread(pair) = Enclose(x, t, y)
  <2>1. b1 \in Seq(P0Lines)
    BY <1>1
  <2>2. b2 \in Seq(P0Lines)
    BY <1>1
  <2>3. an \in Seq(P0Lines)
    BY <1>1
  <2>4. Chain(x, b1, an, b2, y) = Enclose(x, Middle(b1, an, b2), y)
    BY <1>7, <1>8, <2>1, <2>2, <2>3, EnclosedTwice
  <2>5. QED
    BY <1>6, <2>4 DEF Chain, Middle
<1>10. t \in Seq(P0Lines) /\ Range(t) = FenceLines
  <2> DEFINE u == b1 \o an
  <2>1. u \in Seq(P0Lines) /\ Range(u) = Range(b1) \cup Range(an)
    BY <1>1, Joined
  <2> HIDE DEF u
  <2>2. u \o b2 \in Seq(P0Lines) /\ Range(u \o b2) = Range(u) \cup Range(b2)
    BY <1>1, <2>1, Joined
  <2>3. QED
    BY <1>5, <2>1, <2>2 DEF u
<1> DEFINE s == AnchorThread(pair)
<1> HIDE DEF t
<1>11. LET r == Enclose(x, t, y)
       IN  /\ DOMAIN Events(r) = 1..Len(r) /\ Len(r) \in Nat /\ Len(r) >= 2
           /\ Events(r)[1] = LineEvent(x) /\ Events(r)[Len(r)] = LineEvent(y)
           /\ \A k \in Between2(1, Len(r)) : \E l \in Range(t) : Events(r)[k] = LineEvent(l)
           /\ MarksBetween(Events(r), 1, Len(r)) = UNION {Marks(LineEvent(l)) : l \in Range(t)}
  <2>1. x \in P0Lines
    BY <1>2
  <2>2. y \in P0Lines
    BY <1>3
  <2>3. t \in Seq(P0Lines)
    BY <1>10
  <2>4. QED
    BY <2>1, <2>2, <2>3, EnclosedEvents
<1>12. LET r == Enclose(x, t, y)
       IN  r[1] = x /\ r[Len(r)] = y /\ \A k \in Between2(1, Len(r)) : r[k] \in Range(t)
  <2>1. x \in P0Lines
    BY <1>2
  <2>2. y \in P0Lines
    BY <1>3
  <2>3. t \in Seq(P0Lines)
    BY <1>10
  <2>4. QED
    BY <2>1, <2>2, <2>3, Enclosed
<1>13. QED
  BY <1>2, <1>3, <1>9, <1>10, <1>11, <1>12, Zenon

LEMMA ChannelThread ==
  ASSUME pair \in Inputs, objs = Registered, WritesChannel(pair), pair.before # 0
  PROVE  LET e == Events(AnchorThread(pair))
             n == Len(AnchorThread(pair))
         IN  /\ DOMAIN e = 1..n /\ n \in Nat /\ n >= 2
             /\ e[1] = IF pair.code[pair.before].op = "store" THEN {"W"} ELSE {"R"}
             /\ "W" \in e[n]
             /\ pair.site = "asm" => e[n] \cap {"L", "AL"} # {}
             /\ pair.site = "store plain" => e[n] = {"W"}
             /\ MarksBetween(e, 1, n) = UNION {Marks(LineEvent(l)) : l \in Range(Between(pair.code, Before, Anchor))}
             /\ \A k \in Between2(1, n) : \E l \in Range(Between(pair.code, Before, Anchor)) : e[k] = LineEvent(l)
             /\ AnchorThread(pair)[1].var = Var(pair.code[pair.before].obj)
             /\ AnchorThread(pair)[n].var = Var(pair.alloc)
             /\ \A k \in Between2(1, n) : AnchorThread(pair)[k] \in Range(Between(pair.code, Before, Anchor))
<1> DEFINE t == Between(pair.code, Before, Anchor)
           x == emitAccess(pair.code[pair.before].obj, pair.code[pair.before].op = "store")
           y == Line(IF pair.site = "store plain" THEN "STR"
                     ELSE IF pair.label \in RMW.SC THEN "SWPAL" ELSE "STLR", Var(pair.alloc))
           s == AnchorThread(pair)
<1>1. emitAnchor(pair) = <<y>>
  BY DEF emitAnchor
<1>2. t \in Seq(P0Lines) /\ emitAnchor(pair) \in Seq(P0Lines)
  BY AnchorPieces
<1>3. /\ x \in P0Lines /\ x.var = Var(pair.code[pair.before].obj)
      /\ LineEvent(x) = IF pair.code[pair.before].op = "store" THEN {"W"} ELSE {"R"}
      /\ BracketAccess(pair, pair.before) = <<x>>
  BY AnchorPieces
<1>4. s = BracketAccess(pair, pair.before) \o t \o emitAnchor(pair)
           \o (IF IsFenceAnchor(pair) THEN Between(pair.code, Anchor, After) \o BracketAccess(pair, pair.after) ELSE <<>>)
  BY AnchorPieces
<1>5. ~IsFenceAnchor(pair)
  BY DEF IsFenceAnchor, WritesChannel
<1>6. /\ y.var = Var(pair.alloc) /\ "W" \in LineEvent(y)
      /\ pair.site = "asm" => LineEvent(y) \cap {"L", "AL"} # {}
      /\ pair.site = "store plain" => LineEvent(y) = {"W"}
  BY DEF Line, LineEvent
<1> HIDE DEF t, x, y, s
<1>7. y \in P0Lines
  BY <1>1, <1>2
<1> DEFINE bx == <<x>>
           by == <<y>>
           u == bx \o t
           w == u \o by
<1>8. bx \in Seq(P0Lines) /\ by \in Seq(P0Lines)
  BY <1>3, <1>7
<1>9. s = w \o <<>>
  BY <1>1, <1>3, <1>4, <1>5
<1> HIDE DEF bx, by
<1>10. u \in Seq(P0Lines)
  BY <1>2, <1>8, ConcatProperties
<1> HIDE DEF u
<1>11. w \in Seq(P0Lines)
  BY <1>8, <1>10, ConcatProperties
<1> HIDE DEF w
<1>12. s = w
  BY <1>9, <1>11, ConcatEmptySeq
<1>13. s = Enclose(x, t, y)
  BY <1>12 DEF w, u, bx, by, Enclose
<1>14. LET r == Enclose(x, t, y)
       IN  /\ DOMAIN Events(r) = 1..Len(r) /\ Len(r) \in Nat /\ Len(r) >= 2
           /\ Events(r)[1] = LineEvent(x) /\ Events(r)[Len(r)] = LineEvent(y)
           /\ \A k \in Between2(1, Len(r)) : \E l \in Range(t) : Events(r)[k] = LineEvent(l)
           /\ MarksBetween(Events(r), 1, Len(r)) = UNION {Marks(LineEvent(l)) : l \in Range(t)}
  <2>1. x \in P0Lines
    BY <1>3
  <2>2. y \in P0Lines
    BY <1>7
  <2>3. t \in Seq(P0Lines)
    BY <1>2
  <2>4. QED
    BY <2>1, <2>2, <2>3, EnclosedEvents
<1>15. LET r == Enclose(x, t, y)
       IN  r[1] = x /\ r[Len(r)] = y /\ \A k \in Between2(1, Len(r)) : r[k] \in Range(t)
  BY <1>2, <1>3, <1>7, Enclosed
<1>16. QED
  BY <1>3, <1>6, <1>13, <1>14, <1>15 DEF s, t

LEMMA PlausibleMarks ==
  ASSUME pair \in Inputs, NEW lo \in 0..Len(pair.code), NEW hi \in 0..Len(pair.code), NEW T,
         \A token \in plausibleBarriersBetween(pair.code, lo, hi) \cap PureBarriers : MarkOf(token) \subseteq T
  PROVE  /\ \A l \in Range(Between(pair.code, lo, hi)) : Marks(LineEvent(l)) \subseteq T
         /\ \A k \in (lo + 1)..(hi - 1) :
              (ExactBarrier(pair.code[k]) \/ pair.code[k].op \in {"load", "store"})
                => Marks(InstEvent(pair.code[k])) \subseteq T
<1>0. pair.code \in Seq(Instructions) /\ Len(pair.code) \in Nat /\ DOMAIN pair.code = 1..Len(pair.code)
  BY PairFacts
<1>1. ASSUME NEW l \in Range(Between(pair.code, lo, hi))
      PROVE  Marks(LineEvent(l)) \subseteq T
  <2>1. l.op \in plausibleBarriersBetween(pair.code, lo, hi)
    BY <1>1, BetweenIsPlausible
  <2>2. l \in Fences
    <3>1. Between(pair.code, lo, hi) \in Seq(Fences)
      BY <1>0, BetweenFacts
    <3>2. QED
      BY <3>1 DEF Range
  <2>3. PICK b \in PureBarriers : l = Fence(b)
    BY <2>2 DEF Fences
  <2>4. l.op = b
    BY <2>3 DEF Fence, Line
  <2>5. MarkOf(b) \subseteq T
    BY <2>1, <2>4
  <2>6. QED
    BY <2>3, <2>5 DEF MarkOf
<1>2. ASSUME NEW k \in (lo + 1)..(hi - 1), ExactBarrier(pair.code[k]) \/ pair.code[k].op \in {"load", "store"}
      PROVE  Marks(InstEvent(pair.code[k])) \subseteq T
  <2> DEFINE inst == pair.code[k]
             O == Range(OrderingInsts(inst))
  <2>1. inst \in Instructions
    <3>1. k \in 1..Len(pair.code)
      BY <1>0
    <3>2. QED
      BY <1>0, <3>1
  <2>2. UNION {MarkOf(oi.lowered) : oi \in O} = Marks(InstEvent(inst))
    BY <1>2, <2>1, SeenMarks
  <2>3. ASSUME NEW oi \in O PROVE MarkOf(oi.lowered) \subseteq T
    <3>1. oi.lowered \in recordPlausibleTokens(inst) /\ oi.lowered # Empty
      BY <2>1, LoweredIsPlausible
    <3>2. oi.lowered \in plausibleBarriersBetween(pair.code, lo, hi)
      BY <3>1 DEF plausibleBarriersBetween
    <3>3. oi.lowered \in PureBarriers
      <4>1. OrderingInsts(inst) \in Seq(OrderingInstSet)
        BY <2>1, OrderingInstsOf
      <4>2. oi \in OrderingInstSet
        BY <4>1 DEF Range
      <4>3. QED
        BY <4>2, OrderingInstLowered
    <3>4. QED
      BY <3>2, <3>3
  <2> HIDE DEF O
  <2>4. QED
    BY <2>2, <2>3
<1>3. QED
  BY <1>1, <1>2

(* A one-sided anchor that passes P5 stands among barriers of its own kind. *)
LEMMA OneKind ==
  ASSUME checkP5 # "fail", pair.ordering \in {"Acquire", "Release"}
  PROVE  \A token \in Plausible \cap PureBarriers : MarkOf(token) \subseteq BarrierKind(pair.ordering)
<1>1. CASE pair.ordering = "Acquire"
  <2>1. Plausible \cap {"DMB ISH", "DSB SY", "DMB OSH", "DMB ST"} = {}
    BY <1>1 DEF checkP5, Verdict
  <2>2. \A token \in Plausible \cap PureBarriers : token = "DMB LD"
    BY <2>1 DEF PureBarriers
  <2>3. MarkOf("DMB LD") = {"LD"} /\ BarrierKind("Acquire") = {"LD"}
    BY FenceMarks DEF BarrierKind
  <2>4. QED
    BY <1>1, <2>2, <2>3
<1>2. CASE pair.ordering = "Release"
  <2>1. Plausible \cap {"DMB ISH", "DSB SY", "DMB OSH", "DMB LD"} = {}
    BY <1>2 DEF checkP5, Verdict
  <2>2. \A token \in Plausible \cap PureBarriers : token = "DMB ST"
    BY <2>1 DEF PureBarriers
  <2>3. MarkOf("DMB ST") = {"ST"} /\ BarrierKind("Release") = {"ST"}
    BY FenceMarks DEF BarrierKind
  <2>4. QED
    BY <1>2, <2>2, <2>3
<1>3. QED
  BY <1>1, <1>2

LEMMA AnchorMarks ==
  ASSUME pair \in Inputs, IsFenceAnchor(pair), pair.label \in Barriers \cup RMW.SC
  PROVE  /\ pair.ordering \in {"SC", "Acquire", "Release"}
         /\ Marks(MnemonicEvent(pair.label)) = BarrierKind(pair.ordering)
         /\ Inner(MnemonicEvent(pair.label))
         /\ UNION {Marks(LineEvent(l)) : l \in Range(emitAnchor(pair))} = BarrierKind(pair.ordering)
<1> DEFINE mn == pair.label
           token == mnemonicToHerd7(mn)
           barrier == IF token \in PureBarriers THEN token ELSE orderingToHerd7Barrier(pair.ordering)
<1>1. pair.site = "asm" /\ ~WritesChannel(pair)
  BY DEF IsFenceAnchor, WritesChannel
<1>2. pair.ordering = AsmOrdering(mn)
  BY <1>1, InputsAssumption
<1>3. emitAnchor(pair) = IF barrier = Empty THEN <<>> ELSE <<Fence(barrier)>>
  BY <1>1 DEF emitAnchor
<1>4. /\ BarrierKind("SC") = {"FULL"} /\ BarrierKind("Acquire") = {"LD"} /\ BarrierKind("Release") = {"ST"}
      /\ Marks({"FULL"}) = {"FULL"} /\ Marks({"LD"}) = {"LD"} /\ Marks({"ST"}) = {"ST"}
      /\ Inner({"FULL"}) /\ Inner({"LD"}) /\ Inner({"ST"})
  BY DEF BarrierKind, Marks, Inner
<1>5. /\ pair.ordering \in {"SC", "Acquire", "Release"}
      /\ Marks(MnemonicEvent(mn)) = BarrierKind(pair.ordering)
      /\ Inner(MnemonicEvent(mn))
  <2>1. CASE mn \in RMW.SC
    <3>1. MnemonicEvent(mn) = {"R", "W", "AL"}
      BY <2>1, SeenMnemonic
    <3>2. AsmOrdering(mn) = "SC"
      <4>1. /\ mn \notin ThreadBarrier.Acquire \cup LoadAcquire \cup RMW.Acquire
            /\ mn \notin ThreadBarrier.Release \cup StoreRelease \cup RMW.Release
        BY <2>1, AtomicsApart DEF Barriers, ThreadBarrier
      <4>2. QED
        BY <2>1, <4>1 DEF AsmOrdering
    <3>3. Marks({"R", "W", "AL"}) = {"FULL"} /\ Inner({"R", "W", "AL"})
      BY DEF Marks, Inner
    <3>4. QED
      BY <1>2, <1>4, <3>1, <3>2, <3>3
  <2>2. CASE mn \in Barriers
    <3>1. MnemonicEvent(mn) = BarrierKind(AsmOrdering(mn))
      BY <2>2, BarrierOrdering
    <3>2. AsmOrdering(mn) \in {"SC", "Acquire", "Release"}
      BY <2>2, BarrierOrdering, BarriersApart
    <3>3. QED
      BY <1>2, <1>4, <3>1, <3>2
  <2>3. QED
    BY <2>1, <2>2
<1>6. barrier \in PureBarriers /\ MarkOf(barrier) = BarrierKind(pair.ordering)
  <2>1. CASE token \in PureBarriers
    <3>1. token # Empty
      BY <2>1, EmptyIsNoBarrier
    <3>2. mn \notin RMW.SC
      <4>1. ASSUME mn \in RMW.SC PROVE FALSE
        <5>1. mn \in {"casal", "ldaddal", "ldclral", "ldeoral", "ldsetal", "swpal"}
          BY <4>1 DEF RMW
        <5>2. mn \notin StoreRelease \ {"stlxp"} /\ mn \notin LoadAcquire /\ mn \in RMW.SC \cup RMW.Acquire \cup RMW.Release
          BY <4>1, AtomicsApart
        <5>3. mn \notin {"dmb ish", "dmb ishst", "dmb oshst", "dmb ishld", "dmb osh", "dsb sy"}
          BY <5>1
        <5>4. token = mn
          BY <5>2, <5>3 DEF mnemonicToHerd7
        <5>5. QED
          BY <2>1, <5>1, <5>4 DEF PureBarriers
      <4>2. QED
        BY <4>1
    <3>3. mn \in Barriers
      BY <3>2
    <3>4. MarkOf(barrierEquiv(mn)) = Marks(MnemonicEvent(mn))
      BY <3>1, <3>3, SeenMnemonic
    <3>5. barrierEquiv(mn) = token
      BY <3>3, BarrierOrdering
    <3>6. QED
      BY <1>5, <2>1, <3>4, <3>5
  <2>2. CASE token \notin PureBarriers
    <3>1. barrier = orderingToHerd7Barrier(pair.ordering)
      BY <2>2
    <3>2. orderingToHerd7Barrier(pair.ordering) \in PureBarriers
      BY <1>5 DEF orderingToHerd7Barrier, PureBarriers
    <3>3. pair.ordering \in Orderings
      BY <1>5 DEF Orderings, Rank
    <3>4. orderingToHerd7Barrier(pair.ordering) # Empty
      BY <3>2, EmptyIsNoBarrier
    <3>5. MarkOf(orderingToHerd7Barrier(pair.ordering)) = BarrierKind(pair.ordering)
      BY <3>3, <3>4, BarrierMarks
    <3>6. QED
      BY <3>1, <3>2, <3>5
  <2>3. QED
    BY <2>1, <2>2
<1> HIDE DEF barrier
<1>7. emitAnchor(pair) = <<Fence(barrier)>>
  BY <1>3, <1>6, EmptyIsNoBarrier
<1>8. UNION {Marks(LineEvent(l)) : l \in Range(emitAnchor(pair))} = MarkOf(barrier)
  <2> DEFINE f == Fence(barrier)
  <2>1. emitAnchor(pair) = <<f>> /\ MarkOf(barrier) = Marks(LineEvent(f))
    BY <1>7 DEF MarkOf
  <2> HIDE DEF f
  <2>2. Range(emitAnchor(pair)) = {f}
    BY <2>1, RangeOfOne
  <2>3. QED
    BY <2>1, <2>2
<1>9. QED
  BY <1>5, <1>6, <1>8

LEMMA FoundEarlier ==
  ASSUME pair \in Inputs, NEW i \in 1..Len(pair.code)
  PROVE  findInstByIR(pair.code, i) \in 1..i /\ pair.code[findInstByIR(pair.code, i)] = pair.code[i]
<1> DEFINE S == {j \in DOMAIN pair.code : j = i \/ (pair.code[j] = pair.code[i] /\ ~HasResult(pair.code[i]))}
<1>1. Len(pair.code) \in Nat /\ DOMAIN pair.code = 1..Len(pair.code)
  BY PairFacts
<1>2. S \subseteq Nat \ {0} /\ i \in S
  BY <1>1
<1>3. findInstByIR(pair.code, i) = FirstOf(S)
  BY <1>1 DEF findInstByIR
<1>4. \A j \in S : pair.code[j] = pair.code[i] /\ j \in 1..Len(pair.code)
  BY <1>1
<1> HIDE DEF S
<1>5. FirstOf(S) \in S /\ FirstOf(S) <= i
  BY <1>2, FirstOfFacts
<1>6. QED
  BY <1>3, <1>4, <1>5

(* The sides of an anchor and the anchor are where the pair says.           *)
LEMMA Sides ==
  ASSUME pair \in Inputs, pair.before # 0
  PROVE  /\ pair.at \in 1..Len(pair.code) /\ (pair.site # "store plain" => Anchor = pair.at)
         /\ pair.before \in 1..(pair.at - 1) /\ Before \in 1..pair.before
         /\ pair.code[pair.before].op \in {"load", "store"}
         /\ pair.after # 0 =>
              /\ pair.after \in (pair.at + 1)..Len(pair.code)
              /\ pair.code[pair.after].op \in {"load", "store"}
<1>1. /\ pair.at \in DOMAIN pair.code /\ pair.code \in Seq(Instructions)
      /\ pair.before \in 0..(pair.at - 1) /\ pair.after \in {0} \cup ((pair.at + 1)..Len(pair.code))
      /\ pair.code[pair.before].op \in {"load", "store"}
      /\ pair.after # 0 => pair.code[pair.after].op \in {"load", "store"}
  BY InputsAssumption
<1>2. Len(pair.code) \in Nat /\ DOMAIN pair.code = 1..Len(pair.code)
  BY PairFacts
<1>3. pair.site # "store plain" => Anchor = pair.at
  BY AnchorFound DEF Anchor
<1>4. pair.before \in 1..Len(pair.code) /\ pair.before \in 1..(pair.at - 1)
  BY <1>1, <1>2
<1>5. Before \in 1..pair.before
  BY <1>4, FoundEarlier DEF Before
<1>6. QED
  BY <1>1, <1>2, <1>3, <1>4, <1>5

(* What P1 finds in order it finds where it is.                             *)
LEMMA LocatedInOrder ==
  ASSUME pair \in Inputs, pair.before # 0, checkP1 = "pass"
  PROVE  /\ pair.site # "store plain"
         /\ pair.after # 0 /\ pair.site = "asm" => After = pair.after
<1>1. Anchor # 0 /\ (pair.after # 0 => Anchor < After)
  BY DEF checkP1, Verdict
<1>2. pair.site # "store plain"
  BY <1>1, AnchorFound DEF Anchor
<1>3. ASSUME pair.after # 0, pair.site = "asm"
      PROVE  After = pair.after
  <2>1. Len(pair.code) \in Nat /\ DOMAIN pair.code = 1..Len(pair.code)
    BY PairFacts
  <2>2. pair.at \in 1..Len(pair.code)
    BY Sides
  <2>3. pair.before \in 1..(pair.at - 1)
    BY Sides
  <2>4. pair.after \in (pair.at + 1)..Len(pair.code)
    BY <1>3, Sides
  <2>5. pair.after \in 1..Len(pair.code)
    BY <2>1, <2>2, <2>4
  <2>6. After \in 1..pair.after
    BY <2>5, FoundEarlier DEF After
  <2>7. pair.code[After] = pair.code[pair.after]
    BY <2>5, FoundEarlier DEF After
  <2>8. After \in DOMAIN pair.code
    BY <2>1, <2>5, <2>6
  <2>9. pair.code[After].op \in {"load", "store"}
    BY <1>3, <2>7, Sides
  <2>10. Located(pair)
    BY <1>3, InputsAssumption, Zenon
  <2>11. After <= pair.before \/ pair.after <= After
    BY <2>8, <2>9, <2>10 DEF Located
  <2>12. pair.at < After
    BY <1>1, <1>2, <1>3, Sides
  <2>13. QED
    BY <2>2, <2>3, <2>4, <2>6, <2>11, <2>12
<1>4. QED
  BY <1>2, <1>3

(* The release or the full atomic that writes the channel.                  *)
LEMMA ChannelEvent ==
  ASSUME NEW inst, inst.op = "asm", Texts(inst) \cap (StoreRelease \cup RMW.Release \cup RMW.SC) # {}
  PROVE  "W" \in InstEvent(inst) /\ InstEvent(inst) \cap {"L", "AL"} # {}
<1>1. PICK mn \in Texts(inst) : mn \in StoreRelease \cup RMW.Release \cup RMW.SC
  OBVIOUS
<1>2. mn \in RMW.SC => MnemonicEvent(mn) = {"R", "W", "AL"}
  BY SeenMnemonic
<1>3. mn \in StoreRelease => MnemonicEvent(mn) = {"W", "L"}
  <2>1. ASSUME mn \in StoreRelease
        PROVE  /\ mn \notin Barriers /\ mn \notin LoadAcquire /\ mn \notin RMW.SC
               /\ mn \notin RMW.Acquire /\ mn \notin RMW.Release /\ mn \notin RelaxedStore
               /\ mn \notin LoadAcquirePC /\ mn \notin RMW.Relaxed \cup {"cas"}
    <3>1. mn \in Barriers => mn \notin StoreRelease
      BY BarriersApart
    <3>2. mn \in {"stlr", "stlxr", "stlxrb", "stlxrh", "stlrb", "stlrh", "stlxp"}
      BY <2>1 DEF StoreRelease
    <3>3. mn \notin LoadAcquire
      BY <3>2 DEF LoadAcquire
    <3>4. mn \notin RMW.SC /\ mn \notin RMW.Acquire /\ mn \notin RMW.Release
      BY <3>2 DEF RMW
    <3>5. mn \notin RelaxedStore
      BY <3>2 DEF RelaxedStore
    <3>6. mn \notin LoadAcquirePC /\ mn \notin RMW.Relaxed \cup {"cas"}
      BY <3>2 DEF LoadAcquirePC, RMW
    <3>7. QED
      BY <2>1, <3>1, <3>3, <3>4, <3>5, <3>6
  <2>2. QED
    BY <2>1 DEF MnemonicEvent
<1>4. mn \in RMW.Release => MnemonicEvent(mn) = {"R", "W", "L"}
  <2>1. ASSUME mn \in RMW.Release
        PROVE  /\ mn \notin Barriers /\ mn \notin LoadAcquire /\ mn \notin StoreRelease
               /\ mn \notin RMW.SC /\ mn \notin RMW.Acquire /\ mn \notin RelaxedStore
               /\ mn \notin LoadAcquirePC /\ mn \notin RMW.Relaxed \cup {"cas"}
    <3>1. mn \in Barriers => mn \notin RMW.Release
      BY BarriersApart
    <3>2. mn \in {"ldaddl", "ldclrl", "ldeorl", "ldsetl", "casl"}
      BY <2>1 DEF RMW
    <3>3. mn \notin LoadAcquire
      BY <3>2 DEF LoadAcquire
    <3>4. mn \notin StoreRelease
      BY <3>2 DEF StoreRelease
    <3>5. mn \notin RMW.SC /\ mn \notin RMW.Acquire
      BY <3>2 DEF RMW
    <3>6. mn \notin RelaxedStore
      BY <3>2 DEF RelaxedStore
    <3>7. mn \notin LoadAcquirePC /\ mn \notin RMW.Relaxed \cup {"cas"}
      BY <3>2 DEF LoadAcquirePC, RMW
    <3>8. QED
      BY <2>1, <3>1, <3>3, <3>4, <3>5, <3>6, <3>7
  <2>2. QED
    BY <2>1 DEF MnemonicEvent
<1>5. "W" \in MnemonicEvent(mn) /\ MnemonicEvent(mn) \cap {"L", "AL"} # {}
  BY <1>1, <1>2, <1>3, <1>4
<1>6. InstEvent(inst) = UNION {MnemonicEvent(t) : t \in Texts(inst)}
  BY DEF InstEvent
<1> HIDE DEF MnemonicEvent, InstEvent
<1>7. MnemonicEvent(mn) \subseteq InstEvent(inst)
  BY <1>6
<1>8. QED
  BY <1>5, <1>7

LEMMA CodeEventAt ==
  ASSUME NEW insts \in Seq(Instructions)
  PROVE  /\ DOMAIN CodeEvents(insts) = 1..Len(insts) /\ Len(insts) \in Nat
         /\ \A k \in 1..Len(insts) : CodeEvents(insts)[k] = InstEvent(insts[k])
BY DEF CodeEvents

LEMMA AccessEvent ==
  ASSUME NEW inst, inst.op \in {"load", "store"}
  PROVE  InstEvent(inst) = IF inst.op = "store" THEN {"W"} ELSE {"R"}
BY DEF InstEvent

(* An anchor that writes the channel: the test always keeps the bracket, as *)
(* the code does.                                                           *)
LEMMA ChannelSideExact ==
  ASSUME pair \in Inputs, objs = Registered, p0 = AnchorThread(pair),
         WritesChannel(pair), pair.site = "asm", pair.before # 0, AnchorSeen
  PROVE  /\ <<1, Len(p0)>> \in Kept(Events(p0), {})
         /\ <<pair.before, pair.at>> \in Kept(CodeEvents(pair.code), {})
<1>1. /\ pair.at \in 1..Len(pair.code)
      /\ pair.before \in 1..(pair.at - 1) /\ pair.code[pair.before].op \in {"load", "store"}
      /\ pair.code \in Seq(Instructions)
  BY Sides, PairFacts
<1>2. pair.site = "asm" /\ pair.alloc # None
  BY DEF WritesChannel
<1> DEFINE e == Events(p0)
           n == Len(p0)
           c == CodeEvents(pair.code)
<1>3. /\ DOMAIN e = 1..n /\ n \in Nat /\ n >= 2
      /\ e[1] = IF pair.code[pair.before].op = "store" THEN {"W"} ELSE {"R"}
      /\ "W" \in e[n] /\ e[n] \cap {"L", "AL"} # {}
  BY <1>2, ChannelThread
<1>4. <<1, n>> \in Kept(e, {})
  <2>1. KeptDirectly(e, 1, n)
    BY <1>3 DEF KeptDirectly
  <2>2. 1 \in DOMAIN e /\ n \in DOMAIN e /\ e[1] \cap {"R", "W"} # {} /\ e[n] \cap {"R", "W"} # {}
    BY <1>3
  <2> HIDE DEF e, n
  <2>3. QED
    BY <2>1, <2>2, DirectIsKept
<1>5. DOMAIN c = 1..Len(pair.code) /\ Len(pair.code) \in Nat /\ \A k \in 1..Len(pair.code) : c[k] = InstEvent(pair.code[k])
  BY <1>1, CodeEventAt
<1>6. "W" \in c[pair.at] /\ c[pair.at] \cap {"L", "AL"} # {}
  <2>1. IsAnchorInst(pair, pair.at)
    BY <1>2, InputsAssumption, Zenon DEF Located
  <2>2. pair.code[pair.at].op = "asm"
    BY <1>2, <2>1 DEF IsAnchorInst
  <2>3. QED
    BY <1>1, <1>2, <1>5, <2>2, ChannelEvent DEF AnchorSeen
<1>7. pair.before \in 1..Len(pair.code) /\ pair.before < pair.at
  <2>1. Len(pair.code) \in Nat
    BY <1>5
  <2>2. pair.at \in 1..Len(pair.code)
    BY <1>1
  <2>3. pair.before \in 1..(pair.at - 1)
    BY <1>1
  <2> HIDE DEF c
  <2>4. QED
    BY <2>1, <2>2, <2>3
<1>8. c[pair.before] \cap {"R", "W"} # {}
  <2>1. c[pair.before] = InstEvent(pair.code[pair.before])
    BY <1>5, <1>7
  <2> HIDE DEF c
  <2>2. InstEvent(pair.code[pair.before]) = IF pair.code[pair.before].op = "store" THEN {"W"} ELSE {"R"}
    <3>1. pair.code[pair.before].op \in {"load", "store"}
      BY <1>1
    <3>2. QED
      BY <3>1, AccessEvent
  <2>3. QED
    BY <2>1, <2>2
<1>9. <<pair.before, pair.at>> \in Kept(c, {})
  <2>1. KeptDirectly(c, pair.before, pair.at)
    BY <1>6, <1>7 DEF KeptDirectly
  <2>2. pair.before \in DOMAIN c /\ pair.at \in DOMAIN c /\ c[pair.at] \cap {"R", "W"} # {}
    BY <1>1, <1>5, <1>6, <1>7
  <2> HIDE DEF c
  <2>3. QED
    BY <1>8, <2>1, <2>2, DirectIsKept
<1>10. QED
  BY <1>4, <1>9

MarksIn(lo, hi) == UNION {Marks(InstEvent(pair.code[k])) : k \in (lo + 1)..(hi - 1)}
LineMarks(lo, hi) == UNION {Marks(LineEvent(l)) : l \in Range(Between(pair.code, lo, hi))}

(* The code of a fence bracket: what is between orders only by its marks.   *)
LEMMA FenceCode ==
  ASSUME pair \in Inputs, IsFenceAnchor(pair), pair.before # 0, pair.after # 0,
         AnchorSeen, BarriersSeen
  PROVE  LET c == CodeEvents(pair.code)
         IN  /\ pair.before \in 1..Len(pair.code) /\ pair.after \in 1..Len(pair.code) /\ pair.before < pair.after
             /\ DOMAIN c = 1..Len(pair.code) /\ Len(pair.code) \in Nat
             /\ c[pair.before] = IF pair.code[pair.before].op = "store" THEN {"W"} ELSE {"R"}
             /\ c[pair.after] = IF pair.code[pair.after].op = "store" THEN {"W"} ELSE {"R"}
             /\ \A k \in Between2(pair.before, pair.after) : Inner(c[k])
             /\ \A k \in Between2(pair.before, pair.after) \ {pair.at} : ExactBarrier(pair.code[k])
             /\ MarksBetween(c, pair.before, pair.after)
                  = MarksIn(pair.before, pair.at) \cup BarrierKind(pair.ordering) \cup MarksIn(pair.at, pair.after)
<1> DEFINE c == CodeEvents(pair.code)
           b == pair.before
           a == pair.after
           m == pair.at
<1>1. pair.site = "asm" /\ pair.alloc = None /\ Flag = a
  BY DEF IsFenceAnchor, Flag
<1>2. pair.code[b].op \in {"load", "store"} /\ pair.code[a].op \in {"load", "store"}
  BY Sides
<1>3. m \in 1..Len(pair.code)
  BY Sides
<1>4. b \in 1..(m - 1)
  BY Sides
<1>5. a \in (m + 1)..Len(pair.code)
  BY Sides
<1>6. Len(pair.code) \in Nat /\ pair.code \in Seq(Instructions)
  BY PairFacts
<1>7. DOMAIN c = 1..Len(pair.code) /\ \A k \in 1..Len(pair.code) : c[k] = InstEvent(pair.code[k])
  BY <1>6, CodeEventAt
<1>8. Located(pair)
  BY <1>1, InputsAssumption, Zenon
<1>9. pair.label \in Barriers \cup RMW.SC /\ Texts(pair.code[m]) = {pair.label}
  BY <1>1 DEF AnchorSeen
<1>10. InstEvent(pair.code[m]) = MnemonicEvent(pair.label)
  <2>1. pair.code[m].op = "asm"
    BY <1>1, <1>8 DEF Located, IsAnchorInst
  <2>2. InstEvent(pair.code[m]) = UNION {MnemonicEvent(mn) : mn \in Texts(pair.code[m])}
    BY <2>1 DEF InstEvent
  <2> HIDE DEF InstEvent, MnemonicEvent
  <2>3. QED
    BY <1>9, <2>2
<1>11. /\ Marks(MnemonicEvent(pair.label)) = BarrierKind(pair.ordering)
       /\ Inner(MnemonicEvent(pair.label))
  BY <1>9, AnchorMarks
<1>12. \A i \in (b + 1)..(a - 1) \ {m} : ExactBarrier(pair.code[i]) \/ pair.code[i].op \in {"load", "store"}
  BY <1>1 DEF BarriersSeen
<1>13. \A i \in 1..Len(pair.code) : pair.code[i].op \in {"load", "store"} => i <= b \/ a <= i
  BY <1>6, <1>8 DEF Located
<1> HIDE DEF b, a, m
<1>14. /\ b \in 1..Len(pair.code) /\ a \in 1..Len(pair.code) /\ b < a /\ m \in Between2(b, a)
       /\ \A k \in Between2(b, a) : k \in 1..Len(pair.code) /\ ~(k <= b \/ a <= k) /\ k \in (b + 1)..(a - 1)
       /\ \A k : k \in Between2(b, a) <=> k = m \/ k \in (b + 1)..(m - 1) \/ k \in (m + 1)..(a - 1)
  BY <1>3, <1>4, <1>5, <1>6 DEF Between2
<1>15. \A k \in Between2(b, a) \ {m} : ExactBarrier(pair.code[k])
  BY <1>12, <1>13, <1>14
<1>16. \A k \in Between2(b, a) : Inner(c[k])
  <2> TAKE k \in Between2(b, a)
  <2>1. c[k] = InstEvent(pair.code[k]) /\ pair.code[k] \in Instructions
    BY <1>6, <1>7, <1>14
  <2> HIDE DEF c
  <2>2. CASE k = m
    BY <1>10, <1>11, <2>1, <2>2
  <2>3. CASE k # m
    BY <1>15, <2>1, <2>3, SeenMarks
  <2>4. QED
    BY <2>2, <2>3
<1> DEFINE B == Between2(b, a)
           Y == (b + 1)..(m - 1)
           Z == (m + 1)..(a - 1)
<1>17. MarksBetween(c, b, a) = MarksIn(b, m) \cup BarrierKind(pair.ordering) \cup MarksIn(m, a)
  <2>1. MarksBetween(c, b, a) = UNION {Marks(InstEvent(pair.code[k])) : k \in B}
    <3>1. \A k \in B : c[k] = InstEvent(pair.code[k])
      BY <1>7, <1>14
    <3> HIDE DEF c, B, Marks, InstEvent
    <3>2. {Marks(c[k]) : k \in B} = {Marks(InstEvent(pair.code[k])) : k \in B}
      BY <3>1
    <3>3. MarksBetween(c, b, a) = UNION {Marks(c[k]) : k \in B}
      BY DEF MarksBetween, B
    <3>4. QED
      BY <3>2, <3>3
  <2>2. Marks(InstEvent(pair.code[m])) = BarrierKind(pair.ordering)
    BY <1>10, <1>11
  <2>3. \A k : k \in B <=> k = m \/ k \in Y \/ k \in Z
    BY <1>14
  <2> HIDE DEF c, B, Y, Z, Marks, InstEvent
  <2>4. UNION {Marks(InstEvent(pair.code[k])) : k \in B}
          = (UNION {Marks(InstEvent(pair.code[k])) : k \in Y}) \cup Marks(InstEvent(pair.code[m]))
              \cup (UNION {Marks(InstEvent(pair.code[k])) : k \in Z})
    BY <2>3
  <2>5. QED
    BY <2>1, <2>2, <2>4 DEF MarksIn, Y, Z
<1>18. c[b] = IF pair.code[b].op = "store" THEN {"W"} ELSE {"R"}
  <2>1. c[b] = InstEvent(pair.code[b]) /\ pair.code[b].op \in {"load", "store"}
    BY <1>2, <1>7, <1>14 DEF b
  <2> HIDE DEF c
  <2>2. QED
    BY <2>1, AccessEvent
<1>19. c[a] = IF pair.code[a].op = "store" THEN {"W"} ELSE {"R"}
  <2>1. c[a] = InstEvent(pair.code[a]) /\ pair.code[a].op \in {"load", "store"}
    BY <1>2, <1>7, <1>14 DEF a
  <2> HIDE DEF c
  <2>2. QED
    BY <2>1, AccessEvent
<1> HIDE DEF c
<1>20. QED
  BY <1>6, <1>7, <1>14, <1>15, <1>16, <1>17, <1>18, <1>19 DEF a, b, m, c

(* An anchor that is a fence: where what stands between its sides marks the *)
(* test as it marks the code, the two keep the bracket alike.               *)
LEMMA FenceSideExact ==
  ASSUME pair \in Inputs, objs = Registered, p0 = AnchorThread(pair),
         IsFenceAnchor(pair), pair.before # 0, pair.after # 0, AnchorSeen, BarriersSeen, After = pair.after,
         pair.ordering # "SC" =>
           LineMarks(Before, pair.at) \cup BarrierKind(pair.ordering) \cup LineMarks(pair.at, pair.after)
             = MarksIn(pair.before, pair.at) \cup BarrierKind(pair.ordering) \cup MarksIn(pair.at, pair.after)
  PROVE  <<1, Len(p0)>> \in Kept(Events(p0), {}) <=> <<pair.before, pair.after>> \in Kept(CodeEvents(pair.code), {})
<1> DEFINE e == Events(p0)
           n == Len(p0)
           c == CodeEvents(pair.code)
           b == pair.before
           a == pair.after
           m == pair.at
           o == pair.ordering
           N == Len(pair.code)
<1>1. /\ DOMAIN e = 1..n /\ n \in Nat /\ n >= 2
      /\ e[1] = IF pair.code[b].op = "store" THEN {"W"} ELSE {"R"}
      /\ e[n] = IF pair.code[a].op = "store" THEN {"W"} ELSE {"R"}
      /\ \A k \in Between2(1, n) : \E l \in FenceLines : e[k] = LineEvent(l)
      /\ MarksBetween(e, 1, n) = UNION {Marks(LineEvent(l)) : l \in FenceLines}
  BY FenceThread
<1>2. /\ b \in 1..N /\ a \in 1..N /\ b < a
      /\ DOMAIN c = 1..N /\ N \in Nat
      /\ c[b] = IF pair.code[b].op = "store" THEN {"W"} ELSE {"R"}
      /\ c[a] = IF pair.code[a].op = "store" THEN {"W"} ELSE {"R"}
      /\ \A k \in Between2(b, a) : Inner(c[k])
      /\ \A k \in Between2(b, a) \ {m} : ExactBarrier(pair.code[k])
      /\ MarksBetween(c, b, a) = MarksIn(b, m) \cup BarrierKind(o) \cup MarksIn(m, a)
  BY FenceCode
<1>3. Anchor = m /\ m \in 1..N /\ b \in 1..(m - 1) /\ Before \in 1..b /\ a \in (m + 1)..N /\ After = a
  BY Sides DEF IsFenceAnchor
<1>4. o \in {"SC", "Acquire", "Release"} /\ UNION {Marks(LineEvent(l)) : l \in Range(emitAnchor(pair))} = BarrierKind(o)
  BY AnchorMarks DEF AnchorSeen, IsFenceAnchor
<1>5. UNION {Marks(LineEvent(l)) : l \in FenceLines} = LineMarks(Before, m) \cup BarrierKind(o) \cup LineMarks(m, a)
  <2> DEFINE f == Range(Between(pair.code, Before, Anchor))
             g == Range(emitAnchor(pair))
             h == Range(Between(pair.code, Anchor, After))
  <2>1. FenceLines = f \cup g \cup h
    BY DEF FenceLines
  <2> HIDE DEF f, g, h, Marks, LineEvent
  <2>2. UNION {Marks(LineEvent(l)) : l \in FenceLines}
          = (UNION {Marks(LineEvent(l)) : l \in f}) \cup (UNION {Marks(LineEvent(l)) : l \in g})
              \cup (UNION {Marks(LineEvent(l)) : l \in h})
    BY <2>1
  <2>3. QED
    BY <1>3, <1>4, <2>2 DEF LineMarks, f, g, h
<1>6. o # "SC" => MarksBetween(e, 1, n) = MarksBetween(c, b, a)
  BY <1>1, <1>2, <1>5
<1>7. Ordering(e[1], MarksBetween(e, 1, n), e[n]) <=> Ordering(c[b], MarksBetween(c, b, a), c[a])
  <2>1. e[1] = c[b] /\ e[n] = c[a]
    BY <1>1, <1>2
  <2>2. CASE o = "SC"
    <3>1. BarrierKind(o) = {"FULL"}
      BY <2>2 DEF BarrierKind
    <3>2. "FULL" \in MarksBetween(e, 1, n) /\ "FULL" \in MarksBetween(c, b, a)
      BY <1>1, <1>2, <1>5, <3>1
    <3>3. QED
      BY <3>2, Zenon DEF Ordering
  <2>3. CASE o # "SC"
    BY <1>6, <2>1, <2>3, Zenon
  <2>4. QED
    BY <2>2, <2>3
<1>8. <<1, n>> \in Kept(e, {}) <=> KeptDirectly(e, 1, n)
  <2>1. ASSUME NEW k \in Between2(1, n) PROVE Inner(e[k])
    <3>1. PICK l \in FenceLines : e[k] = LineEvent(l)
      BY <1>1
    <3>2. l \in Fences
      <4>1. Before \in 0..N /\ m \in 0..N /\ a \in 0..N
        BY <1>2, <1>3
      <4>2. Between(pair.code, Before, Anchor) \in Seq(Fences) /\ Between(pair.code, Anchor, After) \in Seq(Fences)
        BY <1>3, <4>1, PairFacts, BetweenFacts
      <4>3. Range(emitAnchor(pair)) \subseteq Fences
        BY RegisteredFacts, AnchorLine DEF IsFenceAnchor, WritesChannel
      <4>4. QED
        BY <4>2, <4>3 DEF FenceLines, Range
    <3>3. PICK t \in PureBarriers : l = Fence(t)
      BY <3>2 DEF Fences
    <3>4. LineEvent(Fence(t)) \in {{"LD"}, {"ST"}, {"FULL"}}
      BY FenceMarks
    <3>5. Inner({"LD"}) /\ Inner({"ST"}) /\ Inner({"FULL"})
      BY DEF Inner
    <3> HIDE DEF e
    <3>6. QED
      BY <3>1, <3>3, <3>4, <3>5
  <2>2. n \in Nat /\ DOMAIN e = 1..n
    BY <1>1
  <2>3. 1 \in 1..n /\ n \in 1..n
    BY <1>1
  <2>4. e[1] \cap {"R", "W"} # {} /\ e[n] \cap {"R", "W"} # {} /\ "L" \notin e[1]
    BY <1>1
  <2> HIDE DEF e, n
  <2>5. QED
    BY <2>1, <2>2, <2>3, <2>4, KeptIsDirect
<1>9. <<b, a>> \in Kept(c, {}) <=> KeptDirectly(c, b, a)
  <2>1. N \in Nat /\ DOMAIN c = 1..N
    BY <1>2
  <2>2. b \in 1..N
    BY <1>2
  <2>3. a \in 1..N
    BY <1>2
  <2>4. c[b] \cap {"R", "W"} # {} /\ c[a] \cap {"R", "W"} # {} /\ "L" \notin c[b]
    BY <1>2
  <2>5. \A k \in Between2(b, a) : Inner(c[k])
    BY <1>2
  <2> HIDE DEF c, N, b, a
  <2>6. QED
    BY <2>1, <2>2, <2>3, <2>4, <2>5, KeptIsDirect
<1>10. 1 < n /\ b < a
  BY <1>1, <1>2
<1> HIDE DEF e, c, n, b, a
<1>11. QED
  BY <1>7, <1>8, <1>9, <1>10, DirectByMarks DEF e, c, n, b, a

(* One-sided and passing P5, it stands among barriers of its own kind.      *)
LEMMA PassingFenceMarks ==
  ASSUME pair \in Inputs, checkP1 = "pass", checkP5 # "fail", pair.ordering # "SC",
         IsFenceAnchor(pair), pair.before # 0, pair.after # 0, AnchorSeen, BarriersSeen
  PROVE  LineMarks(Before, pair.at) \cup BarrierKind(pair.ordering) \cup LineMarks(pair.at, pair.after)
           = MarksIn(pair.before, pair.at) \cup BarrierKind(pair.ordering) \cup MarksIn(pair.at, pair.after)
<1> DEFINE b == pair.before
           a == pair.after
           m == pair.at
           o == pair.ordering
           N == Len(pair.code)
<1>1. o \in {"SC", "Acquire", "Release"}
  BY AnchorMarks DEF AnchorSeen, IsFenceAnchor
<1>2. /\ b \in 1..N /\ a \in 1..N /\ b < a /\ N \in Nat
      /\ \A k \in Between2(b, a) \ {m} : ExactBarrier(pair.code[k])
  BY FenceCode
<1>3. Anchor = m /\ m \in 1..N /\ b \in 1..(m - 1) /\ Before \in 1..b /\ a \in (m + 1)..N /\ After = a
  BY Sides, LocatedInOrder DEF IsFenceAnchor
<1>4. /\ LineMarks(Before, m) \subseteq BarrierKind(o) /\ LineMarks(m, a) \subseteq BarrierKind(o)
      /\ MarksIn(b, m) \subseteq BarrierKind(o) /\ MarksIn(m, a) \subseteq BarrierKind(o)
  <2>1. \A token \in Plausible \cap PureBarriers : MarkOf(token) \subseteq BarrierKind(o)
    BY <1>1, OneKind
  <2>2. /\ plausibleBarriersBetween(pair.code, Before, m) \subseteq Plausible
        /\ plausibleBarriersBetween(pair.code, m, a) \subseteq Plausible
    BY <1>3 DEF Plausible
  <2>3. Before \in 0..N
    BY <1>2, <1>3
  <2>4. m \in 0..N
    BY <1>2, <1>3
  <2>5. a \in 0..N
    BY <1>2, <1>3
  <2>6. /\ \A l \in Range(Between(pair.code, Before, m)) : Marks(LineEvent(l)) \subseteq BarrierKind(o)
        /\ \A k \in (Before + 1)..(m - 1) :
              (ExactBarrier(pair.code[k]) \/ pair.code[k].op \in {"load", "store"})
                => Marks(InstEvent(pair.code[k])) \subseteq BarrierKind(o)
    BY <2>1, <2>2, <2>3, <2>4, PlausibleMarks
  <2>7. /\ \A l \in Range(Between(pair.code, m, a)) : Marks(LineEvent(l)) \subseteq BarrierKind(o)
        /\ \A k \in (m + 1)..(a - 1) :
              (ExactBarrier(pair.code[k]) \/ pair.code[k].op \in {"load", "store"})
                => Marks(InstEvent(pair.code[k])) \subseteq BarrierKind(o)
    BY <2>1, <2>2, <2>4, <2>5, PlausibleMarks
  <2>8. /\ \A k \in (b + 1)..(m - 1) : k \in Between2(b, a) \ {m} /\ k \in (Before + 1)..(m - 1)
        /\ \A k \in (m + 1)..(a - 1) : k \in Between2(b, a) \ {m}
    BY <1>2, <1>3 DEF Between2
  <2> HIDE DEF b, a, m, o, Marks, InstEvent, LineEvent, BarrierKind
  <2>9. \A k \in (b + 1)..(m - 1) : Marks(InstEvent(pair.code[k])) \subseteq BarrierKind(o)
    BY <1>2, <2>6, <2>8
  <2>10. \A k \in (m + 1)..(a - 1) : Marks(InstEvent(pair.code[k])) \subseteq BarrierKind(o)
    BY <1>2, <2>7, <2>8
  <2>11. LineMarks(Before, m) \subseteq BarrierKind(o)
    BY <2>6 DEF LineMarks
  <2>12. LineMarks(m, a) \subseteq BarrierKind(o)
    BY <2>7 DEF LineMarks
  <2>13. MarksIn(b, m) \subseteq BarrierKind(o)
    BY <2>9 DEF MarksIn
  <2>14. MarksIn(m, a) \subseteq BarrierKind(o)
    BY <2>10 DEF MarksIn
  <2>15. QED
    BY <2>11, <2>12, <2>13, <2>14
<1>5. QED
  BY <1>4

LEMMA AnchorSideExact ==
  ASSUME pair \in Inputs, objs = Registered, p0 = AnchorThread(pair),
         checkP1 = "pass", checkP5 # "fail", HasBracket, BarriersSeen, AnchorSeen
  PROVE  <<1, Len(p0)>> \in Kept(Events(p0), {}) <=> <<pair.before, Flag>> \in Kept(CodeEvents(pair.code), {})
<1>1. pair.before # 0 /\ Flag # 0 /\ (WritesChannel(pair) \/ IsFenceAnchor(pair))
  BY DEF HasBracket
<1>2. CASE WritesChannel(pair)
  <2>1. Flag = pair.at
    BY <1>2 DEF Flag, WritesChannel, IsFenceAnchor
  <2>2. QED
    BY <1>1, <1>2, <2>1, LocatedInOrder, ChannelSideExact DEF WritesChannel
<1>3. CASE IsFenceAnchor(pair)
  <2>1. Flag = pair.after
    BY <1>3 DEF Flag
  <2>2. QED
    BY <1>1, <1>3, <2>1, LocatedInOrder, PassingFenceMarks, FenceSideExact DEF IsFenceAnchor
<1>4. QED
  BY <1>1, <1>2, <1>3

(* With the dependencies of the code: they order more, and only where one   *)
(* lies between.                                                            *)
LEMMA BracketsAgree ==
  ASSUME pair \in Inputs, objs = Registered, p0 = AnchorThread(pair),
         checkP1 = "pass", checkP5 # "fail", HasBracket, BarriersSeen, AnchorSeen
  PROVE  /\ BracketInTest => BracketInCode
         /\ Undepended(pair.depends, pair.before, Flag) => (BracketInCode => BracketInTest)
<1> DEFINE c == CodeEvents(pair.code)
           b == pair.before
           f == Flag
<1>1. BracketInTest <=> <<b, f>> \in Kept(c, {})
  BY AnchorSideExact DEF BracketInTest
<1>2. pair.code \in Seq(Instructions)
  BY PairFacts
<1>3. Len(pair.code) \in Nat /\ DOMAIN c = 1..Len(pair.code)
  BY <1>2, CodeEventAt
<1> HIDE DEF c, b, f
<1>4. <<b, f>> \in Kept(c, {}) => <<b, f>> \in Kept(c, pair.depends)
  BY KeptMonotone
<1>5. Undepended(pair.depends, b, f) /\ <<b, f>> \in Kept(c, pair.depends) => <<b, f>> \in Kept(c, {})
  BY <1>3, KeptUndepended
<1>6. QED
  BY <1>1, <1>4, <1>5 DEF BracketInCode, b, c, f

(* A report is made of a finished test, and nothing moves after it.         *)
SideInv == TestInv /\ P8MakesAnchorSideExact /\ (Verified => phase = "done")

(* A test that passes P8 is about the bracket the code has: where the       *)
(* passes can see what is between and the anchor is a fence, a release or a *)
(* full atomic, P0 keeps it in order only when the code does, and P0 keeps  *)
(* whatever the code keeps without help of a dependency.                    *)
THEOREM AnchorSidesExact == VerifierSpec => []P8MakesAnchorSideExact
<1>1. VerifierInit => SideInv
  <2> SUFFICES ASSUME VerifierInit PROVE SideInv
    OBVIOUS
  <2>1. TestInv /\ ~Verified
    BY TestInvInit DEF VerifierInit, Verified
  <2>2. QED
    BY <2>1 DEF SideInv, P8MakesAnchorSideExact
<1>2. SideInv /\ [VerifierNext]_verifierVars => SideInv'
  <2> SUFFICES ASSUME SideInv, [VerifierNext]_verifierVars PROVE SideInv'
    OBVIOUS
  <2>1. TestInv /\ P8MakesAnchorSideExact /\ (Verified => phase = "done")
    BY DEF SideInv
  <2>2. [TestNext]_testVars
    BY DEF VerifierNext, Transpile, Verify, verifierVars, testVars
  <2>3. TestInv'
    BY <2>1, <2>2, TestInvStep
  <2> DEFINE Exact == /\ BracketInTest => BracketInCode
                      /\ Undepended(pair.depends, pair.before, Flag) => (BracketInCode => BracketInTest)
             Seen == HasBracket /\ BarriersSeen /\ AnchorSeen
  <2>4. CASE Verify
    <3>1. phase = "done" /\ phase' = "done" /\ pair' = pair /\ p0' = p0 /\ checks' = CheckReport
      BY <2>4 DEF Verify, testVars
    <3>2. pair \in Inputs /\ objs = Registered /\ p0 = AnchorThread(pair)
      BY <2>1, <3>1 DEF TestInv, TestStages
    <3>3. checks'.P8 = "pass" => checkP1 = "pass" /\ checkP5 # "fail"
      BY <3>1 DEF CheckReport, Verdict
    <3>4. checks'.P8 = "pass" /\ Seen => Exact
      BY <3>2, <3>3, BracketsAgree
    <3>5. Seen' = Seen /\ Exact' = Exact
      <4>1. Flag' = Flag
        BY <3>1 DEF Flag
      <4>2. HasBracket' = HasBracket
        BY <3>1, <4>1 DEF HasBracket
      <4>3. BarriersSeen' = BarriersSeen
        BY <3>1, <4>1 DEF BarriersSeen
      <4>4. AnchorSeen' = AnchorSeen
        BY <3>1 DEF AnchorSeen
      <4>5. BracketInTest' = BracketInTest /\ BracketInCode' = BracketInCode
        BY <3>1, <4>1 DEF BracketInTest, BracketInCode
      <4>6. QED
        BY <3>1, <4>1, <4>2, <4>3, <4>4, <4>5
    <3> HIDE DEF Seen, Exact
    <3>6. checks'.P8 = "pass" /\ Seen' => Exact'
      BY <3>4, <3>5
    <3>7. P8MakesAnchorSideExact'
      BY <3>6 DEF P8MakesAnchorSideExact, Seen, Exact
    <3>8. QED
      BY <2>3, <3>1, <3>7 DEF SideInv
  <2>5. CASE TestNext /\ checks' = checks
    <3>1. phase # "done"
      BY <2>5 DEF TestNext, RegisterObjects, BuildAnchorThread, OrderAccesses, EmitPartnerAccess, BuildExistsClause
    <3>2. ~Verified'
      BY <2>1, <2>5, <3>1 DEF Verified
    <3>3. QED
      BY <2>3, <3>2 DEF SideInv, P8MakesAnchorSideExact
  <2>6. CASE UNCHANGED verifierVars
    <3>1. phase' = phase /\ pair' = pair /\ p0' = p0 /\ checks' = checks
      BY <2>6 DEF verifierVars, testVars
    <3>2. Flag' = Flag /\ Verified' = Verified
      BY <3>1 DEF Flag, Verified
    <3>3. HasBracket' = HasBracket /\ BarriersSeen' = BarriersSeen /\ AnchorSeen' = AnchorSeen
      BY <3>1, <3>2 DEF HasBracket, BarriersSeen, AnchorSeen
    <3>4. Exact' = Exact
      <4>1. BracketInTest' = BracketInTest /\ BracketInCode' = BracketInCode
        BY <3>1, <3>2 DEF BracketInTest, BracketInCode
      <4>2. QED
        BY <3>1, <3>2, <4>1
    <3> HIDE DEF Exact
    <3>5. (Verified /\ checks.P8 = "pass" /\ Seen => Exact) => (Verified' /\ checks'.P8 = "pass" /\ Seen' => Exact')
      BY <3>1, <3>2, <3>3, <3>4
    <3>6. P8MakesAnchorSideExact'
      BY <2>1, <3>5 DEF P8MakesAnchorSideExact, Exact
    <3>7. QED
      BY <2>1, <2>3, <3>1, <3>2, <3>6 DEF SideInv
  <2>7. QED
    BY <2>4, <2>5, <2>6 DEF VerifierNext, Transpile
<1>3. SideInv => P8MakesAnchorSideExact
  BY DEF SideInv
<1>4. QED
  BY <1>1, <1>2, <1>3, PTL DEF VerifierSpec

LEMMA Inside ==
  ASSUME NEW N \in Nat, NEW m \in 1..N, NEW b \in 1..(m - 1)
  PROVE  /\ b \in 1..N /\ b < m /\ m \in Nat /\ b \in Nat
         /\ \A k \in Between2(b, m) : k \in 1..N /\ k \in (b + 1)..(m - 1) /\ k # b /\ k # m /\ k # 0
         /\ \A a \in (m + 1)..N : \A k \in Between2(b, m) : k # a
BY DEF Between2

LEMMA TwoEnds ==
  ASSUME NEW n \in Nat, n >= 2
  PROVE  1 \in 1..n /\ n \in 1..n /\ 1 < n
OBVIOUS

LEMMA InstAt ==
  ASSUME NEW insts \in Seq(Instructions), NEW k \in 1..Len(insts)
  PROVE  insts[k] \in Instructions
OBVIOUS

LEMMA SeenBetween ==
  ASSUME pair \in Inputs, ExactBarriers, NEW i \in 1..Len(pair.code), i \notin {pair.before, pair.at, pair.after}
  PROVE  ExactBarrier(pair.code[i]) \/ pair.code[i].op \in {"load", "store"}
<1>1. i \in DOMAIN pair.code \ {pair.before, pair.at, pair.after}
  BY PairFacts
<1>2. QED
  BY <1>1 DEF ExactBarriers, Plainly

(* In front of a plain publication neither the test nor the code orders.    *)
LEMMA PlainSideUnkept ==
  ASSUME pair \in Inputs, objs = Registered, p0 = AnchorThread(pair), WritesChannel(pair),
         pair.site = "store plain", pair.before # 0, pair.code[pair.before].op = "store",
         ExactBarriers, AnchorKept
  PROVE  /\ <<1, Len(p0)>> \notin Kept(Events(p0), {})
         /\ <<pair.before, pair.at>> \notin Kept(CodeEvents(pair.code), {})
<1> DEFINE e == Events(p0)
           n == Len(p0)
           c == CodeEvents(pair.code)
           N == Len(pair.code)
           b == pair.before
           m == pair.at
<1>1. Between(pair.code, Before, Anchor) = <<>>
  <2>1. Anchor = 0
    BY AnchorFound DEF Anchor
  <2>2. QED
    BY <2>1 DEF Between
<1>2. Range(Between(pair.code, Before, Anchor)) = {}
  BY <1>1, RangeOfOne
<1>3. /\ DOMAIN e = 1..n /\ n \in Nat /\ n >= 2
      /\ e[1] = {"W"} /\ e[n] = {"W"}
      /\ MarksBetween(e, 1, n) = UNION {Marks(LineEvent(l)) : l \in Range(Between(pair.code, Before, Anchor))}
      /\ \A k \in Between2(1, n) : \E l \in Range(Between(pair.code, Before, Anchor)) : e[k] = LineEvent(l)
  BY ChannelThread
<1>4. MarksBetween(e, 1, n) = {} /\ Between2(1, n) = {}
  <2> DEFINE F == Range(Between(pair.code, Before, Anchor))
  <2>1. /\ F = {} /\ MarksBetween(e, 1, n) = UNION {Marks(LineEvent(l)) : l \in F}
        /\ \A k \in Between2(1, n) : \E l \in F : e[k] = LineEvent(l)
    BY <1>2, <1>3
  <2> HIDE DEF F, e, n, Marks, LineEvent
  <2>2. UNION {Marks(LineEvent(l)) : l \in F} = {}
    BY <2>1
  <2>3. QED
    BY <2>1, <2>2
<1>5. ~Ordering({"W"}, {}, {"W"})
  BY DEF Ordering
<1>6. <<1, n>> \notin Kept(e, {})
  <2>1. ~KeptDirectly(e, 1, n)
    <3> HIDE DEF e, n
    <3>1. KeptDirectly(e, 1, n) <=> 1 < n /\ Ordering(e[1], MarksBetween(e, 1, n), e[n])
      BY DirectByMarks
    <3>2. QED
      BY <1>3, <1>4, <1>5, <3>1
  <2>2. n \in Nat /\ DOMAIN e = 1..n
    BY <1>3
  <2>3. 1 \in 1..n /\ n \in 1..n
    <3>1. n \in Nat
      BY <1>3
    <3>2. n >= 2
      BY <1>3
    <3> HIDE DEF n
    <3>3. QED
      BY <3>1, <3>2, TwoEnds
  <2>4. e[1] \cap {"R", "W"} # {} /\ e[n] \cap {"R", "W"} # {} /\ "L" \notin e[1]
    BY <1>3
  <2>5. \A k \in Between2(1, n) : Inner(e[k])
    BY <1>4
  <2> HIDE DEF e, n
  <2>6. QED
    BY <2>1, <2>2, <2>3, <2>4, <2>5, KeptIsDirect
<1>7. m \in 1..N
  BY Sides
<1>8. b \in 1..(m - 1)
  BY Sides
<1>9. N \in Nat
  BY PairFacts
<1>19. pair.code \in Seq(Instructions)
  BY PairFacts
<1>10. DOMAIN c = 1..N /\ \A k \in 1..N : c[k] = InstEvent(pair.code[k])
  BY <1>19, CodeEventAt
<1>11. pair.code[m].op = "store"
  BY InputsAssumption
<1>12. pair.after # 0 => pair.after \in (m + 1)..N
  BY Sides
<1> HIDE DEF b, m, N
<1>13. /\ b \in 1..N /\ b < m
       /\ \A k \in Between2(b, m) : k \in 1..N /\ k \in (b + 1)..(m - 1) /\ k # b /\ k # m /\ k # 0
       /\ \A a \in (m + 1)..N : \A k \in Between2(b, m) : k # a
  BY <1>7, <1>8, <1>9, Inside
<1>14. \A k \in Between2(b, m) : k # pair.after
  BY <1>12, <1>13
<1>15. \A k \in Between2(b, m) : Marks(c[k]) = {} /\ Inner(c[k])
  <2> TAKE k \in Between2(b, m)
  <2>1. ExactBarrier(pair.code[k]) \/ pair.code[k].op \in {"load", "store"}
    BY <1>13, <1>14, SeenBetween DEF b, m, N
  <2>2. pair.code[k] \in Instructions
    <3>1. k \in 1..Len(pair.code)
      BY <1>13 DEF N
    <3>2. QED
      BY <1>19, <3>1, InstAt
  <2>3. OrderingInsts(pair.code[k]) = <<>>
    BY <1>13 DEF AnchorKept, b, m
  <2>4. /\ UNION {MarkOf(oi.lowered) : oi \in Range(OrderingInsts(pair.code[k]))} = Marks(InstEvent(pair.code[k]))
        /\ Inner(InstEvent(pair.code[k]))
    BY <2>1, <2>2, SeenMarks
  <2>5. Range(OrderingInsts(pair.code[k])) = {}
    BY <2>3, RangeOfOne
  <2>6. c[k] = InstEvent(pair.code[k])
    BY <1>10, <1>13
  <2> HIDE DEF c, Inner, Marks, InstEvent
  <2>7. QED
    BY <2>4, <2>5, <2>6
<1>16. c[b] = {"W"} /\ c[m] = {"W"}
  <2>1. c[b] = InstEvent(pair.code[b]) /\ c[m] = InstEvent(pair.code[m])
    BY <1>7, <1>10, <1>13
  <2>2. pair.code[b].op = "store"
    BY DEF b
  <2> HIDE DEF c
  <2>3. \A i : pair.code[i].op = "store" => InstEvent(pair.code[i]) = {"W"}
    BY DEF InstEvent
  <2>4. QED
    BY <1>11, <2>1, <2>2, <2>3
<1>17. <<b, m>> \notin Kept(c, {})
  <2>1. MarksBetween(c, b, m) = {}
    <3> HIDE DEF c, Marks
    <3>1. QED
      BY <1>15 DEF MarksBetween
  <2>2. ~KeptDirectly(c, b, m)
    <3> HIDE DEF c
    <3>1. KeptDirectly(c, b, m) <=> b < m /\ Ordering(c[b], MarksBetween(c, b, m), c[m])
      BY DirectByMarks
    <3>2. QED
      BY <1>5, <1>16, <2>1, <3>1
  <2>3. c[b] \cap {"R", "W"} # {} /\ c[m] \cap {"R", "W"} # {} /\ "L" \notin c[b]
    BY <1>16
  <2> HIDE DEF c
  <2>4. DOMAIN c = 1..N
    BY <1>10
  <2>5. QED
    BY <1>7, <1>9, <1>13, <1>15, <2>2, <2>3, <2>4, KeptIsDirect
<1>18. QED
  BY <1>6, <1>17 DEF e, n, c, b, m

(* The bracket, where a store is in front of it.                            *)
LEMMA BracketSame ==
  ASSUME pair \in Inputs, objs = Registered, p0 = AnchorThread(pair), pair.before # 0, Flag # 0,
         WritesChannel(pair) \/ IsFenceAnchor(pair), pair.code[pair.before].op = "store",
         ExactBarriers, AnchorKept, Before = pair.before, pair.after # 0 => After = pair.after
  PROVE  <<1, Len(p0)>> \in Kept(Events(p0), {}) <=> <<pair.before, Flag>> \in Kept(CodeEvents(pair.code), {})
<1>1. CASE WritesChannel(pair)
  <2>1. Flag = pair.at
    BY <1>1 DEF Flag, WritesChannel, IsFenceAnchor
  <2>2. CASE pair.site = "asm"
    BY <1>1, <2>1, <2>2, ChannelSideExact DEF AnchorKept
  <2>3. CASE pair.site = "store plain"
    BY <1>1, <2>1, <2>3, PlainSideUnkept
  <2>4. QED
    BY <1>1, <2>2, <2>3 DEF WritesChannel
<1>2. CASE IsFenceAnchor(pair)
  <2> DEFINE b == pair.before
             m == pair.at
             a == pair.after
             N == Len(pair.code)
  <2>1. Flag = a /\ pair.site = "asm" /\ AnchorSeen
    BY <1>2 DEF Flag, IsFenceAnchor, AnchorKept
  <2>2. a # 0 /\ After = a /\ Anchor = m
    BY <1>2, <2>1, Sides DEF IsFenceAnchor
  <2>3. m \in 1..N
    BY Sides
  <2>4. b \in 1..(m - 1)
    BY Sides
  <2>5. a \in (m + 1)..N
    BY <2>2, Sides
  <2>6. N \in Nat /\ pair.code \in Seq(Instructions)
    BY PairFacts
  <2> HIDE DEF b, m, a, N
  <2>7. /\ b \in 1..N /\ a \in 1..N /\ b < m /\ m < a
        /\ \A i \in (b + 1)..(m - 1) : i \in 1..N /\ i # b /\ i # m /\ i # a
        /\ \A i \in (m + 1)..(a - 1) : i \in 1..N /\ i # b /\ i # m /\ i # a
        /\ \A i \in (b + 1)..(a - 1) \ {m} : i \in 1..N /\ i # b /\ i # m /\ i # a
    BY <2>3, <2>4, <2>5, <2>6
  <2>8. \A i \in 1..N : i # b /\ i # m /\ i # a
           => ExactBarrier(pair.code[i]) \/ pair.code[i].op \in {"load", "store"}
    BY SeenBetween DEF N, b, m, a
  <2>9. BarriersSeen
    BY <2>1, <2>7, <2>8 DEF BarriersSeen, b, m
  <2>10. LineMarks(Before, m) = MarksIn(b, m)
    <3>1. \A i \in (b + 1)..(m - 1) : ExactBarrier(pair.code[i]) \/ pair.code[i].op \in {"load", "store"}
      BY <2>7, <2>8
    <3>2. UNION {Marks(LineEvent(l)) : l \in Range(Between(pair.code, b, m))}
            = UNION {Marks(InstEvent(pair.code[k])) : k \in (b + 1)..(m - 1)}
      BY <2>3, <2>6, <2>7, <3>1, FencesBetween DEF N
    <3>3. Before = b
      BY DEF b
    <3>4. QED
      BY <3>2, <3>3 DEF LineMarks, MarksIn
  <2>11. LineMarks(m, a) = MarksIn(m, a)
    <3>1. \A i \in (m + 1)..(a - 1) : ExactBarrier(pair.code[i]) \/ pair.code[i].op \in {"load", "store"}
      BY <2>7, <2>8
    <3>2. UNION {Marks(LineEvent(l)) : l \in Range(Between(pair.code, m, a))}
            = UNION {Marks(InstEvent(pair.code[k])) : k \in (m + 1)..(a - 1)}
      BY <2>3, <2>6, <2>7, <3>1, FencesBetween DEF N
    <3>3. QED
      BY <3>2 DEF LineMarks, MarksIn
  <2>12. QED
    BY <1>2, <2>1, <2>2, <2>9, <2>10, <2>11, FenceSideExact DEF a, b, m
<1>3. QED
  BY <1>1, <1>2

LEMMA LastOfOne ==
  ASSUME NEW n \in Nat, NEW x \in 1..n
  PROVE  LastOf({x}) = x
<1>1. LastOf({x}) \in {x}
  <2>1. {x} \subseteq 1..n /\ {x} # {}
    OBVIOUS
  <2>2. QED
    BY <2>1, LastOfFacts
<1>2. QED
  BY <1>1

(* The lines of P0 that write are its ends.                                 *)
LEMMA WritesAtEnds ==
  ASSUME NEW n \in Nat, n >= 2, DOMAIN p0 = 1..n, NEW u, NEW v, u # v, u # 0, v # 0,
         p0[1].var = u, "W" \in LineEvent(p0[1]), p0[n].var = v, "W" \in LineEvent(p0[n]),
         \A k \in Between2(1, n) : p0[k].var = 0
  PROVE  WriteAt(u) = 1 /\ WriteAt(v) = n
<1>1. \A i \in 1..n : i = 1 \/ i = n \/ i \in Between2(1, n)
  BY DEF Between2
<1>2. 1 \in 1..n /\ n \in 1..n
  BY TwoEnds
<1>3. {i \in DOMAIN p0 : p0[i].var = u /\ "W" \in LineEvent(p0[i])} = {1}
  <2> HIDE DEF LineEvent
  <2>1. QED
    BY <1>1, <1>2
<1>4. {i \in DOMAIN p0 : p0[i].var = v /\ "W" \in LineEvent(p0[i])} = {n}
  <2> HIDE DEF LineEvent
  <2>1. QED
    BY <1>1, <1>2
<1>5. QED
  BY <1>2, <1>3, <1>4, LastOfOne DEF WriteAt

(* Two objects that P0 writes are those of its bracket.                     *)
LEMMA WrittenAtSides ==
  ASSUME pair \in Inputs, objs = Registered, p0 = AnchorThread(pair),
         NEW v \in P0Written, NEW w \in P0Written, v # w
  PROVE  /\ pair.before # 0 /\ Flag # 0 /\ (WritesChannel(pair) \/ IsFenceAnchor(pair))
         /\ pair.code[pair.before].op = "store"
         /\ pair.before < Flag /\ 1 < Len(p0)
         /\ \/ WriteAt(v) = 1 /\ WriteAt(w) = Len(p0) /\ CodeWriteAt(v) = pair.before /\ CodeWriteAt(w) = Flag
            \/ WriteAt(w) = 1 /\ WriteAt(v) = Len(p0) /\ CodeWriteAt(w) = pair.before /\ CodeWriteAt(v) = Flag
<1> DEFINE b == pair.before
           a == pair.after
           m == pair.at
           n == Len(p0)
           N == Len(pair.code)
           f == Var(pair.code[b].obj)
           Sided(l) ==
             /\ b # 0 /\ Flag # 0 /\ pair.code[b].op = "store" /\ f # l
             /\ WriteAt(f) = 1 /\ WriteAt(l) = n /\ CodeWriteAt(f) = b /\ CodeWriteAt(l) = Flag
             /\ b < Flag /\ 1 < n
<1>1. objs \in Seq(Objs) /\ N \in Nat
  BY RegisteredFacts, PairFacts
<1>2. Fences = {Fence(t) : t \in PureBarriers} /\ \A l \in Fences : l.var = 0
  BY DEF Fences, Fence, Line
<1>3. DOMAIN p0 = 1..n
  <2>1. p0 \in Seq(P0Lines)
    BY ThreadOfAnchor
  <2>2. QED
    BY <2>1
<1>4. CASE WritesChannel(pair)
  <2> DEFINE l == Var(pair.alloc)
  <2>1. ~IsFenceAnchor(pair) /\ Flag = m /\ pair.alloc # None
    BY <1>4 DEF WritesChannel, IsFenceAnchor, Flag
  <2>2. P0Written = {Var(pair.code[i].obj) : i \in {j \in {b} : j # 0 /\ pair.code[j].op = "store"}} \cup {l}
    BY <1>4, <2>1 DEF P0Written
  <2>3. b # 0 /\ pair.code[b].op = "store" /\ f # l /\ ((v = f /\ w = l) \/ (v = l /\ w = f))
    <3> HIDE DEF f, l, b
    <3>1. \A x \in P0Written : x = l \/ (b # 0 /\ pair.code[b].op = "store" /\ x = f)
      BY <2>2 DEF f
    <3>2. QED
      BY <3>1
  <2>4. m \in 1..N
    BY <2>3, Sides
  <2>5. b \in 1..(m - 1)
    BY <2>3, Sides
  <2>6. b \in 1..N /\ b < m /\ m # 0
    <3> HIDE DEF b, m, N
    <3>1. QED
      BY <1>1, <2>4, <2>5
  <2>7. f \in DOMAIN objs /\ objs[f] = pair.code[b].obj /\ f # 0
    BY <1>1, <2>3, RegisteredFacts, VarOf
  <2>8. l \in DOMAIN objs /\ objs[l] = pair.alloc /\ l # 0
    BY <1>1, <2>1, RegisteredFacts, VarOf
  <2>9. pair.code[b].obj # pair.alloc
    BY <2>3
  <2>10. /\ n \in Nat /\ n >= 2 /\ Events(p0)[1] = {"W"} /\ "W" \in Events(p0)[n]
         /\ p0[1].var = f /\ p0[n].var = l
         /\ \A k \in Between2(1, n) : p0[k] \in Range(Between(pair.code, Before, Anchor))
    BY <1>4, <2>3, ChannelThread
  <2>11. /\ "W" \in LineEvent(p0[1]) /\ "W" \in LineEvent(p0[n])
    <3>1. 1 \in 1..n /\ n \in 1..n
      BY <2>10, TwoEnds
    <3>2. \A k \in 1..n : Events(p0)[k] = LineEvent(p0[k])
      BY <1>3 DEF Events
    <3> HIDE DEF n, LineEvent
    <3>3. QED
      BY <2>10, <3>1, <3>2
  <2>12. \A k \in Between2(1, n) : p0[k].var = 0
    <3>1. Before \in 0..N /\ Anchor \in 0..N
      BY PairFacts, Found, AnchorFound DEF Before, Anchor
    <3>2. Between(pair.code, Before, Anchor) \in Seq(Fences)
      BY <3>1, PairFacts, BetweenFacts
    <3>3. \A x \in Range(Between(pair.code, Before, Anchor)) : x \in Fences
      BY <3>2 DEF Range
    <3> HIDE DEF n
    <3>4. QED
      BY <1>2, <2>10, <3>3
  <2>13. WriteAt(f) = 1 /\ WriteAt(l) = n
    <3>1. n \in Nat
      BY <2>10
    <3>2. n >= 2 /\ p0[1].var = f /\ p0[n].var = l
      BY <2>10
    <3>3. f # l /\ f # 0 /\ l # 0
      BY <2>3, <2>7, <2>8
    <3> HIDE DEF n, f, l
    <3>4. QED
      BY <1>3, <2>11, <2>12, <3>1, <3>2, <3>3, WritesAtEnds
  <2>14. \A x : CodeWriteAt(x) = LastOf({i \in {b} \ {0} : pair.code[i].op = "store" /\ pair.code[i].obj = objs[x]}
                                         \cup (IF pair.alloc = objs[x] THEN {m} ELSE {}))
    BY <1>4, <2>1 DEF CodeWriteAt
  <2>15. CodeWriteAt(f) = b
    <3> HIDE DEF b, m, f, l
    <3>1. {i \in {b} \ {0} : pair.code[i].op = "store" /\ pair.code[i].obj = objs[f]}
            \cup (IF pair.alloc = objs[f] THEN {m} ELSE {}) = {b}
      BY <2>3, <2>7, <2>9
    <3>2. QED
      BY <1>1, <2>6, <2>14, <3>1, LastOfOne
  <2>16. CodeWriteAt(l) = m
    <3> HIDE DEF b, m, f, l
    <3>1. {i \in {b} \ {0} : pair.code[i].op = "store" /\ pair.code[i].obj = objs[l]}
            \cup (IF pair.alloc = objs[l] THEN {m} ELSE {}) = {m}
      BY <2>3, <2>8, <2>9
    <3>2. QED
      BY <1>1, <2>4, <2>14, <3>1, LastOfOne
  <2>17. 1 < n
    <3> HIDE DEF n
    <3>1. QED
      BY <2>10, TwoEnds
  <2> HIDE DEF f, l, n, m
  <2>18. QED
    BY <1>4, <2>1, <2>3, <2>6, <2>13, <2>15, <2>16, <2>17 DEF n
<1>5. CASE IsFenceAnchor(pair)
  <2> DEFINE l == Var(pair.code[a].obj)
  <2>1. ~WritesChannel(pair) /\ Flag = a
    BY <1>5 DEF WritesChannel, IsFenceAnchor, Flag
  <2>2. P0Written = {Var(pair.code[i].obj) : i \in {j \in {b, a} : j # 0 /\ pair.code[j].op = "store"}}
    BY <1>5, <2>1 DEF P0Written
  <2>3. /\ b # 0 /\ pair.code[b].op = "store" /\ a # 0 /\ pair.code[a].op = "store"
        /\ f # l /\ ((v = f /\ w = l) \/ (v = l /\ w = f))
    <3> HIDE DEF f, l, b, a
    <3>1. \A x \in P0Written : \/ b # 0 /\ pair.code[b].op = "store" /\ x = f
                               \/ a # 0 /\ pair.code[a].op = "store" /\ x = l
      BY <2>2 DEF f, l
    <3>2. QED
      BY <3>1
  <2>4. m \in 1..N
    BY <2>3, Sides
  <2>5. b \in 1..(m - 1)
    BY <2>3, Sides
  <2>19. a \in (m + 1)..N
    BY <2>3, Sides
  <2>6. b \in 1..N /\ b < a /\ a \in 1..N
    <3> HIDE DEF b, m, N, a
    <3>1. QED
      BY <1>1, <2>4, <2>5, <2>19
  <2>7. f \in DOMAIN objs /\ objs[f] = pair.code[b].obj /\ f # 0
    BY <1>1, <2>3, RegisteredFacts, VarOf
  <2>8. l \in DOMAIN objs /\ objs[l] = pair.code[a].obj /\ l # 0
    BY <1>1, <2>3, RegisteredFacts, VarOf
  <2>9. pair.code[b].obj # pair.code[a].obj
    BY <2>3
  <2>10. /\ n \in Nat /\ n >= 2 /\ Events(p0)[1] = {"W"} /\ Events(p0)[n] = {"W"}
         /\ p0[1].var = f /\ p0[n].var = l
         /\ \A k \in Between2(1, n) : p0[k] \in FenceLines
    BY <1>5, <2>3, FenceThread
  <2>11. /\ "W" \in LineEvent(p0[1]) /\ "W" \in LineEvent(p0[n])
    <3>1. 1 \in 1..n /\ n \in 1..n
      BY <2>10, TwoEnds
    <3>2. \A k \in 1..n : Events(p0)[k] = LineEvent(p0[k])
      BY <1>3 DEF Events
    <3> HIDE DEF n, LineEvent
    <3>3. QED
      BY <2>10, <3>1, <3>2
  <2>12. \A k \in Between2(1, n) : p0[k].var = 0
    <3>1. Before \in 0..N /\ Anchor \in 0..N /\ After \in 0..N
      BY PairFacts, Found, AnchorFound DEF Before, Anchor, After
    <3>2. Between(pair.code, Before, Anchor) \in Seq(Fences) /\ Between(pair.code, Anchor, After) \in Seq(Fences)
      BY <3>1, PairFacts, BetweenFacts
    <3>3. Range(emitAnchor(pair)) \subseteq Fences
      BY <2>1, RegisteredFacts, AnchorLine
    <3>4. \A x \in FenceLines : x \in Fences
      BY <3>2, <3>3 DEF FenceLines, Range
    <3> HIDE DEF n
    <3>5. QED
      BY <1>2, <2>10, <3>4
  <2>13. WriteAt(f) = 1 /\ WriteAt(l) = n
    <3>1. n \in Nat
      BY <2>10
    <3>2. n >= 2 /\ p0[1].var = f /\ p0[n].var = l
      BY <2>10
    <3>3. f # l /\ f # 0 /\ l # 0
      BY <2>3, <2>7, <2>8
    <3> HIDE DEF n, f, l
    <3>4. QED
      BY <1>3, <2>11, <2>12, <3>1, <3>2, <3>3, WritesAtEnds
  <2>14. \A x : CodeWriteAt(x) = LastOf({i \in {b, a} \ {0} : pair.code[i].op = "store" /\ pair.code[i].obj = objs[x]})
    <3>1. \A x : CodeWriteAt(x)
            = LastOf({i \in ({b} \cup {a}) \ {0} : pair.code[i].op = "store" /\ pair.code[i].obj = objs[x]} \cup {})
      BY <1>5, <2>1 DEF CodeWriteAt
    <3>2. \A S : S \cup {} = S
      OBVIOUS
    <3>3. {b} \cup {a} = {b, a}
      OBVIOUS
    <3> HIDE DEF a, b, LastOf
    <3>4. QED
      BY <3>1, <3>2, <3>3
  <2>15. CodeWriteAt(f) = b
    <3> HIDE DEF b, a, f, l
    <3>1. {i \in {b, a} \ {0} : pair.code[i].op = "store" /\ pair.code[i].obj = objs[f]} = {b}
      BY <2>3, <2>7, <2>9
    <3>2. QED
      BY <1>1, <2>6, <2>14, <3>1, LastOfOne
  <2>16. CodeWriteAt(l) = a
    <3> HIDE DEF b, a, f, l
    <3>1. {i \in {b, a} \ {0} : pair.code[i].op = "store" /\ pair.code[i].obj = objs[l]} = {a}
      BY <2>3, <2>8, <2>9
    <3>2. QED
      BY <1>1, <2>6, <2>14, <3>1, LastOfOne
  <2>17. 1 < n
    <3> HIDE DEF n
    <3>1. QED
      BY <2>10, TwoEnds
  <2> HIDE DEF f, l, n, a
  <2>18. QED
    BY <1>5, <2>1, <2>3, <2>6, <2>13, <2>15, <2>16, <2>17 DEF n
<1>6. CASE ~WritesChannel(pair) /\ ~IsFenceAnchor(pair)
  <2>1. P0Written = {Var(pair.code[i].obj) : i \in {j \in {b} \cup {} : j # 0 /\ pair.code[j].op = "store"}} \cup {}
    BY <1>6 DEF P0Written
  <2> HIDE DEF b, f
  <2>2. \A x \in P0Written : x = Var(pair.code[b].obj)
    BY <2>1
  <2>3. QED
    BY <2>2
<1>7. QED
  BY <1>4, <1>5, <1>6

(* What P0 keeps of two of its writes is what the code keeps.               *)
LEMMA WritesKeptAlike ==
  ASSUME pair \in Inputs, objs = Registered, p0 = AnchorThread(pair),
         NEW v \in P0Written, NEW w \in P0Written, v # w,
         ExactBarriers, AnchorKept, Before = pair.before, pair.after # 0 => After = pair.after
  PROVE  <<WriteAt(v), WriteAt(w)>> \in Kept(Events(p0), {})
           <=> <<CodeWriteAt(v), CodeWriteAt(w)>> \in Kept(CodeEvents(pair.code), {})
<1> DEFINE n == Len(p0)
           e == Events(p0)
           c == CodeEvents(pair.code)
<1>1. /\ pair.before # 0 /\ Flag # 0 /\ (WritesChannel(pair) \/ IsFenceAnchor(pair))
      /\ pair.code[pair.before].op = "store"
      /\ pair.before < Flag /\ 1 < n
      /\ \/ WriteAt(v) = 1 /\ WriteAt(w) = n /\ CodeWriteAt(v) = pair.before /\ CodeWriteAt(w) = Flag
         \/ WriteAt(w) = 1 /\ WriteAt(v) = n /\ CodeWriteAt(w) = pair.before /\ CodeWriteAt(v) = Flag
  BY WrittenAtSides
<1>2. <<1, n>> \in Kept(e, {}) <=> <<pair.before, Flag>> \in Kept(c, {})
  BY <1>1, BracketSame
<1>3. <<n, 1>> \notin Kept(e, {})
  <2>1. p0 \in Seq(P0Lines)
    BY ThreadOfAnchor
  <2>2. n \in Nat /\ DOMAIN e = 1..n
    BY <2>1 DEF Events
  <2> HIDE DEF e, n
  <2>3. <<n, 1>> \in Kept(e, {}) => n < 1
    BY <2>2, KeptInOrder
  <2>4. QED
    BY <1>1, <2>2, <2>3
<1>4. <<Flag, pair.before>> \notin Kept(c, {})
  <2>1. pair.code \in Seq(Instructions)
    BY PairFacts
  <2>2. Len(pair.code) \in Nat /\ DOMAIN c = 1..Len(pair.code)
    BY <2>1, CodeEventAt
  <2>3. Flag \in Nat /\ pair.before \in Nat
    <3>1. pair.before \in 0..Len(pair.code) /\ pair.after \in 0..Len(pair.code) /\ Len(pair.code) \in Nat
      BY PairFacts
    <3>2. pair.at \in 1..Len(pair.code)
      BY <1>1, Sides
    <3>3. QED
      BY <3>1, <3>2 DEF Flag
  <2> DEFINE F == Flag
             B == pair.before
  <2> HIDE DEF c, F, B
  <2>4. <<F, B>> \in Kept(c, {}) => F < B
    BY <2>2, KeptInOrder
  <2>5. B < F /\ F \in Nat /\ B \in Nat
    BY <1>1, <2>3 DEF F, B
  <2>6. QED
    BY <2>4, <2>5 DEF F, B
<1> HIDE DEF e, c, n
<1>5. QED
  BY <1>1, <1>2, <1>3, <1>4, Zenon DEF e, c

(* Where the accesses stand in P1: in their order, each behind exactly the  *)
(* lines that were put in front of it.                                      *)
IsPlacing(place, n) ==
  /\ \A k \in 1..n : place[k] \in 1..Len(p1) /\ p1[place[k]] = PartnerAccess(Access(k))
  /\ \A k, l \in 1..n : k < l => place[k] < place[l]
  /\ \A k \in 2..n :
       /\ \A i \in Between2(place[k - 1], place[k]) : p1[i] \in Range(OrderingBefore(k))
       /\ \A line \in Range(OrderingBefore(k)) : \E i \in Between2(place[k - 1], place[k]) : p1[i] = line
  /\ n # 0 => place[n] = Len(p1)
Placed == \E place \in [1..(idx - 1) -> 1..Len(p1)] : IsPlacing(place, idx - 1)

(* Lines and an access at the end of a thread.                             *)
Continued(s, t, x) == (s \o t) \o <<x>>

Grown(place, n, m) == [k \in 1..(n + 1) |-> IF k = n + 1 THEN m ELSE place[k]]
Rising(place, n) == \A k, l \in 1..n : k < l => place[k] < place[l]
GrowsTo(place, n, grown, s, t, x, r) ==
  /\ \A k \in 1..n : grown[k] = place[k] /\ r[place[k]] = s[place[k]]
  /\ grown[n + 1] = Len(r) /\ r[Len(r)] = x
  /\ \A k, l \in 1..(n + 1) : k < l => grown[k] < grown[l]
  /\ \A k \in 2..n : \A i \in Between2(place[k - 1], place[k]) : r[i] = s[i]
  /\ n # 0 => /\ \A i \in Between2(place[n], Len(r)) : r[i] \in Range(t)
              /\ \A line \in Range(t) : \E i \in Between2(place[n], Len(r)) : r[i] = line

LEMMA PlacingGrows ==
  ASSUME NEW T, NEW s \in Seq(T), NEW t \in Seq(T), NEW x \in T, NEW n \in Nat,
         NEW place \in [1..n -> 1..Len(s)], Rising(place, n), n # 0 => place[n] = Len(s)
  PROVE  /\ Continued(s, t, x) \in Seq(T)
         /\ Grown(place, n, Len(Continued(s, t, x))) \in [1..(n + 1) -> 1..Len(Continued(s, t, x))]
         /\ GrowsTo(place, n, Grown(place, n, Len(Continued(s, t, x))), s, t, x, Continued(s, t, x))
<1> DEFINE z == <<x>>
           u == s \o t
           r == Continued(s, t, x)
           m == Len(s)
           q == Len(t)
           grown == Grown(place, n, Len(r))
<1>1. z \in Seq(T) /\ Len(z) = 1 /\ z[1] = x
  OBVIOUS
<1>2. m \in Nat /\ q \in Nat /\ Range(t) = {t[i] : i \in 1..q}
  BY DEF Range
<1>3. r = u \o z
  BY DEF Continued
<1> HIDE DEF z, r
<1>4. u \in Seq(T) /\ Len(u) = m + q /\ (\A i \in 1..m : u[i] = s[i]) /\ (\A i \in 1..q : u[m + i] = t[i])
  BY Joined
<1> HIDE DEF u
<1>5. /\ r \in Seq(T) /\ Len(r) = m + q + 1
      /\ \A i \in 1..(m + q) : r[i] = u[i]
      /\ r[m + q + 1] = x
  <2>1. /\ r \in Seq(T) /\ Len(r) = Len(u) + Len(z) /\ (\A i \in 1..Len(u) : r[i] = u[i])
        /\ \A i \in 1..Len(z) : r[Len(u) + i] = z[i]
    <3>1. u \in Seq(T)
      BY <1>4
    <3>2. z \in Seq(T)
      BY <1>1
    <3>3. QED
      BY <1>3, <3>1, <3>2, Joined
  <2>2. 1 \in 1..Len(z)
    BY <1>1
  <2>3. r[Len(u) + 1] = x
    BY <1>1, <2>1, <2>2
  <2>4. QED
    BY <1>1, <1>4, <2>1, <2>3
<1>6. \A k \in 1..n : place[k] \in 1..m
  OBVIOUS
<1> HIDE DEF m, q
<1>7. \A i \in 1..m : i \in 1..(m + q) /\ r[i] = s[i]
  BY <1>2, <1>4, <1>5
<1>8. /\ Len(r) \in Nat /\ \A i \in 1..m : i \in 1..Len(r) /\ i < Len(r)
      /\ Len(r) \in 1..Len(r)
  BY <1>2, <1>5
<1>9. \A k \in 1..(n + 1) : k # n + 1 => k \in 1..n
  OBVIOUS
<1>10. grown \in [1..(n + 1) -> 1..Len(r)]
  BY <1>6, <1>8, <1>9 DEF Grown
<1>11. grown[n + 1] = Len(r) /\ \A k \in 1..n : grown[k] = place[k] /\ r[place[k]] = s[place[k]]
  <2>1. n + 1 \in 1..(n + 1) /\ \A k \in 1..n : k \in 1..(n + 1) /\ k # n + 1
    OBVIOUS
  <2>2. QED
    BY <1>6, <1>7, <2>1 DEF Grown
<1>12. \A k, l \in 1..(n + 1) : k < l => grown[k] < grown[l]
  <2>0. \A k, l \in 1..n : k < l => place[k] < place[l]
    BY DEF Rising
  <2> TAKE k, l \in 1..(n + 1)
  <2> HAVE k < l
  <2>1. k \in 1..n
    OBVIOUS
  <2>2. CASE l = n + 1
    BY <1>6, <1>8, <1>11, <2>1, <2>2
  <2>3. CASE l # n + 1
    <3>1. l \in 1..n
      BY <1>9, <2>3
    <3> HIDE DEF grown
    <3>2. QED
      BY <1>11, <2>0, <2>1, <3>1
  <2>4. QED
    BY <2>2, <2>3
<1> HIDE DEF grown
<1>13. \A k \in 2..n : \A i \in Between2(place[k - 1], place[k]) : r[i] = s[i]
  <2> TAKE k \in 2..n
  <2> TAKE i \in Between2(place[k - 1], place[k])
  <2>1. k \in 1..n /\ k - 1 \in 1..n
    OBVIOUS
  <2>2. place[k - 1] \in 1..m /\ place[k] \in 1..m
    BY <1>6, <2>1
  <2>3. i \in 1..m
    BY <1>2, <2>2 DEF Between2
  <2>4. QED
    BY <1>7, <2>3
<1>14. ASSUME n # 0
       PROVE  /\ \A i \in Between2(place[n], Len(r)) : r[i] \in Range(t)
              /\ \A line \in Range(t) : \E i \in Between2(place[n], Len(r)) : r[i] = line
  <2>1. place[n] = m
    BY <1>14 DEF m
  <2>2. Between2(place[n], Len(r)) = (m + 1)..(m + q)
    BY <1>2, <1>5, <2>1 DEF Between2
  <2>3. ASSUME NEW i \in (m + 1)..(m + q) PROVE r[i] \in Range(t)
    <3>1. i - m \in 1..q /\ m + (i - m) = i /\ i \in 1..(m + q)
      BY <1>2
    <3>2. u[m + (i - m)] = t[i - m]
      BY <1>4, <3>1
    <3>3. r[i] = t[i - m]
      BY <1>5, <3>1, <3>2
    <3>4. QED
      BY <1>2, <3>1, <3>3
  <2>4. ASSUME NEW line \in Range(t) PROVE \E i \in (m + 1)..(m + q) : r[i] = line
    <3>1. PICK i \in 1..q : line = t[i]
      BY <1>2
    <3>2. m + i \in (m + 1)..(m + q) /\ m + i \in 1..(m + q)
      BY <1>2
    <3>3. r[m + i] = line
      BY <1>4, <1>5, <3>1, <3>2
    <3>4. QED
      BY <3>2, <3>3
  <2>5. QED
    BY <2>2, <2>3, <2>4
<1>15. r[Len(r)] = x
  BY <1>5
<1>16. r \in Seq(T)
  BY <1>5
<1> HIDE DEF Between2
<1>17. QED
  BY <1>10, <1>11, <1>12, <1>13, <1>14, <1>15, <1>16, Zenon DEF r, grown, GrowsTo

LEMMA SameBefore ==
  ASSUME pair' = pair, objs' = objs, order' = order
  PROVE  \A k : OrderingBefore(k)' = OrderingBefore(k)
BY DEF OrderingBefore, Access, emitOrderingOrChannelLoad, WritesChannel, Var

LEMMA NothingPlaced ==
  ASSUME idx = 1
  PROVE  Placed
<1> DEFINE place == [k \in 1..0 |-> 1]
<1>1. 1..0 = {} /\ idx - 1 = 0 /\ 2..0 = {}
  BY SMT
<1>2. place \in [1..(idx - 1) -> 1..Len(p1)]
  BY <1>1
<1>3. IsPlacing(place, idx - 1)
  BY <1>1 DEF IsPlacing
<1>4. QED
  BY <1>2, <1>3 DEF Placed

LEMMA PlacedInit == TestInit => Placed
BY NothingPlaced DEF TestInit

LEMMA PlacedStep == TestInv /\ Placed /\ [TestNext]_testVars => Placed'
<1> SUFFICES ASSUME TestInv, Placed, [TestNext]_testVars PROVE Placed'
  OBVIOUS
<1>1. /\ pair \in Inputs /\ TestTypeOK /\ TestStages /\ p1 \in Seq(P1Lines)
  BY DEF TestInv
<1>2. CASE RegisterObjects \/ BuildAnchorThread \/ OrderAccesses
  <2>1. idx' = 1
    BY <1>1, <1>2 DEF RegisterObjects, BuildAnchorThread, OrderAccesses, TestStages
  <2>2. idx = 1 => Placed
    BY NothingPlaced
  <2> DEFINE place == [k \in 1..0 |-> 1]
  <2>3. 1..0 = {} /\ idx' - 1 = 0 /\ 2..0 = {}
    BY <2>1, SMT
  <2>4. place \in [1..(idx' - 1) -> 1..Len(p1')]
    BY <2>3
  <2>5. IsPlacing(place, idx - 1)'
    BY <2>3 DEF IsPlacing
  <2>6. QED
    BY <2>4, <2>5 DEF Placed
<1>3. CASE EmitPartnerAccess
  <2> DEFINE n == idx - 1
             t == OrderingBefore(idx)
             x == PartnerAccess(Access(idx))
             r == Continued(p1, t, x)
  <2>1. /\ pair' = pair /\ objs' = objs /\ order' = order /\ idx' = idx + 1
        /\ phase = "partner" /\ idx \in DOMAIN order /\ p1' = r
    BY <1>3 DEF EmitPartnerAccess, Continued
  <2>2. objs = Registered /\ order = Hoisted
    BY <1>1, <2>1 DEF TestStages
  <2>3. /\ \A k : Access(k)' = Access(k) /\ PartnerAccess(Access(k))' = PartnerAccess(Access(k))
        /\ \A k : OrderingBefore(k)' = OrderingBefore(k)
    BY <2>1, SameAccess, SameBefore
  <2>4. n \in Nat /\ n + 1 = idx /\ idx' - 1 = n + 1
    <3>1. Len(order) \in Nat /\ DOMAIN order = 1..Len(order)
      BY <1>1 DEF TestTypeOK
    <3>2. QED
      BY <2>1, <3>1
  <2>5. PICK place \in [1..n -> 1..Len(p1)] : IsPlacing(place, n)
    BY DEF Placed
  <2>6. /\ \A k \in 1..n : place[k] \in 1..Len(p1) /\ p1[place[k]] = PartnerAccess(Access(k))
        /\ \A k, l \in 1..n : k < l => place[k] < place[l]
        /\ \A k \in 2..n :
             /\ \A i \in Between2(place[k - 1], place[k]) : p1[i] \in Range(OrderingBefore(k))
             /\ \A line \in Range(OrderingBefore(k)) : \E i \in Between2(place[k - 1], place[k]) : p1[i] = line
        /\ n # 0 => place[n] = Len(p1)
    BY <2>5 DEF IsPlacing
  <2>7. t \in Seq(P1Lines)
    BY <1>1, <2>1, <2>2, LinesBefore
  <2>8. x \in P1Lines
    BY <1>1, <2>1, <2>2, PartnerLine
  <2> DEFINE grown == Grown(place, n, Len(r))
  <2>20. r \in Seq(P1Lines) /\ grown \in [1..(n + 1) -> 1..Len(r)] /\ GrowsTo(place, n, grown, p1, t, x, r)
    <3>1. p1 \in Seq(P1Lines)
      BY <1>1
    <3>2. n \in Nat
      BY <2>4
    <3>3. Rising(place, n)
      BY <2>6 DEF Rising
    <3>4. n # 0 => place[n] = Len(p1)
      BY <2>6
    <3>5. place \in [1..n -> 1..Len(p1)]
      BY <2>5
    <3> HIDE DEF t, x, n
    <3>6. QED
      BY <2>7, <2>8, <3>1, <3>2, <3>3, <3>4, <3>5, PlacingGrows
  <2> HIDE DEF grown
  <2> HIDE DEF r
  <2>9. /\ \A k \in 1..n : grown[k] = place[k] /\ r[place[k]] = p1[place[k]]
        /\ grown[n + 1] = Len(r) /\ r[Len(r)] = x
        /\ \A k, l \in 1..(n + 1) : k < l => grown[k] < grown[l]
        /\ \A k \in 2..n : \A i \in Between2(place[k - 1], place[k]) : r[i] = p1[i]
        /\ n # 0 => /\ \A i \in Between2(place[n], Len(r)) : r[i] \in Range(t)
                    /\ \A line \in Range(t) : \E i \in Between2(place[n], Len(r)) : r[i] = line
    BY <2>20, Zenon DEF GrowsTo
  <2>19. PICK g : g = grown
    OBVIOUS
  <2> HIDE DEF r, n
  <2>10. \A k \in 1..(n + 1) : g[k] \in 1..Len(r) /\ r[g[k]] = PartnerAccess(Access(k))
    <3> TAKE k \in 1..(n + 1)
    <3>1. CASE k = n + 1
      BY <2>4, <2>9, <2>19, <2>20, <3>1
    <3>2. CASE k # n + 1
      <4>1. k \in 1..n
        BY <2>4, <3>2
      <4>2. g[k] = place[k] /\ r[place[k]] = p1[place[k]] /\ p1[place[k]] = PartnerAccess(Access(k))
        BY <2>6, <2>9, <2>19, <4>1
      <4>3. g[k] \in 1..Len(r)
        BY <2>19, <2>20
      <4> HIDE DEF x
      <4>4. QED
        BY <4>2, <4>3
    <3>3. QED
      BY <3>1, <3>2
  <2>11. ASSUME NEW k \in 2..(n + 1)
         PROVE  /\ \A i \in Between2(g[k - 1], g[k]) : r[i] \in Range(OrderingBefore(k))
                /\ \A line \in Range(OrderingBefore(k)) : \E i \in Between2(g[k - 1], g[k]) : r[i] = line
    <3>1. CASE k = n + 1
      <4>1. k - 1 = n /\ n # 0 /\ n \in 1..n /\ k = idx
        BY <2>4, <3>1
      <4>2. g[k - 1] = place[n] /\ g[k] = Len(r)
        BY <2>9, <2>19, <3>1, <4>1
      <4>3. /\ \A i \in Between2(place[n], Len(r)) : r[i] \in Range(t)
            /\ \A line \in Range(t) : \E i \in Between2(place[n], Len(r)) : r[i] = line
        BY <2>9, <4>1
      <4>4. t = OrderingBefore(k)
        BY <4>1
      <4> HIDE DEF t, Between2, Range
      <4>5. QED
        BY <4>2, <4>3, <4>4
    <3>2. CASE k # n + 1
      <4>1. k \in 2..n /\ k \in 1..n /\ k - 1 \in 1..n
        BY <2>4, <3>2
      <4>2. g[k] = place[k] /\ g[k - 1] = place[k - 1]
        BY <2>9, <2>19, <4>1
      <4>3. /\ \A i \in Between2(place[k - 1], place[k]) : p1[i] \in Range(OrderingBefore(k))
            /\ \A line \in Range(OrderingBefore(k)) : \E i \in Between2(place[k - 1], place[k]) : p1[i] = line
        BY <2>6, <4>1
      <4>4. \A i \in Between2(place[k - 1], place[k]) : r[i] = p1[i]
        BY <2>9, <4>1
      <4> HIDE DEF Between2, Range
      <4>5. QED
        BY <4>2, <4>3, <4>4
    <3>3. QED
      BY <3>1, <3>2
  <2>12. /\ \A k, l \in 1..(n + 1) : k < l => g[k] < g[l]
         /\ g[n + 1] = Len(r)
    BY <2>9, <2>19
  <2>13. \A k \in 1..(n + 1) : g[k] \in 1..Len(p1') /\ p1'[g[k]] = PartnerAccess(Access(k))'
    BY <2>1, <2>3, <2>10
  <2>14. \A k \in 2..(n + 1) :
           /\ \A i \in Between2(g[k - 1], g[k]) : p1'[i] \in Range(OrderingBefore(k)')
           /\ \A line \in Range(OrderingBefore(k)') : \E i \in Between2(g[k - 1], g[k]) : p1'[i] = line
    BY <2>1, <2>3, <2>11
  <2>15. IsPlacing(g, idx - 1)'
    <3> DEFINE j == idx' - 1
    <3>1. j = n + 1
      BY <2>4
    <3>2. /\ \A k \in 1..j : g[k] \in 1..Len(p1') /\ p1'[g[k]] = PartnerAccess(Access(k))'
          /\ \A k, l \in 1..j : k < l => g[k] < g[l]
          /\ \A k \in 2..j :
               /\ \A i \in Between2(g[k - 1], g[k]) : p1'[i] \in Range(OrderingBefore(k)')
               /\ \A line \in Range(OrderingBefore(k)') : \E i \in Between2(g[k - 1], g[k]) : p1'[i] = line
          /\ g[j] = Len(p1')
      BY <2>1, <2>12, <2>13, <2>14, <3>1
    <3> HIDE DEF j
    <3>3. (\A k : OrderingBefore(k)' = OrderingBefore(k)) /\ (\A k : PartnerAccess(Access(k))' = PartnerAccess(Access(k)))
      BY <2>3
    <3>4. QED
      BY <3>2, <3>3, Zenon DEF IsPlacing, j
  <2>16. g \in [1..(idx' - 1) -> 1..Len(p1')]
    BY <2>1, <2>4, <2>19, <2>20
  <2>17. QED
    BY <2>15, <2>16 DEF Placed
<1>4. CASE BuildExistsClause \/ UNCHANGED testVars
  <2>1. pair' = pair /\ objs' = objs /\ order' = order /\ idx' = idx /\ p1' = p1
    BY <1>4 DEF BuildExistsClause, testVars
  <2>2. /\ \A k : Access(k)' = Access(k) /\ PartnerAccess(Access(k))' = PartnerAccess(Access(k))
        /\ \A k : OrderingBefore(k)' = OrderingBefore(k)
    BY <2>1, SameAccess, SameBefore
  <2>3. ASSUME NEW place, IsPlacing(place, idx - 1) PROVE IsPlacing(place, idx - 1)'
    BY <2>1, <2>2, <2>3 DEF IsPlacing
  <2>4. PICK place \in [1..(idx - 1) -> 1..Len(p1)] : IsPlacing(place, idx - 1)
    BY DEF Placed
  <2>5. QED
    BY <2>1, <2>3, <2>4 DEF Placed
<1>5. QED
  BY <1>2, <1>3, <1>4 DEF TestNext

LoadedEvents == {{"R"}, {"R", "A"}}

LEMMA LoadedEventFacts ==
  ASSUME NEW ev \in LoadedEvents \cup {{"W"}}
  PROVE  Marks(ev) = {} /\ Inner(ev) /\ ev \cap {"R", "W"} # {}
<1>1. CASE ev = {"R"}
  BY <1>1 DEF Marks, Inner
<1>2. CASE ev = {"R", "A"}
  BY <1>2 DEF Marks, Inner
<1>3. CASE ev = {"W"}
  BY <1>3 DEF Marks, Inner
<1>4. QED
  BY <1>1, <1>2, <1>3 DEF LoadedEvents

LEMMA AcquiresApart ==
  ASSUME NEW mn \in LoadAcquire \ LoadAcquirePC
  PROVE  MnemonicEvent(mn) = {"R", "A"}
<1>1. mn \notin Barriers
  BY BarriersApart
<1>2. mn \notin StoreRelease
  BY DEF LoadAcquire, StoreRelease
<1>3. mn \notin RMW.SC
  BY AtomicsApart
<1>4. mn \notin RMW.Acquire /\ mn \notin RMW.Release
  BY DEF LoadAcquire, RMW
<1>5. mn \notin RelaxedStore
  BY DEF LoadAcquire, RelaxedStore
<1>6. mn \notin RMW.Relaxed \cup {"cas"}
  BY DEF LoadAcquire, RMW
<1>7. QED
  BY <1>1, <1>2, <1>3, <1>4, <1>5, <1>6 DEF MnemonicEvent

(* An access AccessesKept allows has a line that does what it does.         *)
Allowed(inst) ==
  \/ Plainly(inst)
  \/ IsChanLoad(inst) /\ ~inst.long /\ Texts(inst) # {} /\ Texts(inst) \subseteq LoadAcquire \ LoadAcquirePC

LEMMA AccessSeen ==
  ASSUME NEW inst \in Instructions, Allowed(inst)
  PROVE  /\ ~inst.long
         /\ LineEvent(PartnerAccess(inst)) = InstEvent(inst)
         /\ InstEvent(inst) \in LoadedEvents \cup {{"W"}}
         /\ ~IsStore(inst) => InstEvent(inst) \in LoadedEvents
<1>1. inst.op \in {"load", "store", "asm", "call"} /\ (inst.op # "asm" => inst.mns = <<>>)
  BY InstKinds
<1>2. \A v : /\ LineEvent(Line("LDR", v)) = {"R"} /\ LineEvent(Line("STR", v)) = {"W"}
             /\ LineEvent(Line("LDAR", v)) = {"R", "A"}
  BY DEF LineEvent, Line
<1>3. inst.op # "asm" => Texts(inst) = {}
  BY <1>1 DEF Texts
<1>4. CASE Plainly(inst)
  <2>1. inst.op \in {"load", "store"} /\ ~inst.long /\ Texts(inst) = {}
    BY <1>3, <1>4 DEF Plainly
  <2>2. ~SrcIsAcquire(inst) /\ (IsStore(inst) <=> inst.op = "store")
    BY <2>1 DEF SrcIsAcquire, IsStore
  <2>3. InstEvent(inst) = IF inst.op = "store" THEN {"W"} ELSE {"R"}
    BY <2>1 DEF InstEvent
  <2>4. PartnerAccess(inst) = Line(IF inst.op = "store" THEN "STR" ELSE "LDR", Var(inst.obj))
    BY <2>2 DEF PartnerAccess, emitAccess
  <2>5. QED
    BY <1>2, <2>1, <2>2, <2>3, <2>4 DEF LoadedEvents
<1>5. CASE ~Plainly(inst)
  <2>1. IsChanLoad(inst) /\ ~inst.long /\ Texts(inst) # {} /\ Texts(inst) \subseteq LoadAcquire \ LoadAcquirePC
    BY <1>5 DEF Allowed
  <2>2. inst.op = "asm"
    BY <1>3, <2>1
  <2>3. SrcIsAcquire(inst)
    BY <2>1 DEF SrcIsAcquire
  <2>4. PartnerAccess(inst) = Line("LDAR", Var(inst.obj))
    BY <2>1, <2>3 DEF PartnerAccess
  <2>5. InstEvent(inst) = UNION {MnemonicEvent(mn) : mn \in Texts(inst)}
    BY <2>2 DEF InstEvent
  <2>6. \A mn \in Texts(inst) : MnemonicEvent(mn) = {"R", "A"}
    BY <2>1, AcquiresApart
  <2>7. InstEvent(inst) = {"R", "A"}
    <3> HIDE DEF MnemonicEvent, LoadAcquire
    <3>1. {MnemonicEvent(mn) : mn \in Texts(inst)} = {{"R", "A"}}
      BY <2>1, <2>6
    <3>2. QED
      BY <2>5, <3>1
  <2>8. QED
    BY <1>2, <2>1, <2>4, <2>7 DEF LoadedEvents
<1>6. QED
  BY <1>4, <1>5

LEMMA LineInner ==
  ASSUME pair \in Inputs, objs = Registered, NEW l \in P1Lines
  PROVE  Inner(LineEvent(l)) /\ (l.op \in {"LDR", "LDAR", "STR"} => "R" \in LineEvent(l) <=> l.op # "STR")
<1>1. l.op \in PureBarriers \/ l.op \in {"LDR", "LDAR", "STR"}
  BY P1LineFacts
<1>2. CASE l.op \in {"LDR", "LDAR", "STR"}
  <2>1. LineEvent(l) = IF l.op = "LDR" THEN {"R"} ELSE IF l.op = "LDAR" THEN {"R", "A"} ELSE {"W"}
    BY <1>2 DEF LineEvent
  <2>2. QED
    BY <1>2, <2>1, LoadedEventFacts DEF LoadedEvents
<1>3. CASE l.op \in PureBarriers
  <2>1. LineEvent(l) \in {{"FULL"}, {"LD"}, {"ST"}} /\ l.op \notin {"LDR", "LDAR", "STR"}
    BY <1>3 DEF LineEvent, PureBarriers
  <2>2. Inner({"FULL"}) /\ Inner({"LD"}) /\ Inner({"ST"})
    BY DEF Inner
  <2> HIDE DEF LineEvent, Inner
  <2>3. QED
    BY <2>1, <2>2
<1>4. QED
  BY <1>1, <1>2, <1>3

(* Between two of a rising row of places stand the places between them and  *)
(* the gaps in front of each.                                               *)
LEMMA InGap ==
  ASSUME NEW n \in Nat, NEW f \in [1..n -> Nat], Rising(f, n), NEW a \in 1..n, NEW b \in 1..n,
         NEW i \in Nat, f[a] < i, i <= f[b]
  PROVE  \E k \in (a + 1)..b : k \in 2..n /\ (i = f[k] \/ i \in Between2(f[k - 1], f[k]))
<1> DEFINE T == {k \in (a + 1)..n : i <= f[k]}
<1>1. \A k \in 1..n : f[k] \in Nat
  OBVIOUS
<1>2. \A k, l \in 1..n : k < l => f[k] < f[l]
  BY DEF Rising
<1>3. a < b
  <2>1. CASE b < a
    BY <1>1, <1>2, <2>1
  <2>2. CASE a = b
    BY <1>1, <2>2
  <2>3. QED
    BY <2>1, <2>2
<1>4. b \in T
  BY <1>3
<1>5. T \subseteq Nat /\ T # {}
  BY <1>4
<1>6. Min(T) \in T /\ \A x \in T : Min(T) <= x
  BY <1>5, HasMin
<1>7. PICK k \in T : \A x \in T : k <= x
  BY <1>6
<1>8. k \in (a + 1)..n /\ i <= f[k] /\ k <= b /\ k \in 1..n /\ k - 1 \in 1..n
  BY <1>4, <1>7
<1>9. f[k - 1] < i
  <2>1. CASE k - 1 = a
    BY <2>1
  <2>2. CASE k - 1 # a
    <3>1. k - 1 \in (a + 1)..n /\ ~(k <= k - 1)
      BY <1>8, <2>2
    <3>2. k - 1 \notin T
      BY <1>7, <3>1
    <3>3. ~(i <= f[k - 1])
      BY <3>1, <3>2
    <3>4. QED
      BY <1>1, <1>8, <3>3
  <2>3. QED
    BY <2>1, <2>2
<1>10. i = f[k] \/ i \in Between2(f[k - 1], f[k])
  BY <1>1, <1>8, <1>9 DEF Between2
<1>11. k \in (a + 1)..b /\ k \in 2..n
  BY <1>8
<1>12. QED
  BY <1>10, <1>11

LEMMA GapInside ==
  ASSUME NEW n \in Nat, NEW f \in [1..n -> Nat], Rising(f, n), NEW a \in 1..n, NEW b \in 1..n,
         NEW k \in (a + 1)..b, NEW i \in Between2(f[k - 1], f[k])
  PROVE  i \in Between2(f[a], f[b])
<1>1. \A l \in 1..n : f[l] \in Nat
  OBVIOUS
<1>2. \A l, m \in 1..n : l < m => f[l] < f[m]
  BY DEF Rising
<1>3. k \in 1..n /\ k - 1 \in 1..n
  OBVIOUS
<1>4. f[a] <= f[k - 1]
  BY <1>1, <1>2, <1>3
<1>5. f[k] <= f[b]
  BY <1>1, <1>2, <1>3
<1>6. f[k - 1] \in Nat /\ f[k] \in Nat /\ f[a] \in Nat /\ f[b] \in Nat
  BY <1>1, <1>3
<1>7. QED
  BY <1>4, <1>5, <1>6 DEF Between2

Unmarked(e, f, n) == \A k \in 1..n : Marks(e[f[k]]) = {}
GapsOf(e, f, a, b) == UNION {MarksBetween(e, f[k - 1], f[k]) : k \in (a + 1)..b}

LEMMA GapMarks ==
  ASSUME NEW e, NEW n \in Nat, NEW f \in [1..n -> Nat], Rising(f, n), NEW a \in 1..n, NEW b \in 1..n,
         Unmarked(e, f, n)
  PROVE  MarksBetween(e, f[a], f[b]) = GapsOf(e, f, a, b)
<1>1. ASSUME NEW x \in MarksBetween(e, f[a], f[b]) PROVE x \in GapsOf(e, f, a, b)
  <2>1. PICK i \in Between2(f[a], f[b]) : x \in Marks(e[i])
    BY DEF MarksBetween
  <2>2. i \in Nat /\ f[a] < i /\ i <= f[b]
    <3>1. f[a] \in Nat /\ f[b] \in Nat
      OBVIOUS
    <3>2. QED
      BY <3>1 DEF Between2
  <2>3. PICK k \in (a + 1)..b : k \in 2..n /\ (i = f[k] \/ i \in Between2(f[k - 1], f[k]))
    BY <2>2, InGap
  <2>4. i # f[k]
    <3>1. k \in 1..n
      BY <2>3
    <3>2. QED
      BY <2>1, <3>1 DEF Unmarked
  <2>5. x \in MarksBetween(e, f[k - 1], f[k])
    BY <2>1, <2>3, <2>4 DEF MarksBetween
  <2>6. QED
    BY <2>5 DEF GapsOf
<1>2. ASSUME NEW x \in GapsOf(e, f, a, b) PROVE x \in MarksBetween(e, f[a], f[b])
  <2>1. PICK k \in (a + 1)..b : x \in MarksBetween(e, f[k - 1], f[k])
    BY DEF GapsOf
  <2>2. PICK i \in Between2(f[k - 1], f[k]) : x \in Marks(e[i])
    BY <2>1 DEF MarksBetween
  <2>3. i \in Between2(f[a], f[b])
    BY GapInside
  <2>4. QED
    BY <2>2, <2>3 DEF MarksBetween
<1>3. QED
  BY <1>1, <1>2

(* What AccessesKept says of the partner.                                   *)
PartnerKept ==
  /\ \A i \in Range(pair.accesses) : findInstByIR(pair.partner, i) = i /\ Allowed(pair.partner[i])
  /\ \A i, j \in DOMAIN order : i < j => order[i] < order[j]

LEMMA OrderFacts ==
  ASSUME pair \in Inputs, order = Hoisted, PartnerKept
  PROVE  /\ Len(order) \in Nat /\ DOMAIN order = 1..Len(order)
         /\ order \in [1..Len(order) -> Nat] /\ Rising(order, Len(order))
         /\ \A k \in 1..Len(order) :
              /\ order[k] \in 1..Len(pair.partner) /\ order[k] \in Range(pair.accesses)
              /\ findInstByIR(pair.partner, order[k]) = order[k]
              /\ Access(k) = pair.partner[order[k]] /\ Access(k) \in Instructions /\ Allowed(Access(k))
         /\ \A i \in Range(pair.accesses) : \E k \in 1..Len(order) : order[k] = i
<1>1. order \in Seq(DOMAIN pair.partner) /\ Range(order) = Range(pair.accesses)
  BY HoistedFacts
<1>2. pair.partner \in Seq(Instructions) /\ Len(pair.partner) \in Nat /\ DOMAIN pair.partner = 1..Len(pair.partner)
  BY PairFacts
<1> DEFINE n == Len(order)
<1>3. n \in Nat /\ DOMAIN order = 1..n /\ order \in [1..n -> DOMAIN pair.partner]
  BY <1>1
<1>4. \A k \in 1..n : order[k] \in 1..Len(pair.partner)
  BY <1>2, <1>3
<1>5. Range(order) = {order[k] : k \in 1..n}
  BY <1>3 DEF Range
<1>6. order \in [1..n -> Nat]
  BY <1>3, <1>4
<1>7. Rising(order, n)
  BY <1>3 DEF PartnerKept, Rising
<1>8. ASSUME NEW k \in 1..n
      PROVE  /\ order[k] \in 1..Len(pair.partner) /\ order[k] \in Range(pair.accesses)
             /\ findInstByIR(pair.partner, order[k]) = order[k]
             /\ Access(k) = pair.partner[order[k]] /\ Access(k) \in Instructions /\ Allowed(Access(k))
  <2>1. order[k] \in Range(pair.accesses)
    BY <1>1, <1>5
  <2>2. Access(k) = pair.partner[order[k]]
    BY DEF Access
  <2>3. findInstByIR(pair.partner, order[k]) = order[k] /\ Allowed(Access(k))
    BY <2>1, <2>2 DEF PartnerKept
  <2>4. order[k] \in 1..Len(pair.partner)
    BY <1>4
  <2>5. Access(k) \in Instructions
    BY <1>2, <2>2, <2>4, InstAt
  <2>6. QED
    BY <2>1, <2>2, <2>3, <2>4, <2>5
<1>9. \A i \in Range(pair.accesses) : \E k \in 1..n : order[k] = i
  BY <1>1, <1>5
<1>10. QED
  BY <1>3, <1>6, <1>7, <1>8, <1>9

LEMMA PlacingFacts ==
  ASSUME p1 \in Seq(P1Lines), NEW n \in Nat, NEW place \in [1..n -> 1..Len(p1)], IsPlacing(place, n)
  PROVE  /\ place \in [1..n -> Nat] /\ Rising(place, n) /\ Len(p1) \in Nat /\ DOMAIN p1 = 1..Len(p1)
         /\ DOMAIN Events(p1) = 1..Len(p1)
         /\ \A i \in 1..Len(p1) : Events(p1)[i] = LineEvent(p1[i])
         /\ \A k \in 1..n : place[k] \in 1..Len(p1) /\ Events(p1)[place[k]] = LineEvent(PartnerAccess(Access(k)))
<1>1. Len(p1) \in Nat /\ DOMAIN p1 = 1..Len(p1)
  OBVIOUS
<1>2. \A k \in 1..n : place[k] \in 1..Len(p1) /\ p1[place[k]] = PartnerAccess(Access(k))
  BY DEF IsPlacing
<1>3. DOMAIN Events(p1) = 1..Len(p1) /\ \A i \in 1..Len(p1) : Events(p1)[i] = LineEvent(p1[i])
  BY <1>1 DEF Events
<1>4. Rising(place, n)
  BY DEF IsPlacing, Rising
<1>5. place \in [1..n -> Nat]
  BY <1>1
<1>6. \A k \in 1..n : Events(p1)[place[k]] = LineEvent(PartnerAccess(Access(k)))
  BY <1>2, <1>3
<1>7. QED
  BY <1>1, <1>2, <1>3, <1>4, <1>5, <1>6

LEMMA PlacedEvent ==
  ASSUME pair \in Inputs, order = Hoisted, PartnerKept, p1 \in Seq(P1Lines),
         NEW place \in [1..Len(order) -> 1..Len(p1)], IsPlacing(place, Len(order)), NEW k \in 1..Len(order)
  PROVE  /\ Events(p1)[place[k]] = CodeEvents(pair.partner)[order[k]]
         /\ Events(p1)[place[k]] \in LoadedEvents \cup {{"W"}}
         /\ ~IsStore(Access(k)) => Events(p1)[place[k]] \in LoadedEvents
<1>1. /\ order[k] \in 1..Len(pair.partner) /\ Len(order) \in Nat
      /\ Access(k) = pair.partner[order[k]] /\ Access(k) \in Instructions /\ Allowed(Access(k))
  BY OrderFacts
<1>2. /\ LineEvent(PartnerAccess(Access(k))) = InstEvent(Access(k))
      /\ InstEvent(Access(k)) \in LoadedEvents \cup {{"W"}}
      /\ ~IsStore(Access(k)) => InstEvent(Access(k)) \in LoadedEvents
  BY <1>1, AccessSeen
<1>3. Events(p1)[place[k]] = LineEvent(PartnerAccess(Access(k)))
  BY <1>1, PlacingFacts
<1>4. pair.partner \in Seq(Instructions)
  BY PairFacts
<1>5. CodeEvents(pair.partner)[order[k]] = InstEvent(pair.partner[order[k]])
  BY <1>1, <1>4, CodeEventAt
<1>6. QED
  BY <1>1, <1>2, <1>3, <1>5

(* In front of an access the test orders what the code orders there.        *)
LEMMA GapsAlike ==
  ASSUME pair \in Inputs, objs = Registered, order = Hoisted, PartnerKept, ExactBarriers, p1 \in Seq(P1Lines),
         NEW place \in [1..Len(order) -> 1..Len(p1)], IsPlacing(place, Len(order)), NEW k \in 2..Len(order)
  PROVE  MarksBetween(Events(p1), place[k - 1], place[k])
           = MarksBetween(CodeEvents(pair.partner), order[k - 1], order[k])
<1> DEFINE n == Len(order)
           N == Len(pair.partner)
           lo == order[k - 1]
           hi == order[k]
           B == Between2(place[k - 1], place[k])
           e == Events(p1)
           R == Range(OrderingBefore(k))
<1>1. n \in Nat /\ N \in Nat /\ pair.partner \in Seq(Instructions) /\ DOMAIN pair.partner = 1..N
  BY PairFacts, OrderFacts
<1>2. k \in 1..n /\ k - 1 \in 1..n /\ k # 1 /\ k - 1 < k
  BY <1>1
<1>3. /\ lo \in 1..N /\ findInstByIR(pair.partner, lo) = lo
      /\ Access(k - 1) \in Instructions /\ Allowed(Access(k - 1))
  BY <1>2, OrderFacts
<1>4. /\ hi \in 1..N /\ findInstByIR(pair.partner, hi) = hi
      /\ Access(k) \in Instructions /\ Allowed(Access(k))
  BY <1>2, OrderFacts
<1>5. ~Access(k - 1).long /\ ~Access(k).long
  BY <1>3, <1>4, AccessSeen
<1>6. OrderingBefore(k) = Between(pair.partner, lo, hi)
  BY <1>2, <1>3, <1>4, <1>5 DEF OrderingBefore
<1>7. lo < hi
  <2>1. Rising(order, n)
    BY OrderFacts
  <2>2. QED
    BY <1>2, <2>1 DEF Rising
<1>8. \A i \in (lo + 1)..(hi - 1) : i \in 1..N /\ i \notin Range(pair.accesses)
  <2> TAKE i \in (lo + 1)..(hi - 1)
  <2>1. lo < i /\ i < hi /\ i \in 1..N
    <3> HIDE DEF lo, hi, N
    <3>1. QED
      BY <1>1, <1>3, <1>4
  <2>2. ASSUME NEW l \in 1..n, order[l] = i PROVE FALSE
    <3>1. /\ \A x \in 1..n : order[x] \in Nat
          /\ \A x, y \in 1..n : x < y => order[x] < order[y]
      <4>1. order \in [1..n -> Nat] /\ Rising(order, n)
        BY OrderFacts
      <4>2. QED
        BY <4>1 DEF Rising
    <3>2. l < k
      <4>1. ~(k < l)
        BY <1>2, <2>1, <2>2, <3>1
      <4>2. k # l
        BY <2>1, <2>2
      <4> HIDE DEF n
      <4>3. QED
        BY <1>1, <1>2, <4>1, <4>2
    <3>3. k - 1 < l
      <4>1. ~(l < k - 1)
        BY <1>2, <2>1, <2>2, <3>1
      <4>2. k - 1 # l
        BY <2>1, <2>2
      <4> HIDE DEF n
      <4>3. QED
        BY <1>1, <1>2, <4>1, <4>2
    <3> HIDE DEF n
    <3>4. QED
      BY <1>1, <1>2, <3>2, <3>3
  <2>3. i \notin Range(pair.accesses)
    BY <2>2, OrderFacts
  <2>4. QED
    BY <2>1, <2>3
<1>9. \A i \in (lo + 1)..(hi - 1) : ExactBarrier(pair.partner[i]) \/ pair.partner[i].op \in {"load", "store"}
  <2> TAKE i \in (lo + 1)..(hi - 1)
  <2>1. i \in DOMAIN pair.partner \ Range(pair.accesses)
    BY <1>1, <1>8
  <2>2. QED
    BY <2>1 DEF ExactBarriers, Plainly
<1>10. UNION {Marks(LineEvent(l)) : l \in R} = UNION {Marks(InstEvent(pair.partner[i])) : i \in (lo + 1)..(hi - 1)}
  <2>1. lo \in 1..N
    BY <1>3
  <2>2. hi \in 1..N
    BY <1>4
  <2> HIDE DEF lo, hi
  <2>3. UNION {Marks(LineEvent(l)) : l \in Range(Between(pair.partner, lo, hi))}
          = UNION {Marks(InstEvent(pair.partner[i])) : i \in (lo + 1)..(hi - 1)}
    BY <1>1, <1>7, <1>9, <2>1, <2>2, FencesBetween
  <2>4. QED
    BY <1>6, <2>3
<1>11. MarksBetween(CodeEvents(pair.partner), lo, hi)
         = UNION {Marks(InstEvent(pair.partner[i])) : i \in (lo + 1)..(hi - 1)}
  <2>1. \A i \in 1..N : CodeEvents(pair.partner)[i] = InstEvent(pair.partner[i])
    BY <1>1, CodeEventAt
  <2>2. \A i \in (lo + 1)..(hi - 1) : CodeEvents(pair.partner)[i] = InstEvent(pair.partner[i])
    BY <1>8, <2>1
  <2> HIDE DEF lo, hi, Marks
  <2>3. QED
    BY <2>2 DEF MarksBetween, Between2
<1>12. /\ \A i \in B : p1[i] \in R
       /\ \A l \in R : \E i \in B : p1[i] = l
  BY DEF IsPlacing
<1>13. \A i \in B : e[i] = LineEvent(p1[i])
  <2>1. /\ place[k - 1] \in 1..Len(p1) /\ place[k] \in 1..Len(p1)
        /\ \A i \in 1..Len(p1) : e[i] = LineEvent(p1[i])
    BY <1>1, <1>2, PlacingFacts
  <2>2. Len(p1) \in Nat
    OBVIOUS
  <2>3. \A i \in B : i \in 1..Len(p1)
    <3> HIDE DEF e
    <3>1. QED
      BY <2>1, <2>2 DEF Between2
  <2>4. QED
    BY <2>1, <2>3
<1>14. MarksBetween(e, place[k - 1], place[k]) = UNION {Marks(e[i]) : i \in B}
  BY DEF MarksBetween
<1>15. UNION {Marks(e[i]) : i \in B} = UNION {Marks(LineEvent(l)) : l \in R}
  <2> HIDE DEF e, B, R, Marks, LineEvent
  <2>1. {Marks(e[i]) : i \in B} = {Marks(LineEvent(l)) : l \in R}
    BY <1>12, <1>13
  <2>2. QED
    BY <2>1
<1>16. QED
  BY <1>10, <1>11, <1>14, <1>15

LEMMA PlacedMarks ==
  ASSUME pair \in Inputs, objs = Registered, order = Hoisted, PartnerKept, ExactBarriers, p1 \in Seq(P1Lines),
         NEW place \in [1..Len(order) -> 1..Len(p1)], IsPlacing(place, Len(order)),
         NEW a \in 1..Len(order), NEW b \in 1..Len(order)
  PROVE  MarksBetween(Events(p1), place[a], place[b])
           = MarksBetween(CodeEvents(pair.partner), order[a], order[b])
<1> DEFINE n == Len(order)
           e == Events(p1)
           c == CodeEvents(pair.partner)
<1>1. n \in Nat /\ order \in [1..n -> Nat] /\ Rising(order, n)
  BY OrderFacts
<1>2. place \in [1..n -> Nat] /\ Rising(place, n)
  BY <1>1, PlacingFacts
<1>3. \A k \in 1..n : Marks(e[place[k]]) = {} /\ Marks(c[order[k]]) = {}
  <2> TAKE k \in 1..n
  <2>1. e[place[k]] = c[order[k]] /\ e[place[k]] \in LoadedEvents \cup {{"W"}}
    BY PlacedEvent
  <2> HIDE DEF e, c
  <2>2. QED
    BY <2>1, LoadedEventFacts
<1>4. \A k \in 2..n : MarksBetween(e, place[k - 1], place[k]) = MarksBetween(c, order[k - 1], order[k])
  BY GapsAlike
<1>9. \A k \in (a + 1)..b : k \in 2..n
  BY <1>1
<1>10. a \in 1..n /\ b \in 1..n
  OBVIOUS
<1>11. n \in Nat
  BY <1>1
<1>12. place \in [1..n -> Nat]
  BY <1>2
<1>13. Rising(place, n)
  BY <1>2
<1>14. order \in [1..n -> Nat]
  BY <1>1
<1>15. Rising(order, n)
  BY <1>1
<1>16. a \in 1..n
  BY <1>10
<1>17. b \in 1..n
  BY <1>10
<1>18. Unmarked(e, place, n)
  BY <1>3 DEF Unmarked
<1>19. Unmarked(c, order, n)
  BY <1>3 DEF Unmarked
<1> HIDE DEF e, c, n, Marks
<1>5. MarksBetween(e, place[a], place[b]) = GapsOf(e, place, a, b)
  BY <1>11, <1>12, <1>13, <1>16, <1>17, <1>18, GapMarks
<1>6. MarksBetween(c, order[a], order[b]) = GapsOf(c, order, a, b)
  BY <1>11, <1>14, <1>15, <1>16, <1>17, <1>19, GapMarks
<1>7. GapsOf(e, place, a, b) = GapsOf(c, order, a, b)
  BY <1>4, <1>9 DEF GapsOf
<1>8. QED
  BY <1>5, <1>6, <1>7 DEF e, c

(* The last read of a variable is where its last access was put.            *)
LEMMA ReadsPlaced ==
  ASSUME pair \in Inputs, objs = Registered, order = Hoisted, PartnerKept, p1 \in Seq(P1Lines),
         NEW place \in [1..Len(order) -> 1..Len(p1)], IsPlacing(place, Len(order)),
         NEW v \in Loaded, CodeReadAt(v) # 0
  PROVE  \E k \in 1..Len(order) : ReadAt(v) = place[k] /\ CodeReadAt(v) = order[k] /\ ~IsStore(Access(k))
<1> DEFINE n == Len(order)
           S == {i \in Range(pair.accesses) : pair.partner[i].obj = objs[v]}
           q == ReadAt(v)
<1>1. /\ n \in Nat /\ DOMAIN order = 1..n /\ order \in [1..n -> Nat] /\ Rising(order, n)
      /\ \A k \in 1..n : /\ order[k] \in 1..Len(pair.partner) /\ order[k] \in Range(pair.accesses)
                         /\ Access(k) = pair.partner[order[k]]
      /\ \A i \in Range(pair.accesses) : \E k \in 1..n : order[k] = i
  BY OrderFacts
<1>2. /\ place \in [1..n -> Nat] /\ Rising(place, n) /\ Len(p1) \in Nat /\ DOMAIN p1 = 1..Len(p1)
      /\ DOMAIN Events(p1) = 1..Len(p1)
      /\ \A i \in 1..Len(p1) : Events(p1)[i] = LineEvent(p1[i])
      /\ \A k \in 1..n : place[k] \in 1..Len(p1)
  BY <1>1, PlacingFacts
<1>3. /\ v \in DOMAIN objs /\ v # 0
      /\ \E i \in DOMAIN p1 : p1[i].var = v /\ "R" \in LineEvent(p1[i])
      /\ \A i \in DOMAIN p1 : p1[i].var = v => p1[i].op # "STR"
  BY LoadedVars
<1>4. /\ q \in 1..Len(p1) /\ p1[q].var = v
      /\ \A i \in 1..Len(p1) : (p1[i].var = v /\ "R" \in LineEvent(p1[i])) => i <= q
  BY <1>2, <1>3, ReadAtFacts
<1>5. /\ objs \in Seq(Objs) /\ \A x, y \in DOMAIN objs : objs[x] = objs[y] => x = y
  BY RegisteredFacts DEF IsInjective
<1>6. objs[v] \in Range(objs) /\ Var(objs[v]) = v
  <2>1. objs[v] \in Range(objs)
    BY <1>3 DEF Range
  <2>2. Var(objs[v]) \in DOMAIN objs /\ objs[Var(objs[v])] = objs[v]
    BY <1>5, <2>1, VarOf
  <2>3. QED
    BY <1>3, <1>5, <2>1, <2>2
<1>7. \A k \in 1..n : /\ p1[place[k]] = PartnerAccess(Access(k)) /\ Access(k).obj \in Range(objs)
                      /\ p1[place[k]].var = Var(Access(k).obj)
                      /\ (p1[place[k]].op = "STR" <=> IsStore(Access(k)))
  <2> TAKE k \in 1..n
  <2>1. p1[place[k]] = PartnerAccess(Access(k))
    BY DEF IsPlacing
  <2>2. k \in DOMAIN order
    BY <1>1
  <2>3. /\ Access(k).obj \in Range(objs)
        /\ PartnerAccess(Access(k)).var = Var(Access(k).obj)
        /\ (PartnerAccess(Access(k)).op = "STR" <=> IsStore(Access(k)))
    BY <2>2, PartnerLine
  <2> HIDE DEF IsStore, PartnerAccess, Access, Var, n
  <2>4. QED
    BY <2>1, <2>3
<1>8. \A k \in 1..n : p1[place[k]].var = v => order[k] \in S
  <2> TAKE k \in 1..n
  <2> HAVE p1[place[k]].var = v
  <2>1. Var(Access(k).obj) = Var(objs[v]) /\ Access(k).obj \in Range(objs)
    BY <1>6, <1>7
  <2>2. Access(k).obj = objs[v]
    BY <1>5, <1>6, <2>1, VarInjective
  <2>3. QED
    BY <1>1, <2>2
<1>9. S \subseteq 1..Len(pair.partner) /\ Len(pair.partner) \in Nat
  BY <1>1, PairFacts
<1>10. CodeReadAt(v) = LastOf(S)
  BY DEF CodeReadAt
<1>11. CodeReadAt(v) \in S /\ \A j \in S : j <= CodeReadAt(v)
  <2> HIDE DEF S
  <2>1. QED
    BY <1>9, <1>10, LastOfFacts
<1>12. PICK k \in 1..n : order[k] = CodeReadAt(v)
  BY <1>1, <1>11
<1>13. Access(k).obj = objs[v]
  BY <1>1, <1>11, <1>12
<1>14. place[k] \in 1..Len(p1) /\ p1[place[k]].var = v /\ ~IsStore(Access(k))
  <2>1. place[k] \in 1..Len(p1)
    BY <1>2
  <2>2. p1[place[k]].var = v
    BY <1>6, <1>7, <1>13
  <2>3. p1[place[k]].op # "STR"
    BY <1>2, <1>3, <2>1, <2>2
  <2>4. QED
    BY <1>7, <2>1, <2>2, <2>3
<1>15. "R" \in LineEvent(p1[place[k]])
  <2>1. Events(p1)[place[k]] \in LoadedEvents
    BY <1>14, PlacedEvent
  <2>2. Events(p1)[place[k]] = LineEvent(p1[place[k]])
    BY <1>2, <1>14
  <2> HIDE DEF LineEvent
  <2>3. QED
    BY <2>1, <2>2 DEF LoadedEvents
<1>16. place[k] <= q
  BY <1>4, <1>14, <1>15
<1>17. q <= place[k]
  <2> SUFFICES ASSUME place[k] < q PROVE FALSE
    BY <1>2, <1>4
  <2>1. n \in 1..n /\ place[n] = Len(p1)
    BY <1>1 DEF IsPlacing
  <2>2. q \in Nat /\ q <= place[n]
    BY <1>4, <2>1
  <2>3. PICK m \in (k + 1)..n : m \in 2..n /\ (q = place[m] \/ q \in Between2(place[m - 1], place[m]))
    BY <1>1, <1>2, <2>1, <2>2, InGap
  <2>4. CASE q = place[m]
    <3>1. m \in 1..n
      BY <2>3
    <3>2. order[m] <= order[k]
      BY <1>4, <1>8, <1>11, <1>12, <2>4, <3>1
    <3>3. k < m
      BY <1>1, <2>3
    <3>4. order[k] < order[m] /\ order[k] \in Nat /\ order[m] \in Nat
      BY <1>1, <3>1, <3>3 DEF Rising
    <3>5. QED
      BY <3>2, <3>4
  <2>5. CASE q \in Between2(place[m - 1], place[m])
    <3>1. p1[q] \in Range(OrderingBefore(m))
      BY <2>3, <2>5 DEF IsPlacing
    <3>2. m \in DOMAIN order /\ m # 1
      BY <1>1, <2>3
    <3>3. OrderingBefore(m) \in Seq(Fences)
      BY <3>2, LinesBefore
    <3>4. p1[q] \in Fences
      BY <3>1, <3>3 DEF Range
    <3>5. p1[q].var = 0
      BY <3>4, FenceLine
    <3>6. QED
      BY <1>3, <1>4, <3>5
  <2>6. QED
    BY <2>3, <2>4, <2>5
<1>18. q = place[k]
  BY <1>2, <1>4, <1>14, <1>16, <1>17
<1>19. QED
  BY <1>12, <1>14, <1>18

(* An access of the code adds nothing between two others.                   *)
LEMMA PartnerInner ==
  ASSUME pair \in Inputs, order = Hoisted, PartnerKept, ExactBarriers, NEW i \in 1..Len(pair.partner)
  PROVE  Inner(CodeEvents(pair.partner)[i])
<1>1. pair.partner \in Seq(Instructions) /\ DOMAIN pair.partner = 1..Len(pair.partner)
  BY PairFacts
<1>2. CodeEvents(pair.partner)[i] = InstEvent(pair.partner[i]) /\ pair.partner[i] \in Instructions
  BY <1>1, CodeEventAt, InstAt
<1>3. CASE i \in Range(pair.accesses)
  <2>1. Allowed(pair.partner[i])
    BY <1>3 DEF PartnerKept
  <2>2. InstEvent(pair.partner[i]) \in LoadedEvents \cup {{"W"}}
    BY <1>2, <2>1, AccessSeen
  <2>3. QED
    BY <1>2, <2>2, LoadedEventFacts
<1>4. CASE i \notin Range(pair.accesses)
  <2>1. Plainly(pair.partner[i]) \/ ExactBarrier(pair.partner[i])
    BY <1>1, <1>4 DEF ExactBarriers
  <2>2. ExactBarrier(pair.partner[i]) \/ pair.partner[i].op \in {"load", "store"}
    BY <2>1 DEF Plainly
  <2>3. QED
    BY <1>2, <2>2, SeenMarks
<1>5. QED
  BY <1>3, <1>4

(* What P1 keeps of two of its reads is what the code keeps.                *)
LEMMA ReadsKeptAlike ==
  ASSUME pair \in Inputs, objs = Registered, order = Hoisted, PartnerKept, ExactBarriers, p1 \in Seq(P1Lines),
         NEW place \in [1..Len(order) -> 1..Len(p1)], IsPlacing(place, Len(order)),
         NEW v \in Loaded, NEW w \in Loaded, CodeReadAt(v) # 0, CodeReadAt(w) # 0
  PROVE  <<ReadAt(v), ReadAt(w)>> \in Kept(Events(p1), {})
           <=> <<CodeReadAt(v), CodeReadAt(w)>> \in Kept(CodeEvents(pair.partner), {})
<1> DEFINE n == Len(order)
           e == Events(p1)
           c == CodeEvents(pair.partner)
           M == Len(p1)
           N == Len(pair.partner)
<1>1. PICK a \in 1..n : ReadAt(v) = place[a] /\ CodeReadAt(v) = order[a] /\ ~IsStore(Access(a))
  BY ReadsPlaced
<1>2. PICK b \in 1..n : ReadAt(w) = place[b] /\ CodeReadAt(w) = order[b] /\ ~IsStore(Access(b))
  BY ReadsPlaced
<1> DEFINE i == place[a]
           j == place[b]
           x == order[a]
           y == order[b]
<1>3. n \in Nat /\ order \in [1..n -> Nat] /\ Rising(order, n) /\ x \in 1..N /\ y \in 1..N
  BY OrderFacts
<1>4. /\ place \in [1..n -> Nat] /\ Rising(place, n) /\ M \in Nat /\ DOMAIN e = 1..M
      /\ i \in 1..M /\ j \in 1..M
      /\ \A k \in 1..M : e[k] = LineEvent(p1[k])
  BY <1>3, PlacingFacts
<1>5. N \in Nat /\ DOMAIN c = 1..N
  <2>1. pair.partner \in Seq(Instructions)
    BY PairFacts
  <2>2. QED
    BY <2>1, CodeEventAt
<1>6. e[i] = c[x] /\ e[i] \in LoadedEvents
  BY <1>1, PlacedEvent
<1>7. e[j] = c[y] /\ e[j] \in LoadedEvents
  BY <1>2, PlacedEvent
<1>8. e[i] \cap {"R", "W"} # {} /\ e[j] \cap {"R", "W"} # {}
  BY <1>6, <1>7, LoadedEventFacts
<1>9. MarksBetween(e, i, j) = MarksBetween(c, x, y)
  BY PlacedMarks
<1>10. i < j <=> x < y
  <2>1. CASE a < b
    BY <1>3, <1>4, <2>1 DEF Rising
  <2>2. CASE a = b
    BY <1>3, <1>4, <2>2
  <2>3. CASE b < a
    <3>1. i \in Nat /\ j \in Nat /\ x \in Nat /\ y \in Nat
      BY <1>3, <1>4, <1>5
    <3>2. j < i /\ y < x
      BY <2>3, <1>3, <1>4 DEF Rising
    <3>3. QED
      BY <3>1, <3>2
  <2>4. QED
    BY <1>3, <2>1, <2>2, <2>3
<1>11. \A k \in 1..M : Inner(e[k])
  <2> TAKE k \in 1..M
  <2>1. p1[k] \in P1Lines
    OBVIOUS
  <2>2. e[k] = LineEvent(p1[k])
    BY <1>4
  <2> HIDE DEF e, Inner, LineEvent
  <2>3. QED
    BY <2>1, <2>2, LineInner
<1>12. \A k \in 1..N : Inner(c[k])
  BY PartnerInner
<1> HIDE DEF e, c, M, N, i, j, x, y
<1>13. <<i, j>> \in Kept(e, {}) <=> KeptDirectly(e, i, j)
  <2>1. \A k \in Between2(i, j) : k \in 1..M
    BY <1>4 DEF Between2
  <2>2. \A k \in Between2(i, j) : Inner(e[k])
    BY <1>11, <2>1
  <2>3. "L" \notin e[i]
    BY <1>6 DEF LoadedEvents
  <2>4. QED
    BY <1>4, <1>8, <2>2, <2>3, KeptIsDirect
<1>14. <<x, y>> \in Kept(c, {}) <=> KeptDirectly(c, x, y)
  <2>1. \A k \in Between2(x, y) : k \in 1..N
    BY <1>3, <1>5 DEF Between2
  <2>2. \A k \in Between2(x, y) : Inner(c[k])
    BY <1>12, <2>1
  <2>3. c[x] \cap {"R", "W"} # {} /\ c[y] \cap {"R", "W"} # {} /\ "L" \notin c[x]
    BY <1>6, <1>7, <1>8 DEF LoadedEvents
  <2>4. QED
    BY <1>3, <1>5, <2>2, <2>3, KeptIsDirect
<1>15. KeptDirectly(e, i, j) <=> i < j /\ Ordering(e[i], MarksBetween(e, i, j), e[j])
  BY DirectByMarks
<1>16. KeptDirectly(c, x, y) <=> x < y /\ Ordering(c[x], MarksBetween(c, x, y), c[y])
  BY DirectByMarks
<1>17. <<i, j>> \in Kept(e, {}) <=> <<x, y>> \in Kept(c, {})
  BY <1>6, <1>7, <1>9, <1>10, <1>13, <1>14, <1>15, <1>16
<1>18. QED
  BY <1>1, <1>2, <1>17 DEF e, c, i, j, x, y

(* What is behind ExactWhenKept.                                            *)
LEMMA PlacedExact == TestInv /\ Placed => ExactWhenKept
<1> SUFFICES ASSUME TestInv, Placed, IsMP, ExactBarriers, AnchorKept, AccessesKept
             PROVE  /\ TestForbids => CodeForbids
                    /\ NoDependency => (CodeForbids => TestForbids)
  BY DEF ExactWhenKept
<1>1. /\ pair \in Inputs /\ objs = Registered /\ order = Hoisted /\ p0 = AnchorThread(pair)
      /\ p1 \in Seq(P1Lines) /\ clause = Clause /\ clause # None /\ idx \notin DOMAIN order
      /\ order \in Seq(DOMAIN pair.partner) /\ idx \in 1..(Len(order) + 1)
  BY DEF TestInv, TestTypeOK, TestStages, IsMP
<1>2. idx - 1 = Len(order)
  BY <1>1
<1>3. PICK place \in [1..Len(order) -> 1..Len(p1)] : IsPlacing(place, Len(order))
  BY <1>2 DEF Placed
<1>4. /\ clause.payload # {} /\ clause.sync \in Loaded \cap P0Written
      /\ clause.payload = (Loaded \cap P0Written) \ {clause.sync}
  BY <1>1, ClausePublished DEF IsMP
<1>5. PartnerKept
  <2>1. \A i \in Range(pair.accesses) : findInstByIR(pair.partner, i) = i
    BY DEF AccessesKept
  <2>2. \A i \in Range(pair.accesses) : Allowed(pair.partner[i])
    BY DEF AccessesKept, Allowed
  <2>3. \A i, j \in DOMAIN order : i < j => order[i] < order[j]
    BY DEF AccessesKept
  <2>4. QED
    BY <2>1, <2>2, <2>3 DEF PartnerKept
<1>6. Before = pair.before /\ (pair.after # 0 => After = pair.after)
  BY DEF AccessesKept, Before, After
<1> DEFINE s == clause.sync
           c == CodeEvents(pair.code)
           d == CodeEvents(pair.partner)
<1>7. Len(pair.code) \in Nat /\ DOMAIN c = 1..Len(pair.code) /\ Len(pair.partner) \in Nat /\ DOMAIN d = 1..Len(pair.partner)
  <2>1. pair.code \in Seq(Instructions) /\ pair.partner \in Seq(Instructions)
    BY <1>1, PairFacts
  <2>2. QED
    BY <2>1, CodeEventAt
<1>8. ASSUME NEW v \in clause.payload
      PROVE  /\ <<WriteAt(v), WriteAt(s)>> \in Kept(Events(p0), {})
                   => <<CodeWriteAt(v), CodeWriteAt(s)>> \in Kept(c, pair.depends)
             /\ <<ReadAt(s), ReadAt(v)>> \in Kept(Events(p1), {})
                   => <<CodeReadAt(s), CodeReadAt(v)>> \in Kept(d, pair.partnerDepends)
             /\ (NoDependency /\ <<CodeWriteAt(v), CodeWriteAt(s)>> \in Kept(c, pair.depends))
                   => <<WriteAt(v), WriteAt(s)>> \in Kept(Events(p0), {})
             /\ (NoDependency /\ <<CodeReadAt(s), CodeReadAt(v)>> \in Kept(d, pair.partnerDepends))
                   => <<ReadAt(s), ReadAt(v)>> \in Kept(Events(p1), {})
  <2>1. v \in Loaded /\ v \in P0Written /\ v # s /\ s \in Loaded /\ s \in P0Written
    BY <1>4
  <2>2. CodeReadAt(s) # 0 /\ CodeReadAt(s) < CodeReadAt(v)
    BY DEF AccessesKept
  <2>3. CodeReadAt(v) # 0
    <3>1. \A u : CodeReadAt(u) \in Nat
      <4> TAKE u
      <4> DEFINE S == {i \in Range(pair.accesses) : pair.partner[i].obj = objs[u]}
      <4>1. S \subseteq 1..Len(pair.partner) /\ Len(pair.partner) \in Nat
        BY <1>1, <1>5, OrderFacts, PairFacts
      <4>2. CodeReadAt(u) = LastOf(S)
        BY DEF CodeReadAt
      <4> HIDE DEF S
      <4>3. CodeReadAt(u) = 0 \/ CodeReadAt(u) \in S
        BY <4>1, <4>2, LastOfFacts
      <4>4. \A i \in S : i \in Nat
        <5>1. \A N \in Nat : \A i \in 1..N : i \in Nat
          OBVIOUS
        <5>2. QED
          BY <4>1, <5>1
      <4>5. 0 \in Nat
        OBVIOUS
      <4>6. QED
        BY <4>3, <4>4, <4>5, Zenon
    <3>2. CodeReadAt(s) \in Nat /\ CodeReadAt(v) \in Nat
      BY <3>1
    <3> HIDE DEF s
    <3>3. CodeReadAt(s) # 0 /\ CodeReadAt(s) < CodeReadAt(v)
      BY <2>2
    <3>4. QED
      BY <3>2, <3>3
  <2> HIDE DEF s
  <2>4. <<WriteAt(v), WriteAt(s)>> \in Kept(Events(p0), {})
          <=> <<CodeWriteAt(v), CodeWriteAt(s)>> \in Kept(c, {})
    BY <1>1, <1>6, <2>1, WritesKeptAlike
  <2>5. <<ReadAt(s), ReadAt(v)>> \in Kept(Events(p1), {})
          <=> <<CodeReadAt(s), CodeReadAt(v)>> \in Kept(d, {})
    BY <1>1, <1>3, <1>5, <2>1, <2>2, <2>3, ReadsKeptAlike DEF s
  <2>6. \/ CodeWriteAt(v) = pair.before /\ CodeWriteAt(s) = Flag
        \/ ~(CodeWriteAt(v) < CodeWriteAt(s))
    <3>1. /\ pair.before \in Nat /\ Flag \in Nat /\ pair.before < Flag
          /\ \/ CodeWriteAt(v) = pair.before /\ CodeWriteAt(s) = Flag
             \/ CodeWriteAt(s) = pair.before /\ CodeWriteAt(v) = Flag
      <4>1. /\ pair.before # 0 /\ pair.before < Flag
            /\ \/ CodeWriteAt(v) = pair.before /\ CodeWriteAt(s) = Flag
               \/ CodeWriteAt(s) = pair.before /\ CodeWriteAt(v) = Flag
        BY <1>1, <1>6, <2>1, WrittenAtSides
      <4>2. pair.before \in 0..Len(pair.code) /\ pair.after \in 0..Len(pair.code) /\ Len(pair.code) \in Nat
        BY <1>1, PairFacts
      <4>3. pair.at \in 1..Len(pair.code)
        BY <1>1, <4>1, Sides
      <4>4. QED
        BY <4>1, <4>2, <4>3 DEF Flag
    <3> DEFINE F == Flag
    <3> HIDE DEF F
    <3>2. /\ pair.before \in Nat /\ F \in Nat /\ pair.before < F
          /\ \/ CodeWriteAt(v) = pair.before /\ CodeWriteAt(s) = F
             \/ CodeWriteAt(s) = pair.before /\ CodeWriteAt(v) = F
      BY <3>1 DEF F
    <3>3. QED
      BY <3>2 DEF F
  <2> DEFINE f == CodeWriteAt(v)
             g == CodeWriteAt(s)
             h == CodeReadAt(s)
             k == CodeReadAt(v)
  <2>7. /\ NoDependency => Undepended(pair.partnerDepends, h, k)
        /\ NoDependency /\ f < g => Undepended(pair.depends, f, g)
    BY <2>6 DEF NoDependency, s
  <2> HIDE DEF c, d, f, g, h, k
  <2>8. /\ <<f, g>> \in Kept(c, {}) => <<f, g>> \in Kept(c, pair.depends)
        /\ <<h, k>> \in Kept(d, {}) => <<h, k>> \in Kept(d, pair.partnerDepends)
    BY KeptMonotone
  <2>9. <<f, g>> \in Kept(c, pair.depends) => f < g
    BY <1>7, KeptInOrder
  <2>10. NoDependency /\ <<f, g>> \in Kept(c, pair.depends) => <<f, g>> \in Kept(c, {})
    BY <1>7, <2>7, <2>9, KeptUndepended
  <2>11. NoDependency /\ <<h, k>> \in Kept(d, pair.partnerDepends) => <<h, k>> \in Kept(d, {})
    BY <1>7, <2>7, KeptUndepended
  <2>12. QED
    BY <2>4, <2>5, <2>8, <2>10, <2>11 DEF f, g, h, k
<1>9. TestForbids => CodeForbids
  BY <1>8, Zenon DEF TestForbids, CodeForbids
<1>10. NoDependency => (CodeForbids => TestForbids)
  BY <1>8, Zenon DEF TestForbids, CodeForbids
<1>11. QED
  BY <1>9, <1>10

(* The verdict on a test is the verdict on the code it was made from,       *)
(* whenever nothing of its ordering was lost on the way: an outcome the     *)
(* test forbids is forbidden for the code, dependent or not, and one it     *)
(* allows is allowed where no dependency orders the accesses.  Whatever the *)
(* pair, however long the functions and however many objects they share.    *)
THEOREM OrderingExact == VerifierSpec => []ExactWhenKept
<1>1. VerifierInit => TestInv /\ Placed
  BY TestInvInit, PlacedInit DEF VerifierInit
<1>2. [VerifierNext]_verifierVars => [TestNext]_testVars
  BY DEF VerifierNext, Transpile, Verify, verifierVars, testVars
<1>3. TestInv /\ Placed /\ [VerifierNext]_verifierVars => TestInv' /\ Placed'
  BY <1>2, TestInvStep, PlacedStep
<1>4. TestInv /\ Placed => ExactWhenKept
  BY PlacedExact
<1>5. QED
  BY <1>1, <1>3, <1>4, PTL DEF VerifierSpec

==============================================================================

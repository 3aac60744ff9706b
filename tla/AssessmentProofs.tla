-------------------------- MODULE AssessmentProofs --------------------------
(***************************************************************************)
(* Theorems of Assessment, for any number of cases and of repetitions and  *)
(* any number of hard failures in a run.                                   *)
(*                                                                         *)
(* The records are a grid, row after row: the invariant RecordsInv says    *)
(* where each of them stands.  From there the three properties are         *)
(* counting: the groups that pass^k counts are rows of the grid, the       *)
(* successes are places in it, and HardFailures is a sum over it.          *)
(***************************************************************************)
EXTENDS Assessment, TLAPS, FiniteSetTheorems, FunctionTheorems, SequenceTheorems,
        WellFoundedInduction

(* Of the numbers in a set one is the smallest.  This is how the proofs    *)
(* below argue over the length of a sequence: a smallest counterexample    *)
(* has one before it that is none.                                         *)
LEMMA LeastNumber == ASSUME NEW T \in SUBSET Nat, T # {}
                     PROVE  \E n \in T : \A m \in T : n <= m
<1> DEFINE R == {ss \in Nat \X Nat : ss[1] < ss[2]}
<1>1. IsWellFoundedOn(R, Nat)
  BY NatLessThanWellFounded DEF OpToRel
<1>2. PICK n \in T : \A m \in T : ~ (<<m, n>> \in R)
  <2> HIDE DEF R
  <2> QED
    BY <1>1, WFMin
<1>3. ASSUME NEW m \in T PROVE n <= m
  <2>1. <<m, n>> \in Nat \X Nat /\ ~ (<<m, n>> \in R)
    BY <1>2
  <2> QED
    BY <2>1
<1> QED
  BY <1>3


(* Max, of the indices that FoldLeft has left, is the last of them. *)
LEMMA GreatestNumber ==
    ASSUME NEW n \in Nat, NEW S \in SUBSET (1..n), S # {}
    PROVE  Max(S) \in S /\ \A x \in S : x <= Max(S)
<1> DEFINE T == {m \in Nat : \E x \in S : m = n - x}
<1>1. T \in SUBSET Nat /\ T # {}
  <2>1. PICK x : x \in S
    OBVIOUS
  <2>2. n - x \in Nat
    BY <2>1
  <2>3. n - x \in T
    BY <2>1, <2>2
  <2> QED
    BY <2>3
<1>2. PICK m \in T : \A k \in T : m <= k
  <2> HIDE DEF T
  <2> QED
    BY <1>1, LeastNumber
<1>3. PICK x \in S : m = n - x
  OBVIOUS
<1>4. \A y \in S : x >= y
  BY <1>2, <1>3
<1> QED
  BY <1>4 DEF Max

(* How many there are. *)
LEMMA Counting == ASSUME NEW n \in Nat PROVE IsFiniteSet(1..n) /\ Cardinality(1..n) = n
<1>1. Cardinality(1..n) = IF 1 > n THEN 0 ELSE n - 1 + 1
  BY FS_Interval
<1> QED
  BY <1>1, FS_Interval

LEMMA Remaining ==
    ASSUME NEW S, IsFiniteSet(S), NEW T \in SUBSET S
    PROVE  IsFiniteSet(S \ T) /\ Cardinality(S \ T) = Cardinality(S) - Cardinality(T)
<1>1. S \intersect T = T
  OBVIOUS
<1> QED
  BY <1>1, FS_Difference

LEMMA OneToOne ==
    ASSUME NEW S, NEW T, IsFiniteSet(T), NEW f \in [S -> T], \A x, y \in S : f[x] = f[y] => x = y
    PROVE  IsFiniteSet(S) /\ Cardinality(S) <= Cardinality(T)
<1>1. f \in Injection(S, T)
  BY Fun_IsInj
<1> QED
  BY <1>1, FS_Injection

---------------------------------------------------------------------------
(* The recursion in FoldLeft over the numbers h[1], ..., h[n]. *)
Adds(f, h, n) == f = [S \in SUBSET (1..n) |-> IF S = {} THEN 0 ELSE f[S \ {Max(S)}] + h[Max(S)]]

LEMMA AddsExists == ASSUME NEW h, NEW n \in Nat PROVE \E f : Adds(f, h, n)
<1> DEFINE T == {m \in Nat : ~ \E f : Adds(f, h, m)}
<1> SUFFICES ASSUME T # {} PROVE FALSE
  OBVIOUS
<1>1. PICK m \in T : \A k \in T : m <= k
  <2> HIDE DEF T
  <2>1. T \in SUBSET Nat
    BY DEF T
  <2> QED
    BY <2>1, LeastNumber
<1>2. CASE m = 0
  <2> DEFINE f == [S \in SUBSET (1..0) |-> 0]
  <2>1. SUBSET (1..0) = {{}}
    OBVIOUS
  <2>2. Adds(f, h, 0)
    BY <2>1 DEF Adds
  <2> QED
    BY <1>1, <1>2, <2>2
<1>3. CASE m # 0
  <2>1. m - 1 \in Nat /\ m - 1 \notin T
    BY <1>1, <1>3
  <2>2. PICK f : Adds(f, h, m - 1)
    BY <2>1
  <2> DEFINE g == [S \in SUBSET (1..m) |-> IF m \in S THEN f[S \ {m}] + h[m] ELSE f[S]]
  <2>3. ASSUME NEW S \in SUBSET (1..m)
        PROVE  g[S] = IF S = {} THEN 0 ELSE g[S \ {Max(S)}] + h[Max(S)]
    <3>1. CASE m \in S
      <4>1. Max(S) = m
        <5>1. m \in Nat
          BY <1>1
        <5>2. Max(S) \in S /\ \A x \in S : x <= Max(S)
          BY <3>1, <5>1, GreatestNumber
        <5>3. Max(S) \in 1..m /\ m <= Max(S)
          BY <3>1, <5>2
        <5> QED
          BY <5>1, <5>3
      <4>2. g[S \ {m}] = f[S \ {m}]
        OBVIOUS
      <4> QED
        BY <3>1, <4>1, <4>2
    <3>2. CASE m \notin S
      <4>1. S \in SUBSET (1..(m - 1)) /\ S \ {Max(S)} \in SUBSET (1..m) /\ m \notin S \ {Max(S)}
        <5>1. m \in Nat
          BY <1>1
        <5>2. ASSUME NEW x \in S PROVE x \in 1..(m - 1)
          <6>1. x \in 1..m /\ x # m
            BY <3>2
          <6> QED
            BY <5>1, <6>1
        <5>3. S \subseteq 1..(m - 1)
          BY <5>2
        <5> QED
          BY <3>2, <5>3
      <4>2. g[S] = f[S] /\ g[S \ {Max(S)}] = f[S \ {Max(S)}]
        BY <3>2, <4>1
      <4>3. f[S] = IF S = {} THEN 0 ELSE f[S \ {Max(S)}] + h[Max(S)]
        BY <2>2, <4>1 DEF Adds
      <4> QED
        BY <4>2, <4>3
    <3> QED
      BY <3>1, <3>2
  <2>4. g = [S \in SUBSET (1..m) |-> IF S = {} THEN 0 ELSE g[S \ {Max(S)}] + h[Max(S)]]
    <3> HIDE DEF g
    <3>1. g = [S \in SUBSET (1..m) |-> g[S]]
      BY DEF g
    <3> QED
      BY <2>3, <3>1
  <2> QED
    BY <1>1, <2>4 DEF Adds
<1> QED
  BY <1>2, <1>3

(* The sums of the first k of n natural numbers. *)
Sums(p, h, n) ==
    /\ p \in [0..n -> Nat] /\ p[0] = 0
    /\ \A k \in 1..n : p[k] = p[k-1] + h[k]

LEMMA AddsSums ==
    ASSUME NEW n \in Nat, NEW h \in [1..n -> Nat], NEW f, Adds(f, h, n)
    PROVE  \E p : Sums(p, h, n) /\ p[n] = f[1..n]
<1> DEFINE p == [k \in 0..n |-> f[1..k]]
<1>1. p[0] = 0
  <2>1. {} \in SUBSET (1..n) /\ 1..0 = {}
    OBVIOUS
  <2>2. f[{}] = 0
    BY <2>1 DEF Adds
  <2> QED
    BY <2>1, <2>2
<1>2. ASSUME NEW k \in 1..n PROVE p[k] = p[k-1] + h[k]
  <2>1. 1..k \in SUBSET (1..n) /\ 1..k # {} /\ k \in Nat
    OBVIOUS
  <2>2. Max(1..k) = k
    <3>1. Max(1..k) \in 1..k /\ \A x \in 1..k : x <= Max(1..k)
      BY <2>1, GreatestNumber
    <3>2. k \in 1..k
      OBVIOUS
    <3> QED
      BY <3>1, <3>2
  <2>3. (1..k) \ {k} = 1..(k-1)
    OBVIOUS
  <2>4. f[1..k] = f[(1..k) \ {Max(1..k)}] + h[Max(1..k)]
    BY <2>1 DEF Adds
  <2>5. p[k] = f[1..k] /\ p[k-1] = f[1..(k-1)]
    OBVIOUS
  <2> QED
    BY <2>2, <2>3, <2>4, <2>5
<1>3. p \in [0..n -> Nat]
  <2> DEFINE T == {k \in 0..n : p[k] \notin Nat}
  <2> SUFFICES ASSUME T # {} PROVE FALSE
    OBVIOUS
  <2>1. PICK k \in T : \A j \in T : k <= j
    <3> HIDE DEF T
    <3>1. T \in SUBSET Nat
      BY DEF T
    <3> QED
      BY <3>1, LeastNumber
  <2>2. k \in 0..n /\ p[k] \notin Nat
    OBVIOUS
  <2> HIDE DEF p
  <2>3. k # 0 => p[k-1] \in Nat /\ p[k] = p[k-1] + h[k]
    BY <1>2, <2>1, <2>2
  <2> QED
    BY <1>1, <2>2, <2>3
<1> HIDE DEF p
<1>4. p[n] = f[1..n]
  BY DEF p
<1> QED
  BY <1>1, <1>2, <1>3, <1>4 DEF Sums

(* HardFailures is the last of the sums of what the records report. *)
Hard(recs) == [i \in DOMAIN recs |-> recs[i].hard]

LEMMA HardFailuresSums ==
    ASSUME NEW recs, NEW n \in Nat, DOMAIN recs = 1..n, \A i \in 1..n : recs[i].hard \in Nat
    PROVE  \E p : Sums(p, Hard(recs), n) /\ HardFailures(recs) = p[n]
<1> DEFINE h == Hard(recs)
           c == CHOOSE f : f = [S \in SUBSET (1..n) |-> IF S = {} THEN 0
                                   ELSE f[S \ {Max(S)}] + recs[Max(S)].hard]
<1>1. HardFailures(recs) = c[1..n]
  BY DEF HardFailures, FoldLeft, MapThenFoldSet
<1>2. ASSUME NEW f
      PROVE  Adds(f, h, n)
               <=> f = [S \in SUBSET (1..n) |-> IF S = {} THEN 0
                             ELSE f[S \ {Max(S)}] + recs[Max(S)].hard]
  <2>1. ASSUME NEW S \in SUBSET (1..n)
        PROVE  (IF S = {} THEN 0 ELSE f[S \ {Max(S)}] + h[Max(S)])
             = (IF S = {} THEN 0 ELSE f[S \ {Max(S)}] + recs[Max(S)].hard)
    BY GreatestNumber DEF Hard
  <2> HIDE DEF h
  <2> QED
    BY <2>1 DEF Adds
<1>3. Adds(c, h, n)
  BY <1>2, AddsExists
<1>4. h \in [1..n -> Nat]
  BY DEF Hard
<1> HIDE DEF c, h
<1>5. \E p : Sums(p, h, n) /\ p[n] = c[1..n]
  BY <1>3, <1>4, AddsSums
<1> QED
  BY <1>1, <1>5 DEF h

(* A sum of natural numbers is 0 if, and only if, each of them is; and it  *)
(* is no more than another one that is no less anywhere.                   *)
LEMMA SumsZero ==
    ASSUME NEW n \in Nat, NEW h \in [1..n -> Nat], NEW p, Sums(p, h, n), p[n] = 0
    PROVE  \A i \in 1..n : h[i] = 0
<1> SUFFICES ASSUME NEW i \in 1..n, h[i] # 0 PROVE FALSE
  OBVIOUS
<1> DEFINE T == {k \in i..n : p[k] = 0}
<1>1. T \in SUBSET Nat /\ n \in T
  OBVIOUS
<1>2. PICK k \in T : \A j \in T : k <= j
  <2> HIDE DEF T
  <2> QED
    BY <1>1, LeastNumber
<1>3. k \in 1..n /\ p[k] = 0 /\ i <= k /\ p[k] = p[k-1] + h[k] /\ p[k-1] \in Nat /\ h[k] \in Nat
  BY DEF Sums
<1>4. k # i
  BY <1>3
<1>5. k - 1 \in T
  BY <1>3, <1>4
<1> QED
  BY <1>2, <1>3, <1>5

LEMMA SumsNothing ==
    ASSUME NEW n \in Nat, NEW h, \A i \in 1..n : h[i] = 0, NEW p, Sums(p, h, n)
    PROVE  p[n] = 0
<1> DEFINE T == {k \in 0..n : p[k] # 0}
<1> SUFFICES ASSUME T # {} PROVE FALSE
  <2>1. n \in 0..n
    OBVIOUS
  <2> QED
    BY <2>1
<1>1. T \in SUBSET Nat
  OBVIOUS
<1>2. PICK k \in T : \A j \in T : k <= j
  <2> HIDE DEF T
  <2> QED
    BY <1>1, LeastNumber
<1>3. k \in 1..n /\ p[k] # 0
  BY DEF Sums
<1>4. k - 1 \notin T /\ k - 1 \in 0..n
  BY <1>2, <1>3
<1>5. p[k] = p[k-1] + h[k] /\ h[k] = 0
  BY <1>3 DEF Sums
<1> QED
  BY <1>3, <1>4, <1>5

LEMMA SumsMonotone ==
    ASSUME NEW n \in Nat, NEW h \in [1..n -> Nat], NEW g \in [1..n -> Nat],
           \A i \in 1..n : g[i] <= h[i],
           NEW p, Sums(p, h, n), NEW q, Sums(q, g, n)
    PROVE  q[n] <= p[n]
<1> DEFINE T == {k \in 0..n : ~ (q[k] <= p[k])}
<1> SUFFICES ASSUME T # {} PROVE FALSE
  <2>1. n \in 0..n
    OBVIOUS
  <2> QED
    BY <2>1
<1>1. T \in SUBSET Nat
  OBVIOUS
<1>2. PICK k \in T : \A j \in T : k <= j
  <2> HIDE DEF T
  <2> QED
    BY <1>1, LeastNumber
<1>3. k \in 0..n /\ ~ (q[k] <= p[k])
  OBVIOUS
<1>4. k # 0
  BY <1>3 DEF Sums
<1>5. /\ k - 1 \in 0..n /\ p[k-1] \in Nat /\ q[k-1] \in Nat /\ g[k] \in Nat /\ h[k] \in Nat
      /\ p[k] = p[k-1] + h[k] /\ q[k] = q[k-1] + g[k] /\ g[k] <= h[k]
  BY <1>3, <1>4 DEF Sums
<1>6. k - 1 \notin T
  BY <1>2, <1>3, <1>5
<1> QED
  BY <1>3, <1>5, <1>6

---------------------------------------------------------------------------
(* Where the record of a repetition of a case stands. *)
At(c, r) == (c - 1) * Repetitions + r

Record == [case : 1..Cases, repetition : 1..Repetitions, passed : BOOLEAN, hard : Nat]

(* The records as the loop appends them. *)
Evidence ==
    /\ records \in Seq(Record)
    /\ \A i \in 1..Len(records) :
          /\ i = At(records[i].case, records[i].repetition)
          /\ records[i].passed => records[i].hard = 0

RecordsInv ==
    /\ Evidence /\ Len(records) <= Cases * Repetitions
    /\ IF status = "assessed"
       THEN Complete /\ PassHatKDefined(Outcomes(records), 5) /\ score = VerdictOf(records)
       ELSE score = NoScore

LEMMA SizeType ==
    /\ Cases \in Nat /\ Cases # 0 /\ Repetitions \in Nat /\ Repetitions # 0
    /\ Cases * Repetitions \in Nat
BY AssessmentAssumption

LEMMA DivMod ==
    ASSUME NEW n \in Nat, NEW b \in Nat, b # 0
    PROVE  n = (n \div b) * b + (n % b) /\ n % b \in 0..(b - 1) /\ n \div b \in Nat
OBVIOUS

LEMMA NextRow ==
    ASSUME NEW c \in Nat, NEW d \in Nat, NEW b \in Nat, c < d
    PROVE  c * b + b <= d * b
OBVIOUS

LEMMA NextRecord ==
    ASSUME NEW n \in Nat, n < Cases * Repetitions
    PROVE  /\ (n \div Repetitions) + 1 \in 1..Cases
           /\ (n % Repetitions) + 1 \in 1..Repetitions
           /\ n + 1 = At((n \div Repetitions) + 1, (n % Repetitions) + 1)
<1> DEFINE d == n \div Repetitions
           m == n % Repetitions
<1>1. n = d * Repetitions + m /\ m \in 0..(Repetitions - 1) /\ d \in Nat
  BY SizeType, DivMod
<1> HIDE DEF d, m
<1>2. ASSUME Cases <= d PROVE FALSE
  <2>1. CASE Cases = d
    BY <1>1, <2>1, SizeType
  <2>2. CASE Cases < d
    <3>1. Cases * Repetitions + Repetitions <= d * Repetitions
      BY <1>1, <2>2, SizeType, NextRow
    <3>2. d * Repetitions \in Nat
      BY <1>1, SizeType
    <3> QED
      BY <1>1, <3>1, <3>2, SizeType
  <2> QED
    BY <1>1, <1>2, <2>1, <2>2, SizeType
<1>3. d + 1 \in 1..Cases /\ m + 1 \in 1..Repetitions
  BY <1>1, <1>2, SizeType
<1>4. (d + 1) - 1 = d /\ n + 1 = d * Repetitions + (m + 1)
  <2>1. d * Repetitions \in Nat
    BY <1>1, SizeType
  <2> QED
    BY <1>1, <2>1
<1>5. n + 1 = At(d + 1, m + 1)
  BY <1>4 DEF At
<1> QED
  BY <1>3, <1>5 DEF d, m

(* Two repetitions have different places, and each is within the records. *)
LEMMA AtUnique ==
    ASSUME NEW c \in 1..Cases, NEW d \in 1..Cases,
           NEW r \in 1..Repetitions, NEW q \in 1..Repetitions,
           At(c, r) = At(d, q)
    PROVE  c = d /\ r = q
<1>1. c - 1 \in Nat /\ d - 1 \in Nat /\ Repetitions \in Nat
  BY SizeType
<1>2. (c - 1) * Repetitions \in Nat /\ (d - 1) * Repetitions \in Nat
  BY <1>1
<1>3. (c - 1) * Repetitions + r = (d - 1) * Repetitions + q
  BY DEF At
<1>4. ASSUME c < d PROVE FALSE
  <2>1. (c - 1) * Repetitions + Repetitions <= (d - 1) * Repetitions
    BY <1>1, <1>4, NextRow
  <2> QED
    BY <1>1, <1>2, <1>3, <2>1
<1>5. ASSUME d < c PROVE FALSE
  <2>1. (d - 1) * Repetitions + Repetitions <= (c - 1) * Repetitions
    BY <1>1, <1>5, NextRow
  <2> QED
    BY <1>1, <1>2, <1>3, <2>1
<1>6. c = d
  BY <1>4, <1>5
<1> QED
  BY <1>2, <1>3, <1>6

LEMMA AtRange ==
    ASSUME NEW c \in 1..Cases, NEW r \in 1..Repetitions
    PROVE  At(c, r) \in 1..(Cases * Repetitions)
<1>1. c - 1 \in Nat /\ Cases \in Nat /\ Repetitions \in Nat /\ c - 1 < Cases
  BY SizeType
<1>2. (c - 1) * Repetitions \in Nat /\ Cases * Repetitions \in Nat
  BY <1>1
<1>3. (c - 1) * Repetitions + Repetitions <= Cases * Repetitions
  BY <1>1, NextRow
<1> QED
  BY <1>1, <1>2, <1>3 DEF At

LEMMA RecordsInitial == Init => RecordsInv
<1>1. <<>> \in Seq(Record) /\ Len(<<>>) = 0
  BY EmptySeq
<1> QED
  BY <1>1, SizeType DEF Init, RecordsInv, Evidence

(* The next record stands where its case and repetition say. *)
LEMMA RunReturnsKeepsRecords == RecordsInv /\ RunReturns => RecordsInv'
<1> SUFFICES ASSUME RecordsInv, RunReturns PROVE RecordsInv'
  OBVIOUS
<1>1. /\ records \in Seq(Record) /\ Len(records) \in Nat
      /\ Len(records) <= Cases * Repetitions /\ Len(records) # Cases * Repetitions
      /\ score = NoScore /\ score' = NoScore /\ status = "running"
  BY LenProperties DEF RecordsInv, Evidence, RunReturns, Complete
<1>2. PICK success \in BOOLEAN, hard \in 0..MaxHard :
          IF Consistent(success, hard)
          THEN /\ records' = Append(records, [case |-> NextCase, repetition |-> NextRepetition,
                                              passed |-> success, hard |-> hard])
               /\ UNCHANGED status
          ELSE status' = "raised" /\ UNCHANGED records
  BY DEF RunReturns
<1>3. CASE Consistent(success, hard)
  <2> DEFINE r == [case |-> NextCase, repetition |-> NextRepetition,
                   passed |-> success, hard |-> hard]
  <2>1. Len(records) < Cases * Repetitions
    BY <1>1, SizeType
  <2>2. /\ NextCase \in 1..Cases /\ NextRepetition \in 1..Repetitions
        /\ Len(records) + 1 = At(NextCase, NextRepetition)
    BY <1>1, <2>1, NextRecord DEF NextCase, NextRepetition
  <2>3. hard \in Nat
    BY AssessmentAssumption
  <2>4. r \in Record
    BY <2>2, <2>3 DEF Record
  <2>5. r.passed => r.hard = 0
    BY <1>3, <2>3 DEF Consistent
  <2>6. Len(records) + 1 = At(r.case, r.repetition)
    BY <2>2
  <2> HIDE DEF r
  <2>7. records' = Append(records, r) /\ status' = "running"
    BY <1>1, <1>2, <1>3 DEF r
  <2>8. /\ records' \in Seq(Record) /\ Len(records') = Len(records) + 1
        /\ \A i \in 1..Len(records) : records'[i] = records[i]
        /\ records'[Len(records) + 1] = r
    BY <1>1, <2>4, <2>7, AppendProperties
  <2>9. ASSUME NEW i \in 1..Len(records')
        PROVE  /\ i = At(records'[i].case, records'[i].repetition)
               /\ records'[i].passed => records'[i].hard = 0
    <3>1. CASE i \in 1..Len(records)
      BY <2>8, <3>1 DEF RecordsInv, Evidence
    <3>2. CASE i = Len(records) + 1
      BY <2>5, <2>6, <2>8, <3>2
    <3> QED
      BY <1>1, <2>8, <3>1, <3>2
  <2>10. Len(records') <= Cases * Repetitions
    BY <1>1, <2>1, <2>8, SizeType
  <2> QED
    BY <1>1, <2>7, <2>8, <2>9, <2>10 DEF RecordsInv, Evidence, At
<1>4. CASE ~Consistent(success, hard)
  <2>1. status' = "raised" /\ UNCHANGED records
    BY <1>2, <1>4
  <2> QED
    BY <1>1, <2>1 DEF RecordsInv, Evidence, At
<1> QED
  BY <1>3, <1>4

LEMMA RecordsInductive == RecordsInv /\ [Next]_vars => RecordsInv'
<1> SUFFICES ASSUME RecordsInv, [Next]_vars PROVE RecordsInv'
  OBVIOUS
<1>1. CASE RunReturns
  BY <1>1, RunReturnsKeepsRecords
<1>2. CASE RunRaises
  <2>1. status = "running" /\ status' = "raised" /\ UNCHANGED <<records, score>>
    BY <1>2 DEF RunRaises
  <2> QED
    BY <2>1 DEF RecordsInv, Evidence, At
<1>3. CASE Conclude
  <2>1. status = "running" /\ UNCHANGED records /\ Complete
    BY <1>3 DEF Conclude
  <2>2. CASE Cardinality(modes) = 1 /\ PassHatKDefined(Outcomes(records), 5)
    <3>1. status' = "assessed" /\ score' = VerdictOf(records)
      BY <1>3, <2>2 DEF Conclude
    <3>2. Complete' /\ PassHatKDefined(Outcomes(records'), 5) /\ score' = VerdictOf(records')
      BY <2>1, <2>2, <3>1 DEF Complete
    <3> QED
      BY <2>1, <3>1, <3>2 DEF RecordsInv, Evidence, At
  <2>3. CASE ~ (Cardinality(modes) = 1 /\ PassHatKDefined(Outcomes(records), 5))
    <3>1. status' = "raised" /\ UNCHANGED score
      BY <1>3, <2>3 DEF Conclude
    <3> QED
      BY <2>1, <3>1 DEF RecordsInv, Evidence, At
  <2> QED
    BY <2>2, <2>3
<1>4. CASE UNCHANGED vars
  <2>1. UNCHANGED <<status, records, score>>
    BY <1>4 DEF vars
  <2> QED
    BY <2>1 DEF RecordsInv, Evidence, At, Complete
<1> QED
  BY <1>1, <1>2, <1>3, <1>4 DEF Next, Terminated

---------------------------------------------------------------------------
(* What an assessment measured, in terms of the places of its records. *)
Assessed == Evidence /\ Complete /\ PassHatKDefined(Outcomes(records), 5)

LEMMA RecordAt ==
    ASSUME Assessed, NEW c \in 1..Cases, NEW r \in 1..Repetitions
    PROVE  /\ At(c, r) \in DOMAIN records
           /\ records[At(c, r)].case = c /\ records[At(c, r)].repetition = r
<1>1. At(c, r) \in 1..Len(records) /\ DOMAIN records = 1..Len(records) /\ records \in Seq(Record)
  BY AtRange, LenProperties DEF Assessed, Evidence, Complete
<1> DEFINE x == records[At(c, r)]
<1>2. x \in Record
  BY <1>1, ElementOfSeq
<1>3. At(c, r) = At(x.case, x.repetition)
  BY <1>1 DEF Assessed, Evidence
<1> HIDE DEF x
<1>4. x.case \in 1..Cases /\ x.repetition \in 1..Repetitions
  BY <1>2 DEF Record
<1>5. c = x.case /\ r = x.repetition
  BY <1>3, <1>4, AtUnique
<1> QED
  BY <1>1, <1>5 DEF x

LEMMA RecordIs ==
    ASSUME Assessed, NEW i \in DOMAIN records
    PROVE  /\ records[i] \in Record /\ i = At(records[i].case, records[i].repetition)
           /\ records[i].case \in 1..Cases /\ records[i].repetition \in 1..Repetitions
           /\ records[i].passed \in BOOLEAN /\ records[i].hard \in Nat
           /\ records[i].passed => records[i].hard = 0
<1>1. i \in 1..Len(records) /\ records \in Seq(Record)
  BY LenProperties DEF Assessed, Evidence
<1>2. records[i] \in Record
  BY <1>1, ElementOfSeq
<1> QED
  BY <1>1, <1>2 DEF Assessed, Evidence, Record

LEMMA RecordsDomain ==
    ASSUME Assessed
    PROVE  DOMAIN records = 1..(Cases * Repetitions) /\ Len(records) = Cases * Repetitions
BY LenProperties DEF Assessed, Evidence, Complete

LEMMA OutcomesOf ==
    ASSUME Assessed
    PROVE  /\ \A o \in Outcomes(records) : \E i \in DOMAIN records :
                 o = [case |-> records[i].case, repetition |-> records[i].repetition,
                      passed |-> records[i].passed]
           /\ \A i \in DOMAIN records :
                 [case |-> records[i].case, repetition |-> records[i].repetition,
                  passed |-> records[i].passed] \in Outcomes(records)
BY DEF Outcomes, ToSet

LEMMA GroupsAreCases ==
    ASSUME Assessed
    PROVE  /\ Groups(Outcomes(records)) = 1..Cases
           /\ \A c \in 1..Cases : RepetitionsOf(Outcomes(records), c) = 1..Repetitions
<1>1. ASSUME NEW o \in Outcomes(records)
      PROVE  o.case \in 1..Cases /\ o.repetition \in 1..Repetitions
  BY <1>1, OutcomesOf, RecordIs
<1>2. ASSUME NEW c \in 1..Cases, NEW r \in 1..Repetitions
      PROVE  \E o \in Outcomes(records) : o.case = c /\ o.repetition = r
  <2>1. /\ At(c, r) \in DOMAIN records /\ records[At(c, r)].case = c
        /\ records[At(c, r)].repetition = r
    BY RecordAt
  <2> DEFINE o == [case |-> records[At(c, r)].case, repetition |-> records[At(c, r)].repetition,
                   passed |-> records[At(c, r)].passed]
  <2>2. o \in Outcomes(records)
    BY <2>1, OutcomesOf
  <2>3. o.case = c /\ o.repetition = r
    BY <2>1
  <2> QED
    BY <2>2, <2>3
<1>3. 1 \in 1..Repetitions
  BY SizeType
<1>4. Groups(Outcomes(records)) = 1..Cases
  BY <1>1, <1>2, <1>3 DEF Groups
<1>5. ASSUME NEW c \in 1..Cases
      PROVE  RepetitionsOf(Outcomes(records), c) = 1..Repetitions
  BY <1>1, <1>2 DEF RepetitionsOf
<1> QED
  BY <1>4, <1>5

LEMMA FiveRepetitions == ASSUME Assessed PROVE 5 <= Repetitions
<1>1. 1 \in 1..Cases
  BY SizeType
<1>2. Cardinality(RepetitionsOf(Outcomes(records), 1)) >= 5
  BY <1>1, GroupsAreCases DEF Assessed, PassHatKDefined
<1>3. Cardinality(1..Repetitions) = Repetitions
  BY SizeType, FS_Interval
<1> QED
  BY <1>1, <1>2, <1>3, GroupsAreCases

LEMMA FirstOfInterval ==
    ASSUME NEW n \in Nat, NEW k \in 1..n
    PROVE  FirstK(1..n, k) = 1..k
<1>1. ASSUME NEW r \in 1..n
      PROVE  Cardinality({q \in 1..n : q < r}) < k <=> r <= k
  <2>1. {q \in 1..n : q < r} = 1..(r - 1)
    OBVIOUS
  <2>2. Cardinality(1..(r - 1)) = r - 1
    BY FS_Interval
  <2>3. Cardinality({q \in 1..n : q < r}) = r - 1
    BY <2>1, <2>2
  <2>4. r - 1 < k <=> r <= k
    OBVIOUS
  <2> QED
    BY <2>3, <2>4
<1> QED
  BY <1>1 DEF FirstK

(* pass^k counts the cases whose first k repetitions are all successes. *)
Steady(k) == {c \in 1..Cases : \A r \in 1..k : records[At(c, r)].passed}

LEMMA PassedGroupsAre ==
    ASSUME Assessed, NEW k \in 1..5
    PROVE  PassedGroups(Outcomes(records), k) = Steady(k)
<1>1. k \in 1..Repetitions /\ 1..k \subseteq 1..Repetitions
  BY FiveRepetitions, SizeType
<1>2. FirstK(1..Repetitions, k) = 1..k
  BY <1>1, SizeType, FirstOfInterval
<1>3. ASSUME NEW c \in 1..Cases
      PROVE  (\A o \in Outcomes(records) : (o.case = c /\ o.repetition \in 1..k) => o.passed)
               <=> (\A r \in 1..k : records[At(c, r)].passed)
  <2>1. ASSUME \A o \in Outcomes(records) : (o.case = c /\ o.repetition \in 1..k) => o.passed,
               NEW r \in 1..k
        PROVE  records[At(c, r)].passed
    <3>1. /\ At(c, r) \in DOMAIN records /\ records[At(c, r)].case = c
          /\ records[At(c, r)].repetition = r
      BY <1>1, RecordAt
    <3> DEFINE o == [case |-> records[At(c, r)].case, repetition |-> records[At(c, r)].repetition,
                     passed |-> records[At(c, r)].passed]
    <3>2. o \in Outcomes(records)
      BY <3>1, OutcomesOf
    <3>3. o.case = c /\ o.repetition = r /\ o.passed = records[At(c, r)].passed
      BY <3>1
    <3> HIDE DEF o
    <3> QED
      BY <2>1, <3>2, <3>3
  <2>2. ASSUME \A r \in 1..k : records[At(c, r)].passed,
               NEW o \in Outcomes(records), o.case = c, o.repetition \in 1..k
        PROVE  o.passed
    <3>1. PICK i \in DOMAIN records :
              o = [case |-> records[i].case, repetition |-> records[i].repetition,
                   passed |-> records[i].passed]
      BY OutcomesOf
    <3>2. o.case = records[i].case /\ o.repetition = records[i].repetition
          /\ o.passed = records[i].passed
      BY <3>1
    <3>3. i = At(c, o.repetition)
      BY <2>2, <3>2, RecordIs
    <3> QED
      BY <2>2, <3>2, <3>3
  <2> QED
    BY <2>1, <2>2
<1> QED
  BY <1>2, <1>3, GroupsAreCases DEF PassedGroups, Steady

LEMMA SteadyCounts ==
    ASSUME NEW k \in Nat
    PROVE  /\ IsFiniteSet(Steady(k)) /\ Cardinality(Steady(k)) \in 0..Cases
           /\ Cardinality(Steady(k)) = Cases => Steady(k) = 1..Cases
<1>1. IsFiniteSet(1..Cases) /\ Cardinality(1..Cases) = Cases
  BY SizeType, FS_Interval
<1>2. Steady(k) \in SUBSET (1..Cases)
  BY DEF Steady
<1>3. /\ IsFiniteSet(Steady(k)) /\ Cardinality(Steady(k)) <= Cases
      /\ Cardinality(Steady(k)) = Cases => Steady(k) = 1..Cases
  BY <1>1, <1>2, FS_Subset
<1>4. Cardinality(Steady(k)) \in Nat
  BY <1>3, FS_CardinalityType
<1> QED
  BY <1>3, <1>4, SizeType

LEMMA AssessedIs ==
    ASSUME RecordsInv, status = "assessed"
    PROVE  /\ Assessed
           /\ score.succ = Passed(records) /\ score.hard = HardFailures(records)
           /\ score.p3 = Cardinality(Steady(3)) /\ score.p5 = Cardinality(Steady(5))
<1>1. Assessed /\ score = VerdictOf(records)
  BY DEF RecordsInv, Assessed
<1>2. PassHatK(Outcomes(records), 3) = Cardinality(Steady(3))
  BY <1>1, PassedGroupsAre DEF PassHatK
<1>3. PassHatK(Outcomes(records), 5) = Cardinality(Steady(5))
  BY <1>1, PassedGroupsAre DEF PassHatK
<1> QED
  BY <1>1, <1>2, <1>3 DEF VerdictOf

LEMMA HardFailuresOf ==
    ASSUME Assessed
    PROVE  /\ HardFailures(records) \in Nat
           /\ HardFailures(records) = 0 => \A i \in DOMAIN records : records[i].hard = 0
<1> DEFINE n == Cases * Repetitions
<1>1. n \in Nat /\ DOMAIN records = 1..n /\ \A i \in 1..n : records[i].hard \in Nat
  BY SizeType, RecordsDomain, RecordIs
<1> HIDE DEF n
<1>2. PICK p : Sums(p, Hard(records), n) /\ HardFailures(records) = p[n]
  BY <1>1, HardFailuresSums
<1>3. Hard(records) \in [1..n -> Nat]
  BY <1>1 DEF Hard
<1>4. p[n] \in Nat
  BY <1>1, <1>2 DEF Sums
<1>5. p[n] = 0 => \A i \in 1..n : Hard(records)[i] = 0
  BY <1>1, <1>2, <1>3, SumsZero
<1> QED
  BY <1>1, <1>2, <1>4, <1>5 DEF Hard

(* Whatever the sizes and however many hard failures a run reports. *)
THEOREM GateAlwaysUnanimous == Spec => []GateIsUnanimous
<1>1. RecordsInv => GateIsUnanimous
  <2> SUFFICES ASSUME RecordsInv, status = "assessed", Qualifies(score, score, Cases),
                      NEW i \in DOMAIN records
               PROVE  records[i].hard = 0 /\ (records[i].repetition <= 5 => records[i].passed)
    BY DEF GateIsUnanimous
  <2>1. Assessed /\ score.hard = HardFailures(records) /\ score.p5 = Cardinality(Steady(5))
    BY AssessedIs
  <2>2. score.hard = 0 /\ score.p5 = Cases
    BY DEF Qualifies
  <2>3. records[i].hard = 0
    BY <2>1, <2>2, HardFailuresOf
  <2>4. Steady(5) = 1..Cases
    BY <2>1, <2>2, SteadyCounts
  <2>5. /\ i = At(records[i].case, records[i].repetition)
        /\ records[i].case \in 1..Cases /\ records[i].repetition \in 1..Repetitions
    BY <2>1, RecordIs
  <2>6. records[i].repetition <= 5 => records[i].repetition \in 1..5
    BY <2>5, SizeType
  <2> QED
    BY <2>3, <2>4, <2>5, <2>6 DEF Steady
<1> QED
  BY <1>1, RecordsInitial, RecordsInductive, PTL DEF Spec

---------------------------------------------------------------------------
(* The first difference of the two keys is at the number of successes, or  *)
(* before it, at the hard failures, and always to the better.              *)
LEMMA BetterRanksFirst ==
    ASSUME NEW v, NEW r, v.succ \in Nat, r.succ \in Nat, v.hard \in Nat, r.hard \in Nat,
           r.succ < v.succ, v.hard <= r.hard
    PROVE  IsStrictlyBetter(v, r)
<1> DEFINE a == RankKey(v, FALSE)
           b == RankKey(r, FALSE)
<1>1. /\ a[1] = 0 /\ b[1] \in {0, 1} /\ a[2] = b[2]
      /\ a[3] = Bit(v.hard > 0) /\ b[3] = Bit(r.hard > 0) /\ a[4] = v.hard /\ b[4] = r.hard
      /\ a[5] = -v.succ /\ b[5] = -r.succ
  BY DEF RankKey, Bit
<1>2. ~CoreRegression(v, r)
  BY DEF CoreRegression
<1> HIDE DEF a, b
<1>3. LexLess(a, b)
  <2>1. CASE b[1] = 1
    <3>1. a[1] < b[1] /\ \A j \in 1..(1 - 1) : a[j] = b[j]
      BY <1>1, <2>1
    <3> QED
      BY <3>1 DEF LexLess
  <2>2. CASE b[1] = 0 /\ v.hard = 0 /\ r.hard > 0
    <3>1. a[3] < b[3]
      BY <1>1, <2>2 DEF Bit
    <3>2. \A j \in 1..(3 - 1) : a[j] = b[j]
      BY <1>1, <2>2
    <3>3. 3 \in 1..7
      OBVIOUS
    <3> QED
      BY <3>1, <3>2, <3>3 DEF LexLess
  <2>3. CASE b[1] = 0 /\ (v.hard > 0 <=> r.hard > 0) /\ v.hard < r.hard
    <3>1. a[4] < b[4]
      BY <1>1, <2>3
    <3>2. a[3] = b[3]
      BY <1>1, <2>3
    <3>3. \A j \in 1..(4 - 1) : a[j] = b[j]
      BY <1>1, <2>3, <3>2
    <3>4. 4 \in 1..7
      OBVIOUS
    <3> QED
      BY <3>1, <3>3, <3>4 DEF LexLess
  <2>4. CASE b[1] = 0 /\ v.hard = r.hard
    <3>1. a[5] < b[5]
      BY <1>1
    <3>2. a[3] = b[3] /\ a[4] = b[4]
      BY <1>1, <2>4
    <3>3. \A j \in 1..(5 - 1) : a[j] = b[j]
      BY <1>1, <2>4, <3>2
    <3>4. 5 \in 1..7
      OBVIOUS
    <3> QED
      BY <3>1, <3>3, <3>4 DEF LexLess
  <2> QED
    BY <1>1, <2>1, <2>2, <2>3, <2>4
<1> QED
  BY <1>2, <1>3 DEF IsStrictlyBetter, a, b

LEMMA PassedCounts ==
    ASSUME Assessed
    PROVE  /\ IsFiniteSet({i \in DOMAIN records : records[i].passed})
           /\ Passed(records) \in 0..(Cases * Repetitions)
           /\ Passed(records) = Cases * Repetitions => \A i \in DOMAIN records : records[i].passed
<1> DEFINE good == {i \in DOMAIN records : records[i].passed}
           n == Cases * Repetitions
<1>1. n \in Nat /\ DOMAIN records = 1..n
  BY SizeType, RecordsDomain
<1>2. good \in SUBSET (1..n)
  BY <1>1
<1> HIDE DEF n
<1>3. IsFiniteSet(1..n) /\ Cardinality(1..n) = n
  BY <1>1, FS_Interval
<1>4. Passed(records) = Cardinality(good)
  BY DEF Passed
<1> HIDE DEF good
<1>5. IsFiniteSet(good) /\ Cardinality(good) <= n /\ (Cardinality(good) = n => good = 1..n)
  BY <1>2, <1>3, FS_Subset
<1>6. Cardinality(good) \in Nat
  BY <1>5, FS_CardinalityType
<1> QED
  BY <1>1, <1>4, <1>5, <1>6 DEF good, n

LEMMA RepairIs ==
    ASSUME Assessed, NEW i \in DOMAIN records
    PROVE  /\ DOMAIN Repaired(i) = DOMAIN records
           /\ \A j \in DOMAIN records :
                 /\ Repaired(i)[j].passed = (j = i \/ records[j].passed)
                 /\ Repaired(i)[j].hard = IF j = i THEN 0 ELSE records[j].hard
<1>1. \A j \in DOMAIN records : records[j] \in Record
  BY RecordIs
<1> QED
  BY <1>1 DEF Repaired, Record

(* However many other runs failed, and whatever they failed with. *)
THEOREM MoreSuccessAlwaysBetter == Spec => []MoreSuccessIsBetter
<1>1. RecordsInv => MoreSuccessIsBetter
  <2> SUFFICES ASSUME RecordsInv, status = "assessed", NEW i \in DOMAIN records, ~records[i].passed
               PROVE  IsStrictlyBetter(VerdictOf(Repaired(i)), score)
    BY DEF MoreSuccessIsBetter
  <2> DEFINE n == Cases * Repetitions
             good == {j \in DOMAIN records : records[j].passed}
             fixed == Repaired(i)
             v == VerdictOf(fixed)
  <2>1. Assessed /\ score.succ = Passed(records) /\ score.hard = HardFailures(records)
    BY AssessedIs
  <2>2. n \in Nat /\ DOMAIN records = 1..n /\ \A j \in 1..n : records[j].hard \in Nat
    BY <2>1, SizeType, RecordsDomain, RecordIs
  <2>3. /\ DOMAIN fixed = DOMAIN records
        /\ \A j \in DOMAIN records :
              /\ fixed[j].passed = (j = i \/ records[j].passed)
              /\ fixed[j].hard = IF j = i THEN 0 ELSE records[j].hard
    BY <2>1, RepairIs
  <2>4. v.succ = Passed(fixed) /\ v.hard = HardFailures(fixed)
    BY DEF VerdictOf
  <2> HIDE DEF n, fixed
  <2>5. Passed(fixed) = Passed(records) + 1 /\ Passed(records) \in Nat
    <3>1. {j \in DOMAIN fixed : fixed[j].passed} = good \union {i} /\ i \notin good
      BY <2>3
    <3>2. IsFiniteSet(good) /\ Passed(records) \in Nat /\ Passed(records) = Cardinality(good)
      BY <2>1, PassedCounts DEF Passed
    <3> HIDE DEF good
    <3>3. Cardinality(good \union {i}) = Cardinality(good) + 1
      BY <3>1, <3>2, FS_AddElement
    <3> QED
      BY <3>1, <3>2, <3>3 DEF Passed
  <2>6. HardFailures(fixed) <= HardFailures(records) /\ HardFailures(fixed) \in Nat
    <3>1. PICK p : Sums(p, Hard(records), n) /\ HardFailures(records) = p[n]
      BY <2>2, HardFailuresSums
    <3>2. DOMAIN fixed = 1..n /\ \A j \in 1..n : fixed[j].hard \in Nat
      BY <2>2, <2>3
    <3>3. PICK q : Sums(q, Hard(fixed), n) /\ HardFailures(fixed) = q[n]
      BY <2>2, <3>2, HardFailuresSums
    <3>4. Hard(records) \in [1..n -> Nat]
      BY <2>2 DEF Hard
    <3>5. Hard(fixed) \in [1..n -> Nat]
      BY <3>2 DEF Hard
    <3>6. \A j \in 1..n : Hard(fixed)[j] <= Hard(records)[j]
      BY <2>2, <2>3, <3>2 DEF Hard
    <3>7. q[n] <= p[n]
      BY <2>2, <3>1, <3>3, <3>4, <3>5, <3>6, SumsMonotone
    <3>8. q[n] \in Nat
      BY <2>2, <3>3 DEF Sums
    <3> QED
      BY <3>1, <3>3, <3>7, <3>8
  <2>7. HardFailures(records) \in Nat
    BY <2>1, HardFailuresOf
  <2> HIDE DEF v
  <2>8. /\ v.succ \in Nat /\ score.succ \in Nat /\ v.hard \in Nat /\ score.hard \in Nat
        /\ score.succ < v.succ /\ v.hard <= score.hard
    BY <2>1, <2>4, <2>5, <2>6, <2>7
  <2>9. IsStrictlyBetter(v, score)
    BY <2>8, BetterRanksFirst
  <2> QED
    BY <2>9 DEF v, fixed
<1> QED
  BY <1>1, RecordsInitial, RecordsInductive, PTL DEF Spec

---------------------------------------------------------------------------
(* Of a steady case the first repetitions are successes; of any other at   *)
(* least one is none: in both the place tells which case it was.           *)
LEMMA SteadySucceed ==
    ASSUME Assessed
    PROVE  5 * Cardinality(Steady(5)) + 3 * (Cardinality(Steady(3)) - Cardinality(Steady(5)))
             <= Passed(records)
<1> DEFINE good == {i \in DOMAIN records : records[i].passed}
           A == Steady(5) \X (1..5)
           B == (Steady(3) \ Steady(5)) \X (1..3)
           f == [x \in A \union B |-> At(x[1], x[2])]
<1>1. 1..5 \subseteq 1..Repetitions /\ 1..3 \subseteq 1..5
  BY FiveRepetitions, SizeType
<1>2. ASSUME NEW x \in A \union B
      PROVE  x[1] \in 1..Cases /\ x[2] \in 1..Repetitions /\ records[At(x[1], x[2])].passed
  BY <1>1 DEF Steady
<1>3. f \in [A \union B -> good]
  <2>1. ASSUME NEW x \in A \union B PROVE At(x[1], x[2]) \in good
    BY <1>2, RecordAt
  <2> QED
    BY <2>1
<1>4. ASSUME NEW x \in A \union B, NEW y \in A \union B, f[x] = f[y] PROVE x = y
  <2>1. At(x[1], x[2]) = At(y[1], y[2])
    BY <1>4
  <2>2. x[1] = y[1] /\ x[2] = y[2]
    BY <1>2, <2>1, AtUnique
  <2>3. x = <<x[1], x[2]>> /\ y = <<y[1], y[2]>>
    OBVIOUS
  <2> QED
    BY <2>2, <2>3
<1>5. IsFiniteSet(good) /\ Passed(records) = Cardinality(good)
  BY PassedCounts DEF Passed
<1>6. Cardinality(A \union B) <= Cardinality(good)
  <2> HIDE DEF f, A, B, good
  <2> QED
    BY <1>3, <1>4, <1>5, OneToOne
<1>7. /\ IsFiniteSet(Steady(3)) /\ Cardinality(Steady(3)) \in Nat
      /\ IsFiniteSet(Steady(5)) /\ Cardinality(Steady(5)) \in Nat
      /\ Steady(5) \in SUBSET Steady(3)
  <2>1. IsFiniteSet(Steady(3)) /\ Cardinality(Steady(3)) \in Nat
    BY SteadyCounts
  <2>2. IsFiniteSet(Steady(5)) /\ Cardinality(Steady(5)) \in Nat
    BY SteadyCounts
  <2>3. Steady(5) \in SUBSET Steady(3)
    BY DEF Steady
  <2> QED
    BY <2>1, <2>2, <2>3
<1>8. /\ IsFiniteSet(Steady(3) \ Steady(5))
      /\ Cardinality(Steady(3) \ Steady(5)) = Cardinality(Steady(3)) - Cardinality(Steady(5))
  BY <1>7, Remaining
<1>9. /\ IsFiniteSet(1..5) /\ Cardinality(1..5) = 5
      /\ IsFiniteSet(1..3) /\ Cardinality(1..3) = 3
  BY Counting
<1>10. IsFiniteSet(A) /\ Cardinality(A) = Cardinality(Steady(5)) * 5
  BY <1>7, <1>9, FS_Product
<1>11. IsFiniteSet(B) /\ Cardinality(B) = (Cardinality(Steady(3)) - Cardinality(Steady(5))) * 3
  BY <1>8, <1>9, FS_Product
<1>12. A \intersect B = {}
  OBVIOUS
<1> HIDE DEF A, B, good
<1>13. Cardinality(A \union B) = Cardinality(A) + Cardinality(B) - 0
  <2>1. Cardinality(A \union B) = Cardinality(A) + Cardinality(B) - Cardinality(A \intersect B)
    BY <1>10, <1>11, FS_Union
  <2> QED
    BY <1>12, <2>1, FS_EmptySet
<1> QED
  BY <1>5, <1>6, <1>7, <1>10, <1>11, <1>13

LEMMA UnsteadyFail ==
    ASSUME Assessed
    PROVE  Passed(records) <= Cases * Repetitions - (Cases - Cardinality(Steady(5)))
<1> DEFINE n == Cases * Repetitions
           good == {i \in DOMAIN records : records[i].passed}
           bad == (1..n) \ good
           F == (1..Cases) \ Steady(5)
           w == [c \in F |-> CHOOSE r \in 1..5 : ~records[At(c, r)].passed]
           f == [c \in F |-> At(c, w[c])]
<1>1. DOMAIN records = 1..n /\ n \in Nat /\ 1..5 \subseteq 1..Repetitions
  BY SizeType, RecordsDomain, FiveRepetitions
<1>2. ASSUME NEW c \in F
      PROVE  c \in 1..Cases /\ w[c] \in 1..Repetitions /\ ~records[At(c, w[c])].passed
  <2>1. c \in 1..Cases /\ \E r \in 1..5 : ~records[At(c, r)].passed
    BY DEF Steady
  <2>2. w[c] \in 1..5 /\ ~records[At(c, w[c])].passed
    BY <2>1
  <2> QED
    BY <1>1, <2>1, <2>2
<1> HIDE DEF w
<1>3. f \in [F -> bad]
  <2>1. ASSUME NEW c \in F PROVE At(c, w[c]) \in bad
    BY <1>1, <1>2, RecordAt
  <2> QED
    BY <2>1
<1>4. ASSUME NEW c \in F, NEW d \in F, f[c] = f[d] PROVE c = d
  <2>1. At(c, w[c]) = At(d, w[d])
    BY <1>4
  <2> QED
    BY <1>2, <2>1, AtUnique
<1>5. IsFiniteSet(good) /\ Passed(records) = Cardinality(good) /\ Passed(records) \in Nat
  BY PassedCounts DEF Passed
<1>6. IsFiniteSet(1..n) /\ Cardinality(1..n) = n
  BY <1>1, Counting
<1>7. good \in SUBSET (1..n)
  BY <1>1
<1>8. IsFiniteSet(bad) /\ Cardinality(bad) = n - Passed(records)
  <2> HIDE DEF good, n
  <2>1. /\ IsFiniteSet((1..n) \ good)
        /\ Cardinality((1..n) \ good) = Cardinality(1..n) - Cardinality(good)
    BY <1>6, <1>7, Remaining
  <2> QED
    BY <1>5, <1>6, <2>1
<1>9. /\ IsFiniteSet(1..Cases) /\ Cardinality(1..Cases) = Cases
      /\ Steady(5) \in SUBSET (1..Cases)
  BY SizeType, Counting DEF Steady
<1>10. Cardinality(F) = Cases - Cardinality(Steady(5))
  <2>1. Cardinality((1..Cases) \ Steady(5)) = Cardinality(1..Cases) - Cardinality(Steady(5))
    BY <1>9, Remaining
  <2> QED
    BY <1>9, <2>1
<1>11. Cardinality(F) <= Cardinality(bad)
  <2> HIDE DEF f, F, bad
  <2> QED
    BY <1>3, <1>4, <1>8, OneToOne
<1>12. Cardinality(Steady(5)) \in Nat /\ Cases \in Nat
  BY SteadyCounts, SizeType
<1> HIDE DEF n, F, bad
<1>13. Passed(records) <= n - (Cases - Cardinality(Steady(5)))
  BY <1>1, <1>5, <1>8, <1>10, <1>11, <1>12
<1> QED
  BY <1>13 DEF n

LEMMA EachOnce ==
    ASSUME Assessed
    PROVE  Cardinality(Outcomes(records)) = Cases * Repetitions
<1> DEFINE n == Cases * Repetitions
           f == [o \in Outcomes(records) |-> At(o.case, o.repetition)]
           g == [i \in 1..n |-> [case |-> records[i].case, repetition |-> records[i].repetition,
                                 passed |-> records[i].passed]]
<1>1. DOMAIN records = 1..n /\ n \in Nat /\ IsFiniteSet(1..n) /\ Cardinality(1..n) = n
  BY SizeType, RecordsDomain, Counting
<1>2. ASSUME NEW o \in Outcomes(records)
      PROVE  At(o.case, o.repetition) \in 1..n /\ o = g[At(o.case, o.repetition)]
  <2>1. PICK i \in 1..n : o = [case |-> records[i].case, repetition |-> records[i].repetition,
                               passed |-> records[i].passed]
    BY <1>1, OutcomesOf
  <2>2. i = At(o.case, o.repetition)
    BY <1>1, <2>1, RecordIs
  <2> QED
    BY <2>1, <2>2
<1>3. ASSUME NEW i \in 1..n PROVE g[i] \in Outcomes(records) /\ i = At(g[i].case, g[i].repetition)
  BY <1>1, OutcomesOf, RecordIs
<1> HIDE DEF g, n
<1>4. IsFiniteSet(Outcomes(records)) /\ Cardinality(Outcomes(records)) <= n
  <2>1. f \in [Outcomes(records) -> 1..n]
    BY <1>2
  <2>2. \A x, y \in Outcomes(records) : f[x] = f[y] => x = y
    BY <1>2
  <2> HIDE DEF f
  <2> QED
    BY <1>1, <2>1, <2>2, OneToOne
<1>5. n <= Cardinality(Outcomes(records))
  <2>1. g \in [1..n -> Outcomes(records)]
    BY <1>3 DEF g
  <2>2. \A x, y \in 1..n : g[x] = g[y] => x = y
    BY <1>3
  <2> QED
    BY <1>1, <1>4, <2>1, <2>2, OneToOne
<1>6. Cardinality(Outcomes(records)) \in Nat
  BY <1>4, FS_CardinalityType
<1> QED
  BY <1>1, <1>4, <1>5, <1>6 DEF n

(* So the verdicts that the search and the experiment are modelled with    *)
(* are not narrower than what assess returns, at any size.                 *)
THEOREM VerdictAlwaysRealizable == Spec => []VerdictIsRealizable
<1>1. RecordsInv => VerdictIsRealizable
  <2> SUFFICES ASSUME RecordsInv, status = "assessed"
               PROVE  /\ score \in Realizable(Cases, Repetitions)
                      /\ Cardinality(Outcomes(records)) = Cases * Repetitions
    BY DEF VerdictIsRealizable, RecordsInv
  <2> DEFINE n == Cases * Repetitions
  <2>1. /\ Assessed /\ score = VerdictOf(records)
        /\ score.succ = Passed(records) /\ score.hard = HardFailures(records)
        /\ score.p3 = Cardinality(Steady(3)) /\ score.p5 = Cardinality(Steady(5))
    BY AssessedIs DEF RecordsInv
  <2>2. /\ score.succ \in 0..n /\ score.hard \in Nat
        /\ score.p3 \in 0..Cases /\ score.p5 \in 0..Cases
    BY <2>1, PassedCounts, HardFailuresOf, SteadyCounts
  <2>3. score \in [succ : 0..n, p3 : 0..Cases, p5 : 0..Cases, hard : Nat]
    <3>1. score = [succ |-> score.succ, hard |-> score.hard, p3 |-> score.p3, p5 |-> score.p5]
      BY <2>1 DEF VerdictOf
    <3> QED
      BY <2>2, <3>1
  <2>4. score.p5 <= score.p3
    <3>1. Steady(5) \in SUBSET Steady(3)
      BY DEF Steady
    <3>2. IsFiniteSet(Steady(3))
      BY SteadyCounts
    <3> QED
      BY <2>1, <3>1, <3>2, FS_Subset
  <2>5. 5 * score.p5 + 3 * (score.p3 - score.p5) <= score.succ
    BY <2>1, SteadySucceed
  <2>6. score.succ <= n - (Cases - score.p5)
    BY <2>1, UnsteadyFail
  <2>7. score.hard > 0 => score.succ < n
    <3>1. n \in Nat /\ DOMAIN records = 1..n
      BY <2>1, SizeType, RecordsDomain
    <3>2. ASSUME score.succ = n PROVE score.hard = 0
      <4>1. \A i \in DOMAIN records : records[i].hard = 0
        BY <2>1, <3>2, PassedCounts, RecordIs
      <4> HIDE DEF n
      <4>2. PICK p : Sums(p, Hard(records), n) /\ HardFailures(records) = p[n]
        BY <3>1, <4>1, HardFailuresSums
      <4>3. \A i \in 1..n : Hard(records)[i] = 0
        BY <3>1, <4>1 DEF Hard
      <4> QED
        BY <2>1, <3>1, <4>2, <4>3, SumsNothing
    <3> HIDE DEF n
    <3> QED
      BY <2>2, <3>1, <3>2
  <2>8. score \in Realizable(Cases, Repetitions)
    BY <2>3, <2>4, <2>5, <2>6, <2>7 DEF Realizable
  <2> QED
    BY <2>1, <2>8, EachOnce
<1> QED
  BY <1>1, RecordsInitial, RecordsInductive, PTL DEF Spec
=============================================================================

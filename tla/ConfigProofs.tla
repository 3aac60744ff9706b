---------------------------- MODULE ConfigProofs ----------------------------
(***************************************************************************)
(* Theorems of Config, for any references, names and seeds and any bounds. *)
(*                                                                         *)
(* SplitInv follows the references: what is in a split was seen.  PlanInv  *)
(* follows the stages: Planned adds up a product for each stage, Attempts  *)
(* lays the stages out one attempt after the other, and the two amount to  *)
(* the same after every stage that is read.                                *)
(***************************************************************************)
EXTENDS Config, TLAPS, FiniteSetTheorems, FunctionTheorems, SequenceTheorems,
        WellFoundedInduction

(* Every id in the splits was seen, and none is there twice. *)
AllSeen ==
    \A i \in 1..3 : \A a \in 1..Len(caseSplits[i]) : caseSplits[i][a][2] \in seenIds

NoneTwice ==
    \A i \in 1..3, j \in 1..3 : \A a \in 1..Len(caseSplits[i]), b \in 1..Len(caseSplits[j]) :
        caseSplits[i][a][2] = caseSplits[j][b][2] => i = j /\ a = b

SplitInv ==
    /\ split \in 1..3 /\ caseSplits \in [1..3 -> Seq(References)]
    /\ AllSeen /\ NoneTwice

(* A reference that is read has an id that none before it has. *)
LEMMA ReadReferenceKeepsSplits == SplitInv /\ ReadReference => SplitInv'
<1> SUFFICES ASSUME SplitInv, ReadReference PROVE SplitInv'
  OBVIOUS
<1>1. PICK ref \in References :
        \/ Refuse("splits")
        \/ /\ ~Used(ref)
           /\ caseSplits' = [caseSplits EXCEPT ![split] = Append(@, ref)]
           /\ seenIds' = seenIds \union {ref[2]} /\ UNCHANGED split
  BY DEF ReadReference
<1>2. CASE Refuse("splits")
  <2>1. UNCHANGED <<split, caseSplits, seenIds>>
    BY <1>2 DEF Refuse, splitVars
  <2>2. AllSeen'
    BY <2>1 DEF SplitInv, AllSeen
  <2>3. NoneTwice'
    BY <2>1 DEF SplitInv, NoneTwice
  <2> QED
    BY <2>1, <2>2, <2>3 DEF SplitInv
<1>3. CASE /\ ~Used(ref)
           /\ caseSplits' = [caseSplits EXCEPT ![split] = Append(@, ref)]
           /\ seenIds' = seenIds \union {ref[2]} /\ UNCHANGED split
  <2> DEFINE old == caseSplits[split]
  <2>1. split \in 1..3 /\ caseSplits \in [1..3 -> Seq(References)] /\ old \in Seq(References)
    BY DEF SplitInv
  <2>2. ref[2] \notin seenIds
    BY <1>3 DEF Used
  <2>3. /\ caseSplits'[split] = Append(old, ref)
        /\ \A i \in 1..3 : i # split => caseSplits'[i] = caseSplits[i]
    <3>1. caseSplits'[split] = Append(old, ref)
      BY <1>3, <2>1
    <3>2. ASSUME NEW i \in 1..3, i # split PROVE caseSplits'[i] = caseSplits[i]
      BY <1>3, <2>1, <3>2
    <3> QED
      BY <3>1, <3>2
  <2>4. /\ Append(old, ref) \in Seq(References) /\ Len(Append(old, ref)) = Len(old) + 1
        /\ \A a \in 1..Len(old) : Append(old, ref)[a] = old[a]
        /\ Append(old, ref)[Len(old) + 1] = ref /\ Len(old) \in Nat
    BY <2>1, AppendProperties, LenProperties
  <2>5. caseSplits' \in [1..3 -> Seq(References)]
    BY <1>3, <2>1, <2>4
  <2>6. ASSUME NEW i \in 1..3, NEW a \in 1..Len(caseSplits'[i])
        PROVE  \/ a \in 1..Len(caseSplits[i]) /\ caseSplits'[i][a] = caseSplits[i][a]
               \/ i = split /\ a = Len(old) + 1 /\ caseSplits'[i][a] = ref
    <3>1. CASE i = split
      <4>1. caseSplits'[i] = Append(old, ref) /\ a \in 1..Len(Append(old, ref))
        BY <2>3, <3>1
      <4>2. Len(old) \in Nat /\ a \in 1..(Len(old) + 1)
        BY <2>4, <4>1
      <4>3. a \in 1..Len(old) \/ a = Len(old) + 1
        <5> HIDE DEF old
        <5> QED
          BY <4>2
      <4> QED
        BY <2>4, <3>1, <4>1, <4>3
    <3>2. CASE i # split
      BY <2>3, <3>2
    <3> QED
      BY <3>1, <3>2
  <2> HIDE DEF old
  <2>7. AllSeen'
    <3>1. ASSUME NEW i \in 1..3, NEW a \in 1..Len(caseSplits'[i])
          PROVE  caseSplits'[i][a][2] \in seenIds'
      BY <1>3, <2>6 DEF SplitInv, AllSeen
    <3> QED
      BY <3>1 DEF AllSeen
  <2>8. NoneTwice'
    <3>1. ASSUME NEW i \in 1..3, NEW j \in 1..3,
                 NEW a \in 1..Len(caseSplits'[i]), NEW b \in 1..Len(caseSplits'[j]),
                 caseSplits'[i][a][2] = caseSplits'[j][b][2]
          PROVE  i = j /\ a = b
      <4>1. CASE /\ a \in 1..Len(caseSplits[i]) /\ caseSplits'[i][a] = caseSplits[i][a]
                 /\ b \in 1..Len(caseSplits[j]) /\ caseSplits'[j][b] = caseSplits[j][b]
        BY <3>1, <4>1 DEF SplitInv, NoneTwice
      <4>2. CASE /\ a \in 1..Len(caseSplits[i]) /\ caseSplits'[i][a] = caseSplits[i][a]
                 /\ caseSplits'[j][b] = ref
        BY <2>2, <3>1, <4>2 DEF SplitInv, AllSeen
      <4>3. CASE /\ b \in 1..Len(caseSplits[j]) /\ caseSplits'[j][b] = caseSplits[j][b]
                 /\ caseSplits'[i][a] = ref
        BY <2>2, <3>1, <4>3 DEF SplitInv, AllSeen
      <4>4. CASE i = split /\ a = Len(old) + 1 /\ j = split /\ b = Len(old) + 1
        BY <4>4
      <4> QED
        BY <2>6, <4>1, <4>2, <4>3, <4>4
    <3> QED
      BY <3>1 DEF NoneTwice
  <2> QED
    BY <1>3, <2>1, <2>5, <2>7, <2>8 DEF SplitInv
<1> QED
  BY <1>1, <1>2, <1>3

(* Only ReadReference touches the splits. *)
LEMMA SplitInductive == SplitInv /\ [Next]_vars => SplitInv'
<1> SUFFICES ASSUME SplitInv, [Next]_vars PROVE SplitInv'
  OBVIOUS
<1>1. CASE ReadReference
  BY <1>1, ReadReferenceKeepsSplits
<1>2. CASE EndSplit
  <2>1. UNCHANGED <<caseSplits, seenIds>> /\ split' \in {split, split + 1}
    BY <1>2 DEF EndSplit, Refuse, splitVars
  <2>2. split' \in 1..3
    BY <1>2 DEF EndSplit, Refuse, splitVars, SplitInv, Splits
  <2>3. AllSeen'
    BY <2>1 DEF SplitInv, AllSeen
  <2>4. NoneTwice'
    BY <2>1 DEF SplitInv, NoneTwice
  <2> QED
    BY <2>1, <2>2, <2>3, <2>4 DEF SplitInv
<1>3. CASE Other \/ ReadRepetitions \/ ReadStage \/ EndStages \/ ReadTotals \/ Rest \/ UNCHANGED vars
  <2>1. UNCHANGED splitVars
    BY <1>3 DEF Other, ReadRepetitions, ReadStage, EndStages, ReadTotals, Rest, Refuse, vars
  <2>2. AllSeen'
    BY <2>1 DEF SplitInv, AllSeen, splitVars
  <2>3. NoneTwice'
    BY <2>1 DEF SplitInv, NoneTwice, splitVars
  <2> QED
    BY <2>1, <2>2, <2>3 DEF SplitInv, splitVars
<1> QED
  BY <1>1, <1>2, <1>3 DEF Next, Terminated

(* Whatever the references, and whatever kinds share an id. *)
THEOREM HoldoutAlwaysUnseen == Spec => []HoldoutIsUnseen
<1>1. Init => SplitInv
  <2>1. <<>> \in Seq(References) /\ Len(<<>>) = 0
    BY EmptySeq
  <2> QED
    BY <2>1 DEF Init, SplitInv, AllSeen, NoneTwice
<1>2. SplitInv => HoldoutIsUnseen
  <2> SUFFICES ASSUME SplitInv,
                      NEW i \in 1..3, NEW j \in 1..3,
                      NEW a \in DOMAIN caseSplits[i], NEW b \in DOMAIN caseSplits[j],
                      caseSplits[i][a][2] = caseSplits[j][b][2]
               PROVE  i = j /\ a = b
    BY DEF HoldoutIsUnseen
  <2>1. a \in 1..Len(caseSplits[i]) /\ b \in 1..Len(caseSplits[j])
    BY LenProperties DEF SplitInv
  <2> QED
    BY <2>1 DEF SplitInv, NoneTwice
<1> QED
  BY <1>1, <1>2, SplitInductive, PTL DEF Spec

---------------------------------------------------------------------------
(* Of the numbers in a set one is the smallest.  This is how the proofs    *)
(* below argue over the length of a sequence: a smallest counterexample    *)
(* has one before it that is none.                                         *)
LEMMA LeastNumber == ASSUME NEW T \in SUBSET Nat, T # {}
                     PROVE  \E n \in T : \A m \in T : n <= m
<1> DEFINE R == {ss \in Nat \X Nat : ss[1] < ss[2]}
<1>1. IsWellFoundedOn(R, Nat)
  BY NatLessThanWellFounded DEF OpToRel
<1>2. PICK n \in T : \A m \in T : ~ (<<m, n>> \in R)
  <2> HIDE DEF R
  <2> QED
    BY <1>1, WFMin
<1>3. ASSUME NEW m \in T PROVE n <= m
  <2>1. <<m, n>> \in Nat \X Nat /\ ~ (<<m, n>> \in R)
    BY <1>2
  <2> QED
    BY <2>1
<1> QED
  BY <1>3

(* The recursion in FlattenSeq, over the first n sequences. *)
Flattens(f, s, n) == f = [i \in 1..n |-> IF i = 1 THEN s[i] ELSE f[i-1] \o s[i]]

LEMMA FlattensExists == ASSUME NEW s, NEW n \in Nat PROVE \E f : Flattens(f, s, n)
<1> DEFINE T == {m \in Nat : ~ \E f : Flattens(f, s, m)}
<1> SUFFICES ASSUME T # {} PROVE FALSE
  OBVIOUS
<1>1. PICK m \in T : \A k \in T : m <= k
  <2> HIDE DEF T
  <2>1. T \in SUBSET Nat
    BY DEF T
  <2> QED
    BY <2>1, LeastNumber
<1>2. CASE m = 0
  <2>1. Flattens(<<>>, s, 0)
    BY DEF Flattens
  <2> QED
    BY <1>1, <1>2, <2>1
<1>3. CASE m # 0
  <2>1. m - 1 \in Nat /\ m - 1 \notin T
    BY <1>1, <1>3
  <2>2. PICK f : Flattens(f, s, m - 1)
    BY <2>1
  <2> DEFINE g == [i \in 1..m |-> IF i < m THEN f[i]
                                  ELSE IF m = 1 THEN s[m] ELSE f[m-1] \o s[m]]
  <2>3. ASSUME NEW i \in 1..m
        PROVE  g[i] = IF i = 1 THEN s[i] ELSE g[i-1] \o s[i]
    <3>1. CASE i < m
      <4>1. i \in 1..(m-1) /\ g[i] = f[i] /\ (i # 1 => i - 1 \in 1..m /\ g[i-1] = f[i-1])
        BY <3>1
      <4>2. f[i] = IF i = 1 THEN s[i] ELSE f[i-1] \o s[i]
        BY <2>2, <4>1 DEF Flattens
      <4> QED
        BY <4>1, <4>2
    <3>2. CASE i = m
      BY <1>1, <3>2
    <3> QED
      BY <1>1, <3>1, <3>2
  <2>4. g = [i \in 1..m |-> IF i = 1 THEN s[i] ELSE g[i-1] \o s[i]]
    <3> HIDE DEF g
    <3>1. g = [i \in 1..m |-> g[i]]
      BY DEF g
    <3> QED
      BY <2>3, <3>1
  <2> QED
    BY <1>1, <2>4 DEF Flattens
<1> QED
  BY <1>2, <1>3

(* Two such recursions agree for as long as their sequences do. *)
LEMMA FlattensAgree ==
    ASSUME NEW m \in Nat, NEW n \in Nat, m <= n,
           NEW s, NEW t, \A i \in 1..m : s[i] = t[i],
           NEW f, NEW g, Flattens(f, s, m), Flattens(g, t, n)
    PROVE  \A i \in 1..m : f[i] = g[i]
<1> DEFINE T == {i \in 1..m : f[i] # g[i]}
<1> SUFFICES ASSUME T # {} PROVE FALSE
  OBVIOUS
<1>1. PICK i \in T : \A j \in T : i <= j
  <2> HIDE DEF T
  <2>1. T \in SUBSET Nat
    BY DEF T
  <2> QED
    BY <2>1, LeastNumber
<1>2. f[i] = (IF i = 1 THEN s[i] ELSE f[i-1] \o s[i])
  <2>1. i \in 1..m
    BY <1>1
  <2> QED
    BY <2>1 DEF Flattens
<1>3. g[i] = (IF i = 1 THEN t[i] ELSE g[i-1] \o t[i])
  <2>1. i \in 1..n
    BY <1>1
  <2> QED
    BY <2>1 DEF Flattens
<1>4. i # 1 => i - 1 \in 1..m /\ i - 1 \notin T
  BY <1>1
<1> QED
  BY <1>1, <1>2, <1>3, <1>4

LEMMA FlattensStep ==
    ASSUME NEW f, NEW s, NEW n \in Nat, Flattens(f, s, n), NEW i \in 1..n
    PROVE  f[i] = IF i = 1 THEN s[i] ELSE f[i-1] \o s[i]
BY DEF Flattens

LEMMA FlattensLast ==
    ASSUME NEW f, NEW s, NEW n \in Nat, n # 0, Flattens(f, s, n)
    PROVE  f[n] = IF n = 1 THEN s[n] ELSE f[n-1] \o s[n]
<1>1. n \in 1..n
  OBVIOUS
<1> QED
  BY <1>1, FlattensStep

LEMMA FlattenSeqDef ==
    ASSUME NEW Y, NEW s \in Seq(Y), s # <<>>
    PROVE  \E f : /\ Flattens(f, s, Len(s)) /\ FlattenSeq(s) = f[Len(s)]
                  /\ f[Len(s)] = IF Len(s) = 1 THEN s[Len(s)] ELSE f[Len(s)-1] \o s[Len(s)]
<1>1. Len(s) \in Nat /\ Len(s) # 0
  BY EmptySeq, LenProperties
<1> DEFINE c == CHOOSE f : Flattens(f, s, Len(s))
<1>2. Flattens(c, s, Len(s))
  BY <1>1, FlattensExists
<1>3. FlattenSeq(s) = c[Len(s)]
  BY <1>1 DEF FlattenSeq, Flattens
<1> HIDE DEF c
<1>4. c[Len(s)] = IF Len(s) = 1 THEN s[Len(s)] ELSE c[Len(s)-1] \o s[Len(s)]
  BY <1>1, <1>2, FlattensLast
<1> QED
  BY <1>2, <1>3, <1>4

(* Over two sequences of which one is the beginning of the other. *)
Begins(s, u, m) == \A i \in 1..m : s[i] = u[i]

LEMMA FlattensPrefix ==
    ASSUME NEW m \in Nat, NEW n \in Nat, 0 < m, m <= n,
           NEW s, NEW u, Begins(s, u, m),
           NEW f, NEW g, Flattens(f, s, m), Flattens(g, u, n)
    PROVE  g[m] = f[m]
<1>1. m \in 1..m
  OBVIOUS
<1>2. \A i \in 1..m : f[i] = g[i]
  BY FlattensAgree DEF Begins
<1> QED
  BY <1>1, <1>2

LEMMA FlattenSeqPrefix ==
    ASSUME NEW Y, NEW s \in Seq(Y), NEW u \in Seq(Y), s # <<>>, u # <<>>
    PROVE  Len(u) = Len(s) + 1 /\ Begins(s, u, Len(s))
             => FlattenSeq(u) = FlattenSeq(s) \o u[Len(u)]
<1>1. ASSUME Len(u) = Len(s) + 1, Begins(s, u, Len(s))
      PROVE  FlattenSeq(u) = FlattenSeq(s) \o u[Len(u)]
  <2>1. /\ Len(s) \in Nat /\ Len(u) \in Nat /\ 0 < Len(s) /\ Len(s) <= Len(u)
    BY <1>1, EmptySeq, LenProperties
  <2>2. Len(u) # 1 /\ Len(u) - 1 = Len(s)
    BY <1>1, <2>1
  <2>3. PICK f : Flattens(f, s, Len(s)) /\ FlattenSeq(s) = f[Len(s)]
    BY FlattenSeqDef
  <2>4. PICK g : /\ Flattens(g, u, Len(u)) /\ FlattenSeq(u) = g[Len(u)]
                 /\ g[Len(u)] = IF Len(u) = 1 THEN u[Len(u)] ELSE g[Len(u)-1] \o u[Len(u)]
    BY FlattenSeqDef
  <2>5. Begins(s, u, Len(s))
    BY <1>1
  <2>6. g[Len(s)] = f[Len(s)]
    BY <2>1, <2>3, <2>4, <2>5, FlattensPrefix
  <2> QED
    BY <2>2, <2>3, <2>4, <2>6
<1> QED
  BY <1>1

LEMMA FlattenSeqType ==
    ASSUME NEW X, NEW s \in Seq(Seq(X))
    PROVE  FlattenSeq(s) \in Seq(X)
<1>1. CASE s = <<>>
  BY <1>1, EmptySeq DEF FlattenSeq
<1>2. CASE s # <<>>
  <2>1. PICK f : Flattens(f, s, Len(s)) /\ FlattenSeq(s) = f[Len(s)]
    BY <1>2, FlattenSeqDef
  <2> DEFINE T == {i \in 1..Len(s) : f[i] \notin Seq(X)}
  <2>2. Len(s) \in Nat /\ Len(s) # 0 /\ \A i \in 1..Len(s) : s[i] \in Seq(X)
    BY <1>2, EmptySeq, LenProperties, ElementOfSeq
  <2>3. T = {}
    <3> SUFFICES ASSUME T # {} PROVE FALSE
      OBVIOUS
    <3>1. PICK i \in T : \A j \in T : i <= j
      <4> HIDE DEF T
      <4>1. T \in SUBSET Nat
        BY DEF T
      <4> QED
        BY <4>1, LeastNumber
    <3>2. i \in 1..Len(s) /\ f[i] \notin Seq(X)
      OBVIOUS
    <3>3. f[i] = IF i = 1 THEN s[i] ELSE f[i-1] \o s[i]
      BY <2>1, <3>2 DEF Flattens
    <3>4. i # 1 => i - 1 \in 1..Len(s) /\ i - 1 \notin T
      BY <2>2, <3>1, <3>2
    <3>5. i # 1 => f[i-1] \in Seq(X)
      BY <3>4
    <3>6. f[i] \in Seq(X)
      <4>1. i # 1 => f[i-1] \o s[i] \in Seq(X)
        BY <2>2, <3>2, <3>5, ConcatProperties
      <4> QED
        BY <2>2, <3>2, <3>3, <4>1
    <3> QED
      BY <3>2, <3>6
  <2> QED
    BY <2>1, <2>2, <2>3
<1> QED
  BY <1>1, <1>2

LEMMA FlattenSeqAppend ==
    ASSUME NEW X, NEW s \in Seq(Seq(X)), NEW t \in Seq(X)
    PROVE  FlattenSeq(Append(s, t)) = FlattenSeq(s) \o t
<1>1. /\ Append(s, t) \in Seq(Seq(X)) /\ Append(s, t) # <<>>
      /\ Len(Append(s, t)) = Len(s) + 1 /\ Append(s, t)[Len(s) + 1] = t
      /\ \A i \in 1..Len(s) : s[i] = Append(s, t)[i]
  BY AppendProperties
<1>2. CASE s = <<>>
  <2>1. Len(s) = 0 /\ Len(Append(s, t)) = 1
    BY <1>1, <1>2, EmptySeq
  <2>2. FlattenSeq(s) \o t = t
    BY <1>2, <2>1, ConcatEmptySeq DEF FlattenSeq
  <2>3. FlattenSeq(Append(s, t)) = Append(s, t)[1]
    BY <1>1, <2>1, FlattenSeqDef
  <2> QED
    BY <1>1, <2>1, <2>2, <2>3
<1>3. CASE s # <<>>
  <2>1. Begins(s, Append(s, t), Len(s))
    BY <1>1 DEF Begins
  <2>2. FlattenSeq(Append(s, t)) = FlattenSeq(s) \o Append(s, t)[Len(Append(s, t))]
    <3> DEFINE u == Append(s, t)
               Y == Seq(X)
    <3>1. s \in Seq(Y) /\ u \in Seq(Y) /\ u # <<>> /\ Len(u) = Len(s) + 1 /\ Begins(s, u, Len(s))
      BY <1>1, <2>1
    <3> HIDE DEF u, Y
    <3>2. FlattenSeq(u) = FlattenSeq(s) \o u[Len(u)]
      BY <1>3, <3>1, FlattenSeqPrefix
    <3> QED
      BY <3>2 DEF u
  <2> QED
    BY <1>1, <2>2
<1> QED
  BY <1>2, <1>3

---------------------------------------------------------------------------
(* Max, of the indices that FoldLeft has left, is the last of them. *)
LEMMA GreatestNumber ==
    ASSUME NEW n \in Nat, NEW S \in SUBSET (1..n), S # {}
    PROVE  Max(S) \in S /\ \A x \in S : x <= Max(S)
<1> DEFINE T == {m \in Nat : \E x \in S : m = n - x}
<1>1. T \in SUBSET Nat /\ T # {}
  <2>1. PICK x : x \in S
    OBVIOUS
  <2>2. n - x \in Nat
    BY <2>1
  <2>3. n - x \in T
    BY <2>1, <2>2
  <2> QED
    BY <2>3
<1>2. PICK m \in T : \A k \in T : m <= k
  <2> HIDE DEF T
  <2> QED
    BY <1>1, LeastNumber
<1>3. PICK x \in S : m = n - x
  OBVIOUS
<1>4. \A y \in S : x >= y
  BY <1>2, <1>3
<1> QED
  BY <1>4 DEF Max

(* The recursion in FoldLeft over the numbers h[1], ..., h[n]. *)
Adds(f, h, n) == f = [S \in SUBSET (1..n) |-> IF S = {} THEN 0 ELSE f[S \ {Max(S)}] + h[Max(S)]]

LEMMA AddsExists == ASSUME NEW h, NEW n \in Nat PROVE \E f : Adds(f, h, n)
<1> DEFINE T == {m \in Nat : ~ \E f : Adds(f, h, m)}
<1> SUFFICES ASSUME T # {} PROVE FALSE
  OBVIOUS
<1>1. PICK m \in T : \A k \in T : m <= k
  <2> HIDE DEF T
  <2>1. T \in SUBSET Nat
    BY DEF T
  <2> QED
    BY <2>1, LeastNumber
<1>2. CASE m = 0
  <2> DEFINE f == [S \in SUBSET (1..0) |-> 0]
  <2>1. SUBSET (1..0) = {{}}
    OBVIOUS
  <2>2. Adds(f, h, 0)
    BY <2>1 DEF Adds
  <2> QED
    BY <1>1, <1>2, <2>2
<1>3. CASE m # 0
  <2>1. m - 1 \in Nat /\ m - 1 \notin T
    BY <1>1, <1>3
  <2>2. PICK f : Adds(f, h, m - 1)
    BY <2>1
  <2> DEFINE g == [S \in SUBSET (1..m) |-> IF m \in S THEN f[S \ {m}] + h[m] ELSE f[S]]
  <2>3. ASSUME NEW S \in SUBSET (1..m)
        PROVE  g[S] = IF S = {} THEN 0 ELSE g[S \ {Max(S)}] + h[Max(S)]
    <3>1. CASE m \in S
      <4>1. Max(S) = m
        <5>1. m \in Nat
          BY <1>1
        <5>2. Max(S) \in S /\ \A x \in S : x <= Max(S)
          BY <3>1, <5>1, GreatestNumber
        <5>3. Max(S) \in 1..m /\ m <= Max(S)
          BY <3>1, <5>2
        <5> QED
          BY <5>1, <5>3
      <4>2. g[S \ {m}] = f[S \ {m}]
        OBVIOUS
      <4> QED
        BY <3>1, <4>1, <4>2
    <3>2. CASE m \notin S
      <4>1. S \in SUBSET (1..(m - 1)) /\ S \ {Max(S)} \in SUBSET (1..m) /\ m \notin S \ {Max(S)}
        <5>1. m \in Nat
          BY <1>1
        <5>2. ASSUME NEW x \in S PROVE x \in 1..(m - 1)
          <6>1. x \in 1..m /\ x # m
            BY <3>2
          <6> QED
            BY <5>1, <6>1
        <5>3. S \subseteq 1..(m - 1)
          BY <5>2
        <5> QED
          BY <3>2, <5>3
      <4>2. g[S] = f[S] /\ g[S \ {Max(S)}] = f[S \ {Max(S)}]
        BY <3>2, <4>1
      <4>3. f[S] = IF S = {} THEN 0 ELSE f[S \ {Max(S)}] + h[Max(S)]
        BY <2>2, <4>1 DEF Adds
      <4> QED
        BY <4>2, <4>3
    <3> QED
      BY <3>1, <3>2
  <2>4. g = [S \in SUBSET (1..m) |-> IF S = {} THEN 0 ELSE g[S \ {Max(S)}] + h[Max(S)]]
    <3> HIDE DEF g
    <3>1. g = [S \in SUBSET (1..m) |-> g[S]]
      BY DEF g
    <3> QED
      BY <2>3, <3>1
  <2> QED
    BY <1>1, <2>4 DEF Adds
<1> QED
  BY <1>2, <1>3

(* The sums of the first k of n natural numbers. *)
Sums(p, h, n) ==
    /\ p \in [0..n -> Nat] /\ p[0] = 0
    /\ \A k \in 1..n : p[k] = p[k-1] + h[k]

LEMMA AddsSums ==
    ASSUME NEW n \in Nat, NEW h \in [1..n -> Nat], NEW f, Adds(f, h, n)
    PROVE  \E p : Sums(p, h, n) /\ p[n] = f[1..n]
<1> DEFINE p == [k \in 0..n |-> f[1..k]]
<1>1. p[0] = 0
  <2>1. {} \in SUBSET (1..n) /\ 1..0 = {}
    OBVIOUS
  <2>2. f[{}] = 0
    BY <2>1 DEF Adds
  <2> QED
    BY <2>1, <2>2
<1>2. ASSUME NEW k \in 1..n PROVE p[k] = p[k-1] + h[k]
  <2>1. 1..k \in SUBSET (1..n) /\ 1..k # {} /\ k \in Nat
    OBVIOUS
  <2>2. Max(1..k) = k
    <3>1. Max(1..k) \in 1..k /\ \A x \in 1..k : x <= Max(1..k)
      BY <2>1, GreatestNumber
    <3>2. k \in 1..k
      OBVIOUS
    <3> QED
      BY <3>1, <3>2
  <2>3. (1..k) \ {k} = 1..(k-1)
    OBVIOUS
  <2>4. f[1..k] = f[(1..k) \ {Max(1..k)}] + h[Max(1..k)]
    BY <2>1 DEF Adds
  <2>5. p[k] = f[1..k] /\ p[k-1] = f[1..(k-1)]
    OBVIOUS
  <2> QED
    BY <2>2, <2>3, <2>4, <2>5
<1>3. p \in [0..n -> Nat]
  <2> DEFINE T == {k \in 0..n : p[k] \notin Nat}
  <2> SUFFICES ASSUME T # {} PROVE FALSE
    OBVIOUS
  <2>1. PICK k \in T : \A j \in T : k <= j
    <3> HIDE DEF T
    <3>1. T \in SUBSET Nat
      BY DEF T
    <3> QED
      BY <3>1, LeastNumber
  <2>2. k \in 0..n /\ p[k] \notin Nat
    OBVIOUS
  <2> HIDE DEF p
  <2>3. k # 0 => p[k-1] \in Nat /\ p[k] = p[k-1] + h[k]
    BY <1>2, <2>1, <2>2
  <2> QED
    BY <1>1, <2>2, <2>3
<1> HIDE DEF p
<1>4. p[n] = f[1..n]
  BY DEF p
<1> QED
  BY <1>1, <1>2, <1>3, <1>4 DEF Sums


(* Two such sums agree for as long as their numbers do. *)
Agree(h, g, n) == \A i \in 1..n : h[i] = g[i]

LEMMA SumsAgree ==
    ASSUME NEW m \in Nat, NEW n \in Nat, m <= n, NEW h, NEW g, Agree(h, g, m),
           NEW p, Sums(p, h, m), NEW q, Sums(q, g, n)
    PROVE  p[m] = q[m]
<1> DEFINE T == {k \in 0..m : p[k] # q[k]}
<1> SUFFICES ASSUME T # {} PROVE FALSE
  <2>1. m \in 0..m
    OBVIOUS
  <2> QED
    BY <2>1
<1>1. T \in SUBSET Nat
  OBVIOUS
<1>2. PICK k \in T : \A j \in T : k <= j
  <2> HIDE DEF T
  <2> QED
    BY <1>1, LeastNumber
<1>3. k \in 0..m /\ p[k] # q[k]
  OBVIOUS
<1>4. k # 0
  BY <1>3 DEF Sums
<1>5. k \in 1..m /\ k \in 1..n /\ k - 1 \in 0..m
  BY <1>3, <1>4
<1>6. k - 1 \notin T
  BY <1>2, <1>5
<1>7. p[k] = p[k-1] + h[k] /\ q[k] = q[k-1] + g[k] /\ h[k] = g[k]
  BY <1>5 DEF Sums, Agree
<1> QED
  BY <1>3, <1>5, <1>6, <1>7

---------------------------------------------------------------------------
(* The two sums of the plan: what its attempts cost, and what its stages   *)
(* were counted with.                                                      *)
Cost(as) == FoldLeft(LAMBDA sum, a : sum + a.calls, 0, as)

Paid(ss) == FoldLeft(LAMBDA sum, s : sum + s.calls * Len(s.seeds), 0, ss)

Calls(as) == [i \in DOMAIN as |-> as[i].calls]

Prices(ss) == [i \in DOMAIN ss |-> ss[i].calls * Len(ss[i].seeds)]

(* What FoldLeft makes of the attempts is the last of their partial sums. *)
LEMMA CostSums ==
    ASSUME NEW as, NEW n \in Nat, DOMAIN as = 1..n, \A i \in 1..n : as[i].calls \in Nat
    PROVE  \E p : Sums(p, Calls(as), n) /\ Cost(as) = p[n]
<1> DEFINE h == Calls(as)
           c == CHOOSE f : f = [S \in SUBSET (1..n) |-> IF S = {} THEN 0
                                   ELSE f[S \ {Max(S)}] + as[Max(S)].calls]
<1>1. Cost(as) = c[1..n]
  BY DEF Cost, FoldLeft, MapThenFoldSet
<1>2. ASSUME NEW f
      PROVE  Adds(f, h, n)
               <=> f = [S \in SUBSET (1..n) |-> IF S = {} THEN 0
                             ELSE f[S \ {Max(S)}] + as[Max(S)].calls]
  <2>1. ASSUME NEW S \in SUBSET (1..n)
        PROVE  (IF S = {} THEN 0 ELSE f[S \ {Max(S)}] + h[Max(S)])
             = (IF S = {} THEN 0 ELSE f[S \ {Max(S)}] + as[Max(S)].calls)
    BY GreatestNumber DEF Calls
  <2> HIDE DEF h
  <2> QED
    BY <2>1 DEF Adds
<1>3. Adds(c, h, n)
  BY <1>2, AddsExists
<1>4. h \in [1..n -> Nat]
  BY DEF Calls
<1> HIDE DEF c, h
<1>5. \E p : Sums(p, h, n) /\ p[n] = c[1..n]
  BY <1>3, <1>4, AddsSums
<1> QED
  BY <1>1, <1>5 DEF h

(* The same of the stages. *)
LEMMA PaidSums ==
    ASSUME NEW ss, NEW n \in Nat, DOMAIN ss = 1..n,
           \A i \in 1..n : ss[i].calls * Len(ss[i].seeds) \in Nat
    PROVE  \E p : Sums(p, Prices(ss), n) /\ Paid(ss) = p[n]
<1> DEFINE h == Prices(ss)
           c == CHOOSE f : f = [S \in SUBSET (1..n) |-> IF S = {} THEN 0
                                   ELSE f[S \ {Max(S)}] + ss[Max(S)].calls * Len(ss[Max(S)].seeds)]
<1>1. Paid(ss) = c[1..n]
  BY DEF Paid, FoldLeft, MapThenFoldSet
<1>2. ASSUME NEW f
      PROVE  Adds(f, h, n)
               <=> f = [S \in SUBSET (1..n) |-> IF S = {} THEN 0
                             ELSE f[S \ {Max(S)}] + ss[Max(S)].calls * Len(ss[Max(S)].seeds)]
  <2>1. ASSUME NEW S \in SUBSET (1..n)
        PROVE  (IF S = {} THEN 0 ELSE f[S \ {Max(S)}] + h[Max(S)])
             = (IF S = {} THEN 0 ELSE f[S \ {Max(S)}] + ss[Max(S)].calls * Len(ss[Max(S)].seeds))
    BY GreatestNumber DEF Prices
  <2> HIDE DEF h
  <2> QED
    BY <2>1 DEF Adds
<1>3. Adds(c, h, n)
  BY <1>2, AddsExists
<1>4. h \in [1..n -> Nat]
  BY DEF Prices
<1> HIDE DEF c, h
<1>5. \E p : Sums(p, h, n) /\ p[n] = c[1..n]
  BY <1>3, <1>4, AddsSums
<1> QED
  BY <1>1, <1>5 DEF h

Stage == [name : Names, calls : Nat \ {0}, seeds : Seq(Seeds)]

Attempt == [calls : Nat \ {0}, seed : Seeds]

(* One more stage is paid for with its calls, once for each of its seeds. *)
LEMMA PaidAppend ==
    ASSUME NEW ss \in Seq(Stage), NEW s \in Stage
    PROVE  Paid(Append(ss, s)) = Paid(ss) + s.calls * Len(s.seeds) /\ Paid(ss) \in Nat
<1> DEFINE n == Len(ss)
           m == Len(ss) + 1
           tt == Append(ss, s)
<1>1. \A x \in Stage : x.calls * Len(x.seeds) \in Nat
  BY LenProperties DEF Stage
<1>2. /\ n \in Nat /\ m \in Nat /\ DOMAIN ss = 1..n /\ tt \in Seq(Stage)
      /\ DOMAIN tt = 1..m /\ tt[m] = s /\ \A i \in 1..n : tt[i] = ss[i]
  BY AppendProperties, LenProperties
<1>3. /\ \A i \in 1..n : ss[i].calls * Len(ss[i].seeds) \in Nat
      /\ \A i \in 1..m : tt[i].calls * Len(tt[i].seeds) \in Nat
  BY <1>1, <1>2, ElementOfSeq, LenProperties
<1>4. m - 1 = n /\ n <= m /\ m \in 1..m
  BY <1>2
<1> HIDE DEF n, m, tt
<1>5. PICK p : Sums(p, Prices(ss), n) /\ Paid(ss) = p[n]
  BY <1>2, <1>3, PaidSums
<1>6. PICK q : Sums(q, Prices(tt), m) /\ Paid(tt) = q[m]
  BY <1>2, <1>3, PaidSums
<1>7. Agree(Prices(ss), Prices(tt), n)
  <2>1. 1..n \subseteq 1..m
    BY <1>2, <1>4
  <2> QED
    BY <1>2, <2>1 DEF Agree, Prices
<1>8. p[n] = q[n]
  BY <1>2, <1>4, <1>5, <1>6, <1>7, SumsAgree
<1>9. q[m] = q[m - 1] + Prices(tt)[m]
  BY <1>4, <1>6 DEF Sums
<1>10. Prices(tt)[m] = s.calls * Len(s.seeds)
  BY <1>2, <1>4 DEF Prices
<1>11. p[n] \in Nat
  BY <1>2, <1>5 DEF Sums
<1> QED
  BY <1>4, <1>5, <1>6, <1>8, <1>9, <1>10, <1>11 DEF tt

(* Where the numbers are all the same the sum is their multiple. *)
LEMMA SumsConstant ==
    ASSUME NEW m \in Nat, NEW n \in 0..m, NEW c \in Nat, NEW h, NEW q, Sums(q, h, m),
           \A i \in 1..m : n < i => h[i] = c
    PROVE  q[m] = q[n] + c * (m - n)
<1> DEFINE T == {k \in n..m : q[k] # q[n] + c * (k - n)}
<1> SUFFICES ASSUME T # {} PROVE FALSE
  <2>1. m \in n..m
    OBVIOUS
  <2> QED
    BY <2>1
<1>1. T \in SUBSET Nat
  OBVIOUS
<1>2. PICK k \in T : \A j \in T : k <= j
  <2> HIDE DEF T
  <2> QED
    BY <1>1, LeastNumber
<1>3. k \in n..m /\ q[k] # q[n] + c * (k - n)
  OBVIOUS
<1>4. q[n] \in Nat
  BY DEF Sums
<1>5. k # n
  BY <1>3, <1>4
<1>6. k - 1 \in n..m /\ k \in 1..m /\ n < k
  BY <1>3, <1>5
<1>7. k - 1 \notin T
  <2>1. k \in Nat /\ ~ (k <= k - 1)
    BY <1>3
  <2> HIDE DEF T
  <2> QED
    BY <1>2, <2>1
<1>8. q[k - 1] = q[n] + c * ((k - 1) - n)
  BY <1>6, <1>7
<1>9. q[k] = q[k - 1] + h[k] /\ h[k] = c
  BY <1>6 DEF Sums
<1>10. c * (k - n) = c * ((k - 1) - n) + c /\ c * ((k - 1) - n) \in Nat
  BY <1>3, <1>5
<1> QED
  BY <1>3, <1>4, <1>8, <1>9, <1>10

(* Where the elements of two sequences stand in the one they make. *)
LEMMA ConcatElements ==
    ASSUME NEW Y, NEW s \in Seq(Y), NEW t \in Seq(Y)
    PROVE  /\ s \o t \in Seq(Y) /\ DOMAIN (s \o t) = 1..(Len(s) + Len(t))
           /\ \A i \in 1..Len(s) : (s \o t)[i] = s[i]
           /\ \A i \in (Len(s) + 1)..(Len(s) + Len(t)) :
                 i - Len(s) \in 1..Len(t) /\ (s \o t)[i] = t[i - Len(s)]
<1>1. Len(s) \in Nat /\ Len(t) \in Nat
  BY LenProperties
<1>2. /\ s \o t \in Seq(Y) /\ Len(s \o t) = Len(s) + Len(t)
      /\ \A i \in 1..(Len(s) + Len(t)) :
            (s \o t)[i] = IF i <= Len(s) THEN s[i] ELSE t[i - Len(s)]
  BY ConcatProperties
<1>3. DOMAIN (s \o t) = 1..(Len(s) + Len(t))
  BY <1>2, LenProperties
<1>4. \A i \in 1..Len(s) : (s \o t)[i] = s[i]
  BY <1>1, <1>2
<1>5. \A i \in (Len(s) + 1)..(Len(s) + Len(t)) :
          i - Len(s) \in 1..Len(t) /\ (s \o t)[i] = t[i - Len(s)]
  BY <1>1, <1>2
<1> QED
  BY <1>2, <1>3, <1>4, <1>5

(* Attempts that all cost the same cost that much each. *)
LEMMA CostConcat ==
    ASSUME NEW as \in Seq(Attempt), NEW row \in Seq(Attempt), NEW c \in Nat,
           \A j \in 1..Len(row) : row[j].calls = c
    PROVE  Cost(as \o row) = Cost(as) + c * Len(row) /\ Cost(as) \in Nat
<1> DEFINE n == Len(as)
           m == Len(as) + Len(row)
           bs == as \o row
<1>1. /\ bs \in Seq(Attempt) /\ DOMAIN bs = 1..m /\ DOMAIN as = 1..n
      /\ \A i \in 1..n : bs[i] = as[i]
      /\ \A i \in (n + 1)..m : i - n \in 1..Len(row) /\ bs[i] = row[i - n]
  BY ConcatElements, LenProperties
<1>2. n \in 0..m /\ n \in Nat /\ m \in Nat /\ n <= m /\ m - n = Len(row)
  <2>1. Len(as) \in Nat /\ Len(row) \in Nat
    BY LenProperties
  <2>2. ASSUME NEW a \in Nat, NEW b \in Nat
        PROVE  a \in 0..(a + b) /\ a + b \in Nat /\ a <= a + b /\ (a + b) - a = b
    OBVIOUS
  <2> QED
    BY <2>1, <2>2
<1>3. \A i \in 1..m : n < i => bs[i].calls = c
  <2>1. ASSUME NEW i \in 1..m, n < i PROVE bs[i].calls = c
    <3>1. i \in (n + 1)..m
      <4> HIDE DEF n, m
      <4> QED
        BY <1>2, <2>1
    <3> QED
      BY <1>1, <3>1
  <2> QED
    BY <2>1
<1>4. Len(bs) = m
  BY ConcatProperties
<1> HIDE DEF n, m, bs
<1>5. (\A i \in 1..n : as[i].calls \in Nat) /\ (\A i \in 1..m : bs[i].calls \in Nat)
  <2>1. \A x \in Attempt : x.calls \in Nat
    BY DEF Attempt
  <2>2. \A i \in 1..n : as[i] \in Attempt
    BY ElementOfSeq DEF n
  <2>3. \A i \in 1..m : bs[i] \in Attempt
    BY <1>1, <1>4, ElementOfSeq
  <2> QED
    BY <2>1, <2>2, <2>3
<1>6. PICK p : Sums(p, Calls(as), n) /\ Cost(as) = p[n]
  BY <1>1, <1>2, <1>5, CostSums
<1>7. PICK q : Sums(q, Calls(bs), m) /\ Cost(bs) = q[m]
  BY <1>1, <1>2, <1>5, CostSums
<1>8. Agree(Calls(as), Calls(bs), n)
  <2>1. 1..n \subseteq 1..m
    BY <1>2
  <2> QED
    BY <1>1, <2>1 DEF Agree, Calls
<1>9. p[n] = q[n]
  <2> DEFINE h == Calls(as)
             g == Calls(bs)
  <2>1. n \in Nat /\ m \in Nat /\ n <= m
    BY <1>2
  <2>2. Sums(p, h, n) /\ Sums(q, g, m) /\ Agree(h, g, n)
    BY <1>6, <1>7, <1>8
  <2> HIDE DEF h, g
  <2> QED
    BY <2>1, <2>2, SumsAgree
<1>10. p[n] \in Nat
  BY <1>2, <1>6 DEF Sums
<1>11. \A i \in 1..m : n < i => Calls(bs)[i] = c
  BY <1>1, <1>3 DEF Calls
<1>12. q[m] = q[n] + c * (m - n)
  <2>1. n \in 0..m /\ m \in Nat
    BY <1>2
  <2> QED
    BY <1>7, <1>11, <2>1, SumsConstant
<1> QED
  BY <1>2, <1>6, <1>7, <1>9, <1>10, <1>12 DEF bs

---------------------------------------------------------------------------
(* The attempts that a stage stands for. *)
Row(s) == [j \in DOMAIN s.seeds |-> [calls |-> s.calls, seed |-> s.seeds[j]]]

Rows(ss) == [i \in DOMAIN ss |-> Row(ss[i])]

(* A stage has an attempt for each of its seeds, at its calls. *)
LEMMA RowIs ==
    ASSUME NEW s \in Stage
    PROVE  /\ Row(s) \in Seq(Attempt) /\ Len(Row(s)) = Len(s.seeds)
           /\ \A j \in 1..Len(Row(s)) : Row(s)[j].calls = s.calls /\ Row(s)[j].seed = s.seeds[j]
<1>1. s.seeds \in Seq(Seeds) /\ s.calls \in Nat \ {0}
  BY DEF Stage
<1>2. DOMAIN s.seeds = 1..Len(s.seeds) /\ Len(s.seeds) \in Nat
  BY <1>1, LenProperties
<1>3. \A j \in 1..Len(s.seeds) : s.seeds[j] \in Seeds
  BY <1>1, ElementOfSeq
<1>4. Row(s) \in [1..Len(s.seeds) -> Attempt]
  BY <1>1, <1>2, <1>3 DEF Row, Attempt
<1>5. Row(s) \in Seq(Attempt)
  BY <1>2, <1>4, IsASeq
<1>6. Len(Row(s)) = Len(s.seeds)
  BY <1>2, <1>4, <1>5, LenProperties
<1> QED
  BY <1>2, <1>5, <1>6 DEF Row

(* One more stage is one more row. *)
LEMMA RowsAppend ==
    ASSUME NEW ss \in Seq(Stage), NEW s \in Stage
    PROVE  /\ Rows(ss) \in Seq(Seq(Attempt))
           /\ Rows(Append(ss, s)) = Append(Rows(ss), Row(s))
<1> DEFINE Y == Seq(Attempt)
           n == Len(ss)
           tt == Append(ss, s)
<1>1. \A x \in Stage : Row(x) \in Y
  BY RowIs
<1> HIDE DEF Y
<1>2. n \in Nat /\ DOMAIN ss = 1..n /\ \A i \in 1..n : ss[i] \in Stage
  BY ElementOfSeq, LenProperties
<1>3. /\ tt \in Seq(Stage) /\ Len(tt) = n + 1 /\ DOMAIN tt = 1..(n + 1)
      /\ tt[n + 1] = s /\ \A i \in 1..n : tt[i] = ss[i]
  BY <1>2, AppendProperties, LenProperties
<1> HIDE DEF n, tt
<1>4. Rows(ss) \in [1..n -> Y]
  BY <1>1, <1>2 DEF Rows
<1>5. Rows(ss) \in Seq(Y) /\ Len(Rows(ss)) = n
  BY <1>2, <1>4, IsASeq, LenProperties
<1>6. /\ Append(Rows(ss), Row(s)) \in Seq(Y) /\ Len(Append(Rows(ss), Row(s))) = n + 1
      /\ Append(Rows(ss), Row(s))[n + 1] = Row(s)
      /\ \A i \in 1..n : Append(Rows(ss), Row(s))[i] = Rows(ss)[i]
  BY <1>1, <1>5, AppendProperties
<1>7. Rows(tt) = Append(Rows(ss), Row(s))
  <2>1. Rows(tt) \in [1..(n + 1) -> Y]
    <3>1. ASSUME NEW i \in 1..(n + 1) PROVE Row(tt[i]) \in Y
      <4>1. i \in 1..n \/ i = n + 1
        BY <1>2
      <4> QED
        BY <1>1, <1>2, <1>3, <4>1
    <3> QED
      BY <1>3, <3>1 DEF Rows
  <2>2. n + 1 \in Nat
    BY <1>2
  <2>3. Rows(tt) \in Seq(Y) /\ Len(Rows(tt)) = n + 1
    BY <2>1, <2>2, IsASeq, LenProperties
  <2>4. ASSUME NEW i \in 1..(n + 1) PROVE Rows(tt)[i] = Append(Rows(ss), Row(s))[i]
    <3>1. CASE i \in 1..n
      BY <1>2, <1>3, <1>6, <3>1 DEF Rows
    <3>2. CASE i = n + 1
      BY <1>3, <1>6, <3>2 DEF Rows
    <3>3. i \in 1..n \/ i = n + 1
      BY <1>2
    <3> QED
      BY <3>1, <3>2, <3>3
  <2> QED
    BY <1>6, <2>3, <2>4, SeqEqual
<1> QED
  BY <1>5, <1>7 DEF Y, tt

(* What is asked of a stage before it is read. *)
LEMMA StageReads ==
    ASSUME NEW name \in Names, NEW calls \in 0..1, NEW own \in SeqOf(Seeds, 2),
           ~StageRefused(name, calls, own)
    PROVE  /\ [name |-> name, calls |-> calls, seeds |-> own] \in Stage
           /\ own \in Seq(Seeds) /\ Len(own) # 0
           /\ \A j \in 1..Len(own) : own[j] \notin seeds
           /\ \A i, j \in 1..Len(own) : own[i] = own[j] => i = j
<1>1. PICK m \in 0..2 : own \in [1..m -> Seeds]
  BY DEF SeqOf
<1>2. own \in Seq(Seeds) /\ Len(own) = m /\ m \in Nat
  BY <1>1, IsASeq, LenProperties
<1>3. calls # 0 /\ own # <<>> /\ ToSet(own) \intersect seeds = {}
      /\ ~ (Cardinality(ToSet(own)) < Len(own))
  BY DEF StageRefused
<1>4. Len(own) # 0
  BY <1>2, <1>3, EmptySeq
<1>5. own \in Surjection(1..m, ToSet(own))
  <2>1. own \in [1..m -> ToSet(own)] /\ \A x \in ToSet(own) : \E j \in 1..m : own[j] = x
    BY <1>1 DEF ToSet
  <2> QED
    BY <2>1, Fun_IsSurj
<1>6. IsFiniteSet(1..m) /\ Cardinality(1..m) = m
  <2>1. Cardinality(1..m) = IF 1 > m THEN 0 ELSE m - 1 + 1
    BY FS_Interval
  <2> QED
    BY <1>2, <2>1, FS_Interval
<1>7. IsFiniteSet(ToSet(own)) /\ Cardinality(ToSet(own)) <= m
  BY <1>5, <1>6, FS_Surjection
<1>8. Cardinality(ToSet(own)) = m
  BY <1>2, <1>3, <1>7, FS_CardinalityType
<1>9. own \in Injection(1..m, ToSet(own))
  BY <1>5, <1>6, <1>8, FS_SurjSameCardinalityImpliesInj
<1>10. \A i, j \in 1..m : own[i] = own[j] => i = j
  BY <1>9, Fun_InjectionProperties
<1>11. \A j \in 1..m : own[j] \notin seeds
  BY <1>1, <1>3 DEF ToSet
<1>12. [name |-> name, calls |-> calls, seeds |-> own] \in Stage
  BY <1>2, <1>3 DEF Stage
<1> QED
  BY <1>2, <1>4, <1>10, <1>11, <1>12

(* The inductive invariant of the plan: the attempts cost what was planned *)
(* for, their seeds are all known, and no two have the same.               *)
SeedsKnown == \A i \in 1..Len(Attempts) : Attempts[i].seed \in seeds

SeedsDiffer == \A i, j \in 1..Len(Attempts) : Attempts[i].seed = Attempts[j].seed => i = j

PlanInv ==
    /\ stages \in Seq(Stage) /\ Attempts \in Seq(Attempt)
    /\ stages # <<>> => Attempts # <<>>
    /\ SeedsKnown /\ SeedsDiffer
    /\ Cost(Attempts) = Planned
    /\ pc \in {"stages", "totals", "rest", "accepted"} => repetitions >= 5
    /\ pc \in {"totals", "rest", "accepted"} => stages # <<>>
    /\ pc \in {"rest", "accepted"} => Planned <= total

(* Both of them, now and behind a step, as operators of the stages alone. *)
LEMMA AttemptsAre ==
    /\ Attempts = FlattenSeq(Rows(stages)) /\ Planned = Paid(stages)
    /\ Attempts' = FlattenSeq(Rows(stages')) /\ Planned' = Paid(stages')
<1>1. Attempts = FlattenSeq(Rows(stages))
  BY DEF Attempts, Rows, Row
<1>2. Planned = Paid(stages)
  BY DEF Planned, Paid
<1>3. Attempts' = FlattenSeq(Rows(stages'))
  BY DEF Attempts, Rows, Row
<1>4. Planned' = Paid(stages')
  BY DEF Planned, Paid, FoldLeft, MapThenFoldSet
<1> QED
  BY <1>1, <1>2, <1>3, <1>4

(* A stage that is read adds its attempts behind the others. *)
LEMMA StageAdds ==
    ASSUME PlanInv, NEW s \in Stage, stages' = Append(stages, s)
    PROVE  /\ stages' \in Seq(Stage) /\ stages' # <<>>
           /\ Attempts' = Attempts \o Row(s)
           /\ Planned' = Planned + s.calls * Len(s.seeds)
<1>1. stages \in Seq(Stage)
  BY DEF PlanInv
<1>2. stages' \in Seq(Stage) /\ stages' # <<>>
  BY <1>1, AppendProperties
<1>3. Attempts' = FlattenSeq(Rows(stages')) /\ Planned' = Paid(stages')
  BY AttemptsAre
<1>4. Rows(stages') = Append(Rows(stages), Row(s)) /\ Rows(stages) \in Seq(Seq(Attempt))
  BY <1>1, RowsAppend
<1>5. FlattenSeq(Append(Rows(stages), Row(s))) = FlattenSeq(Rows(stages)) \o Row(s)
  BY <1>4, RowIs, FlattenSeqAppend
<1>6. Paid(stages') = Paid(stages) + s.calls * Len(s.seeds)
  BY <1>1, PaidAppend
<1> QED
  BY <1>2, <1>3, <1>4, <1>5, <1>6, AttemptsAre

(* The seeds of the new attempts are known to no attempt before them, and  *)
(* what they cost is what the stage was counted with.                      *)
LEMMA ReadStageKeepsPlan == PlanInv /\ ReadStage => PlanInv'
<1> SUFFICES ASSUME PlanInv, ReadStage PROVE PlanInv'
  OBVIOUS
<1>1. PICK name \in Names, calls \in 0..1, own \in SeqOf(Seeds, 2) :
          IF StageRefused(name, calls, own) THEN Refuse("stages")
          ELSE /\ pc = "stages"
               /\ stages' = Append(stages, [name |-> name, calls |-> calls, seeds |-> own])
               /\ seeds' = seeds \union ToSet(own)
               /\ UNCHANGED <<pc, repetitions, total>>
  BY DEF ReadStage
<1>2. CASE StageRefused(name, calls, own)
  <2>1. pc' = "refused" /\ UNCHANGED <<stages, seeds>>
    BY <1>1, <1>2 DEF Refuse, Goto, stageVars
  <2>2. UNCHANGED <<Attempts, Planned>>
    BY <2>1, AttemptsAre
  <2> QED
    BY <2>1, <2>2 DEF PlanInv, SeedsKnown, SeedsDiffer
<1>3. CASE ~StageRefused(name, calls, own)
  <2> DEFINE s == [name |-> name, calls |-> calls, seeds |-> own]
             A == Attempts
             row == Row(s)
  <2>1. /\ s \in Stage /\ own \in Seq(Seeds) /\ Len(own) # 0
        /\ \A j \in 1..Len(own) : own[j] \notin seeds
        /\ \A i, j \in 1..Len(own) : own[i] = own[j] => i = j
    BY <1>3, StageReads
  <2>2. s.calls = calls /\ s.seeds = own /\ calls \in Nat
    OBVIOUS
  <2> HIDE DEF s
  <2>3. /\ stages' = Append(stages, s) /\ seeds' = seeds \union ToSet(own)
        /\ UNCHANGED <<pc, repetitions, total>> /\ pc = "stages"
    BY <1>1, <1>3 DEF s
  <2>4. /\ stages' \in Seq(Stage) /\ stages' # <<>> /\ Attempts' = A \o row
        /\ Planned' = Planned + calls * Len(own)
    BY <2>1, <2>2, <2>3, StageAdds
  <2>5. /\ row \in Seq(Attempt) /\ Len(row) = Len(own)
        /\ \A j \in 1..Len(own) : row[j].calls = calls /\ row[j].seed = own[j]
    BY <2>1, <2>2, RowIs
  <2>6. A \in Seq(Attempt)
    BY DEF PlanInv
  <2> HIDE DEF A, row
  <2>7. Cost(A \o row) = Cost(A) + calls * Len(own)
    <3>1. \A j \in 1..Len(row) : row[j].calls = calls
      BY <2>5
    <3>2. row \in Seq(Attempt)
      BY <2>5
    <3>3. Cost(A \o row) = Cost(A) + calls * Len(row)
      BY <2>2, <2>6, <3>1, <3>2, CostConcat
    <3> QED
      BY <2>5, <3>3
  <2>8. Cost(A) = Planned
    BY DEF PlanInv, A
  <2>9. SeedsKnown /\ SeedsDiffer
    BY DEF PlanInv
  <2> DEFINE n == Len(A)
             l == Len(own)
  <2>10. n \in Nat /\ l \in Nat
    BY <2>1, <2>6, LenProperties
  <2>11. /\ A \o row \in Seq(Attempt) /\ Len(A \o row) = n + l
         /\ \A i \in 1..n : (A \o row)[i] = A[i]
         /\ \A i \in (n + 1)..(n + l) : i - n \in 1..l /\ (A \o row)[i] = row[i - n]
    <3>1. row \in Seq(Attempt) /\ Len(row) = l
      BY <2>5
    <3> HIDE DEF l
    <3>2. /\ A \o row \in Seq(Attempt) /\ Len(A \o row) = Len(A) + Len(row)
          /\ \A i \in 1..Len(A) : (A \o row)[i] = A[i]
          /\ \A i \in (Len(A) + 1)..(Len(A) + Len(row)) :
                i - Len(A) \in 1..Len(row) /\ (A \o row)[i] = row[i - Len(A)]
      BY <2>6, <3>1, ConcatElements, ConcatProperties
    <3> QED
      BY <3>1, <3>2
  <2>12. \A j \in 1..l : own[j] \in ToSet(own)
    BY <2>1, LenProperties DEF ToSet
  <2>13. \A i \in 1..n : A[i].seed \in seeds
    BY <2>9 DEF SeedsKnown, A
  <2>14. \A i, j \in 1..n : A[i].seed = A[j].seed => i = j
    BY <2>9 DEF SeedsDiffer, A
  <2> HIDE DEF n, l
  <2>15. ASSUME NEW i \in 1..(n + l)
         PROVE  \/ i \in 1..n /\ (A \o row)[i].seed = A[i].seed
                \/ i \notin 1..n /\ i - n \in 1..l /\ (A \o row)[i].seed = own[i - n]
    <3>1. CASE i \in 1..n
      BY <2>11, <3>1
    <3>2. CASE i \notin 1..n
      <4>1. i \in (n + 1)..(n + l)
        BY <2>10, <3>2
      <4> QED
        BY <2>5, <2>11, <3>2, <4>1 DEF l
    <3> QED
      BY <3>1, <3>2
  <2>16. SeedsKnown'
    <3>1. ASSUME NEW i \in 1..(n + l) PROVE (A \o row)[i].seed \in seeds'
      BY <2>3, <2>12, <2>13, <2>15
    <3> QED
      BY <2>4, <2>11, <3>1 DEF SeedsKnown
  <2>17. SeedsDiffer'
    <3>1. ASSUME NEW i \in 1..(n + l), NEW j \in 1..(n + l), (A \o row)[i].seed = (A \o row)[j].seed
          PROVE  i = j
      <4>1. CASE i \in 1..n /\ j \in 1..n
        BY <2>14, <2>15, <3>1, <4>1
      <4>2. CASE i \in 1..n /\ j \notin 1..n
        BY <2>1, <2>13, <2>15, <3>1, <4>2 DEF l
      <4>3. CASE i \notin 1..n /\ j \in 1..n
        BY <2>1, <2>13, <2>15, <3>1, <4>3 DEF l
      <4>4. CASE i \notin 1..n /\ j \notin 1..n
        <5>1. i - n \in 1..l /\ j - n \in 1..l /\ own[i - n] = own[j - n]
          BY <2>15, <3>1, <4>4
        <5>2. i - n = j - n
          BY <2>1, <5>1 DEF l
        <5> QED
          BY <2>10, <5>2
      <4> QED
        BY <4>1, <4>2, <4>3, <4>4
    <3> QED
      BY <2>4, <2>11, <3>1 DEF SeedsDiffer
  <2>18. Attempts' # <<>>
    <3>1. n + l # 0
      BY <2>1, <2>10 DEF l
    <3> QED
      BY <2>4, <2>11, <3>1, EmptySeq
  <2>19. Cost(Attempts') = Planned'
    BY <2>4, <2>7, <2>8
  <2>20. repetitions' >= 5 /\ pc' = "stages"
    BY <2>3 DEF PlanInv
  <2> QED
    BY <2>4, <2>11, <2>16, <2>17, <2>18, <2>19, <2>20 DEF PlanInv
<1> QED
  BY <1>2, <1>3

(* So that a plan that is not above the total is at most the total. *)
LEMMA PaidIsNumber == PlanInv => Planned \in Nat
<1> SUFFICES ASSUME PlanInv PROVE Planned \in Nat
  OBVIOUS
<1>1. <<>> \in Seq(Attempt) /\ \A j \in 1..Len(<<>>) : <<>>[j].calls = 0
  BY EmptySeq
<1>2. Attempts \in Seq(Attempt) /\ Cost(Attempts) = Planned
  BY DEF PlanInv
<1>3. Cost(Attempts) \in Nat
  BY <1>1, <1>2, CostConcat
<1> QED
  BY <1>2, <1>3

(* The other steps leave the stages alone. *)
LEMMA PlanInductive == PlanInv /\ [Next]_vars => PlanInv'
<1> SUFFICES ASSUME PlanInv, [Next]_vars PROVE PlanInv'
  OBVIOUS
<1>1. CASE ReadStage
  BY <1>1, ReadStageKeepsPlan
<1>2. ASSUME UNCHANGED stageVars,
             pc' \in {"stages", "totals", "rest", "accepted"} => repetitions' >= 5,
             pc' \in {"totals", "rest", "accepted"} => stages # <<>>,
             pc' \in {"rest", "accepted"} => Planned <= total'
      PROVE  PlanInv'
  <2>1. UNCHANGED <<stages, seeds>>
    BY <1>2 DEF stageVars
  <2>2. UNCHANGED <<Attempts, Planned>>
    BY <2>1, AttemptsAre
  <2>3. UNCHANGED <<SeedsKnown, SeedsDiffer>>
    BY <2>1, <2>2 DEF SeedsKnown, SeedsDiffer
  <2> QED
    BY <1>2, <2>1, <2>2, <2>3 DEF PlanInv
<1>3. CASE Other \/ ReadReference
  BY <1>2, <1>3 DEF Other, ReadReference, Refuse, Goto, PlanInv
<1>4. CASE EndSplit
  BY <1>2, <1>4 DEF EndSplit, Refuse, Goto, PlanInv
<1>5. CASE ReadRepetitions
  BY <1>2, <1>5 DEF ReadRepetitions, Refuse, Goto, PlanInv
<1>6. CASE EndStages
  BY <1>2, <1>6 DEF EndStages, Refuse, Goto, PlanInv
<1>7. CASE ReadTotals
  <2>1. PICK n \in 0..MaxNumber :
            IF n = 0 \/ Planned > n THEN Refuse("totals")
            ELSE Goto("totals", "rest") /\ total' = n
                 /\ UNCHANGED <<splitVars, repetitions, stageVars>>
    BY <1>7 DEF ReadTotals
  <2>2. CASE n = 0 \/ Planned > n
    BY <1>2, <2>1, <2>2 DEF Refuse, Goto, PlanInv
  <2>3. CASE ~(n = 0 \/ Planned > n)
    <3>1. Planned \in Nat
      BY PaidIsNumber
    <3>2. Planned <= n
      BY <2>3, <3>1, ConfigAssumption
    <3> QED
      BY <1>2, <2>1, <2>3, <3>2 DEF Goto, PlanInv
  <2> QED
    BY <2>2, <2>3
<1>8. CASE Rest
  BY <1>2, <1>8 DEF Rest, Refuse, Goto, PlanInv
<1>9. CASE UNCHANGED vars
  BY <1>2, <1>9 DEF vars, PlanInv
<1> QED
  BY <1>1, <1>3, <1>4, <1>5, <1>6, <1>7, <1>8, <1>9 DEF Next, Terminated

(* For any stages and seeds: what the budget was compared with is what the *)
(* attempts of the search cost, one after the other.                       *)
THEOREM PlanAlwaysCovered == Spec => []PlanIsCovered
<1>1. Init => PlanInv
  <2> SUFFICES ASSUME Init PROVE PlanInv
    OBVIOUS
  <2>1. stages = <<>> /\ pc = "other"
    BY DEF Init
  <2>2. Rows(<<>>) = <<>> /\ FlattenSeq(<<>>) = <<>> /\ <<>> \in Seq(Stage) /\ <<>> \in Seq(Attempt)
    BY EmptySeq DEF Rows, FlattenSeq
  <2>3. Attempts = <<>> /\ Planned = Paid(<<>>) /\ Len(<<>>) = 0
    BY <2>1, <2>2, AttemptsAre, EmptySeq
  <2>4. Cost(<<>>) = 0 /\ Paid(<<>>) = 0
    <3>1. DOMAIN <<>> = 1..0
      OBVIOUS
    <3>2. \E p : Sums(p, Calls(<<>>), 0) /\ Cost(<<>>) = p[0]
      BY <3>1, CostSums
    <3>3. \E p : Sums(p, Prices(<<>>), 0) /\ Paid(<<>>) = p[0]
      BY <3>1, PaidSums
    <3> QED
      BY <3>2, <3>3 DEF Sums
  <2> QED
    BY <2>1, <2>2, <2>3, <2>4 DEF PlanInv, SeedsKnown, SeedsDiffer
<1>2. PlanInv => PlanIsCovered
  <2> SUFFICES ASSUME PlanInv, pc = "accepted"
               PROVE  /\ repetitions >= 5 /\ Attempts # <<>> /\ Cost(Attempts) <= total
                      /\ \A i \in DOMAIN Attempts : Attempts[i].calls > 0
                      /\ \A i, j \in DOMAIN Attempts : Attempts[i].seed = Attempts[j].seed => i = j
    BY DEF PlanIsCovered, Cost
  <2>1. Attempts \in Seq(Attempt) /\ DOMAIN Attempts = 1..Len(Attempts)
    BY LenProperties DEF PlanInv
  <2>2. \A i \in DOMAIN Attempts : Attempts[i] \in Attempt
    BY <2>1, ElementOfSeq
  <2> QED
    BY <2>1, <2>2 DEF PlanInv, SeedsDiffer, Attempt
<1> QED
  BY <1>1, <1>2, PlanInductive, PTL DEF Spec
=============================================================================

--------------------------- MODULE SequenceLemmas ---------------------------
(***************************************************************************)
(* What appending to a queue, taking its head and removing an element from *)
(* it do: the lists the program's threads hand one another.                *)
(***************************************************************************)
EXTENDS Integers, SequencesExt, SequenceTheorems, FiniteSetTheorems, Selection, TLAPS

\* No element is there twice.
Distinct(s) == \A i, j \in DOMAIN s : s[i] = s[j] => i = j

\* A sequence of elements of a smaller set.
LEMMA SeqOfSubset ==
  ASSUME NEW S, NEW T, NEW s \in Seq(S), \A i \in DOMAIN s : s[i] \in T
  PROVE  s \in Seq(T)
<1>1. s = [i \in 1..Len(s) |-> s[i]] /\ Len(s) \in Nat /\ DOMAIN s = 1..Len(s)
  OBVIOUS
<1>2. \A i \in 1..Len(s) : s[i] \in T
  BY <1>1
<1> QED BY <1>1, <1>2

\* What is appended is the last element, and the others stay where they were.
LEMMA Appended ==
  ASSUME NEW S, NEW s \in Seq(S), NEW e \in S
  PROVE  /\ Append(s, e) \in Seq(S) /\ Len(s) \in Nat
         /\ DOMAIN s = 1..Len(s) /\ DOMAIN Append(s, e) = 1..(Len(s) + 1)
         /\ \A i \in 1..Len(s) : Append(s, e)[i] = s[i]
         /\ Append(s, e)[Len(s) + 1] = e
  OBVIOUS

\* When the first element is taken each other moves one place forward.
LEMMA HeadTaken ==
  ASSUME NEW S, NEW s \in Seq(S), s # <<>>
  PROVE  /\ Tail(s) \in Seq(S) /\ Len(s) \in Nat \ {0}
         /\ DOMAIN s = 1..Len(s) /\ DOMAIN Tail(s) = 1..(Len(s) - 1)
         /\ \A i \in 1..(Len(s) - 1) : Tail(s)[i] = s[i + 1]
         /\ Head(s) = s[1] /\ s[1] \in S
  OBVIOUS

\* In a queue without repetitions an element that is new and is appended, or put
\* first, keeps it so.
LEMMA AppendedDistinct ==
  ASSUME NEW S, NEW s \in Seq(S), NEW e \in S, Distinct(s), ~Contains(s, e)
  PROVE  /\ Distinct(Append(s, e))
         /\ \A x : Contains(Append(s, e), x) <=> Contains(s, x) \/ x = e
<1> DEFINE t == Append(s, e)
<1>1. /\ Len(s) \in Nat /\ DOMAIN s = 1..Len(s) /\ DOMAIN t = 1..(Len(s) + 1)
      /\ \A i \in 1..Len(s) : t[i] = s[i]
      /\ t[Len(s) + 1] = e /\ Len(t) = Len(s) + 1
  OBVIOUS
<1> HIDE DEF t
<1>2. \A i \in 1..Len(s) : s[i] # e
  BY DEF Contains
<1>3. Distinct(t)
  BY <1>1, <1>2 DEF Distinct
<1>4. \A x : Contains(t, x) <=> Contains(s, x) \/ x = e
  BY <1>1 DEF Contains
<1> QED BY <1>3, <1>4 DEF t

LEMMA FirstDistinct ==
  ASSUME NEW S, NEW s \in Seq(S), NEW e \in S, Distinct(s), ~Contains(s, e)
  PROVE  /\ <<e>> \o s \in Seq(S) /\ Distinct(<<e>> \o s)
         /\ \A x : Contains(<<e>> \o s, x) <=> Contains(s, x) \/ x = e
<1> DEFINE t == <<e>> \o s
           n == Len(s)
<1>1. /\ t \in Seq(S) /\ n \in Nat /\ DOMAIN s = 1..n /\ Len(t) = n + 1 /\ DOMAIN t = 1..(n + 1)
      /\ t[1] = e /\ \A i \in 2..(n + 1) : t[i] = s[i - 1]
  <2>1. <<e>> \in Seq(S) /\ Len(<<e>>) = 1 /\ <<e>>[1] = e
    OBVIOUS
  <2>2. /\ t \in Seq(S) /\ Len(t) = Len(<<e>>) + n
        /\ \A i \in 1..(Len(<<e>>) + n) :
              t[i] = IF i <= Len(<<e>>) THEN <<e>>[i] ELSE s[i - Len(<<e>>)]
    BY <2>1, ConcatProperties
  <2>3. n \in Nat /\ DOMAIN s = 1..n /\ DOMAIN t = 1..Len(t)
    BY <2>2
  <2> HIDE DEF t, n
  <2> QED BY <2>1, <2>2, <2>3
<1> HIDE DEF t, n
<1>2. \A i \in 1..n : s[i] # e
  BY <1>1 DEF Contains, n
<1>3. /\ 1 \in 1..(n + 1) /\ \A i \in 1..(n + 1) : i = 1 \/ (i \in 2..(n + 1) /\ i - 1 \in 1..n)
      /\ \A i \in 1..n : i + 1 \in 2..(n + 1) /\ i + 1 \in 1..(n + 1) /\ (i + 1) - 1 = i
  BY <1>1
<1>4. Distinct(t)
  <2> SUFFICES ASSUME NEW i \in 1..(n + 1), NEW j \in 1..(n + 1), t[i] = t[j] PROVE i = j
    BY <1>1 DEF Distinct
  <2>1. CASE i = 1
    BY <1>1, <1>2, <1>3, <2>1
  <2>2. CASE j = 1
    BY <1>1, <1>2, <1>3, <2>2
  <2>3. CASE i # 1 /\ j # 1
    <3>1. s[i - 1] = s[j - 1] /\ i - 1 \in 1..n /\ j - 1 \in 1..n
      BY <1>1, <1>3, <2>3
    <3>2. i - 1 = j - 1
      BY <1>1, <3>1 DEF Distinct
    <3> QED BY <3>2
  <2> QED BY <2>1, <2>2, <2>3
<1>5. ASSUME NEW x, Contains(t, x) PROVE Contains(s, x) \/ x = e
  <2>1. PICK i \in 1..(n + 1) : t[i] = x
    BY <1>1, <1>5 DEF Contains
  <2> QED BY <1>1, <1>3, <2>1 DEF Contains, n
<1>6. ASSUME NEW x, Contains(s, x) PROVE Contains(t, x)
  <2>1. PICK i \in 1..n : s[i] = x
    BY <1>6 DEF Contains, n
  <2>2. t[i + 1] = x
    BY <1>1, <1>3, <2>1
  <2> QED BY <1>1, <1>3, <2>1, <2>2 DEF Contains
<1>7. Contains(t, e)
  BY <1>1, <1>3 DEF Contains
<1> QED BY <1>1, <1>4, <1>5, <1>6, <1>7 DEF t

\* What is left of a queue without repetitions has none.
LEMMA TailDistinct ==
  ASSUME NEW S, NEW s \in Seq(S), s # <<>>, Distinct(s)
  PROVE  /\ Distinct(Tail(s))
         /\ \A x : Contains(Tail(s), x) <=> Contains(s, x) /\ x # Head(s)
<1> DEFINE t == Tail(s)
<1>1. /\ Len(s) \in Nat \ {0} /\ DOMAIN s = 1..Len(s) /\ DOMAIN t = 1..(Len(s) - 1)
      /\ \A i \in 1..(Len(s) - 1) : t[i] = s[i + 1]
      /\ Head(s) = s[1] /\ Len(t) = Len(s) - 1
  OBVIOUS
<1> HIDE DEF t
<1>2. Distinct(t)
  BY <1>1 DEF Distinct
<1>3. ASSUME NEW x PROVE Contains(t, x) <=> Contains(s, x) /\ x # Head(s)
  <2>1. ASSUME NEW i \in 1..Len(t), t[i] = x PROVE Contains(s, x) /\ x # Head(s)
    <3>1. i + 1 \in 1..Len(s) /\ s[i + 1] = x /\ i + 1 # 1
      BY <1>1, <2>1
    <3> QED BY <1>1, <3>1 DEF Contains, Distinct
  <2>2. ASSUME NEW i \in 1..Len(s), s[i] = x, x # Head(s) PROVE Contains(t, x)
    <3>1. i - 1 \in 1..Len(t) /\ t[i - 1] = x
      BY <1>1, <2>2
    <3> QED BY <3>1 DEF Contains
  <2> QED BY <2>1, <2>2 DEF Contains
<1> QED BY <1>2, <1>3 DEF t

\* The element at place n, which is nowhere else, is removed at n.
LEMMA OnePlace ==
  ASSUME NEW S, NEW s \in Seq(S), Distinct(s), NEW n \in DOMAIN s
  PROVE  RemoveFirst(s, s[n]) = SubSeq(s, 1, n - 1) \o SubSeq(s, n + 1, Len(s))
<1> DEFINE I == { i \in 1..Len(s) : s[i] = s[n] }
<1>1. DOMAIN s = 1..Len(s) /\ Len(s) \in Nat
  OBVIOUS
<1>2. I = {n}
  BY <1>1 DEF Distinct
<1>3. Min(I) = n
  BY <1>1, <1>2 DEF Min
<1>4. SelectInSeq(s, LAMBDA v : v = s[n]) = n
  BY <1>2, <1>3 DEF SelectInSeq
<1> QED BY <1>1, <1>4 DEF RemoveFirst, RemoveAt

\* Of a queue without repetitions RemoveFirst leaves the other elements.
LEMMA Removed ==
  ASSUME NEW S, NEW s \in Seq(S), Distinct(s), NEW e
  PROVE  /\ RemoveFirst(s, e) \in Seq(S) /\ Distinct(RemoveFirst(s, e))
         /\ \A x : Contains(RemoveFirst(s, e), x) <=> Contains(s, x) /\ x # e
<1> DEFINE R == RemoveFirst(s, e)
<1>1. DOMAIN s = 1..Len(s) /\ Len(s) \in Nat
  OBVIOUS
<1>2. CASE ~\E n \in DOMAIN s : s[n] = e
  <2>1. R = s
    BY <1>1, <1>2 DEF RemoveFirst
  <2> QED BY <1>1, <1>2, <2>1 DEF Contains
<1>3. ASSUME NEW n \in 1..Len(s), s[n] = e
      PROVE  R \in Seq(S) /\ Distinct(R) /\ \A x : Contains(R, x) <=> Contains(s, x) /\ x # e
  <2> DEFINE A == SubSeq(s, 1, n - 1)
             B == SubSeq(s, n + 1, Len(s))
  <2>1. R = A \o B
    BY <1>1, <1>3, OnePlace
  <2>2. \A i \in 1..Len(s) : s[i] \in S
    OBVIOUS
  <2>3. A \in Seq(S) /\ Len(A) = n - 1 /\ \A i \in 1..(n - 1) : A[i] = s[i]
    <3>1. n - 1 \in Int /\ \A i \in 1..(n - 1) : s[i] \in S
      BY <1>1, <2>2
    <3> HIDE DEF A
    <3>2. /\ A \in Seq(S) /\ Len(A) = (IF 1 <= n - 1 THEN (n - 1) - 1 + 1 ELSE 0)
          /\ \A i \in 1..((n - 1) - 1 + 1) : A[i] = s[1 + i - 1]
      BY <3>1, SubSeqProperties DEF A
    <3> QED BY <3>2
  <2>4. B \in Seq(S) /\ Len(B) = Len(s) - n /\ \A i \in 1..(Len(s) - n) : B[i] = s[n + i]
    <3>1. n + 1 \in Int /\ Len(s) \in Int /\ \A i \in (n + 1)..Len(s) : s[i] \in S
      BY <1>1, <2>2
    <3> HIDE DEF B
    <3>2. /\ B \in Seq(S) /\ Len(B) = (IF n + 1 <= Len(s) THEN Len(s) - (n + 1) + 1 ELSE 0)
          /\ \A i \in 1..(Len(s) - (n + 1) + 1) : B[i] = s[(n + 1) + i - 1]
      BY <3>1, SubSeqProperties DEF B
    <3>3. ASSUME NEW i \in 1..(Len(s) - n) PROVE B[i] = s[n + i]
      <4>1. i \in 1..(Len(s) - (n + 1) + 1) /\ (n + 1) + i - 1 = n + i
        BY <1>1
      <4> QED BY <3>2, <4>1
    <3>4. Len(B) = Len(s) - n
      <4>1. Len(B) = IF n + 1 <= Len(s) THEN Len(s) - (n + 1) + 1 ELSE 0
        BY <3>2
      <4>2. n \in Int /\ n <= Len(s)
        BY <1>1
      <4>3. ASSUME NEW l \in Nat, NEW k \in Int, NEW b, k <= l,
                   b = IF k + 1 <= l THEN l - (k + 1) + 1 ELSE 0
            PROVE  b = l - k
        BY <4>3
      <4> QED BY <1>1, <4>1, <4>2, <4>3
    <3> QED BY <3>2, <3>3, <3>4
  <2> HIDE DEF A, B, R
  <2>5. /\ R \in Seq(S) /\ Len(R) = Len(s) - 1 /\ DOMAIN R = 1..(Len(s) - 1)
        /\ \A i \in 1..(n - 1) : R[i] = s[i]
        /\ \A i \in n..(Len(s) - 1) : R[i] = s[i + 1]
    <3>1. /\ R \in Seq(S) /\ Len(R) = Len(A) + Len(B)
          /\ \A i \in 1..(Len(A) + Len(B)) :
                R[i] = IF i <= Len(A) THEN A[i] ELSE B[i - Len(A)]
      BY <2>1, <2>3, <2>4, ConcatProperties
    <3>2. Len(R) = Len(s) - 1 /\ DOMAIN R = 1..(Len(s) - 1)
      BY <1>1, <2>3, <2>4, <3>1
    <3>3. \A i \in 1..(n - 1) : R[i] = s[i]
      BY <1>1, <2>3, <2>4, <3>1
    <3>4. ASSUME NEW i \in n..(Len(s) - 1) PROVE R[i] = s[i + 1]
      <4>1. /\ i \in 1..(Len(A) + Len(B)) /\ ~(i <= Len(A))
            /\ i - Len(A) \in 1..(Len(s) - n) /\ n + (i - Len(A)) = i + 1
        BY <1>1, <2>3, <2>4
      <4> QED BY <2>4, <3>1, <4>1
    <3> QED BY <3>1, <3>2, <3>3, <3>4
  <2>6. \A i \in DOMAIN R :
          /\ i < n => R[i] = s[i] /\ i \in DOMAIN s
          /\ i >= n => R[i] = s[i + 1] /\ i + 1 \in DOMAIN s
          /\ i \in Int
    BY <1>1, <2>5
  <2>7. Distinct(R)
    <3> SUFFICES ASSUME NEW i \in DOMAIN R, NEW j \in DOMAIN R, R[i] = R[j]
                 PROVE  i = j
      BY DEF Distinct
    <3>1. CASE i < n /\ j < n
      BY <2>6, <3>1 DEF Distinct
    <3>2. CASE i < n /\ j >= n
      BY <2>6, <3>2 DEF Distinct
    <3>3. CASE i >= n /\ j < n
      BY <2>6, <3>3 DEF Distinct
    <3>4. CASE i >= n /\ j >= n
      <4>1. i + 1 = j + 1
        BY <2>6, <3>4 DEF Distinct
      <4> QED BY <2>6, <4>1
    <3> QED BY <2>6, <3>1, <3>2, <3>3, <3>4
  <2>8. ASSUME NEW x PROVE Contains(R, x) <=> Contains(s, x) /\ x # e
    <3>1. ASSUME NEW i \in 1..Len(R), R[i] = x PROVE Contains(s, x) /\ x # e
      <4>1. \E j \in 1..Len(s) : s[j] = x /\ j # n
        <5>1. CASE i < n
          BY <1>1, <2>5, <2>6, <3>1, <5>1
        <5>2. CASE i >= n
          <6>1. i + 1 \in 1..Len(s) /\ s[i + 1] = x /\ i + 1 # n
            BY <1>1, <2>5, <2>6, <3>1, <5>2
          <6> QED BY <6>1
        <5> QED BY <5>1, <5>2
      <4> QED BY <1>1, <1>3, <4>1 DEF Contains, Distinct
    <3>2. ASSUME NEW i \in 1..Len(s), s[i] = x, x # e PROVE Contains(R, x)
      <4>1. CASE i < n
        <5>1. i \in 1..Len(R) /\ R[i] = x
          BY <1>1, <2>5, <3>2, <4>1
        <5> QED BY <5>1 DEF Contains
      <4>2. CASE i > n
        <5>1. i - 1 \in 1..Len(R) /\ i - 1 \in n..(Len(s) - 1) /\ (i - 1) + 1 = i
          BY <1>1, <2>5, <4>2
        <5>2. R[i - 1] = x
          BY <2>5, <3>2, <5>1
        <5> QED BY <5>1, <5>2 DEF Contains
      <4> QED BY <1>1, <1>3, <3>2, <4>1, <4>2
    <3> QED BY <3>1, <3>2 DEF Contains
  <2> QED BY <2>5, <2>7, <2>8
<1> QED BY <1>1, <1>2, <1>3
-----------------------------------------------------------------------------
(* Places of a sequence. *)

\* Of some natural numbers one is the least.
LEMMA LeastOfSome ==
  ASSUME NEW T \in SUBSET Nat, T # {}
  PROVE  \E n \in T : \A m \in T : n <= m
<1>1. PICK n \in T : \A m \in T : <<m, n>> \notin OpToRel(<, Nat)
  BY NatLessThanWellFounded, WFMin
<1>2. \A m \in T : ~(m < n)
  BY <1>1 DEF OpToRel
<1> QED BY <1>2

\* Places with all that are before them are counted by the last one.
LEMMA FirstPlaces ==
  ASSUME NEW n \in Nat, NEW A \in SUBSET (1..n), \A i \in A : \A j \in 1..i : j \in A
  PROVE  Cardinality(A) \in 0..n /\ A = 1..Cardinality(A)
<1> DEFINE B == { i \in 1..(n + 1) : i \notin A }
<1>1. PICK b \in B : \A i \in B : b <= i
  <2>1. B \in SUBSET Nat /\ n + 1 \in B
    OBVIOUS
  <2> HIDE DEF B
  <2> QED BY <2>1, LeastOfSome
<1>2. A = 1..(b - 1)
  <2>1. \A i \in 1..(b - 1) : i \in A
    BY <1>1
  <2>2. \A i \in A : i \in 1..(b - 1)
    BY <1>1
  <2> QED BY <2>1, <2>2
<1>3. b - 1 \in 0..n
  BY <1>1
<1>4. Cardinality(1..(b - 1)) = b - 1
  BY <1>3, FS_Interval
<1> QED BY <1>2, <1>3, <1>4

\* Every place is one of those in order, and an earlier one comes earlier.
LEMMA AscendingIsInOrder ==
  ASSUME NEW S \in SUBSET Nat, IsFiniteSet(S)
  PROVE  LET n == Cardinality(S)
             p == Ascending(S)
         IN  /\ n \in Nat /\ p \in [1..n -> S]
             /\ \A i, j \in 1..n : i < j => p[i] < p[j]
             /\ \A x \in S : \E i \in 1..n : p[i] = x
<1> DEFINE n == Cardinality(S)
           Upto(x) == { y \in S : y <= x }
           rank == [x \in S |-> Cardinality(Upto(x))]
           Increasing(p) == \A i, j \in DOMAIN p : i < j => p[i] < p[j]
<1>0. \A x \in S : x \in Nat
  OBVIOUS
<1>1. n \in Nat /\ IsFiniteSet(1..n) /\ Cardinality(1..n) = n
  BY FS_CardinalityType, FS_Interval
<1>2. \A x \in S : IsFiniteSet(Upto(x)) /\ Cardinality(Upto(x)) \in 1..n
  <2> TAKE x \in S
  <2>1. Upto(x) \in SUBSET S /\ x \in Upto(x)
    OBVIOUS
  <2>2. IsFiniteSet(Upto(x)) /\ Cardinality(Upto(x)) <= n
    BY <2>1, FS_Subset
  <2>3. Cardinality(Upto(x)) \in Nat /\ Cardinality(Upto(x)) # 0
    BY <2>1, <2>2, FS_CardinalityType, FS_EmptySet
  <2> QED BY <1>1, <2>2, <2>3
<1>3. ASSUME NEW x \in S, NEW y \in S, x < y
      PROVE  rank[x] < rank[y]
  <2>0. x \in Nat /\ y \in Nat /\ x < y
    BY <1>0, <1>3
  <2>1. Upto(x) \in SUBSET Upto(y) /\ y \in Upto(y) /\ y \notin Upto(x)
    <3>1. ASSUME NEW z \in Upto(x) PROVE z \in Upto(y)
      <4>1. z \in S /\ z <= x
        OBVIOUS
      <4>2. z \in Nat
        BY <1>0, <4>1
      <4>3. z <= y
        BY <2>0, <4>1, <4>2
      <4> QED BY <4>1, <4>3
    <3>2. y <= y /\ ~(y <= x)
      BY <2>0
    <3> QED BY <3>1, <3>2
  <2>2. Cardinality(Upto(x)) <= Cardinality(Upto(y)) /\ Cardinality(Upto(x)) # Cardinality(Upto(y))
    BY <1>2, <2>1, FS_Subset
  <2> QED BY <1>2, <2>2
<1>4. rank \in Injection(S, 1..n)
  <2>1. rank \in [S -> 1..n]
    BY <1>2
  <2>2. \A x, y \in S : rank[x] = rank[y] => x = y
    <3> TAKE x, y \in S
    <3>1. x \in Nat /\ y \in Nat /\ rank[x] \in Nat /\ rank[y] \in Nat
      BY <1>0, <1>2
    <3> HIDE DEF rank
    <3>2. x < y \/ y < x \/ x = y
      BY <3>1
    <3> QED BY <1>3, <3>1, <3>2
  <2> QED BY <2>1, <2>2 DEF Injection, IsInjective
<1>5. rank \in Surjection(S, 1..n)
  BY <1>1, <1>4, FS_Injection
<1>6. \A i \in 1..n : \E x \in S : rank[x] = i
  BY <1>5 DEF Surjection
<1> DEFINE q == [i \in 1..n |-> CHOOSE x \in S : rank[x] = i]
<1> HIDE DEF rank
<1>7. \A i \in 1..n : q[i] \in S /\ rank[q[i]] = i
  BY <1>6
<1>8. q \in [1..n -> S] /\ Increasing(q)
  <2>1. ASSUME NEW i \in 1..n, NEW j \in 1..n, i < j
        PROVE  q[i] < q[j]
    <3>1. q[i] \in S /\ q[j] \in S /\ rank[q[i]] = i /\ rank[q[j]] = j
      BY <1>7
    <3>2. q[i] \in Nat /\ q[j] \in Nat
      BY <1>0, <3>1
    <3> HIDE DEF q
    <3>3. ~(q[j] < q[i]) /\ q[i] # q[j]
      <4>1. rank[q[j]] > rank[q[i]] /\ i \in Int /\ j \in Int
        BY <1>1, <2>1, <3>1
      <4>2. q[j] < q[i] => rank[q[j]] < rank[q[i]]
        BY <1>3, <3>1
      <4> QED BY <3>1, <4>1, <4>2
    <3> QED BY <3>2, <3>3
  <2>2. q \in [1..n -> S]
    BY <1>7
  <2> QED BY <2>1, <2>2
<1> DEFINE p == Ascending(S)
<1>9. p \in [1..n -> S] /\ Increasing(p)
  <2> HIDE DEF Increasing
  <2>1. p = CHOOSE r \in [1..n -> S] : Increasing(r)
    BY DEF Ascending, Increasing
  <2>2. \E r \in [1..n -> S] : Increasing(r)
    BY <1>8
  <2> HIDE DEF p
  <2> QED BY <2>1, <2>2
<1>10. \A i, j \in 1..n : i < j => p[i] < p[j]
  BY <1>9
<1> HIDE DEF p, n
<1>11. p \in Injection(1..n, S)
  <2>1. \A i, j \in 1..n : p[i] = p[j] => i = j
    <3> TAKE i, j \in 1..n
    <3>0. p[i] \in S /\ p[j] \in S
      BY <1>9
    <3>1. i \in Nat /\ j \in Nat /\ p[i] \in Nat /\ p[j] \in Nat
      <4>1. i \in Nat /\ j \in Nat
        BY <1>1
      <4> QED BY <1>0, <3>0, <4>1
    <3>2. i < j \/ j < i \/ i = j
      BY <3>1
    <3> QED BY <1>10, <3>1, <3>2
  <2> QED BY <1>9, <2>1 DEF Injection, IsInjective
<1>12. p \in Surjection(1..n, S)
  BY <1>1, <1>11, FS_Injection DEF n
<1>13. \A x \in S : \E i \in 1..n : p[i] = x
  BY <1>12 DEF Surjection
<1> QED BY <1>1, <1>9, <1>10, <1>13 DEF n, p

\* The elements of t are those of s at the places P, in their order.
TakenAt(t, s, P) ==
  \E p \in [DOMAIN t -> P] :
    /\ \A i \in DOMAIN t : t[i] = s[p[i]]
    /\ \A i, j \in DOMAIN t : i < j => p[i] < p[j]
    /\ \A x \in P : \E i \in DOMAIN t : p[i] = x

\* What is selected from a sequence are its elements at those places, in their
\* order.
LEMMA Selected ==
  ASSUME NEW T, NEW s \in Seq(T), NEW P \in SUBSET (DOMAIN s)
  PROVE  SelectAt(s, P) \in Seq(T) /\ TakenAt(SelectAt(s, P), s, P)
<1> DEFINE n == Cardinality(P)
           p == Ascending(P)
           t == SelectAt(s, P)
<1>1. Len(s) \in Nat /\ DOMAIN s = 1..Len(s) /\ \A i \in DOMAIN s : s[i] \in T
  OBVIOUS
<1>2. IsFiniteSet(P) /\ P \in SUBSET Nat
  <2>1. IsFiniteSet(1..Len(s))
    BY <1>1, FS_Interval
  <2> QED BY <1>1, <2>1, FS_Subset
<1>3. /\ n \in Nat /\ p \in [1..n -> P]
      /\ \A i, j \in 1..n : i < j => p[i] < p[j]
      /\ \A x \in P : \E i \in 1..n : p[i] = x
  BY <1>2, AscendingIsInOrder
<1>4. t = [i \in 1..n |-> s[p[i]]]
  BY DEF SelectAt
<1> HIDE DEF n, p, t
<1>5. \A i \in 1..n : s[p[i]] \in T
  BY <1>1, <1>3
<1>6. t \in Seq(T) /\ DOMAIN t = 1..n
  BY <1>3, <1>4, <1>5
<1>7. TakenAt(t, s, P)
  BY <1>3, <1>4, <1>6 DEF TakenAt
<1> QED BY <1>6, <1>7 DEF t
=============================================================================

---------------------------- MODULE StackLemmas -----------------------------
(***************************************************************************)
(* Facts about sequences used as stacks, the last element on top, about    *)
(* least and greatest indexes, and about functions defined by recursion.   *)
(***************************************************************************)
EXTENDS Integers, SequenceTheorems, FiniteSetTheorems, TLAPS

(* Replacing the top element.                                              *)
LEMMA SetTopFacts ==
  ASSUME NEW S, NEW s \in Seq(S), Len(s) > 0, NEW frame \in S
  PROVE  LET t == [s EXCEPT ![Len(s)] = frame]
         IN  /\ t \in Seq(S)
             /\ Len(t) = Len(s)
             /\ t[Len(s)] = frame
             /\ \A d \in 1..Len(s) : d # Len(s) => t[d] = s[d]
OBVIOUS

(* Popping the top element.                                                *)
LEMMA PopFacts ==
  ASSUME NEW S, NEW s \in Seq(S), Len(s) > 0
  PROVE  LET t == SubSeq(s, 1, Len(s) - 1)
         IN  /\ t \in Seq(S)
             /\ Len(t) = Len(s) - 1
             /\ \A d \in 1..(Len(s) - 1) : t[d] = s[d]
<1>1. Len(s) \in Nat /\ 1 \in Int /\ Len(s) - 1 \in Int
  OBVIOUS
<1>2. \A i \in 1..(Len(s) - 1) : s[i] \in S
  BY <1>1
<1>3. ASSUME NEW n \in Int, n = Len(s) - 1
      PROVE  /\ SubSeq(s, 1, n) \in Seq(S)
             /\ Len(SubSeq(s, 1, n)) = n
             /\ \A d \in 1..n : SubSeq(s, 1, n)[d] = s[d]
  <2>1. \A i \in 1..n : s[i] \in S
    BY <1>2, <1>3
  <2>2. /\ SubSeq(s, 1, n) \in Seq(S)
        /\ Len(SubSeq(s, 1, n)) = IF 1 <= n THEN n - 1 + 1 ELSE 0
        /\ \A i \in 1..(n - 1 + 1) : SubSeq(s, 1, n)[i] = s[1 + i - 1]
    BY <2>1, SubSeqProperties
  <2>3. n \in Nat
    BY <1>1, <1>3
  <2>4. QED  BY <2>2, <2>3
<1>4. QED  BY <1>1, <1>3

(* A non-empty set of indexes has a greatest element.  The minimal set of  *)
(* larger indexes belongs to it.                                           *)
LEMMA GreatestExists ==
  ASSUME NEW N \in Nat, NEW T \in SUBSET (1..N), T # {}
  PROVE  \E x \in T : \A y \in T : y <= x
<1> DEFINE Above(x) == {y \in 1..N : y > x}
           Family == {Above(x) : x \in T}
<1>1. IsFiniteSet(1..N)
  BY FS_Interval
<1>2. Family \subseteq FiniteSubsetsOf(1..N)
  <2>1. \A x \in T : Above(x) \subseteq 1..N
    OBVIOUS
  <2>2. \A x \in T : IsFiniteSet(Above(x))
    BY <1>1, <2>1, FS_Subset
  <2>3. QED  BY <2>1, <2>2 DEF FiniteSubsetsOf
<1>3. Family # {}
  OBVIOUS
<1>4. IsWellFoundedOn(StrictSubsetOrdering(1..N), FiniteSubsetsOf(1..N))
  BY FS_StrictSubsetOrderingWellFounded
<1>5. PICK s \in Family : \A t \in Family : <<t, s>> \notin StrictSubsetOrdering(1..N)
  <2> HIDE DEF Family
  <2> QED  BY <1>2, <1>3, <1>4, WFMin
<1>6. PICK x \in T : s = Above(x)
  OBVIOUS
<1>7. ASSUME NEW y \in T, y > x  PROVE FALSE
  <2>1. Above(y) \subseteq Above(x) /\ Above(y) # Above(x)
    BY <1>7
  <2>2. <<Above(y), s>> \in StrictSubsetOrdering(1..N)
    BY <1>6, <2>1 DEF StrictSubsetOrdering
  <2>3. QED  BY <1>5, <2>2
<1>8. QED  BY <1>7

(* Sequences with the same elements are equal.                             *)
LEMMA SequencesEqual ==
  ASSUME NEW S, NEW s \in Seq(S), NEW t \in Seq(S), Len(s) = Len(t),
         \A i \in 1..Len(s) : s[i] = t[i]
  PROVE  s = t
OBVIOUS

(* A prefix of a sequence.                                                 *)
LEMMA PrefixFacts ==
  ASSUME NEW S, NEW s \in Seq(S), NEW n \in Nat, n <= Len(s)
  PROVE  /\ SubSeq(s, 1, n) \in Seq(S)
         /\ Len(SubSeq(s, 1, n)) = n
         /\ \A i \in 1..n : SubSeq(s, 1, n)[i] = s[i]
<1>1. \A i \in 1..n : s[i] \in S
  OBVIOUS
<1>2. /\ SubSeq(s, 1, n) \in Seq(S)
      /\ Len(SubSeq(s, 1, n)) = IF 1 <= n THEN n - 1 + 1 ELSE 0
      /\ \A i \in 1..(n - 1 + 1) : SubSeq(s, 1, n)[i] = s[1 + i - 1]
  BY <1>1, SubSeqProperties
<1>3. QED  BY <1>2

(* Sequences that agree up to n have the same prefix of length n.          *)
LEMMA SamePrefix ==
  ASSUME NEW S, NEW s \in Seq(S), NEW t \in Seq(S), NEW n \in Nat,
         n <= Len(s), n <= Len(t), \A i \in 1..n : s[i] = t[i]
  PROVE  SubSeq(s, 1, n) = SubSeq(t, 1, n)
<1>1. /\ SubSeq(s, 1, n) \in Seq(S) /\ SubSeq(t, 1, n) \in Seq(S)
      /\ Len(SubSeq(s, 1, n)) = n /\ Len(SubSeq(t, 1, n)) = n
      /\ \A i \in 1..n : SubSeq(s, 1, n)[i] = s[i] /\ SubSeq(t, 1, n)[i] = t[i]
  BY PrefixFacts
<1>2. QED  BY <1>1, SequencesEqual

(* A non-empty set of naturals has a least element.                        *)
LEMMA LeastExists ==
  ASSUME NEW T \in SUBSET Nat, T # {}
  PROVE  \E x \in T : \A y \in T : x <= y
<1>1. PICK m \in T : TRUE
  OBVIOUS
<1> DEFINE Mirror == {i \in 1..(m + 1) : m + 1 - i \in T}
<1>2. Mirror \in SUBSET (1..(m + 1)) /\ m + 1 \in Nat /\ 1 \in Mirror
  OBVIOUS
<1>3. PICK i \in Mirror : \A j \in Mirror : j <= i
  <2> HIDE DEF Mirror
  <2> QED  BY <1>2, GreatestExists
<1>4. ASSUME NEW y \in T, y < m + 1 - i  PROVE FALSE
  <2>1. m + 1 - y \in Mirror
    BY <1>4
  <2>2. QED  BY <1>3, <1>4, <2>1
<1>5. QED  BY <1>3, <1>4

(* A recursive definition over Dom: step[i] computes the value at i from a *)
(* function, and only looks at the function's values below i.              *)
Recursion(Dom, V, step) ==
  /\ step \in [Dom -> [[Dom -> V] -> V]]
  /\ \A i \in Dom : \A g, h \in [Dom -> V] :
       (\A j \in Dom : j < i => g[j] = h[j]) => step[i][g] = step[i][h]

Solution(Dom, V, step, f) == f \in [Dom -> V] /\ \A i \in Dom : f[i] = step[i][f]

(* It has a solution.                                                      *)
LEMMA RecursionExists ==
  ASSUME NEW low \in Nat, NEW high \in Nat, NEW V, V # {}, NEW step,
         Recursion(low..high, V, step)
  PROVE  \E f : Solution(low..high, V, step, f)
<1> DEFINE Dom == low..high
           Upto(k, g) == \A i \in Dom : i <= k => g[i] = step[i][g]
           Missing == {k \in Dom : \A g \in [Dom -> V] : ~Upto(k, g)}
<1>0. /\ step \in [Dom -> [[Dom -> V] -> V]]
      /\ \A i \in Dom : \A g, h \in [Dom -> V] :
           (\A j \in Dom : j < i => g[j] = h[j]) => step[i][g] = step[i][h]
  BY DEF Recursion
<1>1. ASSUME NEW k \in Dom, NEW g \in [Dom -> V], \A i \in Dom : i < k => g[i] = step[i][g]
      PROVE  k \notin Missing
  <2> DEFINE h == [g EXCEPT ![k] = step[k][g]]
  <2>1. h \in [Dom -> V] /\ h[k] = step[k][g] /\ \A i \in Dom : i # k => h[i] = g[i]
    BY <1>0
  <2> HIDE DEF h
  <2>2. ASSUME NEW i \in Dom, i <= k  PROVE h[i] = step[i][h]
    <3>1. \A j \in Dom : j < i => g[j] = h[j]
      BY <2>1, <2>2
    <3>2. step[i][g] = step[i][h]
      BY <1>0, <2>1, <3>1
    <3>3. QED  BY <1>1, <2>1, <2>2, <3>2
  <2>3. QED  BY <2>1, <2>2
<1>2. Missing = {}
  <2>1. SUFFICES ASSUME Missing # {} PROVE FALSE
    OBVIOUS
  <2>2. Missing \in SUBSET Nat
    OBVIOUS
  <2>3. PICK k \in Missing : \A j \in Missing : k <= j
    <3> HIDE DEF Missing
    <3> QED  BY <2>1, <2>2, LeastExists
  <2>4. k \in Dom /\ k \in Nat
    OBVIOUS
  <2>5. CASE k = low
    <3>1. PICK v \in V : TRUE
      OBVIOUS
    <3>2. [i \in Dom |-> v] \in [Dom -> V] /\ \A i \in Dom : ~(i < k)
      BY <2>4, <2>5
    <3>3. k \notin Missing
      <4> HIDE DEF Missing
      <4> QED  BY <1>1, <2>4, <3>2
    <3>4. QED  BY <3>3
  <2>6. CASE k # low
    <3>1. k - 1 \in Dom /\ ~(k <= k - 1)
      BY <2>4, <2>6
    <3>2. k - 1 \notin Missing
      <4> HIDE DEF Missing
      <4> QED  BY <2>3, <3>1
    <3>3. PICK g \in [Dom -> V] : Upto(k - 1, g)
      BY <3>1, <3>2
    <3>4. \A i \in Dom : i < k => g[i] = step[i][g]
      BY <2>4, <3>3
    <3>5. k \notin Missing
      <4> HIDE DEF Missing
      <4> QED  BY <1>1, <2>4, <3>4
    <3>6. QED  BY <3>5
  <2>7. QED  BY <2>5, <2>6
<1>3. CASE Dom = {}
  <2>1. PICK v \in V : TRUE
    OBVIOUS
  <2>2. [i \in Dom |-> v] \in [Dom -> V]
    OBVIOUS
  <2>3. QED  BY <1>3, <2>2 DEF Solution
<1>4. CASE Dom # {}
  <2>1. high \in Dom /\ \A i \in Dom : i <= high
    BY <1>4
  <2>2. PICK f \in [Dom -> V] : Upto(high, f)
    BY <1>2, <2>1
  <2>3. QED  BY <2>1, <2>2 DEF Solution
<1>5. QED  BY <1>3, <1>4
=============================================================================

----------------------------- MODULE DataInduction -----------------------------
(***************************************************************************)
(* Induction over the naturals, and what the recursive operators on        *)
(* sequences that the modules use compute for every input.                 *)
(*                                                                         *)
(* The library's induction theorems take a predicate as a parameter, which *)
(* the provers cannot instantiate.  That the order of the naturals is well *)
(* founded has no such parameter: a set of naturals that has 0, and with   *)
(* each element the next, has them all.                                    *)
(***************************************************************************)
EXTENDS SequencesExt, FiniteSetTheorems, SequenceTheorems, TLAPS

LEMMA LeastNat ==
    ASSUME NEW T, T \subseteq Nat, T # {}
    PROVE  \E n \in T : \A m \in T : n <= m
<1> DEFINE R == OpToRel(<, Nat)
<1>1. IsWellFoundedOn(R, Nat)
  BY NatLessThanWellFounded
<1>2. \A m, n \in Nat : m < n => <<m, n>> \in R
  BY DEF OpToRel
<1> HIDE DEF R
<1>3. PICK n \in T : \A m \in T : ~ (<<m, n>> \in R)
  BY <1>1, WFMin
<1>4. ASSUME NEW m \in T PROVE n <= m
  <2>1. ~ (m < n)
    BY <1>2, <1>3
  <2> QED
    BY <2>1
<1> QED
  BY <1>4

LEMMA SetInduction ==
    ASSUME NEW S, NEW n \in Nat, 0 \in S, \A k \in 0 .. n - 1 : k \in S => k + 1 \in S
    PROVE  0 .. n \subseteq S
<1> SUFFICES ASSUME (0 .. n) \ S # {} PROVE FALSE
  OBVIOUS
<1>1. PICK k \in (0 .. n) \ S : \A m \in (0 .. n) \ S : k <= m
  <2>1. (0 .. n) \ S \subseteq Nat
    OBVIOUS
  <2> QED
    BY <2>1, LeastNat
<1>2. k # 0 /\ k - 1 \in 0 .. n - 1 /\ (k - 1) + 1 = k
  BY <1>1
<1>3. k - 1 \in 0 .. n /\ ~ (k <= k - 1)
  BY <1>2
<1>4. k - 1 \in S
  BY <1>1, <1>3
<1> QED
  BY <1>1, <1>2, <1>4

-----------------------------------------------------------------------------
(***************************************************************************)
(* FlattenSeq: the function it is defined by, then its elements.           *)
(***************************************************************************)
FlatUpTo(ss, n) ==
    CHOOSE flat : flat = [i \in 1 .. n |-> IF i = 1 THEN ss[i] ELSE flat[i - 1] \o ss[i]]

LEMMA FlatUpToExists ==
    ASSUME NEW ss, NEW n \in Nat
    PROVE  FlatUpTo(ss, n) =
              [i \in 1 .. n |-> IF i = 1 THEN ss[i] ELSE FlatUpTo(ss, n)[i - 1] \o ss[i]]
<1> DEFINE IsFlat(f, k) == f = [i \in 1 .. k |-> IF i = 1 THEN ss[i] ELSE f[i - 1] \o ss[i]]
           S == { k \in 0 .. n : \E f : IsFlat(f, k) }
<1>1. 0 \in S
  <2> DEFINE f == [i \in 1 .. 0 |-> ss[i]]
  <2>1. IsFlat(f, 0)
    <3>1. \A i \in 1 .. 0 : FALSE
      OBVIOUS
    <3> QED
      BY <3>1
  <2> HIDE DEF f, IsFlat
  <2> QED
    BY <2>1
<1>2. ASSUME NEW k \in 0 .. n - 1, k \in S PROVE k + 1 \in S
  <2>1. PICK f : IsFlat(f, k)
    BY <1>2
  <2> DEFINE g == [i \in 1 .. k + 1 |->
                     IF i = k + 1 THEN (IF i = 1 THEN ss[i] ELSE f[k] \o ss[i]) ELSE f[i]]
  <2>2. \A i \in 1 .. k : f[i] = IF i = 1 THEN ss[i] ELSE f[i - 1] \o ss[i]
    BY <2>1
  <2>3. \A i \in 1 .. k : g[i] = f[i]
    OBVIOUS
  <2>4. ASSUME NEW i \in 1 .. k + 1
        PROVE  g[i] = IF i = 1 THEN ss[i] ELSE g[i - 1] \o ss[i]
    <3>1. CASE i = k + 1
      <4>1. i # 1 => i - 1 \in 1 .. k /\ i - 1 = k
        BY <3>1
      <4>2. i # 1 => g[i - 1] = f[k]
        BY <2>3, <4>1
      <4> QED
        BY <3>1, <4>2
    <3>2. CASE i # k + 1
      <4>1. i \in 1 .. k /\ (i # 1 => i - 1 \in 1 .. k)
        BY <3>2
      <4>2. g[i] = f[i] /\ (i # 1 => g[i - 1] = f[i - 1])
        BY <2>3, <4>1
      <4> HIDE DEF g
      <4> QED
        BY <2>2, <4>1, <4>2
    <3> QED
      BY <3>1, <3>2
  <2>5. g = [i \in 1 .. k + 1 |-> g[i]]
    OBVIOUS
  <2> HIDE DEF g
  <2>6. IsFlat(g, k + 1)
    BY <2>4, <2>5
  <2> HIDE DEF IsFlat
  <2> QED
    BY <2>6
<1>3. n \in S
  <2> HIDE DEF S
  <2>1. 0 .. n \subseteq S
    BY <1>1, <1>2, SetInduction
  <2> QED
    BY <2>1
<1>4. \E f : f = [i \in 1 .. n |-> IF i = 1 THEN ss[i] ELSE f[i - 1] \o ss[i]]
  BY <1>3
<1> QED
  BY <1>4 DEF FlatUpTo

LEMMA FlattenIsFlat ==
    ASSUME NEW ss, Len(ss) # 0
    PROVE  FlattenSeq(ss) = FlatUpTo(ss, Len(ss))[Len(ss)]
BY DEF FlattenSeq, FlatUpTo

\* What FlattenSeq does with one sequence more.
LEMMA FlatSteps ==
    ASSUME NEW ss, NEW n \in Nat
    PROVE  /\ n # 0 => FlatUpTo(ss, n)[1] = ss[1]
           /\ \A k \in 1 .. n - 1 :
                 FlatUpTo(ss, n)[k + 1] = FlatUpTo(ss, n)[k] \o ss[k + 1]
<1> DEFINE f == FlatUpTo(ss, n)
<1>1. f = [i \in 1 .. n |-> IF i = 1 THEN ss[i] ELSE f[i - 1] \o ss[i]]
  BY FlatUpToExists
<1> HIDE DEF f
<1>2. n # 0 => f[1] = ss[1]
  BY <1>1
<1>3. ASSUME NEW k \in 1 .. n - 1 PROVE f[k + 1] = f[k] \o ss[k + 1]
  <2>1. k + 1 \in 1 .. n /\ k + 1 # 1 /\ (k + 1) - 1 = k
    OBVIOUS
  <2> QED
    BY <1>1, <2>1
<1> QED
  BY <1>2, <1>3 DEF f

\* The elements of a sequence.
Elements(s) == { s[i] : i \in 1 .. Len(s) }

\* No element is there twice.
NoRepeats(s) == \A i, j \in 1 .. Len(s) : s[i] = s[j] => i = j

LEMMA ElementsOfConcat ==
    ASSUME NEW S, NEW s \in Seq(S), NEW t \in Seq(S)
    PROVE  /\ Elements(s \o t) = Elements(s) \cup Elements(t)
           /\ NoRepeats(s) /\ NoRepeats(t) /\ Elements(s) \cap Elements(t) = {}
                 => NoRepeats(s \o t)
<1> DEFINE m == Len(s)
           n == Len(t)
           c == s \o t
<1>1. /\ m \in Nat /\ n \in Nat /\ Len(c) = m + n
      /\ \A i \in 1 .. m : i \in 1 .. m + n /\ c[i] = s[i]
      /\ \A i \in 1 .. n : m + i \in 1 .. m + n /\ c[m + i] = t[i]
  <2>1. m \in Nat /\ n \in Nat
    BY LenProperties
  <2>2. Len(c) = m + n /\ \A i \in 1 .. m + n : c[i] = IF i <= m THEN s[i] ELSE t[i - m]
    BY ConcatProperties
  <2> HIDE DEF m, n, c
  <2>3. \A i \in 1 .. m : i \in 1 .. m + n /\ i <= m
    BY <2>1
  <2>4. \A i \in 1 .. n : m + i \in 1 .. m + n /\ ~ (m + i <= m) /\ (m + i) - m = i
    BY <2>1
  <2> QED
    BY <2>1, <2>2, <2>3, <2>4
<1> HIDE DEF m, n, c
<1>2. \A i \in 1 .. m + n : i \in 1 .. m \/ \E j \in 1 .. n : i = m + j
  <2> TAKE i \in 1 .. m + n
  <2>1. i \in 1 .. m \/ (i - m \in 1 .. n /\ i = m + (i - m))
    BY <1>1
  <2> QED
    BY <2>1
<1>3. Elements(c) = Elements(s) \cup Elements(t)
  <2>1. ASSUME NEW i \in 1 .. m + n PROVE c[i] \in Elements(s) \cup Elements(t)
    BY <1>1, <1>2 DEF Elements, m, n
  <2>2. ASSUME NEW i \in 1 .. m PROVE s[i] \in Elements(c)
    <3>1. i \in 1 .. Len(c) /\ c[i] = s[i]
      BY <1>1
    <3> QED
      BY <3>1 DEF Elements
  <2>3. ASSUME NEW i \in 1 .. n PROVE t[i] \in Elements(c)
    <3>1. m + i \in 1 .. Len(c) /\ c[m + i] = t[i]
      BY <1>1
    <3> QED
      BY <3>1 DEF Elements
  <2>4. Elements(c) \subseteq Elements(s) \cup Elements(t)
    BY <1>1, <2>1 DEF Elements
  <2>5. Elements(s) \subseteq Elements(c) /\ Elements(t) \subseteq Elements(c)
    BY <2>2, <2>3 DEF Elements, m, n
  <2> QED
    BY <2>4, <2>5
<1>4. ASSUME NoRepeats(s), NoRepeats(t), Elements(s) \cap Elements(t) = {} PROVE NoRepeats(c)
  <2> SUFFICES ASSUME NEW i \in 1 .. m + n, NEW j \in 1 .. m + n, c[i] = c[j] PROVE i = j
    BY <1>1 DEF NoRepeats
  <2>1. \A k \in 1 .. m, l \in 1 .. n : s[k] # t[l]
    BY <1>4 DEF Elements, m, n
  <2>2. CASE i \in 1 .. m /\ j \in 1 .. m
    BY <1>1, <1>4, <2>2 DEF NoRepeats, m
  <2>3. CASE i \in 1 .. m /\ j \notin 1 .. m
    <3>1. PICK k \in 1 .. n : j = m + k
      BY <1>2, <2>3
    <3>2. c[i] = s[i] /\ c[j] = t[k]
      BY <1>1, <2>3, <3>1
    <3> QED
      BY <2>1, <2>3, <3>2
  <2>4. CASE i \notin 1 .. m /\ j \in 1 .. m
    <3>1. PICK k \in 1 .. n : i = m + k
      BY <1>2, <2>4
    <3>2. c[j] = s[j] /\ c[i] = t[k]
      BY <1>1, <2>4, <3>1
    <3> QED
      BY <2>1, <2>4, <3>2
  <2>5. CASE i \notin 1 .. m /\ j \notin 1 .. m
    <3>1. PICK k \in 1 .. n, l \in 1 .. n : i = m + k /\ j = m + l
      BY <1>2, <2>5
    <3>2. t[k] = t[l]
      BY <1>1, <3>1
    <3>3. k = l
      BY <1>4, <3>2 DEF NoRepeats, n
    <3> QED
      BY <3>1, <3>3
  <2> QED
    BY <2>2, <2>3, <2>4, <2>5
<1> QED
  BY <1>3, <1>4 DEF c

\* FlattenSeq keeps what there is: the elements of each sequence, and none
\* twice if none was.
LEMMA FlattenElements ==
    ASSUME NEW S, NEW n \in Nat \ {0}, NEW ss \in [1 .. n -> Seq(S)]
    PROVE  /\ FlattenSeq(ss) \in Seq(S)
           /\ Elements(FlattenSeq(ss)) = UNION { Elements(ss[i]) : i \in 1 .. n }
           /\ (/\ \A i \in 1 .. n : NoRepeats(ss[i])
               /\ \A i, j \in 1 .. n : i # j => Elements(ss[i]) \cap Elements(ss[j]) = {})
                 => NoRepeats(FlattenSeq(ss))
<1> DEFINE f == FlatUpTo(ss, n)
           Apart == /\ \A i \in 1 .. n : NoRepeats(ss[i])
                    /\ \A i, j \in 1 .. n :
                          i # j => Elements(ss[i]) \cap Elements(ss[j]) = {}
           Good(k) == /\ f[k] \in Seq(S)
                      /\ Elements(f[k]) = UNION { Elements(ss[i]) : i \in 1 .. k }
                      /\ Apart => NoRepeats(f[k])
           T == { k \in 0 .. n : k = 0 \/ Good(k) }
<1>1. Len(ss) = n /\ FlattenSeq(ss) = f[n]
  <2>1. ss \in Seq(Seq(S))
    BY SeqDef
  <2>2. Len(ss) = n
    BY <2>1, LenProperties
  <2> QED
    BY <2>2, FlattenIsFlat
<1>2. f[1] = ss[1] /\ \A k \in 1 .. n - 1 : f[k + 1] = f[k] \o ss[k + 1]
  BY FlatSteps
<1> HIDE DEF f
<1>3. ASSUME NEW k \in 0 .. n - 1, k \in T PROVE k + 1 \in T
  <2>1. CASE k = 0
    <3>1. 1 \in 1 .. n /\ 1 .. 1 = {1}
      OBVIOUS
    <3>2. Good(1)
      BY <1>2, <3>1
    <3> HIDE DEF Good
    <3> QED
      BY <2>1, <3>1, <3>2
  <2>2. CASE k # 0
    <3>1. k \in 1 .. n - 1 /\ k + 1 \in 1 .. n /\ 1 .. k + 1 = (1 .. k) \cup {k + 1}
      BY <2>2
    <3>2. Good(k)
      BY <1>3, <2>2
    <3>3. f[k + 1] = f[k] \o ss[k + 1] /\ ss[k + 1] \in Seq(S)
      BY <1>2, <3>1
    <3>4. f[k + 1] \in Seq(S)
      BY <3>2, <3>3, ConcatProperties
    <3>5. Elements(f[k + 1]) = UNION { Elements(ss[i]) : i \in 1 .. k + 1 }
      <4>1. Elements(f[k + 1]) = Elements(f[k]) \cup Elements(ss[k + 1])
        BY <3>2, <3>3, ElementsOfConcat
      <4> QED
        BY <3>1, <3>2, <4>1
    <3>6. Apart => NoRepeats(f[k + 1])
      <4> SUFFICES ASSUME Apart PROVE NoRepeats(f[k + 1])
        OBVIOUS
      <4>1. NoRepeats(f[k]) /\ NoRepeats(ss[k + 1])
        BY <3>1, <3>2
      <4>2. \A i \in 1 .. k : Elements(ss[i]) \cap Elements(ss[k + 1]) = {}
        <5>1. \A i \in 1 .. k : i \in 1 .. n /\ i # k + 1
          BY <3>1
        <5> QED
          BY <3>1, <5>1
      <4>3. Elements(f[k]) \cap Elements(ss[k + 1]) = {}
        BY <3>2, <4>2
      <4> QED
        BY <3>2, <3>3, <4>1, <4>3, ElementsOfConcat
    <3>7. Good(k + 1)
      BY <3>4, <3>5, <3>6
    <3> HIDE DEF Good
    <3> QED
      BY <3>1, <3>7
  <2> QED
    BY <2>1, <2>2
<1>4. 0 \in T
  OBVIOUS
<1>5. n \in T
  <2> HIDE DEF T
  <2>1. 0 .. n \subseteq T
    BY <1>3, <1>4, SetInduction
  <2> QED
    BY <2>1
<1>6. Good(n)
  BY <1>5
<1> QED
  BY <1>1, <1>6
===============================================================================

----------------------------- MODULE LeastElements -----------------------------
(***************************************************************************)
(* Least and greatest elements, for the proofs that argue by induction:    *)
(* the least number, or a smallest set, that has not a property is looked  *)
(* at.                                                                     *)
(***************************************************************************)
EXTENDS FiniteSetTheorems, SequencesExt, TLAPS

\* A set of finite sets has one that contains no other: the least-number
\* principle for sets.
LEMMA SmallestSet ==
    ASSUME NEW T, T # {}, \A t \in T : IsFiniteSet(t)
    PROVE  \E t \in T : \A u \in T : u \subseteq t => u = t
<1>1. PICK s \in T : TRUE
    OBVIOUS
<1> DEFINE R == {u \in T : u \subseteq s}
<1>2. IsWellFoundedOn(StrictSubsetOrdering(s), SUBSET s)
  <2>1. FiniteSubsetsOf(s) = SUBSET s
      BY FS_FiniteSubsetsOfFinite
  <2> QED
      BY <2>1, FS_StrictSubsetOrderingWellFounded
<1>3. R \subseteq SUBSET s /\ R # {}
    BY <1>1
<1>4. PICK t \in R : \A u \in R : ~(<<u, t>> \in StrictSubsetOrdering(s))
  <2> HIDE DEF R
  <2>1. \A O, S : IsWellFoundedOn(O, S) /\ R \subseteq S =>
            \E t \in R : \A u \in R : ~(<<u, t>> \in O)
      BY <1>3, WFMin
  <2> QED
      BY <1>2, <1>3, <2>1
<1>5. \A u \in T : u \subseteq t => u = t
    BY <1>4 DEF StrictSubsetOrdering
<1> QED
    BY <1>4, <1>5

\* The least-number principle.
LEMMA LeastNatural ==
    ASSUME NEW S \in SUBSET Nat, S # {}
    PROVE  \E n \in S : \A m \in S : n <= m
<1>1. PICK k \in S : TRUE
    OBVIOUS
<1> DEFINE T == {1..m : m \in {i \in S : i <= k}}
<1>2. T # {} /\ \A t \in T : IsFiniteSet(t)
    BY <1>1, FS_Interval
<1>3. PICK t \in T : \A u \in T : u \subseteq t => u = t
  <2> HIDE DEF T
  <2> QED
      BY <1>2, SmallestSet
<1>4. PICK n \in S : n <= k /\ t = 1..n
    OBVIOUS
<1>5. ASSUME NEW m \in S, m < n PROVE FALSE
  <2>1. 1..m \in T
      BY <1>4, <1>5
  <2>2. n \in 1..n /\ n \notin 1..m
      BY <1>5
  <2>3. 1..m \subseteq 1..n
      BY <1>5
  <2> QED
      BY <1>3, <1>4, <2>1, <2>2, <2>3
<1> QED
    BY <1>5

\* A set of numbers that does not go beyond some number has a greatest element.
LEMMA GreatestNatural ==
    ASSUME NEW S \in SUBSET Nat, S # {}, NEW bound \in Nat, \A x \in S : x <= bound
    PROVE  \E n \in S : \A m \in S : m <= n
<1> DEFINE Above == {b \in Nat : \A x \in S : x <= b}
<1>1. PICK b \in Above : \A c \in Above : b <= c
    BY LeastNatural
<1>2. b \in S
  <2>1. SUFFICES ASSUME b \notin S PROVE FALSE
      OBVIOUS
  <2>2. \A x \in S : x < b
      BY <2>1
  <2>3. b - 1 \in Above
    <3>1. PICK x \in S : x < b
        BY <2>2
    <3> QED
        BY <2>2, <3>1
  <2> QED
      BY <1>1, <2>3
<1> QED
    BY <1>2

\* Counting up: what holds of 0, and of each number if of the one before, holds
\* of all up to n.
LEMMA CountingUp ==
    ASSUME NEW n \in Nat, NEW S, 0 \in S, \A k \in 1..n : k - 1 \in S => k \in S
    PROVE  \A k \in 0..n : k \in S
<1> DEFINE Bad == {k \in 0..n : k \notin S}
<1>1. SUFFICES ASSUME Bad # {} PROVE FALSE
    OBVIOUS
<1>2. PICK m \in Bad : \A k \in Bad : m <= k
    BY <1>1, LeastNatural, Bad \in SUBSET Nat
<1>3. m # 0 /\ m \in 1..n
    BY <1>2
<1>4. m - 1 \in 0..n /\ m - 1 \notin Bad
    BY <1>2, <1>3
<1> QED
    BY <1>2, <1>3, <1>4

\* A value that is changed step by step: the equations of the recursive function
\* that gives the value after each step have a solution, among the values V.
Iterates(f, b, g, n) == f = [k \in 0..n |-> IF k = 0 THEN b ELSE g[k][f[k - 1]]]

LEMMA IterationExists ==
    ASSUME NEW n \in Nat, NEW V, NEW b \in V, NEW g \in [1..n -> [V -> V]]
    PROVE  \E f \in [0..n -> V] : Iterates(f, b, g, n)
<1> DEFINE S == {m \in 0..n : \E f \in [0..m -> V] : Iterates(f, b, g, m)}
<1>1. 0 \in S
  <2> DEFINE f == [k \in 0..0 |-> b]
  <2>1. f = [k \in 0..0 |-> IF k = 0 THEN b ELSE g[k][f[k - 1]]]
      OBVIOUS
  <2>2. f \in [0..0 -> V] /\ Iterates(f, b, g, 0)
      BY <2>1 DEF Iterates
  <2> QED
      BY <2>2
<1>2. ASSUME NEW m \in 1..n, m - 1 \in S PROVE m \in S
  <2>1. PICK f \in [0..(m - 1) -> V] : Iterates(f, b, g, m - 1)
      BY <1>2
  <2> DEFINE e == [k \in 0..m |-> IF k = m THEN g[m][f[m - 1]] ELSE f[k]]
  <2>2. f[m - 1] \in V /\ g[m][f[m - 1]] \in V
      OBVIOUS
  <2>3. ASSUME NEW k \in 0..m
        PROVE  e[k] = (IF k = 0 THEN b ELSE g[k][e[k - 1]]) /\ e[k] \in V
    <3>1. CASE k = m
      <4>1. e[k] = g[m][f[m - 1]] /\ e[k - 1] = f[m - 1]
          BY <3>1
      <4> QED
          BY <2>2, <3>1, <4>1
    <3>2. CASE k # m
      <4>1. k \in 0..(m - 1) /\ e[k] = f[k] /\ (k # 0 => e[k - 1] = f[k - 1])
          BY <3>2
      <4>2. f[k] = IF k = 0 THEN b ELSE g[k][f[k - 1]]
          BY <2>1, <4>1 DEF Iterates
      <4> QED
          BY <4>1, <4>2
    <3> QED
        BY <3>1, <3>2
  <2>4. e = [k \in 0..m |-> IF k = 0 THEN b ELSE g[k][e[k - 1]]]
      BY <2>3
  <2>5. e \in [0..m -> V]
    <3>1. \A k \in 0..m : e[k] \in V
        BY <2>3
    <3> QED
        BY <3>1
  <2>6. Iterates(e, b, g, m)
      BY <2>4 DEF Iterates
  <2> QED
      BY <2>5, <2>6
<1>3. n \in S
  <2> HIDE DEF S
  <2>1. \A k \in 1..n : k - 1 \in S => k \in S
      BY <1>2
  <2>2. \A k \in 0..n : k \in S
      BY <1>1, <2>1, CountingUp
  <2> QED
      BY <2>2
<1> QED
    BY <1>3

-----------------------------------------------------------------------------
(* The elements of a sequence that are in a set, selected by a recursion.  *)

LEMMA ToSetAppend ==
    ASSUME NEW T, NEW a \in Seq(T), NEW x
    PROVE  ToSet(Append(a, x)) = ToSet(a) \cup {x}
<1>1. /\ DOMAIN Append(a, x) = DOMAIN a \cup {Len(a) + 1}
      /\ \A i \in DOMAIN a : Append(a, x)[i] = a[i]
      /\ Append(a, x)[Len(a) + 1] = x
    OBVIOUS
<1> QED
    BY <1>1 DEF ToSet

LEMMA ToSetConcat ==
    ASSUME NEW T, NEW a \in Seq(T), NEW b \in Seq(T)
    PROVE  a \o b \in Seq(T) /\ ToSet(a \o b) = ToSet(a) \cup ToSet(b)
<1>1. /\ a \o b \in Seq(T) /\ Len(a \o b) = Len(a) + Len(b)
      /\ \A i \in 1..(Len(a) + Len(b)) : (a \o b)[i] = IF i <= Len(a) THEN a[i] ELSE b[i - Len(a)]
    OBVIOUS
<1>2. PICK c : c = a \o b
    OBVIOUS
<1>3. /\ DOMAIN c = 1..(Len(a) + Len(b))
      /\ \A i \in 1..(Len(a) + Len(b)) : c[i] = IF i <= Len(a) THEN a[i] ELSE b[i - Len(a)]
    BY <1>1, <1>2
<1>4. ToSet(a) \subseteq ToSet(c)
  <2>1. \A i \in DOMAIN a : i \in DOMAIN c /\ c[i] = a[i]
      BY <1>3
  <2> QED
      BY <2>1 DEF ToSet
<1>5. ToSet(b) \subseteq ToSet(c)
  <2>1. \A i \in DOMAIN b : i + Len(a) \in DOMAIN c /\ c[i + Len(a)] = b[i]
      BY <1>3
  <2> QED
      BY <2>1 DEF ToSet
<1>6. ToSet(c) \subseteq ToSet(a) \cup ToSet(b)
  <2>1. \A i \in DOMAIN c : \/ i \in DOMAIN a /\ c[i] = a[i]
                            \/ i - Len(a) \in DOMAIN b /\ c[i] = b[i - Len(a)]
      BY <1>3
  <2> QED
      BY <2>1 DEF ToSet
<1> QED
    BY <1>1, <1>2, <1>4, <1>5, <1>6

\* a has the elements of s that are in S.
Selected(a, s, S, T) ==
    a \in Seq(T) /\ ToSet(a) = ToSet(s) \cap S /\ Len(a) <= Len(s)

Selecting(f, s, S) ==
    f = [k \in 0..Len(s) |-> IF k = 0 THEN <<>>
                             ELSE IF s[k] \in S THEN Append(f[k - 1], s[k]) ELSE f[k - 1]]

LEMMA SelectingExists ==
    ASSUME NEW T, NEW s \in Seq(T), NEW S
    PROVE  \E f : Selecting(f, s, S)
<1> DEFINE g == [k \in 1..Len(s) |-> [a \in Seq(T) |-> IF s[k] \in S THEN Append(a, s[k]) ELSE a]]
<1>1. g \in [1..Len(s) -> [Seq(T) -> Seq(T)]]
    OBVIOUS
<1>2. <<>> \in Seq(T) /\ Len(s) \in Nat
    OBVIOUS
<1>3. PICK f \in [0..Len(s) -> Seq(T)] : Iterates(f, <<>>, g, Len(s))
  <2> HIDE DEF g
  <2> QED
      BY <1>1, <1>2, IterationExists
<1>4. ASSUME NEW k \in 0..Len(s)
      PROVE  f[k] = IF k = 0 THEN <<>>
                    ELSE IF s[k] \in S THEN Append(f[k - 1], s[k]) ELSE f[k - 1]
  <2>1. f[k] = IF k = 0 THEN <<>> ELSE g[k][f[k - 1]]
    <3> HIDE DEF g
    <3> QED
        BY <1>3 DEF Iterates
  <2>2. k # 0 => k \in 1..Len(s) /\ f[k - 1] \in Seq(T)
      OBVIOUS
  <2> QED
      BY <2>1, <2>2
<1>5. Selecting(f, s, S)
  <2>1. f = [k \in 0..Len(s) |-> f[k]]
      OBVIOUS
  <2> HIDE DEF g
  <2> QED
      BY <1>4, <2>1 DEF Selecting
<1> QED
    BY <1>5

\* What the recursion selects, if it starts with nothing.
LEMMA SelectingSelects ==
    ASSUME NEW T, NEW s \in Seq(T), NEW S, NEW f, Selecting(f, s, S)
    PROVE  Selected(f[Len(s)], s, S, T)
<1> DEFINE G == {k \in 0..Len(s) : /\ f[k] \in Seq(T) /\ Len(f[k]) <= k
                                   /\ ToSet(f[k]) = {s[i] : i \in 1..k} \cap S}
<1>1. 0 \in G
  <2>1. f[0] = <<>>
      BY DEF Selecting
  <2>2. ToSet(<<>>) = {} /\ {s[i] : i \in 1..0} = {}
      BY DEF ToSet
  <2>3. f[0] \in Seq(T) /\ Len(f[0]) <= 0
      BY <2>1
  <2>4. ToSet(f[0]) = {s[i] : i \in 1..0} \cap S
      BY <2>1, <2>2
  <2>5. 0 \in 0..Len(s)
      OBVIOUS
  <2> QED
      BY <2>3, <2>4, <2>5
<1>2. ASSUME NEW k \in 1..Len(s), k - 1 \in G PROVE k \in G
  <2>0. k \in 0..Len(s) /\ k # 0
      OBVIOUS
  <2>1. f[k] = IF s[k] \in S THEN Append(f[k - 1], s[k]) ELSE f[k - 1]
      BY <2>0 DEF Selecting
  <2>2. PICK a : a = f[k - 1]
      OBVIOUS
  <2>3. a \in Seq(T) /\ Len(a) <= k - 1 /\ ToSet(a) = {s[i] : i \in 1..(k - 1)} \cap S
      BY <1>2, <2>2
  <2>4. {s[i] : i \in 1..k} = {s[i] : i \in 1..(k - 1)} \cup {s[k]}
      OBVIOUS
  <2>5. s[k] \in T
      OBVIOUS
  <2>6. CASE s[k] \in S
    <3>1. f[k] = Append(a, s[k])
        BY <2>1, <2>2, <2>6
    <3>2. ToSet(f[k]) = ToSet(a) \cup {s[k]}
        BY <2>3, <3>1, ToSetAppend
    <3>3. f[k] \in Seq(T) /\ Len(f[k]) <= k
        BY <2>3, <2>5, <3>1
    <3>4. ToSet(f[k]) = {s[i] : i \in 1..k} \cap S
        BY <2>3, <2>4, <2>6, <3>2
    <3> QED
        BY <2>0, <3>3, <3>4
  <2>7. CASE s[k] \notin S
      BY <2>1, <2>2, <2>3, <2>4, <2>7
  <2> QED
      BY <2>6, <2>7
<1>3. Len(s) \in G
  <2> HIDE DEF G
  <2>1. \A k \in 1..Len(s) : k - 1 \in G => k \in G
      BY <1>2
  <2>2. Len(s) \in Nat
      OBVIOUS
  <2>3. \A k \in 0..Len(s) : k \in G
      BY <1>1, <2>1, <2>2, CountingUp
  <2> QED
      BY <2>2, <2>3
<1>4. {s[i] : i \in 1..Len(s)} = ToSet(s)
    BY DEF ToSet
<1> QED
    BY <1>3, <1>4 DEF Selected
=============================================================================

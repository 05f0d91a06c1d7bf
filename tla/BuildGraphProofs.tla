--------------------------- MODULE BuildGraphProofs ---------------------------
(***************************************************************************)
(* For every number of targets and every set of requires lists the build   *)
(* order is sound, complete and the declared one, the stages are as early  *)
(* as can be, and the error is raised exactly for targets that wait on     *)
(* each other.  For every set of documents what the parser accepts can be  *)
(* built, and what it refuses has a fault or the cycle that is reported.   *)
(*                                                                         *)
(* And what a failed repair of a source leaves behind, for every set of    *)
(* transactions, managers, files and modules, every setup and every budget *)
(* (Healing).  Of staging the invariant says where the work of a           *)
(* transaction can be: in its own staged file, or, once it is promoted, in *)
(* production and whatever is copied from there.  Of the loop that edits   *)
(* in place it says what each phase has already put back.                  *)
(***************************************************************************)
EXTENDS Blueprint, Healing, LeastElements, FiniteSetTheorems, TLAPS

\* The entries of a target's list that are not resolved yet.
Open(n) == {i \in Declared(n) : requires[n][i] \notin Resolved}

CountsAreOpen == \A n \in Targets : indegree[n] = Cardinality(Open(n))

ReadyIsExact == ready = {n \in Targets \ Resolved : Open(n) = {}}

OneEach == IsFiniteSet(Resolved) /\ Cardinality(Resolved) = Len(resolved)

KnotsWait == \A S \in SUBSET Targets : Knot(S) => S \cap Resolved = {}

EndsAreRight ==
    /\ pc = "done" => Len(resolved) = N
    /\ pc = "cyclic" => ready = {} /\ Len(resolved) # N

Inv ==
    /\ GraphTypeOK /\ CountsAreOpen /\ ReadyIsExact /\ OrderRespectsRequires
    /\ OneEach /\ KnotsWait /\ EndsAreRight

-----------------------------------------------------------------------------
\* The lists are lists of names, and their places finitely many.
LEMMA ListsAreFinite ==
    ASSUME GraphTypeOK, NEW n \in Targets
    PROVE  /\ requires[n] \in Seq(0..N)
           /\ IsFiniteSet(Declared(n)) /\ IsFiniteSet(Open(n))
           /\ Open(n) \subseteq Declared(n)
<1>1. requires[n] \in Seq(0..N)
    BY DEF GraphTypeOK
<1>2. DOMAIN requires[n] = 1..Len(requires[n]) /\ Len(requires[n]) \in Nat
    BY <1>1
<1>3. IsFiniteSet(DOMAIN requires[n])
    BY <1>2, FS_Interval
<1>4. Declared(n) \subseteq DOMAIN requires[n] /\ Open(n) \subseteq Declared(n)
    BY DEF Declared, Open
<1> QED
    BY <1>1, <1>3, <1>4, FS_Subset

\* Appending an element adds it to the elements of a sequence.
LEMMA AppendedElements ==
    ASSUME NEW S, NEW s \in Seq(S), NEW x \in S
    PROVE  /\ Append(s, x) \in Seq(S) /\ Len(Append(s, x)) = Len(s) + 1
           /\ DOMAIN s = 1..Len(s) /\ Len(s) \in Nat
           /\ \A k \in DOMAIN s : Append(s, x)[k] = s[k]
           /\ Append(s, x)[Len(s) + 1] = x
           /\ DOMAIN Append(s, x) = DOMAIN s \cup {Len(s) + 1}
           /\ {Append(s, x)[k] : k \in DOMAIN Append(s, x)}
                = {s[k] : k \in DOMAIN s} \cup {x}
<1>1. /\ Append(s, x) \in Seq(S) /\ Len(Append(s, x)) = Len(s) + 1
      /\ DOMAIN s = 1..Len(s) /\ Len(s) \in Nat
      /\ \A k \in 1..Len(s) : Append(s, x)[k] = s[k]
      /\ Append(s, x)[Len(s) + 1] = x
    OBVIOUS
<1>2. DOMAIN Append(s, x) = 1..(Len(s) + 1)
    BY <1>1
<1>3. 1..(Len(s) + 1) = 1..Len(s) \cup {Len(s) + 1}
    BY <1>1
<1> QED
    BY <1>1, <1>2, <1>3

-----------------------------------------------------------------------------
\* At the start nothing is resolved, and all declared entries are open.
LEMMA BegunInv == requires \in [Targets -> Seq(0..N)] /\ Begun => Inv
<1> SUFFICES ASSUME requires \in [Targets -> Seq(0..N)], Begun PROVE Inv
    OBVIOUS
<1>1. resolved \in Seq(Targets) /\ DOMAIN resolved = {} /\ Len(resolved) = 0
    BY DEF Begun
<1>2. Resolved = {}
    BY <1>1 DEF Resolved
<1>3. \A n \in Targets : Open(n) = Declared(n)
    BY <1>2 DEF Open
<1>4. \A n \in Targets : IsFiniteSet(Declared(n))
  <2> TAKE n \in Targets
  <2>1. requires[n] \in Seq(0..N)
      OBVIOUS
  <2>2. DOMAIN requires[n] = 1..Len(requires[n]) /\ Len(requires[n]) \in Nat
      BY <2>1
  <2>3. Declared(n) \subseteq DOMAIN requires[n]
      BY DEF Declared
  <2>4. IsFiniteSet(DOMAIN requires[n])
      BY <2>2, FS_Interval
  <2> QED
      BY <2>3, <2>4, FS_Subset
<1>5. GraphTypeOK
    BY <1>1, <1>4, FS_CardinalityType DEF GraphTypeOK, Begun
<1>6. CountsAreOpen
    BY <1>3 DEF CountsAreOpen, Begun
<1>7. ReadyIsExact
    BY <1>2, <1>3, <1>4, FS_EmptySet DEF ReadyIsExact, Begun
<1>8. OrderRespectsRequires
    BY <1>1 DEF OrderRespectsRequires
<1>9. OneEach
    BY <1>1, <1>2, FS_EmptySet DEF OneEach
<1>10. KnotsWait
    BY <1>2 DEF KnotsWait
<1>11. EndsAreRight
    BY DEF EndsAreRight, Begun
<1> QED
    BY <1>5, <1>6, <1>7, <1>8, <1>9, <1>10, <1>11 DEF Inv

LEMMA InitInv == GraphInit => Inv
    BY BegunInv, GraphAssumption DEF GraphInit

\* A resolved target has no open entry: all it requires was resolved before it.
LEMMA ResolvedHaveNoOpen ==
    ASSUME Inv, NEW n \in Resolved
    PROVE  Open(n) = {}
<1>1. PICK k \in DOMAIN resolved : resolved[k] = n
    BY DEF Resolved
<1>2. resolved \in Seq(Targets)
    BY DEF Inv, GraphTypeOK
<1>3. \A d \in Dependencies(n) : \E j \in 1..(k - 1) : resolved[j] = d
    BY <1>1 DEF Inv, OrderRespectsRequires
<1>4. k \in Nat /\ 1..(k - 1) \subseteq DOMAIN resolved
    BY <1>1, <1>2
<1>5. Dependencies(n) \subseteq Resolved
    BY <1>3, <1>4 DEF Resolved
<1> QED
    BY <1>5 DEF Open, Dependencies

-----------------------------------------------------------------------------
\* Resolving the first ready target preserves the invariant.
LEMMA ResolveInv == Inv /\ Resolve => Inv'
<1> SUFFICES ASSUME Inv, Resolve PROVE Inv'
    OBVIOUS
<1>1. PICK c \in ready : resolved' = Append(resolved, c) /\ Release(c)
    BY DEF Resolve
<1>2. /\ GraphTypeOK /\ CountsAreOpen /\ ReadyIsExact /\ OrderRespectsRequires
      /\ OneEach /\ KnotsWait
    BY DEF Inv
<1>3. requires' = requires /\ pc' = pc /\ pc = "sorting"
    BY DEF Resolve
<1>4. c \in Targets /\ c \notin Resolved /\ Open(c) = {}
    BY <1>2 DEF ReadyIsExact
<1>5. resolved \in Seq(Targets) /\ requires \in [Targets -> Seq(0..N)] /\ indegree \in [Targets -> Nat]
    BY <1>2 DEF GraphTypeOK
<1>6. /\ resolved' \in Seq(Targets) /\ Len(resolved') = Len(resolved) + 1
      /\ DOMAIN resolved = 1..Len(resolved) /\ Len(resolved) \in Nat
      /\ \A k \in DOMAIN resolved : resolved'[k] = resolved[k]
      /\ resolved'[Len(resolved) + 1] = c
      /\ DOMAIN resolved' = DOMAIN resolved \cup {Len(resolved) + 1}
      /\ {resolved'[k] : k \in DOMAIN resolved'} = {resolved[k] : k \in DOMAIN resolved} \cup {c}
    BY <1>1, <1>4, <1>5, AppendedElements
<1>7. Resolved' = Resolved \cup {c}
    BY <1>6 DEF Resolved
<1>8. ASSUME NEW n \in Targets
      PROVE  /\ Declared(n)' = Declared(n) /\ Dependencies(n)' = Dependencies(n)
             /\ Uses(n, c) \subseteq Open(n)
             /\ Open(n)' = Open(n) \ Uses(n, c)
             /\ IsFiniteSet(Open(n)) /\ IsFiniteSet(Open(n)')
             /\ Cardinality(Open(n)') = indegree[n] - Cardinality(Uses(n, c))
             /\ Cardinality(Open(n)') \in Nat
  <2>1. Declared(n)' = Declared(n) /\ Dependencies(n)' = Dependencies(n)
      BY <1>3 DEF Declared, Dependencies
  <2>2. Uses(n, c) \subseteq Open(n)
      BY <1>4 DEF Uses, Open, Declared
  <2>3. Open(n)' = Open(n) \ Uses(n, c)
      BY <1>3, <1>7, <2>1 DEF Open, Uses, Declared
  <2>4. IsFiniteSet(Open(n))
      BY <1>2, ListsAreFinite
  <2>5. Open(n) \cap Uses(n, c) = Uses(n, c)
      BY <2>2
  <2>6. /\ IsFiniteSet(Open(n) \ Uses(n, c))
        /\ Cardinality(Open(n) \ Uses(n, c)) = Cardinality(Open(n)) - Cardinality(Uses(n, c))
      BY <2>4, <2>5, FS_Difference
  <2>7. Cardinality(Open(n) \ Uses(n, c)) \in Nat
      BY <2>6, FS_CardinalityType
  <2>8. indegree[n] = Cardinality(Open(n))
      BY <1>2 DEF CountsAreOpen
  <2> HIDE DEF Open, Uses, Declared, Dependencies
  <2> QED
      BY <2>1, <2>2, <2>3, <2>4, <2>6, <2>7, <2>8
<1>9. /\ indegree' = [n \in Targets |-> indegree[n] - Cardinality(Uses(n, c))]
      /\ ready' = (ready \ {c})
                    \cup {n \in Targets : Uses(n, c) # {} /\ indegree'[n] = 0}
    BY <1>1 DEF Release
<1>10. \A n \in Targets : indegree'[n] = Cardinality(Open(n)')
    BY <1>8, <1>9
<1>11. GraphTypeOK'
  <2>1. \A n \in Targets : indegree[n] - Cardinality(Uses(n, c)) \in Nat
      BY <1>8
  <2>2. indegree' \in [Targets -> Nat]
      BY <1>9, <2>1
  <2>3. ready' \subseteq Targets
      BY <1>2, <1>9 DEF GraphTypeOK
  <2> QED
      BY <1>3, <1>5, <1>6, <2>2, <2>3 DEF GraphTypeOK
<1>12. CountsAreOpen'
    BY <1>10 DEF CountsAreOpen
<1>13. ReadyIsExact'
  <2>1. ASSUME NEW n \in Targets
        PROVE  n \in ready' <=> n \notin Resolved' /\ Open(n)' = {}
    <3>1. indegree'[n] = 0 <=> Open(n)' = {}
        BY <1>8, <1>10, FS_EmptySet
    <3>2. n \in ready <=> n \notin Resolved /\ Open(n) = {}
        BY <1>2 DEF ReadyIsExact
    <3>3. CASE Uses(n, c) = {}
      <4>1. Open(n)' = Open(n)
          BY <1>8, <3>3
      <4> QED
          BY <1>7, <1>9, <3>2, <3>3, <4>1
    <3>4. CASE Uses(n, c) # {}
      <4>1. Open(n) # {}
          BY <1>8, <3>4
      <4>2. n \notin Resolved
          BY <4>1, ResolvedHaveNoOpen
      <4>3. n # c
          BY <1>4, <4>1
      <4> QED
          BY <1>7, <1>9, <3>1, <3>2, <3>4, <4>1, <4>2, <4>3
    <3> QED
        BY <3>3, <3>4
  <2>2. ready' \subseteq Targets
      BY <1>11 DEF GraphTypeOK
  <2> QED
      BY <2>1, <2>2 DEF ReadyIsExact
<1>14. Dependencies(c) \subseteq Resolved
    BY <1>4 DEF Open, Dependencies
<1>15. OrderRespectsRequires'
  <2> SUFFICES ASSUME NEW k \in DOMAIN resolved'
               PROVE  /\ \A d \in Dependencies(resolved'[k]) : \E j \in 1..(k - 1) : resolved'[j] = d
                      /\ \A j \in 1..(k - 1) : resolved'[j] # resolved'[k]
      BY <1>3 DEF OrderRespectsRequires, Dependencies, Declared
  <2>1. CASE k \in DOMAIN resolved
    <3>1. 1..(k - 1) \subseteq DOMAIN resolved /\ resolved'[k] = resolved[k]
        BY <1>6, <2>1
    <3>2. /\ \A d \in Dependencies(resolved[k]) : \E j \in 1..(k - 1) : resolved[j] = d
          /\ \A j \in 1..(k - 1) : resolved[j] # resolved[k]
        BY <1>2, <2>1 DEF OrderRespectsRequires
    <3>3. \A j \in 1..(k - 1) : resolved'[j] = resolved[j]
        BY <1>6, <3>1
    <3> QED
        BY <3>1, <3>2, <3>3
  <2>2. CASE k = Len(resolved) + 1
    <3>1. resolved'[k] = c /\ 1..(k - 1) = DOMAIN resolved
        BY <1>6, <2>2
    <3>2. \A d \in Dependencies(c) : \E j \in DOMAIN resolved : resolved[j] = d
        BY <1>14 DEF Resolved
    <3>3. \A j \in DOMAIN resolved : resolved[j] # c
        BY <1>4 DEF Resolved
    <3> QED
        BY <1>6, <3>1, <3>2, <3>3
  <2> QED
      BY <1>6, <2>1, <2>2
<1>16. OneEach'
    BY <1>2, <1>4, <1>6, <1>7, FS_AddElement DEF OneEach
<1>17. KnotsWait'
  <2> SUFFICES ASSUME NEW S \in SUBSET Targets, Knot(S)'
               PROVE  S \cap Resolved' = {}
      BY DEF KnotsWait
  <2>1. Knot(S)
      BY <1>3 DEF Knot, Dependencies, Declared
  <2>2. S \cap Resolved = {}
      BY <1>2, <2>1 DEF KnotsWait
  <2>3. c \notin S
      BY <1>14, <2>1, <2>2 DEF Knot
  <2> QED
      BY <1>7, <2>2, <2>3
<1>18. EndsAreRight'
    BY <1>3 DEF EndsAreRight
<1> QED
    BY <1>11, <1>12, <1>13, <1>15, <1>16, <1>17, <1>18 DEF Inv

\* The end of the loop, and stuttering, preserve the invariant.
LEMMA ReturnInv == Inv /\ (Return \/ UNCHANGED vars) => Inv'
<1> SUFFICES ASSUME Inv, Return \/ UNCHANGED vars PROVE Inv'
    OBVIOUS
<1>1. UNCHANGED <<requires, indegree, ready, resolved>>
    BY DEF Return, vars
<1>2. pc' = pc \/ (ready = {} /\ pc' = IF Len(resolved) = N THEN "done" ELSE "cyclic")
    BY DEF Return, vars
<1>3. GraphTypeOK'
    BY <1>1, <1>2 DEF Inv, GraphTypeOK
<1>4. EndsAreRight'
    BY <1>1, <1>2 DEF Inv, EndsAreRight
<1>5. Resolved' = Resolved /\ \A n \in Targets :
            Open(n)' = Open(n) /\ Dependencies(n)' = Dependencies(n)
    BY <1>1 DEF Resolved, Open, Declared, Dependencies
<1>6. CountsAreOpen' /\ ReadyIsExact' /\ OneEach'
    BY <1>1, <1>5 DEF Inv, CountsAreOpen, ReadyIsExact, OneEach
<1>7. OrderRespectsRequires'
    BY <1>1 DEF Inv, OrderRespectsRequires, Dependencies, Declared
<1>8. KnotsWait'
  <2> SUFFICES ASSUME NEW S \in SUBSET Targets, Knot(S)'
               PROVE  S \cap Resolved' = {}
      BY DEF KnotsWait
  <2>1. Knot(S)
      BY <1>1 DEF Knot, Dependencies, Declared
  <2> QED
      BY <1>5, <2>1 DEF Inv, KnotsWait
<1> QED
    BY <1>3, <1>4, <1>6, <1>7, <1>8 DEF Inv

\* The error and the success are both right.
LEMMA InvImpliesErrorMeansCycle == Inv => ErrorMeansCycle
<1> SUFFICES ASSUME Inv PROVE ErrorMeansCycle
    OBVIOUS
<1>1. /\ Resolved \subseteq Targets /\ IsFiniteSet(Targets) /\ Cardinality(Targets) = N
      /\ IsFiniteSet(Resolved) /\ Cardinality(Resolved) = Len(resolved)
  <2>1. Resolved \subseteq Targets
      BY DEF Inv, GraphTypeOK, Resolved
  <2>2. IsFiniteSet(1..N) /\ Cardinality(1..N) = N
      BY FS_Interval, GraphAssumption
  <2> QED
      BY <2>1, <2>2 DEF Targets, Inv, OneEach
<1>2. ASSUME pc = "cyclic"
      PROVE  Knot(Targets \ Resolved)
  <2>1. ready = {} /\ Len(resolved) # N
      BY <1>2 DEF Inv, EndsAreRight
  <2>2. Targets \ Resolved # {}
    <3>1. Resolved # Targets
        BY <1>1, <2>1
    <3> QED
        BY <1>1, <3>1
  <2>3. \A n \in Targets \ Resolved : Open(n) # {}
      BY <2>1 DEF Inv, ReadyIsExact
  <2>4. \A n \in Targets \ Resolved : Dependencies(n) \cap (Targets \ Resolved) # {}
      BY <2>3 DEF Open, Declared, Dependencies
  <2> QED
      BY <2>2, <2>4 DEF Knot
<1>3. ASSUME pc = "done", NEW S \in SUBSET Targets, Knot(S)
      PROVE  FALSE
  <2>1. Resolved = Targets
      BY <1>1, <1>3, FS_Subset DEF Inv, EndsAreRight
  <2>2. S # {} /\ S \cap Resolved = {}
      BY <1>3 DEF Inv, KnotsWait, Knot
  <2> QED
      BY <2>1, <2>2
<1> QED
    BY <1>2, <1>3 DEF ErrorMeansCycle

-----------------------------------------------------------------------------
\* What is ready next is the first declared of all that could come next.
LEMMA ResolveKeepsDeclarationOrder ==
    ASSUME Inv, DeclarationOrderIsKept, Resolve
    PROVE  DeclarationOrderIsKept'
<1>1. PICK c \in ready : /\ \A other \in ready : c <= other
                         /\ resolved' = Append(resolved, c)
    BY DEF Resolve
<1>2. requires' = requires /\ \A n : Dependencies(n)' = Dependencies(n)
    BY DEF Resolve, Dependencies, Declared
<1>3. c \in Targets /\ resolved \in Seq(Targets)
    BY DEF Inv, GraphTypeOK
<1>4. /\ DOMAIN resolved = 1..Len(resolved) /\ Len(resolved) \in Nat
      /\ \A k \in DOMAIN resolved : resolved'[k] = resolved[k]
      /\ resolved'[Len(resolved) + 1] = c
      /\ DOMAIN resolved' = DOMAIN resolved \cup {Len(resolved) + 1}
    BY <1>1, <1>3, AppendedElements
<1> DEFINE earlier(k) == {resolved[j] : j \in 1..(k - 1)}
<1>5. \A k \in DOMAIN resolved' : 1..(k - 1) \subseteq DOMAIN resolved
    BY <1>4
<1>6. \A k \in DOMAIN resolved' : {resolved'[j] : j \in 1..(k - 1)} = earlier(k)
    BY <1>4, <1>5
<1>7. ASSUME NEW k \in DOMAIN resolved', NEW n \in Targets \ earlier(k),
             Dependencies(n) \subseteq earlier(k)
      PROVE  resolved'[k] <= n
  <2>1. CASE k \in DOMAIN resolved
      BY <1>4, <1>7, <2>1 DEF DeclarationOrderIsKept
  <2>2. CASE k = Len(resolved) + 1
    <3>1. earlier(k) = Resolved
        BY <1>4, <2>2 DEF Resolved
    <3>2. n \notin Resolved /\ Open(n) = {}
        BY <1>7, <3>1 DEF Open, Dependencies
    <3>3. n \in ready
        BY <3>2 DEF Inv, ReadyIsExact
    <3> QED
        BY <1>1, <1>4, <2>2, <3>3
  <2> QED
      BY <1>4, <2>1, <2>2
<1> QED
    BY <1>2, <1>6, <1>7 DEF DeclarationOrderIsKept

-----------------------------------------------------------------------------
\* A set of numbers that does not go beyond some number has a greatest element.
LEMMA GreatestIsGreatest ==
    ASSUME NEW S \in SUBSET Nat, S # {}, NEW bound \in Nat, \A x \in S : x <= bound
    PROVE  Greatest(S) \in S /\ \A x \in S : x <= Greatest(S)
    BY GreatestNatural DEF Greatest

\* The equations of StageOf for the first n places.
Staged(f, n) == f = [k \in 1..n |-> Greatest({0} \cup {f[j] + 1 : j \in Places(k)})]

\* The equations have a solution: a stage depends on stages of earlier places.
LEMMA StagesExist ==
    ASSUME NEW n \in Nat
    PROVE  \E f : Staged(f, n)
<1> DEFINE Bad == {m \in Nat : ~\E f : Staged(f, m)}
<1>1. SUFFICES ASSUME Bad # {} PROVE FALSE
    OBVIOUS
<1>2. PICK m \in Bad : \A k \in Bad : m <= k
    BY <1>1, LeastNatural
<1>3. m # 0
  <2>1. Staged([k \in 1..0 |-> 0], 0)
      BY DEF Staged
  <2> QED
      BY <2>1
<1>4. m - 1 \in Nat /\ m - 1 \notin Bad
    BY <1>2, <1>3
<1>5. PICK f : Staged(f, m - 1)
    BY <1>4
<1> DEFINE top == Greatest({0} \cup {f[j] + 1 : j \in Places(m)})
           g == [k \in 1..m |-> IF k = m THEN top ELSE f[k]]
<1>6. ASSUME NEW k \in 1..m
      PROVE  g[k] = Greatest({0} \cup {g[j] + 1 : j \in Places(k)})
  <2>1. \A j \in Places(k) : j \in 1..m /\ j # m
      BY DEF Places
  <2>2. {g[j] + 1 : j \in Places(k)} = {f[j] + 1 : j \in Places(k)}
      BY <2>1
  <2>3. CASE k = m
      BY <2>2, <2>3
  <2>4. CASE k # m
    <3>1. k \in 1..(m - 1)
        BY <2>4
    <3>2. f[k] = Greatest({0} \cup {f[j] + 1 : j \in Places(k)})
        BY <1>5, <3>1 DEF Staged
    <3> QED
        BY <2>2, <2>4, <3>2
  <2> QED
      BY <2>3, <2>4
<1>7. g = [k \in 1..m |-> Greatest({0} \cup {g[j] + 1 : j \in Places(k)})]
    BY <1>6
<1>8. Staged(g, m)
    BY <1>7 DEF Staged
<1> QED
    BY <1>8

\* levels() gives every place the least stage after those of what it requires.
LEMMA StageOfIsLeast ==
    ASSUME resolved \in Seq(Targets)
    PROVE  \A k \in DOMAIN resolved :
             /\ StageOf[k] \in Nat /\ StageOf[k] < k
             /\ \A j \in Places(k) : StageOf[j] < StageOf[k]
             /\ StageOf[k] = 0 \/ \E j \in Places(k) : StageOf[k] = StageOf[j] + 1
<1>1. DOMAIN resolved = 1..Len(resolved) /\ Len(resolved) \in Nat
    OBVIOUS
<1> DEFINE f == StageOf
<1>2. Staged(f, Len(resolved))
  <2>1. StageOf = CHOOSE g : Staged(g, Len(resolved))
      BY <1>1 DEF StageOf, Staged
  <2> QED
      BY <1>1, <2>1, StagesExist
<1>3. \A k \in 1..Len(resolved) : f[k] = Greatest({0} \cup {f[j] + 1 : j \in Places(k)})
    BY <1>2 DEF Staged
<1> DEFINE Right(k) ==
             /\ f[k] \in Nat /\ f[k] < k
             /\ \A j \in Places(k) : f[j] < f[k]
             /\ f[k] = 0 \/ \E j \in Places(k) : f[k] = f[j] + 1
           Bad == {k \in 1..Len(resolved) : ~Right(k)}
<1> HIDE DEF f
<1>4. SUFFICES ASSUME Bad # {} PROVE FALSE
    BY <1>1 DEF f
<1>5. PICK k \in Bad : \A m \in Bad : k <= m
    BY <1>4, LeastNatural, Bad \in SUBSET Nat
<1> DEFINE S == {0} \cup {f[j] + 1 : j \in Places(k)}
<1>6. ASSUME NEW j \in Places(k)
      PROVE  f[j] \in Nat /\ f[j] + 1 <= k - 1
  <2>1. j \in 1..Len(resolved) /\ j < k
      BY DEF Places
  <2>2. Right(j)
      BY <1>5, <2>1
  <2> QED
      BY <2>1, <2>2
<1>7. S \in SUBSET Nat /\ S # {} /\ k - 1 \in Nat /\ \A x \in S : x <= k - 1
    BY <1>6
<1>8. f[k] = Greatest(S)
    BY <1>3
<1>9. f[k] \in S /\ \A x \in S : x <= f[k]
    BY <1>7, <1>8, GreatestIsGreatest
<1>10. Right(k)
  <2>1. f[k] \in Nat /\ f[k] < k
      BY <1>7, <1>9
  <2>2. \A j \in Places(k) : f[j] < f[k]
      BY <1>6, <1>9, <2>1
  <2>3. f[k] = 0 \/ \E j \in Places(k) : f[k] = f[j] + 1
      BY <1>9
  <2> QED
      BY <2>1, <2>2, <2>3
<1> QED
    BY <1>10

\* In a finished order each stage is all that the stages before it allow.
LEMMA InvImpliesStagesAreEarliest == Inv => StagesAreEarliest
<1> SUFFICES ASSUME Inv, pc = "done", NEW s \in 0..N
             PROVE  LET built == UNION {Level(i) : i \in 0..(s - 1)}
                    IN  Level(s) = {n \in Targets \ built : Dependencies(n) \subseteq built}
    BY DEF StagesAreEarliest
<1> DEFINE built == UNION {Level(i) : i \in 0..(s - 1)}
<1>1. resolved \in Seq(Targets) /\ DOMAIN resolved = 1..Len(resolved) /\ Len(resolved) = N
    BY DEF Inv, GraphTypeOK, EndsAreRight
<1>2. \A k \in DOMAIN resolved :
        /\ StageOf[k] \in Nat /\ StageOf[k] < k
        /\ \A j \in Places(k) : StageOf[j] < StageOf[k]
        /\ StageOf[k] = 0 \/ \E j \in Places(k) : StageOf[k] = StageOf[j] + 1
    BY <1>1, StageOfIsLeast
<1>3. \A k \in DOMAIN resolved : resolved[k] \in built <=> StageOf[k] < s
  <2>1. \A j, k \in DOMAIN resolved : resolved[j] = resolved[k] => j = k
    <3>1. \A k \in DOMAIN resolved : \A j \in 1..(k - 1) : resolved[j] # resolved[k]
        BY DEF Inv, OrderRespectsRequires
    <3>2. \A j, k \in DOMAIN resolved : j \in 1..(k - 1) \/ k \in 1..(j - 1) \/ j = k
        BY <1>1
    <3> QED
        BY <3>1, <3>2
  <2>2. \A k \in DOMAIN resolved : \A i : resolved[k] \in Level(i) <=> StageOf[k] = i
      BY <2>1 DEF Level
  <2> TAKE k \in DOMAIN resolved
  <2>3. resolved[k] \in built <=> \E i \in 0..(s - 1) : StageOf[k] = i
      BY <2>2
  <2>4. StageOf[k] \in Nat
      BY <1>2
  <2>5. \A i \in Nat : i \in 0..(s - 1) <=> i < s
      BY GraphAssumption
  <2> QED
      BY <2>3, <2>4, <2>5
<1>4. \A n \in Targets : \E k \in DOMAIN resolved : resolved[k] = n
  <2>1. Resolved \subseteq Targets
      BY <1>1 DEF Resolved
  <2>2. IsFiniteSet(Targets) /\ Cardinality(Targets) = N
      BY FS_Interval, GraphAssumption DEF Targets
  <2>3. Resolved = Targets
      BY <1>1, <2>1, <2>2, FS_Subset DEF Inv, OneEach
  <2> QED
      BY <2>3 DEF Resolved
<1>5. \A k \in DOMAIN resolved :
        Dependencies(resolved[k]) \subseteq built <=> StageOf[k] <= s
  <2> TAKE k \in DOMAIN resolved
  <2>1. Dependencies(resolved[k]) = {resolved[j] : j \in Places(k)}
    <3>1. \A d \in Dependencies(resolved[k]) : \E j \in 1..(k - 1) : resolved[j] = d
        BY DEF Inv, OrderRespectsRequires
    <3> QED
        BY <3>1 DEF Places
  <2>2. Places(k) \subseteq DOMAIN resolved
      BY <1>1 DEF Places
  <2>3. Dependencies(resolved[k]) \subseteq built <=> \A j \in Places(k) : StageOf[j] < s
      BY <1>3, <2>1, <2>2
  <2> QED
      BY <1>2, <2>2, <2>3
<1>6. \A n \in Targets : n \in Level(s) <=> n \notin built /\ Dependencies(n) \subseteq built
  <2> TAKE n \in Targets
  <2>1. PICK k \in DOMAIN resolved : resolved[k] = n
      BY <1>4
  <2>2. n \in Level(s) <=> StageOf[k] = s
    <3>1. \A j \in DOMAIN resolved : resolved[j] = n => StageOf[j] = StageOf[k]
      <4>1. \A j \in DOMAIN resolved : j \in 1..(k - 1) \/ k \in 1..(j - 1) \/ j = k
          BY <1>1
      <4> QED
          BY <2>1, <4>1 DEF Inv, OrderRespectsRequires
    <3> QED
        BY <2>1, <3>1 DEF Level
  <2> QED
      BY <1>2, <1>3, <1>5, <2>1, <2>2
<1>7. Level(s) \subseteq Targets
    BY <1>1 DEF Level
<1> QED
    BY <1>6, <1>7

-----------------------------------------------------------------------------
\* The invariant holds throughout.
LEMMA InvHolds == GraphSpec => []Inv
<1>1. Inv /\ [GraphNext]_vars => Inv'
    BY ResolveInv, ReturnInv DEF GraphNext
<1> QED
    BY InitInv, <1>1, PTL DEF GraphSpec

\* Types: in particular no indegree is ever taken below zero, whatever is
\* listed twice.
THEOREM TypesAreRight == GraphSpec => []GraphTypeOK
<1>1. Inv => GraphTypeOK
    BY DEF Inv
<1> QED
    BY InvHolds, <1>1, PTL

\* Every target comes after all it requires, and once.
THEOREM OrderIsSound == GraphSpec => []OrderRespectsRequires
<1>1. Inv => OrderRespectsRequires
    BY DEF Inv
<1> QED
    BY InvHolds, <1>1, PTL

\* CyclicDependencyError is raised exactly when targets wait on each other.
THEOREM CyclesAreReported == GraphSpec => []ErrorMeansCycle
    BY InvHolds, InvImpliesErrorMeansCycle, PTL

\* Order and stages are those of the blueprint in every run: what comes next is
\* the first declared of what could come next, and stages are as early as can be.
THEOREM OrderIsDeclared == GraphSpec => []OrderIsStable
<1>1. GraphInit => DeclarationOrderIsKept
    BY DEF GraphInit, Begun, DeclarationOrderIsKept
<1>2. Inv /\ DeclarationOrderIsKept /\ [GraphNext]_vars => DeclarationOrderIsKept'
  <2>1. ASSUME DeclarationOrderIsKept, Return \/ UNCHANGED vars
        PROVE  DeclarationOrderIsKept'
    <3>1. resolved' = resolved /\ requires' = requires
        BY <2>1 DEF Return, vars
    <3>2. \A n : Dependencies(n)' = Dependencies(n)
        BY <3>1 DEF Dependencies, Declared
    <3> QED
        BY <2>1, <3>1, <3>2 DEF DeclarationOrderIsKept
  <2> QED
      BY <2>1, ResolveKeepsDeclarationOrder DEF GraphNext
<1>3. Inv /\ DeclarationOrderIsKept => OrderIsStable
    BY InvImpliesStagesAreEarliest DEF OrderIsStable
<1> QED
    BY InvHolds, <1>1, <1>2, <1>3, PTL DEF GraphSpec

-----------------------------------------------------------------------------
\* A name on the path, and the place of its next dependency.
Steps == [node : Names, next : Nat \ {0}]

\* The search is at a step of names of the map.
SearchTyped ==
    /\ doc \in Docs
    /\ color \in [Names -> {"white", "gray", "black"}]
    /\ stack \in Seq(Steps)

\* The path is the names that are gray, each once, and each requires the next.
GrayOnPath ==
    /\ \A i \in DOMAIN stack : color[stack[i].node] = "gray"
    /\ \A n \in Names : color[n] = "gray" => \E i \in DOMAIN stack : stack[i].node = n
PathOnce == \A i, j \in DOMAIN stack : stack[i].node = stack[j].node => i = j
PathChained == \A i \in DOMAIN stack :
    i + 1 \in DOMAIN stack => Edge(stack[i].node, stack[i + 1].node)

\* What a name on the path has looked at is done with, but for the name after it.
SeenAreBlack ==
    \A i \in DOMAIN stack :
        \A j \in DOMAIN doc.needs[stack[i].node] :
            j < stack[i].next =>
                \/ color[doc.needs[stack[i].node][j]] = "black"
                \/ i + 1 \in DOMAIN stack /\ doc.needs[stack[i].node][j] = stack[i + 1].node

\* No name of a cycle is ever done with.
CyclesNotBlack == \A S \in SUBSET Names : CycleIn(S) => \A n \in S : color[n] # "black"

SearchInv ==
    SearchTyped /\ GrayOnPath /\ PathOnce /\ PathChained /\ SeenAreBlack /\ CyclesNotBlack


\* What a phase may rely on: nothing is sorted before the search has ended, names are
\* checked before it begins, and the sort is given what was searched.
NotYetSorted == phase \in {"reading", "visiting"} => resolved = << >> /\ pc = "sorting"
Vetted == phase \in {"visiting", "ordering"} => Unknown = {} /\ doc.dialect \in {"ini", "dsl"}
Sorting ==
    phase = "ordering" =>
        /\ doc.dialect = "dsl" /\ requires = doc.needs /\ Inv
        /\ \A n \in Names : color[n] = "black"

PhaseInv == NotYetSorted /\ Vetted /\ Sorting

ParseInv == SearchInv /\ PhaseInv /\ AcceptedGraphIsSound /\ RefusalIsJustified

-----------------------------------------------------------------------------
\* The dependency map, and where the search is in it.
LEMMA MapFacts ==
    ASSUME SearchTyped
    PROVE  /\ Names \subseteq Targets /\ doc.needs \in [Names -> Seq(0..N)]
           /\ \A n \in Names : /\ doc.needs[n] \in Seq(0..N)
                               /\ DOMAIN doc.needs[n] = 1..Len(doc.needs[n])
                               /\ Len(doc.needs[n]) \in Nat
                               /\ \A i \in DOMAIN doc.needs[n] : Edge(n, doc.needs[n][i])
<1>1. Names \subseteq Targets /\ doc.needs \in [Names -> Seq(0..N)]
    BY DocsAreRead DEF SearchTyped, DocAssumption, Names
<1>2. ASSUME NEW n \in Names
      PROVE  /\ doc.needs[n] \in Seq(0..N)
             /\ DOMAIN doc.needs[n] = 1..Len(doc.needs[n])
             /\ Len(doc.needs[n]) \in Nat
    BY <1>1
<1>3. \A n \in Names : \A i \in DOMAIN doc.needs[n] : Edge(n, doc.needs[n][i])
    BY DEF Edge, ToSet
<1> QED
    BY <1>1, <1>2, <1>3

LEMMA TopFacts ==
    ASSUME SearchTyped, stack # << >>
    PROVE  /\ Len(stack) \in Nat /\ Len(stack) >= 1 /\ DOMAIN stack = 1..Len(stack)
           /\ \A i \in DOMAIN stack :
                stack[i] \in Steps /\ stack[i].node \in Names /\ stack[i].next \in Nat
           /\ Top.node \in Names /\ Top.next \in Nat /\ Top.next >= 1
           /\ Top = stack[Len(stack)]
<1>1. stack \in Seq(Steps)
    BY DEF SearchTyped
<1>2. Len(stack) \in Nat /\ Len(stack) >= 1 /\ DOMAIN stack = 1..Len(stack)
    BY <1>1
<1>3. \A i \in DOMAIN stack : stack[i] \in Steps
    BY <1>1, <1>2
<1>4. Len(stack) \in DOMAIN stack
    BY <1>2
<1>5. \A i \in DOMAIN stack : stack[i].node \in Names /\ stack[i].next \in Nat \ {0}
    BY <1>3 DEF Steps
<1> QED
    BY <1>2, <1>3, <1>4, <1>5 DEF Top

\* The next name to look at.
LEMMA NeighbourFacts ==
    ASSUME SearchTyped, More, Unknown = {}
    PROVE  /\ Top.next \in DOMAIN doc.needs[Top.node]
           /\ Neighbour \in Names /\ Edge(Top.node, Neighbour)
<1>1. stack # << >> /\ Top.next <= Len(doc.needs[Top.node])
    BY DEF More
<1>2. Top.node \in Names /\ Top.next \in Nat /\ Top.next >= 1
    BY <1>1, TopFacts
<1>3. DOMAIN doc.needs[Top.node] = 1..Len(doc.needs[Top.node]) /\ Len(doc.needs[Top.node]) \in Nat
    BY <1>2, MapFacts
<1>4. Top.next \in DOMAIN doc.needs[Top.node]
    BY <1>1, <1>2, <1>3
<1>5. Neighbour \in Names
    BY <1>2, <1>4 DEF Unknown, Neighbour
<1> QED
    BY <1>2, <1>4, <1>5, MapFacts DEF Neighbour

\* Looking at the next name moves the last step of the path only.
LEMMA AdvancedFacts ==
    ASSUME SearchTyped, stack # << >>
    PROVE  /\ Advanced \in Seq(Steps) /\ Len(Advanced) = Len(stack)
           /\ DOMAIN Advanced = DOMAIN stack
           /\ \A i \in DOMAIN stack : Advanced[i].node = stack[i].node
           /\ \A i \in DOMAIN stack : i # Len(stack) => Advanced[i] = stack[i]
           /\ Advanced[Len(stack)].next = Top.next + 1
<1>1. /\ Len(stack) \in Nat /\ Len(stack) >= 1 /\ DOMAIN stack = 1..Len(stack)
      /\ \A i \in DOMAIN stack : stack[i] \in Steps
      /\ Top.node \in Names /\ Top.next \in Nat /\ Top.next >= 1
      /\ Top = stack[Len(stack)]
    BY TopFacts
<1> DEFINE moved == [Top EXCEPT !.next = @ + 1]
<1>2. Len(stack) \in DOMAIN stack /\ Top \in Steps
    BY <1>1
<1>3. moved \in Steps /\ moved.node = Top.node /\ moved.next = Top.next + 1
    BY <1>1, <1>2 DEF Steps
<1>4. Advanced = [stack EXCEPT ![Len(stack)] = moved]
    BY <1>1, <1>2 DEF Advanced
<1> HIDE DEF moved
<1>5. stack \in Seq(Steps)
    BY DEF SearchTyped
<1>6. /\ Advanced \in Seq(Steps) /\ Len(Advanced) = Len(stack)
      /\ DOMAIN Advanced = DOMAIN stack
      /\ Advanced[Len(stack)] = moved
      /\ \A i \in DOMAIN stack : i # Len(stack) => Advanced[i] = stack[i]
    BY <1>2, <1>3, <1>4, <1>5
<1>7. \A i \in DOMAIN stack : Advanced[i].node = stack[i].node
    BY <1>1, <1>3, <1>6
<1> QED
    BY <1>3, <1>6, <1>7

-----------------------------------------------------------------------------
\* As long as the search blackens nothing, no name of a cycle is black.
LEMMA CyclesStayOpen ==
    ASSUME SearchInv, doc' = doc, \A n \in Names : color'[n] = "black" => color[n] = "black"
    PROVE  CyclesNotBlack'
<1>1. Names' = Names /\ \A S : CycleIn(S)' = CycleIn(S)
    BY DEF Names, CycleIn, Edge
<1> QED
    BY <1>1 DEF SearchInv, CyclesNotBlack

LEMMA SearchStays == SearchInv /\ UNCHANGED <<doc, color, stack>> => SearchInv'
<1> SUFFICES ASSUME SearchInv, doc' = doc, color' = color, stack' = stack PROVE SearchInv'
    OBVIOUS
<1>1. Names' = Names /\ Steps' = Steps
    BY DEF Names, Steps
<1>2. SearchTyped' /\ GrayOnPath' /\ PathOnce' /\ SeenAreBlack'
    BY <1>1 DEF SearchInv, SearchTyped, GrayOnPath, PathOnce, SeenAreBlack
<1>3. PathChained'
    BY DEF SearchInv, PathChained, Edge, Names
<1>4. CyclesNotBlack'
    BY CyclesStayOpen
<1> QED
    BY <1>2, <1>3, <1>4 DEF SearchInv

\* A root of the search: the first white name, with nothing on the path.
LEMMA NextRootKeepsSearch == SearchInv /\ NextRoot => SearchInv'
<1> SUFFICES ASSUME SearchInv, NextRoot PROVE SearchInv'
    OBVIOUS
<1>1. PICK n \in White : Enter(<< >>, n)
    BY DEF NextRoot
<1> DEFINE entry == [node |-> n, next |-> 1]
<1>2. /\ stack = << >> /\ doc' = doc
      /\ stack' = Append(<< >>, entry)
      /\ color' = [color EXCEPT ![n] = "gray"]
    BY <1>1 DEF NextRoot, Visiting, Enter
<1>3. n \in Names /\ color[n] = "white" /\ color \in [Names -> {"white", "gray", "black"}]
    BY DEF White, SearchInv, SearchTyped
<1>4. Names' = Names /\ Steps' = Steps /\ entry \in Steps
    BY <1>2, <1>3 DEF Names, Steps
<1>5. entry.node = n /\ entry.next = 1
    OBVIOUS
<1> HIDE DEF entry
<1>6. stack' \in Seq(Steps) /\ DOMAIN stack' = {1} /\ stack'[1] = entry
    BY <1>2, <1>4
<1>7. SearchTyped'
    BY <1>2, <1>3, <1>4, <1>6 DEF SearchInv, SearchTyped
<1>8. \A m \in Names : color[m] # "gray"
  <2>1. DOMAIN stack = {}
      BY <1>2
  <2> QED
      BY <2>1 DEF SearchInv, GrayOnPath
<1>9. GrayOnPath'
    BY <1>2, <1>3, <1>4, <1>5, <1>6, <1>8 DEF GrayOnPath
<1>10. PathOnce' /\ PathChained'
    BY <1>6 DEF PathOnce, PathChained
<1>11. SeenAreBlack'
  <2>1. DOMAIN doc.needs[n] = 1..Len(doc.needs[n]) /\ Len(doc.needs[n]) \in Nat
      BY <1>3, MapFacts DEF SearchInv
  <2>2. \A j \in DOMAIN doc.needs[n] : ~(j < 1)
      BY <2>1
  <2> QED
      BY <1>2, <1>5, <1>6, <2>2 DEF SeenAreBlack
<1>12. CyclesNotBlack'
    BY <1>2, <1>3, CyclesStayOpen
<1> QED
    BY <1>7, <1>9, <1>10, <1>11, <1>12 DEF SearchInv

\* What the top of the path has looked at is black, up to the next name.
LEMMA TopIsDone ==
    ASSUME SearchInv, stack # << >>, NEW j \in DOMAIN doc.needs[Top.node], j < Top.next
    PROVE  color[doc.needs[Top.node][j]] = "black"
<1>1. /\ Len(stack) \in Nat /\ Len(stack) >= 1 /\ DOMAIN stack = 1..Len(stack)
      /\ Top = stack[Len(stack)]
    BY TopFacts DEF SearchInv
<1>2. Len(stack) \in DOMAIN stack /\ Len(stack) + 1 \notin DOMAIN stack
    BY <1>1
<1> QED
    BY <1>1, <1>2 DEF SearchInv, SeenAreBlack

\* A dependency that has not been met is entered: the path goes on with it.
LEMMA DescendKeepsSearch == SearchInv /\ Unknown = {} /\ Descend => SearchInv'
<1> SUFFICES ASSUME SearchInv, Unknown = {}, Descend PROVE SearchInv'
    OBVIOUS
<1> DEFINE L == Len(stack)
           n == Neighbour
           entry == [node |-> n, next |-> 1]
<1>1. /\ More /\ stack # << >> /\ color[n] = "white" /\ doc' = doc
      /\ stack' = Append(Advanced, entry)
      /\ color' = [color EXCEPT ![n] = "gray"]
    BY DEF Descend, Visiting, More, Enter
<1>2. SearchTyped /\ stack \in Seq(Steps) /\ color \in [Names -> {"white", "gray", "black"}]
    BY DEF SearchInv, SearchTyped
<1>3. n \in Names /\ Edge(Top.node, n) /\ Top.next \in DOMAIN doc.needs[Top.node]
    BY <1>1, <1>2, NeighbourFacts
<1>4. /\ L \in Nat /\ L >= 1 /\ DOMAIN stack = 1..L
      /\ \A i \in DOMAIN stack : stack[i].node \in Names /\ stack[i].next \in Nat
      /\ Top = stack[L] /\ Top.next \in Nat /\ Top.node \in Names
    BY <1>1, <1>2, TopFacts
<1>5. /\ Advanced \in Seq(Steps) /\ Len(Advanced) = L /\ DOMAIN Advanced = DOMAIN stack
      /\ \A i \in DOMAIN stack : Advanced[i].node = stack[i].node
      /\ \A i \in DOMAIN stack : i # L => Advanced[i] = stack[i]
      /\ Advanced[L].next = Top.next + 1
    BY <1>1, <1>2, AdvancedFacts
<1>6. Names' = Names /\ Steps' = Steps /\ entry \in Steps /\ entry.node = n /\ entry.next = 1
    BY <1>1, <1>3 DEF Names, Steps
<1>7. n = doc.needs[Top.node][Top.next]
    BY DEF Neighbour
<1> HIDE DEF n, L, entry
<1>8. /\ stack' \in Seq(Steps) /\ DOMAIN stack' = DOMAIN stack \cup {L + 1}
      /\ \A i \in DOMAIN stack : stack'[i] = Advanced[i]
      /\ stack'[L + 1] = entry
    BY <1>1, <1>5, <1>6, AppendedElements
<1>9. /\ \A i \in DOMAIN stack : stack'[i].node = stack[i].node
      /\ \A i \in DOMAIN stack : i # L => stack'[i].next = stack[i].next
      /\ stack'[L].next = Top.next + 1
      /\ stack'[L + 1].node = n /\ stack'[L + 1].next = 1
    BY <1>4, <1>5, <1>6, <1>8
<1>10. SearchTyped'
    BY <1>1, <1>2, <1>3, <1>6, <1>8 DEF SearchTyped
<1>11. GrayOnPath'
  <2>1. color'[n] = "gray" /\ \A m \in Names : m # n => color'[m] = color[m]
      BY <1>1, <1>2, <1>3
  <2>2. ASSUME NEW i \in DOMAIN stack' PROVE color'[stack'[i].node] = "gray"
    <3>1. CASE i = L + 1
        BY <1>9, <2>1, <3>1
    <3>2. CASE i \in DOMAIN stack
      <4>1. color[stack[i].node] = "gray" /\ stack[i].node \in Names
          BY <1>4, <3>2 DEF SearchInv, GrayOnPath
      <4> QED
          BY <1>9, <2>1, <3>2, <4>1
    <3> QED
        BY <1>8, <3>1, <3>2
  <2>3. ASSUME NEW m \in Names, color'[m] = "gray"
        PROVE  \E i \in DOMAIN stack' : stack'[i].node = m
    <3>1. CASE m = n
        BY <1>8, <1>9, <3>1
    <3>2. CASE m # n
      <4>1. PICK i \in DOMAIN stack : stack[i].node = m
          BY <2>1, <2>3, <3>2 DEF SearchInv, GrayOnPath
      <4> QED
          BY <1>8, <1>9, <4>1
    <3> QED
        BY <3>1, <3>2
  <2> QED
      BY <1>6, <2>2, <2>3 DEF GrayOnPath
<1>12. \A i \in DOMAIN stack : stack[i].node # n
    BY <1>1 DEF SearchInv, GrayOnPath
<1>13. PathOnce'
    BY <1>8, <1>9, <1>12 DEF SearchInv, PathOnce
<1>14. \A i \in DOMAIN stack : i # L => i + 1 \in DOMAIN stack
    BY <1>4
<1>15. PathChained'
  <2> SUFFICES ASSUME NEW i \in DOMAIN stack', i + 1 \in DOMAIN stack'
               PROVE  Edge(stack'[i].node, stack'[i + 1].node)
      BY <1>1, <1>6 DEF PathChained, Edge
  <2>1. i \in DOMAIN stack
      BY <1>4, <1>8
  <2>2. CASE i = L
      BY <1>3, <1>4, <1>9, <2>1, <2>2
  <2>3. CASE i # L
      BY <1>9, <1>14, <2>1, <2>3 DEF SearchInv, PathChained
  <2> QED
      BY <2>2, <2>3
<1>16. SeenAreBlack'
  <2> SUFFICES ASSUME NEW i \in DOMAIN stack', NEW j \in DOMAIN doc.needs[stack'[i].node],
                      j < stack'[i].next
               PROVE  \/ color'[doc.needs[stack'[i].node][j]] = "black"
                      \/ /\ i + 1 \in DOMAIN stack'
                         /\ doc.needs[stack'[i].node][j] = stack'[i + 1].node
      BY <1>1 DEF SeenAreBlack
  <2>1. \A m : color[m] = "black" => color'[m] = "black"
      BY <1>1, <1>2, <1>3
  <2>2. CASE i \in DOMAIN stack /\ i # L
      BY <1>8, <1>9, <1>14, <2>1, <2>2 DEF SearchInv, SeenAreBlack
  <2>3. CASE i = L
    <3>1. j \in DOMAIN doc.needs[Top.node] /\ j < Top.next + 1
        BY <1>4, <1>9, <2>3
    <3>2. j \in Nat
        BY <1>4, <3>1, MapFacts, <1>2
    <3>3. j < Top.next \/ j = Top.next
        BY <1>4, <3>1, <3>2
    <3>4. CASE j < Top.next
        BY <1>1, <1>4, <1>9, <2>1, <2>3, <3>1, <3>4, TopIsDone
    <3>5. CASE j = Top.next
        BY <1>4, <1>7, <1>8, <1>9, <2>3, <3>5
    <3> QED
        BY <3>3, <3>4, <3>5
  <2>4. CASE i = L + 1
    <3>1. j \in DOMAIN doc.needs[n] /\ j < 1
        BY <1>9, <2>4
    <3>2. DOMAIN doc.needs[n] = 1..Len(doc.needs[n])
        BY <1>2, <1>3, MapFacts
    <3> QED
        BY <3>1, <3>2
  <2> QED
      BY <1>8, <2>2, <2>3, <2>4
<1>17. CyclesNotBlack'
    BY <1>1, <1>2, <1>3, CyclesStayOpen
<1> QED
    BY <1>10, <1>11, <1>13, <1>15, <1>16, <1>17 DEF SearchInv

\* A dependency that is done with is passed over.
LEMMA SkipKeepsSearch == SearchInv /\ Skip => SearchInv'
<1> SUFFICES ASSUME SearchInv, Skip PROVE SearchInv'
    OBVIOUS
<1> DEFINE L == Len(stack)
<1>1. /\ stack # << >> /\ color[Neighbour] = "black" /\ doc' = doc
      /\ stack' = Advanced /\ color' = color
    BY DEF Skip, Visiting, More
<1>2. SearchTyped /\ stack \in Seq(Steps)
    BY DEF SearchInv, SearchTyped
<1>3. /\ L \in Nat /\ L >= 1 /\ DOMAIN stack = 1..L
      /\ Top = stack[L] /\ Top.next \in Nat /\ Top.node \in Names
    BY <1>1, <1>2, TopFacts
<1>4. /\ stack' \in Seq(Steps) /\ DOMAIN stack' = DOMAIN stack
      /\ \A i \in DOMAIN stack : stack'[i].node = stack[i].node
      /\ \A i \in DOMAIN stack : i # L => stack'[i] = stack[i]
      /\ stack'[L].next = Top.next + 1
    BY <1>1, <1>2, AdvancedFacts
<1>5. Names' = Names /\ Steps' = Steps
    BY <1>1 DEF Names, Steps
<1> HIDE DEF L
<1>6. SearchTyped' /\ GrayOnPath' /\ PathOnce'
    BY <1>1, <1>4, <1>5 DEF SearchInv, SearchTyped, GrayOnPath, PathOnce
<1>7. PathChained'
    BY <1>1, <1>4, <1>5 DEF SearchInv, PathChained, Edge
<1>8. SeenAreBlack'
  <2> SUFFICES ASSUME NEW i \in DOMAIN stack, NEW j \in DOMAIN doc.needs[stack[i].node],
                      j < stack'[i].next
               PROVE  \/ color[doc.needs[stack[i].node][j]] = "black"
                      \/ /\ i + 1 \in DOMAIN stack
                         /\ doc.needs[stack[i].node][j] = stack[i + 1].node
      BY <1>1, <1>4 DEF SeenAreBlack
  <2>1. CASE i # L
      BY <1>4, <2>1 DEF SearchInv, SeenAreBlack
  <2>2. CASE i = L
    <3>1. j \in DOMAIN doc.needs[Top.node] /\ j < Top.next + 1
        BY <1>3, <1>4, <2>2
    <3>2. j \in Nat
        BY <1>2, <1>3, <3>1, MapFacts
    <3>3. j < Top.next \/ j = Top.next
        BY <1>3, <3>1, <3>2
    <3>4. CASE j < Top.next
        BY <1>1, <1>3, <2>2, <3>1, <3>4, TopIsDone
    <3>5. CASE j = Top.next
        BY <1>1, <1>3, <2>2, <3>5 DEF Neighbour
    <3> QED
        BY <3>3, <3>4, <3>5
  <2> QED
      BY <2>1, <2>2
<1>9. CyclesNotBlack'
    BY <1>1, CyclesStayOpen
<1> QED
    BY <1>6, <1>7, <1>8, <1>9 DEF SearchInv

\* A name is done with when all it requires are: one of a cycle never is, as it
\* requires another one of it.
LEMMA LeaveKeepsSearch == SearchInv /\ Leave => SearchInv'
<1> SUFFICES ASSUME SearchInv, Leave PROVE SearchInv'
    OBVIOUS
<1> DEFINE L == Len(stack)
           n == Top.node
<1>1. /\ stack # << >> /\ ~More /\ doc' = doc
      /\ stack' = SubSeq(stack, 1, L - 1)
      /\ color' = [color EXCEPT ![n] = "black"]
    BY DEF Leave, Visiting
<1>2. SearchTyped /\ stack \in Seq(Steps) /\ color \in [Names -> {"white", "gray", "black"}]
    BY DEF SearchInv, SearchTyped
<1>3. /\ L \in Nat /\ L >= 1 /\ DOMAIN stack = 1..L
      /\ Top = stack[L] /\ Top.next \in Nat /\ n \in Names
    BY <1>1, <1>2, TopFacts
<1>4. Names' = Names /\ Steps' = Steps
    BY <1>1 DEF Names, Steps
<1>5. /\ stack' \in Seq(Steps) /\ DOMAIN stack' = 1..(L - 1)
      /\ \A i \in 1..(L - 1) : stack'[i] = stack[i]
    BY <1>1, <1>2, <1>3
<1>6. stack[L].node = n /\ L \in DOMAIN stack
    BY <1>3
<1>7. \A j \in DOMAIN doc.needs[n] : color[doc.needs[n][j]] = "black"
  <2> TAKE j \in DOMAIN doc.needs[n]
  <2>1. DOMAIN doc.needs[n] = 1..Len(doc.needs[n]) /\ Len(doc.needs[n]) \in Nat
      BY <1>2, <1>3, MapFacts
  <2>2. ~(Top.next <= Len(doc.needs[n]))
      BY <1>1 DEF More
  <2>3. j < Top.next
      BY <1>3, <2>1, <2>2
  <2> QED
      BY <1>1, <2>3, TopIsDone
<1> HIDE DEF n, L
<1>8. \A i \in 1..(L - 1) : i \in DOMAIN stack /\ i # L
    BY <1>3
<1>9. \A i \in DOMAIN stack : i # L => i \in 1..(L - 1)
    BY <1>3
<1>10. \A i \in 1..(L - 1) : stack[i].node # n
    BY <1>6, <1>8 DEF SearchInv, PathOnce
<1>11. SearchTyped'
    BY <1>1, <1>2, <1>3, <1>4, <1>5 DEF SearchTyped
<1>12. GrayOnPath'
  <2>1. \A i \in DOMAIN stack' : color'[stack'[i].node] = "gray"
      BY <1>1, <1>2, <1>5, <1>8, <1>10 DEF SearchInv, GrayOnPath
  <2>2. ASSUME NEW m \in Names, color'[m] = "gray"
        PROVE  \E i \in DOMAIN stack' : stack'[i].node = m
    <3>1. m # n /\ color[m] = "gray"
        BY <1>1, <1>2, <2>2
    <3>2. PICK i \in DOMAIN stack : stack[i].node = m
        BY <3>1 DEF SearchInv, GrayOnPath
    <3> QED
        BY <1>5, <1>6, <1>9, <3>1, <3>2
  <2> QED
      BY <1>4, <2>1, <2>2 DEF GrayOnPath
<1>13. PathOnce'
    BY <1>5, <1>8 DEF SearchInv, PathOnce
<1>14. PathChained'
    BY <1>1, <1>4, <1>5, <1>8 DEF SearchInv, PathChained, Edge
<1>15. SeenAreBlack'
  <2> SUFFICES ASSUME NEW i \in 1..(L - 1), NEW j \in DOMAIN doc.needs[stack[i].node],
                      j < stack[i].next
               PROVE  \/ color'[doc.needs[stack[i].node][j]] = "black"
                      \/ /\ i + 1 \in 1..(L - 1)
                         /\ doc.needs[stack[i].node][j] = stack'[i + 1].node
      BY <1>1, <1>5 DEF SeenAreBlack
  <2>1. \A m : color[m] = "black" => color'[m] = "black"
      BY <1>1, <1>2, <1>3
  <2>2. \/ color[doc.needs[stack[i].node][j]] = "black"
        \/ /\ i + 1 \in DOMAIN stack
           /\ doc.needs[stack[i].node][j] = stack[i + 1].node
      BY <1>8 DEF SearchInv, SeenAreBlack
  <2>3. color'[n] = "black"
      BY <1>1, <1>2, <1>3
  <2>4. CASE i + 1 = L
      BY <1>6, <2>1, <2>2, <2>3, <2>4
  <2>5. CASE i + 1 # L
      BY <1>5, <1>9, <2>1, <2>2, <2>5
  <2> QED
      BY <2>4, <2>5
<1>16. CyclesNotBlack'
  <2> SUFFICES ASSUME NEW S \in SUBSET Names, CycleIn(S), NEW m \in S, color'[m] = "black"
               PROVE  FALSE
    <3>1. \A S : CycleIn(S)' = CycleIn(S)
        BY <1>1, <1>4 DEF CycleIn, Edge
    <3> QED
        BY <1>4, <3>1 DEF CyclesNotBlack
  <2>1. \A k \in S : color[k] # "black"
      BY DEF SearchInv, CyclesNotBlack
  <2>2. m = n
      BY <1>1, <1>2, <2>1
  <2>3. PICK k \in S : Edge(n, k)
      BY <2>2 DEF CycleIn
  <2>4. \E j \in DOMAIN doc.needs[n] : doc.needs[n][j] = k
      BY <2>3 DEF Edge, ToSet
  <2> QED
      BY <1>7, <2>1, <2>4
<1> QED
    BY <1>11, <1>12, <1>13, <1>14, <1>15, <1>16 DEF SearchInv

-----------------------------------------------------------------------------
\* From any name of the path on to its end, and then to a name n of the path that
\* the end requires: the list is chained, and from n on it is a cycle.
LEMMA LoopIsCycle ==
    ASSUME SearchInv, More, Unknown = {}, NEW k \in DOMAIN stack,
           stack[k].node = Neighbour, NEW m \in DOMAIN stack,
           doc.dialect = "dsl" => m = k
    PROVE  TellsOfCycle(Append(SubSeq(Path, m, Len(Path)), Neighbour))
<1> DEFINE L == Len(stack)
           n == Neighbour
           r == Append(SubSeq(Path, m, Len(Path)), n)
<1>1. SearchTyped /\ stack # << >>
    BY DEF SearchInv, More
<1>2. /\ L \in Nat /\ L >= 1 /\ DOMAIN stack = 1..L
      /\ \A i \in DOMAIN stack : stack[i].node \in Names
      /\ Top = stack[L]
    BY <1>1, TopFacts
<1>3. n \in Names /\ Edge(stack[L].node, n)
    BY <1>1, <1>2, NeighbourFacts
<1> HIDE DEF n, L
<1>4. \A i \in 1..L : i # L => Edge(stack[i].node, stack[i + 1].node)
  <2>1. \A i \in 1..L : i # L => i + 1 \in 1..L
      BY <1>2
  <2> QED
      BY <1>2, <2>1 DEF SearchInv, PathChained
<1>5. Path \in Seq(Names) /\ Len(Path) = L /\ \A i \in 1..L : Path[i] = stack[i].node
  <2>1. Path = [i \in 1..L |-> stack[i].node]
      BY <1>2 DEF Path
  <2>2. Path \in [1..L -> Names]
      BY <1>2, <2>1
  <2> QED
      BY <1>2, <2>1, <2>2
<1>6. m \in 1..L /\ k \in 1..L
    BY <1>2
<1>7. /\ Len(r) = L - m + 2
      /\ \A i \in 1..(L - m + 1) : r[i] = Path[i + m - 1]
      /\ r[L - m + 2] = n
  <2> DEFINE t == SubSeq(Path, m, L)
  <2>1. t \in Seq(Names) /\ Len(t) = L - m + 1 /\ \A i \in 1..(L - m + 1) : t[i] = Path[i + m - 1]
      BY <1>2, <1>5, <1>6
  <2>2. r = Append(t, n)
      BY <1>5
  <2> HIDE DEF t
  <2>3. /\ Len(r) = Len(t) + 1 /\ DOMAIN t = 1..Len(t)
        /\ \A i \in DOMAIN t : r[i] = t[i]
        /\ r[Len(t) + 1] = n
      BY <1>3, <2>1, <2>2, AppendedElements
  <2>4. Len(t) + 1 = L - m + 2
      BY <1>2, <1>6, <2>1
  <2> QED
      BY <2>1, <2>3, <2>4
<1> HIDE DEF r
<1>8. ASSUME NEW i \in 1..(Len(r) - 1)
      PROVE  Edge(r[i], r[i + 1])
  <2>1. i \in 1..(L - m + 1) /\ i + m - 1 \in 1..L /\ (i + 1) + m - 1 = (i + m - 1) + 1
      BY <1>2, <1>6, <1>7
  <2>2. r[i] = stack[i + m - 1].node
      BY <1>5, <1>7, <2>1
  <2>3. CASE i + m - 1 = L
    <3>1. i + 1 = L - m + 2
        BY <1>2, <1>6, <2>1, <2>3
    <3> QED
        BY <1>3, <1>7, <2>2, <2>3, <3>1
  <2>4. CASE i + m - 1 # L
    <3>1. i + 1 \in 1..(L - m + 1) /\ (i + m - 1) + 1 \in 1..L
        BY <1>2, <1>6, <2>1, <2>4
    <3>2. r[i + 1] = stack[(i + m - 1) + 1].node
        BY <1>5, <1>7, <2>1, <3>1
    <3> QED
        BY <1>4, <2>1, <2>2, <2>4, <3>2
  <2> QED
      BY <2>3, <2>4
<1> DEFINE S == {stack[i].node : i \in k..L}
<1>9. S \in SUBSET Names /\ n \in S
    BY <1>2, <1>6 DEF n
<1>10. CycleIn(S)
  <2> SUFFICES ASSUME NEW i \in k..L PROVE \E x \in S : Edge(stack[i].node, x)
      BY <1>9 DEF CycleIn
  <2>1. i \in 1..L
      BY <1>2, <1>6
  <2>2. CASE i = L
      BY <1>3, <1>9, <2>2
  <2>3. CASE i # L
    <3>1. i + 1 \in k..L
        BY <1>2, <1>6, <2>3
    <3> QED
        BY <1>4, <2>1, <2>3, <3>1
  <2> QED
      BY <2>2, <2>3
<1>11. r[Len(r)] \in S
    BY <1>7, <1>9
<1>12. ASSUME m = k PROVE r[1] = r[Len(r)]
  <2>1. 1 \in 1..(L - m + 1) /\ 1 + m - 1 = m
      BY <1>2, <1>6
  <2>2. r[1] = Path[m]
      BY <1>7, <2>1
  <2>3. Path[m] = n
      BY <1>5, <1>6, <1>12 DEF n
  <2> QED
      BY <1>7, <2>2, <2>3
<1> HIDE DEF S
<1>13. TellsOfCycle(r)
    BY <1>8, <1>9, <1>10, <1>11, <1>12 DEF TellsOfCycle
<1> QED
    BY <1>13 DEF r, n

\* Both searches report a cycle when they meet a name that is on the path.
LEMMA FoundTellsOfCycle ==
    ASSUME SearchInv, PhaseInv, Found
    PROVE  /\ \E r : report' = r /\ TellsOfCycle(r)
           /\ phase' \in {"raised", "fallback"} /\ doc' = doc /\ report' # << >>
           /\ color' = color /\ stack' = stack
<1>1. /\ phase = "visiting" /\ More /\ color[Neighbour] = "gray"
      /\ doc' = doc /\ color' = color /\ stack' = stack /\ stack # << >>
    BY DEF Found, Visiting, More
<1>2. Unknown = {} /\ doc.dialect \in {"ini", "dsl"} /\ SearchTyped
    BY <1>1 DEF PhaseInv, Vetted, SearchInv
<1>3. Neighbour \in Names
    BY <1>1, <1>2, NeighbourFacts
<1>4. \E i \in DOMAIN stack : stack[i].node = Neighbour
    BY <1>1, <1>3 DEF SearchInv, GrayOnPath
<1> DEFINE k == Start(Neighbour)
<1>5. k \in DOMAIN stack /\ stack[k].node = Neighbour
    BY <1>4 DEF Start
<1>6. /\ Len(stack) \in Nat /\ Len(stack) >= 1 /\ DOMAIN stack = 1..Len(stack)
      /\ Top = stack[Len(stack)]
      /\ \A i \in DOMAIN stack : stack[i].node \in Names
    BY <1>1, <1>2, TopFacts
<1>7. Path \in Seq(Names) /\ Len(Path) = Len(stack)
  <2>1. Path = [i \in 1..Len(stack) |-> stack[i].node]
      BY <1>6 DEF Path
  <2>2. Path \in [1..Len(stack) -> Names]
      BY <1>6, <2>1
  <2> QED
      BY <1>6, <2>1, <2>2
<1> HIDE DEF k
<1>8. CASE doc.dialect = "dsl"
  <2>1. TellsOfCycle(Append(SubSeq(Path, k, Len(Path)), Neighbour))
      BY <1>1, <1>2, <1>5, LoopIsCycle
  <2>2. report' = Append(SubSeq(Path, k, Len(Path)), Neighbour)
      BY <1>8 DEF Found, Closed, k
  <2>3. phase' = "raised"
      BY <1>8 DEF Found, Raised
  <2>4. report' # << >>
      BY <1>3, <1>5, <1>6, <1>7, <2>2
  <2> QED
      BY <1>1, <2>1, <2>2, <2>3, <2>4
<1>9. CASE doc.dialect = "ini"
  <2>1. phase' = "fallback" /\ report' = Traced(Neighbour)
      BY <1>9 DEF Found, Fallback
  <2>2. PICK m \in DOMAIN stack : report' = Append(SubSeq(Path, m, Len(Path)), Neighbour)
    <3>1. CASE Neighbour = Top.node
      <4>1. Path = SubSeq(Path, 1, Len(Path))
          BY <1>6, <1>7
      <4> QED
          BY <1>6, <2>1, <3>1, <4>1 DEF Traced
    <3>2. CASE Neighbour # Top.node
      <4>1. k # Len(stack)
          BY <1>5, <1>6, <3>2
      <4>2. k + 1 \in DOMAIN stack
          BY <1>5, <1>6, <4>1
      <4> QED
          BY <2>1, <3>2, <4>2 DEF Traced, k
    <3> QED
        BY <3>1, <3>2
  <2>3. TellsOfCycle(Append(SubSeq(Path, m, Len(Path)), Neighbour))
      BY <1>1, <1>2, <1>5, <1>9, LoopIsCycle
  <2>4. report' # << >>
      BY <1>3, <1>6, <1>7, <2>2
  <2> QED
      BY <1>1, <2>1, <2>2, <2>3, <2>4
<1> QED
    BY <1>2, <1>8, <1>9

-----------------------------------------------------------------------------
\* A search that has ended without a cycle has blackened all names: there is no
\* cycle among them.
LEMMA VisitedHasNoCycle ==
    ASSUME SearchInv, stack = << >>, White = {}
    PROVE  /\ \A n \in Names : color[n] = "black"
           /\ \A S \in SUBSET Names : ~CycleIn(S)
<1>1. DOMAIN stack = {}
    OBVIOUS
<1>2. \A n \in Names : color[n] # "gray" /\ color[n] # "white"
    BY <1>1 DEF SearchInv, GrayOnPath, White
<1>3. \A n \in Names : color[n] = "black"
    BY <1>2 DEF SearchInv, SearchTyped
<1> QED
    BY <1>3 DEF SearchInv, CyclesNotBlack, CycleIn

\* The sort does not disagree with the validator.
LEMMA SortAgrees == SearchInv /\ Sorting /\ phase = "ordering" => pc # "cyclic"
<1> SUFFICES ASSUME SearchInv, Sorting, phase = "ordering", pc = "cyclic" PROVE FALSE
    OBVIOUS
<1>1. PICK S \in SUBSET Targets : Knot(S)
    BY InvImpliesErrorMeansCycle DEF Sorting, ErrorMeansCycle
<1>2. Names = Targets /\ requires = doc.needs
    BY DocsAreRead DEF SearchInv, SearchTyped, Sorting, DocAssumption, Names
<1>3. CycleIn(S)
  <2> SUFFICES ASSUME NEW n \in S PROVE \E m \in S : Edge(n, m)
      BY <1>1 DEF Knot, CycleIn
  <2>1. PICK m \in S : m \in Dependencies(n)
      BY <1>1 DEF Knot
  <2>2. PICK i \in DOMAIN requires[n] : m = requires[n][i]
      BY <2>1 DEF Dependencies, Declared
  <2> QED
      BY <1>2, <2>2 DEF Edge, ToSet
<1> QED
    BY <1>1, <1>2, <1>3 DEF SearchInv, CyclesNotBlack, Sorting, CycleIn

\* Edges are those of the document.
LEMMA EdgesStay ==
    ASSUME doc' = doc
    PROVE  /\ Names' = Names /\ Unknown' = Unknown /\ AtFault' = AtFault
           /\ (report' = report => TellsOfCycle(report)' = TellsOfCycle(report))
<1>1. Names' = Names /\ Unknown' = Unknown
    BY DEF Names, Unknown
<1>2. AtFault' = AtFault
    BY <1>1 DEF AtFault
<1>3. ASSUME report' = report PROVE TellsOfCycle(report)' = TellsOfCycle(report)
    BY <1>1, <1>3 DEF TellsOfCycle, CycleIn, Edge
<1> QED
    BY <1>1, <1>2, <1>3

\* How a phase ends: with a refusal, or with a context, or with the next phase.
LEMMA RefusedInv ==
    ASSUME ParseInv, UNCHANGED <<doc, color, stack, report>>,
           phase' \in {"raised", "fallback"}, AtFault \/ doc.dialect = "missing"
    PROVE  ParseInv'
<1>1. SearchInv'
    BY SearchStays DEF ParseInv
<1>2. PhaseInv' /\ AcceptedGraphIsSound'
    BY DEF PhaseInv, NotYetSorted, Vetted, Sorting, AcceptedGraphIsSound
<1>3. RefusalIsJustified'
    BY EdgesStay DEF ParseInv, RefusalIsJustified
<1> QED
    BY <1>1, <1>2, <1>3 DEF ParseInv

LEMMA LoadedInv ==
    ASSUME ParseInv, UNCHANGED <<doc, color, stack, report>>,
           phase' = "loaded", AcceptedGraphIsSound'
    PROVE  ParseInv'
<1>1. SearchInv'
    BY SearchStays DEF ParseInv
<1>2. PhaseInv'
    BY DEF PhaseInv, NotYetSorted, Vetted, Sorting
<1>3. RefusalIsJustified'
    BY EdgesStay DEF ParseInv, RefusalIsJustified
<1> QED
    BY <1>1, <1>2, <1>3 DEF ParseInv

LEMMA VisitingInv ==
    ASSUME ParseInv, SearchInv', UNCHANGED <<doc, report, vars>>,
           phase \in {"reading", "visiting"}, phase' = "visiting",
           Unknown = {}, doc.dialect \in {"ini", "dsl"}
    PROVE  ParseInv'
<1>1. PhaseInv'
    BY EdgesStay DEF ParseInv, PhaseInv, NotYetSorted, Vetted, Sorting, vars
<1>2. RefusalIsJustified' /\ AcceptedGraphIsSound'
    BY EdgesStay DEF ParseInv, RefusalIsJustified, AcceptedGraphIsSound
<1> QED
    BY <1>1, <1>2 DEF ParseInv

-----------------------------------------------------------------------------
\* Settings that are defaults, or normalized, hold nothing that was to be refused.
LEMMA SettingsAreGood ==
    \A s \in Sections : Defaults[s] # "bad" /\ Normalized[s] # "bad"
    BY DEF Defaults, Normalized

\* The lean dialect: cores wait for no target, the others for cores only.
LEMMA InferLeanInv == ParseInv /\ InferLean => ParseInv'
<1> SUFFICES ASSUME ParseInv, InferLean PROVE ParseInv'
    OBVIOUS
<1>1. /\ UNCHANGED <<doc, color, stack, report>> /\ doc.dialect = "lean"
      /\ IF LeanRefused THEN Fallback ELSE phase' = "loaded"
    BY DEF InferLean, Reading
<1>2. CASE LeanRefused
    BY <1>1, <1>2, RefusedInv DEF Fallback, LeanRefused, AtFault
<1>3. CASE ~LeanRefused
  <2> DEFINE T == ToSet(doc.targets)
             m == [n \in T |-> InferredDeps(n)]
  <2>1. context'.targets = doc.targets /\ context'.matrix = m /\ context'.settings = Defaults
      BY <1>3 DEF InferLean
  <2>2. T \subseteq Targets
    <3>1. doc.targets \in Seq(Targets)
        BY DocsAreRead DEF ParseInv, SearchInv, SearchTyped, DocAssumption
    <3> QED
        BY <3>1 DEF ToSet
  <2>3. Invariants \notin T
      BY <2>2 DEF Invariants, Targets
  <2>4. \A n \in T : /\ n \in doc.cores => m[n] \subseteq {Invariants}
                     /\ n \notin doc.cores => m[n] \subseteq T \cap doc.cores
      BY DEF InferredDeps, AddDeps, Cores
  <2> HIDE DEF T, m
  <2>5. DOMAIN m = T
      BY DEF m
  <2>6. ASSUME NEW S \in SUBSET T, S # {}
        PROVE  \E n \in S : m[n] \cap S = {}
    <3>1. CASE \E n \in S : n \in doc.cores
        BY <2>3, <2>4, <3>1
    <3>2. CASE \A n \in S : n \notin doc.cores
      <4>1. PICK n \in S : TRUE
          BY <2>6
      <4> QED
          BY <2>4, <3>2, <4>1
    <3> QED
        BY <3>1, <3>2
  <2>7. AcceptedGraphIsSound'
    <3>1. \A n \in T : m[n] \subseteq T \cup {Invariants}
        BY <2>4
    <3>2. ToSet(context'.targets) \subseteq T
        BY <2>1 DEF T
    <3> QED
        BY <1>1, <2>1, <2>5, <2>6, <3>1, <3>2, SettingsAreGood
        DEF AcceptedGraphIsSound, Sections, MachineSections, PackageSections
  <2> QED
      BY <1>1, <1>3, <2>7, LoadedInv
<1> QED
    BY <1>2, <1>3

\* The living dialect has no dependencies, and JSON is not vouched for.
LEMMA LoadLivingInv == ParseInv /\ LoadLiving => ParseInv'
<1> SUFFICES ASSUME ParseInv, LoadLiving PROVE ParseInv'
    OBVIOUS
<1>1. UNCHANGED <<doc, color, stack, report>> /\ doc.dialect = "toml"
    BY DEF LoadLiving, Reading
<1>2. CASE doc.fault # "none"
  <2>1. phase' = "fallback"
      BY <1>2 DEF LoadLiving, Fallback
  <2> QED
      BY <1>1, <1>2, <2>1, RefusedInv DEF AtFault
<1>3. CASE doc.fault = "none"
  <2> DEFINE T == ToSet(doc.targets)
             settings == [Defaults EXCEPT !["validation"] = Coerced("validation")]
  <2>1. /\ phase' = "loaded" /\ context'.targets = doc.targets
        /\ context'.matrix = [n \in T |-> {}] /\ context'.settings = settings
      BY <1>3 DEF LoadLiving, Loaded
  <2>2. \A s \in Sections : settings[s] # "bad"
      BY DEF Defaults, Coerced
  <2> HIDE DEF settings
  <2>3. AcceptedGraphIsSound'
      BY <1>1, <2>1, <2>2 DEF AcceptedGraphIsSound, Sections, MachineSections, PackageSections
  <2> QED
      BY <1>1, <2>1, <2>3, LoadedInv
<1> QED
    BY <1>2, <1>3

LEMMA ParseJsonInv == ParseInv /\ ParseJson => ParseInv'
<1> SUFFICES ASSUME ParseInv, ParseJson PROVE ParseInv'
    OBVIOUS
<1>1. UNCHANGED <<doc, color, stack, report>> /\ doc.dialect = "json"
    BY DEF ParseJson, Reading
<1>2. CASE doc.fault # "none" \/ doc.optional["analysis"] = "bad"
  <2>1. phase' = "raised"
      BY <1>2 DEF ParseJson, Raised
  <2>2. AtFault
      BY <1>2 DEF AtFault, Sections, PackageSections
  <2> QED
      BY <1>1, <2>1, <2>2, RefusedInv
<1>3. CASE ~(doc.fault # "none" \/ doc.optional["analysis"] = "bad")
  <2>1. phase' = "loaded"
      BY <1>3 DEF ParseJson, Loaded
  <2>2. AcceptedGraphIsSound'
      BY <1>1 DEF AcceptedGraphIsSound
  <2> QED
      BY <1>1, <2>1, <2>2, LoadedInv
<1> QED
    BY <1>2, <1>3

\* What is validated is searched with all its names known, or is refused.
LEMMA ValidateDslInv == ParseInv /\ ValidateDsl /\ UNCHANGED vars => ParseInv'
<1> SUFFICES ASSUME ParseInv, ValidateDsl, UNCHANGED vars PROVE ParseInv'
    OBVIOUS
<1>1. /\ UNCHANGED <<doc, color, stack, report>> /\ doc.dialect = "dsl"
      /\ phase = "reading"
    BY DEF ValidateDsl, Reading
<1> DEFINE refused == Unparsed \/ ShapeErrors \/ SchemaErrors \/ Unknown # {}
<1>2. CASE refused
  <2>1. phase' = "raised"
      BY <1>2 DEF ValidateDsl, Raised
  <2>2. AtFault
      BY <1>1, <1>2 DEF AtFault, Unparsed, ShapeErrors, SchemaErrors
  <2> QED
      BY <1>1, <2>1, <2>2, RefusedInv
<1>3. CASE ~refused
  <2>1. phase' = "visiting" /\ Unknown = {}
      BY <1>3 DEF ValidateDsl
  <2>2. SearchInv'
      BY <1>1, SearchStays DEF ParseInv
  <2> QED
      BY <1>1, <2>1, <2>2, VisitingInv
<1> QED
    BY <1>2, <1>3

LEMMA ParseIniInv == ParseInv /\ ParseIni /\ UNCHANGED vars => ParseInv'
<1> SUFFICES ASSUME ParseInv, ParseIni, UNCHANGED vars PROVE ParseInv'
    OBVIOUS
<1>1. /\ UNCHANGED <<doc, color, stack, report>> /\ doc.dialect = "ini"
      /\ phase = "reading"
    BY DEF ParseIni, Reading
<1> DEFINE refused == \/ Malformed \/ MachineRefused \/ PackageRefused
                      \/ doc.targets # << >> /\ (Unknown # {} \/ Mistyped)
<1>2. CASE refused
  <2>1. phase' = "fallback"
      BY <1>2 DEF ParseIni, Fallback
  <2>2. AtFault
      BY <1>2 DEF AtFault, Malformed, MachineRefused, PackageRefused, Mistyped, Sections
  <2> QED
      BY <1>1, <2>1, <2>2, RefusedInv
<1>3. CASE ~refused /\ doc.targets = << >>
  <2>1. phase' = "loaded" /\ context'.targets = << >> /\ context'.matrix = << >>
        /\ context'.settings = Normalized
      BY <1>3 DEF ParseIni, Loaded
  <2>2. DOMAIN context'.matrix = {} /\ ToSet(context'.targets) = {}
      BY <2>1 DEF ToSet
  <2>3. AcceptedGraphIsSound'
      BY <2>1, <2>2, SettingsAreGood
      DEF AcceptedGraphIsSound, Sections, MachineSections, PackageSections
  <2> QED
      BY <1>1, <2>1, <2>3, LoadedInv
<1>4. CASE ~refused /\ doc.targets # << >>
  <2>1. phase' = "visiting" /\ Unknown = {}
      BY <1>4 DEF ParseIni
  <2>2. SearchInv'
      BY <1>1, SearchStays DEF ParseInv
  <2> QED
      BY <1>1, <2>1, <2>2, VisitingInv
<1> QED
    BY <1>2, <1>3, <1>4

\* The steps of the search.
LEMMA SearchStepInv ==
    ParseInv /\ (NextRoot \/ Descend \/ Skip \/ Leave) /\ UNCHANGED vars => ParseInv'
<1> SUFFICES ASSUME ParseInv, NextRoot \/ Descend \/ Skip \/ Leave, UNCHANGED vars
             PROVE  ParseInv'
    OBVIOUS
<1>1. UNCHANGED <<doc, phase, report>> /\ phase = "visiting"
    BY DEF NextRoot, Descend, Skip, Leave, Visiting, Enter
<1>2. Unknown = {} /\ doc.dialect \in {"ini", "dsl"} /\ SearchInv
    BY <1>1 DEF ParseInv, PhaseInv, Vetted
<1>3. SearchInv'
    BY <1>2, NextRootKeepsSearch, DescendKeepsSearch, SkipKeepsSearch, LeaveKeepsSearch
<1> QED
    BY <1>1, <1>2, <1>3, VisitingInv

LEMMA FoundInv == ParseInv /\ Found => ParseInv'
<1> SUFFICES ASSUME ParseInv, Found PROVE ParseInv'
    OBVIOUS
<1>1. /\ \E r : report' = r /\ TellsOfCycle(r)
      /\ phase' \in {"raised", "fallback"} /\ doc' = doc /\ report' # << >>
      /\ color' = color /\ stack' = stack
    BY FoundTellsOfCycle DEF ParseInv
<1>2. SearchInv'
    BY <1>1, SearchStays DEF ParseInv
<1>3. PhaseInv' /\ AcceptedGraphIsSound'
    BY <1>1 DEF PhaseInv, NotYetSorted, Vetted, Sorting, AcceptedGraphIsSound
<1>4. TellsOfCycle(report)'
  <2>1. PICK r : report' = r /\ TellsOfCycle(r)
      BY <1>1
  <2>2. Names' = Names
      BY <1>1 DEF Names
  <2> QED
      BY <1>1, <2>1, <2>2 DEF TellsOfCycle, CycleIn, Edge
<1>5. RefusalIsJustified'
    BY <1>1, <1>4 DEF RefusalIsJustified
<1> QED
    BY <1>2, <1>3, <1>5 DEF ParseInv

\* An INI document that is searched to the end is loaded with its map.
LEMMA LoadIniInv == ParseInv /\ LoadIni => ParseInv'
<1> SUFFICES ASSUME ParseInv, LoadIni PROVE ParseInv'
    OBVIOUS
<1>1. /\ UNCHANGED <<doc, color, stack, report>> /\ doc.dialect = "ini"
      /\ phase = "visiting" /\ stack = << >> /\ White = {} /\ phase' = "loaded"
      /\ context'.targets = doc.targets /\ context'.matrix = Rows(doc.needs)
      /\ context'.settings = Normalized
    BY DEF LoadIni, Visited, Visiting, Loaded
<1>2. SearchInv /\ SearchTyped /\ Unknown = {}
    BY <1>1 DEF ParseInv, PhaseInv, Vetted, SearchInv
<1>3. \A S \in SUBSET Names : ~CycleIn(S)
    BY <1>1, <1>2, VisitedHasNoCycle
<1> DEFINE m == Rows(doc.needs)
<1>4. DOMAIN m = Names /\ \A n \in Names : m[n] = ToSet(doc.needs[n])
    BY DEF Rows, Names
<1>5. \A n \in Names : m[n] \subseteq Names
    BY <1>2, <1>4 DEF Unknown, ToSet
<1>6. ToSet(doc.targets) \subseteq Names
    BY <1>1, DocsAreRead DEF ParseInv, SearchInv, SearchTyped, DocAssumption, Names
<1> HIDE DEF m
<1>7. ASSUME NEW S \in SUBSET Names, S # {} PROVE \E n \in S : m[n] \cap S = {}
  <2>1. ~CycleIn(S)
      BY <1>3
  <2>2. PICK n \in S : \A k \in S : ~Edge(n, k)
      BY <1>7, <2>1 DEF CycleIn
  <2> QED
      BY <1>4, <2>2 DEF Edge
<1>8. AcceptedGraphIsSound'
    BY <1>1, <1>4, <1>5, <1>6, <1>7, SettingsAreGood
    DEF AcceptedGraphIsSound, Sections, MachineSections, PackageSections, m
<1> QED
    BY <1>1, <1>8, LoadedInv

\* A DSL document that is searched to the end is sorted, from the beginning.
LEMMA ToDagInv == ParseInv /\ ToDag => ParseInv'
<1> SUFFICES ASSUME ParseInv, ToDag PROVE ParseInv'
    OBVIOUS
<1>1. /\ UNCHANGED <<doc, color, stack, report, resolved, pc>> /\ doc.dialect = "dsl"
      /\ phase = "visiting" /\ stack = << >> /\ White = {} /\ phase' = "ordering"
      /\ requires' = [n \in Targets |-> doc.needs[n]]
      /\ indegree' = [n \in Targets |-> Cardinality(DOMAIN doc.needs[n])]
      /\ ready' = {n \in Targets : doc.needs[n] = << >>}
    BY DEF ToDag, Visited, Visiting
<1>2. SearchInv /\ SearchTyped /\ Unknown = {} /\ resolved = << >> /\ pc = "sorting"
    BY <1>1 DEF ParseInv, PhaseInv, NotYetSorted, Vetted, SearchInv
<1>3. Names = Targets
    BY <1>1, DocsAreRead DEF ParseInv, SearchInv, SearchTyped, DocAssumption, Names
<1>4. doc.needs \in [Targets -> Seq(0..N)]
    BY <1>2, <1>3, MapFacts
<1>5. requires' = doc.needs /\ requires' \in [Targets -> Seq(0..N)]
    BY <1>1, <1>4
<1>6. ASSUME NEW n \in Targets
      PROVE  /\ Declared(n)' = DOMAIN doc.needs[n]
             /\ Cardinality(DOMAIN doc.needs[n]) = 0 <=> doc.needs[n] = << >>
  <2>1. \A i \in DOMAIN doc.needs[n] : doc.needs[n][i] \in Targets
      BY <1>2, <1>3 DEF Unknown
  <2>2. Declared(n)' = DOMAIN doc.needs[n]
      BY <1>5, <2>1 DEF Declared
  <2>3. doc.needs[n] \in Seq(0..N)
      BY <1>4
  <2>4. DOMAIN doc.needs[n] = 1..Len(doc.needs[n]) /\ Len(doc.needs[n]) \in Nat
      BY <2>3
  <2>5. Cardinality(DOMAIN doc.needs[n]) = Len(doc.needs[n])
      BY <2>4, FS_Interval
  <2>6. Len(doc.needs[n]) = 0 <=> doc.needs[n] = << >>
      BY <2>3
  <2> QED
      BY <2>2, <2>5, <2>6
<1>7. Begun'
  <2>1. indegree' = [n \in Targets |-> Cardinality(Declared(n)')]
      BY <1>1, <1>6
  <2>2. ready' = {n \in Targets : indegree'[n] = 0}
      BY <1>1, <1>6
  <2> QED
      BY <1>1, <1>2, <2>1, <2>2 DEF Begun
<1>8. Inv'
  <2>1. (requires \in [Targets -> Seq(0..N)] /\ Begun => Inv)'
      BY BegunInv, PTL
  <2> QED
      BY <1>5, <1>7, <2>1
<1>9. SearchInv'
    BY <1>1, <1>2, SearchStays
<1>10. Sorting'
  <2>1. \A n \in Names : color[n] = "black"
      BY <1>1, <1>2, VisitedHasNoCycle
  <2> QED
      BY <1>1, <1>5, <1>8, <2>1, EdgesStay DEF Sorting
<1>11. PhaseInv'
    BY <1>1, <1>2, <1>10, EdgesStay DEF PhaseInv, NotYetSorted, Vetted
<1>12. (SearchInv /\ Sorting /\ phase = "ordering" => pc # "cyclic")'
    BY SortAgrees, PTL
<1>13. RefusalIsJustified' /\ AcceptedGraphIsSound'
    BY <1>1, <1>9, <1>10, <1>12, EdgesStay
    DEF ParseInv, RefusalIsJustified, AcceptedGraphIsSound
<1> QED
    BY <1>9, <1>11, <1>13 DEF ParseInv

\* The sort goes on with what it was given.
LEMMA SortStepInv == ParseInv /\ phase = "ordering" /\ GraphNext /\ UNCHANGED parsing => ParseInv'
<1> SUFFICES ASSUME ParseInv, phase = "ordering", GraphNext, UNCHANGED parsing PROVE ParseInv'
    OBVIOUS
<1>1. UNCHANGED <<doc, phase, color, stack, report, context>>
    BY DEF parsing
<1>2. requires' = requires
    BY DEF GraphNext, Resolve, Return
<1>3. Inv /\ Inv'
    BY ResolveInv, ReturnInv DEF GraphNext, ParseInv, PhaseInv, Sorting
<1>4. SearchInv'
    BY <1>1, SearchStays DEF ParseInv
<1>5. Sorting' /\ PhaseInv'
    BY <1>1, <1>2, <1>3, EdgesStay DEF ParseInv, PhaseInv, Sorting, NotYetSorted, Vetted
<1>6. (SearchInv /\ Sorting /\ phase = "ordering" => pc # "cyclic")'
    BY SortAgrees, PTL
<1>7. RefusalIsJustified'
    BY <1>1, <1>4, <1>5, <1>6, EdgesStay DEF ParseInv, RefusalIsJustified
<1>8. AcceptedGraphIsSound'
    BY <1>1 DEF ParseInv, AcceptedGraphIsSound
<1> QED
    BY <1>4, <1>5, <1>7, <1>8 DEF ParseInv

\* What the sort has ordered is loaded.
LEMMA LoadDslInv == ParseInv /\ LoadDsl => ParseInv'
<1> SUFFICES ASSUME ParseInv, LoadDsl PROVE ParseInv'
    OBVIOUS
<1>1. UNCHANGED <<doc, color, stack, report>> /\ phase = "ordering" /\ pc # "sorting"
    BY DEF LoadDsl
<1>2. Inv /\ doc.dialect = "dsl" /\ pc # "cyclic"
    BY <1>1 DEF ParseInv, PhaseInv, Sorting, RefusalIsJustified
<1>3. pc = "done"
    BY <1>1, <1>2 DEF Inv, GraphTypeOK
<1>4. /\ phase' = "loaded" /\ context'.targets = resolved
      /\ context'.matrix = Matrix /\ context'.settings = Defaults
    BY <1>3 DEF LoadDsl, Loaded
<1>5. ToSet(resolved) \subseteq Targets
    BY <1>2 DEF Inv, GraphTypeOK, ToSet
<1>6. DOMAIN Matrix = Targets /\ \A n \in Targets : Matrix[n] = Dependencies(n)
    BY DEF Matrix
<1>7. \A n \in Targets : Dependencies(n) \subseteq Targets
    BY DEF Dependencies, Declared
<1>8. \A S \in SUBSET Targets : S = {} \/ \E n \in S : Dependencies(n) \cap S = {}
    BY <1>2, <1>3, InvImpliesErrorMeansCycle DEF ErrorMeansCycle, Knot
<1>9. AcceptedGraphIsSound'
    BY <1>1, <1>2, <1>4, <1>5, <1>6, <1>7, <1>8, SettingsAreGood
    DEF AcceptedGraphIsSound, Sections, MachineSections, PackageSections
<1> QED
    BY <1>1, <1>4, <1>9, LoadedInv

-----------------------------------------------------------------------------
LEMMA ParseInitInv == ParseInit /\ Unsorted => ParseInv
<1> SUFFICES ASSUME ParseInit, Unsorted PROVE ParseInv
    OBVIOUS
<1>1. /\ doc \in Docs /\ phase = "reading" /\ stack = << >> /\ report = << >>
      /\ color = [n \in Names |-> "white"] /\ DOMAIN stack = {} /\ stack \in Seq(Steps)
      /\ resolved = << >> /\ pc = "sorting"
    BY DEF ParseInit, Unsorted
<1>2. SearchInv
    BY <1>1 DEF SearchInv, SearchTyped, GrayOnPath, PathOnce, PathChained, SeenAreBlack,
                CyclesNotBlack
<1>3. PhaseInv /\ AcceptedGraphIsSound /\ RefusalIsJustified
    BY <1>1 DEF PhaseInv, NotYetSorted, Vetted, Sorting, AcceptedGraphIsSound,
                RefusalIsJustified
<1> QED
    BY <1>2, <1>3 DEF ParseInv

LEMMA ParseStutterInv == ParseInv /\ UNCHANGED <<parsing, vars>> => ParseInv'
<1> SUFFICES ASSUME ParseInv, UNCHANGED parsing, UNCHANGED vars PROVE ParseInv'
    OBVIOUS
<1>1. UNCHANGED <<doc, phase, color, stack, report, context>> /\ requires' = requires /\ pc' = pc
      /\ resolved' = resolved
    BY DEF parsing, vars
<1>2. SearchInv'
    BY <1>1, SearchStays DEF ParseInv
<1>3. Inv => Inv'
    BY ReturnInv
<1>4. PhaseInv'
    BY <1>1, <1>3, EdgesStay DEF ParseInv, PhaseInv, NotYetSorted, Vetted, Sorting
<1>5. RefusalIsJustified' /\ AcceptedGraphIsSound'
    BY <1>1, EdgesStay DEF ParseInv, RefusalIsJustified, AcceptedGraphIsSound
<1> QED
    BY <1>2, <1>4, <1>5 DEF ParseInv

LEMMA ParseStepInv == ParseInv /\ [ParseNext]_<<parsing, vars>> => ParseInv'
<1> SUFFICES ASSUME ParseInv, [ParseNext]_<<parsing, vars>> PROVE ParseInv'
    OBVIOUS
<1>1. CASE NotFound
  <2>1. UNCHANGED <<doc, color, stack, report>> /\ doc.dialect = "missing" /\ phase' = "fallback"
      BY <1>1 DEF NotFound, Reading, Fallback
  <2> QED
      BY <2>1, RefusedInv
<1>2. CASE InferLean \/ LoadLiving \/ ParseJson
    BY <1>2, InferLeanInv, LoadLivingInv, ParseJsonInv
<1>3. CASE (ValidateDsl \/ ParseIni) /\ UNCHANGED vars
    BY <1>3, ValidateDslInv, ParseIniInv
<1>4. CASE (NextRoot \/ Descend \/ Skip \/ Leave) /\ UNCHANGED vars
    BY <1>4, SearchStepInv
<1>5. CASE Found \/ LoadIni \/ ToDag \/ LoadDsl
    BY <1>5, FoundInv, LoadIniInv, ToDagInv, LoadDslInv
<1>6. CASE phase = "ordering" /\ GraphNext /\ UNCHANGED parsing
    BY <1>6, SortStepInv
<1>7. CASE UNCHANGED <<parsing, vars>>
    BY <1>7, ParseStutterInv
<1> QED
    BY <1>1, <1>2, <1>3, <1>4, <1>5, <1>6, <1>7 DEF ParseNext

\* What the parser says of a blueprint of any dialect is right: an accepted one
\* can be built, a refused one has a fault or a cycle that is reported as it is,
\* and the sort refuses none that the validator let pass.
THEOREM VerdictsAreJustified == ParseSpec => []VerdictIsJustified
<1>1. ParseInv => VerdictIsJustified
    BY DEF ParseInv, VerdictIsJustified
<1> QED
    BY ParseInitInv, ParseStepInv, <1>1, PTL DEF ParseSpec

-----------------------------------------------------------------------------
Content == [v : Nat, by : Txns \cup {NoTxn}, good : BOOLEAN]
Progress == {"idle", "read", "feeding", "repairing", "verifying", "swapping", "purging", "ended"}

StagingTypeOK ==
    /\ setup \in [manager : [Txns -> Managers], target : [Txns -> Files], fails : BOOLEAN]
    /\ step \in [Txns -> Progress] /\ patch \in [Txns -> Content]
    /\ prod \in [Files -> Content] /\ stage \in [Managers -> [Files -> Content]]
    /\ DOMAIN result = Txns /\ result = [t \in Txns |-> result[t]] /\ edits \in Nat

LEMMA NothingIsContent == Nothing \in Content /\ Nothing.by = NoTxn /\ ~Nothing.good /\ Nothing.v = 0
  BY DEF Nothing, Written, Content

LEMMA StagingInit == HealingInit => StagingTypeOK
<1>1. Written(1, FALSE) \in Content
  BY DEF Written, Content
<1>2. HealingInit => setup \in [manager : [Txns -> Managers], target : [Txns -> Files], fails : BOOLEAN]
  BY HealingAssumption DEF HealingInit
<1>3. HealingInit => step \in [Txns -> Progress] /\ patch \in [Txns -> Content] /\ prod \in [Files -> Content]
  BY <1>1, NothingIsContent DEF HealingInit, Progress
<1>4. HealingInit => stage \in [Managers -> [Files -> Content]]
  BY NothingIsContent DEF HealingInit
<1>5. HealingInit => DOMAIN result = Txns /\ result = [t \in Txns |-> result[t]]
  BY DEF HealingInit
<1>6. HealingInit => edits \in Nat
  BY DEF HealingInit
<1> QED BY <1>2, <1>3, <1>4, <1>5, <1>6 DEF StagingTypeOK

\* A transaction that writes its staged file leaves all others alone.
LEMMA MineIsSet ==
    ASSUME StagingTypeOK, NEW t \in Txns, NEW c \in Content, SetMine(t, c), setup' = setup
    PROVE  /\ stage' \in [Managers -> [Files -> Content]] /\ Mine(t)' = c
           /\ \A m \in Managers, f \in Files :
                 m # setup.manager[t] \/ f # setup.target[t] => stage'[m][f] = stage[m][f]
  BY DEF StagingTypeOK, SetMine, Mine

LEMMA MineIsContent == ASSUME StagingTypeOK, NEW t \in Txns PROVE Mine(t) \in Content
  BY DEF StagingTypeOK, Mine

LEMMA StagingStep == ASSUME StagingTypeOK, [HealingNext]_staged PROVE StagingTypeOK'
<1> USE DEF StagingTypeOK
<1>1. ASSUME NEW t \in Txns, ReadSource(t) PROVE StagingTypeOK'
  <2>1. PICK good \in BOOLEAN :
          patch' = [patch EXCEPT ![t] = [v |-> prod[setup.target[t]].v, by |-> t, good |-> good]]
    BY <1>1 DEF ReadSource
  <2>2. [v |-> prod[setup.target[t]].v, by |-> t, good |-> good] \in Content
    BY DEF Content
  <2>3. patch' \in [Txns -> Content]
    BY <2>1, <2>2
  <2> QED BY <1>1, <2>3 DEF ReadSource, Goto, Progress
<1>2. ASSUME NEW t \in Txns, NextAttempt(t), UNCHANGED <<setup, patch, prod, stage, edits>>
      PROVE  StagingTypeOK'
  BY <1>2 DEF NextAttempt, Goto, Returns, Progress
<1>3. ASSUME NEW t \in Txns, Unrecoverable(t) \/ SwapRaises(t) PROVE StagingTypeOK'
  BY <1>3 DEF Unrecoverable, SwapRaises, Goto, Returns, Progress
<1>4. ASSUME NEW t \in Txns, CopyToStage(t) PROVE StagingTypeOK'
  <2>1. prod[setup.target[t]] \in Content
    OBVIOUS
  <2>2. stage' \in [Managers -> [Files -> Content]]
    BY <1>4, <2>1, MineIsSet DEF CopyToStage
  <2> QED BY <1>4, <2>2 DEF CopyToStage, Goto, Progress
<1>5. ASSUME NEW t \in Txns, Feed(t) \/ Verify(t) PROVE StagingTypeOK'
  BY <1>5 DEF Feed, Verify, Goto, Progress
<1>6. ASSUME NEW t \in Txns, RepairRaises(t) \/ VerifyFails(t) PROVE StagingTypeOK'
  BY <1>2, <1>6 DEF RepairRaises, VerifyFails
<1>7. ASSUME NEW t \in Txns, Repair(t) PROVE StagingTypeOK'
  <2>1. patch[t] \in Content
    OBVIOUS
  <2>2. stage' \in [Managers -> [Files -> Content]]
    BY <1>7, <2>1, MineIsSet DEF Repair
  <2> QED BY <1>7, <2>2 DEF Repair, Goto, Progress
<1>8. ASSUME NEW t \in Txns, Swap(t) PROVE StagingTypeOK'
  <2>1. Mine(t) \in Content
    BY MineIsContent
  <2>2. prod' \in [Files -> Content]
    BY <1>8, <2>1 DEF Swap
  <2> QED BY <1>8, <2>2 DEF Swap, Goto, Returns, Progress
<1>9. ASSUME NEW t \in Txns, Purge(t) PROVE StagingTypeOK'
  <2>1. stage' \in [Managers -> [Files -> Content]]
    BY <1>9, NothingIsContent DEF Purge
  <2> QED BY <1>9, <2>1 DEF Purge, Goto, Progress
<1>10. ASSUME NEW f \in Files, Edit(f) PROVE StagingTypeOK'
  <2>1. PICK good \in BOOLEAN : prod' = [prod EXCEPT ![f] = Written(edits + 1, good)]
    BY <1>10 DEF Edit
  <2>2. Written(edits + 1, good) \in Content
    BY DEF Written, Content
  <2>3. prod' \in [Files -> Content]
    BY <2>1, <2>2
  <2> QED BY <1>10, <2>3 DEF Edit
<1>11. CASE UNCHANGED staged
  BY <1>11 DEF staged
<1> QED
  BY <1>1, <1>3, <1>4, <1>5, <1>6, <1>7, <1>8, <1>9, <1>10, <1>11 DEF HealingNext

-----------------------------------------------------------------------------
\* Whose work is where: c is a content of the staged file f of manager m.
TracedInStage(c, m, f) ==
    c.by # NoTxn /\ Private(c.by) =>
        \/ result[c.by] = "promoted"
        \/ m = setup.manager[c.by] /\ f = setup.target[c.by]
TracedInProd(c) == c.by # NoTxn /\ Private(c.by) => result[c.by] = "promoted"

PatchesAreOwn == \A t \in Txns : patch[t].by \in {t, NoTxn}
StageIsTraced == \A m \in Managers, f \in Files : TracedInStage(stage[m][f], m, f)
PromotedIsOver == \A t \in Txns : result[t] = "promoted" => step[t] \in {"purging", "ended"}
TraceInv == PatchesAreOwn /\ StageIsTraced /\ PromotedIsOver /\ RollbackLeavesProduction

LEMMA TraceInit == HealingInit => TraceInv
  BY NothingIsContent
     DEF HealingInit, TraceInv, PatchesAreOwn, StageIsTraced, PromotedIsOver, Written,
         RollbackLeavesProduction, TracedInStage

\* Who was promoted stays so; what was traced stays traced.
ResultsStay == setup' = setup /\ \A t \in Txns : result[t] = "promoted" => result'[t] = "promoted"

LEMMA TraceStays ==
    ASSUME ResultsStay, NEW c \in Content
    PROVE  /\ \A m \in Managers, f \in Files : TracedInStage(c, m, f) => TracedInStage(c, m, f)'
           /\ TracedInProd(c) => TracedInProd(c)'
<1>1. \A t : Private(t)' <=> Private(t)
  BY DEF ResultsStay, Private
<1>2. c.by # NoTxn => c.by \in Txns
  BY DEF Content
<1> QED BY <1>1, <1>2 DEF ResultsStay, TracedInStage, TracedInProd

\* A step that only moves transactions on keeps every trace.
LEMMA TracesStay ==
    ASSUME StagingTypeOK, TraceInv, ResultsStay, PatchesAreOwn', PromotedIsOver',
           stage' = stage, prod' = prod
    PROVE  TraceInv'
<1>1. ASSUME NEW m \in Managers, NEW f \in Files PROVE TracedInStage(stage[m][f], m, f)'
  <2>1. PICK c \in Content : c = stage[m][f]
    BY DEF StagingTypeOK
  <2>2. TracedInStage(c, m, f)'
    BY <2>1, TraceStays DEF TraceInv, StageIsTraced
  <2> QED BY <2>1, <2>2
<1>2. ASSUME NEW f \in Files PROVE TracedInProd(prod[f])'
  <2>1. PICK c \in Content : c = prod[f]
    BY DEF StagingTypeOK
  <2>2. TracedInProd(c)'
    BY <2>1, TraceStays DEF TraceInv, RollbackLeavesProduction, TracedInProd
  <2> QED BY <2>1, <2>2
<1>3. RollbackLeavesProduction'
  BY <1>2 DEF RollbackLeavesProduction, TracedInProd
<1> QED BY <1>1, <1>3 DEF TraceInv, StageIsTraced

\* So does one that changes the staged file of one transaction to what is traced
\* there.
LEMMA TracesAreSet ==
    ASSUME StagingTypeOK, TraceInv, ResultsStay, PatchesAreOwn', PromotedIsOver', prod' = prod,
           NEW t \in Txns, NEW c \in Content, SetMine(t, c),
           TracedInStage(c, setup.manager[t], setup.target[t])
    PROVE  TraceInv'
<1>1. /\ Mine(t)' = c
      /\ \A m \in Managers, f \in Files :
            m # setup.manager[t] \/ f # setup.target[t] => stage'[m][f] = stage[m][f]
  BY MineIsSet DEF ResultsStay
<1>2. PICK m0 \in Managers, f0 \in Files : m0 = setup.manager[t] /\ f0 = setup.target[t]
  BY DEF StagingTypeOK
<1>3. ASSUME NEW m \in Managers, NEW f \in Files PROVE TracedInStage(stage[m][f], m, f)'
  <2>1. CASE m = m0 /\ f = f0
    <3>1. stage'[m][f] = c
      BY <1>1, <1>2, <2>1 DEF Mine, ResultsStay
    <3>2. TracedInStage(c, m, f)'
      BY <1>2, <2>1, TraceStays
    <3> QED BY <3>1, <3>2
  <2>2. CASE ~(m = m0 /\ f = f0)
    <3>1. PICK d \in Content : d = stage[m][f]
      BY DEF StagingTypeOK
    <3>2. TracedInStage(d, m, f)'
      BY <3>1, TraceStays DEF TraceInv, StageIsTraced
    <3>3. stage'[m][f] = d
      BY <1>1, <1>2, <2>2, <3>1
    <3> QED BY <3>2, <3>3
  <2> QED BY <2>1, <2>2
<1>4. ASSUME NEW f \in Files PROVE TracedInProd(prod[f])'
  <2>1. PICK d \in Content : d = prod[f]
    BY DEF StagingTypeOK
  <2>2. TracedInProd(d)'
    BY <2>1, TraceStays DEF TraceInv, RollbackLeavesProduction, TracedInProd
  <2> QED BY <2>1, <2>2
<1>5. RollbackLeavesProduction'
  BY <1>4 DEF RollbackLeavesProduction, TracedInProd
<1> QED BY <1>3, <1>5 DEF TraceInv, StageIsTraced

\* And one that changes a production file to what is traced there.
LEMMA TracesArePromoted ==
    ASSUME StagingTypeOK, TraceInv, ResultsStay, PatchesAreOwn', PromotedIsOver', stage' = stage,
           NEW f0 \in Files, NEW c \in Content, prod' = [prod EXCEPT ![f0] = c],
           TracedInProd(c)'
    PROVE  TraceInv'
<1>1. ASSUME NEW m \in Managers, NEW f \in Files PROVE TracedInStage(stage[m][f], m, f)'
  <2>1. PICK d \in Content : d = stage[m][f]
    BY DEF StagingTypeOK
  <2>2. TracedInStage(d, m, f)'
    BY <2>1, TraceStays DEF TraceInv, StageIsTraced
  <2> QED BY <2>1, <2>2
<1>2. ASSUME NEW f \in Files PROVE TracedInProd(prod[f])'
  <2>1. CASE f = f0
    <3>1. prod'[f] = c
      BY <2>1 DEF StagingTypeOK
    <3> QED BY <3>1
  <2>2. CASE f # f0
    <3>1. PICK d \in Content : d = prod[f]
      BY DEF StagingTypeOK
    <3>2. TracedInProd(d)'
      BY <3>1, TraceStays DEF TraceInv, RollbackLeavesProduction, TracedInProd
    <3>3. prod'[f] = d
      BY <2>2, <3>1 DEF StagingTypeOK
    <3> QED BY <3>2, <3>3
  <2> QED BY <2>1, <2>2
<1>3. RollbackLeavesProduction'
  BY <1>2 DEF RollbackLeavesProduction, TracedInProd
<1> QED BY <1>1, <1>3 DEF TraceInv, StageIsTraced

LEMMA TraceStep == ASSUME StagingTypeOK, TraceInv, [HealingNext]_staged PROVE TraceInv'
<1> USE DEF StagingTypeOK
<1>0. PatchesAreOwn /\ PromotedIsOver
  BY DEF TraceInv
<1>1. ASSUME NEW t \in Txns, ReadSource(t) PROVE TraceInv'
  <2>1. PatchesAreOwn'
    BY <1>0, <1>1 DEF ReadSource, PatchesAreOwn
  <2>2. PromotedIsOver' /\ ResultsStay
    BY <1>0, <1>1 DEF ReadSource, Goto, PromotedIsOver, ResultsStay
  <2>3. stage' = stage /\ prod' = prod
    BY <1>1 DEF ReadSource
  <2> QED BY <2>1, <2>2, <2>3, TracesStay
<1>2. ASSUME NEW t \in Txns, step[t] \notin {"purging", "ended"}, result' = [result EXCEPT ![t] = result'[t]],
             result'[t] = "promoted" => step'[t] \in {"purging", "ended"},
             step' = [step EXCEPT ![t] = step'[t]], setup' = setup, patch' = patch
      PROVE  PatchesAreOwn' /\ PromotedIsOver' /\ ResultsStay
  BY <1>0, <1>2 DEF PatchesAreOwn, PromotedIsOver, ResultsStay
<1>3. ASSUME NEW t \in Txns, NextAttempt(t), step[t] \notin {"purging", "ended"},
             UNCHANGED <<setup, patch, prod, stage, edits>>
      PROVE  TraceInv'
  <2>1. /\ result' = [result EXCEPT ![t] = result'[t]] /\ step' = [step EXCEPT ![t] = step'[t]]
        /\ result'[t] = "promoted" => step'[t] \in {"purging", "ended"}
    BY <1>0, <1>3 DEF NextAttempt, Goto, Returns, PromotedIsOver
  <2> QED BY <1>2, <1>3, <2>1, TracesStay
<1>4. ASSUME NEW t \in Txns, Unrecoverable(t) \/ SwapRaises(t) PROVE TraceInv'
  <2>1. /\ result' = [result EXCEPT ![t] = result'[t]] /\ step' = [step EXCEPT ![t] = step'[t]]
        /\ step'[t] \in {"purging", "ended"} /\ step[t] \notin {"purging", "ended"}
        /\ UNCHANGED <<setup, patch, prod, stage>>
    BY <1>4 DEF Unrecoverable, SwapRaises, Goto, Returns
  <2> QED BY <1>2, <2>1, TracesStay
<1>5. ASSUME NEW t \in Txns, Feed(t) \/ Verify(t) PROVE TraceInv'
  <2>1. /\ result' = [result EXCEPT ![t] = result'[t]] /\ step' = [step EXCEPT ![t] = step'[t]]
        /\ result'[t] # "promoted" /\ step[t] \notin {"purging", "ended"}
        /\ UNCHANGED <<setup, patch, prod, stage>>
    BY <1>0, <1>5 DEF Feed, Verify, Goto, PromotedIsOver
  <2> QED BY <1>2, <2>1, TracesStay
<1>6. ASSUME NEW t \in Txns, RepairRaises(t) \/ VerifyFails(t) PROVE TraceInv'
  BY <1>3, <1>6 DEF RepairRaises, VerifyFails
<1>7. ASSUME NEW t \in Txns, CopyToStage(t) \/ Repair(t) PROVE TraceInv'
  <2>1. /\ result' = [result EXCEPT ![t] = result'[t]] /\ step' = [step EXCEPT ![t] = step'[t]]
        /\ result'[t] # "promoted" /\ step[t] \notin {"purging", "ended"}
        /\ UNCHANGED <<setup, patch, prod>>
    BY <1>0, <1>7 DEF CopyToStage, Repair, Goto, PromotedIsOver
  <2>2. PatchesAreOwn' /\ PromotedIsOver' /\ ResultsStay
    BY <1>2, <2>1
  <2>3. ASSUME CopyToStage(t) PROVE TraceInv'
    <3>1. PICK c \in Content : c = prod[setup.target[t]] /\ SetMine(t, c)
      BY <2>3 DEF CopyToStage
    <3>2. TracedInStage(c, setup.manager[t], setup.target[t])
      BY <3>1 DEF TraceInv, RollbackLeavesProduction, TracedInStage
    <3> QED BY <2>1, <2>2, <3>1, <3>2, TracesAreSet
  <2>4. ASSUME Repair(t) PROVE TraceInv'
    <3>1. PICK c \in Content : c = patch[t] /\ SetMine(t, c)
      BY <2>4 DEF Repair
    <3>2. TracedInStage(c, setup.manager[t], setup.target[t])
      BY <1>0, <3>1 DEF PatchesAreOwn, TracedInStage
    <3> QED BY <2>1, <2>2, <3>1, <3>2, TracesAreSet
  <2> QED BY <1>7, <2>3, <2>4
<1>8. ASSUME NEW t \in Txns, Swap(t) PROVE TraceInv'
  <2>1. /\ result' = [result EXCEPT ![t] = result'[t]] /\ step' = [step EXCEPT ![t] = step'[t]]
        /\ step'[t] = "purging" /\ step[t] \notin {"purging", "ended"} /\ result'[t] = "promoted"
        /\ UNCHANGED <<setup, patch, stage>>
    BY <1>8 DEF Swap, Goto, Returns
  <2>2. PatchesAreOwn' /\ PromotedIsOver' /\ ResultsStay
    BY <1>2, <2>1
  <2>3. PICK f0 \in Files, m0 \in Managers : f0 = setup.target[t] /\ m0 = setup.manager[t]
    OBVIOUS
  <2>4. PICK c \in Content : c = stage[m0][f0]
    OBVIOUS
  <2>8. prod' = [prod EXCEPT ![f0] = c]
    BY <1>8, <2>3, <2>4 DEF Swap, Mine
  <2>5. TracedInStage(c, m0, f0)
    BY <2>4 DEF TraceInv, StageIsTraced
  <2>6. ASSUME c.by # NoTxn, Private(c.by) PROVE result'[c.by] = "promoted"
    <3>1. c.by \in Txns
      BY <2>6 DEF Content
    <3>2. CASE c.by = t
      BY <2>1, <3>2
    <3>3. CASE c.by # t
      <4>1. result[c.by] = "promoted"
        BY <2>3, <2>5, <2>6, <3>1, <3>3 DEF TracedInStage, Private
      <4> QED BY <2>2, <3>1, <4>1 DEF ResultsStay
    <3> QED BY <3>2, <3>3
  <2>7. TracedInProd(c)'
    BY <2>1, <2>6 DEF TracedInProd, Private
  <2> QED BY <2>1, <2>2, <2>7, <2>8, TracesArePromoted
<1>9. ASSUME NEW t \in Txns, Purge(t) PROVE TraceInv'
  <2>1. /\ UNCHANGED <<setup, patch, prod, result>> /\ PatchesAreOwn' /\ PromotedIsOver' /\ ResultsStay
    BY <1>0, <1>9 DEF Purge, Goto, PatchesAreOwn, PromotedIsOver, ResultsStay
  <2>2. ASSUME NEW m \in Managers, NEW f \in Files PROVE stage'[m][f] \in {stage[m][f], Nothing}
    BY <1>9 DEF Purge
  <2>3. \A c \in Content, m \in Managers, f \in Files :
          TracedInStage(c, m, f) => TracedInStage(c, m, f)'
    BY <2>1, TraceStays
  <2>4. ASSUME NEW m \in Managers, NEW f \in Files PROVE TracedInStage(stage[m][f], m, f)'
    <3>1. PICK c \in Content : c = stage'[m][f]
      BY <2>2, NothingIsContent
    <3>2. TracedInStage(Nothing, m, f)
      BY NothingIsContent DEF TracedInStage
    <3>3. TracedInStage(stage[m][f], m, f)
      BY DEF TraceInv, StageIsTraced
    <3>4. TracedInStage(c, m, f)
      BY <2>2, <3>1, <3>2, <3>3
    <3>5. TracedInStage(c, m, f)'
      BY <2>3, <3>4
    <3> QED BY <3>1, <3>5
  <2>5. RollbackLeavesProduction'
    BY <2>1 DEF TraceInv, RollbackLeavesProduction, Private
  <2> QED BY <2>1, <2>4, <2>5 DEF TraceInv, StageIsTraced
<1>10. ASSUME NEW f \in Files, Edit(f) PROVE TraceInv'
  <2>1. PICK good \in BOOLEAN : prod' = [prod EXCEPT ![f] = Written(edits + 1, good)]
    BY <1>10 DEF Edit
  <2>5. Written(edits + 1, good) \in Content /\ Written(edits + 1, good).by = NoTxn
    BY DEF Written, Content
  <2>2. PICK c \in Content : c = Written(edits + 1, good) /\ c.by = NoTxn
    BY <2>5
  <2>3. TracedInProd(c)'
    BY <2>2 DEF TracedInProd
  <2>4. stage' = stage /\ PatchesAreOwn' /\ PromotedIsOver' /\ ResultsStay
    BY <1>0, <1>10 DEF Edit, PatchesAreOwn, PromotedIsOver, ResultsStay
  <2>6. prod' = [prod EXCEPT ![f] = c]
    BY <2>1, <2>2
  <2> QED BY <2>2, <2>3, <2>4, <2>6, TracesArePromoted
<1>11. ASSUME UNCHANGED staged PROVE TraceInv'
  <2>1. stage' = stage /\ prod' = prod /\ PatchesAreOwn' /\ PromotedIsOver' /\ ResultsStay
    BY <1>0, <1>11 DEF staged, PatchesAreOwn, PromotedIsOver, ResultsStay
  <2> QED BY <2>1, TracesStay
<1> QED
  BY <1>1, <1>4, <1>5, <1>6, <1>7, <1>8, <1>9, <1>10, <1>11 DEF HealingNext
-----------------------------------------------------------------------------
\* No other transaction works in the directory of t's manager.
Alone(t) == \A u \in Txns \ {t} : setup.manager[u] # setup.manager[t]

\* Where a repair that compiles is, if its transaction is alone and nothing fails.
GoodPath(t) ==
    Alone(t) /\ ~setup.fails /\ patch[t].good =>
        /\ step[t] # "idle"
        /\ step[t] \in {"feeding", "repairing"} => Mine(t) # Nothing
        /\ step[t] \in {"verifying", "swapping"} => Mine(t) = patch[t]
        /\ step[t] \in {"purging", "ended"} => result[t] = "promoted"
GoodPaths == \A t \in Txns : GoodPath(t)
FilesAreThere == \A f \in Files : prod[f] # Nothing

\* What waits for its swap was verified, or was purged by another transaction.
Verified(t) == Private(t) /\ step[t] = "swapping" => Mine(t) = Nothing \/ Mine(t).good
AllVerified == \A t \in Txns : Verified(t)

\* What a step leaves of a transaction that does not take it.
Untouched(t) ==
    /\ setup' = setup /\ step'[t] = step[t] /\ patch'[t] = patch[t] /\ result'[t] = result[t]
    /\ Private(t) => Mine(t)' = Mine(t) \/ Mine(t)' = Nothing
    /\ Alone(t) => Mine(t)' = Mine(t)

LEMMA StageUntouched ==
    ASSUME StagingTypeOK, setup' = setup, stage' = stage, NEW t \in Txns
    PROVE  Mine(t)' = Mine(t)
  BY DEF Mine

LEMMA OthersUntouched ==
    ASSUME StagingTypeOK, NEW t \in Txns, NEW u \in Txns, t # u, Run(u)
    PROVE  Untouched(t)
<1> USE DEF StagingTypeOK
<1>0. setup' = setup
  BY DEF Run, ReadSource, Unrecoverable, CopyToStage, Feed, RepairRaises, Repair, Verify, VerifyFails,
         Swap, SwapRaises, Purge
<1>1. step'[t] = step[t]
  BY DEF Run, ReadSource, Unrecoverable, CopyToStage, Feed, RepairRaises, Repair, Verify, VerifyFails,
         Swap, SwapRaises, Purge, NextAttempt, Goto
<1>2. patch'[t] = patch[t]
  BY DEF Run, ReadSource, Unrecoverable, CopyToStage, Feed, RepairRaises, Repair, Verify, VerifyFails,
         Swap, SwapRaises, Purge
<1>3. result'[t] = result[t]
  BY DEF Run, ReadSource, Unrecoverable, CopyToStage, Feed, RepairRaises, Repair, Verify, VerifyFails,
         Swap, SwapRaises, Purge, NextAttempt, Returns
<1>4. \/ stage' = stage
      \/ CopyToStage(u) \/ Repair(u)
      \/ Purge(u)
  BY DEF Run, ReadSource, Unrecoverable, Feed, RepairRaises, Verify, VerifyFails, Swap, SwapRaises
<1>5. CASE stage' = stage
  <2>1. Mine(t)' = Mine(t)
    BY <1>0, <1>5, StageUntouched
  <2> QED BY <1>0, <1>1, <1>2, <1>3, <2>1 DEF Untouched
<1>6. CASE CopyToStage(u) \/ Repair(u)
  <2>1. PICK c \in Content : SetMine(u, c)
    BY <1>6 DEF CopyToStage, Repair
  <2>2. \A m \in Managers, f \in Files :
           m # setup.manager[u] \/ f # setup.target[u] => stage'[m][f] = stage[m][f]
    BY <1>0, <2>1, MineIsSet
  <2>3. Private(t) => Mine(t)' = Mine(t)
    BY <1>0, <2>2 DEF Private, Mine
  <2>4. Alone(t) => Private(t)
    BY DEF Alone, Private
  <2> QED BY <1>0, <1>1, <1>2, <1>3, <2>3, <2>4 DEF Untouched
<1>7. CASE Purge(u)
  <2>1. PICK m \in Managers, f \in Files : m = setup.manager[t] /\ f = setup.target[t]
    OBVIOUS
  <2>2. stage'[m][f] = stage[m][f] \/ (m = setup.manager[u] /\ stage'[m][f] = Nothing)
    BY <1>7 DEF Purge
  <2>3. Mine(t) = stage[m][f] /\ Mine(t)' = stage'[m][f]
    BY <1>0, <2>1 DEF Mine
  <2>4. Alone(t) => m # setup.manager[u]
    BY <2>1 DEF Alone
  <2> QED BY <1>0, <1>1, <1>2, <1>3, <2>2, <2>3, <2>4 DEF Untouched
<1> QED BY <1>4, <1>5, <1>6, <1>7

LEMMA UntouchedKeeps ==
    ASSUME NEW t \in Txns, Untouched(t)
    PROVE  /\ GoodPath(t) => GoodPath(t)'
           /\ Verified(t) => Verified(t)'
<1>1. (Alone(t)' <=> Alone(t)) /\ (Private(t)' <=> Private(t)) /\ setup'.fails = setup.fails
  BY DEF Untouched, Alone, Private
<1>2. GoodPath(t) => GoodPath(t)'
  BY <1>1 DEF Untouched, GoodPath, Nothing, Written
<1>3. Verified(t) => Verified(t)'
  BY <1>1 DEF Untouched, Verified, Nothing, Written
<1> QED BY <1>2, <1>3

PathInv == GoodPaths /\ AllVerified /\ FilesAreThere

LEMMA PathInit == HealingInit => PathInv
<1>1. HealingInit => GoodPaths
  BY NothingIsContent DEF HealingInit, GoodPaths, GoodPath
<1>2. HealingInit => AllVerified
  BY DEF HealingInit, AllVerified, Verified
<1>3. HealingInit => FilesAreThere
  BY DEF HealingInit, FilesAreThere, Nothing, Written
<1> QED BY <1>1, <1>2, <1>3 DEF PathInv

\* The step of a transaction itself.
LEMMA OwnPath ==
    ASSUME StagingTypeOK, FilesAreThere, NEW t \in Txns, GoodPath(t), Verified(t), Run(t)
    PROVE  GoodPath(t)' /\ Verified(t)'
<1> USE DEF StagingTypeOK
<1>0. /\ (Alone(t)' <=> Alone(t)) /\ (Private(t)' <=> Private(t)) /\ setup' = setup
      /\ Mine(t) \in Content /\ ~Nothing.good
  BY MineIsContent, NothingIsContent
     DEF Run, ReadSource, Unrecoverable, CopyToStage, Feed, RepairRaises, Repair, Verify, VerifyFails,
         Swap, SwapRaises, Purge, Alone, Private
<1>1. CASE ReadSource(t)
  <2>1. step'[t] = "read"
    BY <1>1 DEF ReadSource, Goto
  <2> QED BY <2>1 DEF GoodPath, Verified
<1>2. CASE Unrecoverable(t)
  <2>1. step[t] = "idle" /\ step'[t] = "ended" /\ patch' = patch
    BY <1>2 DEF Unrecoverable, Goto
  <2> QED BY <1>0, <2>1 DEF GoodPath, Verified
<1>3. CASE CopyToStage(t)
  <2>1. PICK f \in Files : f = setup.target[t]
    OBVIOUS
  <2>2. PICK c \in Content : c = prod[f] /\ c # Nothing
    BY DEF FilesAreThere
  <2>3. SetMine(t, c) /\ step'[t] = "feeding"
    BY <1>3, <2>1, <2>2 DEF CopyToStage, Goto
  <2>4. Mine(t)' # Nothing
    BY <1>0, <2>2, <2>3, MineIsSet
  <2>5. Nothing' = Nothing
    BY DEF Nothing, Written
  <2> QED BY <2>3, <2>4, <2>5 DEF GoodPath, Verified
<1>4. CASE Feed(t)
  <2>1. step'[t] = "repairing" /\ Mine(t) # Nothing /\ Mine(t)' = Mine(t)
    BY <1>0, <1>4, StageUntouched DEF Feed, Goto
  <2> QED BY <2>1 DEF GoodPath, Verified, Nothing, Written
<1>5. ASSUME NextAttempt(t), ~(Alone(t) /\ ~setup.fails /\ patch[t].good), patch' = patch
      PROVE  GoodPath(t)' /\ Verified(t)'
  <2>1. step'[t] # "swapping"
    BY <1>5 DEF NextAttempt, Goto
  <2> QED BY <1>0, <1>5, <2>1 DEF GoodPath, Verified
<1>6. CASE RepairRaises(t)
  <2>1. ~(Alone(t) /\ ~setup.fails /\ patch[t].good)
    BY <1>6 DEF RepairRaises, GoodPath
  <2> QED BY <1>5, <1>6, <2>1 DEF RepairRaises
<1>7. CASE Repair(t)
  <2>1. PICK c \in Content : c = patch[t]
    OBVIOUS
  <2>2. SetMine(t, c) /\ step'[t] = "verifying" /\ patch' = patch
    BY <1>7, <2>1 DEF Repair, Goto
  <2>3. Mine(t)' = patch'[t]
    BY <1>0, <2>1, <2>2, MineIsSet
  <2> QED BY <2>2, <2>3 DEF GoodPath, Verified
<1>8. CASE Verify(t)
  <2>1. /\ step[t] = "verifying" /\ step'[t] = "swapping" /\ patch' = patch
        /\ Mine(t).good /\ Mine(t)' = Mine(t)
    BY <1>0, <1>8, StageUntouched DEF Verify, Goto
  <2> QED BY <1>0, <2>1 DEF GoodPath, Verified
<1>9. CASE VerifyFails(t)
  <2>1. ~(Alone(t) /\ ~setup.fails /\ patch[t].good)
    BY <1>9 DEF VerifyFails, GoodPath
  <2> QED BY <1>5, <1>9, <2>1 DEF VerifyFails
<1>10. CASE Swap(t)
  <2>1. step'[t] = "purging" /\ result'[t] = "promoted"
    BY <1>10 DEF Swap, Goto, Returns
  <2> QED BY <2>1 DEF GoodPath, Verified
<1>11. CASE SwapRaises(t)
  <2>1. step[t] = "swapping" /\ step'[t] = "purging" /\ patch' = patch /\ (Mine(t) = Nothing \/ setup.fails)
    BY <1>11 DEF SwapRaises, Goto
  <2> QED BY <1>0, <2>1 DEF GoodPath, Verified
<1>12. CASE Purge(t)
  <2>1. step[t] = "purging" /\ step'[t] = "ended" /\ patch' = patch /\ result' = result
    BY <1>12 DEF Purge, Goto
  <2> QED BY <1>0, <2>1 DEF GoodPath, Verified
<1> QED
  BY <1>1, <1>2, <1>3, <1>4, <1>6, <1>7, <1>8, <1>9, <1>10, <1>11, <1>12 DEF Run

LEMMA FilesStay == ASSUME StagingTypeOK, FilesAreThere, [HealingNext]_staged PROVE FilesAreThere'
<1> USE DEF StagingTypeOK
<1>0. Nothing' = Nothing
  BY DEF Nothing, Written
<1>1. ASSUME NEW t \in Txns, Swap(t) PROVE FilesAreThere'
  <2>1. PICK c : c = Mine(t) /\ c # Nothing
    BY <1>1 DEF Swap
  <2>2. prod' = [prod EXCEPT ![setup.target[t]] = c]
    BY <1>1, <2>1 DEF Swap
  <2> QED BY <1>0, <2>1, <2>2 DEF FilesAreThere
<1>2. ASSUME NEW f \in Files, Edit(f) PROVE FilesAreThere'
  <2>1. PICK good \in BOOLEAN : prod' = [prod EXCEPT ![f] = Written(edits + 1, good)]
    BY <1>2 DEF Edit
  <2>2. PICK c : c = Written(edits + 1, good) /\ c # Nothing
    <3>1. PICK n \in Nat : n = edits + 1 /\ n # 0
      OBVIOUS
    <3>2. Written(n, good).v = n /\ Nothing.v = 0
      BY DEF Nothing, Written
    <3>3. Written(n, good) # Nothing
      BY <3>1, <3>2
    <3> QED BY <3>1, <3>3
  <2> QED BY <1>0, <2>1, <2>2 DEF FilesAreThere
<1>3. ASSUME prod' = prod PROVE FilesAreThere'
  BY <1>0, <1>3 DEF FilesAreThere
<1> QED
  BY <1>1, <1>2, <1>3
     DEF HealingNext, ReadSource, Unrecoverable, CopyToStage, Feed, RepairRaises, Repair, Verify,
         VerifyFails, SwapRaises, Purge, staged

LEMMA PathStep == ASSUME StagingTypeOK, PathInv, [HealingNext]_staged PROVE PathInv'
<1>1. ASSUME NEW t \in Txns, NEW u \in Txns, Run(u) PROVE GoodPath(t)' /\ Verified(t)'
  <2>1. CASE t = u
    BY <1>1, <2>1, OwnPath DEF PathInv, GoodPaths, AllVerified
  <2>2. CASE t # u
    BY <1>1, <2>2, OthersUntouched, UntouchedKeeps DEF PathInv, GoodPaths, AllVerified
  <2> QED BY <2>1, <2>2
<1>2. ASSUME NEW t \in Txns, UNCHANGED <<setup, step, patch, stage, result>>
      PROVE  GoodPath(t)' /\ Verified(t)'
  <2>1. Untouched(t)
    BY <1>2, StageUntouched DEF Untouched
  <2> QED BY <2>1, UntouchedKeeps DEF PathInv, GoodPaths, AllVerified
<1>3. (\E u \in Txns : Run(u)) \/ UNCHANGED <<setup, step, patch, stage, result>>
  BY DEF HealingNext, Run, Edit, staged
<1>4. GoodPaths' /\ AllVerified'
  BY <1>1, <1>2, <1>3 DEF GoodPaths, AllVerified
<1> QED BY <1>4, FilesStay DEF PathInv
-----------------------------------------------------------------------------
StagingInv == StagingTypeOK /\ TraceInv /\ PathInv

LEMMA StagingIsInvariant == HealingSpec => []StagingInv
<1>1. HealingInit => StagingInv
  BY StagingInit, TraceInit, PathInit DEF StagingInv
<1>2. StagingInv /\ [HealingNext]_staged => StagingInv'
  BY StagingStep, TraceStep, PathStep DEF StagingInv
<1> QED BY <1>1, <1>2, PTL DEF HealingSpec

LEMMA StagingShows == ASSUME StagingInv PROVE RollbackLeavesProduction /\ GoodRepairIsPromoted
<1>1. RollbackLeavesProduction
  BY DEF StagingInv, TraceInv
<1>2. ASSUME NEW t \in Txns, ~setup.fails, \A u \in Txns \ {t} : setup.manager[u] # setup.manager[t],
             step[t] = "ended", patch[t].good
      PROVE  result[t] = "promoted"
  BY <1>2 DEF StagingInv, PathInv, GoodPaths, GoodPath, Alone
<1> QED BY <1>1, <1>2 DEF GoodRepairIsPromoted

\* What a transaction puts into production compiles, whoever edits and whatever
\* fails, as long as no two transactions of one manager stage the same file
\* (process_target_file verifies, then swaps).
THEOREM SwapsAreVerified == HealingSpec => OnlyVerifiedIsSwapped
<1> DEFINE GoodStep ==
      \A f \in Files :
        prod'[f] # prod[f] /\ (\A t \in Txns : Private(t)) => prod'[f].good \/ edits' # edits
<1>1. ASSUME StagingInv, [HealingNext]_staged PROVE GoodStep
  <2> SUFFICES ASSUME NEW f \in Files, prod'[f] # prod[f], \A t \in Txns : Private(t)
               PROVE  prod'[f].good \/ edits' # edits
    OBVIOUS
  <2> USE DEF StagingInv, StagingTypeOK
  <2>1. (\E t \in Txns : Swap(t)) \/ (\E g \in Files : Edit(g)) \/ prod' = prod
    BY <1>1
       DEF HealingNext, ReadSource, Unrecoverable, CopyToStage, Feed, RepairRaises, Repair, Verify,
           VerifyFails, SwapRaises, Purge, staged
  <2>2. ASSUME NEW t \in Txns, Swap(t) PROVE prod'[f].good
    <3>1. PICK c \in Content : c = Mine(t)
      BY <1>1, MineIsContent
    <3>2. prod' = [prod EXCEPT ![setup.target[t]] = c] /\ c # Nothing /\ step[t] = "swapping"
      BY <2>2, <3>1 DEF Swap
    <3>3. c.good
      BY <1>1, <3>1, <3>2 DEF PathInv, AllVerified, Verified
    <3>4. prod'[f] = c
      BY <1>1, <3>2
    <3> QED BY <3>3, <3>4
  <2>3. ASSUME NEW g \in Files, Edit(g) PROVE edits' # edits
    BY <1>1, <2>3 DEF Edit
  <2> QED BY <2>1, <2>2, <2>3
<1>2. ASSUME StagingInv, [HealingNext]_staged PROVE [GoodStep]_staged
  BY <1>1, <1>2
<1> HIDE DEF GoodStep
<1>3. HealingSpec => [][GoodStep]_staged
  BY <1>2, StagingIsInvariant, PTL DEF HealingSpec
<1> QED BY <1>3 DEF OnlyVerifiedIsSwapped, GoodStep

-----------------------------------------------------------------------------
\* What each phase of the loop in place has found, or has put back.
LoopInv ==
    /\ DOMAIN text = Modules
    /\ loop # "idle" => at \in Modules
    /\ loop = "judge" /\ diags = {} /\ whole => Broken(at) = {}
    /\ loop \in {"manifests", "flag"} => text[at] = saved.text
    /\ loop = "flag" => manifest = saved.manifest
    /\ HealIsAllOrNothing

LEMMA LoopStarts == LoopInit => LoopInv
  BY DEF LoopInit, LoopInv, HealIsAllOrNothing, NoReport

LEMMA LoopStep == ASSUME LoopInv, [LoopNext]_inPlace PROVE LoopInv'
<1> USE DEF LoopInv
<1>1. ASSUME StartHealing PROVE LoopInv'
  BY <1>1 DEF StartHealing, HealIsAllOrNothing
<1>2. ASSUME Build PROVE LoopInv'
  <2>1. loop' = "judge" /\ at' = at /\ at \in Modules /\ UNCHANGED <<text, manifest, parent>>
    BY <1>2 DEF Build
  <2>2. ASSUME diags' = {}, whole' PROVE Broken(at) = {}
    <3>1. \/ Broken(at) = {}
          \/ \E named \in (SUBSET Broken(at)) \ {{}} : diags' = named
          \/ whole' = FALSE
      BY <1>2 DEF Build
    <3>2. CASE whole' = FALSE
      BY <2>2, <3>2, Zenon
    <3>3. CASE \E named \in (SUBSET Broken(at)) \ {{}} : diags' = named
      <4>1. diags' # {}
        BY <3>3
      <4> QED BY <2>2, <4>1, Zenon
    <3> QED BY <3>1, <3>2, <3>3
  <2>3. diags' = {} /\ whole' => Broken(at)' = {}
    BY <2>1, <2>2 DEF Broken
  <2> QED BY <2>1, <2>3 DEF HealIsAllOrNothing
<1>3. ASSUME Healed PROVE LoopInv'
  <2>1. whole' => Broken(at) = {}
    BY <1>3 DEF Healed
  <2>2. outcome'.module = at /\ ~outcome'.back /\ text' = text /\ manifest' = manifest /\ parent' = parent
    BY <1>3 DEF Healed
  <2>3. HealIsAllOrNothing'
    BY <2>1, <2>2 DEF HealIsAllOrNothing, Broken
  <2> QED BY <1>3, <2>3 DEF Healed
<1>4. ASSUME Patch PROVE LoopInv'
  BY <1>4 DEF Patch, HealIsAllOrNothing
<1>5. ASSUME GiveUp PROVE LoopInv'
  BY <1>5 DEF GiveUp, HealIsAllOrNothing
<1>6. ASSUME Rollback PROVE LoopInv'
  BY <1>6 DEF Rollback, HealIsAllOrNothing
<1>7. ASSUME RestoreManifests PROVE LoopInv'
  BY <1>7 DEF RestoreManifests, RestoredManifest, HealIsAllOrNothing
<1>8. ASSUME FlagFailure PROVE LoopInv'
  <2>1. PICK named \in BOOLEAN :
          /\ outcome' = [module |-> at, success |-> FALSE, back |-> TRUE, flag |-> named]
          /\ named => at \in flags'
    BY <1>8 DEF FlagFailure
  <2>2. text[at] = saved.text /\ manifest = saved.manifest /\ UNCHANGED <<text, manifest, saved>>
    BY <1>8 DEF FlagFailure
  <2>3. HealIsAllOrNothing'
    BY <2>1, <2>2 DEF HealIsAllOrNothing
  <2> QED BY <1>8, <2>3 DEF FlagFailure
<1>9. ASSUME Kill PROVE LoopInv'
  BY <1>9 DEF Kill, HealIsAllOrNothing, NoReport
<1>10. ASSUME UNCHANGED inPlace PROVE LoopInv'
  BY <1>10 DEF inPlace, HealIsAllOrNothing, Broken
<1> QED BY <1>1, <1>2, <1>3, <1>4, <1>5, <1>6, <1>7, <1>8, <1>9, <1>10 DEF LoopNext

LEMMA LoopIsInvariant == LoopSpec => []LoopInv
<1>1. LoopInv /\ [LoopNext]_inPlace => LoopInv'
  BY LoopStep
<1> QED BY <1>1, LoopStarts, PTL DEF LoopSpec

\* A repair that is reported as failed has left nothing behind, and one that
\* compiles, alone in its directory and undisturbed, is in production
\* (process_target_file, heal_module).
THEOREM FailuresLeaveNoTrace == RepairSpec => []FailedRepairLeavesNoTrace
<1>1. LoopInv => HealIsAllOrNothing
  BY DEF LoopInv
<1>2. StagingInv /\ LoopInv => FailedRepairLeavesNoTrace
  BY <1>1, StagingShows DEF FailedRepairLeavesNoTrace
<1> QED BY <1>2, StagingIsInvariant, LoopIsInvariant, PTL DEF RepairSpec
==============================================================================

------------------------------ MODULE BuildGraph ------------------------------
(***************************************************************************)
(* build_graph.py: the targets of a blueprint are put into build order by  *)
(* Kahn's algorithm and grouped into stages.  A target is its rank, the    *)
(* place of its declaration; a name that no target has is 0.               *)
(***************************************************************************)
EXTENDS Naturals, Sequences, FiniteSets

CONSTANTS
    N,          \* number of targets
    Graphs      \* what the targets may require: a list of names for each

Targets == 1..N

ASSUME GraphAssumption ==
    /\ N \in Nat
    /\ \A g \in Graphs : g \in [Targets -> Seq(0..N)]

VARIABLES
    requires,   \* the requires lists as declared; a name may be repeated
    indegree, ready, resolved,
    pc          \* "sorting", "done" or "cyclic"

vars == <<requires, indegree, ready, resolved, pc>>

-----------------------------------------------------------------------------
\* dependency_map: the entries of a requires list that name a target.
Declared(n) == {i \in DOMAIN requires[n] : requires[n][i] \in Targets}
Uses(n, d) == {i \in DOMAIN requires[n] : requires[n][i] = d}
Dependencies(n) == {requires[n][i] : i \in Declared(n)}
Resolved == {resolved[k] : k \in DOMAIN resolved}

Begun ==
    /\ indegree = [n \in Targets |-> Cardinality(Declared(n))]
    /\ ready = {n \in Targets : indegree[n] = 0}
    /\ resolved = << >>
    /\ pc = "sorting"

GraphInit == requires \in Graphs /\ Begun

\* The dependents of current lose one for each time they list it; those that
\* have none left become ready.
Release(current) ==
    LET left == [n \in Targets |-> indegree[n] - Cardinality(Uses(n, current))]
    IN  /\ indegree' = left
        /\ ready' = (ready \ {current})
                      \cup {n \in Targets : Uses(n, current) # {} /\ left[n] = 0}

Resolve_Unsorted ==  \* Mutant: ready is not kept sorted.
    /\ pc = "sorting"
    /\ \E current \in ready :
        /\ resolved' = Append(resolved, current)
        /\ Release(current)
    /\ UNCHANGED <<requires, pc>>

Resolve_Early ==  \* Mutant: a dependent is ready with its first requirement.
    /\ pc = "sorting"
    /\ \E current \in ready :
        /\ \A other \in ready : current <= other
        /\ resolved' = Append(resolved, current)
        /\ ready' = (ready \ {current})
                      \cup {n \in Targets : Uses(n, current) # {} /\ n \notin Resolved}
    /\ UNCHANGED <<requires, indegree, pc>>

\* ready is sorted by rank, and its first target comes next.
Resolve ==
    /\ pc = "sorting"
    /\ \E current \in ready :
        /\ \A other \in ready : current <= other
        /\ resolved' = Append(resolved, current)
        /\ Release(current)
    /\ UNCHANGED <<requires, pc>>

Return_Unchecked ==  \* Mutant: the lengths are not compared.
    /\ pc = "sorting" /\ ready = {}
    /\ pc' = "done"
    /\ UNCHANGED <<requires, indegree, ready, resolved>>

Return ==
    /\ pc = "sorting" /\ ready = {}
    /\ pc' = IF Len(resolved) = N THEN "done" ELSE "cyclic"
    /\ UNCHANGED <<requires, indegree, ready, resolved>>

GraphNext == Resolve \/ Return

GraphSpec == GraphInit /\ [][GraphNext]_vars
-----------------------------------------------------------------------------
Greatest(S) == CHOOSE x \in S : \A y \in S : y <= x

\* BuildGraph.levels: the stages of the targets in build order.
Places(k) == {j \in 1..(k - 1) : resolved[j] \in Dependencies(resolved[k])}

StageOf ==
    LET stage[k \in DOMAIN resolved] ==
            Greatest({0} \cup {stage[j] + 1 : j \in Places(k)})
    IN stage

Level(s) == {resolved[k] : k \in {j \in DOMAIN resolved : StageOf[j] = s}}

-----------------------------------------------------------------------------
GraphTypeOK ==
    /\ requires \in [Targets -> Seq(0..N)]
    /\ indegree \in [Targets -> Nat]
    /\ ready \subseteq Targets
    /\ resolved \in Seq(Targets)
    /\ pc \in {"sorting", "done", "cyclic"}

\* The order has every target after all it requires, and once.
OrderRespectsRequires ==
    \A k \in DOMAIN resolved :
        /\ \A d \in Dependencies(resolved[k]) : \E j \in 1..(k - 1) : resolved[j] = d
        /\ \A j \in 1..(k - 1) : resolved[j] # resolved[k]

\* A set of targets of which none can ever be built before the others.
Knot(S) == S # {} /\ \A n \in S : Dependencies(n) \cap S # {}

\* CyclicDependencyError is raised if some targets wait on each other, and only
\* then.
ErrorMeansCycle ==
    /\ pc = "cyclic" => \E S \in SUBSET Targets : Knot(S)
    /\ pc = "done" => \A S \in SUBSET Targets : ~Knot(S)

\* Independent targets keep the order of their declaration: what comes next is
\* always the first declared target of those that could come next.
DeclarationOrderIsKept ==
    \A k \in DOMAIN resolved :
        LET earlier == {resolved[j] : j \in 1..(k - 1)}
        IN  \A n \in Targets \ earlier :
                Dependencies(n) \subseteq earlier => resolved[k] <= n

\* A target is in the earliest stage that has all it requires in stages before:
\* each stage is all that can be built when the stages before it are.
StagesAreEarliest ==
    pc = "done" =>
        \A s \in 0..N :
            LET built == UNION {Level(i) : i \in 0..(s - 1)}
            IN  Level(s) = {n \in Targets \ built : Dependencies(n) \subseteq built}

\* Order and stages are those of the blueprint in every run: first declared
\* first, and as early as can be (_topological_order, BuildGraph.levels).
OrderIsStable == DeclarationOrderIsKept /\ StagesAreEarliest
=============================================================================

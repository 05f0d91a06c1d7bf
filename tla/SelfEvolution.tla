--------------------------- MODULE SelfEvolution ---------------------------
(***************************************************************************)
(* src/evolution/bootstrap.py and pareto_frontier.py: the population of    *)
(* the self-evolution engine.  A generation breeds as many offspring as    *)
(* there are individuals, evaluates them and keeps the best fronts of      *)
(* both; the best candidate is replaced when one dominates it.             *)
(*                                                                         *)
(* All objectives are minimised, and domination looks at the objectives    *)
(* that both have: the runtime objective is missing where the runtime      *)
(* evaluator failed, so domination is not transitive.  Genomes are left    *)
(* out, since the measured fitness is noisy; so is the order in which a    *)
(* population is kept, and the crowding distance: any choice in a front.   *)
(***************************************************************************)
EXTENDS Integers, Sequences, FiniteSets, SequencesExt, FiniteSetsExt

CONSTANTS
    Infinite,        \* what is worse than any measured objective
    BuildFitness,    \* build-time objectives that a valid genome may have
    RunFitness,      \* runtime objectives, or Missing
    N,               \* population_size
    MaxRounds        \* max_generations

EngineAssumption ==
    /\ Infinite \in Nat /\ N \in Nat
    /\ BuildFitness \subseteq (0 .. Infinite - 1) \X (0 .. Infinite - 1)
    /\ RunFitness \subseteq Nat \ {0}

VARIABLES
    individuals,  \* population: the fitness of each individual, or Unknown
    bred,         \* what this generation has bred, all evaluated
    champion,     \* best_candidate: its fitness, or Unknown
    generation

engineVars == <<individuals, bred, champion, generation>>

Missing == 0
Unknown == [build |-> <<0, 0>>, run |-> Missing]

\* A candidate that fails validation: every objective is infinite.
Invalid == [build |-> <<Infinite, Infinite>>, run |-> Missing]

\* _evaluate_individual: nothing is measured of what fails validation, and
\* the runtime evaluator may fail.
Evaluations == {Invalid} \cup [build : BuildFitness, run : RunFitness \cup {Missing}]

Common(a, b) == {1, 2} \cup IF Missing \in {a.run, b.run} THEN {} ELSE {3}
Objective(a, k) == IF k = 3 THEN a.run ELSE a.build[k]

\* is_dominant
IsDominant(a, b) ==
    /\ \A k \in Common(a, b) : Objective(a, k) =< Objective(b, k)
    /\ \E k \in Common(a, b) : Objective(a, k) < Objective(b, k)

Rivals(pool, i) == {j \in DOMAIN pool : IsDominant(pool[j], pool[i])}

Rank(pool) ==
    LET front[i \in DOMAIN pool] == Max({0} \cup {front[j] : j \in Rivals(pool, i)}) + 1
    IN front

\* select_best: whole fronts while they fit, then a part of the next one.
Selections(pool, size) ==
    LET rank == Rank(pool)
    IN {s \in kSubset(size, DOMAIN pool) :
          \A i \in s, j \in DOMAIN pool \ s : rank[i] =< rank[j]}

\* The order of a population is not modelled: it is that of a key.
Key(e) == 100 * e.build[1] + 10 * e.build[2] + e.run
Populations == {p \in [1 .. N -> Evaluations] : \A k \in 2 .. N : Key(p[k - 1]) =< Key(p[k])}
Orders(pool, s) ==
    LET Sorted(q) == \A k \in 2 .. N : Key(pool[q[k - 1]]) =< Key(pool[q[k]])
    IN {[k \in 1 .. N |-> pool[q[k]]] : q \in {p \in [1 .. N -> s] : ToSet(p) = s /\ Sorted(p)}}

\* The population that was created, or the one kept, and its offspring, which
\* are as many whatever the number of parents: random ones fill up.
GenerateOffspring ==
    /\ generation < MaxRounds /\ bred = <<>>
    /\ individuals' \in IF individuals = <<>> THEN Populations ELSE {individuals}
    /\ bred' \in Populations
    /\ UNCHANGED <<champion, generation>>

\* _update_population and what becomes of the best candidate.
UpdatePopulation ==
    /\ bred # <<>>
    /\ \E s \in Selections(individuals \o bred, N) :
        individuals' \in Orders(individuals \o bred, s)
    /\ \E i \in {k \in 1 .. N : Rank(individuals')[k] = 1} :
        champion' = IF champion = Unknown \/ IsDominant(individuals'[i], champion)
                    THEN individuals'[i] ELSE champion
    /\ bred' = <<>>
    /\ generation' = generation + 1

EngineInit == individuals = <<>> /\ bred = <<>> /\ champion = Unknown /\ generation = 0

EngineNext == GenerateOffspring \/ UpdatePopulation

EngineSpec == EngineInit /\ [][EngineNext]_engineVars

-----------------------------------------------------------------------------
\* "a candidate that fails validation ... is dominated and never reaches the
\* Pareto front": nothing that is left out dominates what is kept, and once
\* anything valid was kept the best candidate is valid, although the best of
\* a generation replaces it only if it dominates it
\* (SelfEvolutionEngine.evolve, ParetoOptimizer.select_best).
NothingBetterIsLeftOut ==
    [][bred # <<>> /\ bred' = <<>> =>
        /\ \A m \in ToSet(individuals'), n \in ToSet(individuals \o bred) :
              IsDominant(n, m) => n \in ToSet(individuals')
        /\ (\E m \in ToSet(individuals') : m # Invalid) => champion' # Invalid]_engineVars
=============================================================================

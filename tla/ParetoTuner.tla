----------------------------- MODULE ParetoTuner -----------------------------
(***************************************************************************)
(* builder_brains/parameter_tuner.py: each cycle measures the population   *)
(* of the cycle before, pools it with an archive of configurations that    *)
(* nothing dominates, merges the first front of the pool into the archive  *)
(* and breeds the next population from it.  What one cycle leaves in the   *)
(* metadata is all the next one knows.                                     *)
(*                                                                         *)
(* A member is a configuration and its vector of maximised objectives.     *)
(* Which configurations mutation and crossover yield is not modelled: any. *)
(*                                                                         *)
(* The other search by domination is SelfEvolution; what both promise is   *)
(* stated at the end.                                                      *)
(***************************************************************************)
EXTENDS SelfEvolution

CONSTANTS
    Configs,     \* configurations
    Values,      \* values of an objective
    Size,        \* population size (at least 4 in the code)
    Capacity,    \* archive_capacity
    StagnationPatience,    \* stagnation_patience_cycles
    MaxCycles    \* bound: cycles

TunerAssumption == Values \subseteq Int /\ Size \in Nat \ {0} /\ Capacity \in Nat

VARIABLES
    archive,     \* pareto_frontier: a set of members
    population,  \* tuned_population: a sequence of configurations
    bestVolume,  \* best_hypervolume
    calm,        \* cycles_without_improvement
    boost,       \* boost_mutation_sigma
    seeds,       \* bootstrap_seed_configs
    measured,    \* what the last cycle measured: members
    truncated,   \* did the last merge exceed the capacity?
    cycles       \* cycles so far

tunerVars == <<archive, population, bestVolume, calm, boost, seeds, measured, truncated, cycles>>

Vectors == Values \X Values
Member(c, v) == [config |-> c, fitness |-> v]

Dominates(v, w) == v[1] >= w[1] /\ v[2] >= w[2] /\ v # w

\* fast_non_dominated_sort: the first front.
FirstFront(pool) ==
    {m \in pool : ~\E n \in pool : Dominates(n.fitness, m.fitness)}

\* hypervolume: the area between the archive and the origin.
Hypervolume(ms) ==
    Cardinality({p \in (1 .. Max(Values)) \X (1 .. Max(Values)) :
                    \E m \in ms : p[1] =< m.fitness[1] /\ p[2] =< m.fitness[2]})

-----------------------------------------------------------------------------
\* Mutant: the twin stays next to it.
Replace_BesideTwin(pool, ms) == pool \cup ms

\* Candidates replace the members of the same configuration, whatever their
\* vectors.
Replace(pool, ms) == {n \in pool : \A m \in ms : n.config # m.config} \cup ms

\* evolve pools the rows of the population with the archive and hands the first
\* front to _merge_into_archive in that order, the rows first: a member of the
\* archive that was measured again is there twice, with both vectors.  (Those of
\* the archive replace no one of each other.)
MergeIntoArchive(rows, front) ==
    LET pool[k \in 0 .. Size] ==
            IF k = 0 THEN archive
            ELSE IF rows[k] \in front THEN Replace(pool[k - 1], {rows[k]}) ELSE pool[k - 1]
    IN  Replace(pool[Size], archive \cap front)

\* Beyond the capacity the most crowded members go; the extremes of every
\* objective stay.
Truncations(front) ==
    IF Cardinality(front) =< Capacity THEN {front}
    ELSE {s \in kSubset(Capacity, front) :
            \A k \in {1, 2} : \E m \in s : \A n \in front : n.fitness[k] =< m.fitness[k]}

\* The clones of the archive that the next population starts with, which
\* leave room for offspring.
Clones(front) == {s \in SUBSET front : Cardinality(s) = Min({Cardinality(front), Size - 1})}

\* One cycle of evaluate: the rows measured are those of the population, and
\* the head of the population is what the cycle before left.
Cycle ==
    /\ cycles < MaxCycles
    /\ cycles' = cycles + 1
    /\ \E vectors \in [1 .. Size -> Vectors], fresh \in [Len(population) + 1 .. Size -> Configs] :
        LET tail == Size - Min({Len(seeds), Size})
            head(k) == IF k =< Len(population) THEN population[k] ELSE fresh[k]
            rows == [k \in 1 .. Size |->
                        Member(IF k =< tail THEN head(k) ELSE seeds[Size + 1 - k], vectors[k])]
            front == FirstFront(MergeIntoArchive(rows, FirstFront(ToSet(rows) \cup archive)))
        IN \E kept \in Truncations(front) :
              LET volume == Hypervolume(kept)
                  novel == \E m \in kept : \A n \in archive : n.fitness # m.fitness
                  better == volume > bestVolume
              IN /\ archive' = kept
                 /\ truncated' = (kept # front)
                 /\ measured' = ToSet(rows)
                 /\ bestVolume' = IF better THEN volume ELSE bestVolume
                 /\ calm' = IF better \/ novel THEN 0 ELSE calm + 1
                 /\ \E clones \in Clones(kept) :
                    \E children \in [Cardinality(clones) + 1 .. Size -> Configs] :
                        LET order == SetToSeq(clones)
                        IN population' = [k \in 1 .. Size |->
                                            IF k =< Len(order) THEN order[k].config ELSE children[k]]
    /\ boost' = FALSE
    /\ seeds' = <<>>

\* A cycle that ran out of time before the evolutionary step, or a direct
\* compilation: the configuration is carried forward and nothing is learned.
Bypass ==
    /\ cycles < MaxCycles
    /\ cycles' = cycles + 1
    /\ \E compiled \in BOOLEAN : boost' = (compiled /\ boost)
    /\ UNCHANGED <<archive, population, bestVolume, calm, seeds, measured, truncated>>

\* The decision tree of the next build reads the stagnation and asks for more
\* mutation, or for configurations of its experience replay.
Stimulate ==
    /\ calm >= StagnationPatience /\ ~boost /\ seeds = <<>>
    /\ \/ boost' = TRUE /\ UNCHANGED seeds
       \/ boost' = boost /\ \E c \in Configs : seeds' = <<c>>
    /\ UNCHANGED <<archive, population, bestVolume, calm, measured, truncated, cycles>>

TunerInit ==
    /\ archive = {}
    /\ population = <<>>
    /\ bestVolume = 0
    /\ calm = 0
    /\ boost = FALSE
    /\ seeds = <<>>
    /\ measured = {}
    /\ truncated = FALSE
    /\ cycles = 0

TunerNext == Cycle \/ Bypass \/ Stimulate

TunerSpec == TunerInit /\ [][TunerNext]_tunerVars

-----------------------------------------------------------------------------
\* Nothing that was measured is better.
Unbeaten(m, rows) == \A n \in rows : ~Dominates(n.fitness, m.fitness)

\* "preserving the frontier pool across generational steps": nothing in the
\* archive dominates another, and a configuration is in it once.  A member that
\* nothing measured dominates stays, whatever its own new measurement says, and
\* if members have to go for the capacity no objective loses its best; and when
\* measuring twice gives the same, every member is still there or dominated
\* (EvolutionaryEngine.evolve, FitnessSurvivalTracker._merge_into_archive).
FrontierIsKept ==
    [][/\ FirstFront(archive') = archive'
       /\ \A m, n \in archive' : m.config = n.config => m = n
       /\ \A m \in archive : Unbeaten(m, measured') =>
             IF truncated' THEN \A k \in {1, 2} : \E n \in archive' : m.fitness[k] =< n.fitness[k]
             ELSE m \in archive'
       /\ ~truncated' /\ (\A m, n \in archive \cup measured' : m.config = n.config => m = n) =>
             \A m \in archive :
                m \in archive' \/ \E n \in archive' : Dominates(n.fitness, m.fitness)]_tunerVars

\* What both searches promise, which share no state: nothing better is lost
\* (ParetoOptimizer.select_best, FitnessSurvivalTracker._merge_into_archive).
NothingBetterIsLost == NothingBetterIsLeftOut /\ FrontierIsKept
=============================================================================

----------------------------- MODULE EvolveLoop -----------------------------
(***************************************************************************)
(* The evolution loop of evolve.py (execute_evolution_loop) with the       *)
(* source mutator and the feature generator of aero/evolution.  A          *)
(* generation writes candidate genomes into the blueprint one after the    *)
(* other, measures each and appends it to the ledger, and puts back what   *)
(* the blueprint held when the candidate is a regression.  Then it mutates *)
(* source files, builds, lets the healer repair what does not build, and   *)
(* rolls back when that does not help.  Either may be killed anywhere.     *)
(*                                                                         *)
(* A genome is one gene; measurements are nondeterministic.  A blueprint   *)
(* is its genome, whether its other sections are still there, and whether  *)
(* it parses.  A source file is the set of rules that were applied to it,  *)
(* whether the healer rewrote it, whether a write of it was cut short, and *)
(* how its lines end.                                                      *)
(***************************************************************************)
EXTENDS Integers, Sequences, FiniteSets, SequencesExt, FiniteSetsExt

CONSTANTS
    Genomes,         \* values of the gene the schema of the blueprint allows
    Fallback,        \* the values the default schema allows
    Gains,           \* speed gains a measurement may give
    Setting,         \* evolution.rollback_threshold of the blueprint
    PopulationSize,
    EngineFiles,     \* engine source files
    TargetFiles,     \* source_mutation.target_files: the files of each pattern
    Rules,           \* source_mutation.rules
    MaxGenerations,  \* generations of a run
    MaxRuns,         \* bound: runs started
    MaxFaults        \* bound: failing writes of the ledger and of sources

VARIABLES
    bp,        \* self_host.aero
    disk,      \* context.aero: the entries of the ledger, or a torn file
    src,       \* the source files
    feature,   \* the module of a declared feature
    tomlkit,   \* is tomlkit installed?
    stage,
    chain,     \* the entries of the ledger in memory
    explored,  \* genomes that are not evaluated again
    offspring, \* how many candidates are left in this generation
    genome,    \* the candidate under evaluation
    backup,    \* blueprint_backup
    accepted,  \* did this generation accept a candidate?
    gen,       \* generations finished in this run
    visits,    \* files the mutator still comes to, a file once for each pattern
    backups,   \* the mutator's _backups
    mutated,   \* mutated_files
    faults, runs,
    \* history variables, which no step reads:
    found,     \* the blueprint this run started from
    since,     \* the length of the chain this run started from
    good,      \* each source as this run found it, or as it built when mutated last
    unwritten, \* files of this generation that a failing mutation left torn
    unsaved    \* files that such a write, or one of the rollback, left behind

run == <<chain, explored, offspring, genome, backup, accepted, gen, visits, backups, mutated>>
history == <<found, since, good, unwritten, unsaved>>
evolveVars == <<bp, disk, src, feature, tomlkit, stage, run, faults, runs, history>>

None == "none"
Torn == <<[genome |-> None, gain |-> 0, status |-> "TORN"]>>
Entry(g, m) == [genome |-> g, gain |-> m.gain, status |-> m.status]

Readable(b) == b.parses /\ b.rest = "whole"

\* "float(... or 2.0)": a threshold of zero, or none, is the default one.
Threshold(b) == IF ~Readable(b) \/ Setting = 0 THEN 2 ELSE Setting

\* An entry after which the blueprint is not rolled back.
Keeps(e, b) == e.status # "REVERTED" /\ e.gain >= -Threshold(b)

\* load_genome_schema: an unreadable blueprint, or one that declares no
\* genome, has the default schema.
Domain(b) == IF Readable(b) THEN Genomes ELSE Fallback
DefaultOf(b) == CHOOSE g \in Domain(b) : TRUE

\* genome_signature: a gene the schema does not name counts as its default.
Signature(g, b) == IF g \in Domain(b) THEN g ELSE DefaultOf(b)

-----------------------------------------------------------------------------
\* write_params_to_blueprint.  What does not parse is started afresh by
\* tomlkit, and refused by the line-based writer.
Written(b, g) ==
    IF b.parses THEN [b EXCEPT !.genome = g]
    ELSE IF tomlkit THEN [genome |-> g, rest |-> "lost", parses |-> TRUE]
    ELSE b

Idle ==
    /\ chain = <<>> /\ explored = {} /\ offspring = 0 /\ genome = None
    /\ backup = bp /\ accepted = FALSE /\ gen = 0
    /\ visits = <<>> /\ backups = <<>> /\ mutated = <<>>

\* A ledger that cannot be read is an empty one.
Start ==
    /\ stage = "stopped" /\ runs < MaxRuns
    /\ runs' = runs + 1
    /\ chain' = IF disk = Torn THEN <<>> ELSE disk
    /\ explored' = {Signature(e.genome, bp) : e \in ToSet(chain')}
    /\ stage' = "features"
    /\ found' = bp /\ since' = Len(chain') /\ good' = src /\ unwritten' = {} /\ unsaved' = {}
    /\ UNCHANGED <<bp, disk, src, feature, tomlkit, offspring, genome, backup, accepted,
                   gen, visits, backups, mutated, faults>>

\* generate_features: a module that is there and not empty is left alone.
Features ==
    /\ stage = "features"
    /\ feature' = IF bp.rest = "whole" /\ feature \in {"absent", "empty"} THEN "generated" ELSE feature
    /\ stage' = "breed"
    /\ UNCHANGED <<bp, disk, src, tomlkit, run, faults, runs, history>>

\* _produce_offspring: crossover and mutation reach every genome.
Breed ==
    /\ stage = "breed" /\ gen < MaxGenerations
    /\ offspring' = PopulationSize
    /\ accepted' = FALSE
    /\ stage' = "candidate"
    /\ UNCHANGED <<bp, disk, src, feature, tomlkit, chain, explored, genome, backup, gen,
                   visits, backups, mutated, faults, runs, history>>

\* A visited genome is replaced by a random one, and skipped if that was
\* visited too; so any genome may come next.  The blueprint is written in
\* place.
Candidate ==
    /\ stage = "candidate" /\ offspring > 0
    /\ \E g \in Domain(found) :
        IF g \in explored
        THEN /\ offspring' = offspring - 1
             /\ UNCHANGED <<bp, stage, genome, backup>>
        ELSE /\ genome' = g
             /\ backup' = bp
             /\ bp' = Written(bp, g)
             /\ stage' = "measure"
             /\ UNCHANGED offspring
    /\ UNCHANGED <<disk, src, feature, tomlkit, chain, explored, accepted, gen, visits, backups,
                   mutated, faults, runs, history>>

\* measure_performance and append_entry, which rewrites the whole ledger; a
\* write that fails leaves the entry in memory.
Measure ==
    /\ stage = "measure"
    /\ \E m \in {[gain |-> x, status |-> "PASSED"] : x \in Gains}
                \cup {[gain |-> 0, status |-> "REVERTED"]} :
        chain' = Append(chain, Entry(genome, m))
    /\ \/ disk' = chain' /\ UNCHANGED faults
       \/ faults < MaxFaults /\ faults' = faults + 1 /\ UNCHANGED disk
    /\ explored' = explored \cup {genome}
    /\ stage' = "settle"
    /\ UNCHANGED <<bp, src, feature, tomlkit, offspring, genome, backup, accepted, gen, visits,
                   backups, mutated, runs, history>>

Settle ==
    /\ stage = "settle"
    /\ IF Keeps(Last(chain), bp) THEN accepted' = TRUE /\ UNCHANGED bp
                             ELSE bp' = backup /\ UNCHANGED accepted
    /\ backup' = found
    /\ offspring' = offspring - 1
    /\ genome' = None
    /\ stage' = "candidate"
    /\ UNCHANGED <<disk, src, feature, tomlkit, chain, explored, gen, visits, backups, mutated,
                   faults, runs, history>>

-----------------------------------------------------------------------------
\* The settings were read when the run started, as nothing if the blueprint
\* did not parse or had lost its sections.
Enabled == Readable(found)

Select ==
    /\ stage = "candidate" /\ offspring = 0
    /\ IF Enabled /\ accepted
       THEN /\ \E order \in {s \in [1 .. Len(TargetFiles) ->
                                       UNION {SetToAllKPermutations(t) : t \in ToSet(TargetFiles)}] :
                              \A k \in DOMAIN s : ToSet(s[k]) = TargetFiles[k]} :
                   visits' = FlattenSeq(order)
            /\ stage' = "mutate" /\ UNCHANGED gen
       ELSE gen' = gen + 1 /\ stage' = "breed" /\ UNCHANGED visits
    /\ UNCHANGED <<bp, disk, src, feature, tomlkit, chain, explored, offspring, genome, backup,
                   accepted, backups, mutated, faults, runs, history>>

\* Sources are read in text mode, which takes every line end for "\n", and
\* written as they were read.
Read(t) == [t EXCEPT !.eol = "lf"]

\* Mutant: every touch takes a new snapshot.
Saved_Last(f) ==
    [g \in DOMAIN backups \cup {f} |-> IF g = f THEN Read(src[g]) ELSE backups[g]]

\* Only the first touch of a file takes one.
Saved(f) ==
    [g \in DOMAIN backups \cup {f} |->
        IF g \in DOMAIN backups THEN backups[g] ELSE Read(src[g])]

\* A write that fails leaves the file as it was, if it could not be opened, or
\* emptied and with a part of the new text at most.
LeftOf(old, new) ==
    {old} \cup {[rules |-> k, healed |-> FALSE, torn |-> TRUE, eol |-> "lf"] : k \in SUBSET new.rules}

Mutation(f, r) == [Read(src[f]) EXCEPT !.rules = @ \cup {r}]

\* The mutator passes a file over, or applies a rule to it.  A file that it
\* could not write is in the backups, but not among the mutated files.
Mutate ==
    /\ stage = "mutate" /\ visits # <<>>
    /\ LET f == Head(visits)
       IN \/ UNCHANGED <<src, backups, mutated, faults, unwritten>>
          \/ \E r \in Rules \ src[f].rules :
                /\ backups' = Saved(f)
                /\ \/ /\ src' = [src EXCEPT ![f] = Mutation(f, r)]
                      /\ mutated' = Append(mutated, f)
                      /\ UNCHANGED <<faults, unwritten>>
                   \/ /\ faults < MaxFaults /\ faults' = faults + 1
                      /\ \E t \in LeftOf(src[f], Mutation(f, r)) :
                          /\ src' = [src EXCEPT ![f] = t]
                          /\ unwritten' = IF t = src[f] THEN unwritten ELSE unwritten \cup {f}
                      /\ UNCHANGED mutated
    /\ visits' = Tail(visits)
    /\ UNCHANGED <<bp, disk, feature, tomlkit, stage, chain, explored, offspring, genome, backup,
                   accepted, gen, runs, found, since, good, unsaved>>

Finish(tree) ==
    /\ gen' = gen + 1 /\ stage' = "breed"
    /\ backups' = <<>> /\ mutated' = <<>> /\ unwritten' = {}
    /\ src' = tree
    /\ UNCHANGED <<bp, disk, feature, tomlkit, chain, explored, offspring, genome, backup,
                   accepted, visits, faults, runs, found, since>>

\* The mutated files are kept as the build found them.  What an unlisted file
\* holds is nobody's decision.
Keep(tree) ==
    /\ Finish(tree)
    /\ good' = [f \in EngineFiles |-> IF f \in ToSet(mutated) THEN tree[f] ELSE good[f]]
    /\ unsaved' = (unsaved \cup unwritten) \ ToSet(mutated)

\* execute_build, which may fail for any reason.  Without a mutated file there
\* is no build and no rollback.
Build ==
    /\ stage = "mutate" /\ visits = <<>>
    /\ \/ mutated = <<>> /\ Finish(src) /\ unsaved' = unsaved \cup unwritten /\ UNCHANGED good
       \/ mutated # <<>> /\ Keep(src)
       \/ /\ mutated # <<>> /\ stage' = "heal"
          /\ UNCHANGED <<bp, disk, src, feature, tomlkit, run, faults, runs, history>>

\* heal_mutated_files: each mutated file is repaired and promoted or not;
\* nothing is, without a healer.  After a repair the build is tried again.
HealMutated ==
    /\ stage = "heal"
    /\ \E healed \in SUBSET ToSet(mutated) :
        LET tree == [f \in EngineFiles |-> IF f \in healed THEN [src[f] EXCEPT !.healed = TRUE] ELSE src[f]]
        IN \/ healed # {} /\ Keep(tree)
           \/ /\ src' = tree /\ stage' = "rollback"
              /\ UNCHANGED <<bp, disk, feature, tomlkit, run, faults, runs, history>>

\* rollback: every snapshot is written back; a file that cannot be written is
\* given up.
Rollback ==
    /\ stage = "rollback" /\ DOMAIN backups # {}
    /\ \E f \in DOMAIN backups :
        /\ backups' = [g \in DOMAIN backups \ {f} |-> backups[g]]
        /\ \/ src' = [src EXCEPT ![f] = backups[f]] /\ UNCHANGED <<faults, unsaved>>
           \/ /\ faults < MaxFaults /\ faults' = faults + 1
              /\ \E t \in LeftOf(src[f], backups[f]) : src' = [src EXCEPT ![f] = t]
              /\ unsaved' = unsaved \cup {f}
    /\ UNCHANGED <<bp, disk, feature, tomlkit, stage, chain, explored, offspring, genome, backup,
                   accepted, gen, visits, mutated, runs, found, since, good, unwritten>>

RolledBack ==
    /\ stage = "rollback" /\ DOMAIN backups = {}
    /\ Finish(src) /\ UNCHANGED <<good, unsaved>>

-----------------------------------------------------------------------------
Forget ==
    /\ stage' = "stopped"
    /\ chain' = <<>> /\ explored' = {} /\ offspring' = 0 /\ genome' = None /\ backup' = bp'
    /\ accepted' = FALSE /\ gen' = 0 /\ visits' = <<>> /\ backups' = <<>> /\ mutated' = <<>>
    /\ found' = bp' /\ since' = 0 /\ good' = src' /\ unwritten' = {} /\ unsaved' = {}
    /\ UNCHANGED <<tomlkit, faults, runs>>

Finished ==
    /\ stage = "breed" /\ gen = MaxGenerations
    /\ UNCHANGED <<bp, disk, src, feature>> /\ Forget

\* A kill in the middle of a write leaves an empty file or a part of it.
Empty == [genome |-> None, rest |-> "lost", parses |-> TRUE]
Part == [bp EXCEPT !.parses = FALSE]
KillRun ==
    /\ stage # "stopped" /\ runs < MaxRuns
    /\ \/ UNCHANGED <<bp, disk, src, feature>>
       \/ /\ stage \in {"measure", "settle"} /\ bp' \in {Empty, Part}
          /\ UNCHANGED <<disk, src, feature>>
       \/ stage = "measure" /\ disk' = Torn /\ UNCHANGED <<bp, src, feature>>
       \/ /\ stage \in {"mutate", "rollback"}
          /\ \E f \in DOMAIN backups : \E t \in LeftOf(src[f], backups[f]) : src' = [src EXCEPT ![f] = t]
          /\ UNCHANGED <<bp, disk, feature>>
       \/ /\ stage = "features" /\ feature \in {"absent", "empty"} /\ bp.rest = "whole"
          /\ feature' \in {"empty", "part"} /\ UNCHANGED <<bp, disk, src>>
    /\ Forget

EvolveInit ==
    /\ \E g \in Genomes : bp = [genome |-> g, rest |-> "whole", parses |-> TRUE]
    /\ disk = <<>>
    /\ \E ends \in [EngineFiles -> {"lf", "crlf"}] :
        src = [f \in EngineFiles |-> [rules |-> {}, healed |-> FALSE, torn |-> FALSE, eol |-> ends[f]]]
    /\ feature \in {"absent", "whole"}
    /\ tomlkit \in BOOLEAN
    /\ stage = "stopped" /\ Idle
    /\ faults = 0 /\ runs = 0
    /\ found = bp /\ since = 0 /\ good = src /\ unwritten = {} /\ unsaved = {}

EvolveNext ==
    \/ Start \/ Features \/ Breed \/ Candidate \/ Measure \/ Settle \/ Select
    \/ Mutate \/ Build \/ HealMutated \/ Rollback \/ RolledBack \/ Finished \/ KillRun

EvolveSpec == EvolveInit /\ [][EvolveNext]_evolveVars

-----------------------------------------------------------------------------
\* Between two candidates the blueprint is the one the run found with the
\* genome that the last kept entry of this run names, and no genome is in the
\* chain of the ledger twice: so what a rejected candidate wrote is gone, the
\* other sections of the blueprint are untouched, and nothing is measured
\* again, whatever was killed before.  (A blueprint that did not parse when
\* the run started is not covered: tomlkit starts it afresh.)
BlueprintIsVetted ==
    stage \in {"candidate", "mutate", "heal", "rollback"} /\ found.parses =>
        LET kept == {k \in since + 1 .. Len(chain) : Keeps(chain[k], found)}
        IN /\ bp = IF kept = {} THEN found ELSE [found EXCEPT !.genome = chain[Max(kept)].genome]
           /\ IsInjective([k \in DOMAIN chain |-> chain[k].genome])

\* Between two generations every source file has the text that the run found
\* or that an accepted mutation of it gave it: a file that two patterns touched
\* and the healer rewrote comes back as it was before the first touch, and so
\* does one that a failing mutation had torn, once the rollback runs
\* (SourceMutator.mutate, rollback).  Left behind are the files that the
\* rollback could not write, and the torn ones of a generation without a
\* rollback, because nothing else was mutated or because what was mutated
\* built.
SourcesAreWhole ==
    stage \in {"breed", "candidate"} =>
        \A f \in EngineFiles \ unsaved : Read(src[f]) = Read(good[f])

\* What a rejected candidate or mutation wrote is gone, from the blueprint and
\* from the sources (execute_evolution_loop, SourceMutator.rollback).
RejectedLeaveNoTrace == BlueprintIsVetted /\ SourcesAreWhole
=============================================================================

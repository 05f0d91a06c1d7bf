# Verification of the Aero engine

TLA+ models of the Aero engine (an interaction-net virtual machine, its
hash-chained ledger, and the build, repair, evolution and translation systems
around them), TLC runs that check them on small instances, and TLAPS proofs of
what matters most for every instance. Paths below are relative to the
repository; the lines of every modelled definition are in `PROJECT.json` under
`map`, and the hazards the properties are for under `hazards`.

- [The system](#the-system)
- [Modules and how they correspond to the code](#modules-and-how-they-correspond-to-the-code)
- [Runs](#runs)
- [Fairness](#fairness)
- [Proofs](#proofs)
- [Where the code and its documentation disagree](#where-the-code-and-its-documentation-disagree)
- [What is not modelled](#what-is-not-modelled)
- [Plan](#plan)
- [Running it](#running-it)

## The system

`main.py` is a command line over a build orchestrator (`orchestrator.py`). A
blueprint names targets and what they require (`blueprint_parser.py`);
`build_graph.py` orders them; the orchestrator runs brains (analysers and a
parameter tuner) over the sources in cycles, compiles the targets, decomposes
sources into packages, lets users keep edits of generated files in overlays,
memoizes queries, sends tasks to remote workers or a batch cluster, and heals
sources that do not compile. When the engine builds itself it does so in a staging
directory. A scaffold engine makes repositories of their own, a translation
pipeline makes mesh recipes and an FFI bridge of hot functions, and files of other
projects are ingested. Beside it live an evolution loop (`evolve.py`) and the
reduction engine of `core/hin_vm.py`, both of which write the history file
`context.aero`; programs come to the engine through `core/translator.py`.

Components that interact do so in four ways: by direct calls in one thread (the
orchestrator and its stages), by threads of one process that share an object
(the distributed coordinator, the HPC pool, the LSP proxy and its reader,
healing transactions), by processes that share a file (the ledger, the replay
buffer, the memoization store, the blueprint, the live tree), and by messages to
something external (language servers, SSH hosts, `sbatch`/`squeue`).

### Inventory

| Component | State it keeps | Operations | What is hard about it | What makes it correct |
|---|---|---|---|---|
| **HIN-VM** `core/hin_vm.py` `HINNetwork` | `nodes`, `Port.target` links, `active_pairs`, `_gensym` | `register_node`, `bind`, `reduce_step` with five rewrite rules, `run_to_completion` | wires are rewired while they are read; active pairs are recorded only when a link is made, and acted on much later | links are mutual; no redex is lost or stale; rewrites leave no dangling end; linear nets terminate |
| **Universal HIN** `UniversalHINNetwork` | the path-integral memo, counters | `reduce_step` overriding the inherited one, `adopt` | the inherited step re-enters the overriding one for each pair it skips; a sweep may raise half-way | the worklist survives an anomaly |
| **Translator and container** `core/translator.py`, `core/aeroc.py` | the net being made, scopes; saved modules | translate every kind of node, split, mutate, save and load | a name is used before, after and beside what binds it; a severed wire has two ends in two files | nets are closed and mutual; a split severs each wire once |
| **Block-universe ledger** `core/spacetime_ledger.py`, `evolve.py`, `context_init.py` | `context.aero`; each driver's copy of it | `append_transaction`, `annotate_node`, `CryptographicLedger.append_entry`, `initialize_workspace_context` | several processes, two record formats, in-place rewrites, crashes | hash chains verify; coordinates point at their block; committed blocks stay |
| **Rigidity and topological healer** `core/spacetime_ledger.py`, `orchestrator.py` | coordinates of nodes, the vantage-point tree, waves of a sweep | annotate, `nearest`, `verify_boundary_batches`, heal a port | pruning of a search; waves of few nodes over wirings with cycles | the nearest is the nearest; a sweep covers the boundary |
| **Distributed coordinator, shared cache** `src/build/distributed.py` | `_healthy`, round-robin counter, `tried`; spill directories | `dispatch`, `_run_one`, `_next_worker`; `put`, `get` | list read under a lock and used outside it; outages; bounded retries | no task that can run locally fails; dispatch returns; what is put can be had |
| **Memoization engine** `src/memoization/cache_engine.py` | memory and disk tables, dependency graph, fingerprints | `memoize`, `on_file_changed`, `invalidate_by_fingerprint`, `on_config_changed` | edits during a computation, unreported edits, restarts | what is cached is fresh |
| **Experience replay** `builder_brains/experience_replay.py` | one JSON file under `flock` | `record_trajectory`, `clear` | other processes between any two system calls; kills; short writes | an atomic, bounded, best-first list |
| **Overlay manager** `src/overlay/`, `core/overlay/structural_merger.py` | the generated file, its baseline, the patch | commit, reapply, structural merge, rebuild | which text is the base after which operations; a patch is located by content; three versions of a statement | users' edits survive, or a conflict says so |
| **LSP proxy** `core/toolchain/lsp_proxy.py` | state machine, pending requests, buffers, diagnostics | `initialize`, `did_open`, `did_change`, `shutdown`, the reader thread | timeouts against answers, diagnostics against edits, servers that die | nothing out of order is sent; settled diagnostics are exact; nothing hangs |
| **HPC scheduler** `src/hpc/scheduler.py` | jobs, job scripts | `submit_many`, `status`, `wait`, `cancel` | script files shared by name; unreliable queries | own commands; true verdicts; `submit_many` returns |
| **Bootstrap isolation** `core/bootstrap/isolation.py`, `orchestrator.run_build` | the guard flag, the stage, the live tree | prepare, seed, cycle, compile, validate, promote, discard | edits, crashes and other builds between any two file operations | the guard tells the truth; outputs match sources; builds end |
| **Build loop** `orchestrator.py`, `core/decision_fsm.py`, brains | manifest, metadata and its copies, snapshots, decision state | `run_build` from manifest to exit, direct compilation with healing, `_save_manifest` | what one cycle or build leaves for the next; kills in the middle of the save; a read-only boundary | a cycle's outputs are its own; alarms mean plateaus; builds end |
| **Build graph, blueprints** `build_graph.py`, `blueprint_parser.py`, `blueprint_lang/`, `blueprint/`, `invisible_config.py` | counts and queue; colours and path of a search; the context | parse one of six dialects, search cycles, `topological_order`, `levels` | repeated, undeclared and own names; three cycle searches with differing ideas of an edge | sound and deterministic order; a context that can be built, or an error with a reason |
| **Healing transactions, self-healing wrapper** `orchestrator.py`, `core/toolchain/self_healing.py` | staged and production files; a module's text, manifest, flags | `execute_healing_transaction`, `heal_module` with its handlers, rollback | parallel transactions; edits that bring about new defects; parts of a repair in other files | only what compiles is swapped in; a failed repair leaves no trace |
| **Decomposition** `src/decomposition/` | the package directory, the index | split, consolidate, inject imports, index | passes that see what earlier builds left | every name is bound to one definition, and imports find it |
| **Scaffold engine** `src/scaffold/` | staging and distribution directory, the live layer | route, generate, build and correct, merge, validate, promote | steps of which a later one fails; a promotion that is cut short | what is said of a deliverable is true, and it is whole |
| **Translation pipeline, FFI bridge** `src/translator/` | recipes, flags, wrappers, mesh; emitted names | run with five phases, rollback; wrapper, legacy, register | every phase reads the file anew; one generator for all callers | a recipe holds verified functions; a name is defined once |
| **Evolution** `evolve.py`, `aero/evolution/`, `src/evolution/`, `core/hin_graph.py`, `core/wavefront_scheduler.py`, `builder_brains/parameter_tuner.py` | blueprint, ledger, mutated sources; populations, archives; graphs and schedules | generations, mutation with build, healing and rollback; selection; crossover; incremental scheduling | kills between a write and its undoing; a write that fails half-way; measurements that change; overlapping mutations | what is rejected leaves no trace; what is better is not lost; edges are conserved |
| **Context ingestion, AST registry** `src/context/`, `src/registry/` | places in the workspace (files and links), rows, `[context_registry]` | `ingest_all` with repairs; `aero ingest` | places that are links to somebody's file; blueprint read, looked at and written in three steps | what is reported is there; what is registered has rows; the blueprint stays readable |

The components that are listed in `PROJECT.json` as not modelled are discussed
[below](#what-is-not-modelled).

## Modules and how they correspond to the code

A component has a module named after it, and what is proved of the components of one area stands
in one module: `HINNetProofs` (both reduction engines); `SpacetimeLedgerProofs` (also the query
cache and the rigidity sweeps); `RemoteProofs` (the coordinator, the batch and the language
client); `WorkspaceProofs` (the replay buffer, the registry, the files of `[context]`,
self-hosting builds); `BuildGraphProofs` (also the parsers and both ways to repair a source);
`LoopProofs` (the build loop, the evolution loop, the self-evolution engine, the tuner, the
schedules and crossovers of graphs); `PackagesProofs` (decomposition, scaffold, translation,
bridge, overlays); and `LeastElements`, lemmas on sets, sequences and recursive functions that
several of these cite. The `MC` modules compose the components of one area and give them their
constants. `Healing` puts `HealingStage` and `SelfHealing` side by side and says of both what a
failed repair may leave. `UniversalHIN` and `UASTTranslator` extend `HINNet`, `Blueprint`
extends `BuildGraph` (it hands it the targets of the DSL), and `ReplayBuffer` instantiates
`ReplayLedger`, the abstract specification it implements; `ParetoTuner` extends `SelfEvolution`,
the other search by domination, and says what both promise.

**Sides.** Where the components of an `MC` module share no state, a variable
(`side`, `part`, `subject`, `universalNet`) chosen in the initial state and never
changed says which of them a behaviour is about; the others stay in one of their
initial states. So one run explores each as if it were alone.

**Conditions.** Most models let many unfriendly things happen (crashes, failing
writes, overlapping processes), and few properties hold under all of them. A
variable `may`, chosen in the initial state from the constant `Conditions`, says
which of them may happen in an execution, and a property that needs an exemption
names it (`clusterMay` and `Clusters` in `HpcScheduler`, `lspMay` and `Sessions` in
`LspProxy`). History variables (`harmed` and `alone` of `ContextIngest`, `whole` of
`SelfHealing`, `found`, `since`, `good` of `EvolveLoop`, `flat`, `saved`, `written`
of `BuildLoop`) do the same for what happened. The exemptions are exactly the cases
in [Where the code and its documentation disagree](#where-the-code-and-its-documentation-disagree):
each was found by TLC as a counterexample before it was exempted.

| Module | State | Actions | Abstracted |
|---|---|---|---|
| `HINNet` | `wire` is `Port.target` for the ports of every node ever made; `live` is `self.nodes`; `pairs`, `fresh` the worklist and `_gensym`; `cloned` the nodes without `a_1..a_3` | `RegisterNode`, `Bind`; `ReduceStep(k)` is one `reduce_step` that drops the `k - 1` pairs before the first that fires and then runs the whole rule; `DrainWorklist` | names, types (three classes of MELL types are kept because `bind` refuses by them) |
| `UniversalHIN` | `memo`, `hits`, `sweeps`, `reductions`, `anomalies` | `UReduceStep(k)`: `k` nested calls consult the cache on the way down and record on the way up; `Anomaly(k)`: the sweep at level `k` raises | the verdict of a sweep is arbitrary |
| `UASTTranslator` | the tree, its net (that of `HINNet`), the two modules of a split with their contracts | `Translate` (every node kind, scopes, copies, caps), `Split`, `Mutate`, `Reload`, then rewriting | which nodes a spectral partition puts where: any |
| `SpacetimeLedger` | `disk`/`content` the file, each driver's copy and `CHAIN_KEY`, `step` where a session is between append, truncate and write, `coord`, `memo` | one per constructor and operation; `Truncate` and `Flush` are the halves of `_persist`; `Crash`, `SwallowError`, `AppendRaises`; `InitializeWorkspace` | a hash is the sequence of what was hashed |
| `Rigidity` | wiring, coordinates, the sweep with its waves, the graft | `AnnotateNode`, `BeginSweep`/`SweepWave`/`EndSweep`, `HealUnterminated` | coordinates on a line with exact distances; a wave fails when its points coincide |
| `DistributedBuild` | `healthy`, `rr`, per task `pc`, `list`, `worker`, `tried`, `attempt`, `success` | `Start`, `ReadHealthy` (under the lock), `ChooseWorker` (after it), `RunTask`, `Retry`; `GoAway` | a task succeeds everywhere, only locally, or nowhere |
| `SharedCache` | the service, every machine's spill directory, who has a client | `Put`, `Get` with failing calls | an artifact is the number of its put |
| `QueryCache` | memory, disk, edges, fingerprints, the computation in progress | `Hit`, `Miss`, `Computed`, `OnFileChanged`, `InvalidateByFingerprint`, `OnConfigChanged`, `Restart`; `Edit` | a value is the versions it was computed from |
| `ReplayBuffer` | the file by what it parses to, the `flock` holder, each process's place and list | create, seed, lock-and-read, truncate, write-and-unlock; `WriteFails`, `Crash` | a trajectory is a result and a number |
| `OverlayManager` | file, baseline, patch, what was generated last | `EditFile`, `CommitOverlay`, `Rebuild`, `RebuildWithout`, `StageAgain`, `StructuralReapply` (accepted or rejected), `DropFile`; `MakePatch`, `ApplyPatch` and the merge are operators | a text is a sequence of lines, each a header or a statement with an operator and operands |
| `LspProxy` | client state, pending, responses, Events, buffer; the reader's phase; two FIFO streams; the server | client calls split at `Event.wait`; the reader split between storing and signalling; a server that stays silent or dies | texts are edit numbers |
| `HpcScheduler` | per job where `submit_many` is, its state, polls; script files; the cluster | `WriteScript`, `SubmitAccepted`/`Refused`, `Poll` | a script is the job whose commands it holds |
| `StagedBuild` | guard flag per process, live `src`/`out`, stage, `todo`, snapshots | one action per copied or promoted file; cycles; the `finally` block; `StagingFails`, `PromoteFails`, `Dies` | a source is its last edit and whether it parses |
| `BuildLoop` | workspace, manifest, metadata, what each stage returned, direct compilation's parts | `Step` is the next phase of a cycle (snapshot, scan file by file, decide, tune, merge, boundary check, compile, save), `StartBuild`, `StartDirect`, `Edit`, `Kill` | a score is one of few, a Pareto frontier its number of generations |
| `BuildGraph` | `indegree`, `ready`, `resolved` | `Resolve`, `Return`; `StageOf`, `Level` are `levels()` | a target is its rank |
| `Blueprint` | the document, colours and path of the depth-first search, the context | one action per dialect and per step of the search; then `BuildGraph` | a name is its place in the dependency map, a document its faults |
| `HealingStage` | production and staged files, per transaction place, attempt, patch, result | read, copy, feed, repair, verify, swap, purge and failures | a content is its origin and whether it compiles |
| `SelfHealing` | text, undeclared crates, private items, flags, the loop | `Build`, `Patch`, `Healed`, `GiveUp`, `Rollback`, `RestoreManifests`, `FlagFailure`, `Kill` | a text is its defects; an edit may bring about others |
| `Splitter` | sources, package modules, index, `utils.py` | `BeginDecomposition`, `DecomposeSource` (with files it cannot write), `SkipSource`, `ConsolidateSharedUtils`, `InjectMissingImports`, `GenerateInit`; `EditSources`, `KillDecomposition` | a definition is a text and the names it uses |
| `Scaffold` | staging, deliverable, live layer, report | one per phase of a job; `CommitRemove`, `CommitMove`, `CommitCopy`, `CommitClear` are the promotion; `KillJob` | a text is its defects; a tree may be torn |
| `TranslationPipeline` | sources, recipes, flags, wrappers, mesh, the run | `Start`, `Route`, `Translate`, `VerifyTranslation`, `Finish`, `Report`, `RunHotPipeline`, `EvolveWithTranslation`; `Edit`, `Kill` | entropies and sandboxed outcomes are arbitrary |
| `FfiBridge` | the shared generator's memory, templates, what was handed out | `GenerateWrapperFn`, `GenerateLegacyDispatch`, `Register`, `GenerateFfiArtifacts`, `WriteTemplate` | a text is what it was rendered from |
| `EvolveLoop` | blueprint, ledger on disk and in memory, sources, the mutator's backups | `Breed`, `Candidate`, `Measure`, `Settle`, `Select`, `Features`, `Mutate` (which may fail to write), `Build`, `HealMutated`, `Rollback` file by file, `KillRun` | a genome is one gene; a source is the rules applied to it, its line ends and whether a write of it was cut short |
| `SelfEvolution`, `ParetoTuner` | population, best; archive, what was measured, volume, stagnation | `Breed`, `Update`; `Cycle`, `Bypass`, `Stimulate` | configurations that breeding yields: any; objective vectors are small integers |
| `GraphEvolution` | two graphs with signatures, the last crossover; a graph and its waves | `Crossover`; `AddEdge`, `RemoveEdge`, `RemoveNode` with `update_schedule` | a node is its name and how often it was a donor's |
| `ContextIngest` | sources, places (a text or a link), the plan and its records; rows, blueprint tables, each ingestor's place | `IngestAll`, `IngestFile` (repair, link or copy, then record), `KillIngestAll`; `Ingest`, `Read`, `Store`, `ReadBlueprint`, `Look`, `Register`, `KillIngest`; `Edit` | a text is its imports, the names it uses and what stands before them |

`HINNet` keeps the order of assignments inside a rule: `Annihilate` and `Erase`
thread the wiring through a loop, reading each end after the previous link was
made, whereas `Duplicate` reads all the external wires first, as the code does.
That difference is what `RewritesKeepTheNetWhole` is about.

## Runs

Eight runs pass and four find a disagreement. Each property of a passing run has a
mutant in `PROJECT.json`, a plausible mistake in one definition that makes TLC
report that property.

| Run | Module | Distinct states | Properties |
|---|---|---|---|
| `hin` | `MCUniversalHIN` | 36 905 | `TypeOK`, `Conservation`, `WorklistIsExact`, `NetsAreWhole`, `RewritesKeepTheNetWhole`, `Terminates` |
| `ledger` | `MCSpacetimeLedger` | 685 974 | `ChainsVerify`, `CoordinatesPointBack`, `Timeless`, `NearestIsNearest`, `SweepCoversBoundary`, `CacheIsSound` |
| `remote` | `MCRemote` | 212 425 | `FallsBackToLocal`, `JobsAreReportedRight`, `ClientIsInStep`, `EverythingEnds` |
| `workspace` | `MCWorkspace` | 620 770 | `OnlyBeatenAreDropped`, `IsOneLedger`, `SelfHostingIsSafe`, `BuildsEndWell`, `RegistryIsExact`, `DeliveredIsReported` |
| `graph` | `MCBuildGraph` | 946 264 | `OrderRespectsRequires`, `ErrorMeansCycle`, `OrderIsStable`, `VerdictIsJustified`, `FailedRepairLeavesNoTrace`, `TransactionsEndWell` |
| `loop` | `MCBuildLoop` | 838 874 | `CycleIsOfItself`, `LearningIsHonest`, `LoopEnds` |
| `packages` | `MCPackages` | 1 558 902 | `PackageImports`, `OverlaySurvivesRebuild`, `MergesKeepEdits`, `PromotionIsHonest`, `RecipesAreVetted`, `DefinedOnce` |
| `evolution` | `MCEvolution` | 2 398 122 | `RejectedLeaveNoTrace`, `NothingBetterIsLost`, `GraphsStaySound` |
| `translate` | `MCHINNet` | finds | `NetsAreSealed` is violated |
| `reload` | `MCHINNet` | finds | `ReloadedNetsReduce` is violated |
| `shared` | `MCRemote` | finds | `PutIsShared` is violated |
| `fallback` | `MCSpacetimeLedger` | finds | `FallbackIsNearestHistory` is violated |

What they show, with their bounds and why those are enough:

- **hin.** *Every* closed well-typed wiring of eleven groups of two to six agents,
  which covers each rule with each partner and with wires that join the two
  agents of a pair to themselves and to each other; plus open nets that up to five
  interleaved `register_node` and `bind` calls build while they are reduced. A
  rewrite looks at one pair and at most five outer wires, so these groups show it
  all the neighbourhoods it can tell apart up to equality of ends. Programs: blocks
  of two or three statements in which a literal, a closure or nothing is bound and
  then used in every way the translator treats differently; nets of up to
  `SplitSize = 5` nodes are split in every way. `MaxIds = 15` stops a net that
  grows for ever (duplicators do) and is never reached by the linear nets, so
  `Terminates` is not an artefact of it. The same linear nets under the universal
  engine, with a cache that has seen the first pairs and up to two failing sweeps.
- **ledger.** A build and an evolution run on one file, taking turns or doing
  anything (overlap, crash at every step, failing writes, a second
  initialisation). Three blocks per chain let either driver append after the other,
  and a signature be recorded, reloaded and recorded again. The geometry: three
  wirings (a chain, a cycle, two parts) of five agents at three places with a
  boundary of three nodes, more than a wave holds. The cache: three computations
  over two files, one a transitive dependent without a source of its own, one whose
  source is not among its dependencies (as `tests/test_performance_regression.py:117`
  calls it), with two versions of each file, so that a change and its reversal occur.
- **remote.** A command, a callable and a failing command on an SSH host, a
  Kubernetes worker and a local backend, with as many attempts as remotes (two) and
  one more; both remotes may go away at any time. Two machines, two keys and two
  puts in the shared cache. Three jobs, two threads and four clusters (one of them
  PBS). LSP sessions of three texts, with servers that fall silent and die and
  clients that reopen or send ranged changes.
- **workspace.** Two processes, three trajectories and a list of at most two: the
  limit is reached and ties occur; the refinement of `ReplayLedger` under all
  faults. Two builds of two
  targets one after the other, as threads or as processes, with two edits. Two
  source files with every kind of text the repairs tell apart, all pairs of items
  of a plan, two ingestions one after the other, an edit and a kill at any point; in
  the registry, three ingestions by two processes over three trees, one of them with
  a dotted name. Three are needed for a process to see a table that a second one
  then loses for a third to repeat.
- **graph.** All dependency relations on four targets, own and cyclic ones
  included, and short lists with repeated and undeclared names. Blueprints of every
  dialect and fault, all needs of three names of up to two each. Two transactions of
  one manager or two, on one file or two, with edits and failures. Two runs of the
  diagnostics loop over two modules, with a defect of every kind the handlers treat
  differently, two of which collide, and one that an edit brings about.
- **loop.** Two builds of two cycles (a build command, another command, or direct
  compilation), an edit and a kill at any point, the middle of the manifest's save
  included. Two flat scores are a plateau, so one may begin in one build and end in
  the next.
- **packages.** Two decompositions of up to three sources into one directory, with names that
  share a file, an edit, a kill and a failed write; the definitions use each other without a
  circle, so that no files may import each other in one. A generated file of two blueprints with
  two functions or three, which share lines: a line of `f` in the one text is also one of `g`,
  and another one of `h` in the other text, so what a hunk looks for is also found where it was
  not. Two edits (one where the stage runs twice or nothing is recorded), each of which adds,
  replaces or deletes a line or deletes a function. A line may be one with another operator,
  with another operand, one that a blueprint has, or the header of a function that a blueprint
  adds; two edits make patches of two hunks. One line of context instead of three, as the texts
  are short; `MaxLines = 8` leaves room for both edits. Two scaffold jobs of every kind into one
  distribution directory, promoted by a rename or by a copy, which an error or a kill may cut
  short at each step. Two translation runs over two files of one base name and one that is named
  like a hot path. All short request sequences to the bridge generator, with two registries and
  one changed template.
- **evolution.** Two runs of two generations with kills, and one failing write of the ledger, of
  a mutation or of a rollback; two patterns of target files that overlap. The loop starts in one
  of two ways: with `tomlkit`, the optional feature in place and one source with Windows line
  ends, or without any of the three. Three cycles of the
  tuner over three configurations that are measured differently each time, with room for two in
  the archive. Two crossovers of six graphs, and three edits of a scheduled one. Fitness vectors
  each of which dominates the next, with a runtime objective that is missing or goes the other
  way, so that domination is not transitive.
- **translate**, **reload**, **shared**, **fallback**: see
  [the disagreements](#where-the-code-and-its-documentation-disagree).

Some properties are conjunctions: `EverythingEnds` of the liveness of the
coordinator, the batch and the proxy; `TransactionsEndWell`, `LearningIsHonest`,
`OverlaySurvivesRebuild`, `MergesKeepEdits`, `PromotionIsHonest`, `RejectedLeaveNoTrace`, `NothingBetterIsLost`, `GraphsStaySound`,
`DeliveredIsReported` and `RegistryIsExact` of the named parts that stand beside
them in their modules.

`CHECK_DEADLOCK FALSE` is set in the passing runs other than `ledger`, because
something in them stops: a net without active pairs, a dispatch or batch that has
returned, a session that is shut down, a graph that is sorted, a loop that has
ended, and bounds on builds, jobs, runs and edits that are reached. In `ledger` the
users never run out of things to do, and deadlock is checked.

## Fairness

Liveness is claimed only where something in the code keeps going:

- `hin`: weak fairness of rewriting. `run_to_completion` calls `reduce_step` as long
  as it returns `True`; a caller of the universal engine tries a failing sweep again.
  Building is not fair.
- `remote`: weak fairness of each task's thread (`dispatch` waits for all futures
  and a backend call returns), of the batch's pool and polling loop, of an LSP
  request that is waited for (`Event.wait` has a timeout) and of the reader thread
  while there is input. *Nothing* is assumed of outages, the cluster or the server.
- `workspace`: a self-hosting build is a thread that waits for nothing.
- `graph`: the same of a healing transaction; verifiers are subprocesses with a
  timeout.
- `loop`: the next step of the build that runs. Edits and kills are not fair.

## Proofs

TLAPS proves the following for every value of the constants that satisfies the
named assumptions. Most of them (`HINAssumption`, `LedgerConstants`, `CoordinatorConstants`,
`HpcAssumption`, `LspAssumption`, `BufferAssumption`, `GraphAssumption`,
`StagedAssumption`, `ContextAssumption`, `LoopConstants`, `HealingAssumption`,
`CacheConstants`, `ScaffoldAssumption`, `PipelineAssumption`, `SplitterAssumption`) only say
what the types of the constants are, and which of them are different things: there are
finitely many sources and names, a definition that is there has a text. The others:

- `DocAssumption`: the names of a document are places of the dependency map, to which
  `_validate_sections` has added an INI blueprint's targets (`setdefault`) and `to_config`
  all those of a DSL one.
- `NetsAssumption`: the nets executions start from are wired both ways with no port wired to
  itself, and come with the worklist that the `bind` calls that made them have left.
- `NoneIsNoHistory`: the value that stands for a missing key of a document is no sequence.
- `RigidityAssumption`: a wave has room for at least two nodes (`max_boundary` is 8), and an
  agent has at most three ports.
- `OverlayAssumption`: a generated text starts with the header of an entity and has none of its
  headers twice.
- `BridgeAssumption`: the legacy name of an identifier is another one (`_legacy` is appended).
- `GraphAssumption` of `GraphEvolution`: a graph to start from has finitely many nodes, its
  edges lead from node to node, and the prefixes of its names are counted by numbers.
- `TunerAssumption`: objectives are compared as numbers; a population is not empty.
- `EngineAssumption`: what is measured is below the value that stands for "not measured",
  and a runtime is not 0.

| Theorem | Says | Run that checks it on an instance |
|---|---|---|
| `HINNetProofs!TypeCorrect` | every reachable net is a set of known agents wired port to port | `hin` |
| `HINNetProofs!WorklistExact` | the worklist holds every active pair, and no pair of it was pulled apart or retired | `hin` |
| `HINNetProofs!NetStaysWhole` | no rewrite of a closed net frees a port or, but for the named exceptions, leaves a wire to a retired agent | `hin` |
| `HINNetProofs!EdgesConserved` | no build call and no rewrite leaves a one-sided wire ("Conservation of Edges") | `hin` |
| `HINNetProofs!UniversalNetStaysWhole` | all four hold of the universal engine, whatever its cache holds and whichever sweeps fail | `hin` |
| `SpacetimeLedgerProofs!HistoriesVerify` | every history in memory or on disk is an unbroken hash chain of one driver | `ledger` |
| `SpacetimeLedgerProofs!CoordinatesAreIndices` | an annotated coordinate is the index of its own block | `ledger` |
| `SpacetimeLedgerProofs!CacheStaysSound` | once every edit was reported nothing old is cached of keys that declare what they read, and a matching fingerprint vouches for the source's present content, also after restarts | `ledger` |
| `SpacetimeLedgerProofs!FileIsTimeless` | of sessions that take turns and live, a block that was once in the file stays in it at its place | `ledger` |
| `SpacetimeLedgerProofs!SweepsAreWhole` | a sweep visits all of the boundary, in waves that fit the kernel and leave no node alone that has a neighbour | `ledger` |
| `SpacetimeLedgerProofs!NothingNearerIsPruned` | what the search in the vantage-point tree returns is at the distance it says, and nothing is nearer | `ledger` |
| `RemoteProofs!LocalRunIsReached` | with fewer remote backends than attempts no task that runs locally fails | `remote` |
| `RemoteProofs!JobsReportedRight` | a job runs its own commands, and is reported as they ended where the cluster answers | `remote` |
| `RemoteProofs!ClientStaysInStep` | nothing out of order is sent, a signalled request has its response, settled diagnostics are of the last text | `remote` |
| `WorkspaceProofs!ImplementsOneLedger` | the `flock` protocol implements an atomic list, under every fault | `workspace` |
| `WorkspaceProofs!TopTrajectoriesSurvive` | what `record_trajectory` acknowledged is on the list, or beaten by a full one, without first use, kill or failing write | `workspace` |
| `WorkspaceProofs!DeliveriesAreReported` | what `ingest_all` records of a file of `[context]` is true when it is recorded and at the end, repairs do no harm, sources change only by their owners or through links | `workspace` |
| `WorkspaceProofs!SelfHostingStaysSafe` | the guard tells which process is in a pass, and no live output is newer than the source beside it, whatever fails or dies | `workspace` |
| `WorkspaceProofs!OnlyEditsBreakSources` | no promotion puts a source that does not parse over one that does, even of two at a time | `workspace` (in `BuildsEndWell`) |
| `WorkspaceProofs!RegistryStaysExact` | what is registered has rows, the blueprint stays readable, undisturbed ingestions are exact | `workspace` |
| `BuildGraphProofs!OrderIsSound` | every target after what it requires, once | `graph` |
| `BuildGraphProofs!CyclesAreReported` | an error exactly when targets wait on each other | `graph` |
| `BuildGraphProofs!OrderIsDeclared` | the order takes the first ready target as declared, and stages are the earliest there are | `graph` |
| `BuildGraphProofs!VerdictsAreJustified` | what any dialect accepts can be built, a refused blueprint has a fault or the cycle that is reported, and the sort agrees with the validator | `graph` |
| `BuildGraphProofs!FailuresLeaveNoTrace` | a staged repair is in production only if it was reported as promoted, an undisturbed one that compiles is, and what is healed in place is clean or back as it was | `graph` |
| `BuildGraphProofs!SwapsAreVerified` | what a transaction puts into production compiles | `graph` (in `TransactionsEndWell`) |
| `PackagesProofs!PackagesImport` | a finished build leaves a package that imports, with every definition bound to the text of its source and indexed, whatever earlier builds left there | `packages` |
| `PackagesProofs!PromotedIsHonest` | a job that returns left its own whole tree or what it found, one that raised or was killed on the way at worst a torn one; what is not torn has passed its validation, and is whole | `packages` |
| `PackagesProofs!RecipesStayVetted` | a recipe on the disk holds only functions its run verified, and a rejection leaves none | `packages` |
| `PackagesProofs!NamesAreDefinedOnce` | the shared generator never has two texts for a name, and a complete request defines none twice | `packages` |
| `PackagesProofs!AppliedOverlaysKeepLines` | a rebuild that reports `APPLIED` has every line that a hunk puts in and every generated line that no hunk looks for, and no others; a conflict leaves what was generated | (`packages` checks more) |
| `PackagesProofs!CommitsAndMergesStartFromOrigin` | where builds record what they write, a commit is the difference to the text the file was generated from, and that text is the base of every merge | `packages` (in `MergesKeepEdits`) |
| `LoopProofs!CyclesTellOfThemselves` | a cycle saves and counts its own workspace and outputs, under every edit and kill | `loop` |
| `LoopProofs!LearnedIsTrue` | an alarm comes after a full patience of flat scores and is saved at most once; a build command changes nothing that was learned | `loop` |
| `LoopProofs!RejectionsLeaveNoTrace` | what a rejected candidate or mutation wrote is gone from blueprint and sources, but for files that a rollback could not write and those that a failing mutation tore in a generation without one; nothing is measured twice | `evolution` |
| `LoopProofs!SearchesLoseNothing` | nothing that the engine's selection leaves out dominates what it keeps; the tuner's archive is a frontier that gives up only what was beaten | `evolution` |
| `LoopProofs!GraphsStayWhole` | a repaired schedule orders the graph as it is, fails exactly at a cycle, and is the one of a full computation while no node was removed; a crossover keeps every edge of the context, and where both parents conserve edges so does the child, unless two donor nodes get one name | `evolution` |
| `BuildGraphProofs!TypesAreRight` | counts never go below zero, whatever is listed twice | |

How they go:

- **HINNet.** `Conservation` is not inductive: a wire of a live agent may lead to a port of a
  *retired* one (the duplicator bug below), whose own fields are not constrained. The invariant
  is `TypeOK /\ Good(Net, LivePorts, live, Inert, fresh)`: wires of live ports lead to ports of
  existing nodes *and back*, to another port, nodes that do not exist yet are unwired (`Sound`,
  `Loopless`), and the worklist has the pair of two principal ports exactly when they are wired
  to each other, pairs without a rule aside (`Exact`). Inside a rule none of this holds for all
  ports, so each `_link` is described by what it does to a good net when the ports that give up
  their wires are left out of the set; taking a pair off the worklist leaves out its two agents
  (`Popped`). The loops of `_annihilate` and `_erase` carry such a set through their rounds;
  `DuplicatePreserves` argues by the kind of port. That a closed net has no free port afterwards
  is carried along the same links (`Full`, `Whole`), with `Shortcut` and `Misread` as the only
  ways out. The rules are collected in the order of `reduce_step`'s dispatch. The universal
  engine makes the same rewrites, and a sweep that fails moves no wire: the pairs it has dropped
  were stale or have no rule, and its own pair is still the head (`AnomalyPreserves`).
- **SpacetimeLedger.** Sessions re-read what others left, so it is not enough to
  know the chain in use: *every* chain in every document, on disk and in memory,
  must verify, and a session in the middle of an append must have just appended a
  block that names its own index. Weights do not matter, so the invariant only says
  that all blocks belong to *some* set (`\E S : Shape(S)`), which an append extends.
- **QueryCache.** That nothing old is cached once all is reported says nothing of the
  moments in between. The invariant says which entries may be old: those that read a file
  whose edit is not reported yet (`UpToDate`), each of which the graph links to that file
  (`Linked`), whose recorded content differs from the present one (`Heard`); so the report
  evicts them. A computation that an edit fell into fits in: what it asks the cache for
  was there before (`Prepared`). The link of a new entry to a file it reads through another
  key goes along that key's link, and `ReadsThrough` says that there is no third way. All
  of this is about the keys that declare what they read (`Declared`): `put` makes edges of
  the `dependencies` only, so an edit of a `source_file` that is not one of them evicts
  nothing, and only the comparison of fingerprints keeps the entry from being returned.
  Across restarts the invariant is another one, between each entry and its own fingerprint
  (`Sourced`).
- **DistributedBuild.** A thread that has failed `n` times has `n` different remote
  backends in `tried`, and is either in reach of the local one or has attempts left.
  Finite-cardinality facts come from the library.
- **HpcScheduler.** Between writing its script and the answer of `sbatch` a job's script
  holds its own commands, because only a job of the same name writes there; the state that
  is polled and the table it is looked up in are one lemma on finite tables
  (`StatusIsTrue`).
- **LspProxy.** The server's phase determines which messages may still be in the stream
  and in which order (`StreamInOrder`); versions count one by one from there to the
  client's (`VersionsCount`); an answer, wherever it is, is of a request that was sent, at
  most one is waited for, and it is stored before the `Event` is set (`AnswersFollow`,
  `StoredFirst`). The diagnostics of the newest text the server has published are in the
  stream, with the reader or in the store (`LastIsKept`), and no text anywhere is newer
  than the client's, so that once all has settled the offsets fit. TLC checked the
  invariant for every subset of the conditions.
- **ReplayBuffer.** The refinement mapping takes the list under the lock while a
  cycle is in progress and what the file parses to otherwise. The invariant says
  that the lock is held exactly between read and write, that what was read is still
  there until truncation, and that a truncated file parses as empty; so that each
  write is a `Record` of the list, and each fault at most a `Clear`. For the top
  trajectories the invariant says of everything acknowledged that it is on the list, or
  that the list is full of others at least as good; the list written is the best `Limit` of
  one that has one element more, and what is dropped is a least one (`LeastElements`).
- **StagedBuild.** The invariant is about the stage of a build under way: what was copied
  into it is no older than the output in the live tree and no newer than the source there,
  what was compiled bears the number of its copy, and what is left to promote is in the
  stage and was found valid. A step either idles (no file changes, no build enters a pass),
  changes one stage (`OtherStages` keeps the rest), promotes a file or edits one. Of the
  flag it is enough that one build of a process at a time can be in a pass (`OneAtATime`).
  The proof needs no exemption while a promotion is under way, so the property makes none.
- **ContextIngest.** None of the three promises is inductive. The invariant keeps what
  each ingestion still knows: the tables it has read have rows (`TablesHaveRows`,
  rows are never taken away); as long as nobody harmed the blueprint what was read is
  no longer than the blueprint is, which only grows, so a blueprint that *equals*
  what was read has not changed since and lacks the table (`GrowsUnharmed`, by
  lengths, which rules out a change and its reversal); and for a process that is
  alone each file is still ahead, unreadable, or stored as it is (`AloneInv`). A
  step of a busy process concerns that process only, since no other is then alone
  (`OwnStep`); everything else at most ends somebody's being alone
  (`DisturbedStep`). TLC checked the invariant before it was proved.
  For the files of `[context]` the invariant says that every place with a record has a
  *last* one, and that this one is true at every moment of a run, not only at its end.
  Each way to deliver a file is one fact (`Delivers`); what the rules of repair leave is
  argued rule by rule.
- **BuildGraph.** Counts equal the open entries of each list, `ready` is exactly
  the unresolved targets without any, and no member of a knot (a set each of whose
  members requires another) is ever resolved; the rest follows by counting. That the
  order is the declared one relates each target taken to those that were ready then;
  `StageOf`, a recursive function, has the values its definition gives because of a
  smallest target for which it had not.
- **Blueprint.** The gray names are the path, each once, each an edge from the one before
  (`GrayOnPath`, `PathOnce`, `PathChained`), and what a name on the path has looked at is
  black, but for the name after it (`SeenAreBlack`). So a name turns black when all it
  requires is black, which no name of a cycle can be the first to do (`CyclesNotBlack`):
  a search that ends has found that there is no cycle. A gray dependency closes a
  cycle along the path, whichever end of it the two parsers report (`LoopIsCycle`). The
  sort begins with the graph that was searched, so its own invariant gives the order, and
  that it never fails. TLC checked the invariant on the documents of `graph` before it
  was proved.
- **Healing.** Of staging, the invariant follows each transaction's work: every content
  carries the transaction that repaired it, and one that has its file to itself is found
  in its own staged file, or was promoted (`StageIsTraced`), which covers the contents that
  other transactions copy out of production. A repair that compiles is followed along
  its phases (`GoodPath`), and what waits for its swap was verified or has been purged
  (`Verified`); both rest on one lemma about what a step leaves of the other transactions
  (`OthersUntouched`). Of the loop in place: a silent build was of a whole text unless the
  compiler died, and each phase of the rollback has put back one thing more (`LoopInv`).
- **Taking turns.** For `Timeless` it does not matter what a block holds. As long as sessions
  take turns, the history of the one that is open is the file's or, within an append, one
  block longer, and a session that is not in an append leaves the file whole; so what a
  write replaces is a prefix of what it writes.
- **Rigidity.** The search in the tree is described by what it does to any list of items: it
  returns the nearer of its first guess and the nearest of the list. The proof is by strong
  counting over the length of the list; the triangle inequality on the line of coordinates
  excuses the half that is not entered. A wave is a walk: as long as its first node is alone
  the partners of that node are in the queue and none was visited before, so the node stays
  alone only if it has none. A sweep (`SweepInv`) has visited what is not still to do, in waves
  each of which takes at least one node.
- **Scaffold.** From the build on, what is staged is the job's own, as it was generated up to
  corrections (`TreesAreTheirJobs`). What is in the distribution directory is what the job found
  until its promotion begins, then nothing, a torn copy of what is staged or a whole one, by the
  step the promotion is at (`PromotionIsOn`). What `build_info` says of the last attempt is true
  of the text that is left (`BuildIsTrue`), so each of the places where a job may end, be killed
  or raise reports truly.
- **Translation.** Between two phases the file may change, so the invariant speaks of what the
  run has seen: the functions of the recipe at work were not cold when the run looked, and each
  is verified, rejected or still to be verified (`BodyIsJudged`); the first rejection takes the
  recipe off the disk, and none of that source comes back before the run is over (`NoSource`).
- **Bridge.** A generator that has been asked for a name keeps its text (`Kept`), and a second
  request for the name with another hook is refused, hence two different texts never meet.
- **Overlays.** The baseline is what the file was generated from as long as builds record it
  (`OverlayInv`), which gives what commits and merges start from. For rebuilds the theorem says
  what holds wherever a hunk is found: one that is spliced takes no line away but those it looks for
  (`SplicedKeeps`, over what `FindBlock` returns), and by counting over the hunks a whole
  patch takes away none but those some hunk looks for, and brings in none but those some hunk
  has (`PatchKeepsLines`). It speaks of an overlay that is a sequence of hunks; that
  `MakePatch` makes one is not proved, since that is about a recursion over two texts.
- **Decomposition.** Every build finds what earlier ones left. The invariant says what this is:
  a leaf holds one definition, under its own name or handed to `utils.py`; `utils.py` has what
  was moved, which is one name with one text (the exemption); each import finds its name in the
  file it names, or in `utils.py` if that file has handed it over, so two steps resolve any
  name. Of a build under way the sources behind it are placed (`UnitsArePlaced`), and after a
  kill the package may be unsettled only while a source that will settle it is still to come
  (`SettledInTime`). Each file is there for one name, so a circle of files that import each
  other is a circle of definitions that use each other; where there is none of these there is
  none of those.
- **Tuner.** A member of a finite pool is undominated or below one that is. The archive
  comes last when the first front is merged and has one vector of a configuration, so its
  own undominated members are never displaced.
- **Self-evolution.** Domination is not transitive where a runtime is missing, but has no
  cycle: what dominates has no larger sum of the objectives of the build, and with the same sum
  a smaller runtime. Hence every part of a population has an element that none of the part
  dominates, ranks exist and are above those of all rivals, and a selection by rank leaves out
  nothing that dominates what it keeps.
- **EvolveLoop.** While a candidate is measured the blueprint that was vetted is in
  `backup`, and the entry that decides about it is the last of the chain; so the invariant
  speaks of the first `n` entries (`IsVetted(b, n)`), which a longer chain does not change
  (`VettedStays`), with `n` the whole chain before and one less after the measurement. That
  nothing is measured twice holds across runs, since what a ledger on disk holds counts as
  explored as soon as it is read, and a torn one is empty. For the sources it says which files have
  their good text in the mutator's backups and which in the tree; the healer only writes
  into the first (`SourcesInv`). TLC checked the invariant before it was proved.
- **GraphEvolution.** A set of nodes each of which follows one of them is what Kahn's algorithm
  leaves when it has no node to take, hence it takes all exactly if there is none (`Cyclic`).
  The levels of a graph without one are the only function in which a node comes one level
  above the highest of its predecessors, so a schedule is described by them (`Waving`), and
  the invariant is that the schedule waves over the present graph and over what was removed.
  The zone of an edit is closed: it has every neighbour of its nodes, as nodes are the
  bound that the walk needs. So nothing outside leads into it, and the old levels on which
  `update_schedule` would anchor new ones never act (`Base` is 1); what is outside keeps
  edges and levels, and a cycle of the whole is one of the zone, for outside was none before.
  Of a crossover the invariant says that both graphs are graphs and that the last one
  conserved edges; what needs an argument is one child (`OneCrossover`). The edges at a node
  are counted in each part of its list. A node of the context has its edges inside the context
  (`Around`) and those across the boundary, and the matching, which takes edges of the donor
  out of the middle of a list, loses none of either side (`MatchedIs`), so that the bridge has
  one edge for each (`BridgeIs`). A donor node likewise, but for the first, which takes the
  adaptors without a partner and whose arity grows with them (`DonorKeeps`). All of that stands
  on new names being new: a renamed node is outside the graph, as there are more prefixes to
  try than nodes (`RenamedIsNew`), two adaptors are two nodes (`AdaptorIsNew`), and an adaptor
  is no donor node, for these have a prefix. Donor nodes of one name do happen, when one has
  the prefix that the other is given; the property allows for them, and the proof needs no
  more than that there are as many names as nodes (`NamesApart`).
- **BuildLoop.** Fingerprints are taken file by file while the user edits, so what is
  invariant is that each is of *some* time since the snapshot; edits are numbered, hence a
  workspace that equals the snapshot at the boundary check has equalled it all along
  (`EditsAreNumbered`, `ScannedSince`). The two stages work on copies and are merged key by
  key: each copy agrees with the metadata on what a cycle tells of itself
  (`StagesReturnCopies`), the counter of stalls is that of the decision stage once it has
  returned and never more than the flat scores recorded (`StallsAreFlat`), and of a build
  command all copies agree with the manifest (`DirectIsUnlearned`), which makes the merge
  order harmless. TLC checked the invariant before it was proved.

A recursive function is one by name only until somebody shows that its equations have a
solution. `LeastElements` does so for the shapes the models use (`CountingUp`,
`IterationExists`, `Selecting`): a solution exists up to every number, and two agree.

Only model-checked:

- all liveness (`Terminates`, `EverythingEnds`, `BuildsEndWell` but for its safety part,
  `TransactionsEndWell` likewise, `LoopEnds`), which the prover cannot do;
- that a line comes back under its header, and that an overlay on the text it was made from gives
  the committed text again (`AppliedIsInPlace`); what a structural merge keeps
  (`StructuralMergeKeepsEdits`): both are about the difference of two texts, a recursive function;
- `NetsAreWhole`: the translator is recursive over trees, and what a definition computes by
  recursion over data is out of the prover's reach;
- what the shared artifact cache promises (the run finds that it does not keep it), and the
  counters of the universal engine, about which nothing is stated.

`MCHINNet` and the modules over it use recursive operators; no module with a theorem
reaches one.

## Where the code and its documentation disagree

Four of these have a run of their own, whose counterexample shows them:

- `translate`: the translator leaves nets with dangling or one-sided wires. A name
  that is bound again drops its unconsumed source, and a named closure that ended as a
  statement has been capped by an eraser when a later call is linked to it
  (`core/translator.py:227`; "so no wire dangles", line 344). A third case is a
  conditional whose branches bind. `NetsAreWhole` of `hin` checks programs without
  such names.
- `reload`: `deserialize_network` makes nodes without `a_1..a_3`, which the switch and
  projection rules read, so reducing a loaded net with a branch raises
  `AttributeError` (`core/aeroc.py:161`).
- `shared`: a `put` that falls back to this machine's spill directory returns `True`
  like any other, and no other builder can get the artifact
  (`src/build/distributed.py:364`). Also, after an outage a `get` may return an older
  version than the one put last.
- `fallback`: the healer asks for the coordinate nearest to the faulty node among
  coordinates that include it, so the fallback is always the default
  (`orchestrator.py:1944`).

For the others TLC produced a counterexample as well; the properties exempt exactly
these cases, by the condition named in brackets where there is one, so everything
around them is still checked.

*Interaction net*

- `_rule_duplicate` reads the external wires of both agents before it moves any.
  Where a wire joins the duplicated agent to itself or to its duplicator, the new
  duplicators are linked to ports of agents it retires, and that part of the net is
  stuck ("the structure reachable through ``other`` is faithfully duplicated",
  `core/hin_vm.py:527`). [`Shortcut`]
- `reduce_step` sends projection/projection and switch/switch pairs to
  `_rule_project` and `_rule_switch`, which take the second agent for a value and
  retire it with its wires attached; `_has_rule` admits these pairs as
  "same-agent annihilation" (`core/hin_vm.py:500`). [`Misread`]
- `_clone_node` sets `p` and `aux` but not `a_1..a_3`, so a cloned switch or
  projection raises `AttributeError` when it fires; its docstring promises "a
  fresh, unwired copy" (`core/hin_vm.py:607`).
- The universal network records the signature of every pair it *skips*, too.
- A Fiedler split may put all nodes on one side; reloaded and split nets restart
  `_gensym`, so that a node made later can take a live id (not modelled); the frontend
  keeps only the last statement of an `if` branch.

*Ledger* [`overlap`, `faults`, `reseeds`]

- The chain is read once and every append rewrites the file from that copy, so of
  two processes the later writer drops what the other committed ("once committed, a
  block ... can never be rewritten", `core/spacetime_ledger.py:7`).
- `_persist` truncates in place, and `_load` takes an unreadable file for an empty
  ledger: dying in between loses the history silently (`core/spacetime_ledger.py:132`).
- `initialize_workspace_context` overwrites a well-formed ledger that has the key
  `ledger` (`context_init.py:27` says it is "left untouched").
- On an initialised workspace the two drivers share `mutation_history` but not its
  record format: the second to append raises `KeyError` (`core/spacetime_ledger.py:163`
  says "Interoperate").
- In the rigidity sweep isolated nodes are swept alone and so never verified; and of
  exact coordinates every drift is 0, only a collapse fails.

*Distributed build*: with `max_attempts` remote backends or more, a task is
reported failed without a local attempt ("so a build never stalls because a remote
node went away", `src/build/distributed.py:13`). [`FewRemotes`]

*Memoization* [`restarts`, `midway`]: `invalidate` looks only at what is in memory,
along a graph that a new process starts empty, so entries on disk outlive a change
(`src/memoization/cache_engine.py:96`); and a report compares the file with its last
*reported* content, so an entry computed in between stays when the file turns back.

*Replay buffer* [`fresh`, `crash`, `write`]: the file is visible before its creator
locks and seeds it, and the seed overwrites what another process recorded
meanwhile; and it is truncated and rewritten in place, so a kill or a short write
loses all trajectories ("cannot corrupt the file with partial writes",
`builder_brains/experience_replay.py:14`). `IsOneLedger` shows that the loss is always
that of the whole list, never an older or a mixed one.

*Overlays* [`again`, `unrecorded`]: `reapply` records as the pristine baseline whatever is on
disk, the user's edits included when nothing was regenerated (`src/overlay/manager.py:84`); and
without a baseline, which nothing in the build records, the user's own file is the merge base
and the generator's text wins, reported as applied (`src/overlay/manager.py:111`). A hunk is
looked for by its content alone, from the last one on and then from the top
(`src/overlay/apply.py:42`), so an edit whose surroundings are there more than once may come
back in another function and is reported `APPLIED` [`Intact`]. The structural merge compares
named children only (`core/overlay/structural_merger.py:308`): where both sides changed a
statement its operator is the generator's, and a user's change of an operator or keyword is lost
without a conflict [`Operands`]; a statement that the user added is dropped where the
generator's function has an equal one, and so is one of two equal ones (line 357). What the
property asks for is that every other new statement of either side is in the result, alone or
merged operand by operand. The user's file may have a function twice, of which only the later is
compared [`HasTwice`].

*LSP proxy* [`ranged`, `reopen`]: a ranged change without `new_text` keeps the old
text, with which later byte offsets are computed; `did_open` of an open document
sends a second `didOpen`; and between an edit and the diagnostics of the text before
it offsets are of another text (`core/toolchain/lsp_proxy.py:16`).

*HPC* [`pbs`, `forgets`, `flaky`]: the PBS state `F` is looked up in the SLURM table
first, where it is `FAILED` (`src/hpc/scheduler.py:305` says `COMPLETED`); a query that
fails is taken for a finished job; and `OUT_OF_MEMORY` or `CANCELLED by <uid>` are
not terminal, so `wait` polls an ended job until its own timeout.

*Self-hosting builds* [`fails`, `together`]: the guard is an environment variable
shared by all threads, cleared by whichever build ends first; staging or promotion
that raises leaves it set (`core/bootstrap/isolation.py:59`). `promote` replaces file
after file (line 303 says "Atomically"), so two promotions can mix, and it also writes
back sources that were only copied in, so edits made meanwhile are undone.

*Build loop*: in FSM mode the decision stage's copy of the metadata overwrites what
the tuner returned; `boost_mutation_sigma` is never cleared; the decision state machine
is made anew for each evaluation; the neural-synthesis gate evaluates a second time, and
the synthesis module is not there; `previous_fingerprints` has another type when loaded
than when compared; a torn manifest is an empty one; only a JSON blueprint can set an
`active_command` other than `build`; a stale `.part2.aeroc` survives a direct
compilation that needs one part.

*Healing transactions* [`Private`]: the staging directory belongs to the manager, and
each transaction purges all of it, so a good repair may be lost when another transaction
of the manager ends first; and the swap reads the staged file again after it was
verified.

*Self-healing wrapper* [`whole`]: crate injection and parent promotion yield no edit
of the module, so the loop ends and rolls back at once (docstring: "so the next build
picks them up"); promotions in the parent are never rolled back; a compiler that dies
without JSON counts as clean; two missing imports overlap at byte 0; flags are never
cleared, and a blueprint that is no TOML loses them.

*Blueprint*: the reported cycle starts at the child of the closing node and for a
self-loop includes names that are not on it; the fallback context has an empty
`dependency_matrix` beside a chained `graph.dependencies`; INI blueprints without targets
skip dependency and type validation; the inferred matrix names `text_invariants`, which is
no key; JSON validates no optional section but `analysis`; the TOML living dialect ignores
other optional sections and coerces `validation`; lean contexts have no
`parser_validation`.

*Decomposition*: `utils.py` is rewritten by a later reflux pass, which loses the functions
moved before; names that differ in case share a file; of two texts of one name the first
file's wins; leaves of removed definitions and of a renamed source stay; sources of one
stem collide.

*Scaffold* [`torn`]: `commit()` "atomically moves" (`src/scaffold/workspace.py:17`) but removes
the target and then calls `shutil.move`, which renames within a file system only and otherwise
copies file by file and removes what it copied: a kill or an error on the way leaves no
deliverable or a torn one, and an error of the last step a whole one of a job that raised; the
staging directory may stay. A failing build without validation command is promoted; `--no-build`
with a failing validation is reported as succeeded; an `.aeroc` job with `build=True` is always
reported failed though it is promoted; the live layer is merged before validation; errors of the
decomposition leave the staging directory; targets of a modular package do not import what stays
in the orchestrator, which a module of its name overwrites, and import each other mutually.

*Translation pipeline*: without `meta_compiler` every function with inputs is rejected
(and `pipeline.py` cannot be imported); both sides of the differential run execute the
original; nested functions and methods are "not found" on both sides and so verified;
recipes and wrappers of an earlier run stay after an early return; flags are never cleared
and carry bare function names; `evolve_with_translation` skips routing and verification
although its docstring says "subject to entropy and verification checks"; modules of the
project count as external; a rejection deletes the recipe of another file of that name.

*FFI bridge*: the shared generator ignores the blueprints of later callers, repeats its
first text for a name and hook even with another signature or template; `register`
replaces the whole mapping; a node named `x_legacy` collides with the legacy name of `x`.

*Evolution loop*: `or 2.0`, `or 0.8` turn a configured 0 into the default; a blueprint that does
not parse is replaced by a fresh document under `tomlkit`; the blueprint ends at the last
accepted candidate, not the best; a torn ledger loads as empty; a kill leaves an unvetted genome
or mutated files; a mutation whose write fails leaves a torn file that is not listed as mutated,
and the generation keeps it when nothing else was mutated or the rest builds
(`aero/evolution/source_mutator.py:120`, `evolve.py:915`) [`unsaved`]; mutating and rolling back
take every line end for `\n`, which the property does not count [`Read`]; the evolution ledger
has the name of the block ledger's file; histories of the default schema collapse to one
signature. `update_schedule` keeps removed nodes; a second crossover of a verified graph is
refused for its stored interface signatures, and renamed donor nodes can collide; `get_best`
picks from the first front by crowding distance and the pick replaces the best candidate only if
it dominates it, so another member that does may be passed over; where a configuration was
measured again and nothing beats its old vector, the old one is kept and the new one dropped,
because the archive comes last in the merge; what only the new one beats is lost with it
("Re-measured configurations replace their stale archive twins",
`builder_brains/parameter_tuner.py:581`).

*Context ingestion* [a place that is a link; a comment before a `__future__` import]:
what is repaired or copied to a place that an earlier ingestion linked goes through the
link and rewrites the external source ("always copied (repaired content cannot be a
symlink)", `src/context/ingest.py:184`); a copy onto one's own link is a recorded error
that `report["errors"]` does not list and `files_ingested` counts; `remove_unused` drops
`from __future__` imports and whole lines that hold other statements; `auto_import`
inserts before a leading comment and so before `__future__` imports, which `ast.parse`
accepts and the compiler does not ("any change that would break the syntax is rolled
back").

*AST registry* [`harmed`, names that are no bare keys]: a directory name with a dot makes
nested tables, so the context is never found again, and the second ingestion writes the
table twice, after which the blueprint does not parse; a name with a blank does so at
once; to a blueprint that is no TOML each ingestion appends a table; of two racing
ingestions one may lose the other's table, and a process that saw the lost one repeats
its own; without the grammar one broken Python file aborts the whole ingestion. Rows of
deleted files stay; a later path or language of a registered context is not recorded.

## What is not modelled

- *Numeric kernels*: eigenvalues of the rigidity verifier, causal gradients, spectral
  bisection and stability, crowding distances, annealing, precision selection, the Topos
  compiler's experiments, similarity queries, the quantum registry. TLC has no floating
  point. Where their verdict steers something that is modelled, it is an arbitrary choice.
- *Pure text and tree transformations*: lexing, the frontends that lower source text to
  trees, the compactor, code generation, command lines and manifests of external
  compilers, Cargo manifests, profiling of code and hardware, semantic analyses. They keep
  no state between calls.
- *Input and output*: terminal UI, argument parsing, environment checks, benchmarks,
  subprocess wrappers.
- *External programs* are modelled only from how the code uses them (marked external in
  the map): language servers, batch systems, editors, kills, the kernel's `flock`.
- Inside modelled components: names, logging and rendering; of the structural merge, imports,
  comments, layout and indentation, texts that do not start with the header of an entity, nodes
  of different types and numbers of operands (a statement aligns with any other) and what a
  parser makes of a statement put before the first of a body (taken as an error); empty bodies
  are accepted; a rejected merge is noted only where a blueprint is given; the
  `validate_conservation` query; the similarity queries of the replay buffer; `evolve_aeroc`;
  checkpoints of the self-evolution engine; the watch loop of the invisible configuration; more
  than one document, file or overlay at a time where they do not interact.

The component list in `PROJECT.json` says for every component marked `partly` what of it
is left out.

## Plan

The order followed: the reduction engine and its ledger first, as everything the engine
promises rests on them; then the components where threads, processes and faults meet
files; then the sequential ones they rely on: blueprints, healing, the build loop,
decomposition and scaffold, evolution, translation, and what comes in from outside.
What is left, by importance:

1. **The quantum registry's hash check and checkpoints of the self-evolution engine**: the
   two pieces of persistent state without a model.
2. **`evolve_aeroc`**: mutation of saved modules as a client of `UASTTranslator`, with the
   restart of `_gensym` in what it loads.
3. **The watch loop** over `BuildLoop`: builds that edits start.

Theorem worth proving next: `NetsAreWhole`, for which the recursive operators of the translator
have to become functions on the trees of a bounded depth.

## Running it

    tlc -workers 2 -config hin.cfg MCUniversalHIN  # one run
    tlapm HINNetProofs.tla                         # one proof module

Each run takes at most about three and a half minutes on two cores (`evolution`, `packages`,
`loop` and `workspace` are the longest); `HINNetProofs` and `RemoteProofs` take some minutes,
`PackagesProofs` about six, `WorkspaceProofs` three, `LoopProofs` eleven, `BuildGraphProofs` and
`SpacetimeLedgerProofs` less.

----------------------------- MODULE QueryCache -----------------------------
(***************************************************************************)
(* src/memoization/cache_engine.py: MemoizationEngine over QueryCache, a   *)
(* cache of computed values in memory and on disk, with a dependency graph *)
(* that lives in memory only.  A value is abstracted to what it was        *)
(* computed from: the version of every file its computation reads.         *)
(***************************************************************************)
EXTENDS Naturals, Functions

CONSTANTS
    Queries,    \* what memoize is called with
    Files,      \* paths given to on_file_changed; nodes of the same graph
    Unset,      \* no source file, no call, nothing recorded (None in the code)
    Deps,       \* the "dependencies" argument of memoize, per key
    SourceOf,   \* the "source_file" argument of memoize, per key
    Versions,   \* bound: semantic contents a file may have ("missing" is one)
    CacheConditions \* the sets of things that may happen in one execution

CacheAssumption ==
    /\ Queries \cap Files = {}
    /\ Deps \in [Queries -> SUBSET (Queries \cup Files)]
    /\ SourceOf \in [Queries -> Files \cup {Unset}]
    /\ Unset \notin Files \cup Versions
    /\ CacheConditions \subseteq SUBSET {"late", "midway", "restarts"}

ASSUME CacheConstants == CacheAssumption

\* "late": calls run before the watcher has reported an edit; "midway": a file
\* is edited while a computation runs; "restarts": the process ends and starts
\* again over the same storage.
VARIABLES
    cacheMay,   \* what may happen in this execution
    file,       \* version of each file
    unreported, \* files edited since on_file_changed last saw them
    memory,     \* _memory: key -> entry
    entries,    \* <storage_path>/<md5 of key>.json: key -> entry
    edges,      \* _dep_graph
    recorded,   \* _file_fingerprints
    computing,  \* the call to compute_fn in progress, with its fingerprint
    returned    \* what memoize gave its caller last

cacheVars == <<cacheMay, file, unreported, memory, entries, edges, recorded, computing, returned>>

Vertices == Queries \cup Files

-----------------------------------------------------------------------------
\* The nodes that n reaches in the relation R.
Reached(n, R) ==
    {m \in Vertices : \A T \in SUBSET Vertices :
        (\A e \in R : e[1] \in T \cup {n} => e[2] \in T) => m \in T}

DeclaredDeps == {e \in Queries \X Vertices : e[2] \in Deps[e[1]]}

\* The files whose content the computation of k depends on.
Reads == [k \in Queries |->
    (Files \cap Reached(k, DeclaredDeps))
        \cup (Files \cap {SourceOf[j] : j \in {k} \cup (Queries \cap Reached(k, DeclaredDeps))})]

Present(k) == [f \in Reads[k] |-> file[f]]

\* compute_fn(k) reads k's files and asks memoize for the keys it depends on.
Value(k) ==
    [f \in Reads[k] |->
        IF f = SourceOf[k] \/ f \in Deps[k] THEN file[f]
        ELSE memory[CHOOSE d \in Deps[k] \cap Queries : f \in Reads[d]].value[f]]

Fingerprint(k) ==
    [key |-> k, source |-> IF SourceOf[k] = Unset THEN Unset ELSE file[SourceOf[k]]]

Without(table, gone) == Restrict(table, DOMAIN table \ gone)

With(table, k, entry) ==
    [j \in DOMAIN table \cup {k} |-> IF j = k THEN entry ELSE table[j]]

\* Mutant: only the direct successors of the node are evicted.
Evicted_Direct(n) ==
    DOMAIN memory \cap ({n} \cup {m \in Vertices : <<n, m>> \in edges})

\* Only what is in memory is evicted, so a dependent that is only on disk stays.
Evicted(n) == DOMAIN memory \cap ({n} \cup Reached(n, edges))

Invalidate(n) ==
    /\ memory' = Without(memory, Evicted(n))
    /\ entries' = Without(entries, Evicted(n))

-----------------------------------------------------------------------------
CacheInit ==
    /\ cacheMay \in CacheConditions
    /\ file \in [Files -> Versions]
    /\ unreported = {}
    /\ memory = <<>> /\ entries = <<>> /\ edges = {}
    /\ recorded = [f \in Files |-> Unset]
    /\ computing = Unset /\ returned = Unset

MayCall == computing = Unset /\ ("late" \in cacheMay \/ unreported = {})

\* Someone edits a file, also while a computation is running.
Edit(f) ==
    /\ "late" \in cacheMay \/ unreported = {}
    /\ "midway" \in cacheMay \/ computing = Unset
    /\ \E v \in Versions \ {file[f]} : file' = [file EXCEPT ![f] = v]
    /\ unreported' = unreported \cup {f}
    /\ UNCHANGED <<cacheMay, memory, entries, edges, recorded, computing, returned>>

\* get: an entry found only on disk is loaded, without its edges.
Lookup(k) ==
    IF k \in DOMAIN memory THEN memory[k]
    ELSE IF k \in DOMAIN entries THEN entries[k] ELSE Unset

MemoryAfterLookup(k) ==
    IF Lookup(k) = Unset THEN memory ELSE With(memory, k, Lookup(k))

Hit(k) ==
    /\ MayCall
    /\ Lookup(k) # Unset /\ Lookup(k).fingerprint = Fingerprint(k)
    /\ memory' = MemoryAfterLookup(k)
    /\ returned' = [key |-> k, value |-> Lookup(k).value]
    /\ UNCHANGED <<cacheMay, file, unreported, entries, edges, recorded, computing>>

\* memoize has taken the fingerprint and calls compute_fn, whose caller has had
\* the keys it depends on memoized before.
Miss(k) ==
    /\ MayCall
    /\ Deps[k] \cap Queries \subseteq DOMAIN memory
    /\ Lookup(k) # Unset => Lookup(k).fingerprint # Fingerprint(k)
    /\ memory' = MemoryAfterLookup(k)
    /\ computing' = Fingerprint(k)
    /\ UNCHANGED <<cacheMay, file, unreported, entries, edges, recorded, returned>>

Put(k, entry) ==
    /\ memory' = With(memory, k, entry)
    /\ edges' = edges \cup {<<d, k>> : d \in Deps[k]}

\* compute_fn has returned; a write to disk that fails is only logged.
Computed ==
    /\ computing # Unset
    /\ LET k == computing.key
           entry == [fingerprint |-> computing, value |-> Value(k)]
       IN /\ Put(k, entry)
          /\ entries' \in {entries, With(entries, k, entry)}
          /\ returned' = [key |-> k, value |-> entry.value]
    /\ computing' = Unset
    /\ UNCHANGED <<cacheMay, file, unreported, recorded>>

\* on_file_changed under the default strategy, semantic_delta.
OnFileChanged(f) ==
    /\ computing = Unset
    /\ recorded' = [recorded EXCEPT ![f] = file[f]]
    /\ unreported' = unreported \ {f}
    /\ IF recorded[f] = file[f] THEN UNCHANGED <<memory, entries>> ELSE Invalidate(f)
    /\ UNCHANGED <<cacheMay, file, edges, computing, returned>>

\* invalidate_by_fingerprint with a fingerprint other than the entry's.
InvalidateByFingerprint(k) ==
    /\ MayCall
    /\ Invalidate(k)
    /\ UNCHANGED <<cacheMay, file, unreported, edges, recorded, computing, returned>>

\* on_config_changed under full_rebuild clears the cache and the graph, and
\* keeps the recorded fingerprints.
OnConfigChanged ==
    /\ MayCall
    /\ memory' = <<>> /\ entries' = <<>> /\ edges' = {}
    /\ UNCHANGED <<cacheMay, file, unreported, recorded, computing, returned>>

\* The process ends at any point; a new engine has only the storage.
Restart ==
    /\ "restarts" \in cacheMay
    /\ memory' = <<>> /\ edges' = {}
    /\ recorded' = [f \in Files |-> Unset]
    /\ computing' = Unset /\ returned' = Unset
    /\ UNCHANGED <<cacheMay, file, unreported, entries>>

CacheNext ==
    \/ \E f \in Files : Edit(f)
    \/ \E f \in Files : OnFileChanged(f)
    \/ \E k \in Queries : Hit(k)
    \/ \E k \in Queries : Miss(k)
    \/ \E k \in Queries : InvalidateByFingerprint(k)
    \/ Computed
    \/ OnConfigChanged
    \/ Restart

CacheSpec == CacheInit /\ [][CacheNext]_cacheVars

-----------------------------------------------------------------------------
\* Only dependencies are edges of the graph that is invalidated along, so that
\* an edit of a source file is followed where that is declared as one too.
Declared ==
    {k \in Queries : \A j \in {k} \cup (Queries \cap Reached(k, DeclaredDeps)) :
                        SourceOf[j] \in Deps[j] \cup {Unset}}

Stale(table) == {k \in DOMAIN table \cap Declared : table[k].value # Present(k)}

\* The watcher reports every edit before the next call, to the same process.
Watched == cacheMay \subseteq {"midway"}

\* "Invalidate cache entries affected by a file change" (on_file_changed): once
\* every edit was reported, neither memory nor an entry file that a next process
\* would load holds a value computed from older content of what its key declares,
\* also where the edit fell into the computation.  (Between late reports a file can change and
\* change back; a new process has no graph to invalidate along.)
ReportedMeansFresh ==
    Watched /\ unreported = {} => Stale(memory) = {} /\ Stale(entries) = {}

\* memoize compares the fingerprint of the source file on every call: where no
\* edit falls into a computation, an entry it would return was computed from the
\* source's present content, whatever was lost, unreported or left on disk.
HitsAreOfTheSource ==
    "midway" \notin cacheMay =>
        \A k \in Queries :
            SourceOf[k] # Unset /\ Lookup(k) # Unset /\ Lookup(k).fingerprint = Fingerprint(k)
                => Lookup(k).value[SourceOf[k]] = file[SourceOf[k]]

\* What memoize may return is fresh, in a process that hears of every edit and
\* across restarts.
CacheIsSound == ReportedMeansFresh /\ HitsAreOfTheSource
=============================================================================

----------------------------- MODULE SelfHealing -----------------------------
(***************************************************************************)
(* core/toolchain/self_healing.py: the source of one module is built, the  *)
(* diagnostics are turned into edits by fixed rules, and the loop is run   *)
(* again, three builds at the most.  A module that stays broken is put     *)
(* back as it was and flagged in the blueprint.                            *)
(*                                                                         *)
(* A text is the set of its defects and the number of edits written into   *)
(* it.  Two kinds of defect are not in the text: a crate that Cargo.toml   *)
(* does not declare, and an item that is private in the parent module.     *)
(***************************************************************************)
EXTENDS Naturals, FiniteSets

CONSTANTS
    Modules,      \* the modules that may be healed
    Defects,      \* the defects there are, see Defect
    Emerging,     \* defects of a text that an edit may bring about
    MaxAttempts,  \* MAX_BUILD_ATTEMPTS
    MaxHeals      \* bound: runs of the loop

Categories == {"duplicate_definition", "immutable_assignment", "mismatched_slice_type",
               "missing_crate", "missing_import", "missing_semicolon",
               "pyo3_glob_import", "unresolved_parent_import", "none"}

\* cat: what categorize makes of the diagnostic.  at: where the edit goes, an
\* import at the top of the file.  rule: whether the handler of the category
\* recognises the construct.
Defect == [cat : Categories, at : Nat, rule : BOOLEAN]

ASSUME DefectAssumption == Defects \cup Emerging \subseteq Defect

\* The order in which diagnostics are handled.
Order == <<"duplicate_definition", "immutable_assignment", "mismatched_slice_type",
           "missing_crate", "missing_import", "missing_semicolon",
           "pyo3_glob_import", "unresolved_parent_import", "none">>
Rank(c) == CHOOSE k \in 1 .. 9 : Order[k] = c
Before(d, e) == Rank(d.cat) < Rank(e.cat) \/ (d.cat = e.cat /\ d.at < e.at)

InManifest(d) == d.cat = "missing_crate"
InParent(d) == d.cat = "unresolved_parent_import"
InText(d) == ~InManifest(d) /\ ~InParent(d)

VARIABLES
    text,      \* the source of each module
    manifest,  \* the crates Cargo.toml does not declare
    parent,    \* the items the parent module keeps private
    flags,     \* the modules flagged in the blueprint
    at,        \* the module being healed, or none
    loop,      \* where the loop is
    builds,    \* builds so far
    diags,     \* what the last build said
    saved,     \* the bytes taken before the first build
    outcome,   \* the report of the last run of the loop
    heals,     \* runs so far
    whole      \* no run was killed, and the compiler never died without a word

inPlace == <<text, manifest, parent, flags, at, loop, builds, diags, saved, outcome, heals, whole>>

NoModule == "none"
NoReport == [module |-> NoModule, success |-> FALSE, back |-> FALSE, flag |-> FALSE]

\* What a compiler finds in a module.
Broken(m) == text[m].defects \cup manifest \cup parent

\* heal_module: the originals are taken, of the source and the manifest.
StartHealing ==
    /\ loop = "idle"
    /\ heals < MaxHeals
    /\ heals' = heals + 1
    /\ \E m \in Modules :
        /\ at' = m
        /\ saved' = [text |-> text[m], manifest |-> manifest, parent |-> parent]
    /\ builds' = 0
    /\ loop' = "build"
    /\ UNCHANGED <<text, manifest, parent, flags, diags, outcome, whole>>

\* Errors only: what the compiler names is some of what is wrong.  It may
\* also die without a diagnostic, which reads as a clean build.
Build ==
    /\ loop = "build"
    /\ builds' = builds + 1
    /\ \/ Broken(at) = {} /\ diags' = {} /\ UNCHANGED whole
       \/ \E named \in (SUBSET Broken(at)) \ {{}} : diags' = named /\ UNCHANGED whole
       \/ Broken(at) # {} /\ diags' = {} /\ whole' = FALSE
    /\ loop' = "judge"
    /\ UNCHANGED <<text, manifest, parent, flags, at, saved, outcome, heals>>

Healed ==
    /\ loop = "judge"
    /\ diags = {}
    /\ outcome' = [module |-> at, success |-> TRUE, back |-> FALSE, flag |-> FALSE]
    /\ loop' = "idle" /\ at' = NoModule /\ builds' = 0
    /\ saved' = [text |-> [defects |-> {}, edits |-> 0], manifest |-> {}, parent |-> {}]
    /\ UNCHANGED <<text, manifest, parent, flags, diags, heals, whole>>

\* The edits of an attempt: one for each diagnostic of the text whose handler
\* knows the construct, unless an edit of an earlier diagnostic is at the same
\* place.  A crate or a private item is repaired in its own file at once, and
\* yields no edit.
Plan(ds) ==
    {d \in ds : /\ InText(d) /\ d.rule /\ d.cat # "none"
                /\ ~\E e \in ds : e.at = d.at /\ InText(e) /\ e.rule /\ Before(e, d)}

Patch ==
    /\ loop = "judge"
    /\ diags # {}
    /\ builds < MaxAttempts
    /\ manifest' = manifest \ {d \in diags : d.rule}
    /\ parent' = parent \ {d \in diags : d.rule}
    /\ \/ loop' = "rollback" /\ UNCHANGED text    \* no rule, or edits that change nothing
       \/ /\ Plan(diags) # {}
          /\ \E cured \in SUBSET Plan(diags), fresh \in SUBSET Emerging :
              /\ text' = [text EXCEPT
                            ![at].defects = (@ \ cured) \cup (IF cured = {} THEN {} ELSE fresh),
                            ![at].edits = @ + Cardinality(Plan(diags))]
              /\ loop' = "build"
    /\ diags' = {}
    /\ UNCHANGED <<flags, at, builds, saved, outcome, heals, whole>>

GiveUp ==
    /\ loop = "judge"
    /\ diags # {}
    /\ builds = MaxAttempts
    /\ loop' = "rollback"
    /\ diags' = {}
    /\ UNCHANGED <<text, manifest, parent, flags, at, builds, saved, outcome, heals, whole>>

\* Mutant: only the source is put back.
RestoredManifest_Kept == manifest

RestoredManifest == saved.manifest

\* The source is written back first, then the manifest, and the failure is
\* flagged when the caller named a blueprint.
Rollback ==
    /\ loop = "rollback"
    /\ text' = [text EXCEPT ![at] = saved.text]
    /\ loop' = "manifests"
    /\ UNCHANGED <<manifest, parent, flags, at, builds, diags, saved, outcome, heals, whole>>

RestoreManifests ==
    /\ loop = "manifests"
    /\ manifest' = RestoredManifest
    /\ loop' = "flag"
    /\ UNCHANGED <<text, parent, flags, at, builds, diags, saved, outcome, heals, whole>>

\* The table of the blueprint is read and written anew with this failure; a
\* blueprint that is not TOML loses the failures it held.
FlagFailure ==
    /\ loop = "flag"
    /\ \E named, toml \in BOOLEAN :
        /\ flags' = IF ~named THEN flags
                    ELSE IF toml THEN flags \cup {at} ELSE {at}
        /\ outcome' = [module |-> at, success |-> FALSE, back |-> TRUE, flag |-> named]
    /\ loop' = "idle" /\ builds' = 0
    /\ at' = NoModule
    /\ UNCHANGED <<text, manifest, parent, diags, saved, heals, whole>>

\* The process dies in the loop: nothing on disk says so.
Kill ==
    /\ loop # "idle"
    /\ loop' = "idle"
    /\ at' = NoModule /\ builds' = 0
    /\ outcome' = NoReport
    /\ whole' = FALSE
    /\ diags' = {}
    /\ UNCHANGED <<text, manifest, parent, flags, saved, heals>>

LoopInit ==
    /\ text \in [Modules -> {[defects |-> d, edits |-> 0] : d \in SUBSET {e \in Defects : InText(e)}}]
    /\ manifest \in SUBSET {d \in Defects : InManifest(d)}
    /\ parent \in SUBSET {d \in Defects : InParent(d)}
    /\ flags = {}
    /\ at = NoModule
    /\ loop = "idle"
    /\ builds = 0
    /\ diags = {}
    /\ saved = [text |-> [defects |-> {}, edits |-> 0], manifest |-> {}, parent |-> {}]
    /\ outcome = NoReport
    /\ heals = 0
    /\ whole = TRUE

LoopNext ==
    \/ StartHealing \/ Build \/ Healed \/ Patch \/ GiveUp
    \/ Rollback \/ RestoreManifests \/ FlagFailure \/ Kill

LoopSpec == LoopInit /\ [][LoopNext]_inPlace

-----------------------------------------------------------------------------
\* A healing that ends has healed or has changed nothing: success means that
\* what is on disk is what the last build found nothing wrong with, and a
\* module reported as rolled back is byte for byte what it was, the manifest
\* with it, and flagged when a blueprint was named.  Exempt are a run that
\* was killed, a compiler that died without a word, and the parent module,
\* whose promoted items are not put back (heal_module).
HealIsAllOrNothing ==
    loop = "idle" /\ outcome.module # NoModule /\ whole =>
        /\ outcome.success => Broken(outcome.module) = {}
        /\ outcome.back =>
              /\ text[outcome.module] = saved.text
              /\ manifest = saved.manifest
              /\ outcome.flag => outcome.module \in flags
=============================================================================

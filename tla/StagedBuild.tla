----------------------------- MODULE StagedBuild -----------------------------
(***************************************************************************)
(* core/bootstrap/isolation.py and the part of orchestrator.run_build that *)
(* uses it: an engine that builds its own sources does so in a staging     *)
(* directory, and copies the staged files over the live tree in the end.   *)
(* A source is the number of its last edit and whether it parses; an       *)
(* output is the number of the source it was compiled from.                *)
(***************************************************************************)
EXTENDS Naturals, FiniteSets

CONSTANTS
    Builds,         \* calls of run_build whose targets lie in the engine
    Targets,        \* targets of the blueprint, each with a source and an output
    Python,         \* targets whose source is Python
    Cycles,         \* cycles of a build
    MaxEdits,       \* bound: edits of the live sources
    StagedConditions \* the sets of things that may happen in one execution

ASSUME StagedAssumption ==
    /\ Python \subseteq Targets /\ Cycles \in Nat \ {0} /\ MaxEdits \in Nat
    /\ StagedConditions \subseteq SUBSET {"together", "apart", "fails", "dies"}

\* "together": builds run at the same time, else one after the other; "apart":
\* each in a process of its own, else all in one; "fails": staging or promotion
\* may raise; "dies": a process may die.
VARIABLES
    stagedMay,  \* what may happen in this execution
    at,         \* where each build is
    flag,       \* AERO_BOOTSTRAP_ACTIVE of the process of each build
    src, out,   \* the live tree: sources and outputs of the targets
    stage,      \* the staging directory of each build
    todo,       \* staged files that promote has not copied yet
    before,     \* the snapshot at the start of a cycle
    cycle,      \* cycles finished: each writes a report, and what a decomposition
                \* split off, to the live tree whatever the stage is
    edits       \* edits so far

staged == <<stagedMay, at, flag, src, out, stage, todo, before, cycle, edits>>

Files == Targets \X {"src", "out"}
NoFile == [v |-> 0, good |-> TRUE]
EmptyStage == [src |-> [t \in Targets |-> NoFile], out |-> [t \in Targets |-> 0]]
InStage == {"copying", "cycle", "brains", "compile", "final", "promote"}
Ended == {"done", "failed", "dead"}

\* The builds in the process of b.
SameProcess(b) == IF "apart" \in stagedMay THEN {b} ELSE Builds

-----------------------------------------------------------------------------
StagedInit ==
    /\ stagedMay \in StagedConditions
    /\ at = [b \in Builds |-> "idle"] /\ flag = [b \in Builds |-> FALSE]
    /\ src = [t \in Targets |-> [v |-> 1, good |-> TRUE]]
    /\ out = [t \in Targets |-> 0]
    /\ stage = [b \in Builds |-> EmptyStage] /\ todo = [b \in Builds |-> {}]
    /\ before = [b \in Builds |-> << >>]
    /\ cycle = [b \in Builds |-> 0] /\ edits = 1

NowAt(b, l) == at' = [at EXCEPT ![b] = l]
SetBootstrapActive(b, value) ==
    flag' = [c \in Builds |-> IF c \in SameProcess(b) THEN value ELSE flag[c]]

MayStart(b) ==
    /\ at[b] = "idle"
    /\ "together" \in stagedMay \/ \A c \in Builds \ {b} : at[c] \in {"idle"} \cup Ended

Enter(b) ==
    /\ MayStart(b) /\ ~flag[b]
    /\ NowAt(b, "admitted")
    /\ UNCHANGED <<stagedMay, flag, src, out, stage, todo, before, cycle, edits>>

\* The recursive loop guard: the build returns at once.
ShortCircuit(b) ==
    /\ MayStart(b) /\ flag[b]
    /\ NowAt(b, "done")
    /\ UNCHANGED <<stagedMay, flag, src, out, stage, todo, before, cycle, edits>>

Prepare(b) ==
    /\ at[b] = "admitted"
    /\ SetBootstrapActive(b, TRUE)
    /\ stage' = [stage EXCEPT ![b] = EmptyStage]
    /\ todo' = [todo EXCEPT ![b] = Files]
    /\ NowAt(b, "copying")
    /\ UNCHANGED <<stagedMay, src, out, before, cycle, edits>>

CopyTargetFile(b) ==
    /\ at[b] = "copying"
    /\ \E t \in Targets :
        /\ <<t, "src">> \in todo[b]
        /\ stage' = [stage EXCEPT ![b].src[t] = src[t]]
        /\ todo' = [todo EXCEPT ![b] = @ \ {<<t, "src">>}]
    /\ UNCHANGED <<stagedMay, at, flag, src, out, before, cycle, edits>>

Copied(b) ==
    /\ at[b] = "copying" /\ \A t \in Targets : <<t, "src">> \notin todo[b]
    /\ todo' = [todo EXCEPT ![b] = {}]
    /\ NowAt(b, "cycle")
    /\ UNCHANGED <<stagedMay, flag, src, out, stage, before, cycle, edits>>

\* Preparing or seeding the stage fails before the try block is reached.
StagingFails(b) ==
    /\ "fails" \in stagedMay /\ at[b] \in {"admitted", "copying"}
    /\ SetBootstrapActive(b, TRUE)
    /\ todo' = [todo EXCEPT ![b] = {}]
    /\ NowAt(b, "failed")
    /\ UNCHANGED <<stagedMay, src, out, stage, before, cycle, edits>>

-----------------------------------------------------------------------------
\* A snapshot covers the workspace, the staging directories and reports in it
\* included; only the names of the caches are skipped.
Snapshot == <<src, out, stage, cycle>>

BeginCycle(b) ==
    /\ at[b] = "cycle" /\ cycle[b] < Cycles
    /\ before' = [before EXCEPT ![b] = Snapshot]
    /\ NowAt(b, "brains")
    /\ UNCHANGED <<stagedMay, flag, src, out, stage, todo, cycle, edits>>

\* _enforce_read_only_boundary after the brains' stages.
Boundary(b) ==
    /\ at[b] = "brains"
    /\ NowAt(b, IF Snapshot = before[b] THEN "compile" ELSE "final")
    /\ before' = [before EXCEPT ![b] = << >>]
    /\ UNCHANGED <<stagedMay, flag, src, out, stage, todo, cycle, edits>>

BrainRaises(b) ==
    /\ at[b] = "brains" /\ NowAt(b, "final")
    /\ before' = [before EXCEPT ![b] = << >>]
    /\ UNCHANGED <<stagedMay, flag, src, out, stage, todo, cycle, edits>>

Compiled(files, some) == [t \in Targets |-> IF t \in some THEN files[t].v ELSE 0]
AllParse(files) == \A t \in Python : files[t].good

CompileTargets_Live(b) ==  \* Mutant: the compiler reads the live sources.
    /\ at[b] = "compile"
    /\ AllParse(src)
    /\ stage' = [stage EXCEPT ![b].out = Compiled(src, Targets)]
    /\ cycle' = [cycle EXCEPT ![b] = @ + 1]
    /\ NowAt(b, "cycle")
    /\ UNCHANGED <<stagedMay, flag, src, out, todo, before, edits>>

\* A source that does not parse raises, after any of the others was compiled.
CompileTargets(b) ==
    /\ at[b] = "compile"
    /\ LET files == stage[b].src
       IN \/ /\ AllParse(files)
             /\ stage' = [stage EXCEPT ![b].out = Compiled(files, Targets)]
             /\ cycle' = [cycle EXCEPT ![b] = @ + 1]
             /\ NowAt(b, "cycle")
          \/ /\ ~AllParse(files)
             /\ \E some \in SUBSET {t \in Targets : files[t].good} :
                    stage' = [stage EXCEPT ![b].out = Compiled(files, some)]
             /\ NowAt(b, "final")
             /\ UNCHANGED cycle
    /\ UNCHANGED <<stagedMay, flag, src, out, todo, before, edits>>

EndCycles(b) ==
    /\ at[b] = "cycle" /\ cycle[b] = Cycles
    /\ NowAt(b, "final")
    /\ UNCHANGED <<stagedMay, flag, src, out, stage, todo, before, cycle, edits>>

-----------------------------------------------------------------------------
Staged(b) == {f \in Files :
    IF f[2] = "src" THEN stage[b].src[f[1]] # NoFile ELSE stage[b].out[f[1]] # 0}

\* _bootstrap_validator: no syntax error, and some Python file was looked at.
Valid(b) ==
    /\ AllParse(stage[b].src)
    /\ \E f \in Staged(b) : f[1] \in Python

\* The finally block, however the cycles ended.
Validate(b) ==
    /\ at[b] = "final" /\ Valid(b)
    /\ todo' = [todo EXCEPT ![b] = Staged(b)]
    /\ NowAt(b, "promote")
    /\ UNCHANGED <<stagedMay, flag, src, out, stage, before, cycle, edits>>

Discard(b) == stage' = [stage EXCEPT ![b] = EmptyStage]

\* After a failed validation, or after promotion.
Finish(b) ==
    /\ \/ at[b] = "final" /\ ~Valid(b)
       \/ at[b] = "promote" /\ todo[b] = {}
    /\ Discard(b) /\ SetBootstrapActive(b, FALSE) /\ NowAt(b, "done")
    /\ UNCHANGED <<stagedMay, src, out, todo, before, cycle, edits>>

PromoteFile_Again(b) ==  \* Mutant: the walk meets what it has just written.
    /\ at[b] = "promote" /\ todo[b] # {}
    /\ \E t \in Targets : src' = [src EXCEPT ![t] = stage[b].src[t]]
    /\ UNCHANGED <<stagedMay, at, flag, out, stage, todo, before, cycle, edits>>

\* Each file is replaced atomically, all of them are not.
PromoteFile(b) ==
    /\ at[b] = "promote"
    /\ \E f \in todo[b] :
        /\ todo' = [todo EXCEPT ![b] = @ \ {f}]
        /\ IF f[2] = "src"
           THEN src' = [src EXCEPT ![f[1]] = stage[b].src[f[1]]] /\ UNCHANGED out
           ELSE out' = [out EXCEPT ![f[1]] = stage[b].out[f[1]]] /\ UNCHANGED src
    /\ UNCHANGED <<stagedMay, at, flag, stage, before, cycle, edits>>

\* promote raises: nothing after it in the finally block runs.
PromoteFails(b) ==
    /\ "fails" \in stagedMay /\ at[b] = "promote" /\ todo[b] # {}
    /\ NowAt(b, "failed")
    /\ UNCHANGED <<stagedMay, flag, src, out, stage, todo, before, cycle, edits>>

\* A process dies with all its threads and its environment.
Dies(b) ==
    /\ "dies" \in stagedMay /\ at[b] \in InStage \cup {"admitted"}
    /\ at' = [c \in Builds |->
                 IF c \in SameProcess(b) /\ at[c] \notin {"idle"} \cup Ended
                 THEN "dead" ELSE at[c]]
    /\ todo' = [c \in Builds |->
                   IF c \in SameProcess(b) /\ at[c] = "copying" THEN {} ELSE todo[c]]
    /\ SetBootstrapActive(b, FALSE)
    /\ UNCHANGED <<stagedMay, src, out, stage, before, cycle, edits>>

EditLive(t) ==
    /\ edits < MaxEdits
    /\ edits' = edits + 1
    /\ \E good \in IF t \in Python THEN BOOLEAN ELSE {TRUE} :
        src' = [src EXCEPT ![t] = [v |-> edits + 1, good |-> good]]
    /\ UNCHANGED <<stagedMay, at, flag, out, stage, todo, before, cycle>>

Run(b) ==
    \/ Enter(b) \/ ShortCircuit(b) \/ Prepare(b) \/ CopyTargetFile(b) \/ Copied(b)
    \/ BeginCycle(b) \/ Boundary(b) \/ BrainRaises(b) \/ CompileTargets(b)
    \/ EndCycles(b) \/ Validate(b) \/ PromoteFile(b) \/ Finish(b)

StagedNext ==
    \/ \E b \in Builds : Enter(b)
    \/ \E b \in Builds : ShortCircuit(b)
    \/ \E b \in Builds : Prepare(b)
    \/ \E b \in Builds : CopyTargetFile(b)
    \/ \E b \in Builds : Copied(b)
    \/ \E b \in Builds : StagingFails(b)
    \/ \E b \in Builds : BeginCycle(b)
    \/ \E b \in Builds : Boundary(b)
    \/ \E b \in Builds : BrainRaises(b)
    \/ \E b \in Builds : CompileTargets(b)
    \/ \E b \in Builds : EndCycles(b)
    \/ \E b \in Builds : Validate(b)
    \/ \E b \in Builds : PromoteFile(b)
    \/ \E b \in Builds : PromoteFails(b)
    \/ \E b \in Builds : Finish(b)
    \/ \E b \in Builds : Dies(b)
    \/ \E t \in Targets : EditLive(t)

StagedSpec == StagedInit /\ [][StagedNext]_staged
\* A thread that is not blocked runs on; nothing is waited for.
StagedFairSpec == StagedSpec /\ \A b \in Builds : WF_staged(Run(b))

-----------------------------------------------------------------------------
\* "Return True if the current process is already inside a bootstrap pass": so
\* it does for builds that follow each other, that run in processes of their
\* own or that die.  (Of two in one process the first to end clears the flag,
\* and staging or promotion that raises leaves it set.)
GuardTellsTheTruth ==
    "fails" \notin stagedMay /\ ("together" \in stagedMay => "apart" \in stagedMay) =>
        \A b \in Builds : flag[b] <=> \E c \in SameProcess(b) : at[c] \in InStage

\* A build never puts a source that does not parse into the live tree, or puts
\* one back there, whatever is edited, whatever fails and whatever other builds
\* do.
OnlyEditsBreak ==
    [][\A t \in Python : src[t].good /\ ~src'[t].good => edits' # edits]_staged

\* No output in the live tree comes from a source newer than the one beside it,
\* although a source may be edited, and an edit undone by promoting the copy made
\* before it, and although promotion is not atomic and may end half-way.  (Two
\* promotions at a time may be mixed up.)
OutputsHaveTheirSource ==
    "together" \notin stagedMay => \A t \in Targets : out[t] <= src[t].v

\* A build that was started comes to an end, and with it the flag, unless
\* staging or promotion raises, and the stage, unless the process dies.
BuildsEnd ==
    \A b \in Builds :
        at[b] = "admitted" ~>
            /\ at[b] \in Ended
            /\ "fails" \notin stagedMay => ~flag[b]
            /\ stagedMay \cap {"fails", "dies"} = {} => stage[b] = EmptyStage

\* The guard holds off nested passes, and the outputs belong to the sources
\* beside them (set_bootstrap_active, promote).
SelfHostingIsSafe == GuardTellsTheTruth /\ OutputsHaveTheirSource

\* Builds end, and none has broken a source (run_build, promote).
BuildsEndWell == OnlyEditsBreak /\ BuildsEnd
=============================================================================

----------------------------- MODULE BuildLoop -----------------------------
(***************************************************************************)
(* The build loop of orchestrator.py with the three stages it drives, the  *)
(* scanner, the decision tree and the parameter tuner, and the direct      *)
(* compilation next to it. A build runs several cycles; a cycle            *)
(* photographs the workspace, scans it, lets the two brains decide on      *)
(* copies of the metadata, merges the copies, checks that nothing was      *)
(* written meanwhile, compiles and saves what was learned in the manifest, *)
(* from which the next build starts. The user edits files at any time, and *)
(* a build may be killed at any point, the middle of the save included.    *)
(*                                                                         *)
(* A file is the number of its last edit; the token profiles, scores,      *)
(* costs and objective vectors are left out but for the score the stages   *)
(* exchange, and a Pareto frontier is the number of generations in it.     *)
(***************************************************************************)
EXTENDS Integers, FiniteSets, Sequences

CONSTANTS
  Files,        \* the source files of the workspace
  Targets,      \* the targets of the blueprint
  Scores,       \* the scores a scan may give, a step of one is a velocity
  Confidence,   \* decision_confidence_minimum
  Patience,     \* kinetic_stall_patience (15)
  Window,       \* KINETIC_WINDOW (15), how many scores are kept
  Cycles,       \* the cycles of a build
  Attempts,     \* max_healing_attempts + 1 (2)
  MaxBuilds,    \* bound: how many builds are started
  MaxEdits,     \* bound: how many edits the user makes
  MaxKills,     \* bound: how many builds are killed
  Commands,     \* which commands the user runs: "build", "other", "direct"
  Absent        \* a key the metadata does not have

VARIABLES
  ws,        \* the workspace: the edit each file is at
  present,   \* the targets whose source is there
  opt,       \* whether the blueprint asks for aggressive optimization
  manifest,  \* build_manifest.json
  pc,        \* what the build does next
  command,   \* the command of this build
  cycle,     \* current_cycle
  md,        \* the metadata of the build
  before,    \* the snapshot of the workspace at the start of the cycle
  todo,      \* the files not scanned yet
  dec, tun,  \* what the decision and the tuner stage returned
  parts,     \* direct compilation: the build that wrote each part, 0: no file
  attempt,   \* direct compilation: the attempts made
  report,    \* direct compilation: the parts the report names
  builds, edits, kills,
  \* History variables, which no step reads:
  flat,      \* how many of the scores recorded last were flat
  saved,     \* flat, when the manifest was saved
  written    \* the outputs this cycle has written

\* Absent is no count and no flag; the outputs of a pass are files of their own.
LoopAssumption ==
  /\ Patience \in Nat \ {0}
  /\ IsFiniteSet(Targets) /\ Targets \cap {"module", "index", "matrix"} = {}
  /\ Absent \notin Nat \cup BOOLEAN

ASSUME LoopConstants == LoopAssumption

user == <<ws, present, opt>>
loop == <<cycle, md, before, todo, dec, tun, flat, saved, written>>
direct == <<parts, attempt, report>>
bounds == <<builds, edits, kills>>
vars == <<user, manifest, pc, command, loop, direct, bounds>>

\* A fingerprint of the orchestrator (size and time of a file) and one of the
\* scanner (a hash of its text).
Stat(v) == [by |-> "stat", at |-> v]
Hash(v) == [by |-> "hash", at |-> v]

EmptyManifest == [whole |-> TRUE, traj |-> <<>>, stall |-> 0, front |-> 0,
                  prev |-> <<>>]

\* _extract_build_context: what a build knows when it starts.
Context(m) ==
  [traj |-> m.traj, stall |-> m.stall, front |-> m.front, prev |-> m.prev,
   fps |-> <<>>, score |-> 0,
   kinetic |-> Absent, stagnant |-> Absent, boost |-> Absent,
   primary |-> Absent, resolved |-> Absent, mode |-> Absent, label |-> Absent,
   decomposed |-> {}, compiled |-> 0, gate |-> FALSE]

NoMetadata == Context(EmptyManifest)

Init ==
  /\ ws = [f \in Files |-> 0] /\ present \in SUBSET Targets
  /\ opt \in BOOLEAN /\ manifest = EmptyManifest
  /\ pc = "idle" /\ command \in Commands /\ cycle = 0 /\ md = NoMetadata
  /\ before = ws /\ todo = {} /\ dec = NoMetadata /\ tun = NoMetadata
  /\ parts = [p \in {1, 2} |-> 0] /\ attempt = 0 /\ report = {}
  /\ builds = 0 /\ edits = 0 /\ kills = 0 /\ flat = 0 /\ saved = 0
  /\ written = {}

IsDirect == command = "build"

-----------------------------------------------------------------------------
(* The decision tree.                                                      *)

\* decision_tree.evaluate, dominance gate: a build compiles what it is asked
\* to, and the state machine is not entered.
Dominated(m) ==
  [m EXCEPT !.primary = "DIRECT_COMPILE", !.resolved = "DIRECT_COMPILE",
            !.mode = "direct_compile", !.label = "direct_compile",
            !.kinetic = FALSE, !.boost = FALSE]

\* record_score: the last three scores have neither velocity nor acceleration.
IsFlat(h) == Len(h) >= 3 /\ h[Len(h)] = h[Len(h) - 1] /\ h[Len(h) - 1] = h[Len(h) - 2]

Remembered(h) == IF Len(h) > Window THEN Tail(h) ELSE h

\* HeuristicStateMachine.record_score
Stalled(m) == IF IsFlat(Append(m.traj, m.score)) THEN m.stall + 1 ELSE 0

\* decide_signal from the layer a new machine starts in: only an alarm and a
\* score below the confidence leave it.
Signal(m, alarm) ==
  IF alarm THEN "boost_mutation_sigma"
  ELSE IF m.score < Confidence THEN "escalate" ELSE "hold"

\* transition: the machine is built anew for every evaluation, so no signal
\* leads further than the second layer.
Layer(signal) == IF signal = "hold" THEN "CONSERVATIVE" ELSE "EXPLORATORY"

Primary(m, alarm) ==
  IF opt THEN "AGGRESSIVE_MUTATION" ELSE Layer(Signal(m, alarm))

\* FallbackRouter.route: a new router has an empty cache, so the first
\* strategy of the cascade is taken.
Route(m, primary) == IF m.score >= Confidence THEN primary ELSE "GREEDY"

\* _generate_candidate_actions; those that only turn a parameter of the next
\* cycle are one.
Candidates(strategy) ==
  IF strategy = "AGGRESSIVE_MUTATION"
  THEN {"execute_polyglot_decomposition", "boost_mutation_sigma"}
  ELSE {"refine"}

Mode(label) ==
  IF label = "execute_polyglot_decomposition" THEN "aggressive_decomposition"
  ELSE "other"

\* Mutant: the alarm does not reset the counter it came from.
Judged_NotConsumed(m, label) ==
  [m EXCEPT !.traj = Remembered(Append(@, m.score)), !.stall = Stalled(m),
            !.kinetic = Stalled(m) >= Patience, !.label = label,
            !.primary = Primary(m, FALSE), !.resolved = Route(m, Primary(m, FALSE)),
            !.mode = Mode(label)]

\* decision_tree.evaluate on metadata m, label being the action that ranks
\* first; an alarm resets the counter it came from, and raises a flag for the
\* tuner that no evaluation lowers again.
Judged(m, label) ==
  LET stalls == Stalled(m)
      alarm == stalls >= Patience
      primary == Primary(m, alarm)
  IN [m EXCEPT !.traj = Remembered(Append(@, m.score)),
               !.stall = IF alarm THEN 0 ELSE stalls,
               !.kinetic = alarm, !.boost = IF alarm THEN TRUE ELSE @,
               !.primary = primary, !.resolved = Route(m, primary),
               !.label = label, !.mode = Mode(label)]

\* The results evaluate may give for metadata m: out of time, no action is
\* ranked.
Evaluate(m) ==
  IF IsDirect THEN {Dominated(m)}
  ELSE {Judged(m, l) :
          l \in Candidates(Route(m, Primary(m, Stalled(m) >= Patience))) \cup {"none"}}

\* What an evaluation adds to the history.
FlatAfter(m) ==
  IF IsDirect THEN flat ELSE IF IsFlat(Append(m.traj, m.score)) THEN flat + 1 ELSE 0

(* The parameter tuner.                                                    *)

\* parameter_tuner.evaluate, bypass
Bypassed(m) == [m EXCEPT !.stagnant = FALSE]

\* parameter_tuner.evaluate: one more generation, stagnant or not; the boost
\* is used up.
Tuned(m, stagnates) ==
  [m EXCEPT !.front = @ + 1, !.boost = IF @ = TRUE THEN FALSE ELSE @,
            !.stagnant = stagnates]

Tune(m) == IF IsDirect THEN {Bypassed(m)} ELSE {Tuned(m, s) : s \in BOOLEAN}

\* dict.update: b's keys win over a's.
Updated(a, b) == [k \in DOMAIN a |-> IF b[k] = Absent THEN a[k] ELSE b[k]]

-----------------------------------------------------------------------------
(* A cycle of run_build.                                                   *)

\* The process begins: a manifest that was cut off by a crash does not parse
\* (load_manifest raises), and every build ends there.
StartBuild ==
  /\ pc = "idle" /\ builds < MaxBuilds
  /\ builds' = builds + 1 /\ \E c \in Commands \ {"direct"} : command' = c
  /\ manifest.whole
  /\ pc' = "cycle" /\ cycle' = 0 /\ md' = Context(manifest)
  /\ UNCHANGED <<user, manifest, before, todo, dec, tun, direct, edits, kills,
                 flat, saved, written>>

\* The process is gone, and what it knew with it.
Exit ==
  /\ pc' = "idle" /\ cycle' = 0 /\ md' = NoMetadata /\ before' = ws /\ todo' = {}
  /\ dec' = NoMetadata /\ tun' = NoMetadata /\ flat' = saved /\ written' = {}

\* compute_workspace_delta: a fingerprint of another kind is never equal.
Changed(prev) == {f \in Files : f \notin DOMAIN prev \/ prev[f] # Stat(ws[f])}

\* Mutant: the counts of the last cycle stay in the metadata.
Reset_Kept(m) == [m EXCEPT !.fps = <<>>]

\* The keys run_build pops at the start of a cycle.
Reset(m) == [m EXCEPT !.decomposed = {}, !.fps = <<>>]

BeginCycle ==
  /\ pc = "cycle" /\ cycle < Cycles
  /\ cycle' = cycle + 1 /\ before' = ws /\ md' = Reset(md)
  /\ todo' = IF Changed(md.prev) # {} THEN Changed(md.prev) ELSE Files
  /\ written' = {} /\ pc' = "scan"
  /\ UNCHANGED <<user, manifest, command, dec, tun, flat, saved,
                 direct, bounds>>

\* _scan_single_file: a worker of the pool reads a file, or cannot.
ScanFile(f) ==
  /\ pc = "scan" /\ f \in todo
  /\ todo' = todo \ {f}
  /\ \/ md' = [md EXCEPT !.fps = [g \in DOMAIN @ \cup {f} |->
                                    IF g = f THEN Hash(ws[f]) ELSE @[g]]]
     \/ UNCHANGED md
  /\ UNCHANGED <<user, manifest, pc, command, cycle, before, dec, tun, flat,
                 saved, written, direct, bounds>>

\* scanner.evaluate consolidates what the workers returned, _seed_objectives
\* turns it into the score, and both stages start on copies of the metadata.
Scanned ==
  /\ pc = "scan" /\ todo = {}
  /\ \E s \in Scores : md' = [md EXCEPT !.score = s]
  /\ dec' = NoMetadata /\ tun' = NoMetadata /\ pc' = "stages"
  /\ UNCHANGED <<user, manifest, command, cycle, before, todo, flat, saved, written,
                 direct, bounds>>

Decide ==
  /\ pc = "stages" /\ dec = NoMetadata
  /\ dec' \in Evaluate(md) /\ flat' = FlatAfter(md)
  /\ UNCHANGED <<user, manifest, pc, command, cycle, md, before, todo, tun,
                 saved, written, direct, bounds>>

TuneParameters ==
  /\ pc = "stages" /\ tun = NoMetadata
  /\ tun' \in Tune(md)
  /\ UNCHANGED <<user, manifest, pc, command, cycle, md, before, todo, dec,
                 flat, saved, written, direct, bounds>>

\* _honor_blueprint_strategy, when the scan found too many anomalies, with the
\* strategy of a blueprint that names none
Honored(m, anomalous) ==
  IF ~anomalous THEN m
  ELSE [m EXCEPT !.resolved = "DIRECT_COMPILE", !.mode = "direct_compile",
                 !.label = "honor_blueprint_strategy"]

\* The copies are merged, the tuner's first.
Merge ==
  /\ pc = "stages" /\ dec # NoMetadata /\ tun # NoMetadata
  /\ \E anomalous \in BOOLEAN :
       md' = Honored(Updated(Updated(md, tun), dec), anomalous)
  /\ pc' = IF md'.kinetic = TRUE \/ md'.stagnant = TRUE THEN "synthesize" ELSE "check"
  /\ dec' = NoMetadata /\ tun' = NoMetadata
  /\ UNCHANGED <<user, manifest, command, cycle, before, todo, flat, saved,
                 written, direct, bounds>>

\* maybe_run_neural_synthesis: there is no synthesis module, but its gate
\* evaluates the decision tree on the metadata itself.
Synthesize ==
  /\ pc = "synthesize"
  /\ md' \in Evaluate(md) /\ flat' = FlatAfter(md) /\ pc' = "check"
  /\ UNCHANGED <<user, manifest, command, cycle, before, todo, dec, tun,
                 saved, written, direct, bounds>>

\* The clamp of a direct compile pass.
Clamped(m) ==
  IF ~IsDirect THEN m
  ELSE [m EXCEPT !.resolved = "DIRECT_COMPILE", !.primary = "DIRECT_COMPILE",
                 !.label = "direct_compile", !.mode = "direct_compile"]

\* _enforce_read_only_boundary
BoundaryHolds == ws = before

\* A file that was written since the snapshot ends the build.
CheckBoundary ==
  /\ pc = "check"
  /\ IF BoundaryHolds
     THEN /\ md' = Clamped(md) /\ pc' = "compile"
          /\ UNCHANGED <<cycle, before, todo, dec, tun, flat, written>>
     ELSE Exit
  /\ UNCHANGED <<user, manifest, command, saved, direct, bounds>>

\* When the metadata asks for run_decomposition.
Decomposes(m) ==
  \/ m.mode = "aggressive_decomposition"
  \/ /\ m.resolved = "AGGRESSIVE_MUTATION"
     /\ m.label \in {"execute_polyglot_decomposition", "boost_mutation_sigma"}

\* run_decomposition writes a package, or finds nothing to split
\* (Decomposition has the details); _compile_targets writes the targets that
\* have a source; _freeze_uast_matrix adds the matrix of a direct pass.
Decomposed(m, cut) == IF Decomposes(m) /\ cut THEN {"module", "index"} ELSE {}

Frozen == IF IsDirect THEN {"matrix"} ELSE {}

\* The counts run_build merges into the metadata.
Counted(m) ==
  Cardinality(present) + Cardinality(Frozen) + Cardinality(m.decomposed)

Compile ==
  /\ pc = "compile"
  /\ \E cut \in BOOLEAN :
       LET files == Decomposed(md, cut)
           m == IF Decomposes(md) THEN [md EXCEPT !.decomposed = files] ELSE md
       IN /\ md' = [m EXCEPT !.compiled = Counted(m)]
          /\ written' = files \cup present \cup Frozen
  /\ pc' = "persist"
  /\ UNCHANGED <<user, manifest, command, cycle, before, todo, dec, tun, flat,
                 saved, direct, bounds>>

\* What _persist_orchestrator_state writes.
Learned(m) ==
  [whole |-> TRUE, traj |-> m.traj, stall |-> m.stall, front |-> m.front,
   prev |-> m.fps]

\* write_text cuts the file off first.
OpenManifest ==
  /\ pc = "persist"
  /\ manifest' = [manifest EXCEPT !.whole = FALSE] /\ pc' = "saving"
  /\ UNCHANGED <<user, command, loop, direct, bounds>>

\* should_write_aeroc, the direct pass writes bytes whenever it is reached
WriteGate(m) == m.compiled > 0

\* What the next cycle may read of this one's metadata: the rest is set anew
\* before it is read.
Carried(m) ==
  [Context(manifest) EXCEPT
     !.traj = m.traj, !.stall = m.stall, !.front = m.front, !.prev = m.prev,
     !.stagnant = m.stagnant, !.boost = m.boost, !.decomposed = m.decomposed,
     !.gate = WriteGate(m)]

\* The manifest is written, the gate decides on the audit, and the telemetry
\* of the cycle is shown.
Persist ==
  /\ pc = "saving"
  /\ manifest' = Learned(md) /\ saved' = flat
  /\ md' = Carried(md) /\ pc' = "cycle"
  /\ UNCHANGED <<user, command, cycle, before, todo, dec, tun, flat, written,
                 direct, bounds>>

EndBuild ==
  /\ pc = "cycle" /\ cycle = Cycles /\ Exit
  /\ UNCHANGED <<user, manifest, command, saved, direct, bounds>>

-----------------------------------------------------------------------------
(* Direct compilation: handle_aero_calculus_build.                         *)

StartDirect ==
  /\ pc = "idle" /\ builds < MaxBuilds /\ "direct" \in Commands /\ manifest.whole
  /\ builds' = builds + 1 /\ command' = "direct"
  /\ attempt' = 1 /\ report' = {} /\ pc' = "attempt"
  /\ UNCHANGED <<user, manifest, loop, parts, edits, kills>>

\* An attempt writes the first part, and the second when mitosis split the
\* network.
WriteParts ==
  /\ pc = "attempt"
  /\ \E split \in BOOLEAN :
       parts' = [p \in {1, 2} |-> IF p = 1 \/ split THEN builds ELSE parts[p]]
  /\ pc' = "report"
  /\ UNCHANGED <<user, manifest, command, loop, attempt, report, bounds>>

\* An attempt fails, before its first file or after it.
FailAttempt ==
  /\ pc = "attempt"
  /\ parts' \in {parts, [parts EXCEPT ![1] = builds]}
  /\ pc' = "heal"
  /\ UNCHANGED <<user, manifest, command, loop, attempt, report, bounds>>

\* Mutant: the attempts are not counted.
AttemptsLeft_Uncounted == TRUE

AttemptsLeft == attempt < Attempts

\* The network is healed and tried again while attempts are left; an attempt
\* that cannot be healed, and the last, raises its error.
Heal ==
  /\ pc = "heal"
  /\ \/ AttemptsLeft /\ pc' = "attempt"
        /\ attempt' = IF attempt < Attempts THEN attempt + 1 ELSE attempt
     \/ pc' = "idle" /\ UNCHANGED attempt
  /\ UNCHANGED <<user, manifest, command, loop, parts, report, bounds>>

\* run_direct_compile reports the parts that are there.
Reported == {p \in {1, 2} : parts[p] # 0}

Report ==
  /\ pc = "report"
  /\ report' = Reported /\ pc' = "idle"
  /\ UNCHANGED <<user, manifest, command, loop, parts, attempt, bounds>>

-----------------------------------------------------------------------------
Edit(f) ==
  /\ edits < MaxEdits
  /\ edits' = edits + 1 /\ ws' = [ws EXCEPT ![f] = edits + 1]
  /\ UNCHANGED <<present, opt, manifest, pc, command, loop, direct, builds, kills>>

Kill ==
  /\ pc # "idle" /\ kills < MaxKills
  /\ kills' = kills + 1 /\ Exit
  /\ UNCHANGED <<user, manifest, command, saved, direct, builds, edits>>

Step ==
  \/ BeginCycle \/ (\E f \in Files : ScanFile(f)) \/ Scanned
  \/ Decide \/ TuneParameters \/ Merge \/ Synthesize \/ CheckBoundary
  \/ Compile \/ OpenManifest \/ Persist \/ EndBuild
  \/ WriteParts \/ FailAttempt \/ Heal \/ Report

Next ==
  \/ StartBuild \/ StartDirect \/ Step \/ Kill
  \/ \E f \in Files : Edit(f)

\* A build that runs makes its next step.
Spec == Init /\ [][Next]_vars /\ WF_vars(Step)

-----------------------------------------------------------------------------
(* Properties.                                                             *)

\* The kinetic alarm means a plateau: an evaluation raises it only when the
\* last Patience scores it recorded were flat, in this cycle, the cycles
\* before and the builds whose state it started from, and an alarm that was
\* given is never saved to be given again.
AlarmMeansPlateau ==
  [][/\ dec' # dec /\ dec'.kinetic = TRUE => flat' >= Patience
     /\ pc = "synthesize" /\ md'.kinetic = TRUE => flat' >= Patience
     /\ manifest'.stall < Patience]_vars

\* A cycle tells of itself: what it saves and counts is one workspace, as it
\* was when the cycle began, and the outputs this cycle wrote, whatever the
\* user edits and whatever the cycle before has left in the metadata; a
\* direct compilation reports the first part it has written itself.
CycleIsOfItself ==
  /\ pc \in {"persist", "saving"} =>
       /\ md.compiled = Cardinality(written)
       /\ \A f \in DOMAIN md.fps : md.fps[f] = Hash(before[f])
  /\ report # {} /\ pc = "idle" /\ command = "direct" => 1 \in report

\* A build command compiles what the user asked for and learns nothing: no
\* heuristic of the brains reaches the compiler, and the state learned by
\* other commands is saved as it was found.
LearnedState(m) == <<m.traj, m.stall, m.front>>

DirectBuildsLearnNothing ==
  [][IsDirect /\ manifest' # manifest =>
       /\ LearnedState(manifest') = LearnedState(manifest)
       /\ md.resolved = "DIRECT_COMPILE" /\ md.mode = "direct_compile"
       /\ md.decomposed = {}]_vars

\* Every build comes to an end, and every direct compilation, however often
\* its network can be healed.
LoopEnds == pc # "idle" ~> pc = "idle"

\* What the loop learns across cycles and builds is true, and build commands
\* learn nothing (HeuristicStateMachine, _persist_orchestrator_state).
LearningIsHonest == AlarmMeansPlateau /\ DirectBuildsLearnNothing
=============================================================================

------------------------------ MODULE LoopProofs ------------------------------
(***************************************************************************)
(* The loops of the system.  What a build may rely on whatever the         *)
(* user edits and whenever it is killed (run_build, orchestrator.py): a    *)
(* cycle saves and counts its own workspace, an alarm of the decision tree *)
(* means a plateau, and a build command learns nothing, for every number   *)
(* of files, builds and cycles.  And what the evolution loop (evolve.py)   *)
(* rejects leaves no trace, for every set of genomes, files, patterns and  *)
(* rules, every threshold and every number of candidates, generations,     *)
(* runs and faults.  There the strengthening says where the vetted         *)
(* blueprint is while a candidate is in its place, that what is in the     *)
(* chain counts as explored, and of which files the mutator still has the  *)
(* text of the last build that was good.  And that the two searches, the   *)
(* engine's population (SelfEvolution) and the tuner's archive             *)
(* (ParetoTuner), lose nothing that is better than what they keep; and     *)
(* that a schedule of a graph (GraphEvolution) which is repaired after an  *)
(* edit is the schedule of the graph as it is then, and that a crossover   *)
(* of two graphs conserves the edges of both.                              *)
(***************************************************************************)
EXTENDS BuildLoop, EvolveLoop, SelfEvolution, ParetoTuner, GraphEvolution, LeastElements,
        SequenceTheorems, TLAPS

-----------------------------------------------------------------------------
(* Types.                                                                  *)

Stamp == [by : {"stat", "hash"}, at : Nat]
Stamps == UNION {[S -> Stamp] : S \in SUBSET Files}
Strategies == {"DIRECT_COMPILE", "AGGRESSIVE_MUTATION", "CONSERVATIVE", "EXPLORATORY",
               "GREEDY", Absent}
Labels == {"execute_polyglot_decomposition", "boost_mutation_sigma", "refine", "none",
           "direct_compile", "honor_blueprint_strategy", Absent}
Modes == {"aggressive_decomposition", "direct_compile", "other", Absent}
Flag == {TRUE, FALSE, Absent}
History == Seq(Scores \cup {0})

Metadata ==
  [traj : History, stall : Nat, front : Nat, prev : Stamps, fps : Stamps,
   score : Scores \cup {0}, kinetic : Flag, stagnant : Flag, boost : Flag,
   primary : Strategies, resolved : Strategies, mode : Modes, label : Labels,
   decomposed : SUBSET {"module", "index"}, compiled : Nat, gate : BOOLEAN]

Manifest ==
  [whole : BOOLEAN, traj : History, stall : Nat, front : Nat, prev : Stamps]

Waiting == {"idle", "attempt", "report", "heal"}
Cycling == {"cycle", "scan", "stages", "synthesize", "check", "compile", "persist", "saving"}

LoopTypeOK ==
  /\ ws \in [Files -> Nat] /\ before \in [Files -> Nat] /\ todo \subseteq Files
  /\ present \subseteq Targets /\ manifest \in Manifest
  /\ pc \in Waiting \cup Cycling
  /\ md \in Metadata /\ dec \in Metadata /\ tun \in Metadata
  /\ parts \in [{1, 2} -> Nat] /\ builds \in Nat /\ edits \in Nat
  /\ flat \in Nat /\ saved \in Nat

-----------------------------------------------------------------------------
(* The invariant.                                                          *)

\* Edits are numbered, so a file that is as it was at the snapshot has been so
\* all the time.
EditsAreNumbered == \A f \in Files : before[f] <= ws[f] /\ ws[f] <= edits

\* A fingerprint is of the file at some time since the snapshot, and after the
\* boundary check of the snapshot itself.
ScannedSince ==
  /\ pc \in {"scan", "stages", "synthesize", "check"} =>
       \A f \in DOMAIN md.fps : \E v \in before[f] .. ws[f] : md.fps[f] = Hash(v)
  /\ pc \in {"compile", "persist", "saving"} =>
       \A f \in DOMAIN md.fps : md.fps[f] = Hash(before[f])

\* The stages return copies of what the cycle knows of itself.
CopiesOf(m) ==
  m # NoMetadata => m.fps = md.fps /\ m.decomposed = {}

StagesReturnCopies ==
  /\ pc # "stages" => dec = NoMetadata /\ tun = NoMetadata
  /\ CopiesOf(dec) /\ CopiesOf(tun)
  /\ dec # NoMetadata => dec.kinetic \in BOOLEAN
  /\ pc \in {"scan", "stages", "synthesize", "check", "compile"} => md.decomposed = {}
  /\ pc \in {"persist", "saving"} => md.compiled = Cardinality(written)

\* A counter of stalls, in the manifest, the metadata or the decision stage's
\* copy, is of flat scores, and below the patience, and so is an alarm.
StallsAreFlat ==
  /\ manifest.stall <= saved /\ manifest.stall < Patience
  /\ pc \in Waiting => flat = saved
  /\ md.stall < Patience /\ dec.stall < Patience
  /\ dec = NoMetadata => md.stall <= flat
  /\ dec # NoMetadata => dec.stall <= flat
  /\ dec # NoMetadata /\ dec.kinetic = TRUE => flat >= Patience
  /\ pc \in {"synthesize", "check"} /\ md.kinetic = TRUE => flat >= Patience

\* A build command carries along what it found in the manifest.
Unlearned(m) == LearnedState(m) = LearnedState(manifest)

DirectIsUnlearned ==
  command = "build" /\ pc \in Cycling =>
    /\ Unlearned(md)
    /\ dec # NoMetadata => Unlearned(dec)
    /\ tun # NoMetadata => Unlearned(tun)

DirectIsClamped ==
  command = "build" /\ pc \in {"compile", "persist", "saving"} =>
    md.resolved = "DIRECT_COMPILE" /\ md.mode = "direct_compile" /\ md.decomposed = {}

\* A direct compilation reports after it has written its first part.
FirstPartFirst ==
  /\ pc \in {"attempt", "report", "heal"} => builds > 0
  /\ pc = "report" => parts[1] # 0
  /\ report # {} => 1 \in report

LoopInv ==
  /\ LoopTypeOK /\ EditsAreNumbered /\ ScannedSince /\ StagesReturnCopies
  /\ StallsAreFlat /\ DirectIsUnlearned /\ DirectIsClamped /\ FirstPartFirst

-----------------------------------------------------------------------------
(* The operators.                                                          *)

\* Nothing has been fingerprinted at first.
LEMMA NoStamps == <<>> \in Stamps
<1>1. <<>> \in [{} -> Stamp]
  OBVIOUS
<1> QED BY <1>1 DEF Stamps

\* A build starts from a manifest that is well-formed.
LEMMA ContextIsMetadata ==
  ASSUME NEW m \in Manifest
  PROVE  Context(m) \in Metadata
BY NoStamps DEF Context, Metadata, Manifest, Flag, Strategies, Modes, Labels

LEMMA EmptyIsManifest == EmptyManifest \in Manifest
BY NoStamps DEF EmptyManifest, Manifest, History

LEMMA NoMetadataIsMetadata ==
  /\ NoMetadata \in Metadata /\ NoMetadata.kinetic = Absent /\ NoMetadata.stall = 0
  /\ NoMetadata.primary = Absent /\ NoMetadata.stagnant = Absent
<1>1. NoMetadata \in Metadata
  BY EmptyIsManifest, ContextIsMetadata DEF NoMetadata
<1> QED BY <1>1 DEF NoMetadata, Context, EmptyManifest

\* What recording a score makes of the history and the counter.
LEMMA Recorded ==
  ASSUME NEW m \in Metadata
  PROVE  /\ Remembered(Append(m.traj, m.score)) \in History
         /\ Stalled(m) \in {0, m.stall + 1} /\ Stalled(m) \in Nat
<1>1. m.traj \in History /\ m.score \in Scores \cup {0} /\ m.stall \in Nat
  BY DEF Metadata
<1>2. PICK h \in Seq(Scores \cup {0}), v \in Scores \cup {0} : h = m.traj /\ v = m.score
  BY <1>1 DEF History
<1>3. Remembered(Append(m.traj, m.score)) \in History
  <2>1. Append(h, v) \in Seq(Scores \cup {0}) /\ Append(h, v) # <<>>
    <3>1. Append(h, v) \in Seq(Scores \cup {0}) /\ Len(Append(h, v)) = Len(h) + 1
      OBVIOUS
    <3>2. Len(h) \in Nat /\ Len(<<>>) = 0
      OBVIOUS
    <3> QED BY <3>1, <3>2
  <2>2. Tail(Append(h, v)) \in Seq(Scores \cup {0})
    BY <2>1
  <2> QED BY <1>2, <2>1, <2>2 DEF Remembered, History
<1> QED BY <1>1, <1>3 DEF Stalled

\* What an evaluation of the decision tree returns for metadata m, when the
\* history counts n flat scores with this one.
Evaluation(m, x, n) ==
  /\ x \in Metadata /\ n \in Nat
  /\ x.fps = m.fps /\ x.decomposed = m.decomposed /\ x.kinetic \in BOOLEAN
  /\ x.stall <= n /\ x.stall < Patience
  /\ x.kinetic = TRUE => n >= Patience
  /\ IsDirect => LearnedState(x) = LearnedState(m)

\* An evaluation counts a stall only with a flat score, and resets the counter
\* with an alarm.
LEMMA Evaluated ==
  ASSUME NEW m \in Metadata, NEW x \in Evaluate(m), flat \in Nat,
         m.stall <= flat, m.stall < Patience
  PROVE  Evaluation(m, x, FlatAfter(m))
<1>0. m.stall \in Nat /\ Patience \in Nat \ {0}
  BY LoopConstants DEF LoopAssumption, Metadata
<1>1. CASE IsDirect
  <2>1. x = Dominated(m)
    BY <1>1 DEF Evaluate
  <2>2. x \in Metadata
    BY <2>1 DEF Dominated, Metadata, Flag, Strategies, Modes, Labels
  <2>3. /\ x.fps = m.fps /\ x.decomposed = m.decomposed /\ x.kinetic = FALSE
        /\ x.stall = m.stall /\ LearnedState(x) = LearnedState(m)
    BY <2>1 DEF Dominated, Metadata, LearnedState
  <2> QED BY <1>0, <1>1, <2>2, <2>3 DEF Evaluation, FlatAfter
<1>2. CASE ~IsDirect
  <2>1. PICK l \in Labels : x = Judged(m, l)
    BY <1>2 DEF Evaluate, Candidates, Labels
  <2> DEFINE stalls == Stalled(m)
             series == Remembered(Append(m.traj, m.score))
             primary == Primary(m, stalls >= Patience)
  <2>2. series \in History /\ stalls \in {0, m.stall + 1} /\ stalls \in Nat
    BY Recorded
  <2>3. primary \in Strategies /\ Route(m, primary) \in Strategies
    BY DEF Primary, Route, Layer, Strategies
  <2>4. Mode(l) \in Modes
    BY DEF Mode, Modes
  <2>5. x = [m EXCEPT !.traj = series, !.stall = IF stalls >= Patience THEN 0 ELSE stalls,
               !.kinetic = stalls >= Patience, !.boost = IF stalls >= Patience THEN TRUE ELSE @,
               !.primary = primary, !.resolved = Route(m, primary),
               !.label = l, !.mode = Mode(l)]
    BY <2>1 DEF Judged
  <2>6. FlatAfter(m) \in Nat /\ stalls <= FlatAfter(m)
    BY <1>0, <1>2 DEF FlatAfter, Stalled
  <2>6a. (IF stalls >= Patience THEN 0 ELSE stalls) \in Nat /\ (stalls >= Patience) \in BOOLEAN
    BY <2>2
  <2> HIDE DEF stalls, series, primary
  <2>7. x \in Metadata
    BY <2>2, <2>3, <2>4, <2>5, <2>6a DEF Metadata, Flag
  <2>8. /\ x.fps = m.fps /\ x.decomposed = m.decomposed /\ x.kinetic = (stalls >= Patience)
        /\ x.stall = IF stalls >= Patience THEN 0 ELSE stalls
    BY <2>5 DEF Metadata
  <2>9. PICK c \in Nat, n \in Nat, p \in Nat \ {0} :
          c = stalls /\ n = FlatAfter(m) /\ p = Patience
    BY <1>0, <2>2, <2>6
  <2>10. x.stall <= n /\ x.stall < p
    BY <2>6, <2>8, <2>9
  <2>11. x.kinetic \in BOOLEAN
    BY <2>6a, <2>8
  <2>12. ASSUME x.kinetic = TRUE PROVE n >= p
    <3>1. c >= p
      BY <2>8, <2>9, <2>12, Zenon
    <3> QED BY <2>6, <2>9, <3>1
  <2> QED BY <1>2, <2>7, <2>8, <2>9, <2>10, <2>11, <2>12 DEF Evaluation
<1> QED BY <1>1, <1>2

\* An evaluation is never taken for a stage that has not returned.
LEMMA EvaluatedIsSomething ==
  ASSUME NEW m, NEW x, NEW n, Evaluation(m, x, n)
  PROVE  x # NoMetadata
BY NoMetadataIsMetadata, LoopConstants DEF Evaluation, LoopAssumption

\* What the tuner returns.
Tuning(m, x) ==
  /\ x \in Metadata /\ x # NoMetadata
  /\ x.fps = m.fps /\ x.decomposed = m.decomposed
  /\ IsDirect => LearnedState(x) = LearnedState(m)

LEMMA TunedKeeps ==
  ASSUME NEW m \in Metadata, NEW x \in Tune(m)
  PROVE  Tuning(m, x)
<1>0. m.front + 1 \in Nat /\ (IF m.boost = TRUE THEN FALSE ELSE m.boost) \in Flag
  <2>1. m.front \in Nat /\ m.boost \in Flag
    BY DEF Metadata
  <2>2. m.front + 1 \in Nat
    BY <2>1
  <2>3. (IF m.boost = TRUE THEN FALSE ELSE m.boost) \in Flag
    BY <2>1, Zenon DEF Flag
  <2> QED BY <2>2, <2>3
<1>1. CASE IsDirect
  <2>1. x = Bypassed(m)
    BY <1>1 DEF Tune
  <2>2. x \in Metadata /\ x.stagnant = FALSE
    BY <2>1 DEF Bypassed, Metadata, Flag
  <2>3. x.fps = m.fps /\ x.decomposed = m.decomposed /\ LearnedState(x) = LearnedState(m)
    BY <2>1 DEF Bypassed, Metadata, LearnedState
  <2>4. x # NoMetadata
    BY <2>2, NoMetadataIsMetadata, LoopConstants DEF LoopAssumption
  <2> QED BY <2>2, <2>3, <2>4 DEF Tuning
<1>2. CASE ~IsDirect
  <2>1. PICK b \in BOOLEAN : x = Tuned(m, b)
    BY <1>2 DEF Tune
  <2>2. x \in Metadata /\ x.stagnant = b
    BY <1>0, <2>1 DEF Tuned, Metadata, Flag
  <2>3. x.fps = m.fps /\ x.decomposed = m.decomposed
    BY <2>1 DEF Tuned, Metadata
  <2>4. x # NoMetadata
    BY <2>2, NoMetadataIsMetadata, LoopConstants DEF LoopAssumption
  <2> QED BY <1>2, <2>2, <2>3, <2>4 DEF Tuning
<1> QED BY <1>1, <1>2

\* Merging takes each key of one of the two.
LEMMA UpdatedIs ==
  ASSUME NEW a \in Metadata, NEW b \in Metadata
  PROVE  /\ Updated(a, b) \in Metadata
         /\ Updated(a, b).fps \in {a.fps, b.fps}
         /\ Updated(a, b).decomposed \in {a.decomposed, b.decomposed}
         /\ Updated(a, b).traj \in {a.traj, b.traj}
         /\ Updated(a, b).front \in {a.front, b.front}
         /\ Updated(a, b).stall = b.stall
         /\ b.kinetic \in BOOLEAN => Updated(a, b).kinetic = b.kinetic
<1> DEFINE u == Updated(a, b)
           Keys == {"traj", "stall", "front", "prev", "fps", "score", "kinetic", "stagnant",
                    "boost", "primary", "resolved", "mode", "label", "decomposed",
                    "compiled", "gate"}
<1>1. DOMAIN a = Keys
  BY DEF Metadata
<1>2. u = [k \in Keys |-> IF b[k] = Absent THEN a[k] ELSE b[k]]
  BY <1>1 DEF Updated
<1>3. /\ u.traj \in {a.traj, b.traj} /\ u.stall \in {a.stall, b.stall}
      /\ u.front \in {a.front, b.front} /\ u.prev \in {a.prev, b.prev}
      /\ u.fps \in {a.fps, b.fps} /\ u.score \in {a.score, b.score}
      /\ u.kinetic \in {a.kinetic, b.kinetic} /\ u.stagnant \in {a.stagnant, b.stagnant}
      /\ u.boost \in {a.boost, b.boost} /\ u.primary \in {a.primary, b.primary}
      /\ u.resolved \in {a.resolved, b.resolved} /\ u.mode \in {a.mode, b.mode}
      /\ u.label \in {a.label, b.label} /\ u.decomposed \in {a.decomposed, b.decomposed}
      /\ u.compiled \in {a.compiled, b.compiled} /\ u.gate \in {a.gate, b.gate}
  BY <1>2
<1>4. u = [traj |-> u.traj, stall |-> u.stall, front |-> u.front, prev |-> u.prev,
           fps |-> u.fps, score |-> u.score, kinetic |-> u.kinetic, stagnant |-> u.stagnant,
           boost |-> u.boost, primary |-> u.primary, resolved |-> u.resolved,
           mode |-> u.mode, label |-> u.label, decomposed |-> u.decomposed,
           compiled |-> u.compiled, gate |-> u.gate]
  BY <1>2
<1>5. u.stall = b.stall
  <2>1. b.stall # Absent
    BY LoopConstants DEF LoopAssumption, Metadata
  <2> QED BY <1>2, <2>1
<1>6. b.kinetic \in BOOLEAN => u.kinetic = b.kinetic
  <2>1. Absent \notin BOOLEAN
    BY LoopConstants DEF LoopAssumption
  <2> QED BY <1>2, <2>1
<1> HIDE DEF u
<1>7. u \in Metadata
  BY <1>3, <1>4 DEF Metadata
<1> QED BY <1>3, <1>5, <1>6, <1>7 DEF u

-----------------------------------------------------------------------------
(* The steps.                                                              *)

LEMMA InitInv == Init => LoopInv
<1> SUFFICES ASSUME Init PROVE LoopInv
  OBVIOUS
<1>1. /\ manifest \in Manifest /\ manifest.stall = 0
  BY EmptyIsManifest DEF Init, EmptyManifest
<1>2. LoopTypeOK
  BY <1>1, NoMetadataIsMetadata DEF Init, LoopTypeOK, Waiting
<1>3. Patience \in Nat \ {0}
  BY LoopConstants DEF LoopAssumption
<1>4. EditsAreNumbered /\ ScannedSince /\ FirstPartFirst
  BY DEF Init, EditsAreNumbered, ScannedSince, FirstPartFirst
<1>5. StagesReturnCopies
  BY DEF Init, StagesReturnCopies, CopiesOf
<1>6. StallsAreFlat
  BY <1>1, <1>3, NoMetadataIsMetadata DEF Init, StallsAreFlat
<1>7. DirectIsUnlearned /\ DirectIsClamped
  BY DEF Init, DirectIsUnlearned, DirectIsClamped, Cycling
<1> QED BY <1>2, <1>4, <1>5, <1>6, <1>7 DEF LoopInv

\* A build knows what the manifest says.
LEMMA StartBuildInv == ASSUME LoopInv, StartBuild PROVE LoopInv'
<1>1. md' \in Metadata /\ md'.stall = manifest.stall /\ Unlearned(md')
  BY ContextIsMetadata DEF LoopInv, LoopTypeOK, StartBuild, Context, Unlearned, LearnedState
<1>2. LoopTypeOK'
  BY <1>1 DEF LoopInv, LoopTypeOK, StartBuild, user, direct, Cycling
<1>3. EditsAreNumbered' /\ ScannedSince' /\ FirstPartFirst'
  BY DEF LoopInv, EditsAreNumbered, ScannedSince, FirstPartFirst, StartBuild, user, direct
<1>4. dec = NoMetadata /\ tun = NoMetadata /\ dec' = dec /\ tun' = tun
  BY DEF LoopInv, StagesReturnCopies, StartBuild
<1>5. StagesReturnCopies'
  BY <1>4 DEF StagesReturnCopies, CopiesOf, StartBuild
<1>6. StallsAreFlat'
  <2>1. manifest.stall \in Nat /\ flat \in Nat /\ flat = saved /\ manifest.stall <= saved
    BY DEF LoopInv, LoopTypeOK, Manifest, StallsAreFlat, StartBuild, Waiting
  <2> QED BY <1>1, <1>4, <2>1 DEF LoopInv, StallsAreFlat, StartBuild, Waiting
<1>7. DirectIsUnlearned' /\ DirectIsClamped'
  <2>1. LearnedState(md)' = LearnedState(manifest)'
    BY <1>1 DEF StartBuild, Unlearned, LearnedState
  <2> QED BY <1>4, <2>1 DEF DirectIsUnlearned, DirectIsClamped, Unlearned, StartBuild
<1> QED BY <1>2, <1>3, <1>5, <1>6, <1>7 DEF LoopInv

\* When the process is gone, only the workspace and the manifest are left.
LEMMA ExitInv ==
  ASSUME LoopInv, Exit, UNCHANGED <<user, manifest, command, saved, direct, builds, edits>>
  PROVE  LoopInv'
<1>1. LoopTypeOK'
  BY NoMetadataIsMetadata DEF LoopInv, LoopTypeOK, Exit, user, direct, Waiting
<1>2. EditsAreNumbered'
  BY DEF LoopInv, LoopTypeOK, EditsAreNumbered, Exit, user
<1>3. ScannedSince' /\ FirstPartFirst'
  BY DEF LoopInv, ScannedSince, FirstPartFirst, Exit, direct
<1>4. StagesReturnCopies'
  BY DEF StagesReturnCopies, CopiesOf, Exit
<1>5. StallsAreFlat'
  <2>1. Patience \in Nat \ {0} /\ saved \in Nat
    BY LoopConstants DEF LoopAssumption, LoopInv, LoopTypeOK
  <2> QED BY <2>1, NoMetadataIsMetadata DEF LoopInv, StallsAreFlat, Exit
<1>6. DirectIsUnlearned' /\ DirectIsClamped'
  BY DEF DirectIsUnlearned, DirectIsClamped, Exit, Cycling
<1> QED BY <1>1, <1>2, <1>3, <1>4, <1>5, <1>6 DEF LoopInv

LEMMA BeginCycleInv == ASSUME LoopInv, BeginCycle PROVE LoopInv'
<1>1. md' \in Metadata /\ md'.fps = <<>> /\ md'.decomposed = {} /\ md'.stall = md.stall
      /\ LearnedState(md') = LearnedState(md)
  BY NoStamps DEF LoopInv, LoopTypeOK, BeginCycle, Reset, Metadata, LearnedState
<1>2. LoopTypeOK'
  BY <1>1 DEF LoopInv, LoopTypeOK, BeginCycle, user, direct, bounds, Cycling, Changed
<1>3. EditsAreNumbered' /\ ScannedSince' /\ FirstPartFirst'
  <2>1. DOMAIN md'.fps = {}
    BY <1>1
  <2> QED BY <2>1 DEF LoopInv, LoopTypeOK, EditsAreNumbered, ScannedSince, FirstPartFirst,
                      BeginCycle, user, direct, bounds
<1>4. dec = NoMetadata /\ tun = NoMetadata /\ dec' = dec /\ tun' = tun
  BY DEF LoopInv, StagesReturnCopies, BeginCycle
<1>5. StagesReturnCopies'
  BY <1>1, <1>4 DEF StagesReturnCopies, CopiesOf, BeginCycle
<1>6. StallsAreFlat'
  BY <1>1, <1>4 DEF LoopInv, StallsAreFlat, BeginCycle, Waiting
<1>7. DirectIsUnlearned' /\ DirectIsClamped'
  BY <1>1, <1>4 DEF LoopInv, DirectIsUnlearned, DirectIsClamped, BeginCycle, Unlearned,
                    LearnedState, Cycling
<1> QED BY <1>2, <1>3, <1>5, <1>6, <1>7 DEF LoopInv

\* A worker fingerprints a file as it is now, which is not before the snapshot.
LEMMA ScanFileInv == ASSUME LoopInv, NEW f \in Files, ScanFile(f) PROVE LoopInv'
<1> DEFINE more == [g \in DOMAIN md.fps \cup {f} |-> IF g = f THEN Hash(ws[f]) ELSE md.fps[g]]
<1>1. more \in Stamps
  <2>1. PICK S \in SUBSET Files : md.fps \in [S -> Stamp]
    BY DEF LoopInv, LoopTypeOK, Metadata, Stamps
  <2>2. Hash(ws[f]) \in Stamp
    BY DEF LoopInv, LoopTypeOK, Hash, Stamp
  <2>3. more \in [S \cup {f} -> Stamp]
    BY <2>1, <2>2
  <2> QED BY <2>3 DEF Stamps
<1>2. \/ md' = [md EXCEPT !.fps = more]
      \/ md' = md
  BY DEF ScanFile
<1>3. md' \in Metadata /\ md'.decomposed = md.decomposed /\ md'.stall = md.stall
      /\ LearnedState(md') = LearnedState(md) /\ md'.fps \in {md.fps, more}
  BY <1>1, <1>2 DEF LoopInv, LoopTypeOK, Metadata, LearnedState
<1>4. LoopTypeOK'
  BY <1>3 DEF LoopInv, LoopTypeOK, ScanFile, user, direct, bounds
<1>5. ScannedSince'
  <2>1. ASSUME NEW g \in DOMAIN md'.fps
        PROVE  \E v \in before[g] .. ws[g] : md'.fps[g] = Hash(v)
    <3>1. CASE md'.fps = md.fps \/ g # f
      <4>1. g \in DOMAIN md.fps /\ md'.fps[g] = md.fps[g]
        BY <1>3, <2>1, <3>1
      <4> QED BY <4>1 DEF LoopInv, ScannedSince, ScanFile
    <3>2. CASE md'.fps = more /\ g = f
      <4>1. md'.fps[g] = Hash(ws[f])
        BY <3>2
      <4>2. before[f] \in Nat /\ ws[f] \in Nat /\ before[f] <= ws[f]
        BY DEF LoopInv, LoopTypeOK, EditsAreNumbered
      <4>3. ws[f] \in before[f] .. ws[f]
        BY <4>2
      <4> QED BY <3>2, <4>1, <4>3
    <3> QED BY <1>3, <3>1, <3>2
  <2> QED BY <2>1 DEF ScannedSince, ScanFile, user
<1>6. EditsAreNumbered' /\ FirstPartFirst'
  BY DEF LoopInv, EditsAreNumbered, FirstPartFirst, ScanFile, user, direct, bounds
<1>7. dec = NoMetadata /\ tun = NoMetadata /\ dec' = dec /\ tun' = tun
  BY DEF LoopInv, StagesReturnCopies, ScanFile
<1>8. StagesReturnCopies'
  BY <1>3, <1>7 DEF LoopInv, StagesReturnCopies, CopiesOf, ScanFile
<1>9. StallsAreFlat'
  BY <1>3, <1>7 DEF LoopInv, StallsAreFlat, ScanFile
<1>10. DirectIsUnlearned' /\ DirectIsClamped'
  BY <1>3, <1>7 DEF LoopInv, DirectIsUnlearned, DirectIsClamped, ScanFile, Unlearned, LearnedState
<1> QED BY <1>4, <1>5, <1>6, <1>8, <1>9, <1>10 DEF LoopInv

LEMMA ScannedInv == ASSUME LoopInv, Scanned PROVE LoopInv'
<1>1. md' \in Metadata /\ md'.decomposed = md.decomposed /\ md'.stall = md.stall
      /\ LearnedState(md') = LearnedState(md) /\ md'.fps = md.fps
  BY DEF LoopInv, LoopTypeOK, Metadata, LearnedState, Scanned
<1>2. LoopTypeOK'
  BY <1>1, NoMetadataIsMetadata DEF LoopInv, LoopTypeOK, Scanned, user, direct, bounds, Cycling
<1>3. ScannedSince'
  BY <1>1 DEF LoopInv, ScannedSince, Scanned, user
<1>4. EditsAreNumbered' /\ FirstPartFirst'
  BY DEF LoopInv, EditsAreNumbered, FirstPartFirst, Scanned, user, direct, bounds
<1>5. dec = NoMetadata /\ tun = NoMetadata /\ dec' = dec /\ tun' = tun
  BY DEF LoopInv, StagesReturnCopies, Scanned
<1>6. StagesReturnCopies'
  BY <1>1, <1>5 DEF LoopInv, StagesReturnCopies, CopiesOf, Scanned
<1>7. StallsAreFlat'
  BY <1>1, <1>5 DEF LoopInv, StallsAreFlat, Scanned, Waiting
<1>8. DirectIsUnlearned' /\ DirectIsClamped'
  BY <1>1, <1>5 DEF LoopInv, DirectIsUnlearned, DirectIsClamped, Scanned, Unlearned,
                    LearnedState, Cycling
<1> QED BY <1>2, <1>3, <1>4, <1>6, <1>7, <1>8 DEF LoopInv

\* While the decision is out, the counter in the metadata is of flat scores.
LEMMA StallIsFlat ==
  ASSUME LoopInv, dec = NoMetadata
  PROVE  md \in Metadata /\ flat \in Nat /\ md.stall <= flat /\ md.stall < Patience
BY DEF LoopInv, LoopTypeOK, StallsAreFlat

LEMMA DecideInv == ASSUME LoopInv, Decide PROVE LoopInv'
<1>1. /\ dec = NoMetadata /\ dec' \in Evaluate(md) /\ flat' = FlatAfter(md)
      /\ pc = "stages" /\ pc' = pc /\ md' = md /\ tun' = tun /\ saved' = saved
      /\ manifest' = manifest /\ command' = command
  BY DEF Decide
<1>2. Evaluation(md, dec', flat')
  BY <1>1, StallIsFlat, Evaluated
<1>3. dec' # NoMetadata
  BY <1>2, EvaluatedIsSomething
<1>4. LoopTypeOK'
  BY <1>1, <1>2 DEF LoopInv, LoopTypeOK, Decide, user, direct, bounds, Evaluation
<1>5. ScannedSince' /\ EditsAreNumbered' /\ FirstPartFirst'
  BY DEF LoopInv, ScannedSince, EditsAreNumbered, FirstPartFirst, Decide, user, direct, bounds
<1>6. StagesReturnCopies'
  BY <1>1, <1>2 DEF LoopInv, StagesReturnCopies, CopiesOf, Evaluation
<1>7. StallsAreFlat'
  BY <1>1, <1>2, <1>3 DEF LoopInv, StallsAreFlat, Evaluation, Waiting
<1>8. DirectIsUnlearned' /\ DirectIsClamped'
  BY <1>1, <1>2 DEF LoopInv, DirectIsUnlearned, DirectIsClamped, Unlearned,
                    LearnedState, Evaluation, IsDirect
<1> QED BY <1>4, <1>5, <1>6, <1>7, <1>8 DEF LoopInv

LEMMA TuneParametersInv == ASSUME LoopInv, TuneParameters PROVE LoopInv'
<1>1. /\ tun' \in Tune(md) /\ pc = "stages" /\ pc' = pc /\ md' = md /\ dec' = dec
      /\ manifest' = manifest /\ command' = command /\ md \in Metadata
  BY DEF TuneParameters, LoopInv, LoopTypeOK
<1>2. Tuning(md, tun')
  BY <1>1, TunedKeeps
<1>3. LoopTypeOK'
  BY <1>1, <1>2 DEF LoopInv, LoopTypeOK, TuneParameters, user, direct, bounds, Tuning
<1>4. ScannedSince' /\ EditsAreNumbered' /\ FirstPartFirst'
  BY DEF LoopInv, ScannedSince, EditsAreNumbered, FirstPartFirst, TuneParameters, user,
         direct, bounds
<1>5. StagesReturnCopies'
  BY <1>1, <1>2 DEF LoopInv, StagesReturnCopies, CopiesOf, Tuning
<1>6. StallsAreFlat'
  BY <1>1 DEF LoopInv, StallsAreFlat, TuneParameters
<1>7. DirectIsUnlearned' /\ DirectIsClamped'
  BY <1>1, <1>2 DEF LoopInv, DirectIsUnlearned, DirectIsClamped, Unlearned,
                    LearnedState, Tuning, IsDirect
<1> QED BY <1>3, <1>4, <1>5, <1>6, <1>7 DEF LoopInv

\* The strategy of the blueprint replaces what was decided, not what was learned.
LEMMA HonoredIs ==
  ASSUME NEW m \in Metadata, NEW b \in BOOLEAN
  PROVE  /\ Honored(m, b) \in Metadata /\ Honored(m, b).fps = m.fps
         /\ Honored(m, b).decomposed = m.decomposed /\ Honored(m, b).kinetic = m.kinetic
         /\ Honored(m, b).stall = m.stall /\ LearnedState(Honored(m, b)) = LearnedState(m)
<1>1. CASE b
  BY <1>1 DEF Honored, Metadata, Strategies, Modes, Labels, LearnedState
<1>2. CASE ~b
  BY <1>2 DEF Honored
<1> QED BY <1>1, <1>2

\* The merged metadata tells of the same cycle and counts what the decision
\* stage has counted.
LEMMA Merged ==
  ASSUME LoopInv, Merge
  PROVE  /\ md' \in Metadata /\ md'.fps = md.fps /\ md'.decomposed = {}
         /\ md'.stall = dec.stall /\ md'.kinetic = dec.kinetic
         /\ command = "build" => Unlearned(md')
<1>1. /\ md \in Metadata /\ dec \in Metadata /\ tun \in Metadata
      /\ dec # NoMetadata /\ tun # NoMetadata /\ pc = "stages"
  BY DEF LoopInv, LoopTypeOK, Merge
<1>2. /\ dec.fps = md.fps /\ tun.fps = md.fps /\ dec.decomposed = {} /\ tun.decomposed = {}
      /\ md.decomposed = {} /\ dec.kinetic \in BOOLEAN
  BY <1>1 DEF LoopInv, StagesReturnCopies, CopiesOf
<1> DEFINE u == Updated(md, tun)
           w == Updated(u, dec)
<1>3. /\ u \in Metadata /\ u.fps \in {md.fps, tun.fps}
      /\ u.decomposed \in {md.decomposed, tun.decomposed}
      /\ u.traj \in {md.traj, tun.traj} /\ u.front \in {md.front, tun.front}
  BY <1>1, UpdatedIs
<1> HIDE DEF u
<1>4. /\ w \in Metadata /\ w.fps \in {u.fps, dec.fps}
      /\ w.decomposed \in {u.decomposed, dec.decomposed}
      /\ w.traj \in {u.traj, dec.traj} /\ w.front \in {u.front, dec.front}
      /\ w.stall = dec.stall /\ w.kinetic = dec.kinetic
  BY <1>1, <1>2, <1>3, UpdatedIs
<1>5. PICK b \in BOOLEAN : md' = Honored(w, b)
  BY DEF Merge, u
<1> HIDE DEF w
<1>6. /\ md' \in Metadata /\ md'.fps = w.fps /\ md'.decomposed = w.decomposed
      /\ md'.stall = w.stall /\ md'.kinetic = w.kinetic
      /\ LearnedState(md') = LearnedState(w)
  BY <1>4, <1>5, HonoredIs
<1>7. /\ md'.fps = md.fps /\ md'.decomposed = {}
      /\ md'.stall = dec.stall /\ md'.kinetic = dec.kinetic
  BY <1>2, <1>3, <1>4, <1>6
<1>8. ASSUME command = "build" PROVE Unlearned(md')
  <2>1. Unlearned(md) /\ Unlearned(dec) /\ Unlearned(tun)
    BY <1>1, <1>8 DEF LoopInv, DirectIsUnlearned, Cycling
  <2>2. /\ md.traj = manifest.traj /\ dec.traj = manifest.traj /\ tun.traj = manifest.traj
        /\ md.front = manifest.front /\ dec.front = manifest.front
        /\ tun.front = manifest.front /\ dec.stall = manifest.stall
    BY <2>1 DEF Unlearned, LearnedState
  <2>3. w.traj = manifest.traj /\ w.front = manifest.front /\ w.stall = manifest.stall
    BY <1>3, <1>4, <2>2
  <2> QED BY <1>6, <2>3 DEF Unlearned, LearnedState
<1> QED BY <1>6, <1>7, <1>8

LEMMA MergeInv == ASSUME LoopInv, Merge PROVE LoopInv'
<1>1. /\ md' \in Metadata /\ md'.fps = md.fps /\ md'.decomposed = {}
      /\ md'.stall = dec.stall /\ md'.kinetic = dec.kinetic
      /\ (command = "build" => Unlearned(md'))
  BY Merged
<1>2. /\ pc = "stages" /\ pc' \in {"synthesize", "check"} /\ dec # NoMetadata
      /\ dec' = NoMetadata /\ tun' = NoMetadata /\ manifest' = manifest
      /\ command' = command /\ flat' = flat /\ saved' = saved
  BY DEF Merge
<1>3. LoopTypeOK'
  BY <1>1, <1>2, NoMetadataIsMetadata
  DEF LoopInv, LoopTypeOK, Merge, user, direct, bounds, Cycling
<1>4. ScannedSince'
  BY <1>1, <1>2 DEF LoopInv, ScannedSince, Merge, user
<1>5. EditsAreNumbered' /\ FirstPartFirst'
  BY <1>2 DEF LoopInv, EditsAreNumbered, FirstPartFirst, Merge, user, direct, bounds
<1>6. StagesReturnCopies'
  BY <1>1, <1>2 DEF StagesReturnCopies, CopiesOf
<1>7. StallsAreFlat'
  <2>1. NoMetadata.stall < Patience
    BY NoMetadataIsMetadata, LoopConstants DEF LoopAssumption
  <2> QED BY <1>1, <1>2, <2>1 DEF LoopInv, StallsAreFlat, Waiting
<1>8. DirectIsUnlearned' /\ DirectIsClamped'
  BY <1>1, <1>2 DEF DirectIsUnlearned, DirectIsClamped, Unlearned, LearnedState
<1> QED BY <1>3, <1>4, <1>5, <1>6, <1>7, <1>8 DEF LoopInv

\* The gate of the neural synthesis evaluates once more.
LEMMA SynthesizeInv == ASSUME LoopInv, Synthesize PROVE LoopInv'
<1>1. /\ pc = "synthesize" /\ pc' = "check" /\ md' \in Evaluate(md) /\ flat' = FlatAfter(md)
      /\ manifest' = manifest /\ command' = command /\ saved' = saved
  BY DEF Synthesize
<1>2. dec = NoMetadata /\ tun = NoMetadata /\ dec' = dec /\ tun' = tun
  BY DEF LoopInv, StagesReturnCopies, Synthesize
<1>3. Evaluation(md, md', flat')
  BY <1>1, <1>2, StallIsFlat, Evaluated
<1>4. LoopTypeOK'
  BY <1>1, <1>3 DEF LoopInv, LoopTypeOK, Synthesize, user, direct, bounds, Cycling, Evaluation
<1>5. ScannedSince'
  BY <1>1, <1>3 DEF LoopInv, ScannedSince, Synthesize, user, Evaluation
<1>6. EditsAreNumbered' /\ FirstPartFirst'
  BY DEF LoopInv, EditsAreNumbered, FirstPartFirst, Synthesize, user, direct, bounds
<1>7. StagesReturnCopies'
  BY <1>1, <1>2, <1>3 DEF LoopInv, StagesReturnCopies, CopiesOf, Evaluation
<1>8. StallsAreFlat'
  BY <1>1, <1>2, <1>3 DEF LoopInv, StallsAreFlat, Waiting, Evaluation
<1>9. DirectIsUnlearned' /\ DirectIsClamped'
  BY <1>1, <1>2, <1>3 DEF LoopInv, DirectIsUnlearned, DirectIsClamped, Unlearned,
                          LearnedState, Evaluation, IsDirect, Cycling
<1> QED BY <1>4, <1>5, <1>6, <1>7, <1>8, <1>9 DEF LoopInv

\* What the clamp of a direct pass leaves as it was.
LEMMA ClampedIs ==
  ASSUME NEW m \in Metadata
  PROVE  /\ Clamped(m) \in Metadata /\ Clamped(m).fps = m.fps
         /\ Clamped(m).decomposed = m.decomposed /\ Clamped(m).stall = m.stall
         /\ LearnedState(Clamped(m)) = LearnedState(m)
         /\ IsDirect => /\ Clamped(m).resolved = "DIRECT_COMPILE"
                        /\ Clamped(m).mode = "direct_compile"
<1>1. CASE IsDirect
  BY <1>1 DEF Clamped, Metadata, Strategies, Modes, Labels, LearnedState
<1>2. CASE ~IsDirect
  BY <1>2 DEF Clamped
<1> QED BY <1>1, <1>2

\* A workspace that is as it was at the snapshot has been so at every scan.
LEMMA CheckBoundaryInv == ASSUME LoopInv, CheckBoundary PROVE LoopInv'
<1>1. CASE ~BoundaryHolds
  <2>1. Exit /\ UNCHANGED <<user, manifest, command, saved, direct, builds, edits>>
    BY <1>1 DEF CheckBoundary, bounds
  <2> QED BY <2>1, ExitInv
<1>2. CASE BoundaryHolds
  <2>1. /\ pc = "check" /\ pc' = "compile" /\ md' = Clamped(md) /\ ws = before
        /\ UNCHANGED <<user, manifest, command, saved, direct, bounds>>
        /\ UNCHANGED <<cycle, before, todo, dec, tun, flat, written>>
    BY <1>2 DEF CheckBoundary, BoundaryHolds
  <2>2. dec = NoMetadata /\ tun = NoMetadata /\ dec' = dec /\ tun' = tun
    BY <2>1 DEF LoopInv, StagesReturnCopies
  <2>3. /\ md' \in Metadata /\ md'.fps = md.fps
        /\ md'.decomposed = md.decomposed /\ md'.stall = md.stall
        /\ LearnedState(md') = LearnedState(md)
        /\ IsDirect => md'.resolved = "DIRECT_COMPILE" /\ md'.mode = "direct_compile"
    BY <2>1, ClampedIs DEF LoopInv, LoopTypeOK
  <2>4. LoopTypeOK'
    BY <2>1, <2>3 DEF LoopInv, LoopTypeOK, user, direct, bounds, Cycling
  <2>5. ScannedSince'
    <3>1. ASSUME NEW g \in DOMAIN md.fps PROVE md.fps[g] = Hash(before[g])
      <4>1. PICK S \in SUBSET Files : md.fps \in [S -> Stamp]
        BY DEF LoopInv, LoopTypeOK, Metadata, Stamps
      <4>2. g \in Files
        BY <4>1
      <4>3. PICK v \in before[g] .. ws[g] : md.fps[g] = Hash(v)
        BY <2>1 DEF LoopInv, ScannedSince
      <4>4. before[g] \in Nat /\ ws[g] = before[g]
        BY <2>1, <4>2 DEF LoopInv, LoopTypeOK
      <4>5. v = before[g]
        BY <4>3, <4>4
      <4> QED BY <4>3, <4>5
    <3> QED BY <2>1, <2>3, <3>1 DEF ScannedSince
  <2>6. EditsAreNumbered' /\ FirstPartFirst'
    BY <2>1 DEF LoopInv, EditsAreNumbered, FirstPartFirst, user, direct, bounds
  <2>7. StagesReturnCopies'
    BY <2>1, <2>2, <2>3 DEF LoopInv, StagesReturnCopies, CopiesOf
  <2>8. StallsAreFlat'
    BY <2>1, <2>2, <2>3 DEF LoopInv, StallsAreFlat, Waiting
  <2>9. DirectIsUnlearned'
    BY <2>1, <2>2, <2>3 DEF LoopInv, DirectIsUnlearned, Unlearned, LearnedState, Cycling
  <2>10. DirectIsClamped'
    BY <2>1, <2>3 DEF LoopInv, StagesReturnCopies, DirectIsClamped, IsDirect
  <2> QED BY <2>4, <2>5, <2>6, <2>7, <2>8, <2>9, <2>10 DEF LoopInv
<1> QED BY <1>1, <1>2

\* The outputs of a pass are the targets', the matrix and the package, which
\* have no file in common.
LEMMA OutputsAdd ==
  ASSUME NEW T \in SUBSET Targets, NEW F \in SUBSET {"matrix"},
         NEW P \in SUBSET {"module", "index"}
  PROVE  /\ Cardinality(P \cup T \cup F) = Cardinality(T) + Cardinality(F) + Cardinality(P)
         /\ Cardinality(T) + Cardinality(F) + Cardinality(P) \in Nat
<1>1. IsFiniteSet(Targets) /\ Targets \cap {"module", "index", "matrix"} = {}
  BY LoopConstants DEF LoopAssumption
<1>2. IsFiniteSet({"matrix"}) /\ IsFiniteSet({"module", "index"})
  <2>1. IsFiniteSet({"matrix"}) /\ IsFiniteSet({"module"}) /\ IsFiniteSet({"index"})
    BY FS_Singleton
  <2>2. IsFiniteSet({"module"} \cup {"index"})
    BY <2>1, FS_Union
  <2>3. {"module"} \cup {"index"} = {"module", "index"}
    OBVIOUS
  <2> QED BY <2>1, <2>2, <2>3
<1>3. IsFiniteSet(T) /\ IsFiniteSet(F) /\ IsFiniteSet(P)
  BY <1>1, <1>2, FS_Subset
<1>4. P \cap T = {} /\ (P \cup T) \cap F = {}
  BY <1>1
<1>5. /\ Cardinality(T) \in Nat /\ Cardinality(F) \in Nat /\ Cardinality(P) \in Nat
  BY <1>3, FS_CardinalityType
<1>6. /\ IsFiniteSet(P \cup T)
      /\ Cardinality(P \cup T) = Cardinality(P) + Cardinality(T) - Cardinality(P \cap T)
  BY <1>3, FS_Union
<1>7. Cardinality((P \cup T) \cup F)
        = Cardinality(P \cup T) + Cardinality(F) - Cardinality((P \cup T) \cap F)
  BY <1>3, <1>6, FS_Union
<1>8. Cardinality({}) = 0
  BY FS_EmptySet
<1>9. PICK t \in Nat, x \in Nat, p \in Nat :
        t = Cardinality(T) /\ x = Cardinality(F) /\ p = Cardinality(P)
  BY <1>5
<1>10. Cardinality(P \cup T) = p + t
  <2>1. Cardinality(P \cup T) = p + t - 0
    BY <1>4, <1>6, <1>8, <1>9
  <2> QED BY <1>9, <2>1
<1>11. Cardinality((P \cup T) \cup F) = (p + t) + x
  <2>1. Cardinality((P \cup T) \cup F) = (p + t) + x - 0
    BY <1>4, <1>7, <1>8, <1>9, <1>10
  <2> QED BY <2>1
<1> QED BY <1>9, <1>11

LEMMA CompileInv == ASSUME LoopInv, Compile PROVE LoopInv'
<1> DEFINE With(files) == IF Decomposes(md) THEN [md EXCEPT !.decomposed = files] ELSE md
<1>1. PICK cut \in BOOLEAN :
        /\ md' = [With(Decomposed(md, cut)) EXCEPT !.compiled = Counted(With(Decomposed(md, cut)))]
        /\ written' = Decomposed(md, cut) \cup present \cup Frozen
  BY DEF Compile
<1>2. PICK files \in SUBSET {"module", "index"} : files = Decomposed(md, cut)
  BY DEF Decomposed
<1> DEFINE m == With(files)
<1>3. /\ md \in Metadata /\ present \in SUBSET Targets /\ Frozen \in SUBSET {"matrix"}
      /\ md.decomposed = {} /\ pc = "compile" /\ pc' = "persist"
      /\ UNCHANGED <<user, manifest, command, cycle, before, todo, dec, tun, flat, saved>>
      /\ UNCHANGED <<direct, bounds>>
  BY DEF LoopInv, LoopTypeOK, StagesReturnCopies, Compile, Frozen
<1>4. /\ m \in Metadata /\ m.fps = md.fps /\ m.stall = md.stall /\ m.decomposed = files
      /\ LearnedState(m) = LearnedState(md) /\ m.resolved = md.resolved /\ m.mode = md.mode
  <2>1. CASE Decomposes(md)
    BY <1>2, <1>3, <2>1 DEF Metadata, LearnedState
  <2>2. CASE ~Decomposes(md)
    BY <1>2, <1>3, <2>2 DEF Decomposed
  <2> QED BY <2>1, <2>2
<1> HIDE DEF m
<1>5. md' = [m EXCEPT !.compiled = Counted(m)] /\ written' = files \cup present \cup Frozen
  BY <1>1, <1>2 DEF m
<1>6. Counted(m) = Cardinality(written') /\ Counted(m) \in Nat
  BY <1>3, <1>4, <1>5, OutputsAdd DEF Counted
<1>7. /\ md' \in Metadata /\ md'.fps = md.fps /\ md'.stall = md.stall
      /\ md'.decomposed = files /\ md'.compiled = Cardinality(written')
      /\ LearnedState(md') = LearnedState(md)
      /\ md'.resolved = md.resolved /\ md'.mode = md.mode
  BY <1>4, <1>5, <1>6 DEF Metadata, LearnedState
<1>8. dec = NoMetadata /\ tun = NoMetadata /\ dec' = dec /\ tun' = tun
  BY <1>3 DEF LoopInv, StagesReturnCopies
<1>9. LoopTypeOK'
  BY <1>3, <1>7 DEF LoopInv, LoopTypeOK, user, direct, bounds, Cycling
<1>10. ScannedSince' /\ EditsAreNumbered' /\ FirstPartFirst'
  BY <1>3, <1>7 DEF LoopInv, ScannedSince, EditsAreNumbered, FirstPartFirst, user, direct, bounds
<1>11. StagesReturnCopies'
  BY <1>3, <1>7, <1>8 DEF StagesReturnCopies, CopiesOf
<1>12. StallsAreFlat'
  BY <1>3, <1>7, <1>8 DEF LoopInv, StallsAreFlat, Waiting
<1>13. DirectIsUnlearned'
  BY <1>3, <1>7, <1>8 DEF LoopInv, DirectIsUnlearned, Unlearned, LearnedState, Cycling
<1>14. DirectIsClamped'
  <2>1. ASSUME command = "build" PROVE files = {}
    BY <1>2, <1>3, <2>1 DEF LoopInv, DirectIsClamped, Decomposed, Decomposes
  <2> QED BY <1>3, <1>7, <2>1 DEF LoopInv, DirectIsClamped
<1> QED BY <1>9, <1>10, <1>11, <1>12, <1>13, <1>14 DEF LoopInv

LEMMA OpenManifestInv == ASSUME LoopInv, OpenManifest PROVE LoopInv'
<1>1. /\ pc = "persist" /\ pc' = "saving" /\ manifest' = [manifest EXCEPT !.whole = FALSE]
      /\ UNCHANGED <<user, command, loop, direct, bounds>>
  BY DEF OpenManifest
<1>2. /\ manifest' \in Manifest /\ manifest'.stall = manifest.stall
      /\ LearnedState(manifest') = LearnedState(manifest)
  BY <1>1 DEF LoopInv, LoopTypeOK, Manifest, LearnedState
<1>3. LoopTypeOK' /\ EditsAreNumbered' /\ FirstPartFirst'
  BY <1>1, <1>2 DEF LoopInv, LoopTypeOK, EditsAreNumbered, FirstPartFirst, user, loop, direct,
                    bounds, Cycling
<1>4. ScannedSince' /\ StagesReturnCopies'
  BY <1>1 DEF LoopInv, ScannedSince, StagesReturnCopies, CopiesOf, loop
<1>5. StallsAreFlat'
  BY <1>1, <1>2 DEF LoopInv, StallsAreFlat, loop, Waiting
<1>6. DirectIsUnlearned' /\ DirectIsClamped'
  BY <1>1, <1>2 DEF LoopInv, DirectIsUnlearned, DirectIsClamped, Unlearned, LearnedState,
                    loop, Cycling
<1> QED BY <1>3, <1>4, <1>5, <1>6 DEF LoopInv

LEMMA PersistInv == ASSUME LoopInv, Persist PROVE LoopInv'
<1>1. /\ pc = "saving" /\ pc' = "cycle" /\ manifest' = Learned(md) /\ saved' = flat
      /\ md' = Carried(md) /\ dec' = dec /\ tun' = tun /\ flat' = flat
      /\ UNCHANGED <<user, command, before, todo, written, direct, bounds>>
  BY DEF Persist
<1>2. md \in Metadata /\ manifest \in Manifest
  BY DEF LoopInv, LoopTypeOK
<1>3. /\ manifest' \in Manifest /\ manifest'.stall = md.stall
      /\ LearnedState(manifest') = LearnedState(md)
  BY <1>1, <1>2 DEF Learned, Manifest, Metadata, LearnedState
<1>4. /\ md' \in Metadata /\ md'.stall = md.stall /\ LearnedState(md') = LearnedState(md)
  <2>1. WriteGate(md) \in BOOLEAN
    BY DEF WriteGate
  <2>2. Context(manifest) \in Metadata
    BY <1>2, ContextIsMetadata
  <2> QED BY <1>1, <1>2, <2>1, <2>2 DEF Carried, Metadata, LearnedState
<1>5. dec = NoMetadata /\ tun = NoMetadata
  BY <1>1 DEF LoopInv, StagesReturnCopies
<1>6. LoopTypeOK' /\ EditsAreNumbered' /\ FirstPartFirst'
  BY <1>1, <1>3, <1>4 DEF LoopInv, LoopTypeOK, EditsAreNumbered, FirstPartFirst, user, direct,
                          bounds, Cycling
<1>7. ScannedSince' /\ StagesReturnCopies'
  BY <1>1, <1>5 DEF ScannedSince, StagesReturnCopies, CopiesOf
<1>8. StallsAreFlat'
  BY <1>1, <1>3, <1>4, <1>5 DEF LoopInv, StallsAreFlat, Waiting
<1>9. DirectIsUnlearned' /\ DirectIsClamped'
  BY <1>1, <1>3, <1>4, <1>5 DEF DirectIsUnlearned, DirectIsClamped, Unlearned, LearnedState
<1> QED BY <1>6, <1>7, <1>8, <1>9 DEF LoopInv

\* Between builds nothing is known, whatever a direct compilation does.
LEMMA OutsideInv ==
  ASSUME LoopInv, UNCHANGED <<user, manifest, loop, edits>>,
         pc \in Waiting, pc' \in Waiting, parts' \in [{1, 2} -> Nat], builds' \in Nat,
         FirstPartFirst'
  PROVE  LoopInv'
<1>1. dec = NoMetadata /\ tun = NoMetadata
  BY DEF LoopInv, StagesReturnCopies, Waiting
<1>2. LoopTypeOK' /\ EditsAreNumbered'
  BY DEF LoopInv, LoopTypeOK, EditsAreNumbered, user, loop
<1>3. ScannedSince' /\ StagesReturnCopies'
  BY <1>1 DEF ScannedSince, StagesReturnCopies, CopiesOf, loop, Waiting
<1>4. StallsAreFlat'
  BY <1>1 DEF LoopInv, StallsAreFlat, loop, Waiting
<1>5. DirectIsUnlearned' /\ DirectIsClamped'
  BY DEF DirectIsUnlearned, DirectIsClamped, Waiting, Cycling
<1> QED BY <1>2, <1>3, <1>4, <1>5 DEF LoopInv

LEMMA DirectInv ==
  ASSUME LoopInv, StartDirect \/ WriteParts \/ FailAttempt \/ Heal \/ Report
  PROVE  LoopInv'
<1>1. builds \in Nat /\ parts \in [{1, 2} -> Nat] /\ FirstPartFirst
  BY DEF LoopInv, LoopTypeOK
<1>2. CASE StartDirect
  <2>1. FirstPartFirst' /\ builds' \in Nat
    BY <1>1, <1>2 DEF StartDirect, FirstPartFirst
  <2> QED BY <1>1, <1>2, <2>1, OutsideInv DEF StartDirect, Waiting
<1>3. CASE WriteParts
  <2>1. PICK split \in BOOLEAN :
          parts' = [p \in {1, 2} |-> IF p = 1 \/ split THEN builds ELSE parts[p]]
    BY <1>3 DEF WriteParts
  <2>2. parts' \in [{1, 2} -> Nat] /\ parts'[1] = builds
    BY <1>1, <2>1
  <2>3. FirstPartFirst'
    BY <1>1, <1>3, <2>2 DEF WriteParts, FirstPartFirst, bounds
  <2> QED BY <1>1, <1>3, <2>2, <2>3, OutsideInv DEF WriteParts, Waiting, bounds
<1>4. CASE FailAttempt
  <2>1. parts' \in [{1, 2} -> Nat]
    BY <1>1, <1>4 DEF FailAttempt
  <2>2. FirstPartFirst'
    BY <1>1, <1>4 DEF FailAttempt, FirstPartFirst, bounds
  <2> QED BY <1>1, <1>4, <2>1, <2>2, OutsideInv DEF FailAttempt, Waiting, bounds
<1>5. CASE Heal
  <2>1. FirstPartFirst'
    BY <1>1, <1>5 DEF Heal, FirstPartFirst, bounds
  <2> QED BY <1>1, <1>5, <2>1, OutsideInv DEF Heal, Waiting, bounds
<1>6. CASE Report
  <2>1. FirstPartFirst'
    BY <1>1, <1>6 DEF Report, Reported, FirstPartFirst, bounds
  <2> QED BY <1>1, <1>6, <2>1, OutsideInv DEF Report, Waiting, bounds
<1> QED BY <1>2, <1>3, <1>4, <1>5, <1>6

\* An edit has a number that no file has had.
LEMMA EditInv == ASSUME LoopInv, NEW f \in Files, Edit(f) PROVE LoopInv'
<1>1. /\ edits' = edits + 1 /\ ws' = [ws EXCEPT ![f] = edits + 1]
      /\ UNCHANGED <<present, opt, manifest, pc, command, loop, direct, builds, kills>>
  BY DEF Edit
<1>2. ws \in [Files -> Nat] /\ before \in [Files -> Nat] /\ edits \in Nat
  BY DEF LoopInv, LoopTypeOK
<1>3. \A g \in Files : ws'[g] \in Nat /\ ws[g] <= ws'[g] /\ ws'[g] <= edits' /\ before[g] <= ws'[g]
  <2> SUFFICES ASSUME NEW g \in Files
               PROVE  ws'[g] \in Nat /\ ws[g] <= ws'[g] /\ ws'[g] <= edits' /\ before[g] <= ws'[g]
    OBVIOUS
  <2>1. before[g] <= ws[g] /\ ws[g] <= edits
    BY DEF LoopInv, EditsAreNumbered
  <2>2. PICK b \in Nat, w \in Nat, e \in Nat : b = before[g] /\ w = ws[g] /\ e = edits
    BY <1>2
  <2>3. ws'[g] = IF g = f THEN e + 1 ELSE w
    BY <1>1, <1>2, <2>2
  <2> QED BY <1>1, <2>1, <2>2, <2>3
<1>4. LoopTypeOK'
  BY <1>1, <1>2 DEF LoopInv, LoopTypeOK, loop, direct
<1>5. EditsAreNumbered' /\ FirstPartFirst'
  BY <1>1, <1>3 DEF LoopInv, EditsAreNumbered, FirstPartFirst, loop, direct
<1>6. ScannedSince'
  <2>1. ASSUME NEW g \in DOMAIN md.fps, NEW v \in before[g] .. ws[g]
        PROVE  v \in before[g] .. ws'[g]
    <3>1. PICK S \in SUBSET Files : md.fps \in [S -> Stamp]
      BY DEF LoopInv, LoopTypeOK, Metadata, Stamps
    <3>2. g \in Files
      BY <3>1
    <3>3. PICK b \in Nat, w \in Nat, x \in Nat : b = before[g] /\ w = ws[g] /\ x = ws'[g] /\ w <= x
      BY <1>2, <1>3, <3>2
    <3> QED BY <3>3
  <2> QED BY <1>1, <2>1 DEF LoopInv, ScannedSince, loop
<1>7. StagesReturnCopies'
  BY <1>1 DEF LoopInv, StagesReturnCopies, CopiesOf, loop
<1>8. StallsAreFlat'
  BY <1>1 DEF LoopInv, StallsAreFlat, loop
<1>9. DirectIsUnlearned' /\ DirectIsClamped'
  BY <1>1 DEF LoopInv, DirectIsUnlearned, DirectIsClamped, Unlearned, LearnedState, loop
<1> QED BY <1>4, <1>5, <1>6, <1>7, <1>8, <1>9 DEF LoopInv

LEMMA StutterInv == ASSUME LoopInv, UNCHANGED vars PROVE LoopInv'
<1> USE DEF vars, user, loop, direct, bounds
<1>1. LoopTypeOK' /\ EditsAreNumbered' /\ FirstPartFirst'
  BY DEF LoopInv, LoopTypeOK, EditsAreNumbered, FirstPartFirst
<1>2. ScannedSince' /\ StagesReturnCopies'
  BY DEF LoopInv, ScannedSince, StagesReturnCopies, CopiesOf
<1>3. StallsAreFlat'
  BY DEF LoopInv, StallsAreFlat
<1>4. DirectIsUnlearned' /\ DirectIsClamped'
  BY DEF LoopInv, DirectIsUnlearned, DirectIsClamped, Unlearned, LearnedState
<1> QED BY <1>1, <1>2, <1>3, <1>4 DEF LoopInv

LEMMA LoopStepInv == LoopInv /\ [Next]_vars => LoopInv'
<1> SUFFICES ASSUME LoopInv, [Next]_vars PROVE LoopInv'
  OBVIOUS
<1>1. CASE StartBuild
  BY <1>1, StartBuildInv
<1>2. CASE BeginCycle
  BY <1>2, BeginCycleInv
<1>3. CASE \E f \in Files : ScanFile(f)
  BY <1>3, ScanFileInv
<1>4. CASE Scanned
  BY <1>4, ScannedInv
<1>5. CASE Decide
  BY <1>5, DecideInv
<1>6. CASE TuneParameters
  BY <1>6, TuneParametersInv
<1>7. CASE Merge
  BY <1>7, MergeInv
<1>8. CASE Synthesize
  BY <1>8, SynthesizeInv
<1>9. CASE CheckBoundary
  BY <1>9, CheckBoundaryInv
<1>10. CASE Compile
  BY <1>10, CompileInv
<1>11. CASE OpenManifest
  BY <1>11, OpenManifestInv
<1>12. CASE Persist
  BY <1>12, PersistInv
<1>13. CASE EndBuild \/ Kill
  <2>1. Exit /\ UNCHANGED <<user, manifest, command, saved, direct, builds, edits>>
    BY <1>13 DEF EndBuild, Kill, bounds
  <2> QED BY <2>1, ExitInv
<1>14. CASE StartDirect \/ WriteParts \/ FailAttempt \/ Heal \/ Report
  BY <1>14, DirectInv
<1>15. CASE \E f \in Files : Edit(f)
  BY <1>15, EditInv
<1>16. CASE UNCHANGED vars
  BY <1>16, StutterInv
<1> QED BY <1>1, <1>2, <1>3, <1>4, <1>5, <1>6, <1>7, <1>8, <1>9, <1>10, <1>11, <1>12,
           <1>13, <1>14, <1>15, <1>16 DEF Next, Step

\* Fairness apart, a behaviour is one of Next's steps.
LEMMA SafetyOfSpec == Spec => Init /\ [][Next]_vars
BY PTL DEF Spec

LEMMA LoopInvariant == Spec => []LoopInv
<1>1. Init => LoopInv
  BY InitInv
<1>2. LoopInv /\ [Next]_vars => LoopInv'
  BY LoopStepInv
<1> QED BY <1>1, <1>2, SafetyOfSpec, PTL

-----------------------------------------------------------------------------
(* The theorems.                                                           *)

\* A cycle tells of itself: what it saves are the fingerprints of the workspace
\* at its beginning and what it counts are the outputs it wrote, and a direct
\* compilation reports the part it wrote first (run_build, run_direct_compile).
THEOREM CyclesTellOfThemselves == Spec => []CycleIsOfItself
<1>1. LoopInv => CycleIsOfItself
  BY DEF LoopInv, ScannedSince, StagesReturnCopies, FirstPartFirst, CycleIsOfItself
<1> QED BY <1>1, LoopInvariant, PTL

\* An alarm of a stage or of the gate is one of the counter.
LEMMA AlarmStep ==
  ASSUME LoopInv, LoopInv', [Next]_vars
  PROVE  /\ dec' # dec /\ dec'.kinetic = TRUE => flat' >= Patience
         /\ pc = "synthesize" /\ md'.kinetic = TRUE => flat' >= Patience
         /\ manifest'.stall < Patience
<1>1. NoMetadata.kinetic # TRUE
  BY NoMetadataIsMetadata, LoopConstants DEF LoopAssumption
<1>2. ASSUME dec'.kinetic = TRUE PROVE flat' >= Patience
  BY <1>1, <1>2 DEF LoopInv, StallsAreFlat
<1>3. ASSUME pc = "synthesize", md'.kinetic = TRUE PROVE flat' >= Patience
  <2>1. pc' \in {"synthesize", "check"} \/ md' = NoMetadata
    <3>1. CASE Synthesize
      BY <3>1 DEF Synthesize
    <3>2. CASE Kill
      BY <3>2 DEF Kill, Exit
    <3>3. CASE \E f \in Files : Edit(f)
      BY <1>3, <3>3 DEF Edit
    <3>4. CASE UNCHANGED vars
      BY <1>3, <3>4 DEF vars
    <3> QED BY <1>3, <3>1, <3>2, <3>3, <3>4
        DEF Next, Step, StartBuild, StartDirect, BeginCycle, ScanFile, Scanned, Decide,
            TuneParameters, Merge, CheckBoundary, Compile, OpenManifest, Persist, EndBuild,
            WriteParts, FailAttempt, Heal, Report
  <2>2. pc' \in {"synthesize", "check"}
    BY <1>1, <1>3, <2>1
  <2> QED BY <1>3, <2>2 DEF LoopInv, StallsAreFlat
<1>4. manifest'.stall < Patience
  BY DEF LoopInv, StallsAreFlat
<1> QED BY <1>2, <1>3, <1>4

\* A build command changes of the manifest what it did not learn.
LEMMA UnlearnedStep ==
  ASSUME LoopInv, [Next]_vars, IsDirect, manifest' # manifest
  PROVE  /\ LearnedState(manifest') = LearnedState(manifest)
         /\ md.resolved = "DIRECT_COMPILE" /\ md.mode = "direct_compile"
         /\ md.decomposed = {}
<1>1. OpenManifest \/ Persist
  BY DEF Next, Step, StartBuild, StartDirect, BeginCycle, ScanFile, Scanned, Decide,
         TuneParameters, Merge, Synthesize, CheckBoundary, Compile, EndBuild, WriteParts,
         FailAttempt, Heal, Report, Kill, Edit, vars
<1>2. pc \in {"persist", "saving"} /\ command = "build"
  BY <1>1 DEF OpenManifest, Persist, IsDirect
<1>3. Unlearned(md)
  BY <1>2 DEF LoopInv, DirectIsUnlearned, Cycling
<1>4. LearnedState(manifest') = LearnedState(manifest)
  <2>1. CASE OpenManifest
    BY <2>1 DEF OpenManifest, LearnedState, LoopInv, LoopTypeOK, Manifest
  <2>2. CASE Persist
    <3>1. manifest' = Learned(md)
      BY <2>2 DEF Persist
    <3>2. LearnedState(manifest') = LearnedState(md)
      BY <3>1 DEF Learned, LearnedState
    <3> QED BY <1>3, <3>2 DEF Unlearned
  <2> QED BY <1>1, <2>1, <2>2
<1> QED BY <1>2, <1>4 DEF LoopInv, DirectIsClamped

\* What the loop learns is true: an alarm of the decision tree comes after
\* Patience flat scores, of this build and those it continues, and is saved at
\* most once, and a build command changes no state that others have learned
\* (HeuristicStateMachine.record_score, _persist_orchestrator_state).
THEOREM LearnedIsTrue == Spec => LearningIsHonest
<1>1. LoopInv /\ LoopInv' /\ [Next]_vars =>
        [/\ dec' # dec /\ dec'.kinetic = TRUE => flat' >= Patience
         /\ pc = "synthesize" /\ md'.kinetic = TRUE => flat' >= Patience
         /\ manifest'.stall < Patience]_vars
  BY AlarmStep
<1>2. LoopInv /\ [Next]_vars =>
        [IsDirect /\ manifest' # manifest =>
           /\ LearnedState(manifest') = LearnedState(manifest)
           /\ md.resolved = "DIRECT_COMPILE" /\ md.mode = "direct_compile"
           /\ md.decomposed = {}]_vars
  BY UnlearnedStep
<1>3. Spec => AlarmMeansPlateau
  BY <1>1, LoopInvariant, SafetyOfSpec, PTL DEF AlarmMeansPlateau
<1>4. Spec => DirectBuildsLearnNothing
  BY <1>2, LoopInvariant, SafetyOfSpec, PTL DEF DirectBuildsLearnNothing
<1> QED BY <1>3, <1>4 DEF LearningIsHonest

-----------------------------------------------------------------------------
(* The evolution loop.                                                     *)

Genes == Genomes \cup Fallback \cup {None}
Blueprints == [genome : Genes, rest : {"whole", "lost"}, parses : BOOLEAN]
Entries == [genome : Genes, gain : Gains \cup {0}, status : {"PASSED", "REVERTED"}]

\* No genome was measured twice.
Distinct(s) == \A i, j \in DOMAIN s : s[i].genome = s[j].genome => i = j
Explores(s) ==
    \A i \in DOMAIN s : s[i].genome \in Domain(found) => s[i].genome \in explored

LedgerInv ==
    /\ bp \in Blueprints /\ found \in Blueprints /\ backup \in Blueprints /\ genome \in Genes
    /\ chain \in Seq(Entries) /\ Distinct(chain)
    /\ disk = Torn \/ (disk \in Seq(Entries) /\ Distinct(disk))
    /\ since \in Nat
    /\ stage # "stopped" => since <= Len(chain) /\ Explores(chain)
    /\ stage = "measure" => genome \in Domain(found) \ explored

\* The blueprint this run found with another genome.
Named(g) == [genome |-> g, rest |-> found.rest, parses |-> found.parses]

\* Of the first n entries, those of this run that are kept, and the blueprint
\* that the last of them names.
Kept(n) == {k \in since + 1 .. n : Keeps(chain[k], found)}
IsVetted(b, n) ==
    \/ Kept(n) = {} /\ b = found
    \/ \E k \in Kept(n) : (\A j \in Kept(n) : j <= k) /\ b = Named(chain[k].genome)

BlueprintInv ==
    found.parses =>
        /\ stage \notin {"stopped", "measure", "settle"} => IsVetted(bp, Len(chain))
        /\ stage = "measure" => IsVetted(backup, Len(chain)) /\ bp = Named(genome)
        /\ stage = "settle" =>
              /\ Len(chain) > since /\ bp = Named(chain[Len(chain)].genome)
              /\ IsVetted(backup, Len(chain) - 1)

Mutating == stage \in {"mutate", "heal", "rollback"}
IsTree(t) == t = [f \in EngineFiles |-> t[f]]
Alike(t, u) == Read(t) = Read(u)
Listed(f) == f \in ToSet(mutated)

\* What is in the backups is the good text, and what is not has it.  Until the
\* rollback, a file with a snapshot that is not listed as mutated has the text
\* of the snapshot, unless a write of it failed.
SourcesInv ==
    /\ IsTree(src) /\ IsTree(good)
    /\ ~Mutating => DOMAIN backups = {} /\ mutated = <<>> /\ unwritten = {}
    /\ stage \in {"mutate", "heal"} =>
          /\ mutated \in Seq(DOMAIN backups) /\ unwritten \subseteq DOMAIN backups
          /\ \A f \in DOMAIN backups : Listed(f) \/ f \in unwritten \/ Alike(backups[f], src[f])
    /\ stage # "stopped" =>
          \A f \in EngineFiles \ unsaved :
              IF f \in DOMAIN backups THEN Alike(backups[f], good[f]) ELSE Alike(src[f], good[f])
-----------------------------------------------------------------------------
LEMMA LedgerInit == EvolveInit => LedgerInv
<1> SUFFICES ASSUME EvolveInit PROVE LedgerInv
  OBVIOUS
<1>1. PICK g \in Genomes : bp = [genome |-> g, rest |-> "whole", parses |-> TRUE]
  BY DEF EvolveInit
<1>2. bp \in Blueprints
  BY <1>1 DEF Blueprints, Genes
<1>3. <<>> \in Seq(Entries) /\ Distinct(<<>>)
  BY DEF Distinct
<1> QED BY <1>2, <1>3 DEF EvolveInit, Idle, LedgerInv, Genes

\* Steps that leave the ledger alone and the blueprint as it is.
Rests ==
    /\ UNCHANGED <<bp, disk, chain, explored, genome, backup, found, since>>
    /\ stage # "stopped" /\ stage' # "measure"

LEMMA LedgerRests == ASSUME LedgerInv, Rests PROVE LedgerInv'
<1>1. Domain(found)' = Domain(found)
  BY DEF Rests, Domain, Readable
<1>2. (Distinct(chain)' <=> Distinct(chain)) /\ (Distinct(disk)' <=> Distinct(disk)) /\ Torn' = Torn
  BY DEF Rests, Distinct, Torn
<1>3. Explores(chain) => Explores(chain)'
  BY <1>1 DEF Rests, Explores
<1>4. Blueprints' = Blueprints /\ Entries' = Entries /\ Genes' = Genes
  BY DEF Blueprints, Entries, Genes
<1> QED BY <1>2, <1>3 DEF Rests, LedgerInv

LEMMA WhatRests ==
    ASSUME Features \/ Breed \/ Select \/ Mutate \/ Build \/ HealMutated \/ Rollback \/ RolledBack
    PROVE  Rests
<1>1. CASE Features
  BY <1>1 DEF Features, Rests, run, history
<1>2. CASE Breed
  BY <1>2 DEF Breed, Rests, run, history
<1>3. CASE Select
  BY <1>3 DEF Select, Rests, run, history
<1>4. CASE Mutate
  BY <1>4 DEF Mutate, Rests, run, history
<1>5. CASE Build
  BY <1>5 DEF Build, Keep, Finish, Rests, run, history
<1>6. CASE HealMutated
  <2>1. \/ \E tree : Finish(tree)
        \/ stage' = "rollback" /\ UNCHANGED <<bp, disk, run, faults, runs, history>>
    BY <1>6 DEF HealMutated, Keep
  <2> QED BY <1>6, <2>1 DEF HealMutated, Finish, Rests, run, history
<1>7. CASE Rollback
  BY <1>7 DEF Rollback, Rests
<1>8. CASE RolledBack
  BY <1>8 DEF RolledBack, Finish, Rests
<1> QED BY <1>1, <1>2, <1>3, <1>4, <1>5, <1>6, <1>7, <1>8

\* What is written into the blueprint is one.
LEMMA WrittenIsBlueprint ==
    ASSUME NEW b \in Blueprints, NEW g \in Genes
    PROVE  Written(b, g) \in Blueprints
<1>1. [b EXCEPT !.genome = g] \in Blueprints
  BY DEF Blueprints
<1>2. [genome |-> g, rest |-> "lost", parses |-> TRUE] \in Blueprints
  BY DEF Blueprints
<1> QED BY <1>1, <1>2 DEF Written

LEMMA LedgerStep == ASSUME LedgerInv, [EvolveNext]_evolveVars PROVE LedgerInv'
<1> USE DEF LedgerInv
<1>1. ASSUME Start PROVE LedgerInv'
  <2>1. chain' \in Seq(Entries) /\ Distinct(chain')
    BY <1>1 DEF Start, Distinct
  <2>2. ASSUME NEW i \in DOMAIN chain', chain'[i].genome \in Domain(bp)
        PROVE  chain'[i].genome \in explored'
    <3>1. chain'[i] \in ToSet(chain')
      BY DEF ToSet
    <3>2. Signature(chain'[i].genome, bp) = chain'[i].genome
      BY <2>2 DEF Signature
    <3> QED BY <1>1, <3>1, <3>2 DEF Start
  <2>3. found' = bp /\ Domain(found)' = Domain(bp)
    BY <1>1 DEF Start, Domain, Readable
  <2>4. Explores(chain)'
    BY <2>2, <2>3 DEF Explores
  <2>5. since' = Len(chain') /\ stage' = "features" /\ UNCHANGED <<bp, disk, backup, genome>>
    BY <1>1 DEF Start
  <2>6. since' \in Nat /\ since' <= Len(chain')
    BY <2>1, <2>5
  <2>7. Distinct(chain)' /\ (Distinct(disk) => Distinct(disk)') /\ Torn' = Torn
    BY <2>1, <2>5 DEF Distinct, Torn
  <2> QED BY <2>1, <2>3, <2>4, <2>5, <2>6, <2>7
<1>2. ASSUME Candidate PROVE LedgerInv'
  <2>1. PICK g \in Domain(found) :
          \/ UNCHANGED <<bp, stage, genome, backup>>
          \/ g \notin explored /\ genome' = g /\ backup' = bp /\ bp' = Written(bp, g) /\ stage' = "measure"
    BY <1>2 DEF Candidate
  <2>2. UNCHANGED <<disk, chain, explored, found, since>> /\ stage = "candidate"
    BY <1>2 DEF Candidate, history
  <2>3. g \in Genes /\ Written(bp, g) \in Blueprints
    <3>1. g \in Genes
      BY <2>1 DEF Domain, Genes
    <3> QED BY <3>1, WrittenIsBlueprint
  <2>4. Domain(found)' = Domain(found)
    BY <2>2 DEF Domain, Readable
  <2>5. /\ (Distinct(chain) => Distinct(chain)') /\ (Distinct(disk) => Distinct(disk)') /\ Torn' = Torn
        /\ Explores(chain)'
    BY <2>2, <2>4 DEF Distinct, Torn, Explores
  <2>6. stage' = "measure" => genome' \in Domain(found) \ explored
    BY <2>1, <2>2
  <2>7. bp' \in Blueprints /\ backup' \in Blueprints /\ genome' \in Genes
    BY <2>1, <2>3
  <2> QED BY <2>2, <2>4, <2>5, <2>6, <2>7
<1>3. ASSUME Measure PROVE LedgerInv'
  <2>1. PICK m \in [gain : Gains \cup {0}, status : {"PASSED", "REVERTED"}] :
          chain' = Append(chain, Entry(genome, m))
    BY <1>3 DEF Measure
  <2>11. Entry(genome, m) \in Entries /\ Entry(genome, m).genome = genome
    BY DEF Entries, Entry
  <2>2. PICK e \in Entries : e = Entry(genome, m) /\ e.genome = genome
    BY <2>11
  <2>3. /\ chain' \in Seq(Entries) /\ Len(chain') = Len(chain) + 1
        /\ \A i \in DOMAIN chain' : i = Len(chain) + 1 \/ (i \in DOMAIN chain /\ chain'[i] = chain[i])
        /\ chain'[Len(chain) + 1] = e
    BY <2>1, <2>2
  <2>4. /\ stage = "measure" /\ stage' = "settle" /\ explored' = explored \cup {genome}
        /\ UNCHANGED <<bp, backup, genome, found, since>> /\ disk' \in {disk, chain'}
    BY <1>3 DEF Measure, history
  <2>5. \A i \in DOMAIN chain : chain[i].genome # genome
    BY <2>4 DEF Explores
  <2>6. Distinct(chain')
    BY <2>2, <2>3, <2>5 DEF Distinct
  <2>7. Domain(found)' = Domain(found)
    BY <2>4 DEF Domain, Readable
  <2>8. Explores(chain)'
    BY <2>2, <2>3, <2>4, <2>7 DEF Explores
  <2>9. Distinct(chain)' /\ (disk' = Torn' \/ (disk' \in Seq(Entries) /\ Distinct(disk)'))
    BY <2>3, <2>4, <2>6 DEF Distinct, Torn
  <2>10. since <= Len(chain')
    BY <2>3, <2>4
  <2> QED BY <2>3, <2>4, <2>8, <2>9, <2>10
<1>4. ASSUME Settle PROVE LedgerInv'
  <2>1. /\ stage = "settle" /\ stage' = "candidate" /\ genome' = None /\ bp' \in {bp, backup} /\ backup' = found
        /\ UNCHANGED <<disk, chain, explored, found, since>>
    BY <1>4 DEF Settle, history
  <2>2. Domain(found)' = Domain(found) /\ None \in Genes
    BY <2>1 DEF Domain, Readable, Genes
  <2>3. /\ (Distinct(chain) => Distinct(chain)') /\ (Distinct(disk) => Distinct(disk)') /\ Torn' = Torn
        /\ Explores(chain)' /\ None' = None
    BY <2>1, <2>2 DEF Distinct, Torn, Explores, None
  <2> QED BY <2>1, <2>2, <2>3
<1>5. ASSUME Forget, bp' \in Blueprints, disk' \in {disk, Torn} PROVE LedgerInv'
  <2>1. stage' = "stopped" /\ chain' = <<>> /\ genome' = None /\ backup' = bp' /\ found' = bp' /\ since' = 0
    BY <1>5 DEF Forget
  <2>2. None \in Genes /\ <<>> \in Seq(Entries) /\ Distinct(chain)'
    BY <2>1 DEF Genes, Distinct
  <2>3. disk' = Torn' \/ (disk' \in Seq(Entries) /\ Distinct(disk)')
    BY <1>5 DEF Distinct, Torn
  <2> QED BY <1>5, <2>1, <2>2, <2>3
<1>6. ASSUME Finished PROVE LedgerInv'
  BY <1>5, <1>6 DEF Finished
<1>7. ASSUME KillRun PROVE LedgerInv'
  <2>1. Empty \in Blueprints /\ Part \in Blueprints
    BY DEF Empty, Part, Blueprints, Genes
  <2>2. Forget /\ bp' \in {bp, Empty, Part} /\ disk' \in {disk, Torn}
    BY <1>7 DEF KillRun
  <2> QED BY <1>5, <2>1, <2>2
<1>8. ASSUME UNCHANGED evolveVars PROVE LedgerInv'
  <2>1. UNCHANGED <<bp, disk, chain, explored, genome, backup, found, since, stage>>
    BY <1>8 DEF evolveVars, run, history
  <2>2. Domain(found)' = Domain(found)
    BY <2>1 DEF Domain, Readable
  <2>3. /\ (Distinct(chain) => Distinct(chain)') /\ (Distinct(disk) => Distinct(disk)') /\ Torn' = Torn
        /\ Explores(chain) => Explores(chain)'
    BY <2>1, <2>2 DEF Distinct, Torn, Explores
  <2> QED BY <2>1, <2>2, <2>3
<1> QED
  BY <1>1, <1>2, <1>3, <1>4, <1>6, <1>7, <1>8, WhatRests, LedgerRests DEF EvolveNext
-----------------------------------------------------------------------------
\* What is vetted does not depend on what the steps of a run change, and the
\* chain may grow behind the first n entries.
LEMMA VettedStays ==
    ASSUME LedgerInv, NEW n \in Nat, UNCHANGED <<found, since>>,
           \A k \in 1 .. n : chain'[k] = chain[k]
    PROVE  \A b : IsVetted(b, n) => IsVetted(b, n)'
<1> SUFFICES ASSUME NEW b, IsVetted(b, n) PROVE IsVetted(b, n)'
  OBVIOUS
<1>1. PICK m \in Nat : m = since
  BY DEF LedgerInv
<1>2. \A k \in m + 1 .. n : k \in 1 .. n
  BY <1>1
<1>3. \A k \in m + 1 .. n : Keeps(chain[k], found)' <=> Keeps(chain[k], found)
  BY <1>2 DEF Keeps, Threshold, Readable
<1>4. Kept(n)' = Kept(n)
  BY <1>1, <1>3 DEF Kept
<1>5. \A g : Named(g)' = Named(g)
  BY DEF Named
<1>6. \A k \in Kept(n) : chain'[k] = chain[k]
  BY <1>1, <1>2 DEF Kept
<1>7. CASE Kept(n) = {} /\ b = found
  BY <1>4, <1>7 DEF IsVetted
<1>8. CASE \E k \in Kept(n) : (\A j \in Kept(n) : j <= k) /\ b = Named(chain[k].genome)
  <2>1. PICK k \in Kept(n) : (\A j \in Kept(n) : j <= k) /\ b = Named(chain[k].genome)
    BY <1>8
  <2>2. b = Named(chain'[k].genome)
    BY <1>6, <2>1
  <2>3. b = Named(chain[k].genome)'
    BY <1>5, <2>2 DEF Named
  <2> QED BY <1>4, <2>1, <2>3 DEF IsVetted
<1> QED BY <1>7, <1>8 DEF IsVetted

\* An entry that is kept is the last that is; one that is not changes nothing.
LEMMA LastIsVetted ==
    ASSUME LedgerInv, NEW n \in Nat, since < n
    PROVE  /\ Keeps(chain[n], found) => IsVetted(Named(chain[n].genome), n)
           /\ ~Keeps(chain[n], found) => \A b : IsVetted(b, n - 1) => IsVetted(b, n)
<1>1. PICK m \in Nat : m = since
  BY DEF LedgerInv
<1>2. \A k \in Kept(n) : k <= n
  BY <1>1 DEF Kept
<1>3. n \in m + 1 .. n
  BY <1>1
<1>4. Keeps(chain[n], found) => n \in Kept(n)
  BY <1>1, <1>3 DEF Kept
<1>5. ~Keeps(chain[n], found) => Kept(n) = Kept(n - 1)
  BY <1>1 DEF Kept
<1> QED BY <1>2, <1>4, <1>5 DEF IsVetted

\* What is vetted is the blueprint of this run but for its genome.
LEMMA VettedIsNamed ==
    ASSUME LedgerInv, NEW n \in Nat, NEW b, IsVetted(b, n)
    PROVE  \E g : b = Named(g)
<1>1. found = Named(found.genome)
  BY DEF LedgerInv, Blueprints, Named
<1> QED BY <1>1 DEF IsVetted

LEMMA GenomeOnly == ASSUME NEW g, NEW h PROVE [Named(h) EXCEPT !.genome = g] = Named(g)
<1>1. PICK r, p : r = found.rest /\ p = found.parses
  OBVIOUS
<1>2. [[genome |-> h, rest |-> r, parses |-> p] EXCEPT !.genome = g] = [genome |-> g, rest |-> r, parses |-> p]
  OBVIOUS
<1> QED BY <1>1, <1>2 DEF Named

LEMMA NamedIsWritten ==
    ASSUME found.parses, NEW g, NEW h
    PROVE  /\ Written(Named(h), g) = Named(g)
           /\ \A e : Keeps(e, Named(h)) <=> Keeps(e, found)
<1>1. Written(Named(h), g) = Named(g)
  BY GenomeOnly DEF Written, Named
<1>2. Readable(Named(h)) <=> Readable(found)
  BY DEF Named, Readable
<1> QED BY <1>1, <1>2 DEF Keeps, Threshold

LEMMA BlueprintInit == EvolveInit => BlueprintInv
  BY DEF EvolveInit, BlueprintInv

\* A step that leaves chain and blueprint alone.
LEMMA BlueprintRests ==
    ASSUME LedgerInv, BlueprintInv, UNCHANGED <<bp, chain, genome, backup, found, since>>,
           \/ stage' = stage
           \/ stage \notin {"stopped", "measure", "settle"} /\ stage' \notin {"measure", "settle"}
    PROVE  BlueprintInv'
<1>1. PICK n \in Nat : n = Len(chain)
  BY DEF LedgerInv
<1>2. \A b : IsVetted(b, n) => IsVetted(b, n)'
  BY VettedStays
<1>3. n > since => n - 1 \in Nat
  BY DEF LedgerInv
<1>4. n > since => \A b : IsVetted(b, n - 1) => IsVetted(b, n - 1)'
  BY <1>3, VettedStays
<1>5. (\A g : Named(g)' = Named(g)) /\ Len(chain)' = n
  BY <1>1 DEF Named
<1> QED BY <1>1, <1>2, <1>4, <1>5 DEF BlueprintInv

LEMMA BlueprintStep == ASSUME LedgerInv, BlueprintInv, [EvolveNext]_evolveVars PROVE BlueprintInv'
<1>0. chain \in Seq(Entries) /\ since \in Nat /\ Len(chain) \in Nat
  BY DEF LedgerInv
<1>1. ASSUME Start PROVE BlueprintInv'
  <2>1. stage' = "features" /\ since' = Len(chain') /\ bp' = found' /\ chain' \in Seq(Entries)
    BY <1>1 DEF Start, LedgerInv
  <2>2. PICK n \in Nat : n = Len(chain') /\ n = since'
    BY <2>1
  <2>3. Kept(n)' = {}
    BY <2>2 DEF Kept
  <2>4. IsVetted(bp, n)'
    BY <2>1, <2>3 DEF IsVetted
  <2> QED BY <2>1, <2>2, <2>4 DEF BlueprintInv
<1>2. ASSUME Candidate PROVE BlueprintInv'
  <2>1. PICK g :
          \/ UNCHANGED <<bp, stage, genome, backup>>
          \/ genome' = g /\ backup' = bp /\ bp' = Written(bp, g) /\ stage' = "measure"
    BY <1>2 DEF Candidate
  <2>2. UNCHANGED <<chain, found, since>> /\ stage = "candidate"
    BY <1>2 DEF Candidate, history
  <2>3. CASE UNCHANGED <<bp, stage, genome, backup>>
    BY <2>2, <2>3, BlueprintRests
  <2>4. CASE genome' = g /\ backup' = bp /\ bp' = Written(bp, g) /\ stage' = "measure"
    <3> SUFFICES ASSUME found.parses PROVE BlueprintInv'
      BY <2>2 DEF BlueprintInv
    <3>1. PICK n \in Nat : n = Len(chain)
      BY <1>0
    <3>2. IsVetted(bp, n)
      BY <2>2, <3>1 DEF BlueprintInv
    <3>3. IsVetted(backup, n)'
      BY <2>2, <2>4, <3>2, VettedStays
    <3>4. PICK h : bp = Named(h)
      BY <3>2, VettedIsNamed
    <3>5. bp' = Named(g)
      BY <2>4, <3>4, NamedIsWritten
    <3>6. bp' = Named(genome)'
      BY <2>2, <2>4, <3>5 DEF Named
    <3> QED BY <2>2, <2>4, <3>1, <3>3, <3>6 DEF BlueprintInv
  <2> QED BY <2>1, <2>3, <2>4
<1>3. ASSUME Measure PROVE BlueprintInv'
  <2>1. PICK m \in [gain : Gains \cup {0}, status : {"PASSED", "REVERTED"}] :
          chain' = Append(chain, Entry(genome, m))
    BY <1>3 DEF Measure
  <2>2. stage = "measure" /\ stage' = "settle" /\ UNCHANGED <<bp, backup, genome, found, since>>
    BY <1>3 DEF Measure, history
  <2> SUFFICES ASSUME found.parses PROVE BlueprintInv'
    BY <2>2 DEF BlueprintInv
  <2>3. PICK n \in Nat : n = Len(chain) /\ since <= n
    BY <1>0, <2>2 DEF LedgerInv
  <2>4. Entry(genome, m) \in Entries /\ Entry(genome, m).genome = genome
    BY DEF Entry, Entries, LedgerInv
  <2>5. /\ Len(chain') = n + 1 /\ chain'[n + 1].genome = genome
        /\ \A k \in 1 .. n : chain'[k] = chain[k]
    BY <1>0, <2>1, <2>3, <2>4
  <2>6. IsVetted(backup, n) /\ bp = Named(genome)
    BY <2>2, <2>3 DEF BlueprintInv
  <2>7. IsVetted(backup, n)'
    BY <2>2, <2>5, <2>6, VettedStays
  <2>8. Len(chain') > since' /\ Len(chain') - 1 = n
    BY <1>0, <2>2, <2>3, <2>5
  <2>9. bp' = Named(chain[Len(chain)].genome)'
    BY <2>2, <2>5, <2>6 DEF Named
  <2>10. IsVetted(backup, Len(chain) - 1)'
    BY <2>7, <2>8
  <2> QED BY <2>2, <2>8, <2>9, <2>10 DEF BlueprintInv
<1>4. ASSUME Settle PROVE BlueprintInv'
  <2>1. /\ stage = "settle" /\ stage' = "candidate" /\ UNCHANGED <<chain, found, since>>
        /\ IF Keeps(Last(chain), bp) THEN bp' = bp ELSE bp' = backup
    BY <1>4 DEF Settle, history
  <2> SUFFICES ASSUME found.parses PROVE BlueprintInv'
    BY <2>1 DEF BlueprintInv
  <2>2. PICK n \in Nat : n = Len(chain) /\ since < n
    BY <1>0, <2>1 DEF BlueprintInv
  <2>3. PICK g : g = chain[n].genome /\ bp = Named(g) /\ Last(chain) = chain[n]
    BY <2>1, <2>2 DEF BlueprintInv, Last
  <2>4. Keeps(Last(chain), bp) <=> Keeps(chain[n], found)
    BY <2>3, NamedIsWritten
  <2>5. IsVetted(backup, n - 1)
    BY <2>1, <2>2 DEF BlueprintInv
  <2>6. IsVetted(bp', n)
    BY <2>1, <2>2, <2>3, <2>4, <2>5, LastIsVetted
  <2>7. IsVetted(bp, n)'
    BY <2>1, <2>6, VettedStays
  <2> QED BY <2>1, <2>2, <2>7 DEF BlueprintInv
<1>5. ASSUME Features \/ Breed \/ Select \/ Mutate \/ Build \/ HealMutated \/ Rollback \/ RolledBack
      PROVE  BlueprintInv'
  <2>1. stage \notin {"stopped", "measure", "settle"} /\ stage' \notin {"measure", "settle"}
    BY <1>5 DEF Features, Breed, Select, Mutate, Build, HealMutated, Rollback, RolledBack, Keep, Finish
  <2> QED BY <1>5, <2>1, WhatRests, BlueprintRests DEF Rests
<1>6. ASSUME Finished \/ KillRun PROVE BlueprintInv'
  BY <1>6 DEF Finished, KillRun, Forget, BlueprintInv
<1>7. ASSUME UNCHANGED evolveVars PROVE BlueprintInv'
  BY <1>7, BlueprintRests DEF evolveVars, run, history
<1> QED BY <1>1, <1>2, <1>3, <1>4, <1>5, <1>6, <1>7 DEF EvolveNext
LEMMA VettedShows == ASSUME LedgerInv, BlueprintInv PROVE BlueprintIsVetted
<1> SUFFICES ASSUME stage \in {"candidate", "mutate", "heal", "rollback"}, found.parses
             PROVE  LET kept == {k \in since + 1 .. Len(chain) : Keeps(chain[k], found)}
                    IN /\ bp = IF kept = {} THEN found ELSE [found EXCEPT !.genome = chain[Max(kept)].genome]
                       /\ IsInjective([k \in DOMAIN chain |-> chain[k].genome])
  BY DEF BlueprintIsVetted
<1>1. PICK n \in Nat : n = Len(chain)
  BY DEF LedgerInv
<1>2. IsVetted(bp, n)
  BY <1>1 DEF BlueprintInv
<1>3. IsInjective([k \in DOMAIN chain |-> chain[k].genome])
  BY DEF LedgerInv, Distinct, IsInjective
<1>4. ASSUME NEW g PROVE [found EXCEPT !.genome = g] = Named(g)
  <2>1. PICK h : found = Named(h)
    BY DEF LedgerInv, Blueprints, Named
  <2> QED BY <2>1, GenomeOnly
<1>5. Kept(n) \in SUBSET Int
  BY DEF Kept, LedgerInv
<1>6. ASSUME NEW k \in Kept(n), \A j \in Kept(n) : j <= k PROVE k = Max(Kept(n))
  <2>1. \A x \in Kept(n) : (\A j \in Kept(n) : x >= j) => x = k
    BY <1>5, <1>6
  <2>2. \A j \in Kept(n) : k >= j
    BY <1>5, <1>6
  <2> QED BY <1>6, <2>1, <2>2 DEF Max
<1>7. bp = IF Kept(n) = {} THEN found ELSE [found EXCEPT !.genome = chain[Max(Kept(n))].genome]
  BY <1>2, <1>4, <1>6 DEF IsVetted
<1> QED BY <1>1, <1>3, <1>7 DEF Kept

-----------------------------------------------------------------------------
LEMMA SourcesInit == EvolveInit => SourcesInv
<1> SUFFICES ASSUME EvolveInit PROVE SourcesInv
  OBVIOUS
<1>1. PICK ends : src = [f \in EngineFiles |-> [rules |-> {}, healed |-> FALSE, torn |-> FALSE, eol |-> ends[f]]]
  BY DEF EvolveInit
<1>2. good = src /\ stage = "stopped" /\ backups = <<>> /\ mutated = <<>> /\ unwritten = {}
  BY DEF EvolveInit, Idle
<1> QED BY <1>1, <1>2 DEF SourcesInv, IsTree, Mutating

LEMMA ReadIsRead == ASSUME NEW t PROVE Read(Read(t)) = Read(t)
  BY DEF Read

\* A step that leaves the sources and the mutator's backups alone.
LEMMA SourcesRest ==
    ASSUME SourcesInv, UNCHANGED <<src, backups, mutated, good, unwritten, unsaved>>,
           \/ stage' = stage
           \/ ~Mutating /\ stage # "stopped" /\ stage' \notin {"heal", "rollback"}
           \/ stage = "mutate" /\ stage' = "heal"
    PROVE  SourcesInv'
<1>1. \A f : Listed(f)' <=> Listed(f)
  BY DEF Listed
<1>2. (IsTree(src)' <=> IsTree(src)) /\ (IsTree(good)' <=> IsTree(good))
  BY DEF IsTree
<1>3. mutated = <<>> /\ unwritten = {} => mutated \in Seq(DOMAIN backups) /\ unwritten \subseteq DOMAIN backups
  OBVIOUS
<1> QED BY <1>1, <1>2, <1>3 DEF SourcesInv, Mutating

\* The generation ends with a tree that is the good one, but for what is not
\* known to be.
LEMMA SourcesFinish ==
    ASSUME SourcesInv, NEW tree, Finish(tree), IsTree(tree), IsTree(good'),
           \A f \in EngineFiles \ unsaved' : Alike(tree[f], good'[f])
    PROVE  SourcesInv'
<1>1. src' = tree /\ backups' = <<>> /\ mutated' = <<>> /\ unwritten' = {} /\ stage' = "breed"
  BY DEF Finish
<1>2. DOMAIN backups' = {}
  BY <1>1
<1> QED BY <1>1, <1>2 DEF SourcesInv, IsTree, Mutating

\* A file that is neither listed as mutated nor torn has its good text.
LEMMA UnlistedAreGood ==
    ASSUME SourcesInv, stage \in {"mutate", "heal"},
           NEW f \in EngineFiles, f \notin unsaved, f \notin unwritten, ~Listed(f)
    PROVE  Alike(src[f], good[f])
<1>1. f \in DOMAIN backups => Alike(backups[f], src[f]) /\ Alike(backups[f], good[f])
  BY DEF SourcesInv
<1>2. f \notin DOMAIN backups => Alike(src[f], good[f])
  BY DEF SourcesInv
<1> QED BY <1>1, <1>2 DEF Alike

\* The mutated files are kept; no other file was touched on the way.
LEMMA SourcesKeep ==
    ASSUME SourcesInv, stage \in {"mutate", "heal"}, NEW tree, Keep(tree), IsTree(tree),
           \A f \in EngineFiles : ~Listed(f) => tree[f] = src[f]
    PROVE  SourcesInv'
<1>1. /\ Finish(tree) /\ good' = [f \in EngineFiles |-> IF f \in ToSet(mutated) THEN tree[f] ELSE good[f]]
      /\ unsaved' = (unsaved \cup unwritten) \ ToSet(mutated)
  BY DEF Keep
<1>2. IsTree(good')
  BY <1>1 DEF IsTree
<1>3. ASSUME NEW f \in EngineFiles, f \notin unsaved' PROVE Alike(tree[f], good'[f])
  <2>1. CASE Listed(f)
    BY <1>1, <2>1 DEF Listed, Alike
  <2>2. CASE ~Listed(f)
    <3>1. f \notin unsaved /\ f \notin unwritten /\ good'[f] = good[f]
      BY <1>1, <1>3, <2>2 DEF Listed
    <3> QED BY <2>2, <3>1, UnlistedAreGood
  <2> QED BY <2>1, <2>2
<1> QED BY <1>1, <1>2, <1>3, SourcesFinish

\* One file is touched by the mutator.
LEMMA SourcesTouch ==
    ASSUME SourcesInv, stage = "mutate", stage' = "mutate", UNCHANGED <<good, unsaved>>,
           NEW f, NEW t, backups' = Saved(f), src' = [src EXCEPT ![f] = t],
           \/ mutated' = Append(mutated, f) /\ unwritten' = unwritten
           \/ mutated' = mutated /\ unwritten' = (IF t = src[f] THEN unwritten ELSE unwritten \cup {f})
    PROVE  SourcesInv'
<1>1. /\ DOMAIN backups' = DOMAIN backups \cup {f}
      /\ \A g \in DOMAIN backups : backups'[g] = backups[g]
      /\ f \notin DOMAIN backups => backups'[f] = Read(src[f])
  BY DEF Saved
<1>2. mutated \in Seq(DOMAIN backups) /\ mutated \in Seq(DOMAIN backups') /\ unwritten \subseteq DOMAIN backups
  BY <1>1 DEF SourcesInv
<1>3. mutated' \in Seq(DOMAIN backups') /\ unwritten' \subseteq DOMAIN backups'
  BY <1>1, <1>2
<1>4. IsTree(src') /\ \A g : g # f => src'[g] = src[g]
  <2>1. DOMAIN src = EngineFiles
    BY DEF SourcesInv, IsTree
  <2>2. IsTree(src')
    BY <2>1 DEF IsTree
  <2>3. ASSUME NEW g, g # f PROVE src'[g] = src[g]
    BY <2>3
  <2> QED BY <2>2, <2>3
<1>5. /\ \A g : Listed(g) => Listed(g)'
      /\ \A g : g \in unwritten => g \in unwritten'
  <2>1. ASSUME NEW g, Listed(g) PROVE Listed(g)'
    <3>1. PICK i \in DOMAIN mutated : mutated[i] = g
      BY <2>1 DEF Listed, ToSet
    <3>2. i \in DOMAIN mutated' /\ mutated'[i] = g
      BY <1>2, <3>1
    <3> QED BY <3>2 DEF Listed, ToSet
  <2> QED BY <2>1
<1>6. Listed(f)' \/ f \in unwritten' \/ (t = src[f] /\ mutated' = mutated /\ unwritten' = unwritten)
  <2>1. CASE mutated' = Append(mutated, f)
    <3>1. Len(mutated) + 1 \in DOMAIN mutated' /\ mutated'[Len(mutated) + 1] = f
      BY <1>2, <2>1
    <3> QED BY <3>1 DEF Listed, ToSet
  <2> QED BY <2>1
<1>7. ASSUME NEW g \in DOMAIN backups'
      PROVE  Listed(g)' \/ g \in unwritten' \/ Alike(backups'[g], src'[g])
  <2>1. CASE g \in DOMAIN backups
    <3>1. Listed(g) \/ g \in unwritten \/ Alike(backups[g], src[g])
      BY <2>1 DEF SourcesInv
    <3>2. CASE g # f
      BY <1>1, <1>4, <1>5, <2>1, <3>1, <3>2
    <3>3. CASE g = f
      <4>1. t = src[f] => src'[f] = src[f]
        BY DEF SourcesInv, IsTree
      <4> QED BY <1>1, <1>5, <1>6, <2>1, <3>1, <3>3, <4>1
    <3> QED BY <3>2, <3>3
  <2>2. CASE g \notin DOMAIN backups
    <3>1. g = f /\ backups'[g] = Read(src[g])
      BY <1>1, <1>7, <2>2
    <3>2. t = src[f] => src'[f] = src[f]
      BY DEF SourcesInv, IsTree
    <3> QED BY <1>6, <3>1, <3>2, ReadIsRead DEF Alike
  <2> QED BY <2>1, <2>2
<1>8. ASSUME NEW g \in EngineFiles, g \notin unsaved
      PROVE  IF g \in DOMAIN backups' THEN Alike(backups'[g], good[g]) ELSE Alike(src'[g], good[g])
  <2>1. IF g \in DOMAIN backups THEN Alike(backups[g], good[g]) ELSE Alike(src[g], good[g])
    BY <1>8 DEF SourcesInv
  <2>2. CASE g \in DOMAIN backups
    BY <1>1, <2>1, <2>2
  <2>3. CASE g \notin DOMAIN backups /\ g = f
    BY <1>1, <2>1, <2>3, ReadIsRead DEF Alike
  <2>4. CASE g \notin DOMAIN backups /\ g # f
    BY <1>1, <1>4, <2>1, <2>4
  <2> QED BY <2>2, <2>3, <2>4
<1>9. IsTree(good') /\ IsTree(good)
  BY DEF SourcesInv, IsTree
<1> HIDE DEF Alike, Listed
<1> QED BY <1>3, <1>4, <1>7, <1>8, <1>9 DEF SourcesInv, Mutating, IsTree

\* One file is written back, or is not.
LEMMA SourcesRestore ==
    ASSUME SourcesInv, stage = "rollback", stage' = "rollback", UNCHANGED good,
           NEW f \in DOMAIN backups, NEW t, src' = [src EXCEPT ![f] = t],
           backups' = [g \in DOMAIN backups \ {f} |-> backups[g]],
           \/ t = backups[f] /\ unsaved' = unsaved
           \/ unsaved' = unsaved \cup {f}
    PROVE  SourcesInv'
<1>1. DOMAIN src = EngineFiles
  BY DEF SourcesInv, IsTree
<1>2. IsTree(src') /\ IsTree(good')
  BY <1>1 DEF SourcesInv, IsTree
<1>3. DOMAIN backups' = DOMAIN backups \ {f} /\ \A g \in DOMAIN backups' : backups'[g] = backups[g]
  OBVIOUS
<1>4. ASSUME NEW g \in EngineFiles, g \notin unsaved'
      PROVE  IF g \in DOMAIN backups' THEN Alike(backups'[g], good[g]) ELSE Alike(src'[g], good[g])
  <2>1. IF g \in DOMAIN backups THEN Alike(backups[g], good[g]) ELSE Alike(src[g], good[g])
    BY <1>4 DEF SourcesInv
  <2>2. CASE g = f
    <3>1. src'[g] = backups[g]
      BY <1>1, <1>4, <2>2
    <3> QED BY <1>3, <2>1, <2>2, <3>1
  <2>3. CASE g # f
    <3>1. src'[g] = src[g]
      BY <2>3
    <3> QED BY <1>3, <2>1, <2>3, <3>1
  <2> QED BY <2>2, <2>3
<1> HIDE DEF Alike
<1> QED BY <1>2, <1>4 DEF SourcesInv, Mutating, IsTree

LEMMA SourcesStep == ASSUME SourcesInv, [EvolveNext]_evolveVars PROVE SourcesInv'
<1>1. ASSUME Start PROVE SourcesInv'
  <2>1. /\ good' = src /\ stage' = "features" /\ ~Mutating /\ unwritten' = {} /\ unsaved' = {}
        /\ UNCHANGED <<src, backups, mutated>>
    BY <1>1 DEF Start, Mutating
  <2>2. DOMAIN backups = {} /\ mutated = <<>>
    BY <2>1 DEF SourcesInv
  <2> QED BY <2>1, <2>2 DEF SourcesInv, IsTree, Mutating, Alike
<1>2. ASSUME Features \/ Breed \/ Candidate \/ Measure \/ Settle \/ Select PROVE SourcesInv'
  <2>1. /\ UNCHANGED <<src, backups, mutated, good, unwritten, unsaved>> /\ stage # "stopped"
        /\ ~Mutating /\ stage' \notin {"heal", "rollback"}
    BY <1>2 DEF Features, Breed, Candidate, Measure, Settle, Select, run, history, Mutating
  <2> QED BY <2>1, SourcesRest
<1>3. ASSUME Mutate PROVE SourcesInv'
  <2>1. stage = "mutate" /\ stage' = stage /\ UNCHANGED <<good, unsaved>>
    BY <1>3 DEF Mutate
  <2>2. PICK f :
          \/ UNCHANGED <<src, backups, mutated, faults, unwritten>>
          \/ \E r \in Rules \ src[f].rules :
                /\ backups' = Saved(f)
                /\ \/ /\ src' = [src EXCEPT ![f] = Mutation(f, r)]
                      /\ mutated' = Append(mutated, f)
                      /\ UNCHANGED <<faults, unwritten>>
                   \/ /\ \E t \in LeftOf(src[f], Mutation(f, r)) :
                          /\ src' = [src EXCEPT ![f] = t]
                          /\ unwritten' = IF t = src[f] THEN unwritten ELSE unwritten \cup {f}
                      /\ UNCHANGED mutated
    BY <1>3 DEF Mutate
  <2>3. CASE UNCHANGED <<src, backups, mutated, faults, unwritten>>
    BY <2>1, <2>3, SourcesRest
  <2>4. ASSUME NEW t, backups' = Saved(f), src' = [src EXCEPT ![f] = t],
               \/ mutated' = Append(mutated, f) /\ unwritten' = unwritten
               \/ mutated' = mutated /\ unwritten' = (IF t = src[f] THEN unwritten ELSE unwritten \cup {f})
        PROVE  SourcesInv'
    BY <2>1, <2>4, SourcesTouch
  <2> QED BY <2>2, <2>3, <2>4
<1>4. ASSUME Build PROVE SourcesInv'
  <2>1. stage = "mutate"
    BY <1>4 DEF Build
  <2>2. CASE mutated = <<>> /\ Finish(src) /\ unsaved' = unsaved \cup unwritten /\ UNCHANGED good
    <3>1. \A f : ~Listed(f)
      BY <2>2 DEF Listed, ToSet
    <3>2. \A f \in EngineFiles \ unsaved' : Alike(src[f], good'[f])
      BY <2>1, <2>2, <3>1, UnlistedAreGood
    <3>3. IsTree(src) /\ IsTree(good')
      BY <2>2 DEF SourcesInv
    <3> QED BY <2>2, <3>2, <3>3, SourcesFinish
  <2>3. CASE mutated # <<>> /\ Keep(src)
    <3>1. IsTree(src)
      BY DEF SourcesInv
    <3> QED BY <2>1, <2>3, <3>1, SourcesKeep
  <2>4. CASE stage' = "heal" /\ UNCHANGED <<bp, disk, src, feature, tomlkit, run, faults, runs, history>>
    BY <2>1, <2>4, SourcesRest DEF run, history
  <2> QED BY <1>4, <2>2, <2>3, <2>4 DEF Build
<1>5. ASSUME HealMutated PROVE SourcesInv'
  <2>1. PICK healed \in SUBSET ToSet(mutated) :
          LET tree == [f \in EngineFiles |-> IF f \in healed THEN [src[f] EXCEPT !.healed = TRUE] ELSE src[f]]
          IN \/ healed # {} /\ Keep(tree)
             \/ /\ src' = tree /\ stage' = "rollback"
                /\ UNCHANGED <<bp, disk, feature, tomlkit, run, faults, runs, history>>
    BY <1>5 DEF HealMutated
  <2>2. PICK tree : tree = [f \in EngineFiles |-> IF f \in healed THEN [src[f] EXCEPT !.healed = TRUE] ELSE src[f]]
    OBVIOUS
  <2>3. IsTree(tree) /\ \A f \in EngineFiles : f \notin healed => tree[f] = src[f]
    BY <2>2 DEF IsTree
  <2>4. stage = "heal"
    BY <1>5 DEF HealMutated
  <2>5. CASE Keep(tree)
    BY <2>3, <2>4, <2>5, SourcesKeep DEF Listed
  <2>6. CASE src' = tree /\ stage' = "rollback"
             /\ UNCHANGED <<bp, disk, feature, tomlkit, run, faults, runs, history>>
    <3>1. UNCHANGED <<backups, mutated, good, unwritten, unsaved>>
      BY <2>6 DEF run, history
    <3>2. healed \subseteq DOMAIN backups
      BY <2>4 DEF SourcesInv, ToSet
    <3>3. ASSUME NEW f \in EngineFiles, f \notin unsaved
          PROVE  IF f \in DOMAIN backups THEN Alike(backups[f], good[f]) ELSE Alike(src'[f], good[f])
      <4>1. IF f \in DOMAIN backups THEN Alike(backups[f], good[f]) ELSE Alike(src[f], good[f])
        BY <2>4, <3>3 DEF SourcesInv
      <4> QED BY <2>3, <2>6, <3>2, <4>1
    <3>4. IsTree(src') /\ IsTree(good')
      BY <2>3, <2>6, <3>1 DEF SourcesInv
    <3> QED BY <2>6, <3>1, <3>3, <3>4 DEF SourcesInv, Mutating, IsTree
  <2> QED BY <2>1, <2>2, <2>5, <2>6
<1>6. ASSUME Rollback PROVE SourcesInv'
  <2>1. PICK f \in DOMAIN backups :
          /\ backups' = [g \in DOMAIN backups \ {f} |-> backups[g]]
          /\ \/ src' = [src EXCEPT ![f] = backups[f]] /\ UNCHANGED <<faults, unsaved>>
             \/ /\ \E t \in LeftOf(src[f], backups[f]) : src' = [src EXCEPT ![f] = t]
                /\ unsaved' = unsaved \cup {f}
    BY <1>6 DEF Rollback
  <2>2. stage = "rollback" /\ stage' = "rollback" /\ UNCHANGED good
    BY <1>6 DEF Rollback
  <2> QED BY <2>1, <2>2, SourcesRestore
<1>7. ASSUME RolledBack PROVE SourcesInv'
  <2>1. Finish(src) /\ UNCHANGED <<good, unsaved>> /\ DOMAIN backups = {} /\ stage = "rollback"
    BY <1>7 DEF RolledBack
  <2>2. \A f \in EngineFiles \ unsaved' : Alike(src[f], good'[f])
    BY <2>1 DEF SourcesInv
  <2>3. IsTree(src) /\ IsTree(good')
    BY <2>1 DEF SourcesInv
  <2> QED BY <2>1, <2>2, <2>3, SourcesFinish
<1>8. ASSUME Finished \/ KillRun PROVE SourcesInv'
  <2>1. /\ stage' = "stopped" /\ mutated' = <<>> /\ backups' = <<>> /\ unwritten' = {}
        /\ good' = src'
    BY <1>8 DEF Finished, KillRun, Forget
  <2>2. DOMAIN src = EngineFiles
    BY DEF SourcesInv, IsTree
  <2>3. IsTree(src')
    <3>1. src' = src \/ \E f, t : src' = [src EXCEPT ![f] = t]
      BY <1>8 DEF Finished, KillRun
    <3>2. ASSUME NEW f, NEW t, src' = [src EXCEPT ![f] = t] PROVE IsTree(src')
      BY <2>2, <3>2 DEF IsTree
    <3>3. src' = src => IsTree(src')
      BY DEF SourcesInv, IsTree
    <3> QED BY <3>1, <3>2, <3>3
  <2>4. DOMAIN backups' = {}
    BY <2>1
  <2> QED BY <2>1, <2>3, <2>4 DEF SourcesInv, IsTree, Mutating
<1>9. ASSUME UNCHANGED evolveVars PROVE SourcesInv'
  BY <1>9, SourcesRest DEF evolveVars, run, history
<1> QED BY <1>1, <1>2, <1>3, <1>4, <1>5, <1>6, <1>7, <1>8, <1>9 DEF EvolveNext

LEMMA SourcesShow == ASSUME SourcesInv PROVE SourcesAreWhole
<1> SUFFICES ASSUME stage \in {"breed", "candidate"}, NEW f \in EngineFiles \ unsaved
             PROVE  Read(src[f]) = Read(good[f])
  BY DEF SourcesAreWhole
<1>1. DOMAIN backups = {}
  BY DEF SourcesInv, Mutating
<1> QED BY <1>1 DEF SourcesInv, Alike

\* What a rejected candidate wrote into the blueprint, or a rejected mutation
\* into the sources, is gone, and nothing is measured twice, whatever is killed,
\* torn or healed (execute_evolution_loop, SourceMutator.rollback).
THEOREM RejectionsLeaveNoTrace == EvolveSpec => []RejectedLeaveNoTrace
<1> DEFINE EvolveInv == LedgerInv /\ BlueprintInv /\ SourcesInv
<1>1. EvolveInit => EvolveInv
  BY LedgerInit, BlueprintInit, SourcesInit
<1>2. EvolveInv /\ [EvolveNext]_evolveVars => EvolveInv'
  BY LedgerStep, BlueprintStep, SourcesStep
<1>3. EvolveInv => RejectedLeaveNoTrace
  BY VettedShows, SourcesShow DEF RejectedLeaveNoTrace
<1> QED BY <1>1, <1>2, <1>3, PTL DEF EvolveSpec

-----------------------------------------------------------------------------
(* The archive of the tuner.                                               *)

Scored(ms) == \A m \in ms : m.fitness \in Vectors
OncePerConfig(ms) == \A m, n \in ms : m.config = n.config => m = n

TunerInv ==
    /\ IsFiniteSet(archive)
    /\ Scored(archive)
    /\ FirstFront(archive) = archive
    /\ OncePerConfig(archive)

LEMMA DominationIsAnOrder ==
    ASSUME TunerAssumption, NEW u \in Vectors, NEW v \in Vectors, NEW w \in Vectors
    PROVE  /\ ~Dominates(u, u)
           /\ Dominates(u, v) /\ Dominates(v, w) => Dominates(u, w)
<1>1. Vectors \subseteq Int \X Int
    BY DEF Vectors, TunerAssumption
<1>2. \A x \in Int \X Int : x[1] \in Int /\ x[2] \in Int /\ x = <<x[1], x[2]>>
    OBVIOUS
<1> QED
    BY <1>1, <1>2 DEF Dominates

\* Whatever is in a pool, something in its first front is at least as good.
LEMMA SomethingUnbeaten ==
    ASSUME TunerAssumption, NEW P, IsFiniteSet(P), Scored(P), NEW m \in P
    PROVE  \E n \in FirstFront(P) : n = m \/ Dominates(n.fitness, m.fitness)
<1> DEFINE D == {n \in P : n = m \/ Dominates(n.fitness, m.fitness)}
           Above(n) == {x \in P : Dominates(x.fitness, n.fitness)}
           T == {Above(n) : n \in D}
<1>1. T # {} /\ \A t \in T : IsFiniteSet(t)
  <2>1. \A n : Above(n) \subseteq P
      OBVIOUS
  <2>2. \A n : IsFiniteSet(Above(n))
      BY <2>1, FS_Subset
  <2> QED
      BY <2>2
<1>2. PICK t \in T : \A u \in T : u \subseteq t => u = t
  <2> HIDE DEF T
  <2> QED
      BY <1>1, SmallestSet
<1>3. PICK n \in D : t = Above(n)
    OBVIOUS
<1>4. ASSUME NEW x \in P, Dominates(x.fitness, n.fitness)
      PROVE  FALSE
  <2>1. \A y \in P : y.fitness \in Vectors
      BY DEF Scored
  <2>2. x \in D
      BY <1>4, <2>1, DominationIsAnOrder
  <2>3. Above(x) \subseteq Above(n)
      BY <1>4, <2>1, DominationIsAnOrder
  <2>4. x \in Above(n) /\ x \notin Above(x)
      BY <1>4, <2>1, DominationIsAnOrder
  <2> QED
      BY <1>2, <1>3, <2>2, <2>3, <2>4
<1> QED
    BY <1>4 DEF FirstFront

Merging(f, rows, front) ==
    f = [k \in 0 .. Size |->
            IF k = 0 THEN archive
            ELSE IF rows[k] \in front THEN Replace(f[k - 1], {rows[k]}) ELSE f[k - 1]]

LEMMA MergingExists ==
    ASSUME TunerAssumption, NEW T, NEW rows \in [1 .. Size -> T], NEW front, archive \subseteq T
    PROVE  \E f \in [0 .. Size -> SUBSET T] : Merging(f, rows, front)
<1> DEFINE g == [k \in 1 .. Size |-> [p \in SUBSET T |->
                    IF rows[k] \in front THEN Replace(p, {rows[k]}) ELSE p]]
<1>1. g \in [1 .. Size -> [SUBSET T -> SUBSET T]]
    BY DEF Replace
<1>2. archive \in SUBSET T /\ Size \in Nat
    BY DEF TunerAssumption
<1>3. PICK f \in [0 .. Size -> SUBSET T] : Iterates(f, archive, g, Size)
  <2> HIDE DEF g
  <2> QED
      BY <1>1, <1>2, IterationExists
<1>4. ASSUME NEW k \in 0 .. Size
      PROVE  f[k] = IF k = 0 THEN archive
                    ELSE IF rows[k] \in front THEN Replace(f[k - 1], {rows[k]}) ELSE f[k - 1]
  <2>1. f[k] = IF k = 0 THEN archive ELSE g[k][f[k - 1]]
    <3> HIDE DEF g
    <3> QED
        BY <1>3 DEF Iterates
  <2>2. k # 0 => k \in 1 .. Size /\ f[k - 1] \in SUBSET T
      BY <1>2
  <2> QED
      BY <2>1, <2>2
<1> QED
    BY <1>4 DEF Merging

\* What a merge keeps: a configuration once, all of the archive that is in the
\* front, and all of the front if a configuration has one vector.
LEMMA MergeKeeps ==
    ASSUME TunerAssumption, NEW T, NEW rows \in [1 .. Size -> T], archive \subseteq T,
           OncePerConfig(archive), NEW front \in SUBSET (archive \cup ToSet(rows))
    PROVE  /\ MergeIntoArchive(rows, front) \subseteq archive \cup ToSet(rows)
           /\ archive \cap front \subseteq MergeIntoArchive(rows, front)
           /\ OncePerConfig(MergeIntoArchive(rows, front))
           /\ OncePerConfig(archive \cup ToSet(rows)) => front \subseteq MergeIntoArchive(rows, front)
<1> DEFINE f == CHOOSE f : Merging(f, rows, front)
           Taken(k) == {rows[j] : j \in {i \in 1 .. k : rows[i] \in front}}
           S == {k \in 0 .. Size :
                    /\ f[k] \subseteq archive \cup ToSet(rows)
                    /\ OncePerConfig(f[k])
                    /\ OncePerConfig(archive \cup ToSet(rows)) => Taken(k) \subseteq f[k]}
<1>1. MergeIntoArchive(rows, front) = Replace(f[Size], archive \cap front)
    BY DEF MergeIntoArchive, Merging
<1>2. Merging(f, rows, front)
    BY MergingExists
<1> HIDE DEF f
<1>3. Size \in Nat
    BY DEF TunerAssumption
<1>4. /\ f[0] = archive
      /\ \A k \in 1 .. Size :
            f[k] = IF rows[k] \in front THEN Replace(f[k - 1], {rows[k]}) ELSE f[k - 1]
  <2>1. \A k \in 0 .. Size :
            f[k] = IF k = 0 THEN archive
                   ELSE IF rows[k] \in front THEN Replace(f[k - 1], {rows[k]}) ELSE f[k - 1]
      BY <1>2 DEF Merging
  <2>2. 0 \in 0 .. Size /\ \A k \in 1 .. Size : k \in 0 .. Size /\ k # 0
      BY <1>3
  <2> QED
      BY <2>1, <2>2
<1>5. ToSet(rows) = {rows[k] : k \in 1 .. Size}
    BY DEF ToSet
<1>6. 0 \in S
    BY <1>3, <1>4
<1>7. ASSUME NEW k \in 1 .. Size, k - 1 \in S PROVE k \in S
  <2>1. /\ f[k - 1] \subseteq archive \cup ToSet(rows) /\ OncePerConfig(f[k - 1])
        /\ OncePerConfig(archive \cup ToSet(rows)) => Taken(k - 1) \subseteq f[k - 1]
      BY <1>7
  <2>2. k \in 0 .. Size /\ rows[k] \in ToSet(rows)
      BY <1>3, <1>5
  <2>3. f[k] \subseteq archive \cup ToSet(rows)
      BY <1>4, <2>1, <2>2 DEF Replace
  <2>4. OncePerConfig(f[k])
    <3>1. OncePerConfig(Replace(f[k - 1], {rows[k]}))
        BY <2>1 DEF Replace, OncePerConfig
    <3> QED
        BY <1>4, <2>1, <3>1
  <2>5. ASSUME OncePerConfig(archive \cup ToSet(rows)), NEW x \in Taken(k)
        PROVE  x \in f[k]
    <3>1. (x = rows[k] /\ rows[k] \in front) \/ x \in Taken(k - 1)
        BY <1>3
    <3>2. x \in Taken(k - 1) => x \in f[k - 1]
        BY <2>1, <2>5
    <3>3. x \in archive \cup ToSet(rows)
        BY <2>1, <2>2, <3>1, <3>2
    <3>4. x \in Replace(f[k - 1], {rows[k]}) \/ (x \notin f[k - 1] /\ x # rows[k])
      <4>1. x.config = rows[k].config => x = rows[k]
          BY <2>2, <2>5, <3>3 DEF OncePerConfig
      <4> QED
          BY <4>1 DEF Replace
    <3>5. rows[k] \in Replace(f[k - 1], {rows[k]})
        BY DEF Replace
    <3> QED
        BY <1>4, <3>1, <3>2, <3>4, <3>5
  <2> QED
      BY <2>2, <2>3, <2>4, <2>5
<1>8. Size \in S
  <2> HIDE DEF S
  <2> QED
      BY <1>3, <1>6, <1>7, CountingUp
<1>9. f[Size] \subseteq archive \cup ToSet(rows) /\ OncePerConfig(f[Size])
    BY <1>8
<1>10. Replace(f[Size], archive \cap front) \subseteq archive \cup ToSet(rows)
    BY <1>9 DEF Replace
<1>11. archive \cap front \subseteq Replace(f[Size], archive \cap front)
    BY DEF Replace
<1>12. OncePerConfig(Replace(f[Size], archive \cap front))
    BY <1>9 DEF Replace, OncePerConfig
<1>13. ASSUME OncePerConfig(archive \cup ToSet(rows)), NEW x \in front
       PROVE  x \in Replace(f[Size], archive \cap front)
  <2>1. CASE x \in archive
      BY <2>1 DEF Replace
  <2>2. CASE x \notin archive
    <3>1. PICK k \in 1 .. Size : x = rows[k]
        BY <1>5, <2>2
    <3>2. x \in f[Size]
        BY <1>8, <1>13, <3>1
    <3> QED
        BY <1>5, <1>13, <3>1, <3>2 DEF Replace, OncePerConfig
  <2> QED
      BY <2>1, <2>2
<1> QED
    BY <1>1, <1>10, <1>11, <1>12, <1>13

\* What a cycle leaves in the archive: the first front of a merge of what it
\* measured, or a part of it that has the best of each objective.
Cycled(rows, kept) ==
    LET front == FirstFront(MergeIntoArchive(rows, FirstFront(ToSet(rows) \cup archive)))
    IN  /\ kept \subseteq front
        /\ kept # front =>
              \A k \in {1, 2} : \E m \in kept : \A n \in front : n.fitness[k] =< m.fitness[k]
        /\ archive' = kept /\ truncated' = (kept # front) /\ measured' = ToSet(rows)

LEMMA CycleIsCycled ==
    ASSUME Cycle
    PROVE  \E rows, kept :
              /\ rows \in [1 .. Size -> ToSet(rows)]
              /\ \A k \in 1 .. Size : rows[k].fitness \in Vectors
              /\ Cycled(rows, kept)
<1>1. PICK vectors \in [1 .. Size -> Vectors], fresh \in [Len(population) + 1 .. Size -> Configs] :
        LET tail == Size - Min({Len(seeds), Size})
            head(k) == IF k =< Len(population) THEN population[k] ELSE fresh[k]
            rows == [k \in 1 .. Size |->
                        Member(IF k =< tail THEN head(k) ELSE seeds[Size + 1 - k], vectors[k])]
            front == FirstFront(MergeIntoArchive(rows, FirstFront(ToSet(rows) \cup archive)))
        IN \E kept \in Truncations(front) :
              /\ archive' = kept
              /\ truncated' = (kept # front)
              /\ measured' = ToSet(rows)
    BY DEF Cycle
<1> DEFINE config(k) == IF k =< Size - Min({Len(seeds), Size})
                        THEN IF k =< Len(population) THEN population[k] ELSE fresh[k]
                        ELSE seeds[Size + 1 - k]
<1>2. PICK rows : rows = [k \in 1 .. Size |-> Member(config(k), vectors[k])]
    OBVIOUS
<1>3. PICK front : front = FirstFront(MergeIntoArchive(rows, FirstFront(ToSet(rows) \cup archive)))
    OBVIOUS
<1>4. PICK kept \in Truncations(front) :
          archive' = kept /\ truncated' = (kept # front) /\ measured' = ToSet(rows)
    BY <1>1, <1>2, <1>3
<1>5. \A k \in 1 .. Size : rows[k].fitness \in Vectors
    BY <1>2 DEF Member
<1>6. rows \in [1 .. Size -> ToSet(rows)]
    BY <1>2 DEF ToSet
<1>7. /\ kept \subseteq front
      /\ kept # front =>
            \A k \in {1, 2} : \E m \in kept : \A n \in front : n.fitness[k] =< m.fitness[k]
    BY <1>4 DEF Truncations, kSubset
<1> QED
    BY <1>3, <1>4, <1>5, <1>6, <1>7 DEF Cycled

CycleKeeps ==
    /\ FirstFront(archive') = archive'
    /\ \A m, n \in archive' : m.config = n.config => m = n
    /\ \A m \in archive : Unbeaten(m, measured') =>
          IF truncated' THEN \A k \in {1, 2} : \E n \in archive' : m.fitness[k] =< n.fitness[k]
          ELSE m \in archive'
    /\ ~truncated' /\ (\A m, n \in archive \cup measured' : m.config = n.config => m = n) =>
          \A m \in archive :
             m \in archive' \/ \E n \in archive' : Dominates(n.fitness, m.fitness)

LEMMA CycleStep ==
    ASSUME TunerAssumption, TunerInv, Cycle
    PROVE  TunerInv' /\ CycleKeeps
<1>1. PICK rows, kept : /\ rows \in [1 .. Size -> ToSet(rows)]
                        /\ \A k \in 1 .. Size : rows[k].fitness \in Vectors
                        /\ Cycled(rows, kept)
    BY CycleIsCycled
<1>2. PICK pool : pool = ToSet(rows) \cup archive
    OBVIOUS
<1>3. PICK first : first = FirstFront(pool)
    OBVIOUS
<1>4. PICK merged : merged = MergeIntoArchive(rows, first)
    OBVIOUS
<1>5. PICK front : front = FirstFront(merged)
    OBVIOUS
<1>6. /\ kept \subseteq front
      /\ kept # front =>
            \A k \in {1, 2} : \E m \in kept : \A n \in front : n.fitness[k] =< m.fitness[k]
      /\ archive' = kept /\ truncated' = (kept # front) /\ measured' = ToSet(rows)
    BY <1>1, <1>2, <1>3, <1>4, <1>5 DEF Cycled
<1>7. ToSet(rows) = {rows[k] : k \in 1 .. Size}
    BY <1>1 DEF ToSet
<1>8. IsFiniteSet(pool) /\ Scored(pool)
  <2>1. Size \in Nat
      BY DEF TunerAssumption
  <2>2. IsFiniteSet(ToSet(rows))
    <3>1. IsFiniteSet(1 .. Size)
        BY <2>1, FS_Interval
    <3>2. rows \in Surjection(1 .. Size, ToSet(rows))
        BY <1>1, <1>7 DEF Surjection
    <3> QED
        BY <1>1, <1>7, <3>1, <3>2, FS_Surjection
  <2> QED
      BY <1>1, <1>2, <1>7, <2>2, FS_Union DEF TunerInv, Scored
<1>9. first \in SUBSET pool /\ merged \subseteq pool /\ archive \cap first \subseteq merged
      /\ OncePerConfig(merged) /\ (OncePerConfig(pool) => first \subseteq merged)
  <2>1. first \in SUBSET (archive \cup ToSet(rows)) /\ pool = archive \cup ToSet(rows)
      BY <1>2, <1>3 DEF FirstFront
  <2>2. rows \in [1 .. Size -> pool] /\ archive \subseteq pool /\ OncePerConfig(archive)
      BY <1>1, <1>2 DEF TunerInv
  <2> QED
      BY <1>4, <2>1, <2>2, MergeKeeps
<1>10. front \subseteq merged /\ \A m \in front, n \in merged : ~Dominates(n.fitness, m.fitness)
    BY <1>5 DEF FirstFront
<1>11. FirstFront(kept) = kept
    BY <1>6, <1>10 DEF FirstFront
<1>12. OncePerConfig(kept)
    BY <1>6, <1>9, <1>10 DEF OncePerConfig
<1>13. IsFiniteSet(kept) /\ Scored(kept)
  <2>1. kept \subseteq pool
      BY <1>6, <1>9, <1>10
  <2> QED
      BY <1>8, <2>1, FS_Subset DEF Scored
\* What nothing measured beats is in the first front of all, and merged again.
<1>14. ASSUME NEW m \in archive, Unbeaten(m, ToSet(rows))
       PROVE  m \in front
  <2>1. \A n \in pool : ~Dominates(n.fitness, m.fitness)
      BY <1>2, <1>14 DEF Unbeaten, TunerInv, FirstFront
  <2>2. m \in first
      BY <1>2, <1>3, <2>1 DEF FirstFront
  <2> QED
      BY <1>5, <1>9, <2>1, <2>2 DEF FirstFront
<1>15. ASSUME NEW m \in archive, Unbeaten(m, measured')
       PROVE  IF truncated' THEN \A k \in {1, 2} : \E n \in archive' : m.fitness[k] =< n.fitness[k]
              ELSE m \in archive'
    BY <1>6, <1>14, <1>15
<1>16. ASSUME kept = front, OncePerConfig(pool), NEW m \in archive
       PROVE  m \in kept \/ \E n \in kept : Dominates(n.fitness, m.fitness)
  <2>1. m \in pool
      BY <1>2
  <2>2. PICK n \in first : n = m \/ Dominates(n.fitness, m.fitness)
      BY <1>3, <1>8, <2>1, SomethingUnbeaten
  <2>3. n \in front
      BY <1>3, <1>5, <1>9, <1>16 DEF FirstFront
  <2> QED
      BY <1>16, <2>2, <2>3
<1>17. TunerInv'
    BY <1>6, <1>11, <1>12, <1>13 DEF TunerInv
<1> QED
    BY <1>2, <1>6, <1>11, <1>12, <1>15, <1>16, <1>17 DEF CycleKeeps, OncePerConfig

LEMMA TunerStep ==
    ASSUME TunerAssumption, TunerInv, [TunerNext]_tunerVars
    PROVE  TunerInv' /\ [CycleKeeps]_tunerVars
<1>1. CASE Cycle
    BY <1>1, CycleStep
<1>2. CASE Bypass \/ Stimulate \/ UNCHANGED tunerVars
  <2>1. UNCHANGED <<archive, measured, truncated>>
      BY <1>2 DEF Bypass, Stimulate, tunerVars
  <2>2. TunerInv'
      BY <2>1 DEF TunerInv, Scored, FirstFront, OncePerConfig
  <2>3. \A m \in archive, k \in {1, 2} : m.fitness[k] =< m.fitness[k]
    <3>1. Vectors \subseteq Int \X Int
        BY DEF Vectors, TunerAssumption
    <3>2. \A v \in Int \X Int : v[1] =< v[1] /\ v[2] =< v[2]
        OBVIOUS
    <3> QED
        BY <3>1, <3>2 DEF TunerInv, Scored
  <2>4. CycleKeeps
      BY <2>1, <2>3 DEF CycleKeeps, TunerInv, FirstFront, OncePerConfig
  <2> QED
      BY <2>2, <2>4
<1> QED
    BY <1>1, <1>2 DEF TunerNext

\* For every set of configurations and values, every size and capacity and any
\* measurements: the archive is a frontier that gives up only what was beaten
\* (FitnessSurvivalTracker._merge_into_archive).
THEOREM TheFrontierIsKept ==
    ASSUME TunerAssumption
    PROVE  TunerSpec => FrontierIsKept
<1>1. TunerInit => TunerInv
    BY FS_EmptySet DEF TunerInit, TunerInv, Scored, FirstFront, OncePerConfig
<1>2. TunerInv /\ [TunerNext]_tunerVars => TunerInv' /\ [CycleKeeps]_tunerVars
    BY TunerStep
<1> QED
    BY <1>1, <1>2, PTL DEF TunerSpec, FrontierIsKept, CycleKeeps

-----------------------------------------------------------------------------
(* The population of the engine.                                           *)

LEMMA MaxOfFinite ==
    ASSUME NEW S \in SUBSET Nat, IsFiniteSet(S), S # {}
    PROVE  Max(S) \in S /\ \A x \in S : x <= Max(S)
<1> DEFINE Above(x) == {y \in S : y > x}
           T == {Above(x) : x \in S}
<1>1. T # {} /\ \A t \in T : IsFiniteSet(t)
  <2>1. \A x : Above(x) \subseteq S
      OBVIOUS
  <2>2. \A x : IsFiniteSet(Above(x))
      BY <2>1, FS_Subset
  <2> QED
      BY <2>2
<1>2. PICK t \in T : \A u \in T : u \subseteq t => u = t
  <2> HIDE DEF T
  <2> QED
      BY <1>1, SmallestSet
<1>3. PICK x \in S : t = Above(x)
    OBVIOUS
<1>4. ASSUME NEW y \in S, y > x PROVE FALSE
  <2>1. x \in Nat /\ y \in Nat /\ \A z \in S : z \in Nat
      OBVIOUS
  <2>2. \A z \in Nat : z > y => z > x
      BY <1>4, <2>1
  <2>3. Above(y) \subseteq Above(x)
      BY <2>1, <2>2
  <2>4. y \in Above(x)
      BY <1>4
  <2>5. ~(y > y)
      BY <2>1
  <2>6. y \notin Above(y)
      BY <2>5
  <2> QED
      BY <1>2, <1>3, <2>3, <2>4, <2>6
<1>5. \A y \in S : x >= y
    BY <1>4
<1> QED
    BY <1>5 DEF Max

LEMMA EvaluationsAreNumbers ==
    ASSUME EngineAssumption, NEW e \in Evaluations
    PROVE  /\ e.build[1] \in Nat /\ e.build[2] \in Nat /\ e.run \in Nat
           /\ e # Invalid => e.build[1] < Infinite /\ e.build[2] < Infinite
           /\ Invalid.build = <<Infinite, Infinite>> /\ Invalid.run = Missing
<1>1. Invalid.build = <<Infinite, Infinite>> /\ Invalid.run = Missing
    BY DEF Invalid
<1>2. CASE e = Invalid
    BY <1>1, <1>2 DEF EngineAssumption, Missing
<1>3. CASE e \in [build : BuildFitness, run : RunFitness \cup {Missing}]
  <2>1. e.build \in (0 .. Infinite - 1) \X (0 .. Infinite - 1) /\ e.run \in Nat
    <3>1. e.build \in BuildFitness /\ e.run \in RunFitness \cup {0}
        BY <1>3 DEF Missing
    <3> QED
      <4>1. BuildFitness \subseteq (0 .. Infinite - 1) \X (0 .. Infinite - 1)
          BY DEF EngineAssumption
      <4>2. RunFitness \subseteq Nat \ {0}
          BY DEF EngineAssumption
      <4>3. \A x \in RunFitness \cup {0} : x \in Nat
          BY <4>2
      <4> QED
          BY <3>1, <4>1, <4>3
  <2>2. Infinite \in Nat
      BY DEF EngineAssumption
  <2> QED
      BY <1>1, <2>1, <2>2
<1> QED
    BY <1>2, <1>3 DEF Evaluations

\* What dominates has no larger sum of the build objectives, and with the same
\* sum a smaller runtime: domination has no cycle, transitive or not.
LEMMA DominationGoesDown ==
    ASSUME EngineAssumption, NEW a \in Evaluations, NEW b \in Evaluations, IsDominant(a, b)
    PROVE  \/ a.build[1] + a.build[2] < b.build[1] + b.build[2]
           \/ /\ a.build[1] + a.build[2] = b.build[1] + b.build[2]
              /\ a.run < b.run
<1>1. /\ a.build[1] \in Nat /\ a.build[2] \in Nat /\ a.run \in Nat
      /\ b.build[1] \in Nat /\ b.build[2] \in Nat /\ b.run \in Nat
    BY EvaluationsAreNumbers
<1>2. 1 \in Common(a, b) /\ 2 \in Common(a, b)
    BY DEF Common
<1>3. a.build[1] <= b.build[1] /\ a.build[2] <= b.build[2]
    BY <1>2 DEF IsDominant, Objective
<1>4. PICK k \in Common(a, b) : Objective(a, k) < Objective(b, k)
    BY DEF IsDominant
<1>5. CASE k = 3
    BY <1>1, <1>3, <1>4, <1>5 DEF Objective
<1>6. CASE k # 3
  <2>1. k = 1 \/ k = 2
      BY <1>6 DEF Common
  <2> QED
      BY <1>1, <1>3, <1>4, <2>1 DEF Objective
<1> QED
    BY <1>5, <1>6

LEMMA ValidDominatesInvalid ==
    ASSUME EngineAssumption, NEW e \in Evaluations, e # Invalid
    PROVE  IsDominant(e, Invalid)
<1>1. /\ e.build[1] < Infinite /\ e.build[2] < Infinite
      /\ Invalid.build = <<Infinite, Infinite>> /\ Invalid.run = Missing
      /\ e.build[1] \in Nat /\ e.build[2] \in Nat /\ Infinite \in Nat
    BY EvaluationsAreNumbers DEF EngineAssumption
<1>2. Common(e, Invalid) = {1, 2}
    BY <1>1 DEF Common
<1>3. \A k \in {1, 2} : Objective(e, k) < Objective(Invalid, k) /\ Objective(e, k) =< Objective(Invalid, k)
    BY <1>1 DEF Objective
<1> QED
    BY <1>2, <1>3 DEF IsDominant

\* So any part of a pool has an element that no other of the part dominates.
LEMMA UndominatedExists ==
    ASSUME EngineAssumption, NEW pool \in Seq(Evaluations), NEW A \in SUBSET DOMAIN pool, A # {}
    PROVE  \E i \in A : \A j \in A : ~IsDominant(pool[j], pool[i])
<1> DEFINE Sum(i) == pool[i].build[1] + pool[i].build[2]
           Sums == {Sum(i) : i \in A}
<1>1. \A i \in A : pool[i] \in Evaluations
    OBVIOUS
<1>2. \A i \in A : Sum(i) \in Nat /\ pool[i].run \in Nat
    BY <1>1, EvaluationsAreNumbers
<1>3. PICK s \in Sums : \A t \in Sums : s <= t
  <2>1. Sums \in SUBSET Nat /\ Sums # {}
      BY <1>2
  <2> HIDE DEF Sums
  <2> QED
      BY <2>1, LeastNatural
<1> DEFINE Runs == {pool[i].run : i \in {h \in A : Sum(h) = s}}
<1>4. Runs \in SUBSET Nat /\ Runs # {}
    BY <1>2, <1>3
<1>5. PICK r \in Runs : \A t \in Runs : r <= t
  <2> HIDE DEF Runs
  <2> QED
      BY <1>4, LeastNatural
<1>6. PICK i \in A : Sum(i) = s /\ pool[i].run = r
    BY <1>5
<1>7. ASSUME NEW j \in A, IsDominant(pool[j], pool[i]) PROVE FALSE
  <2>1. Sum(j) < Sum(i) \/ (Sum(j) = Sum(i) /\ pool[j].run < pool[i].run)
      BY <1>1, <1>7, DominationGoesDown
  <2>2. Sum(i) <= Sum(j)
      BY <1>3, <1>6
  <2>3. Sum(j) = s /\ pool[j].run < r
      BY <1>2, <1>6, <2>1, <2>2
  <2>4. r <= pool[j].run
      BY <1>5, <2>3
  <2> QED
      BY <1>2, <1>6, <2>3, <2>4
<1> QED
    BY <1>7

Ranking(f, pool) ==
    f = [i \in DOMAIN pool |-> Max({0} \cup {f[j] : j \in Rivals(pool, i)}) + 1]

\* f gives the ranks in A, which holds the rivals of its own.
RanksIn(f, pool, A) ==
    \A i \in A : /\ Rivals(pool, i) \subseteq A
                 /\ f[i] = Max({0} \cup {f[j] : j \in Rivals(pool, i)}) + 1

\* A rank is a number above those of the rivals.
IsNextRank(x, f, R) == x \in Nat \ {0} /\ \A j \in R : f[j] < x

LEMMA NextRank ==
    ASSUME NEW pool \in Seq(Evaluations), NEW f, NEW i \in DOMAIN pool,
           \A j \in Rivals(pool, i) : f[j] \in Nat
    PROVE  IsNextRank(Max({0} \cup {f[j] : j \in Rivals(pool, i)}) + 1, f, Rivals(pool, i))
<1>1. PICK R : R = Rivals(pool, i)
    OBVIOUS
<1>2. PICK F : F = {f[j] : j \in R}
    OBVIOUS
<1>3. IsFiniteSet(R)
  <2>1. IsFiniteSet(1 .. Len(pool)) /\ R \subseteq 1 .. Len(pool)
      BY <1>1, FS_Interval DEF Rivals
  <2> QED
      BY <2>1, FS_Subset
<1>4. IsFiniteSet(F) /\ F \subseteq Nat
  <2>1. [j \in R |-> f[j]] \in Surjection(R, F)
      BY <1>2 DEF Surjection
  <2>2. F \subseteq Nat
      BY <1>1, <1>2
  <2> QED
      BY <1>3, <2>1, <2>2, FS_Surjection
<1>5. PICK S : S = {0} \cup F
    OBVIOUS
<1>6. S \in SUBSET Nat /\ IsFiniteSet(S) /\ S # {}
  <2>1. IsFiniteSet({0})
      BY FS_Singleton
  <2> QED
      BY <1>4, <1>5, <2>1, FS_Union
<1>7. Max(S) \in Nat /\ \A x \in S : x <= Max(S)
    BY <1>6, MaxOfFinite
<1>8. \A j \in R : f[j] \in Nat /\ f[j] <= Max(S)
    BY <1>1, <1>2, <1>5, <1>7
<1>9. IsNextRank(Max(S) + 1, f, R)
    BY <1>7, <1>8 DEF IsNextRank
<1> QED
    BY <1>1, <1>2, <1>5, <1>9

LEMMA RankingExists ==
    ASSUME EngineAssumption, NEW pool \in Seq(Evaluations)
    PROVE  \E f \in [DOMAIN pool -> Nat] : Ranking(f, pool)
<1> DEFINE D == DOMAIN pool
           Solved == {A \in SUBSET D : \E f \in [D -> Nat] : RanksIn(f, pool, A)}
           T == {D \ A : A \in Solved}
<1>1. T # {} /\ \A t \in T : IsFiniteSet(t)
  <2>1. RanksIn([i \in D |-> 0], pool, {})
      BY DEF RanksIn
  <2>2. {} \in Solved
      BY <2>1
  <2>3. IsFiniteSet(D)
      BY FS_Interval
  <2>4. \A A : D \ A \subseteq D
      OBVIOUS
  <2>5. \A A : IsFiniteSet(D \ A)
    <3> HIDE DEF D
    <3> QED
        BY <2>3, <2>4, FS_Subset
  <2> QED
      BY <2>2, <2>5
<1>2. PICK t \in T : \A u \in T : u \subseteq t => u = t
  <2> HIDE DEF T
  <2> QED
      BY <1>1, SmallestSet
<1>3. PICK A \in SUBSET D, f \in [D -> Nat] : t = D \ A /\ RanksIn(f, pool, A)
    OBVIOUS
<1>4. ASSUME t # {} PROVE FALSE
  <2>1. PICK i \in t : \A j \in t : ~IsDominant(pool[j], pool[i])
      BY <1>3, <1>4, UndominatedExists
  <2>2. i \in D /\ i \notin A /\ Rivals(pool, i) \subseteq A
      BY <1>3, <2>1 DEF Rivals
  <2>3. PICK top \in Nat : top = Max({0} \cup {f[j] : j \in Rivals(pool, i)}) + 1
    <3>1. \A j \in Rivals(pool, i) : f[j] \in Nat
        BY <1>3, <2>2
    <3> QED
        BY <2>2, <3>1, NextRank DEF IsNextRank
  <2> DEFINE g == [f EXCEPT ![i] = top]
  <2>4. g \in [D -> Nat]
      OBVIOUS
  <2>5. ASSUME NEW k \in A \cup {i}
        PROVE  /\ Rivals(pool, k) \subseteq A
               /\ g[k] = Max({0} \cup {g[j] : j \in Rivals(pool, k)}) + 1
    <3>1. Rivals(pool, k) \subseteq A
        BY <1>3, <2>2 DEF RanksIn
    <3>2. \A j \in Rivals(pool, k) : g[j] = f[j]
        BY <2>2, <3>1
    <3>3. {g[j] : j \in Rivals(pool, k)} = {f[j] : j \in Rivals(pool, k)}
        BY <3>2
    <3>4. g[k] = IF k = i THEN top ELSE f[k]
        BY <2>2
    <3>5. k # i => f[k] = Max({0} \cup {f[j] : j \in Rivals(pool, k)}) + 1
        BY <1>3 DEF RanksIn
    <3> QED
        BY <2>3, <3>1, <3>3, <3>4, <3>5
  <2>6. RanksIn(g, pool, A \cup {i})
    <3> HIDE DEF g
    <3> QED
        BY <2>5 DEF RanksIn
  <2>7. A \cup {i} \in Solved
    <3> HIDE DEF g
    <3> QED
        BY <2>2, <2>4, <2>6
  <2>8. D \ (A \cup {i}) \in T
      BY <2>7
  <2> QED
      BY <1>2, <1>3, <2>1, <2>8
<1>5. A = D
    BY <1>3, <1>4
<1> QED
    BY <1>3, <1>5 DEF RanksIn, Ranking

LEMMA RankIsAbove ==
    ASSUME EngineAssumption, NEW pool \in Seq(Evaluations)
    PROVE  \A i \in DOMAIN pool : IsNextRank(Rank(pool)[i], Rank(pool), Rivals(pool, i))
<1> DEFINE r == CHOOSE f : Ranking(f, pool)
<1>1. Rank(pool) = r
    BY DEF Rank, Ranking
<1>2. Ranking(r, pool)
    BY RankingExists
<1> HIDE DEF r
<1>3. \A i \in DOMAIN pool : r[i] = Max({0} \cup {r[j] : j \in Rivals(pool, i)}) + 1
    BY <1>2 DEF Ranking
<1> DEFINE Bad == {i \in DOMAIN pool : r[i] \notin Nat}
<1>4. ASSUME Bad # {} PROVE FALSE
  <2>1. PICK i \in Bad : \A j \in Bad : ~IsDominant(pool[j], pool[i])
      BY <1>4, UndominatedExists
  <2>2. \A j \in Rivals(pool, i) : r[j] \in Nat
      BY <2>1 DEF Rivals
  <2>3. IsNextRank(Max({0} \cup {r[j] : j \in Rivals(pool, i)}) + 1, r, Rivals(pool, i))
      BY <2>2, NextRank
  <2> QED
      BY <1>3, <2>3 DEF IsNextRank
<1>5. ASSUME NEW i \in DOMAIN pool PROVE IsNextRank(r[i], r, Rivals(pool, i))
  <2>1. \A j \in Rivals(pool, i) : r[j] \in Nat
      BY <1>4 DEF Rivals
  <2>2. IsNextRank(Max({0} \cup {r[j] : j \in Rivals(pool, i)}) + 1, r, Rivals(pool, i))
      BY <2>1, NextRank
  <2> QED
      BY <1>3, <2>2
<1> QED
    BY <1>1, <1>5

EngineInv ==
    /\ individuals \in Seq(Evaluations) /\ bred \in Seq(Evaluations)
    /\ champion \in Evaluations \cup {Unknown}

\* What a selection leaves out dominates nothing of what it keeps.
LEMMA SelectionKeepsTheBest ==
    ASSUME EngineAssumption, NEW pool \in Seq(Evaluations), NEW size, NEW s \in Selections(pool, size),
           NEW i \in s, NEW j \in DOMAIN pool, IsDominant(pool[j], pool[i])
    PROVE  j \in s
<1>1. i \in DOMAIN pool /\ \A k \in DOMAIN pool \ s : Rank(pool)[i] =< Rank(pool)[k]
    BY DEF Selections, kSubset
<1>2. j \in Rivals(pool, i)
    BY DEF Rivals
<1>3. IsNextRank(Rank(pool)[i], Rank(pool), Rivals(pool, i))
    BY <1>1, RankIsAbove
<1>4. Rank(pool)[j] \in Nat /\ Rank(pool)[i] \in Nat /\ Rank(pool)[j] < Rank(pool)[i]
    BY <1>2, <1>3, RankIsAbove DEF IsNextRank
<1> QED
    BY <1>1, <1>4

\* What is in the first front of a population that has something valid is valid.
LEMMA FirstIsValid ==
    ASSUME EngineAssumption, NEW p \in Seq(Evaluations), NEW i \in DOMAIN p, Rank(p)[i] = 1,
           NEW j \in DOMAIN p, p[j] # Invalid
    PROVE  p[i] # Invalid
<1>1. SUFFICES ASSUME p[i] = Invalid PROVE FALSE
    OBVIOUS
<1>2. IsDominant(p[j], p[i])
    BY <1>1, ValidDominatesInvalid
<1>3. IsNextRank(Rank(p)[i], Rank(p), Rivals(p, i)) /\ IsNextRank(Rank(p)[j], Rank(p), Rivals(p, j))
    BY RankIsAbove
<1>4. j \in Rivals(p, i)
    BY <1>2 DEF Rivals
<1> QED
    BY <1>3, <1>4 DEF IsNextRank

UpdateKeeps ==
    /\ \A m \in ToSet(individuals'), n \in ToSet(individuals \o bred) :
          IsDominant(n, m) => n \in ToSet(individuals')
    /\ (\E m \in ToSet(individuals') : m # Invalid) => champion' # Invalid

LEMMA UpdateStep ==
    ASSUME EngineAssumption, EngineInv, UpdatePopulation
    PROVE  EngineInv' /\ UpdateKeeps
<1>1. PICK pool : pool = individuals \o bred
    OBVIOUS
<1>2. pool \in Seq(Evaluations)
    BY <1>1 DEF EngineInv
<1>3. PICK s \in Selections(pool, N) : individuals' \in Orders(pool, s)
    BY <1>1 DEF UpdatePopulation
<1>4. PICK q \in [1 .. N -> s] : ToSet(q) = s /\ individuals' = [k \in 1 .. N |-> pool[q[k]]]
    BY <1>3 DEF Orders
<1>5. s \subseteq DOMAIN pool
    BY <1>3 DEF Selections, kSubset
<1>6. individuals' \in Seq(Evaluations) /\ DOMAIN individuals' = 1 .. N
  <2>1. individuals' \in [1 .. N -> Evaluations]
      BY <1>2, <1>4, <1>5
  <2> QED
      BY <2>1 DEF EngineAssumption
<1>7. ToSet(individuals') = {pool[i] : i \in s}
  <2>1. s = {q[k] : k \in 1 .. N}
      BY <1>4 DEF ToSet
  <2>2. ToSet(individuals') = {pool[q[k]] : k \in 1 .. N}
      BY <1>4 DEF ToSet
  <2> QED
      BY <2>1, <2>2
<1>8. ASSUME NEW m \in ToSet(individuals'), NEW n \in ToSet(pool), IsDominant(n, m)
      PROVE  n \in ToSet(individuals')
  <2>1. PICK i \in s, j \in DOMAIN pool : m = pool[i] /\ n = pool[j]
      BY <1>7 DEF ToSet
  <2>2. j \in s
      BY <1>2, <1>3, <1>8, <2>1, SelectionKeepsTheBest
  <2> QED
      BY <1>7, <2>1, <2>2
<1>9. PICK i \in 1 .. N :
          /\ Rank(individuals')[i] = 1
          /\ champion' = IF champion = Unknown \/ IsDominant(individuals'[i], champion)
                         THEN individuals'[i] ELSE champion
    BY DEF UpdatePopulation
<1>10. PICK p : p = individuals'
    OBVIOUS
<1>11. p \in Seq(Evaluations) /\ i \in DOMAIN p /\ p[i] \in Evaluations
  <2>1. p \in Seq(Evaluations) /\ i \in DOMAIN p
      BY <1>6, <1>10
  <2> QED
      BY <2>1
<1>12. ASSUME NEW m \in ToSet(p), m # Invalid PROVE champion' # Invalid
  <2>1. PICK j \in DOMAIN p : m = p[j]
      BY DEF ToSet
  <2>2. p[i] # Invalid
      BY <1>9, <1>10, <1>11, <1>12, <2>1, FirstIsValid
  <2>3. IsDominant(p[i], Invalid)
      BY <1>11, <2>2, ValidDominatesInvalid
  <2> QED
      BY <1>9, <1>10, <2>2, <2>3
<1>13. EngineInv'
    BY <1>6, <1>9, <1>10, <1>11 DEF EngineInv, UpdatePopulation
<1> QED
    BY <1>1, <1>8, <1>10, <1>12, <1>13 DEF UpdateKeeps

LEMMA EngineStep ==
    ASSUME EngineAssumption, EngineInv, [EngineNext]_engineVars
    PROVE  EngineInv' /\ (bred # <<>> /\ bred' = <<>> => UpdateKeeps)
<1>1. CASE UpdatePopulation
    BY <1>1, UpdateStep
<1>2. CASE GenerateOffspring
  <2>1. Populations \subseteq Seq(Evaluations)
      BY DEF Populations, EngineAssumption
  <2> QED
      BY <1>2, <2>1 DEF GenerateOffspring, EngineInv
<1>3. CASE UNCHANGED engineVars
    BY <1>3 DEF engineVars, EngineInv
<1> QED
    BY <1>1, <1>2, <1>3 DEF EngineNext

\* For every set of objective values and every number of individuals and rounds:
\* what a selection leaves out dominates nothing of what it keeps, and the best
\* candidate is a valid one (SelfEvolutionEngine.evolve).
THEOREM NothingBetterIsLeft ==
    ASSUME EngineAssumption
    PROVE  EngineSpec => NothingBetterIsLeftOut
<1>1. EngineInit => EngineInv
    BY DEF EngineInit, EngineInv
<1>2. EngineInv /\ [EngineNext]_engineVars =>
          EngineInv' /\ (bred # <<>> /\ bred' = <<>> => UpdateKeeps)
    BY EngineStep
<1> QED
    BY <1>1, <1>2, PTL DEF EngineSpec, NothingBetterIsLeftOut, UpdateKeeps

\* Both searches, for every value of their constants: nothing better is lost.
THEOREM SearchesLoseNothing ==
    ASSUME EngineAssumption, TunerAssumption
    PROVE  EngineSpec /\ TunerSpec => NothingBetterIsLost
    BY NothingBetterIsLeft, TheFrontierIsKept DEF NothingBetterIsLost

-----------------------------------------------------------------------------
(* The layers of a graph.                                                  *)

\* Every edge leads from a node to a node.
Within(edges, nodes) == \A e \in edges : e.src \in nodes /\ e.dst \in nodes

Layering(f, edges, nodes) ==
    f = [k \in 0 .. Cardinality(nodes) |->
            IF k = 0 THEN {} ELSE Freed(edges, nodes, f[k - 1])]

LEMMA LayersAre ==
    ASSUME NEW edges, NEW nodes, IsFiniteSet(nodes)
    PROVE  /\ Layering(Layers(edges, nodes), edges, nodes)
           /\ Cardinality(nodes) \in Nat
           /\ DOMAIN Layers(edges, nodes) = 0 .. Cardinality(nodes)
<1> DEFINE total == Cardinality(nodes)
           V == SUBSET nodes
           g == [k \in 1..total |-> [d \in V |-> Freed(edges, nodes, d)]]
<1>1. total \in Nat
    BY FS_CardinalityType
<1>2. {} \in V /\ g \in [1..total -> [V -> V]]
    BY DEF Freed
<1>3. PICK f \in [0..total -> V] : Iterates(f, {}, g, total)
  <2> HIDE DEF g, total, V
  <2> QED
      BY <1>1, <1>2, IterationExists
<1>4. ASSUME NEW k \in 0..total
      PROVE  f[k] = IF k = 0 THEN {} ELSE Freed(edges, nodes, f[k - 1])
  <2>1. f[k] = IF k = 0 THEN {} ELSE g[k][f[k - 1]]
    <3> HIDE DEF g, total, V
    <3> QED
        BY <1>3 DEF Iterates
  <2>2. k # 0 => k \in 1..total /\ f[k - 1] \in V
      BY <1>1
  <2> QED
      BY <2>1, <2>2
<1>5. Layering(f, edges, nodes)
  <2>1. f = [k \in 0..total |-> f[k]]
      OBVIOUS
  <2> QED
      BY <1>4, <2>1 DEF Layering
<1>6. Layers(edges, nodes) = CHOOSE h : Layering(h, edges, nodes)
    BY DEF Layers, Layering
<1>7. Layering(Layers(edges, nodes), edges, nodes)
    BY <1>5, <1>6
<1>8. DOMAIN Layers(edges, nodes) = 0..total
    BY <1>7 DEF Layering
<1> QED
    BY <1>1, <1>7, <1>8

\* The layers, one by one.
LEMMA LayerIs ==
    ASSUME NEW edges, NEW nodes, IsFiniteSet(nodes)
    PROVE  /\ Layers(edges, nodes)[0] = {}
           /\ \A k \in 1 .. Cardinality(nodes) :
                 Layers(edges, nodes)[k] = Freed(edges, nodes, Layers(edges, nodes)[k - 1])
           /\ \A k \in 0 .. Cardinality(nodes) : Layers(edges, nodes)[k] \subseteq nodes
<1>1. PICK f : f = Layers(edges, nodes)
    OBVIOUS
<1>2. PICK total : total = Cardinality(nodes)
    OBVIOUS
<1>3. total \in Nat /\ f = [k \in 0..total |-> IF k = 0 THEN {} ELSE Freed(edges, nodes, f[k - 1])]
    BY <1>1, <1>2, LayersAre DEF Layering
<1>4. f[0] = {} /\ \A k \in 1..total : f[k] = Freed(edges, nodes, f[k - 1])
  <2>1. 0 \in 0..total /\ \A k \in 1..total : k \in 0..total /\ k # 0
      BY <1>3
  <2>2. \A k \in 0..total : f[k] = IF k = 0 THEN {} ELSE Freed(edges, nodes, f[k - 1])
      BY <1>3
  <2> QED
      BY <2>1, <2>2
<1>5. \A k \in 0..total : f[k] \subseteq nodes
  <2>1. \A k \in 0..total : k = 0 \/ k \in 1..total
      BY <1>3
  <2> QED
      BY <1>4, <2>1 DEF Freed
<1> QED
    BY <1>1, <1>2, <1>4, <1>5

LEMMA LayersGrow ==
    ASSUME NEW edges, NEW nodes, IsFiniteSet(nodes)
    PROVE  \A k \in 0 .. Cardinality(nodes) : \A j \in 0 .. k :
              Layers(edges, nodes)[j] \subseteq Layers(edges, nodes)[k]
<1>1. PICK f : f = Layers(edges, nodes)
    OBVIOUS
<1>2. PICK total : total = Cardinality(nodes)
    OBVIOUS
<1>3. total \in Nat
    BY <1>2, LayersAre
<1>4. f[0] = {} /\ \A k \in 1..total : f[k] = Freed(edges, nodes, f[k - 1])
    BY <1>1, <1>2, LayerIs
<1> DEFINE S == {k \in 0..total : k = 0 \/ f[k - 1] \subseteq f[k]}
           R == {k \in 0..total : \A j \in 0..k : f[j] \subseteq f[k]}
<1>5. 0 \in S
    BY <1>3
<1>6. ASSUME NEW k \in 1..total, k - 1 \in S PROVE k \in S
  <2>1. CASE k = 1
      BY <1>3, <1>4, <2>1
  <2>2. CASE k # 1
    <3>1. k - 1 \in 1..total /\ k - 1 # 0
        BY <1>3, <2>2
    <3>2. f[(k - 1) - 1] \subseteq f[k - 1]
        BY <1>6, <3>1
    <3>3. f[k] = Freed(edges, nodes, f[k - 1]) /\ f[k - 1] = Freed(edges, nodes, f[(k - 1) - 1])
        BY <1>4, <3>1
    <3>4. f[k - 1] \subseteq f[k]
        BY <3>2, <3>3 DEF Freed
    <3> QED
        BY <1>3, <3>4
  <2> QED
      BY <2>1, <2>2
<1>7. \A k \in 0..total : k \in S
  <2> HIDE DEF S
  <2>1. \A k \in 1..total : k - 1 \in S => k \in S
      BY <1>6
  <2> QED
      BY <1>3, <1>5, <2>1, CountingUp
<1>8. 0 \in R
    BY <1>3
<1>9. ASSUME NEW k \in 1..total, k - 1 \in R PROVE k \in R
  <2>1. k \in 0..total /\ k # 0
      BY <1>3
  <2>2. f[k - 1] \subseteq f[k]
      BY <1>7, <2>1
  <2>3. ASSUME NEW j \in 0..k PROVE f[j] \subseteq f[k]
    <3>1. j = k \/ j \in 0..(k - 1)
        BY <1>3
    <3> QED
        BY <1>9, <2>2, <3>1
  <2> QED
      BY <2>1, <2>3
<1>10. \A k \in 0..total : k \in R
  <2> HIDE DEF R
  <2>1. \A k \in 1..total : k - 1 \in R => k \in R
      BY <1>9
  <2> QED
      BY <1>3, <1>8, <2>1, CountingUp
<1> QED
    BY <1>1, <1>2, <1>10

-----------------------------------------------------------------------------
(* A graph can be sorted unless some nodes wait for each other.            *)

LEMMA SortableIsNotCircular ==
    ASSUME NEW edges, NEW nodes, IsFiniteSet(nodes), Sortable(edges, nodes)
    PROVE  ~Circular(edges, nodes)
<1>1. SUFFICES ASSUME NEW C \in SUBSET nodes, C # {},
                      \A n \in C : \E e \in edges : e.dst = n /\ e.src \in C
               PROVE  FALSE
    BY DEF Circular
<1>2. PICK f : f = Layers(edges, nodes)
    OBVIOUS
<1>3. PICK total : total = Cardinality(nodes)
    OBVIOUS
<1>4. total \in Nat
    BY <1>3, LayersAre
<1>5. f[0] = {} /\ \A k \in 1..total : f[k] = Freed(edges, nodes, f[k - 1])
    BY <1>2, <1>3, LayerIs
<1> DEFINE S == {k \in 0..total : C \cap f[k] = {}}
<1>6. 0 \in S
    BY <1>4, <1>5
<1>7. ASSUME NEW k \in 1..total, k - 1 \in S PROVE k \in S
  <2>1. C \cap Freed(edges, nodes, f[k - 1]) = {}
      BY <1>1, <1>7 DEF Freed
  <2> QED
      BY <1>4, <1>5, <2>1
<1>8. total \in S
  <2> HIDE DEF S
  <2>1. \A k \in 1..total : k - 1 \in S => k \in S
      BY <1>7
  <2>2. \A k \in 0..total : k \in S
      BY <1>4, <1>6, <2>1, CountingUp
  <2> QED
      BY <1>4, <2>2
<1>9. f[total] = nodes
    BY <1>2, <1>3 DEF Sortable
<1> QED
    BY <1>1, <1>8, <1>9

LEMMA NotCircularIsSortable ==
    ASSUME NEW edges, NEW nodes, IsFiniteSet(nodes), Within(edges, nodes), ~Circular(edges, nodes)
    PROVE  Sortable(edges, nodes)
<1>1. PICK f : f = Layers(edges, nodes)
    OBVIOUS
<1>2. PICK total : total = Cardinality(nodes)
    OBVIOUS
<1>3. total \in Nat
    BY <1>2, LayersAre
<1>4. f[0] = {} /\ \A k \in 1..total : f[k] = Freed(edges, nodes, f[k - 1])
    BY <1>1, <1>2, LayerIs
<1>5. \A k \in 0..total : f[k] \subseteq nodes
    BY <1>1, <1>2, LayerIs
<1>6. ASSUME NEW k \in 1..total, f[k - 1] # nodes
      PROVE  \E n \in f[k] : n \notin f[k - 1]
  <2>1. nodes \ f[k - 1] # {} /\ nodes \ f[k - 1] \in SUBSET nodes
    <3>1. k - 1 \in 0..total
        BY <1>3
    <3> QED
        BY <1>5, <1>6, <3>1
  <2>2. PICK n \in nodes \ f[k - 1] : \A e \in edges : e.dst = n => e.src \notin nodes \ f[k - 1]
      BY <2>1 DEF Circular
  <2>3. n \in Freed(edges, nodes, f[k - 1])
      BY <2>2 DEF Within, Freed
  <2> QED
      BY <1>4, <2>2, <2>3
<1> DEFINE S == {k \in 0..total : f[k] = nodes \/ k <= Cardinality(f[k])}
<1>7. 0 \in S
  <2>1. Cardinality({}) = 0
      BY FS_EmptySet
  <2> QED
      BY <1>3, <1>4, <2>1
<1>8. ASSUME NEW k \in 1..total, k - 1 \in S PROVE k \in S
  <2>1. k \in 0..total /\ k - 1 \in 0..total
      BY <1>3
  <2>2. f[k - 1] \subseteq f[k]
    <3>1. k - 1 \in 0..k
        BY <1>3
    <3> QED
        BY <1>1, <1>2, <2>1, <3>1, LayersGrow
  <2>3. CASE f[k - 1] = nodes
      BY <1>5, <2>1, <2>2, <2>3
  <2>4. CASE f[k - 1] # nodes
    <3>1. PICK n \in f[k] : n \notin f[k - 1]
        BY <1>6, <2>4
    <3>2. PICK a, b : a = f[k - 1] /\ b = f[k]
        OBVIOUS
    <3>3. IsFiniteSet(b) /\ a \subseteq b /\ a # b
        BY <1>5, <2>1, <2>2, <3>1, <3>2, FS_Subset
    <3>4. IsFiniteSet(a) /\ Cardinality(a) <= Cardinality(b) /\ Cardinality(a) # Cardinality(b)
        BY <3>3, FS_Subset
    <3>5. Cardinality(a) \in Nat /\ Cardinality(b) \in Nat
        BY <3>3, <3>4, FS_CardinalityType
    <3>6. k - 1 <= Cardinality(a)
        BY <1>8, <2>4, <3>2
    <3>7. k <= Cardinality(b)
        BY <1>3, <3>4, <3>5, <3>6
    <3> QED
        BY <2>1, <3>2, <3>7
  <2> QED
      BY <2>3, <2>4
<1>9. total \in S
  <2> HIDE DEF S
  <2>1. \A k \in 1..total : k - 1 \in S => k \in S
      BY <1>8
  <2>2. \A k \in 0..total : k \in S
      BY <1>3, <1>7, <2>1, CountingUp
  <2> QED
      BY <1>3, <2>2
<1>10. f[total] = nodes
  <2>1. PICK a : a = f[total]
      OBVIOUS
  <2>2. a \subseteq nodes /\ (a = nodes \/ total <= Cardinality(a))
      BY <1>3, <1>5, <1>9, <2>1
  <2>3. IsFiniteSet(a) /\ (a # nodes => Cardinality(a) < total) /\ Cardinality(a) \in Nat
      BY <1>2, <2>2, FS_Subset, FS_CardinalityType
  <2>4. a = nodes
      BY <1>3, <2>2, <2>3
  <2> QED
      BY <2>1, <2>4
<1> QED
    BY <1>1, <1>2, <1>10 DEF Sortable

-----------------------------------------------------------------------------
(* Levels.                                                                 *)

\* Levels go up along the edges.
Rising(f, edges, nodes) ==
    /\ f \in [nodes -> Nat \ {0}]
    /\ \A e \in edges : f[e.src] < f[e.dst]

\* No node is higher than it has to be.
Tight(f, edges, nodes) ==
    \A n \in nodes : f[n] = 1 \/ \E e \in edges : e.dst = n /\ f[n] = f[e.src] + 1

\* Nodes that wait for each other have no levels.
LEMMA RisingIsNotCircular ==
    ASSUME NEW f, NEW edges, NEW nodes, NEW all, nodes \subseteq all, Rising(f, edges, all)
    PROVE  ~Circular(edges, nodes)
<1>1. SUFFICES ASSUME NEW C \in SUBSET nodes, C # {},
                      \A n \in C : \E e \in edges : e.dst = n /\ e.src \in C
               PROVE  FALSE
    BY DEF Circular
<1> DEFINE L == {f[n] : n \in C}
<1>2. \A n \in C : f[n] \in Nat
    BY DEF Rising
<1>3. L \in SUBSET Nat /\ L # {}
    BY <1>1, <1>2
<1>4. PICK k \in L : \A j \in L : k <= j
    BY <1>3, LeastNatural
<1>5. PICK n \in C : k = f[n]
    OBVIOUS
<1>6. PICK e \in edges : e.dst = n /\ e.src \in C
    BY <1>1
<1>7. f[e.src] < f[n]
    BY <1>6 DEF Rising
<1>8. f[e.src] \in Nat /\ f[n] \in Nat /\ f[n] <= f[e.src]
    BY <1>2, <1>4, <1>5, <1>6
<1> QED
    BY <1>7, <1>8

\* The levels tell the layers, and there is one way only to choose them.
LEMMA LevelsAreLayers ==
    ASSUME NEW f, NEW edges, NEW nodes, IsFiniteSet(nodes), Within(edges, nodes),
           Rising(f, edges, nodes), Tight(f, edges, nodes)
    PROVE  /\ Sortable(edges, nodes)
           /\ \A k \in 0 .. Cardinality(nodes) : Layers(edges, nodes)[k] = {n \in nodes : f[n] <= k}
<1>1. PICK p : p = Layers(edges, nodes)
    OBVIOUS
<1>2. PICK total : total = Cardinality(nodes)
    OBVIOUS
<1>3. total \in Nat
    BY <1>2, LayersAre
<1>4. p[0] = {} /\ \A k \in 1..total : p[k] = Freed(edges, nodes, p[k - 1])
    BY <1>1, <1>2, LayerIs
<1>5. \A n \in nodes : f[n] \in Nat /\ f[n] # 0
    BY DEF Rising
<1> DEFINE S == {k \in 0..total : p[k] = {n \in nodes : f[n] <= k}}
<1>6. 0 \in S
    BY <1>3, <1>4, <1>5
<1>7. ASSUME NEW k \in 1..total, k - 1 \in S PROVE k \in S
  <2>1. p[k] = Freed(edges, nodes, {n \in nodes : f[n] <= k - 1})
      BY <1>4, <1>7
  <2>2. ASSUME NEW n \in nodes
        PROVE  n \in Freed(edges, nodes, {m \in nodes : f[m] <= k - 1}) <=> f[n] <= k
    <3>1. ASSUME f[n] <= k, NEW e \in edges, e.dst = n PROVE f[e.src] <= k - 1
      <4>1. f[e.src] < f[n] /\ f[e.src] \in Nat /\ f[n] \in Nat
          BY <1>5, <3>1 DEF Rising, Within
      <4> QED
          BY <1>3, <3>1, <4>1
    <3>2. ASSUME ~(f[n] <= k) PROVE \E e \in edges : e.dst = n /\ ~(f[e.src] <= k - 1)
      <4>1. f[n] # 1
          BY <1>3, <3>2
      <4>2. PICK e \in edges : e.dst = n /\ f[n] = f[e.src] + 1
          BY <4>1 DEF Tight
      <4>3. f[e.src] \in Nat
          BY <1>5 DEF Within
      <4> QED
          BY <1>3, <3>2, <4>2, <4>3
    <3>3. \A e \in edges : e.src \in nodes
        BY DEF Within
    <3> QED
        BY <3>1, <3>2, <3>3 DEF Freed
  <2>3. Freed(edges, nodes, {m \in nodes : f[m] <= k - 1}) \subseteq nodes
      BY DEF Freed
  <2>4. p[k] = {n \in nodes : f[n] <= k}
    <3>1. PICK F : F = Freed(edges, nodes, {m \in nodes : f[m] <= k - 1})
        OBVIOUS
    <3>2. F \subseteq nodes /\ \A n \in nodes : n \in F <=> f[n] <= k
        BY <2>2, <2>3, <3>1
    <3>3. F = {n \in nodes : f[n] <= k}
        BY <3>2
    <3> QED
        BY <2>1, <3>1, <3>3
  <2> QED
      BY <1>3, <2>4
<1>8. \A k \in 0..total : k \in S
  <2> HIDE DEF S
  <2>1. \A k \in 1..total : k - 1 \in S => k \in S
      BY <1>7
  <2> QED
      BY <1>3, <1>6, <2>1, CountingUp
<1>9. Sortable(edges, nodes)
    BY RisingIsNotCircular, NotCircularIsSortable
<1> QED
    BY <1>1, <1>2, <1>8, <1>9

LEMMA SortableHasLevels ==
    ASSUME NEW edges, NEW nodes, IsFiniteSet(nodes), Within(edges, nodes), Sortable(edges, nodes)
    PROVE  \E f : Rising(f, edges, nodes) /\ Tight(f, edges, nodes)
<1>1. PICK p : p = Layers(edges, nodes)
    OBVIOUS
<1>2. PICK total : total = Cardinality(nodes)
    OBVIOUS
<1>3. total \in Nat
    BY <1>2, LayersAre
<1>4. p[0] = {} /\ \A k \in 1..total : p[k] = Freed(edges, nodes, p[k - 1])
    BY <1>1, <1>2, LayerIs
<1>5. p[total] = nodes
    BY <1>1, <1>2 DEF Sortable
<1>6. \A k \in 0..total : \A j \in 0..k : p[j] \subseteq p[k]
    BY <1>1, <1>2, LayersGrow
<1> DEFINE First(n, k) == k \in 1..total /\ n \in p[k] /\ \A j \in 0..total : n \in p[j] => k <= j
           f == [n \in nodes |-> CHOOSE k : First(n, k)]
<1>7. ASSUME NEW n \in nodes PROVE \E k : First(n, k)
  <2> DEFINE K == {k \in 0..total : n \in p[k]}
  <2>1. total \in K /\ K \in SUBSET Nat /\ 0 \notin K
      BY <1>3, <1>4, <1>5
  <2>2. PICK k \in K : \A j \in K : k <= j
      BY <2>1, LeastNatural
  <2> QED
      BY <1>3, <2>1, <2>2
<1>8. \A n \in nodes : First(n, f[n])
    BY <1>7
<1> HIDE DEF f
<1>9. \A n \in nodes : f[n] \in 1..total /\ n \in Freed(edges, nodes, p[f[n] - 1])
    BY <1>4, <1>8
<1>10. ASSUME NEW e \in edges PROVE f[e.src] < f[e.dst]
  <2>1. e.src \in nodes /\ e.dst \in nodes
      BY DEF Within
  <2>2. f[e.dst] - 1 \in 0..total /\ e.src \in p[f[e.dst] - 1]
      BY <1>3, <1>9, <2>1 DEF Freed
  <2>3. f[e.src] <= f[e.dst] - 1
      BY <1>8, <2>1, <2>2
  <2> QED
      BY <1>3, <1>9, <2>1, <2>3
<1>11. Rising(f, edges, nodes)
  <2>1. f = [n \in nodes |-> f[n]]
      BY DEF f
  <2>2. \A n \in nodes : f[n] \in Nat \ {0}
      BY <1>3, <1>9
  <2> QED
      BY <1>10, <2>1, <2>2 DEF Rising
<1>12. ASSUME NEW n \in nodes, f[n] # 1
       PROVE  \E e \in edges : e.dst = n /\ f[n] = f[e.src] + 1
  <2>1. PICK k : k = f[n] - 1
      OBVIOUS
  <2>2. k \in 1..total /\ f[n] = k + 1
      BY <1>3, <1>9, <1>12, <2>1
  <2>3. n \notin p[k]
    <3>1. k \in 0..total /\ ~(f[n] <= k)
        BY <1>3, <2>2
    <3> QED
        BY <1>8, <3>1
  <2>4. PICK e \in edges : e.dst = n /\ e.src \notin p[k - 1]
      BY <1>4, <2>2, <2>3 DEF Freed
  <2>5. e.src \in nodes /\ f[e.src] < f[n]
      BY <1>10, <2>4 DEF Within
  <2>6. ASSUME f[e.src] <= k - 1 PROVE FALSE
    <3>1. k - 1 \in 0..total /\ f[e.src] \in 0..(k - 1)
        BY <1>3, <1>9, <2>2, <2>5, <2>6
    <3>2. p[f[e.src]] \subseteq p[k - 1]
        BY <1>6, <3>1
    <3> QED
        BY <1>8, <2>4, <2>5, <3>2
  <2>7. f[n] = f[e.src] + 1
      BY <1>3, <1>9, <2>2, <2>5, <2>6
  <2> QED
      BY <2>4, <2>7
<1> QED
    BY <1>11, <1>12 DEF Tight

-----------------------------------------------------------------------------
(* Waves.                                                                  *)

\* Wave k holds what is on level k, and the last wave is not empty.
Waving(w, f, all) ==
    \E top \in Nat :
        /\ w = [k \in 1..top |-> {n \in all : f[n] = k}]
        /\ \A n \in all : f[n] <= top
        /\ top = 0 \/ \E n \in all : f[n] = top

LEMMA WavingIsUnique ==
    ASSUME NEW v, NEW w, NEW f, NEW all, Waving(v, f, all), Waving(w, f, all)
    PROVE  v = w
<1>1. PICK t \in Nat : /\ v = [k \in 1..t |-> {n \in all : f[n] = k}]
                       /\ \A n \in all : f[n] <= t
                       /\ t = 0 \/ \E n \in all : f[n] = t
    BY DEF Waving
<1>2. PICK u \in Nat : /\ w = [k \in 1..u |-> {n \in all : f[n] = k}]
                       /\ \A n \in all : f[n] <= u
                       /\ u = 0 \/ \E n \in all : f[n] = u
    BY DEF Waving
<1>3. t <= u /\ u <= t
    BY <1>1, <1>2
<1>4. t = u
    BY <1>3
<1> QED
    BY <1>1, <1>2, <1>4

LEMMA WavingShows ==
    ASSUME NEW w, NEW f, NEW all, f \in [all -> Nat \ {0}], Waving(w, f, all)
    PROVE  /\ UNION ToSet(w) = all
           /\ \A n \in all : {k \in DOMAIN w : n \in w[k]} = {f[n]} /\ LevelIn(w, n) = f[n]
           /\ w # Failed
           /\ \E top \in Nat : \A n \in all : f[n] <= top
<1>1. PICK t \in Nat : /\ w = [k \in 1..t |-> {n \in all : f[n] = k}]
                       /\ \A n \in all : f[n] <= t
                       /\ t = 0 \/ \E n \in all : f[n] = t
    BY DEF Waving
<1>2. \A n \in all : f[n] \in 1..t
    BY <1>1
<1>3. DOMAIN w = 1..t /\ \A k \in 1..t : w[k] = {n \in all : f[n] = k}
    BY <1>1
<1>4. UNION ToSet(w) = all
  <2>1. ToSet(w) = {w[k] : k \in 1..t}
      BY <1>3 DEF ToSet
  <2>2. \A k \in 1..t : w[k] \subseteq all
      BY <1>3
  <2>3. \A n \in all : n \in w[f[n]]
      BY <1>2, <1>3
  <2> QED
      BY <1>2, <2>1, <2>2, <2>3
<1>5. ASSUME NEW n \in all PROVE {k \in DOMAIN w : n \in w[k]} = {f[n]} /\ LevelIn(w, n) = f[n]
  <2>1. \A k \in 1..t : n \in w[k] <=> k = f[n]
      BY <1>3
  <2>2. {k \in DOMAIN w : n \in w[k]} = {f[n]}
      BY <1>2, <1>3, <2>1
  <2>3. LevelIn(w, n) = f[n]
      BY <1>2, <1>3, <2>1 DEF LevelIn
  <2> QED
      BY <2>2, <2>3
<1>6. ASSUME w = Failed PROVE FALSE
  <2>1. Failed = [k \in 1..1 |-> {}]
      BY DEF Failed
  <2>2. DOMAIN w = 1..1 /\ w[1] = {}
      BY <1>6, <2>1
  <2>3. t = 1
    <3>1. 1 \in DOMAIN w /\ \A k \in DOMAIN w : k = 1
        BY <2>2
    <3>2. 1 \in 1..t
        BY <1>3, <3>1
    <3>3. t \in DOMAIN w
        BY <1>3, <3>2
    <3> QED
        BY <3>1, <3>3
  <2> QED
      BY <1>1, <1>3, <2>2, <2>3
<1> QED
    BY <1>1, <1>4, <1>5, <1>6

\* The waves of compute_wavefronts are those of the levels.
LEMMA WavefrontsWave ==
    ASSUME NEW g, IsGraph(g), NEW f, Rising(f, EdgeSet(g), g.nodes), Tight(f, EdgeSet(g), g.nodes)
    PROVE  Waving(Wavefronts(g), f, g.nodes)
<1>1. PICK nodes, edges : nodes = g.nodes /\ edges = EdgeSet(g)
    OBVIOUS
<1>2. IsFiniteSet(nodes) /\ Within(edges, nodes)
    BY <1>1 DEF IsGraph, Within
<1>3. PICK p : p = Layers(edges, nodes)
    OBVIOUS
<1>4. PICK total : total = Cardinality(nodes)
    OBVIOUS
<1>5. total \in Nat /\ DOMAIN p = 0..total
    BY <1>2, <1>3, <1>4, LayersAre
<1>6. Sortable(edges, nodes) /\ \A k \in 0..total : p[k] = {n \in nodes : f[n] <= k}
    BY <1>1, <1>2, <1>3, <1>4, LevelsAreLayers
<1>7. p[total] = nodes
    BY <1>3, <1>4, <1>6 DEF Sortable
<1> DEFINE K == {k \in DOMAIN p : p[k] = nodes}
<1>8. PICK d \in K : d = Min(K)
  <2>1. K \in SUBSET Nat /\ K # {}
      BY <1>5, <1>7
  <2>2. \E k \in K : \A j \in K : k =< j
      BY <2>1, LeastNatural
  <2> QED
      BY <2>2 DEF Min
<1>9. d \in 0..total /\ p[d] = nodes /\ \A j \in K : d <= j
  <2>1. K \in SUBSET Nat /\ K # {}
      BY <1>5, <1>7
  <2>2. \E k \in K : \A j \in K : k =< j
      BY <2>1, LeastNatural
  <2>3. \A j \in K : Min(K) =< j
      BY <2>2 DEF Min
  <2> QED
      BY <1>5, <1>8, <2>3
<1>10. Wavefronts(g) = [k \in 1..d |-> p[k] \ p[k - 1]]
    BY <1>1, <1>3, <1>6, <1>8 DEF Wavefronts
<1>11. \A n \in nodes : f[n] \in Nat \ {0}
    BY <1>1 DEF Rising
<1>12. ASSUME NEW k \in 1..d PROVE p[k] \ p[k - 1] = {n \in nodes : f[n] = k}
  <2>1. k \in 0..total /\ k - 1 \in 0..total /\ k \in Nat
      BY <1>5, <1>9
  <2>2. \A n \in nodes : (f[n] <= k /\ ~(f[n] <= k - 1)) <=> f[n] = k
      BY <1>11, <2>1
  <2> QED
      BY <1>6, <2>1, <2>2
<1>13. Wavefronts(g) = [k \in 1..d |-> {n \in nodes : f[n] = k}]
    BY <1>10, <1>12
<1>14. \A n \in nodes : f[n] <= d
    BY <1>6, <1>9
<1>15. d = 0 \/ \E n \in nodes : f[n] = d
  <2>1. SUFFICES ASSUME d # 0 PROVE \E n \in nodes : f[n] = d
      OBVIOUS
  <2>2. d - 1 \in 0..total /\ ~(d <= d - 1)
      BY <1>5, <1>9, <2>1
  <2>3. p[d - 1] # nodes
      BY <1>5, <1>9, <2>2
  <2>4. PICK n \in nodes : ~(f[n] <= d - 1)
      BY <1>6, <2>2, <2>3
  <2>5. f[n] = d
      BY <1>5, <1>9, <1>11, <1>14, <2>4
  <2> QED
      BY <2>5
<1>16. d \in Nat
    BY <1>5, <1>9
<1> QED
    BY <1>1, <1>13, <1>14, <1>15, <1>16 DEF Waving

-----------------------------------------------------------------------------
(* What a walk reaches.                                                    *)

Walking(f, edges, nodes, from) ==
    f = [k \in 0 .. Cardinality(nodes) |-> IF k = 0 THEN from ELSE Spread(edges, f[k - 1])]

LEMMA WalkExists ==
    ASSUME NEW edges, NEW nodes, NEW from, IsFiniteSet(nodes), \A e \in edges : e.dst \in nodes
    PROVE  \E f : Walking(f, edges, nodes, from)
<1> DEFINE total == Cardinality(nodes)
           V == SUBSET (from \cup nodes)
           g == [k \in 1..total |-> [d \in V |-> Spread(edges, d)]]
<1>1. total \in Nat
    BY FS_CardinalityType
<1>2. from \in V /\ g \in [1..total -> [V -> V]]
    BY DEF Spread
<1>3. PICK f \in [0..total -> V] : Iterates(f, from, g, total)
  <2> HIDE DEF g, total, V
  <2> QED
      BY <1>1, <1>2, IterationExists
<1>4. ASSUME NEW k \in 0..total
      PROVE  f[k] = IF k = 0 THEN from ELSE Spread(edges, f[k - 1])
  <2>1. f[k] = IF k = 0 THEN from ELSE g[k][f[k - 1]]
    <3> HIDE DEF g, total, V
    <3> QED
        BY <1>3 DEF Iterates
  <2>2. k # 0 => k \in 1..total /\ f[k - 1] \in V
      BY <1>1
  <2> QED
      BY <2>1, <2>2
<1>5. Walking(f, edges, nodes, from)
  <2>1. f = [k \in 0..total |-> f[k]]
      OBVIOUS
  <2> QED
      BY <1>4, <2>1 DEF Walking
<1> QED
    BY <1>5

\* As many rounds as there are nodes are enough.
LEMMA ReachedIsClosed ==
    ASSUME NEW edges, NEW nodes, NEW from, IsFiniteSet(nodes), \A e \in edges : e.dst \in nodes
    PROVE  /\ from \subseteq Reached(edges, nodes, from)
           /\ Reached(edges, nodes, from) \subseteq from \cup nodes
           /\ \A e \in edges : e.src \in Reached(edges, nodes, from) => e.dst \in Reached(edges, nodes, from)
<1> DEFINE f == CHOOSE h : Walking(h, edges, nodes, from)
<1>1. Reached(edges, nodes, from) = f[Cardinality(nodes)]
    BY DEF Reached, Walking
<1>2. Walking(f, edges, nodes, from)
    BY WalkExists
<1>3. PICK total : total = Cardinality(nodes)
    OBVIOUS
<1>4. PICK h : h = f
    OBVIOUS
<1> HIDE DEF f
<1>5. total \in Nat
    BY <1>3, FS_CardinalityType
<1>6. h = [k \in 0..total |-> IF k = 0 THEN from ELSE Spread(edges, h[k - 1])]
    BY <1>2, <1>3, <1>4 DEF Walking
<1>7. h[0] = from /\ \A k \in 1..total : h[k] = Spread(edges, h[k - 1])
  <2>1. 0 \in 0..total /\ \A k \in 1..total : k \in 0..total /\ k # 0
      BY <1>5
  <2>2. \A k \in 0..total : h[k] = IF k = 0 THEN from ELSE Spread(edges, h[k - 1])
      BY <1>6
  <2> QED
      BY <2>1, <2>2
<1> DEFINE Closed(d) == \A e \in edges : e.src \in d => e.dst \in d
           Held(d) == from \subseteq d /\ d \subseteq from \cup nodes
           S == {k \in 0..total : Held(h[k]) /\ (Closed(h[k]) \/ k <= Cardinality(h[k] \ from))}
<1>8. 0 \in S
  <2>1. Cardinality(from \ from) = 0
    <3>1. from \ from = {}
        OBVIOUS
    <3> QED
        BY <3>1, FS_EmptySet
  <2> QED
      BY <1>5, <1>7, <2>1
<1>9. ASSUME NEW k \in 1..total, k - 1 \in S PROVE k \in S
  <2>1. PICK a, b : a = h[k - 1] /\ b = h[k]
      OBVIOUS
  <2>2. b = Spread(edges, a)
      BY <1>7, <2>1
  <2>3. Held(a) /\ (Closed(a) \/ k - 1 <= Cardinality(a \ from))
      BY <1>9, <2>1
  <2>4. Held(b) /\ a \subseteq b
      BY <2>2, <2>3 DEF Spread
  <2>5. CASE Closed(a)
    <3>1. b = a
        BY <2>2, <2>5 DEF Spread
    <3>2. Held(b) /\ Closed(b)
        BY <2>4, <2>5, <3>1
    <3>3. k \in 0..total
        BY <1>5
    <3> HIDE DEF Held, Closed
    <3> QED
        BY <2>1, <3>2, <3>3
  <2>6. CASE ~Closed(a)
    <3>1. PICK e \in edges : e.src \in a /\ e.dst \notin a
        BY <2>6
    <3>2. e.dst \in b
        BY <2>2, <3>1 DEF Spread
    <3>3. PICK x, y : x = a \ from /\ y = b \ from
        OBVIOUS
    <3>4. y \subseteq nodes /\ x \subseteq y /\ x # y
      <4>1. e.dst \notin from
          BY <2>3, <3>1
      <4> QED
          BY <2>4, <3>1, <3>2, <3>3, <4>1
    <3>5. IsFiniteSet(y)
        BY <3>4, FS_Subset
    <3>6. IsFiniteSet(x) /\ Cardinality(x) <= Cardinality(y) /\ Cardinality(x) # Cardinality(y)
        BY <3>4, <3>5, FS_Subset
    <3>7. Cardinality(x) \in Nat /\ Cardinality(y) \in Nat
        BY <3>5, <3>6, FS_CardinalityType
    <3>8. k - 1 <= Cardinality(x)
        BY <2>3, <2>6, <3>3
    <3>9. k <= Cardinality(y)
        BY <1>5, <3>6, <3>7, <3>8
    <3> QED
        BY <1>5, <2>1, <2>4, <3>3, <3>9
  <2> QED
      BY <2>5, <2>6
<1>10. total \in S
  <2> HIDE DEF S
  <2>1. \A k \in 1..total : k - 1 \in S => k \in S
      BY <1>9
  <2>2. \A k \in 0..total : k \in S
      BY <1>5, <1>8, <2>1, CountingUp
  <2> QED
      BY <1>5, <2>2
<1>11. PICK a : a = h[total]
    OBVIOUS
<1>12. Held(a) /\ (Closed(a) \/ total <= Cardinality(a \ from))
    BY <1>10, <1>11
<1>13. ASSUME ~Closed(a) PROVE FALSE
  <2>1. PICK x : x = a \ from
      OBVIOUS
  <2>2. x \subseteq nodes /\ total <= Cardinality(x)
      BY <1>12, <1>13, <2>1
  <2>3. Cardinality(x) <= total /\ IsFiniteSet(x)
      BY <1>3, <2>2, FS_Subset
  <2>4. Cardinality(x) = total
      BY <1>5, <2>2, <2>3, FS_CardinalityType
  <2>5. x = nodes
      BY <1>3, <2>2, <2>4, FS_Subset
  <2>6. nodes \subseteq a
      BY <2>1, <2>5
  <2> QED
      BY <1>13, <2>6
<1>14. a = Reached(edges, nodes, from)
    BY <1>1, <1>3, <1>4, <1>11
<1> QED
    BY <1>12, <1>13, <1>14

-----------------------------------------------------------------------------
(* The repair of a schedule.                                               *)

LEMMA MaxIs ==
    ASSUME NEW S \in SUBSET Nat, NEW m \in S, \A x \in S : x <= m
    PROVE  Max(S) = m
<1>1. \A x \in S : m >= x
    OBVIOUS
<1>2. \A y \in S : (\A x \in S : y >= x) => y = m
  <2>1. \A y \in S : y >= m /\ y <= m => y = m
      OBVIOUS
  <2> QED
      BY <2>1
<1> QED
    BY <1>1, <1>2 DEF Max

\* The zone of an edit is closed: no edge leads into it or out of it.
LEMMA ZoneIsClosed ==
    ASSUME NEW g, IsGraph(g), NEW touched
    PROVE  /\ touched \subseteq Influence(g, touched)
           /\ Influence(g, touched) \subseteq touched \cup g.nodes
           /\ \A e \in EdgeSet(g) : e.src \in Influence(g, touched) <=> e.dst \in Influence(g, touched)
<1> DEFINE back == {[src |-> e.dst, dst |-> e.src] : e \in EdgeSet(g)}
<1>1. Influence(g, touched) = Reached(EdgeSet(g) \cup back, g.nodes, touched)
    BY DEF Influence
<1>2. PICK nodes, edges, both :
          nodes = g.nodes /\ edges = EdgeSet(g) /\ both = EdgeSet(g) \cup back
    OBVIOUS
<1>3. IsFiniteSet(nodes) /\ \A e \in edges : e.src \in nodes /\ e.dst \in nodes
    BY <1>2 DEF IsGraph
<1>4. \A e \in both : e.dst \in nodes
  <2>1. \A e \in back : e.dst \in nodes
      BY <1>2, <1>3
  <2> QED
      BY <1>2, <1>3, <2>1
<1>5. PICK zone : zone = Reached(both, nodes, touched)
    OBVIOUS
<1>6. touched \subseteq zone /\ zone \subseteq touched \cup nodes
      /\ \A e \in both : e.src \in zone => e.dst \in zone
    BY <1>3, <1>4, <1>5, ReachedIsClosed
<1>7. ASSUME NEW e \in edges PROVE e.src \in zone <=> e.dst \in zone
  <2>1. e \in both
      BY <1>2
  <2>2. PICK b : b = [src |-> e.dst, dst |-> e.src]
      OBVIOUS
  <2>3. b \in both /\ b.src = e.dst /\ b.dst = e.src
      BY <1>2, <2>2
  <2>4. e.src \in zone => e.dst \in zone
      BY <1>6, <2>1
  <2>5. b.src \in zone => b.dst \in zone
      BY <1>6, <2>3
  <2> QED
      BY <2>3, <2>4, <2>5
<1> QED
    BY <1>1, <1>2, <1>5, <1>6, <1>7

\* Without predecessors outside the zone, the new levels are the only ones there
\* are.
LEMMA NewLevelsAre ==
    ASSUME NEW g, NEW old, NEW zone, IsFiniteSet(zone),
           \A e \in EdgeSet(g) : e.src \in zone <=> e.dst \in zone,
           NEW rank, Rising(rank, Inner(g, zone), zone), Tight(rank, Inner(g, zone), zone)
    PROVE  NewLevels(g, old, zone) = rank
<1>1. PICK inner : inner = Inner(g, zone)
    OBVIOUS
<1>2. Within(inner, zone)
    BY <1>1 DEF Within, Inner
<1>3. ASSUME NEW n \in zone PROVE Base(g, old, zone, n) = 1
  <2>1. {d \in EdgeSet(g) : d.dst = n /\ d.src \in Untouched(old, zone)} = {}
    <3>1. \A d \in EdgeSet(g) : d.dst = n => d.src \in zone
        OBVIOUS
    <3>2. \A x \in zone : x \notin Untouched(old, zone)
        BY DEF Untouched
    <3> QED
        BY <3>1, <3>2
  <2>2. Base(g, old, zone, n) = Max({1})
    <3>1. {1} \cup {LevelIn(old, e.src) + 1 : e \in {}} = {1}
        OBVIOUS
    <3> QED
        BY <2>1, <3>1 DEF Base
  <2>3. Max({1}) = 1
      BY MaxIs
  <2> QED
      BY <2>2, <2>3
<1> DEFINE Levelling(f) ==
              f = [n \in zone |-> Max({Base(g, old, zone, n)}
                                      \cup {f[e.src] + 1 : e \in {d \in inner : d.dst = n}})]
           Above(f, n) == {f[e.src] + 1 : e \in {d \in inner : d.dst = n}}
<1>4. ASSUME NEW n \in zone PROVE Max({1} \cup Above(rank, n)) = rank[n]
  <2>1. \A m \in zone : rank[m] \in Nat \ {0}
      BY DEF Rising
  <2>2. \A e \in inner : rank[e.src] < rank[e.dst] /\ e.src \in zone
      BY <1>1, <1>2 DEF Rising, Within
  <2>3. \A e \in {d \in inner : d.dst = n} : rank[e.src] + 1 \in Nat /\ rank[e.src] + 1 <= rank[n]
      BY <2>1, <2>2
  <2>4. PICK A : A = {1} \cup Above(rank, n)
      OBVIOUS
  <2>5. A \in SUBSET Nat /\ \A x \in A : x <= rank[n]
      BY <2>1, <2>3, <2>4
  <2>6. rank[n] \in A
    <3>1. rank[n] = 1 \/ \E e \in inner : e.dst = n /\ rank[n] = rank[e.src] + 1
        BY <1>1 DEF Tight
    <3> QED
        BY <2>4, <3>1
  <2>7. Max(A) = rank[n]
      BY <2>5, <2>6, MaxIs
  <2> QED
      BY <2>4, <2>7
<1>5. Levelling(rank)
  <2>1. rank = [n \in zone |-> rank[n]]
      BY DEF Rising
  <2>2. \A n \in zone : Max({Base(g, old, zone, n)} \cup Above(rank, n)) = rank[n]
      BY <1>3, <1>4
  <2> QED
      BY <2>1, <2>2
<1>6. ASSUME NEW f, Levelling(f) PROVE f = rank
  <2>1. \A n \in zone : f[n] = Max({1} \cup Above(f, n))
    <3>1. \A n \in zone : f[n] = Max({Base(g, old, zone, n)} \cup Above(f, n))
        BY <1>6
    <3> QED
        BY <1>3, <3>1
  <2>2. PICK p, total : p = Layers(inner, zone) /\ total = Cardinality(zone)
      OBVIOUS
  <2>3. total \in Nat
      BY <2>2, LayersAre
  <2>4. p[0] = {} /\ \A k \in 1..total : p[k] = Freed(inner, zone, p[k - 1])
      BY <2>2, LayerIs
  <2>5. p[total] = zone
    <3>1. Sortable(inner, zone)
        BY <1>1, <1>2, LevelsAreLayers
    <3> QED
        BY <2>2, <3>1 DEF Sortable
  <2> DEFINE S == {k \in 0..total : \A n \in p[k] : f[n] = rank[n]}
  <2>6. 0 \in S
      BY <2>3, <2>4
  <2>7. ASSUME NEW k \in 1..total, k - 1 \in S PROVE k \in S
    <3>1. ASSUME NEW n \in p[k] PROVE f[n] = rank[n]
      <4>1. n \in zone /\ \A e \in inner : e.dst = n => e.src \in p[k - 1]
          BY <2>4 DEF Freed
      <4>2. \A e \in {d \in inner : d.dst = n} : f[e.src] = rank[e.src]
          BY <2>7, <4>1
      <4>3. Above(f, n) = Above(rank, n)
          BY <4>2
      <4> QED
          BY <1>4, <2>1, <4>1, <4>3
    <3> QED
        BY <2>3, <3>1
  <2>8. total \in S
    <3> HIDE DEF S
    <3>1. \A k \in 1..total : k - 1 \in S => k \in S
        BY <2>7
    <3>2. \A k \in 0..total : k \in S
        BY <2>3, <2>6, <3>1, CountingUp
    <3> QED
        BY <2>3, <3>2
  <2>9. \A n \in zone : f[n] = rank[n]
      BY <2>5, <2>8
  <2>10. f = [n \in zone |-> f[n]] /\ rank = [n \in zone |-> rank[n]]
    <3>1. f = [n \in zone |-> f[n]]
        BY <1>6
    <3> QED
        BY <3>1 DEF Rising
  <2> QED
      BY <2>9, <2>10
<1>7. NewLevels(g, old, zone) = CHOOSE f : Levelling(f)
    BY <1>1 DEF NewLevels
<1> HIDE DEF Levelling
<1> QED
    BY <1>5, <1>6, <1>7

\* The new schedule is one of the levels that are kept and of those of the zone.
LEMMA ReassembledWaves ==
    ASSUME NEW old, NEW f, NEW all, f \in [all -> Nat \ {0}], Waving(old, f, all),
           NEW zone, zone # {}, NEW rank, rank \in [zone -> Nat \ {0}],
           NEW bound \in Nat, \A n \in zone : rank[n] <= bound
    PROVE  Waving(Reassembled(old, zone, rank),
                  [n \in all \cup zone |-> IF n \in zone THEN rank[n] ELSE f[n]], all \cup zone)
<1>1. UNION ToSet(old) = all /\ \A n \in all : LevelIn(old, n) = f[n]
    BY WavingShows
<1>2. PICK m \in Nat : \A n \in all : f[n] <= m
    BY WavingShows
<1>3. PICK rest : rest = Untouched(old, zone)
    OBVIOUS
<1>4. rest = all \ zone /\ \A n \in rest : LevelIn(old, n) = f[n]
  <2>1. rest = all \ zone
      BY <1>1, <1>3 DEF Untouched
  <2> QED
      BY <1>1, <2>1
<1>5. PICK h : h = [n \in all \cup zone |-> IF n \in zone THEN rank[n] ELSE f[n]]
    OBVIOUS
<1>6. /\ \A n \in zone : h[n] = rank[n]
      /\ \A n \in rest : h[n] = f[n]
      /\ all \cup zone = zone \cup rest
      /\ \A n \in all \cup zone : h[n] \in Nat \ {0} /\ (h[n] <= bound \/ h[n] <= m)
    BY <1>2, <1>4, <1>5
<1> DEFINE T == {1} \cup {rank[n] : n \in zone} \cup {LevelIn(old, n) : n \in rest}
<1>7. T = {1} \cup {h[n] : n \in zone \cup rest}
    BY <1>4, <1>6
<1>8. T \in SUBSET Nat /\ T # {} /\ \A x \in T : x <= bound + m + 1
  <2>1. \A n \in zone \cup rest : h[n] \in Nat /\ h[n] <= bound + m + 1
      BY <1>6
  <2> QED
      BY <1>7, <2>1
<1>9. PICK t \in T : \A x \in T : x <= t
  <2>1. PICK c : c = bound + m + 1
      OBVIOUS
  <2>2. c \in Nat /\ \A x \in T : x <= c
      BY <1>8, <2>1
  <2> HIDE DEF T
  <2> QED
      BY <1>8, <2>2, GreatestNatural
<1>10. Max(T) = t
    BY <1>8, <1>9, MaxIs
<1>11. Reassembled(old, zone, rank)
         = [k \in 1..t |-> {n \in zone : rank[n] = k} \cup {n \in rest : LevelIn(old, n) = k}]
    BY <1>3, <1>10 DEF Reassembled
<1>12. \A k : {n \in zone : rank[n] = k} \cup {n \in rest : LevelIn(old, n) = k}
                = {n \in all \cup zone : h[n] = k}
    BY <1>4, <1>6
<1>13. Reassembled(old, zone, rank) = [k \in 1..t |-> {n \in all \cup zone : h[n] = k}]
    BY <1>11, <1>12
<1>14. \A n \in all \cup zone : h[n] <= t
    BY <1>6, <1>7, <1>9
<1>15. \E n \in all \cup zone : h[n] = t
  <2>1. CASE t = 1
    <3>1. PICK n \in zone : TRUE
        OBVIOUS
    <3>2. h[n] \in Nat \ {0} /\ h[n] <= 1
        BY <1>6, <1>14, <2>1
    <3> QED
        BY <2>1, <3>2
  <2>2. CASE t # 1
      BY <1>6, <1>7, <1>9, <2>2
  <2> QED
      BY <2>1, <2>2
<1>16. t \in Nat
    BY <1>8, <1>9
<1>17. Waving(Reassembled(old, zone, rank), h, all \cup zone)
    BY <1>13, <1>14, <1>15, <1>16 DEF Waving
<1> QED
    BY <1>5, <1>17

-----------------------------------------------------------------------------
(* The invariant: the schedule comes from levels that rise along every     *)
(* edge, and as long as nothing was removed from levels that are as low as *)
(* they can be, of the nodes of the graph and of nothing else.             *)

GraphInv ==
    /\ IsGraph(net)
    /\ \/ waves = Failed /\ Cyclic(net)
       \/ \E f, all :
             /\ Waving(waves, f, all)
             /\ Rising(f, EdgeSet(net), all)
             /\ net.nodes \subseteq all
             /\ stale = {} => all = net.nodes /\ Tight(f, EdgeSet(net), net.nodes)

LEMMA GraphInitInv == ASSUME GraphAssumption, GraphInit PROVE GraphInv
<1>1. IsGraph(net)
    BY DEF GraphAssumption, GraphInit
<1>2. PICK nodes, edges : nodes = net.nodes /\ edges = EdgeSet(net)
    OBVIOUS
<1>3. IsFiniteSet(nodes) /\ Within(edges, nodes)
    BY <1>1, <1>2 DEF IsGraph, Within
<1>4. waves = Wavefronts(net)
    BY DEF GraphInit
<1>5. CASE Sortable(edges, nodes)
  <2>1. PICK f : Rising(f, edges, nodes) /\ Tight(f, edges, nodes)
      BY <1>3, <1>5, SortableHasLevels
  <2>2. Waving(waves, f, nodes)
      BY <1>1, <1>2, <1>4, <2>1, WavefrontsWave
  <2> QED
      BY <1>1, <1>2, <2>1, <2>2 DEF GraphInv
<1>6. CASE ~Sortable(edges, nodes)
  <2>1. waves = Failed
      BY <1>2, <1>4, <1>6 DEF Wavefronts
  <2>2. Circular(edges, nodes)
      BY <1>3, <1>6, NotCircularIsSortable
  <2> QED
      BY <1>1, <1>2, <2>1, <2>2 DEF GraphInv, Cyclic
<1> QED
    BY <1>5, <1>6

\* An edit: g is the new graph.  Its edges are old ones and some that start at a
\* touched node, and if no node is gone, an edge that is ended at a touched one.
LEMMA EditGraphInv ==
    ASSUME NEW g, NEW touched, NEW gone, GraphInv, IsGraph(g), EditGraph(g, touched, gone),
           IsFiniteSet(touched), touched # {},
           \A e \in EdgeSet(g) : e \in EdgeSet(net) \/ e.src \in touched,
           g.nodes \subseteq net.nodes \cup touched,
           gone = {} => /\ touched \subseteq g.nodes /\ net.nodes \subseteq g.nodes
                        /\ \A e \in EdgeSet(net) : e \in EdgeSet(g) \/ e.dst \in touched
    PROVE  GraphInv'
<1>1. waves # Failed /\ net' = g /\ waves' = UpdateSchedule(g, waves, touched) /\ stale' = stale \cup gone
    BY DEF EditGraph
<1>2. PICK f, all : /\ Waving(waves, f, all)
                    /\ Rising(f, EdgeSet(net), all)
                    /\ net.nodes \subseteq all
                    /\ stale = {} => all = net.nodes /\ Tight(f, EdgeSet(net), net.nodes)
    BY <1>1 DEF GraphInv
<1>3. PICK zone : zone = Influence(g, touched)
    OBVIOUS
<1>4. PICK nodes, edges : nodes = g.nodes /\ edges = EdgeSet(g)
    OBVIOUS
<1>5. /\ touched \subseteq zone /\ zone \subseteq touched \cup nodes
      /\ \A e \in edges : e.src \in zone <=> e.dst \in zone
    BY <1>3, <1>4, ZoneIsClosed
<1>6. IsFiniteSet(nodes) /\ \A e \in edges : e.src \in nodes /\ e.dst \in nodes
    BY <1>4 DEF IsGraph
<1>7. IsFiniteSet(zone) /\ zone # {}
  <2>1. IsFiniteSet(touched \cup nodes)
      BY <1>6, FS_Union
  <2> QED
      BY <1>5, <2>1, FS_Subset
<1>8. PICK inner : inner = Inner(g, zone)
    OBVIOUS
<1>9. inner = {e \in edges : e.src \in zone /\ e.dst \in zone}
    BY <1>4, <1>8 DEF Inner
<1>10. Within(inner, zone)
    BY <1>9 DEF Within
<1>11. \A e \in edges : e \in EdgeSet(net) \/ e.src \in touched
    BY <1>4
<1>12. CASE ~Sortable(inner, zone)
  <2>1. waves' = Failed
      BY <1>1, <1>3, <1>8, <1>12 DEF UpdateSchedule
  <2>2. PICK C \in SUBSET zone : C # {} /\ \A n \in C : \E e \in inner : e.dst = n /\ e.src \in C
    <3>1. Circular(inner, zone)
        BY <1>7, <1>10, <1>12, NotCircularIsSortable
    <3> QED
        BY <3>1 DEF Circular
  <2>3. \A n \in C : n \in nodes /\ \E e \in edges : e.dst = n /\ e.src \in C
      BY <1>6, <1>9, <2>2
  <2>4. Circular(edges, nodes)
    <3>1. C \in SUBSET nodes
        BY <2>3
    <3> QED
        BY <2>2, <2>3, <3>1 DEF Circular
  <2>5. Cyclic(g)
      BY <1>4, <2>4 DEF Cyclic
  <2>6. IsGraph(net') /\ Cyclic(net')
      BY <1>1, <2>5
  <2> QED
      BY <2>1, <2>6 DEF GraphInv
<1>13. CASE Sortable(inner, zone)
  <2>1. PICK rank : Rising(rank, inner, zone) /\ Tight(rank, inner, zone)
      BY <1>7, <1>10, <1>13, SortableHasLevels
  <2>2. NewLevels(g, waves, zone) = rank
      BY <1>4, <1>5, <1>7, <1>8, <2>1, NewLevelsAre
  <2>3. PICK total : total = Cardinality(zone)
      OBVIOUS
  <2>4. total \in Nat /\ \A n \in zone : rank[n] <= total
    <3>1. total \in Nat
        BY <1>7, <2>3, FS_CardinalityType
    <3>2. Layers(inner, zone)[total] = {n \in zone : rank[n] <= total}
        BY <1>7, <1>10, <2>1, <2>3, <3>1, LevelsAreLayers
    <3>3. Layers(inner, zone)[total] = zone
        BY <1>13, <2>3 DEF Sortable
    <3> QED
        BY <3>1, <3>2, <3>3
  <2>5. waves' = Reassembled(waves, zone, rank)
      BY <1>1, <1>3, <1>8, <1>13, <2>2 DEF UpdateSchedule
  <2>6. PICK h : h = [n \in all \cup zone |-> IF n \in zone THEN rank[n] ELSE f[n]]
      OBVIOUS
  <2>7. f \in [all -> Nat \ {0}] /\ rank \in [zone -> Nat \ {0}]
      BY <1>2, <2>1 DEF Rising
  <2>8. Waving(waves', h, all \cup zone)
      BY <1>2, <1>7, <2>4, <2>5, <2>6, <2>7, ReassembledWaves
  <2>9. /\ h \in [all \cup zone -> Nat \ {0}]
        /\ \A n \in zone : h[n] = rank[n]
        /\ \A n \in all : n \notin zone => h[n] = f[n]
      BY <2>6, <2>7
  <2>10. nodes \subseteq all \cup zone
      BY <1>2, <1>4, <1>5
  <2>11. \A e \in EdgeSet(net) : e.src \in all /\ e.dst \in all /\ f[e.src] < f[e.dst]
    <3>1. \A e \in EdgeSet(net) : e.src \in net.nodes /\ e.dst \in net.nodes
        BY DEF GraphInv, IsGraph
    <3> QED
        BY <1>2, <3>1 DEF Rising
  <2>12. Rising(h, edges, all \cup zone)
    <3>1. ASSUME NEW e \in edges PROVE h[e.src] < h[e.dst]
      <4>1. CASE e.src \in zone
        <5>1. e \in inner
            BY <1>5, <1>9, <4>1
        <5>2. rank[e.src] < rank[e.dst]
            BY <2>1, <5>1 DEF Rising
        <5> QED
            BY <1>5, <2>9, <4>1, <5>2
      <4>2. CASE e.src \notin zone
        <5>1. e \in EdgeSet(net) /\ e.dst \notin zone
            BY <1>5, <1>11, <4>2
        <5> QED
            BY <2>9, <2>11, <4>2, <5>1
      <4> QED
          BY <4>1, <4>2
    <3> QED
        BY <2>9, <3>1 DEF Rising
  <2>13. ASSUME stale' = {} PROVE all \cup zone = nodes /\ Tight(h, edges, nodes)
    <3>1. stale = {} /\ gone = {}
        BY <1>1, <2>13
    <3>2. /\ touched \subseteq nodes /\ net.nodes \subseteq nodes
          /\ \A e \in EdgeSet(net) : e \in edges \/ e.dst \in touched
        BY <1>4, <3>1
    <3>3. all = net.nodes /\ Tight(f, EdgeSet(net), net.nodes)
        BY <1>2, <3>1
    <3>4. all \cup zone = nodes
        BY <1>5, <2>10, <3>2, <3>3
    <3>5. ASSUME NEW n \in nodes, h[n] # 1 PROVE \E e \in edges : e.dst = n /\ h[n] = h[e.src] + 1
      <4>1. CASE n \in zone
        <5>1. rank[n] # 1
            BY <2>9, <3>5, <4>1
        <5>2. PICK e \in inner : e.dst = n /\ rank[n] = rank[e.src] + 1
            BY <2>1, <4>1, <5>1 DEF Tight
        <5>3. e \in edges /\ e.src \in zone
            BY <1>9
        <5> QED
            BY <2>9, <4>1, <5>2, <5>3
      <4>2. CASE n \notin zone
        <5>1. n \in all /\ f[n] # 1 /\ h[n] = f[n]
            BY <2>9, <3>4, <3>5, <4>2
        <5>2. PICK e \in EdgeSet(net) : e.dst = n /\ f[n] = f[e.src] + 1
            BY <3>3, <5>1 DEF Tight
        <5>3. e \in edges
            BY <1>5, <3>2, <4>2, <5>2
        <5>4. e.src \notin zone /\ e.src \in all
            BY <1>5, <2>11, <4>2, <5>2, <5>3
        <5>5. h[e.src] = f[e.src]
            BY <2>9, <5>4
        <5> QED
            BY <5>1, <5>2, <5>3, <5>5
      <4> QED
          BY <4>1, <4>2
    <3> QED
        BY <3>4, <3>5 DEF Tight
  <2>14. /\ Waving(waves', h, all \cup zone)
         /\ Rising(h, EdgeSet(net'), all \cup zone)
         /\ net'.nodes \subseteq all \cup zone
         /\ stale' = {} => all \cup zone = net'.nodes /\ Tight(h, EdgeSet(net'), net'.nodes)
    <3>1. net'.nodes = nodes /\ EdgeSet(net') = edges
        BY <1>1, <1>4
    <3> QED
        BY <2>8, <2>10, <2>12, <2>13, <3>1
  <2>15. IsGraph(net')
      BY <1>1
  <2> QED
      BY <2>14, <2>15 DEF GraphInv
<1> QED
    BY <1>12, <1>13

-----------------------------------------------------------------------------
(* The edits.                                                              *)

LEMMA SeqOfItself ==
    ASSUME NEW T, NEW s \in Seq(T)
    PROVE  s \in Seq(ToSet(s))
<1>1. Len(s) \in Nat /\ DOMAIN s = 1..Len(s) /\ s = [i \in 1..Len(s) |-> s[i]]
    OBVIOUS
<1>2. \A i \in 1..Len(s) : s[i] \in ToSet(s)
    BY <1>1 DEF ToSet
<1>3. s \in [1..Len(s) -> ToSet(s)]
    BY <1>1, <1>2
<1> QED
    BY <1>1, <1>3

LEMMA RemovedAt ==
    ASSUME NEW T, NEW s \in Seq(T), NEW k \in DOMAIN s
    PROVE  /\ RemoveAt(s, k) \in Seq(T)
           /\ ToSet(RemoveAt(s, k)) \subseteq ToSet(s)
           /\ ToSet(s) \subseteq ToSet(RemoveAt(s, k)) \cup {s[k]}
<1>1. Len(s) \in Nat /\ k \in 1..Len(s)
    OBVIOUS
<1>2. PICK a, b : a = SubSeq(s, 1, k - 1) /\ b = SubSeq(s, k + 1, Len(s))
    OBVIOUS
<1>3. /\ a \in Seq(T) /\ Len(a) = k - 1 /\ \A i \in 1..(k - 1) : a[i] = s[i]
      /\ b \in Seq(T) /\ Len(b) = Len(s) - k /\ \A i \in 1..(Len(s) - k) : b[i] = s[k + i]
    BY <1>1, <1>2
<1>4. ToSet(a) = {s[i] : i \in 1..(k - 1)}
  <2>1. DOMAIN a = 1..(k - 1)
      BY <1>3
  <2> QED
      BY <1>3, <2>1 DEF ToSet
<1>5. ToSet(b) = {s[k + i] : i \in 1..(Len(s) - k)}
  <2>1. DOMAIN b = 1..(Len(s) - k)
      BY <1>3
  <2> QED
      BY <1>3, <2>1 DEF ToSet
<1>6. ToSet(s) = {s[i] : i \in 1..Len(s)}
    BY DEF ToSet
<1>7. RemoveAt(s, k) = a \o b
    BY <1>2 DEF RemoveAt
<1>8. a \o b \in Seq(T) /\ ToSet(a \o b) = ToSet(a) \cup ToSet(b)
    BY <1>3, ToSetConcat
<1>9. ToSet(a) \cup ToSet(b) \subseteq ToSet(s)
    BY <1>1, <1>4, <1>5, <1>6
<1>10. ASSUME NEW i \in 1..Len(s) PROVE s[i] \in ToSet(a) \cup ToSet(b) \cup {s[k]}
  <2>1. CASE i < k
      BY <1>1, <1>4, <2>1
  <2>2. CASE i > k
    <3>1. i - k \in 1..(Len(s) - k) /\ k + (i - k) = i
        BY <1>1, <2>2
    <3> QED
        BY <1>5, <3>1
  <2> QED
      BY <1>1, <2>1, <2>2
<1> QED
    BY <1>6, <1>7, <1>8, <1>9, <1>10

LEMMA AmongIs ==
    ASSUME NEW T, NEW s \in Seq(T), NEW S
    PROVE  Among(s, S) \in Seq(T) /\ ToSet(Among(s, S)) = ToSet(s) \cap S
<1> DEFINE f == CHOOSE f : Selecting(f, s, S)
<1>1. Among(s, S) = f[Len(s)]
    BY DEF Among, Selecting
<1>2. Selecting(f, s, S)
    BY SelectingExists
<1>3. Selected(f[Len(s)], s, S, T)
  <2> HIDE DEF f
  <2> QED
      BY <1>2, SelectingSelects
<1> QED
    BY <1>1, <1>3 DEF Selected

LEMMA NetOfIs ==
    ASSUME NEW nodes, NEW edges
    PROVE  NetOf(nodes, edges).nodes = nodes /\ EdgeSet(NetOf(nodes, edges)) = ToSet(edges)
           /\ NetOf(nodes, edges).edges = edges
    BY DEF NetOf, EdgeSet

LEMMA AddEdgeInv == ASSUME GraphInv, AddEdge PROVE GraphInv'
<1>1. PICK e \in NewEdges :
          /\ e.src \in net.nodes
          /\ EditGraph(NetOf(net.nodes \cup {e.dst}, Append(net.edges, e)), {e.src, e.dst}, {})
    BY DEF AddEdge
<1>2. PICK g : g = NetOf(net.nodes \cup {e.dst}, Append(net.edges, e))
    OBVIOUS
<1>3. /\ IsFiniteSet(net.nodes) /\ net.edges \in Seq(EdgeSet(net))
      /\ \A d \in EdgeSet(net) : d.src \in net.nodes /\ d.dst \in net.nodes
    BY DEF GraphInv, IsGraph
<1>4. EdgeSet(g) = EdgeSet(net) \cup {e}
    BY <1>2, <1>3, NetOfIs, ToSetAppend DEF EdgeSet
<1>5. g.nodes = net.nodes \cup {e.dst} /\ g.edges = Append(net.edges, e)
    BY <1>2, NetOfIs
<1>6. IsGraph(g)
  <2>1. IsFiniteSet(g.nodes)
      BY <1>3, <1>5, FS_AddElement
  <2>2. g.edges \in Seq(EdgeSet(g))
    <3>1. PICK E : E = EdgeSet(net) \cup {e}
        OBVIOUS
    <3>2. net.edges \in Seq(E) /\ e \in E
        BY <1>3, <3>1
    <3>3. Append(net.edges, e) \in Seq(E)
        BY <3>2
    <3> QED
        BY <1>4, <1>5, <3>1, <3>3
  <2>3. \A d \in EdgeSet(g) : d.src \in g.nodes /\ d.dst \in g.nodes
      BY <1>1, <1>3, <1>4, <1>5
  <2> QED
      BY <2>1, <2>2, <2>3 DEF IsGraph
<1>7. IsFiniteSet({e.src, e.dst})
  <2>1. IsFiniteSet({e.dst})
      BY FS_Singleton
  <2>2. IsFiniteSet({e.dst} \cup {e.src})
      BY <2>1, FS_AddElement
  <2>3. {e.dst} \cup {e.src} = {e.src, e.dst}
      OBVIOUS
  <2> QED
      BY <2>2, <2>3
<1>8. PICK touched : touched = {e.src, e.dst}
    OBVIOUS
<1>9. /\ IsFiniteSet(touched) /\ touched # {}
      /\ \A d \in EdgeSet(g) : d \in EdgeSet(net) \/ d.src \in touched
      /\ g.nodes \subseteq net.nodes \cup touched
      /\ touched \subseteq g.nodes /\ net.nodes \subseteq g.nodes
      /\ \A d \in EdgeSet(net) : d \in EdgeSet(g)
    BY <1>1, <1>4, <1>5, <1>7, <1>8
<1>10. EditGraph(g, touched, {})
    BY <1>1, <1>2, <1>8
<1> QED
    BY <1>6, <1>9, <1>10, EditGraphInv

LEMMA RemoveEdgeInv == ASSUME GraphInv, RemoveEdge PROVE GraphInv'
<1>1. PICK k \in DOMAIN net.edges :
          EditGraph(NetOf(net.nodes, RemoveAt(net.edges, k)), {net.edges[k].src, net.edges[k].dst}, {})
    BY DEF RemoveEdge
<1>2. PICK g : g = NetOf(net.nodes, RemoveAt(net.edges, k))
    OBVIOUS
<1>3. PICK s, e : s = net.edges /\ e = net.edges[k]
    OBVIOUS
<1>4. /\ IsFiniteSet(net.nodes) /\ s \in Seq(EdgeSet(net)) /\ k \in DOMAIN s /\ EdgeSet(net) = ToSet(s)
      /\ \A d \in EdgeSet(net) : d.src \in net.nodes /\ d.dst \in net.nodes
    BY <1>3 DEF GraphInv, IsGraph, EdgeSet
<1>5. g.nodes = net.nodes /\ g.edges = RemoveAt(s, k) /\ EdgeSet(g) = ToSet(RemoveAt(s, k))
    BY <1>2, <1>3, NetOfIs
<1>6. /\ RemoveAt(s, k) \in Seq(EdgeSet(net))
      /\ EdgeSet(g) \subseteq EdgeSet(net)
      /\ EdgeSet(net) \subseteq EdgeSet(g) \cup {e}
    BY <1>3, <1>4, <1>5, RemovedAt
<1>7. e \in EdgeSet(net)
    BY <1>3, <1>4 DEF ToSet
<1>8. IsGraph(g)
  <2>1. g.edges \in Seq(EdgeSet(g))
      BY <1>5, <1>6, SeqOfItself
  <2>2. \A d \in EdgeSet(g) : d.src \in g.nodes /\ d.dst \in g.nodes
      BY <1>4, <1>5, <1>6
  <2>3. IsFiniteSet(g.nodes)
      BY <1>4, <1>5
  <2> QED
      BY <2>1, <2>2, <2>3 DEF IsGraph
<1>9. PICK touched : touched = {e.src, e.dst}
    OBVIOUS
<1>10. IsFiniteSet(touched)
  <2>1. IsFiniteSet({e.dst})
      BY FS_Singleton
  <2>2. IsFiniteSet({e.dst} \cup {e.src})
      BY <2>1, FS_AddElement
  <2>3. {e.dst} \cup {e.src} = touched
      BY <1>9
  <2> QED
      BY <2>2, <2>3
<1>11. /\ touched # {}
       /\ \A d \in EdgeSet(g) : d \in EdgeSet(net) \/ d.src \in touched
       /\ g.nodes \subseteq net.nodes \cup touched
       /\ touched \subseteq g.nodes /\ net.nodes \subseteq g.nodes
       /\ \A d \in EdgeSet(net) : d \in EdgeSet(g) \/ d.dst \in touched
  <2>1. e.src \in net.nodes /\ e.dst \in net.nodes
      BY <1>4, <1>7
  <2> QED
      BY <1>5, <1>6, <1>9, <2>1
<1>12. EditGraph(g, touched, {})
    BY <1>1, <1>2, <1>3, <1>9
<1> QED
    BY <1>8, <1>10, <1>11, <1>12, EditGraphInv

LEMMA RemoveNodeInv == ASSUME GraphInv, RemoveNode PROVE GraphInv'
<1> DEFINE Others(n) == {e \in EdgeSet(net) : n \notin {e.src, e.dst}}
<1>1. PICK n \in net.nodes :
          EditGraph(NetOf(net.nodes \ {n}, Among(net.edges, Others(n))), {n}, {n})
    BY DEF RemoveNode
<1>2. PICK g : g = NetOf(net.nodes \ {n}, Among(net.edges, Others(n)))
    OBVIOUS
<1>3. /\ IsFiniteSet(net.nodes) /\ net.edges \in Seq(EdgeSet(net)) /\ EdgeSet(net) = ToSet(net.edges)
      /\ \A d \in EdgeSet(net) : d.src \in net.nodes /\ d.dst \in net.nodes
    BY DEF GraphInv, IsGraph, EdgeSet
<1>4. PICK s, others : s = net.edges /\ others = Others(n)
    OBVIOUS
<1>5. Among(s, others) \in Seq(EdgeSet(net)) /\ ToSet(Among(s, others)) = ToSet(s) \cap others
    BY <1>3, <1>4, AmongIs
<1>6. g.nodes = net.nodes \ {n} /\ g.edges = Among(s, others) /\ EdgeSet(g) = Others(n)
    BY <1>2, <1>3, <1>4, <1>5, NetOfIs
<1>7. IsGraph(g)
  <2>1. g.edges \in Seq(EdgeSet(g))
    <3>1. Among(s, others) \in Seq(ToSet(Among(s, others)))
        BY <1>5, SeqOfItself
    <3> QED
        BY <1>3, <1>4, <1>5, <1>6, <3>1
  <2>2. IsFiniteSet(g.nodes)
      BY <1>3, <1>6, FS_Subset
  <2>3. \A d \in EdgeSet(g) : d.src \in g.nodes /\ d.dst \in g.nodes
      BY <1>3, <1>6
  <2> QED
      BY <2>1, <2>2, <2>3 DEF IsGraph
<1>8. /\ \A d \in EdgeSet(g) : d \in EdgeSet(net)
      /\ g.nodes \subseteq net.nodes \cup {n}
      /\ {n} # {} /\ IsFiniteSet({n})
    BY <1>6, FS_Singleton
<1>9. EditGraph(g, {n}, {n})
    BY <1>1, <1>2
<1> QED
    BY <1>7, <1>8, <1>9, EditGraphInv

LEMMA GraphStepInv == ASSUME GraphInv, [GraphNext]_graphVars PROVE GraphInv'
<1>1. ASSUME UNCHANGED <<net, waves, stale>> PROVE GraphInv'
    BY <1>1 DEF GraphInv
<1>2. CASE UNCHANGED graphVars
    BY <1>1, <1>2 DEF graphVars
<1>3. ASSUME NEW i \in {1, 2}, NEW j \in {1, 2}, Crossover(i, j) PROVE GraphInv'
    BY <1>1, <1>3 DEF Crossover
<1> QED
    BY <1>2, <1>3, AddEdgeInv, RemoveEdgeInv, RemoveNodeInv DEF GraphNext

-----------------------------------------------------------------------------
\* A repaired schedule orders the graph, and where nothing was removed it is the
\* one that a full computation gives.
LEMMA InvShowsSchedule == ASSUME GraphInv PROVE ScheduleIsRepaired
<1>1. CASE waves = Failed
  <2>1. ASSUME NEW f, NEW all, Rising(f, EdgeSet(net), all), Waving(waves, f, all) PROVE FALSE
    <3>1. f \in [all -> Nat \ {0}]
        BY <2>1 DEF Rising
    <3> QED
        BY <1>1, <2>1, <3>1, WavingShows
  <2> QED
      BY <1>1, <2>1 DEF GraphInv, ScheduleIsRepaired
<1>2. CASE waves # Failed
  <2>1. PICK f, all : /\ Waving(waves, f, all)
                      /\ Rising(f, EdgeSet(net), all)
                      /\ net.nodes \subseteq all
                      /\ stale = {} => all = net.nodes /\ Tight(f, EdgeSet(net), net.nodes)
      BY <1>2 DEF GraphInv
  <2>2. f \in [all -> Nat \ {0}]
      BY <2>1 DEF Rising
  <2>3. \A n \in all : {k \in DOMAIN waves : n \in waves[k]} = {f[n]} /\ LevelIn(waves, n) = f[n]
      BY <2>1, <2>2, WavingShows
  <2>4. ~Cyclic(net)
      BY <2>1, RisingIsNotCircular DEF Cyclic
  <2>5. \A n \in net.nodes : Cardinality({k \in DOMAIN waves : n \in waves[k]}) = 1
    <3>1. \A n \in net.nodes : Cardinality({f[n]}) = 1
        BY FS_Singleton
    <3> QED
        BY <2>1, <2>3, <3>1
  <2>6. \A e \in EdgeSet(net) : LevelIn(waves, e.src) < LevelIn(waves, e.dst)
    <3>1. \A e \in EdgeSet(net) : e.src \in all /\ e.dst \in all
        BY <2>1 DEF GraphInv, IsGraph
    <3> QED
        BY <2>1, <2>3, <3>1 DEF Rising
  <2>7. stale = {} => waves = Wavefronts(net)
    <3>1. SUFFICES ASSUME stale = {} PROVE waves = Wavefronts(net)
        OBVIOUS
    <3>2. all = net.nodes /\ Tight(f, EdgeSet(net), net.nodes) /\ IsGraph(net)
        BY <2>1, <3>1 DEF GraphInv
    <3>3. Waving(Wavefronts(net), f, net.nodes)
        BY <2>1, <3>2, WavefrontsWave
    <3> QED
        BY <2>1, <3>2, <3>3, WavingIsUnique
  <2> QED
      BY <1>2, <2>4, <2>5, <2>6, <2>7 DEF ScheduleIsRepaired
<1> QED
    BY <1>1, <1>2

-----------------------------------------------------------------------------
(* How many elements of a sequence are in a set.                           *)

Num(s, P) == Cardinality({k \in DOMAIN s : s[k] \in P})

LEMMA NumIsNatural ==
    ASSUME NEW T, NEW s \in Seq(T), NEW P
    PROVE  Num(s, P) \in Nat /\ IsFiniteSet({k \in DOMAIN s : s[k] \in P})
<1>1. DOMAIN s = 1..Len(s) /\ Len(s) \in Nat
    OBVIOUS
<1>2. IsFiniteSet(1..Len(s))
    BY <1>1, FS_Interval
<1>3. IsFiniteSet({k \in DOMAIN s : s[k] \in P})
    BY <1>1, <1>2, FS_Subset
<1> QED
    BY <1>3, FS_CardinalityType DEF Num

\* Sequences that are alike have the same number.
LEMMA NumAlike ==
    ASSUME NEW s, NEW t, DOMAIN s = DOMAIN t, NEW P, NEW Q,
           \A k \in DOMAIN s : s[k] \in P <=> t[k] \in Q
    PROVE  Num(s, P) = Num(t, Q)
<1>1. {k \in DOMAIN s : s[k] \in P} = {k \in DOMAIN t : t[k] \in Q}
    OBVIOUS
<1> QED
    BY <1>1 DEF Num

LEMMA NumNone ==
    ASSUME NEW s, NEW P, \A k \in DOMAIN s : s[k] \notin P
    PROVE  Num(s, P) = 0
<1>1. {k \in DOMAIN s : s[k] \in P} = {}
    OBVIOUS
<1> QED
    BY <1>1, FS_EmptySet DEF Num

LEMMA NumAll ==
    ASSUME NEW n \in Nat, NEW s, DOMAIN s = 1..n, NEW P, \A k \in DOMAIN s : s[k] \in P
    PROVE  Num(s, P) = n
<1>1. {k \in DOMAIN s : s[k] \in P} = 1..n
    OBVIOUS
<1>2. Cardinality(1..n) = n
    BY FS_Interval
<1> QED
    BY <1>1, <1>2 DEF Num

LEMMA NumSplit ==
    ASSUME NEW T, NEW s \in Seq(T), NEW P, NEW Q, P \cap Q = {}
    PROVE  Num(s, P \cup Q) = Num(s, P) + Num(s, Q)
<1>1. PICK A, B : A = {k \in DOMAIN s : s[k] \in P} /\ B = {k \in DOMAIN s : s[k] \in Q}
    OBVIOUS
<1>2. IsFiniteSet(A) /\ IsFiniteSet(B)
    BY <1>1, NumIsNatural
<1>3. {k \in DOMAIN s : s[k] \in P \cup Q} = A \cup B /\ A \cap B = {}
    BY <1>1
<1>4. Cardinality(A \cup B) = Cardinality(A) + Cardinality(B) - Cardinality({})
    BY <1>2, <1>3, FS_Union
<1>5. Cardinality({}) = 0 /\ Cardinality(A) \in Nat /\ Cardinality(B) \in Nat
    BY <1>2, FS_EmptySet, FS_CardinalityType
<1>6. Cardinality(A \cup B) = Cardinality(A) + Cardinality(B)
    BY <1>4, <1>5
<1> QED
    BY <1>1, <1>3, <1>6 DEF Num

LEMMA NumConcat ==
    ASSUME NEW T, NEW s \in Seq(T), NEW t \in Seq(T), NEW P
    PROVE  Num(s \o t, P) = Num(s, P) + Num(t, P)
<1>1. PICK n, m, c : n = Len(s) /\ m = Len(t) /\ c = s \o t
    OBVIOUS
<1>2. /\ n \in Nat /\ m \in Nat /\ DOMAIN s = 1..n /\ DOMAIN t = 1..m /\ DOMAIN c = 1..(n + m)
      /\ \A i \in 1..(n + m) : c[i] = IF i <= n THEN s[i] ELSE t[i - n]
    BY <1>1
<1>3. PICK A, B : A = {k \in DOMAIN s : s[k] \in P} /\ B = {k \in DOMAIN t : t[k] \in P}
    OBVIOUS
<1> DEFINE C == {k + n : k \in B}
           f == [k \in B |-> k + n]
<1>4. IsFiniteSet(A) /\ IsFiniteSet(B) /\ A \subseteq 1..n /\ B \subseteq 1..m
    BY <1>2, <1>3, NumIsNatural
<1>5. IsFiniteSet(C) /\ Cardinality(C) = Cardinality(B)
  <2>1. f \in Bijection(B, C)
    <3>1. \A k \in B : k \in Nat
        BY <1>4
    <3>2. \A j \in B, k \in B : j + n = k + n => j = k
        BY <1>2, <3>1
    <3>3. f \in [B -> C] /\ \A j \in B, k \in B : f[j] = f[k] => j = k
        BY <3>2
    <3>4. \A c2 \in C : \E k \in B : f[k] = c2
        OBVIOUS
    <3> QED
        BY <3>3, <3>4 DEF Bijection, Injection, Surjection, IsInjective
  <2>2. ExistsBijection(B, C)
      BY <2>1 DEF ExistsBijection
  <2> QED
      BY <1>4, <2>2, FS_Bijection
<1>6. {k \in DOMAIN c : c[k] \in P} = A \cup C
  <2>1. \A k \in 1..(n + m) : k <= n => (c[k] \in P <=> k \in A) /\ k \notin C
      BY <1>2, <1>3, <1>4
  <2>2. \A k \in 1..(n + m) : ~(k <= n) => (c[k] \in P <=> k - n \in B) /\ k \notin A
      BY <1>2, <1>3, <1>4
  <2>3. \A k \in 1..(n + m) : k - n \in B <=> k \in C
      BY <1>2, <1>4
  <2>4. A \cup C \subseteq 1..(n + m)
    <3>1. A \subseteq 1..(n + m)
        BY <1>2, <1>4
    <3>2. \A k \in B : k + n \in 1..(n + m)
        BY <1>2, <1>4
    <3> QED
        BY <3>1, <3>2
  <2> QED
      BY <1>2, <2>1, <2>2, <2>3, <2>4
<1>7. A \cap C = {}
    BY <1>2, <1>4
<1>8. Cardinality(A \cup C) = Cardinality(A) + Cardinality(C) - Cardinality({})
    BY <1>4, <1>5, <1>7, FS_Union
<1>9. Cardinality({}) = 0 /\ Cardinality(A) \in Nat /\ Cardinality(B) \in Nat
    BY <1>4, FS_EmptySet, FS_CardinalityType
<1>10. Cardinality(A \cup C) = Cardinality(A) + Cardinality(B)
    BY <1>5, <1>8, <1>9
<1> QED
    BY <1>1, <1>3, <1>6, <1>10 DEF Num

LEMMA NumOne ==
    ASSUME NEW x, NEW P
    PROVE  Num(<<x>>, P) = IF x \in P THEN 1 ELSE 0
<1>1. DOMAIN <<x>> = 1..1 /\ <<x>>[1] = x
    OBVIOUS
<1>2. CASE x \in P
  <2>1. \A k \in DOMAIN <<x>> : <<x>>[k] \in P
      BY <1>1, <1>2
  <2> QED
      BY <1>1, <1>2, <2>1, NumAll
<1>3. CASE x \notin P
    BY <1>1, <1>3, NumNone
<1> QED
    BY <1>2, <1>3

LEMMA NumAppend ==
    ASSUME NEW T, NEW s \in Seq(T), NEW x, NEW P
    PROVE  Num(Append(s, x), P) = Num(s, P) + IF x \in P THEN 1 ELSE 0
<1>1. PICK E : E = T \cup {x}
    OBVIOUS
<1>2. s \in Seq(E) /\ <<x>> \in Seq(E)
    BY <1>1
<1>3. Append(s, x) = s \o <<x>>
    OBVIOUS
<1>4. PICK u : u = <<x>>
    OBVIOUS
<1>5. Num(s \o u, P) = Num(s, P) + Num(u, P)
    BY <1>2, <1>4, NumConcat
<1> QED
    BY <1>3, <1>4, <1>5, NumOne

Joins(c, a, b, T) ==
    /\ c \in Seq(T) /\ Len(c) = Len(a) + Len(b)
    /\ \A i \in 1..(Len(a) + Len(b)) : c[i] = IF i <= Len(a) THEN a[i] ELSE b[i - Len(a)]

LEMMA ConcatIs ==
    ASSUME NEW T, NEW a \in Seq(T), NEW b \in Seq(T)
    PROVE  Joins(a \o b, a, b, T)
<1>1. /\ a \o b \in Seq(T) /\ Len(a \o b) = Len(a) + Len(b)
      /\ \A i \in 1..(Len(a) + Len(b)) : (a \o b)[i] = IF i <= Len(a) THEN a[i] ELSE b[i - Len(a)]
    OBVIOUS
<1> QED
    BY <1>1 DEF Joins

LEMMA NumRemoveAt ==
    ASSUME NEW T, NEW s \in Seq(T), NEW i \in DOMAIN s, NEW P
    PROVE  Num(s, P) = Num(RemoveAt(s, i), P) + IF s[i] \in P THEN 1 ELSE 0
<1>1. Len(s) \in Nat /\ i \in 1..Len(s)
    OBVIOUS
<1>2. PICK a, b, x : a = SubSeq(s, 1, i - 1) /\ b = SubSeq(s, i + 1, Len(s)) /\ x = <<s[i]>>
    OBVIOUS
<1>3. a \in Seq(T) /\ b \in Seq(T) /\ x \in Seq(T)
    BY <1>1, <1>2
<1>4. /\ Len(a) = i - 1 /\ \A k \in 1..(i - 1) : a[k] = s[k]
      /\ Len(b) = Len(s) - i /\ \A k \in 1..(Len(s) - i) : b[k] = s[i + k]
      /\ Len(x) = 1 /\ x[1] = s[i]
    BY <1>1, <1>2
<1>5. PICK u : u = a \o x
    OBVIOUS
<1>6. u \in Seq(T) /\ Len(u) = i /\ \A k \in 1..i : u[k] = s[k]
  <2>1. PICK j : j = i - 1
      OBVIOUS
  <2>2. j \in Nat /\ j + 1 = i
      BY <1>1, <2>1
  <2>3. Len(a) = j /\ Len(x) = 1
      BY <1>4, <2>1
  <2>4. u \in Seq(T) /\ Len(u) = j + 1
        /\ \A k \in 1..(j + 1) : u[k] = IF k <= j THEN a[k] ELSE x[k - j]
    <3>1. Joins(u, a, x, T)
        BY <1>3, <1>5, ConcatIs
    <3> QED
        BY <2>3, <3>1 DEF Joins
  <2>5. ASSUME NEW k \in 1..i PROVE u[k] = s[k]
    <3>1. CASE k <= j
        BY <1>4, <2>1, <2>2, <2>4, <3>1
    <3>2. CASE ~(k <= j)
      <4>1. k = i /\ k - j = 1
          BY <2>2, <3>2
      <4> QED
          BY <1>4, <2>2, <2>4, <3>2, <4>1
    <3> QED
        BY <3>1, <3>2
  <2> QED
      BY <2>2, <2>4, <2>5
<1>7. PICK c : c = u \o b
    OBVIOUS
<1>8. c = s
  <2>1. c \in Seq(T) /\ Len(c) = Len(s)
        /\ \A k \in 1..Len(s) : c[k] = IF k <= i THEN u[k] ELSE b[k - i]
    <3>1. PICK l : l = Len(s) - i
        OBVIOUS
    <3>2. l = Len(b) /\ i = Len(u) /\ i + l = Len(s)
        BY <1>1, <1>4, <1>6, <3>1
    <3>3. c \in Seq(T) /\ Len(c) = i + l
          /\ \A k \in 1..(i + l) : c[k] = IF k <= i THEN u[k] ELSE b[k - i]
      <4>1. Joins(c, u, b, T)
          BY <1>3, <1>6, <1>7, ConcatIs
      <4> QED
          BY <3>2, <4>1 DEF Joins
    <3> QED
        BY <3>2, <3>3
  <2>2. ASSUME NEW k \in 1..Len(s) PROVE c[k] = s[k]
    <3>1. CASE k <= i
        BY <1>1, <1>6, <2>1, <3>1
    <3>2. CASE ~(k <= i)
      <4>1. k - i \in 1..(Len(s) - i) /\ i + (k - i) = k
          BY <1>1, <3>2
      <4>2. b[k - i] = s[i + (k - i)]
          BY <1>4, <4>1
      <4> QED
          BY <2>1, <3>2, <4>1, <4>2
    <3> QED
        BY <3>1, <3>2
  <2> QED
      BY <2>1, <2>2
<1>9. Num(s, P) = Num(u, P) + Num(b, P)
  <2>1. u \in Seq(T) /\ b \in Seq(T) /\ s = u \o b
      BY <1>3, <1>6, <1>7, <1>8
  <2> QED
      BY <2>1, NumConcat
<1>10. Num(u, P) = Num(a, P) + Num(x, P)
    BY <1>3, <1>5, NumConcat
<1>11. Num(RemoveAt(s, i), P) = Num(a, P) + Num(b, P)
  <2>1. RemoveAt(s, i) = a \o b
      BY <1>2 DEF RemoveAt
  <2> QED
      BY <1>3, <2>1, NumConcat
<1>12. Num(x, P) = IF s[i] \in P THEN 1 ELSE 0
    BY <1>2, NumOne
<1>13. Num(a, P) \in Nat /\ Num(b, P) \in Nat
    BY <1>3, NumIsNatural
<1> QED
    BY <1>9, <1>10, <1>11, <1>12, <1>13

LEMMA NothingFirst ==
    ASSUME NEW T, NEW s \in Seq(T)
    PROVE  SubSeq(s, 1, 0) = <<>> /\ SubSeq(s, 1, Len(s)) = s
<1>1. PICK a, b : a = SubSeq(s, 1, 0) /\ b = SubSeq(s, 1, Len(s))
    OBVIOUS
<1>2. a \in Seq(T) /\ Len(a) = 0
    BY <1>1
<1>3. b \in Seq(T) /\ Len(b) = Len(s) /\ \A i \in 1..Len(s) : b[i] = s[i]
    BY <1>1
<1>4. a = <<>> /\ b = s
    BY <1>2, <1>3
<1> QED
    BY <1>1, <1>4

LEMMA OneMore ==
    ASSUME NEW T, NEW s \in Seq(T), NEW k \in 1..Len(s)
    PROVE  /\ SubSeq(s, 1, k - 1) \in Seq(T)
           /\ SubSeq(s, 1, k) = Append(SubSeq(s, 1, k - 1), s[k])
<1>1. PICK a, b : a = SubSeq(s, 1, k - 1) /\ b = SubSeq(s, 1, k)
    OBVIOUS
<1>2. Len(s) \in Nat /\ k \in Nat /\ k >= 1 /\ k <= Len(s) /\ s[k] \in T
    OBVIOUS
<1>3. a \in Seq(T) /\ Len(a) = k - 1 /\ \A i \in 1..(k - 1) : a[i] = s[i]
    BY <1>1, <1>2
<1>4. b \in Seq(T) /\ Len(b) = k /\ \A i \in 1..k : b[i] = s[i]
    BY <1>1, <1>2
<1>5. PICK c : c = Append(a, s[k])
    OBVIOUS
<1>6. c \in Seq(T) /\ Len(c) = k /\ \A i \in 1..k : c[i] = IF i <= k - 1 THEN a[i] ELSE s[k]
    BY <1>2, <1>3, <1>5
<1>7. ASSUME NEW i \in 1..k PROVE c[i] = b[i]
  <2>1. CASE i = k
      BY <1>2, <1>4, <1>6, <2>1
  <2>2. CASE i # k
    <3>1. i \in 1..(k - 1) /\ i <= k - 1
        BY <1>2, <2>2
    <3> QED
        BY <1>3, <1>4, <1>6, <3>1
  <2> QED
      BY <2>1, <2>2
<1>8. c = b
    BY <1>4, <1>6, <1>7
<1> QED
    BY <1>1, <1>3, <1>5, <1>8

\* What is selected is counted as it is in the sequence.
LEMMA NumAmong ==
    ASSUME NEW T, NEW s \in Seq(T), NEW S, NEW P
    PROVE  Num(Among(s, S), P) = Num(s, S \cap P)
<1> DEFINE sel == CHOOSE f : Selecting(f, s, S)
<1>1. Among(s, S) = sel[Len(s)]
    BY DEF Among, Selecting
<1>2. Selecting(sel, s, S)
    BY SelectingExists
<1> HIDE DEF sel
<1>3. PICK f, n : f = sel /\ n = Len(s)
    OBVIOUS
<1>4. n \in Nat
    BY <1>3
<1>5. f[0] = <<>> /\ \A k \in 1..n : f[k] = IF s[k] \in S THEN Append(f[k - 1], s[k]) ELSE f[k - 1]
  <2>1. f = [k \in 0..n |-> IF k = 0 THEN <<>>
                            ELSE IF s[k] \in S THEN Append(f[k - 1], s[k]) ELSE f[k - 1]]
      BY <1>2, <1>3 DEF Selecting
  <2>2. \A k \in 0..n : f[k] = IF k = 0 THEN <<>>
                               ELSE IF s[k] \in S THEN Append(f[k - 1], s[k]) ELSE f[k - 1]
      BY <2>1
  <2>3. 0 \in 0..n /\ \A k \in 1..n : k \in 0..n /\ k # 0
      BY <1>4
  <2> QED
      BY <2>2, <2>3
<1> DEFINE Pre(k) == SubSeq(s, 1, k)
           G == {k \in 0..n : f[k] \in Seq(T) /\ Num(f[k], P) = Num(Pre(k), S \cap P)}
<1>6. 0 \in G
  <2>1. Pre(0) = <<>> /\ Num(<<>>, P) = 0 /\ Num(<<>>, S \cap P) = 0 /\ <<>> \in Seq(T)
      BY NothingFirst, NumNone
  <2>2. Num(f[0], P) = 0 /\ f[0] \in Seq(T)
      BY <1>5, <2>1
  <2>3. Num(Pre(0), S \cap P) = 0
      BY <2>1
  <2>4. 0 \in 0..n
      BY <1>4
  <2> HIDE DEF Pre
  <2> QED
      BY <2>2, <2>3, <2>4
<1>7. ASSUME NEW k \in 1..n, k - 1 \in G PROVE k \in G
  <2>1. PICK p, q, x : p = Pre(k - 1) /\ q = f[k - 1] /\ x = s[k]
      OBVIOUS
  <2>2. p \in Seq(T) /\ Pre(k) = Append(p, x) /\ x \in T
      BY <1>3, <2>1, OneMore
  <2>3. q \in Seq(T) /\ Num(q, P) = Num(p, S \cap P)
      BY <1>7, <2>1
  <2>4. Num(Pre(k), S \cap P) = Num(p, S \cap P) + IF x \in S \cap P THEN 1 ELSE 0
    <3>1. PICK W : W = S \cap P
        OBVIOUS
    <3>2. Num(Append(p, x), W) = Num(p, W) + IF x \in W THEN 1 ELSE 0
        BY <2>2, NumAppend
    <3> QED
        BY <2>2, <3>1, <3>2
  <2>5. Num(p, S \cap P) \in Nat
      BY <2>2, NumIsNatural
  <2>6. k \in 0..n
      BY <1>4
  <2>7. CASE x \in S
    <3>1. f[k] = Append(q, x)
        BY <1>5, <2>1, <2>7
    <3>2. Num(Append(q, x), P) = Num(q, P) + IF x \in P THEN 1 ELSE 0
        BY <2>3, NumAppend
    <3>3. Append(q, x) \in Seq(T)
        BY <2>2, <2>3
    <3>4. Num(f[k], P) = Num(Pre(k), S \cap P)
        BY <2>3, <2>4, <2>7, <3>1, <3>2
    <3> QED
        BY <2>6, <3>1, <3>3, <3>4
  <2>8. CASE x \notin S
    <3>1. f[k] = q
        BY <1>5, <2>1, <2>8
    <3>2. Num(f[k], P) = Num(Pre(k), S \cap P)
        BY <2>3, <2>4, <2>5, <2>8, <3>1
    <3> QED
        BY <2>3, <2>6, <3>1, <3>2
  <2> QED
      BY <2>7, <2>8
<1>8. n \in G
  <2> HIDE DEF G
  <2>1. \A k \in 1..n : k - 1 \in G => k \in G
      BY <1>7
  <2>2. \A k \in 0..n : k \in G
      BY <1>4, <1>6, <2>1, CountingUp
  <2> QED
      BY <1>4, <2>2
<1>9. Pre(n) = s
    BY <1>3, NothingFirst
<1> QED
    BY <1>1, <1>3, <1>8, <1>9

-----------------------------------------------------------------------------
(* The edges of the context meet those of the donor.                       *)

\* The smallest number of a set.
LEMMA MinIs ==
    ASSUME NEW S \in SUBSET Nat, S # {}
    PROVE  Min(S) \in S /\ \A x \in S : Min(S) <= x
<1>1. \E n \in S : \A x \in S : n =< x
    BY LeastNatural
<1> QED
    BY <1>1 DEF Min

\* A state of the matching of ts and ds, of which some were looked at.
Matching(T, D) == [met : Seq(T), by : Seq(D), ts : Seq(T), ds : Seq(D)]
Fits(m) ==
    /\ Len(m.met) = Len(m.by)
    /\ \A k \in DOMAIN m.met : Unifiable(m.met[k].st, m.by[k].dt)

LEMMA MeetIs ==
    ASSUME NEW T, NEW D, NEW m \in Matching(T, D), NEW t \in T
    PROVE  Meet(m, t) \in Matching(T, D)
<1> DEFINE fit == {k \in DOMAIN m.ds : Unifiable(t.st, m.ds[k].dt)}
<1>1. m.met \in Seq(T) /\ m.by \in Seq(D) /\ m.ts \in Seq(T) /\ m.ds \in Seq(D)
    BY DEF Matching
<1>2. CASE fit = {}
  <2>1. Meet(m, t) = [met |-> m.met, by |-> m.by, ts |-> Append(m.ts, t), ds |-> m.ds]
      BY <1>2 DEF Meet
  <2>2. Append(m.ts, t) \in Seq(T)
      BY <1>1
  <2> QED
      BY <1>1, <2>1, <2>2 DEF Matching
<1>3. CASE fit # {}
  <2>1. PICK i : i = Min(fit)
      OBVIOUS
  <2>2. i \in DOMAIN m.ds
    <3>1. fit \in SUBSET Nat
        BY <1>1
    <3> QED
        BY <1>3, <2>1, <3>1, MinIs
  <2>3. Meet(m, t) = [met |-> Append(m.met, t), by |-> Append(m.by, m.ds[i]),
                      ts |-> m.ts, ds |-> RemoveAt(m.ds, i)]
      BY <1>3, <2>1 DEF Meet
  <2>4. Append(m.met, t) \in Seq(T) /\ Append(m.by, m.ds[i]) \in Seq(D) /\ RemoveAt(m.ds, i) \in Seq(D)
      BY <1>1, <2>2, RemovedAt
  <2> QED
      BY <1>1, <2>3, <2>4 DEF Matching
<1> QED
    BY <1>2, <1>3

\* One step of the matching: the edges that were looked at are p, and then p and t.
LEMMA MeetKeeps ==
    ASSUME NEW T, NEW D, NEW m \in Matching(T, D), NEW t \in T, Fits(m),
           NEW p \in Seq(T), NEW ds \in Seq(D), NEW P, NEW Q,
           Num(m.met, P) + Num(m.ts, P) = Num(p, P),
           Num(m.by, Q) + Num(m.ds, Q) = Num(ds, Q)
    PROVE  /\ Fits(Meet(m, t))
           /\ Num(Meet(m, t).met, P) + Num(Meet(m, t).ts, P) = Num(Append(p, t), P)
           /\ Num(Meet(m, t).by, Q) + Num(Meet(m, t).ds, Q) = Num(ds, Q)
<1> DEFINE fit == {k \in DOMAIN m.ds : Unifiable(t.st, m.ds[k].dt)}
<1>1. PICK met, by, us, vs : met = m.met /\ by = m.by /\ us = m.ts /\ vs = m.ds
    OBVIOUS
<1>2. met \in Seq(T) /\ by \in Seq(D) /\ us \in Seq(T) /\ vs \in Seq(D)
    BY <1>1 DEF Matching
<1>3. /\ Num(met, P) \in Nat /\ Num(us, P) \in Nat /\ Num(by, Q) \in Nat /\ Num(vs, Q) \in Nat
      /\ Num(p, P) \in Nat
    BY <1>2, NumIsNatural
<1>4. Num(Append(p, t), P) = Num(p, P) + IF t \in P THEN 1 ELSE 0
    BY NumAppend
<1>5. Num(met, P) + Num(us, P) = Num(p, P) /\ Num(by, Q) + Num(vs, Q) = Num(ds, Q)
    BY <1>1
<1>6. Len(met) = Len(by) /\ \A k \in DOMAIN met : Unifiable(met[k].st, by[k].dt)
    BY <1>1 DEF Fits
<1>7. CASE fit = {}
  <2>1. Meet(m, t) = [met |-> met, by |-> by, ts |-> Append(us, t), ds |-> vs]
      BY <1>1, <1>7 DEF Meet
  <2>2. Num(Append(us, t), P) = Num(us, P) + IF t \in P THEN 1 ELSE 0
      BY <1>2, NumAppend
  <2>3. Num(met, P) + Num(Append(us, t), P) = Num(Append(p, t), P)
      BY <1>3, <1>4, <1>5, <2>2
  <2>4. PICK x : x = Meet(m, t)
      OBVIOUS
  <2>5. x.met = met /\ x.by = by /\ x.ts = Append(us, t) /\ x.ds = vs
      BY <2>1, <2>4
  <2>6. Fits(x)
      BY <1>6, <2>5 DEF Fits
  <2> QED
      BY <1>5, <2>3, <2>4, <2>5, <2>6
<1>8. CASE fit # {}
  <2>1. PICK i : i = Min(fit)
      OBVIOUS
  <2>2. i \in DOMAIN vs /\ Unifiable(t.st, vs[i].dt)
    <3>1. fit \in SUBSET Nat
        BY <1>1, <1>2
    <3> QED
        BY <1>1, <1>8, <2>1, <3>1, MinIs
  <2>3. PICK v : v = vs[i]
      OBVIOUS
  <2>4. Meet(m, t) = [met |-> Append(met, t), by |-> Append(by, v), ts |-> us, ds |-> RemoveAt(vs, i)]
      BY <1>1, <1>8, <2>1, <2>3 DEF Meet
  <2>5. v \in D
      BY <1>2, <2>2, <2>3
  <2>6. Num(Append(met, t), P) = Num(met, P) + IF t \in P THEN 1 ELSE 0
      BY <1>2, NumAppend
  <2>7. Num(Append(by, v), Q) = Num(by, Q) + IF v \in Q THEN 1 ELSE 0
      BY <1>2, NumAppend
  <2>8. Num(vs, Q) = Num(RemoveAt(vs, i), Q) + IF v \in Q THEN 1 ELSE 0
      BY <1>2, <2>2, <2>3, NumRemoveAt
  <2>9. Num(RemoveAt(vs, i), Q) \in Nat
    <3>1. RemoveAt(vs, i) \in Seq(D)
        BY <1>2, <2>2, RemovedAt
    <3> QED
        BY <3>1, NumIsNatural
  <2>10. Num(Append(met, t), P) + Num(us, P) = Num(Append(p, t), P)
      BY <1>3, <1>4, <1>5, <2>6
  <2>11. Num(Append(by, v), Q) + Num(RemoveAt(vs, i), Q) = Num(ds, Q)
      BY <1>3, <1>5, <2>7, <2>8, <2>9
  <2>12. PICK x : x = Meet(m, t)
      OBVIOUS
  <2>13. x.met = Append(met, t) /\ x.by = Append(by, v) /\ x.ts = us /\ x.ds = RemoveAt(vs, i)
      BY <2>4, <2>12
  <2>14. Fits(x)
    <3>1. PICK n : n = Len(met)
        OBVIOUS
    <3>2. n \in Nat /\ n = Len(by) /\ DOMAIN met = 1..n
        BY <1>2, <1>6, <3>1
    <3>3. /\ Len(x.met) = n + 1 /\ DOMAIN x.met = 1..(n + 1)
          /\ \A k \in 1..n : x.met[k] = met[k]
          /\ x.met[n + 1] = t
        BY <1>2, <2>13, <3>1
    <3>4. /\ Len(x.by) = n + 1
          /\ \A k \in 1..n : x.by[k] = by[k]
          /\ x.by[n + 1] = v
        BY <1>2, <2>13, <3>2
    <3>5. \A k \in 1..(n + 1) : k \in 1..n \/ k = n + 1
        BY <3>2
    <3>6. \A k \in 1..n : Unifiable(x.met[k].st, x.by[k].dt)
        BY <1>6, <3>2, <3>3, <3>4
    <3>7. Unifiable(x.met[n + 1].st, x.by[n + 1].dt)
      <4>1. x.met[n + 1] = t /\ x.by[n + 1] = v
          BY <3>3, <3>4
      <4>2. PICK y, z : y = x.met[n + 1] /\ z = x.by[n + 1]
          OBVIOUS
      <4>3. y = t /\ z = v
          BY <4>1, <4>2
      <4>4. Unifiable(t.st, v.dt)
          BY <2>2, <2>3
      <4>5. Unifiable(y.st, z.dt)
          BY <4>3, <4>4
      <4> QED
          BY <4>2, <4>5
    <3> QED
        BY <3>3, <3>4, <3>5, <3>6, <3>7 DEF Fits
  <2> QED
      BY <2>10, <2>11, <2>12, <2>13, <2>14
<1> QED
    BY <1>7, <1>8

\* What is met and what is left is what there was, and what meets fits.
Sorted(m, ts, ds, T, D, P, Q) ==
    /\ m \in Matching(T, D) /\ Fits(m)
    /\ Num(m.met, P) + Num(m.ts, P) = Num(ts, P)
    /\ Num(m.by, Q) + Num(m.ds, Q) = Num(ds, Q)

LEMMA MatchedIs ==
    ASSUME NEW T, NEW D, NEW ts \in Seq(T), NEW ds \in Seq(D), NEW P, NEW Q
    PROVE  Sorted(Matched(ts, ds), ts, ds, T, D, P, Q)
<1> DEFINE V == Matching(T, D)
           none == [met |-> <<>>, by |-> <<>>, ts |-> <<>>, ds |-> ds]
           g == [k \in 1..Len(ts) |-> [m \in V |-> Meet(m, ts[k])]]
           Steps(f) == f = [k \in 0..Len(ts) |-> IF k = 0 THEN none ELSE Meet(f[k - 1], ts[k])]
<1>1. none \in V
    BY DEF Matching
<1>2. Len(ts) \in Nat
    OBVIOUS
<1>3. g \in [1..Len(ts) -> [V -> V]]
  <2>1. \A k \in 1..Len(ts) : ts[k] \in T
      OBVIOUS
  <2>2. \A k \in 1..Len(ts) : \A m \in V : Meet(m, ts[k]) \in V
      BY <2>1, MeetIs
  <2> QED
      BY <2>2
<1>4. PICK f \in [0..Len(ts) -> V] : Iterates(f, none, g, Len(ts))
  <2> HIDE DEF g, V, none
  <2> QED
      BY <1>1, <1>2, <1>3, IterationExists
<1>5. ASSUME NEW k \in 0..Len(ts)
      PROVE  f[k] = IF k = 0 THEN none ELSE Meet(f[k - 1], ts[k])
  <2>1. f[k] = IF k = 0 THEN none ELSE g[k][f[k - 1]]
    <3> HIDE DEF g, V, none
    <3> QED
        BY <1>4 DEF Iterates
  <2>2. k # 0 => k \in 1..Len(ts) /\ f[k - 1] \in V
      BY <1>2
  <2> HIDE DEF V, none
  <2> QED
      BY <2>1, <2>2
<1>6. Steps(f)
  <2>1. f = [k \in 0..Len(ts) |-> f[k]]
      OBVIOUS
  <2> HIDE DEF none, g, V
  <2> QED
      BY <1>5, <2>1
<1> DEFINE after == CHOOSE h : Steps(h)
<1>7. Matched(ts, ds) = after[Len(ts)]
    BY DEF Matched
<1>8. Steps(after)
  <2> HIDE DEF Steps
  <2> QED
      BY <1>6
<1> HIDE DEF after
<1>9. PICK h, n : h = after /\ n = Len(ts)
    OBVIOUS
<1>10. h[0] = none /\ \A k \in 1..n : h[k] = Meet(h[k - 1], ts[k])
  <2>1. h = [k \in 0..n |-> IF k = 0 THEN none ELSE Meet(h[k - 1], ts[k])]
      BY <1>8, <1>9
  <2>2. \A k \in 0..n : h[k] = IF k = 0 THEN none ELSE Meet(h[k - 1], ts[k])
    <3> HIDE DEF none
    <3> QED
        BY <2>1
  <2>3. 0 \in 0..n /\ \A k \in 1..n : k \in 0..n /\ k # 0
      BY <1>2, <1>9
  <2> HIDE DEF none
  <2> QED
      BY <2>2, <2>3
<1> DEFINE Good(m, p) == /\ m \in V /\ Fits(m)
                         /\ Num(m.met, P) + Num(m.ts, P) = Num(p, P)
                         /\ Num(m.by, Q) + Num(m.ds, Q) = Num(ds, Q)
           S == {k \in 0..n : Good(h[k], SubSeq(ts, 1, k))}
<1>11. 0 \in S
  <2>1. Num(<<>>, P) = 0 /\ Num(<<>>, Q) = 0
      BY NumNone
  <2>2. Num(ds, Q) \in Nat
      BY NumIsNatural
  <2>3. PICK x : x = none
      OBVIOUS
  <2>4. x.met = <<>> /\ x.by = <<>> /\ x.ts = <<>> /\ x.ds = ds
      BY <2>3
  <2>5. Fits(x)
      BY <2>4 DEF Fits
  <2>6. Num(x.met, P) + Num(x.ts, P) = Num(<<>>, P) /\ Num(x.by, Q) + Num(x.ds, Q) = Num(ds, Q)
      BY <2>1, <2>2, <2>4
  <2>7. x \in V
      BY <1>1, <2>3
  <2>8. Good(x, <<>>)
      BY <2>5, <2>6, <2>7
  <2>9. h[0] = x /\ SubSeq(ts, 1, 0) = <<>> /\ 0 \in 0..n
      BY <1>2, <1>9, <1>10, <2>3, NothingFirst
  <2> HIDE DEF Good
  <2> QED
      BY <2>8, <2>9
<1>12. ASSUME NEW k \in 1..n, k - 1 \in S PROVE k \in S
  <2>1. PICK m, p, t : m = h[k - 1] /\ p = SubSeq(ts, 1, k - 1) /\ t = ts[k]
      OBVIOUS
  <2>2. Good(m, p)
    <3> HIDE DEF Good
    <3> QED
        BY <1>12, <2>1
  <2>3. p \in Seq(T) /\ SubSeq(ts, 1, k) = Append(p, t) /\ t \in T
      BY <1>9, <2>1, OneMore
  <2>4. h[k] = Meet(m, t)
      BY <1>10, <2>1
  <2>5. PICK x : x = Meet(m, t)
      OBVIOUS
  <2>6. x \in V
      BY <2>2, <2>3, <2>5, MeetIs
  <2>7. /\ Fits(x)
        /\ Num(x.met, P) + Num(x.ts, P) = Num(Append(p, t), P)
        /\ Num(x.by, Q) + Num(x.ds, Q) = Num(ds, Q)
      BY <2>2, <2>3, <2>5, MeetKeeps
  <2>8. Good(x, Append(p, t))
      BY <2>6, <2>7
  <2>9. k \in 0..n
      BY <1>2, <1>9
  <2> HIDE DEF Good
  <2> QED
      BY <2>3, <2>4, <2>5, <2>8, <2>9
<1>13. n \in S
  <2> HIDE DEF S
  <2>1. \A k \in 1..n : k - 1 \in S => k \in S
      BY <1>12
  <2>2. \A k \in 0..n : k \in S
      BY <1>2, <1>9, <1>11, <2>1, CountingUp
  <2> QED
      BY <1>2, <1>9, <2>2
<1>14. Good(h[n], ts)
  <2>1. SubSeq(ts, 1, n) = ts
      BY <1>9, NothingFirst
  <2>2. Good(h[n], SubSeq(ts, 1, n))
    <3> HIDE DEF Good
    <3> QED
        BY <1>13
  <2> HIDE DEF Good
  <2> QED
      BY <2>1, <2>2
<1>15. PICK m : m = h[n]
    OBVIOUS
<1>16. Sorted(m, ts, ds, T, D, P, Q)
    BY <1>14, <1>15 DEF Sorted
<1>17. Matched(ts, ds) = m
    BY <1>7, <1>9, <1>15
<1> QED
    BY <1>16, <1>17

-----------------------------------------------------------------------------
(* How many edges of a sequence enter and leave a node.                    *)

Into(s, n) == Cardinality({k \in DOMAIN s : s[k].dst = n})
From(s, n) == Cardinality({k \in DOMAIN s : s[k].src = n})

EndingAt(T, n) == {e \in T : e.dst = n}
StartingAt(T, n) == {e \in T : e.src = n}

LEMMA DegreesAreNum ==
    ASSUME NEW T, NEW s \in Seq(T), NEW n
    PROVE  /\ Into(s, n) = Num(s, EndingAt(T, n))
           /\ From(s, n) = Num(s, StartingAt(T, n))
           /\ Into(s, n) \in Nat /\ From(s, n) \in Nat
<1>1. \A k \in DOMAIN s : s[k] \in T
    OBVIOUS
<1>2. {k \in DOMAIN s : s[k].dst = n} = {k \in DOMAIN s : s[k] \in EndingAt(T, n)}
    BY <1>1 DEF EndingAt
<1>3. {k \in DOMAIN s : s[k].src = n} = {k \in DOMAIN s : s[k] \in StartingAt(T, n)}
    BY <1>1 DEF StartingAt
<1>4. Into(s, n) = Num(s, EndingAt(T, n)) /\ From(s, n) = Num(s, StartingAt(T, n))
    BY <1>2, <1>3 DEF Into, From, Num
<1> QED
    BY <1>4, NumIsNatural

LEMMA DegreesJoin ==
    ASSUME NEW T, NEW s \in Seq(T), NEW t \in Seq(T), NEW n
    PROVE  /\ s \o t \in Seq(T)
           /\ Into(s \o t, n) = Into(s, n) + Into(t, n)
           /\ From(s \o t, n) = From(s, n) + From(t, n)
<1>1. s \o t \in Seq(T)
    OBVIOUS
<1>2. PICK c : c = s \o t
    OBVIOUS
<1>3. PICK P, Q : P = EndingAt(T, n) /\ Q = StartingAt(T, n)
    OBVIOUS
<1>4. Num(c, P) = Num(s, P) + Num(t, P) /\ Num(c, Q) = Num(s, Q) + Num(t, Q)
    BY <1>2, NumConcat
<1>5. c \in Seq(T)
    BY <1>1, <1>2
<1>6. \A u \in Seq(T) : Into(u, n) = Num(u, P) /\ From(u, n) = Num(u, Q)
    BY <1>3, DegreesAreNum
<1> QED
    BY <1>1, <1>2, <1>4, <1>5, <1>6

LEMMA NoneInto ==
    ASSUME NEW s, NEW n, \A k \in DOMAIN s : s[k].dst # n
    PROVE  Into(s, n) = 0
<1>1. {k \in DOMAIN s : s[k].dst = n} = {}
    OBVIOUS
<1> QED
    BY <1>1, FS_EmptySet DEF Into

LEMMA NoneFrom ==
    ASSUME NEW s, NEW n, \A k \in DOMAIN s : s[k].src # n
    PROVE  From(s, n) = 0
<1>1. {k \in DOMAIN s : s[k].src = n} = {}
    OBVIOUS
<1> QED
    BY <1>1, FS_EmptySet DEF From

LEMMA CutAt ==
    ASSUME NEW T, NEW s \in Seq(T), NEW j \in 0..Len(s), NEW n
    PROVE  Into(s, n) = Into(SubSeq(s, 1, j), n) + Into(SubSeq(s, j + 1, Len(s)), n)
<1>1. Len(s) \in Nat /\ j \in Nat /\ j <= Len(s)
    OBVIOUS
<1>2. PICK a, b : a = SubSeq(s, 1, j) /\ b = SubSeq(s, j + 1, Len(s))
    OBVIOUS
<1>3. a \in Seq(T) /\ Len(a) = j /\ \A i \in 1..j : a[i] = s[i]
    BY <1>1, <1>2
<1>4. b \in Seq(T) /\ Len(b) = Len(s) - j /\ \A i \in 1..(Len(s) - j) : b[i] = s[j + i]
    BY <1>1, <1>2
<1>5. PICK c : c = a \o b
    OBVIOUS
<1>6. Joins(c, a, b, T)
    BY <1>3, <1>4, <1>5, ConcatIs
<1>7. c = s
  <2>1. c \in Seq(T) /\ Len(c) = Len(s)
      BY <1>1, <1>3, <1>4, <1>6 DEF Joins
  <2>2. \A i \in 1..Len(s) : c[i] = IF i <= j THEN a[i] ELSE b[i - j]
      BY <1>1, <1>3, <1>4, <1>6, <2>1 DEF Joins
  <2>3. ASSUME NEW i \in 1..Len(s) PROVE c[i] = s[i]
    <3>1. CASE i <= j
        BY <1>1, <1>3, <2>2, <3>1
    <3>2. CASE ~(i <= j)
      <4>1. i - j \in 1..(Len(s) - j) /\ j + (i - j) = i
          BY <1>1, <3>2
      <4>2. b[i - j] = s[j + (i - j)]
          BY <1>4, <4>1
      <4> QED
          BY <2>2, <3>2, <4>1, <4>2
    <3> QED
        BY <3>1, <3>2
  <2> QED
      BY <2>1, <2>3
<1>8. Into(a \o b, n) = Into(a, n) + Into(b, n)
  <2>1. a \in Seq(T) /\ b \in Seq(T)
      BY <1>3, <1>4
  <2> QED
      BY <2>1, DegreesJoin
<1> QED
    BY <1>2, <1>5, <1>7, <1>8

\* The matching, by the edges that leave a node of the context and those that
\* enter a node of the donor.
LEMMA MatchedDegrees ==
    ASSUME NEW T, NEW D, NEW ts \in Seq(T), NEW ds \in Seq(D), NEW m, m = Matched(ts, ds)
    PROVE  /\ m \in Matching(T, D) /\ Fits(m)
           /\ \A x : From(m.met, x) + From(m.ts, x) = From(ts, x)
           /\ \A z : Into(m.by, z) + Into(m.ds, z) = Into(ds, z)
<1>1. \A P, Q : Sorted(m, ts, ds, T, D, P, Q)
    BY MatchedIs
<1>2. /\ m \in Matching(T, D) /\ Fits(m)
      /\ \A P : Num(m.met, P) + Num(m.ts, P) = Num(ts, P)
      /\ \A Q : Num(m.by, Q) + Num(m.ds, Q) = Num(ds, Q)
    BY <1>1 DEF Sorted
<1>3. m.met \in Seq(T) /\ m.by \in Seq(D) /\ m.ts \in Seq(T) /\ m.ds \in Seq(D)
    BY <1>2 DEF Matching
<1>4. PICK met, us, by, vs : met = m.met /\ us = m.ts /\ by = m.by /\ vs = m.ds
    OBVIOUS
<1>5. ASSUME NEW x PROVE From(met, x) + From(us, x) = From(ts, x)
  <2>1. PICK P : P = StartingAt(T, x)
      OBVIOUS
  <2>2. Num(met, P) + Num(us, P) = Num(ts, P)
      BY <1>2, <1>4
  <2>3. met \in Seq(T) /\ us \in Seq(T)
      BY <1>3, <1>4
  <2>4. From(met, x) = Num(met, P)
      BY <2>1, <2>3, DegreesAreNum
  <2>5. From(us, x) = Num(us, P)
      BY <2>1, <2>3, DegreesAreNum
  <2>6. From(ts, x) = Num(ts, P)
      BY <2>1, DegreesAreNum
  <2> QED
      BY <2>2, <2>4, <2>5, <2>6
<1>6. ASSUME NEW z PROVE Into(by, z) + Into(vs, z) = Into(ds, z)
  <2>1. PICK Q : Q = EndingAt(D, z)
      OBVIOUS
  <2>2. Num(by, Q) + Num(vs, Q) = Num(ds, Q)
      BY <1>2, <1>4
  <2>3. by \in Seq(D) /\ vs \in Seq(D)
      BY <1>3, <1>4
  <2>4. Into(by, z) = Num(by, Q)
      BY <2>1, <2>3, DegreesAreNum
  <2>5. Into(vs, z) = Num(vs, Q)
      BY <2>1, <2>3, DegreesAreNum
  <2>6. Into(ds, z) = Num(ds, Q)
      BY <2>1, DegreesAreNum
  <2> QED
      BY <2>2, <2>4, <2>5, <2>6
<1> QED
    BY <1>2, <1>4, <1>5, <1>6

-----------------------------------------------------------------------------
(* New names.                                                              *)

\* Of more names than there are nodes one is new.
LEMMA SomeNameIsNew ==
    ASSUME NEW nodes, IsFiniteSet(nodes), NEW I, IsFiniteSet(I), Cardinality(nodes) < Cardinality(I),
           NEW f, \A i \in I : \A j \in I : f[i] = f[j] => i = j
    PROVE  \E i \in I : f[i] \notin nodes
<1>1. SUFFICES ASSUME \A i \in I : f[i] \in nodes PROVE FALSE
    OBVIOUS
<1> DEFINE g == [i \in I |-> f[i]]
<1>2. g \in [I -> nodes] /\ \A i \in I : g[i] = f[i]
    BY <1>1
<1> HIDE DEF g
<1>3. \E i, j \in I : i # j /\ g[i] = g[j]
    BY <1>2, FS_PigeonHole
<1> QED
    BY <1>2, <1>3

LEMMA RenamedIsNew ==
    ASSUME NEW a, IsFiniteSet(a.nodes), NEW n, n[1] \in Nat
    PROVE  \E k \in Nat \ {0} : Renamed(a, n) = <<n[1] + k, n[2], n[3]>> /\ Renamed(a, n) \notin a.nodes
<1> DEFINE Prefixed(k) == <<n[1] + k, n[2], n[3]>>
           I == 1 .. Cardinality(a.nodes) + 1
           Free == {k \in I : Prefixed(k) \notin a.nodes}
           f == [k \in I |-> Prefixed(k)]
           First(k) == /\ Prefixed(k) \notin a.nodes
                       /\ \A j \in 1 .. k - 1 : Prefixed(j) \in a.nodes
<1>1. Cardinality(a.nodes) \in Nat
    BY FS_CardinalityType
<1>2. Free # {}
  <2>1. IsFiniteSet(I) /\ Cardinality(a.nodes) < Cardinality(I)
    <3>1. PICK total : total = Cardinality(a.nodes)
        OBVIOUS
    <3>2. IsFiniteSet(1 .. total + 1) /\ Cardinality(1 .. total + 1) = total + 1
      <4>1. total + 1 \in Int /\ 1 \in Int /\ ~(1 > total + 1) /\ total + 1 - 1 + 1 = total + 1
          BY <1>1, <3>1
      <4>2. PICK M : M = total + 1
          OBVIOUS
      <4>3. IsFiniteSet(1 .. M) /\ Cardinality(1 .. M) = M
          BY <4>1, <4>2, FS_Interval
      <4> QED
          BY <4>2, <4>3
    <3> QED
        BY <1>1, <3>1, <3>2
  <2>2. \A i \in I : \A j \in I : f[i] = f[j] => i = j
    <3>1. \A i \in I : \A j \in I : n[1] + i = n[1] + j => i = j
        BY <1>1
    <3> QED
        BY <3>1
  <2> HIDE DEF f, I
  <2>3. \E i \in I : f[i] \notin a.nodes
      BY <2>1, <2>2, SomeNameIsNew
  <2> QED
      BY <2>3 DEF f
<1>3. Free \in SUBSET Nat
    BY <1>1
<1>4. PICK k \in Free : \A j \in Free : k <= j
  <2> HIDE DEF Free
  <2> QED
      BY <1>2, <1>3, LeastNatural
<1>5. k \in I /\ First(k)
  <2>1. ASSUME NEW j \in 1 .. k - 1 PROVE Prefixed(j) \in a.nodes
    <3>1. j \in I /\ ~(k <= j)
        BY <1>1, <1>4
    <3> QED
        BY <1>4, <3>1
  <2> QED
      BY <1>4, <2>1
<1>6. PICK c : c = CHOOSE i \in I : First(i)
    OBVIOUS
<1>7. c \in I /\ First(c)
    BY <1>5, <1>6
<1>8. Renamed(a, n) = Prefixed(c)
    BY <1>6 DEF Renamed
<1>9. c \in Nat \ {0}
    BY <1>1, <1>7
<1> QED
    BY <1>7, <1>8, <1>9

Unused(f, nodes, i) == {j \in 0 .. i : f[j] \notin nodes}

\* Of names that are numbered the k-th that is not in use.
LEMMA KthIsFree ==
    ASSUME NEW nodes, IsFiniteSet(nodes), NEW f, \A i, j \in Nat : f[i] = f[j] => i = j,
           NEW k \in Nat \ {0}
    PROVE  \E i \in 0 .. Cardinality(nodes) + k :
              f[i] \notin nodes /\ Cardinality(Unused(f, nodes, i)) = k
<1>1. PICK total, M : total = Cardinality(nodes) /\ M = total + k
    OBVIOUS
<1>2. total \in Nat /\ M \in Nat
    BY <1>1, FS_CardinalityType
<1> DEFINE Free(i) == {j \in 0 .. i : f[j] \notin nodes}
           Taken == {j \in 0 .. M : f[j] \in nodes}
<1>3. \A i \in Nat : IsFiniteSet(0 .. i) /\ Cardinality(0 .. i) = i + 1
  <2>1. \A i \in Nat : i \in Int /\ 0 \in Int /\ ~(0 > i) /\ i - 0 + 1 = i + 1
      OBVIOUS
  <2> QED
      BY <2>1, FS_Interval
<1>4. \A i \in Nat : IsFiniteSet(Free(i)) /\ Cardinality(Free(i)) \in Nat
  <2>1. \A i \in Nat : Free(i) \in SUBSET (0 .. i)
      OBVIOUS
  <2> HIDE DEF Free
  <2>2. \A i \in Nat : IsFiniteSet(Free(i))
      BY <1>3, <2>1, FS_Subset
  <2> QED
      BY <2>2, FS_CardinalityType
<1>5. IsFiniteSet(Taken) /\ Cardinality(Taken) \in Nat /\ Cardinality(Taken) <= total
  <2> DEFINE h == [j \in Taken |-> f[j]]
  <2>1. h \in [Taken -> nodes] /\ \A i, j \in Taken : h[i] = h[j] => i = j
      BY <1>2
  <2> HIDE DEF h, Taken
  <2>2. h \in Injection(Taken, nodes)
      BY <2>1 DEF Injection, IsInjective
  <2>3. IsFiniteSet(Taken) /\ Cardinality(Taken) <= total
      BY <1>1, <2>2, FS_Injection
  <2> QED
      BY <2>3, FS_CardinalityType
<1>6. Cardinality(Free(M)) >= k
  <2>1. Free(M) \cup Taken = 0 .. M /\ Free(M) \cap Taken = {}
      OBVIOUS
  <2>2. IsFiniteSet(Free(M)) /\ Cardinality(Free(M)) \in Nat
      BY <1>2, <1>4
  <2>3. PICK A : A = Free(M)
      OBVIOUS
  <2> HIDE DEF Free, Taken
  <2>4. Cardinality(A \cup Taken) = Cardinality(A) + Cardinality(Taken) - Cardinality({})
      BY <1>5, <2>1, <2>2, <2>3, FS_Union
  <2>5. Cardinality(A \cup Taken) = M + 1 /\ Cardinality({}) = 0
      BY <1>2, <1>3, <2>1, <2>3, FS_EmptySet
  <2> QED
      BY <1>1, <1>2, <1>5, <2>2, <2>3, <2>4, <2>5
<1> DEFINE S == {i \in 0 .. M : Cardinality(Free(i)) >= k}
<1>7. PICK i \in S : \A j \in S : i <= j
  <2>1. S \in SUBSET Nat /\ M \in S
      BY <1>2, <1>6
  <2> HIDE DEF S
  <2>2. S # {}
      BY <2>1
  <2> QED
      BY <2>1, <2>2, LeastNatural
<1>8. i \in 0 .. M /\ i \in Nat /\ Cardinality(Free(i)) >= k
    BY <1>2, <1>7
<1>9. f[i] \notin nodes /\ Cardinality(Free(i)) = k
  <2>1. CASE i = 0
    <3>1. Free(0) = IF f[0] \in nodes THEN {} ELSE {0}
        OBVIOUS
    <3>2. Cardinality({}) = 0 /\ Cardinality({0}) = 1
        BY FS_EmptySet, FS_Singleton
    <3> HIDE DEF Free
    <3> QED
        BY <1>8, <2>1, <3>1, <3>2
  <2>2. CASE i # 0
    <3>1. PICK l : l = i - 1
        OBVIOUS
    <3>2. l \in Nat /\ l \in 0 .. M /\ i = l + 1 /\ ~(i <= l)
        BY <1>2, <1>8, <2>2, <3>1
    <3>3. ~(Cardinality(Free(l)) >= k)
        BY <1>7, <3>2
    <3>4. 0 .. i = (0 .. l) \cup {i} /\ i \notin 0 .. l
        BY <3>2
    <3>5. Free(i) = IF f[i] \in nodes THEN Free(l) ELSE Free(l) \cup {i}
        BY <3>4
    <3>6. i \notin Free(l)
        BY <3>4
    <3>7. IsFiniteSet(Free(l)) /\ Cardinality(Free(l)) \in Nat
        BY <1>4, <3>2
    <3>8. PICK A : A = Free(l)
        OBVIOUS
    <3> HIDE DEF Free
    <3>9. Cardinality(A \cup {i}) = Cardinality(A) + 1
        BY <3>6, <3>7, <3>8, FS_AddElement
    <3> QED
        BY <1>8, <3>3, <3>5, <3>7, <3>8, <3>9
  <2> QED
      BY <2>1, <2>2
<1> QED
    BY <1>1, <1>8, <1>9 DEF Unused

LEMMA AdaptorIsNew ==
    ASSUME NEW nodes, IsFiniteSet(nodes), NEW kind, NEW k \in Nat \ {0}
    PROVE  \E i \in Nat : Adaptor(nodes, kind, k) = <<0, kind, i>> /\ Adaptor(nodes, kind, k) \notin nodes
<1> DEFINE f == [i \in Nat |-> <<0, kind, i>>]
           Kth(i) == /\ <<0, kind, i>> \notin nodes
                     /\ Cardinality({j \in 0 .. i : <<0, kind, j>> \notin nodes}) = k
           I == 0 .. Cardinality(nodes) + k
<1>1. Cardinality(nodes) \in Nat
    BY FS_CardinalityType
<1>2. \A i, j \in Nat : f[i] = f[j] => i = j
    OBVIOUS
<1>3. \A i \in Nat : f[i] = <<0, kind, i>>
    OBVIOUS
<1>4. PICK i \in I : f[i] \notin nodes /\ Cardinality(Unused(f, nodes, i)) = k
  <2> HIDE DEF f
  <2> QED
      BY <1>2, KthIsFree
<1>5. \A j \in I : j \in Nat /\ 0 .. j \subseteq Nat
    BY <1>1
<1>6. Kth(i)
  <2>1. Unused(f, nodes, i) = {j \in 0 .. i : <<0, kind, j>> \notin nodes}
      BY <1>3, <1>5 DEF Unused
  <2> QED
      BY <1>3, <1>4, <1>5, <2>1
<1>7. PICK c : c = CHOOSE j \in I : Kth(j)
    OBVIOUS
<1>8. c \in I /\ Kth(c)
  <2> HIDE DEF I, Kth
  <2> QED
      BY <1>6, <1>7
<1>9. Adaptor(nodes, kind, k) = <<0, kind, c>>
    BY <1>7 DEF Adaptor
<1> QED
    BY <1>5, <1>8, <1>9

-----------------------------------------------------------------------------
(* The edges at a boundary.                                                *)

LEMMA FromAlike ==
    ASSUME NEW s, NEW t, DOMAIN s = DOMAIN t, NEW x, NEW y,
           \A k \in DOMAIN s : s[k].src = x <=> t[k].src = y
    PROVE  From(s, x) = From(t, y)
<1>1. {k \in DOMAIN s : s[k].src = x} = {k \in DOMAIN t : t[k].src = y}
    OBVIOUS
<1> QED
    BY <1>1 DEF From

LEMMA IntoAlike ==
    ASSUME NEW s, NEW t, DOMAIN s = DOMAIN t, NEW x, NEW y,
           \A k \in DOMAIN s : s[k].dst = x <=> t[k].dst = y
    PROVE  Into(s, x) = Into(t, y)
<1>1. {k \in DOMAIN s : s[k].dst = x} = {k \in DOMAIN t : t[k].dst = y}
    OBVIOUS
<1> QED
    BY <1>1 DEF Into

LEMMA AllInto ==
    ASSUME NEW n \in Nat, NEW s, DOMAIN s = 1..n, NEW x, \A k \in DOMAIN s : s[k].dst = x
    PROVE  Into(s, x) = n
<1>1. {k \in DOMAIN s : s[k].dst = x} = 1..n
    OBVIOUS
<1>2. Cardinality(1..n) = n
    BY FS_Interval
<1> QED
    BY <1>1, <1>2 DEF Into

\* A function on the first numbers is a sequence.
Spans(s, n) == s = [k \in 1..n |-> s[k]]

LEMMA SpansIs ==
    ASSUME NEW n \in Nat, NEW s, Spans(s, n), NEW T, \A k \in 1..n : s[k] \in T
    PROVE  s \in Seq(T) /\ DOMAIN s = 1..n /\ Len(s) = n
<1>1. s \in [1..n -> T]
    BY DEF Spans
<1> QED
    BY <1>1

LEMMA MinOfTwo ==
    ASSUME NEW a \in Nat, NEW b \in Nat
    PROVE  Min({a, b}) \in Nat /\ Min({a, b}) <= a /\ Min({a, b}) <= b /\ Min({a, b}) \in {a, b}
<1>1. {a, b} \in SUBSET Nat /\ {a, b} # {}
    OBVIOUS
<1> QED
    BY <1>1, MinIs

\* What a bridge is: its edges, how many of them each node of the context and of
\* the donor has, and its adaptors.
BridgeEdge(e, ts, new, adaptors) ==
    /\ e.src \in adaptors \/ \E f \in ToSet(ts) : e.src = f.src
    /\ e.dst \in new \cup adaptors
    /\ Unifiable(e.st, e.dt)

Fresh(n, nodes, kind, end) ==
    n \notin nodes /\ \E i \in Nat : n = <<0, kind, i>> \/ n = <<0, end, i>>

Tells(R, ds, z) == \A e \in ToSet(ds) : R[e.dst] = R[z] => e.dst = z

Bridged(B, ts, ds, nodes, new, first, R, kind, end) ==
    /\ \E T : B.edges \in Seq(T) /\ \A e \in T : BridgeEdge(e, ts, new, B.nodes)
    /\ B.extra \in Nat
    /\ IsFiniteSet(B.nodes) /\ \A n \in B.nodes : Fresh(n, nodes, kind, end)
    /\ \A x \in nodes : From(B.edges, x) = From(ts, x)
    /\ \A y \in nodes \ new : Into(B.edges, y) = 0
    /\ \A z : R[z] \in new /\ Tells(R, ds, z)
              => Into(B.edges, R[z]) = Into(ds, z) + IF R[z] = first THEN B.extra ELSE 0

Adds(c, a, b, T, n) ==
    c \in Seq(T) /\ Into(c, n) = Into(a, n) + Into(b, n) /\ From(c, n) = From(a, n) + From(b, n)

LEMMA JoinAdds ==
    ASSUME NEW T, NEW a \in Seq(T), NEW b \in Seq(T), NEW n
    PROVE  Adds(a \o b, a, b, T, n)
<1>1. PICK c : c = a \o b
    OBVIOUS
<1>2. c \in Seq(T) /\ Into(c, n) = Into(a, n) + Into(b, n) /\ From(c, n) = From(a, n) + From(b, n)
    BY <1>1, DegreesJoin
<1> QED
    BY <1>1, <1>2 DEF Adds

FiveAdd(s, a, b, c, d, e, T, n) ==
    /\ s \in Seq(T)
    /\ Into(s, n) = Into(a, n) + Into(b, n) + Into(c, n) + Into(d, n) + Into(e, n)
    /\ From(s, n) = From(a, n) + From(b, n) + From(c, n) + From(d, n) + From(e, n)

LEMMA FiveJoined ==
    ASSUME NEW T, NEW a \in Seq(T), NEW b \in Seq(T), NEW c \in Seq(T), NEW d \in Seq(T), NEW e \in Seq(T),
           NEW s, s = a \o b \o c \o d \o e, NEW n
    PROVE  FiveAdd(s, a, b, c, d, e, T, n)
<1>1. PICK ab, ac, ad : ab = a \o b /\ ac = ab \o c /\ ad = ac \o d
    OBVIOUS
<1>2. Adds(ab, a, b, T, n)
    BY <1>1, JoinAdds
<1>3. ab \in Seq(T)
    BY <1>2 DEF Adds
<1>4. Adds(ac, ab, c, T, n)
    BY <1>1, <1>3, JoinAdds
<1>5. ac \in Seq(T)
    BY <1>4 DEF Adds
<1>6. Adds(ad, ac, d, T, n)
    BY <1>1, <1>5, JoinAdds
<1>7. ad \in Seq(T)
    BY <1>6 DEF Adds
<1>8. s = ad \o e
    BY <1>1
<1>9. Adds(s, ad, e, T, n)
    BY <1>7, <1>8, JoinAdds
<1> QED
    BY <1>2, <1>4, <1>6, <1>9 DEF Adds, FiveAdd

LEMMA BridgeIs ==
    ASSUME NEW nodes, IsFiniteSet(nodes), NEW new \in SUBSET nodes, NEW first \in new, NEW R,
           NEW kind, NEW end,
           NEW ts, ts \in Seq(ToSet(ts)), NEW ds, ds \in Seq(ToSet(ds)),
           \A e \in ToSet(ds) : R[e.dst] \in new
    PROVE  Bridged(Bridge(Matched(ts, ds), nodes, first, R, kind, end), ts, ds, nodes, new, first, R, kind, end)
<1>1. PICK m : m = Matched(ts, ds)
    OBVIOUS
<1>2. /\ m \in Matching(ToSet(ts), ToSet(ds)) /\ Fits(m)
      /\ \A x : From(m.met, x) + From(m.ts, x) = From(ts, x)
      /\ \A z : Into(m.by, z) + Into(m.ds, z) = Into(ds, z)
    BY <1>1, MatchedDegrees
<1>3. PICK met, us, by, vs : met = m.met /\ us = m.ts /\ by = m.by /\ vs = m.ds
    OBVIOUS
<1>4. /\ met \in Seq(ToSet(ts)) /\ us \in Seq(ToSet(ts))
      /\ by \in Seq(ToSet(ds)) /\ vs \in Seq(ToSet(ds))
    BY <1>2, <1>3 DEF Matching
<1>5. PICK l, p, q, both : l = Len(met) /\ p = Len(us) /\ q = Len(vs) /\ both = Min({p, q})
    OBVIOUS
<1>6. l \in Nat /\ p \in Nat /\ q \in Nat /\ both \in Nat /\ both <= p /\ both <= q
    BY <1>4, <1>5, MinOfTwo
<1>7. /\ DOMAIN met = 1..l /\ DOMAIN us = 1..p /\ DOMAIN vs = 1..q /\ DOMAIN by = 1..l
      /\ \A k \in 1..l : met[k] \in ToSet(ts) /\ by[k] \in ToSet(ds) /\ Unifiable(met[k].st, by[k].dt)
      /\ \A k \in 1..p : us[k] \in ToSet(ts)
      /\ \A k \in 1..q : vs[k] \in ToSet(ds)
  <2>1. Len(by) = l /\ \A k \in DOMAIN met : Unifiable(met[k].st, by[k].dt)
      BY <1>2, <1>3, <1>5 DEF Fits
  <2> QED
      BY <1>4, <1>5, <2>1
<1> DEFINE A(k) == Adaptor(nodes, kind, k)
           Z(k) == Adaptor(nodes, end, k)
           Direct(k) == Edge(met[k].src, R[by[k].dst], met[k].st, by[k].dt)
           ToAdaptor(k) == Edge(us[k].src, A(k), us[k].st, us[k].st)
           FromAdaptor(k) == Edge(A(k), R[vs[k].dst], vs[k].dt, vs[k].dt)
           Folded(k) == Edge(A(both + k), first, us[both + k].st, us[both + k].st)
           Ending(k) == Edge(Z(k), R[vs[both + k].dst], vs[both + k].dt, vs[both + k].dt)
<1>8. PICK c1, c2, c3, c4, c5 :
          /\ c1 = [k \in 1..l |-> Direct(k)] /\ c2 = [k \in 1..p |-> ToAdaptor(k)]
          /\ c3 = [k \in 1..both |-> FromAdaptor(k)] /\ c4 = [k \in 1..(p - both) |-> Folded(k)]
          /\ c5 = [k \in 1..(q - both) |-> Ending(k)]
    OBVIOUS
<1>9. PICK adaptors : adaptors = {A(k) : k \in 1..p} \cup {Z(k) : k \in 1..(q - both)}
    OBVIOUS
<1>10. Bridge(m, nodes, first, R, kind, end)
       = [edges |-> c1 \o c2 \o c3 \o c4 \o c5, nodes |-> adaptors, extra |-> p - both]
    BY <1>3, <1>5, <1>8, <1>9 DEF Bridge, Surplus
<1> HIDE DEF Direct, ToAdaptor, FromAdaptor, Folded, Ending
<1>11. \A k \in 1..l : /\ Direct(k).src = met[k].src /\ Direct(k).dst = R[by[k].dst]
                       /\ Unifiable(Direct(k).st, Direct(k).dt)
    BY <1>7 DEF Direct, Edge
<1>12. \A k \in 1..p : /\ ToAdaptor(k).src = us[k].src /\ ToAdaptor(k).dst = A(k)
                       /\ Unifiable(ToAdaptor(k).st, ToAdaptor(k).dt)
    BY DEF ToAdaptor, Edge, Unifiable
<1>13. \A k \in 1..both : /\ FromAdaptor(k).src = A(k) /\ FromAdaptor(k).dst = R[vs[k].dst]
                          /\ Unifiable(FromAdaptor(k).st, FromAdaptor(k).dt)
    BY DEF FromAdaptor, Edge, Unifiable
<1>14. \A k \in 1..(p - both) : /\ Folded(k).src = A(both + k) /\ Folded(k).dst = first
                                /\ Unifiable(Folded(k).st, Folded(k).dt)
    BY DEF Folded, Edge, Unifiable
<1>15. \A k \in 1..(q - both) : /\ Ending(k).src = Z(k) /\ Ending(k).dst = R[vs[both + k].dst]
                                /\ Unifiable(Ending(k).st, Ending(k).dt)
    BY DEF Ending, Edge, Unifiable
<1>16. \A k \in Nat \ {0} : Fresh(A(k), nodes, kind, end) /\ Fresh(Z(k), nodes, kind, end)
  <2>1. ASSUME NEW k \in Nat \ {0} PROVE Fresh(A(k), nodes, kind, end)
      BY <2>1, AdaptorIsNew DEF Fresh
  <2>2. ASSUME NEW k \in Nat \ {0} PROVE Fresh(Z(k), nodes, kind, end)
      BY <2>2, AdaptorIsNew DEF Fresh
  <2> QED
      BY <2>1, <2>2
<1> HIDE DEF A, Z
<1>17. IsFiniteSet(adaptors)
  <2>1. IsFiniteSet({A(k) : k \in 1..p})
    <3> DEFINE f == [k \in 1..p |-> A(k)]
               S == {A(k) : k \in 1..p}
    <3>1. f \in Surjection(1..p, S)
        BY DEF Surjection
    <3>2. IsFiniteSet(1..p)
        BY <1>6, FS_Interval
    <3> HIDE DEF f, S
    <3>3. IsFiniteSet(S)
        BY <3>1, <3>2, FS_Surjection
    <3> QED
        BY <3>3 DEF S
  <2>2. IsFiniteSet({Z(k) : k \in 1..(q - both)})
    <3> DEFINE f == [k \in 1..(q - both) |-> Z(k)]
               S == {Z(k) : k \in 1..(q - both)}
    <3>1. f \in Surjection(1..(q - both), S)
        BY DEF Surjection
    <3>2. IsFiniteSet(1..(q - both))
        BY <1>6, FS_Interval
    <3> HIDE DEF f, S
    <3>3. IsFiniteSet(S)
        BY <3>1, <3>2, FS_Surjection
    <3> QED
        BY <3>3 DEF S
  <2> QED
      BY <1>9, <2>1, <2>2, FS_Union
<1>18. \A n \in adaptors : Fresh(n, nodes, kind, end)
    BY <1>6, <1>9, <1>16
<1>19. /\ \A k \in 1..p : A(k) \in adaptors /\ A(k) \notin nodes
       /\ \A k \in 1..(q - both) : Z(k) \in adaptors /\ Z(k) \notin nodes
       /\ \A k \in 1..both : k \in 1..p /\ k \in 1..q
       /\ \A k \in 1..(p - both) : both + k \in 1..p
       /\ \A k \in 1..(q - both) : both + k \in 1..q
  <2>1. (\A k \in 1..p : A(k) \in adaptors) /\ (\A k \in 1..(q - both) : Z(k) \in adaptors)
      BY <1>9
  <2>2. \A n \in adaptors : n \notin nodes
      BY <1>18 DEF Fresh
  <2>3. /\ \A k \in 1..both : k \in 1..p /\ k \in 1..q
        /\ \A k \in 1..(p - both) : both + k \in 1..p
        /\ \A k \in 1..(q - both) : both + k \in 1..q
      BY <1>6
  <2> QED
      BY <2>1, <2>2, <2>3
<1>20. /\ Spans(c1, l) /\ Spans(c2, p) /\ Spans(c3, both) /\ Spans(c4, p - both) /\ Spans(c5, q - both)
       /\ \A k \in 1..l : c1[k] = Direct(k)
       /\ \A k \in 1..p : c2[k] = ToAdaptor(k)
       /\ \A k \in 1..both : c3[k] = FromAdaptor(k)
       /\ \A k \in 1..(p - both) : c4[k] = Folded(k)
       /\ \A k \in 1..(q - both) : c5[k] = Ending(k)
    BY <1>8 DEF Spans
<1>21. PICK T : T = {Direct(k) : k \in 1..l} \cup {ToAdaptor(k) : k \in 1..p}
                    \cup {FromAdaptor(k) : k \in 1..both} \cup {Folded(k) : k \in 1..(p - both)}
                    \cup {Ending(k) : k \in 1..(q - both)}
    OBVIOUS
<1>22. /\ c1 \in Seq(T) /\ DOMAIN c1 = 1..l
       /\ c2 \in Seq(T) /\ DOMAIN c2 = 1..p
       /\ c3 \in Seq(T) /\ DOMAIN c3 = 1..both
       /\ c4 \in Seq(T) /\ DOMAIN c4 = 1..(p - both)
       /\ c5 \in Seq(T) /\ DOMAIN c5 = 1..(q - both)
  <2>1. p - both \in Nat /\ q - both \in Nat
      BY <1>6
  <2>2. /\ \A k \in 1..l : c1[k] \in T
        /\ \A k \in 1..p : c2[k] \in T
        /\ \A k \in 1..both : c3[k] \in T
        /\ \A k \in 1..(p - both) : c4[k] \in T
        /\ \A k \in 1..(q - both) : c5[k] \in T
      BY <1>20, <1>21
  <2> QED
      BY <1>6, <1>20, <2>1, <2>2, SpansIs
<1>23. ASSUME NEW e \in T PROVE BridgeEdge(e, ts, new, adaptors)
  <2>1. CASE \E k \in 1..l : e = Direct(k)
    <3>1. PICK k \in 1..l : e = Direct(k)
        BY <2>1
    <3>2. met[k] \in ToSet(ts) /\ by[k] \in ToSet(ds)
        BY <1>7
    <3> QED
        BY <1>11, <3>1, <3>2 DEF BridgeEdge
  <2>2. CASE \E k \in 1..p : e = ToAdaptor(k)
    <3>1. PICK k \in 1..p : e = ToAdaptor(k)
        BY <2>2
    <3>2. us[k] \in ToSet(ts)
        BY <1>7
    <3> QED
        BY <1>12, <1>19, <3>1, <3>2 DEF BridgeEdge
  <2>3. CASE \E k \in 1..both : e = FromAdaptor(k)
    <3>1. PICK k \in 1..both : e = FromAdaptor(k)
        BY <2>3
    <3>2. vs[k] \in ToSet(ds) /\ A(k) \in adaptors
        BY <1>7, <1>19
    <3> QED
        BY <1>13, <3>1, <3>2 DEF BridgeEdge
  <2>4. CASE \E k \in 1..(p - both) : e = Folded(k)
    <3>1. PICK k \in 1..(p - both) : e = Folded(k)
        BY <2>4
    <3>2. A(both + k) \in adaptors
        BY <1>19
    <3> QED
        BY <1>14, <3>1, <3>2 DEF BridgeEdge
  <2>5. CASE \E k \in 1..(q - both) : e = Ending(k)
    <3>1. PICK k \in 1..(q - both) : e = Ending(k)
        BY <2>5
    <3>2. vs[both + k] \in ToSet(ds) /\ Z(k) \in adaptors
        BY <1>7, <1>19
    <3> QED
        BY <1>15, <3>1, <3>2 DEF BridgeEdge
  <2> QED
      BY <1>21, <2>1, <2>2, <2>3, <2>4, <2>5
<1>24. PICK s : s = c1 \o c2 \o c3 \o c4 \o c5
    OBVIOUS
<1>25. \A n : FiveAdd(s, c1, c2, c3, c4, c5, T, n)
  <2>1. c1 \in Seq(T) /\ c2 \in Seq(T) /\ c3 \in Seq(T) /\ c4 \in Seq(T) /\ c5 \in Seq(T)
      BY <1>22
  <2> QED
      BY <1>24, <2>1, FiveJoined
<1>26. /\ s \in Seq(T)
       /\ \A n : /\ Into(s, n) = Into(c1, n) + Into(c2, n) + Into(c3, n) + Into(c4, n) + Into(c5, n)
                 /\ From(s, n) = From(c1, n) + From(c2, n) + From(c3, n) + From(c4, n) + From(c5, n)
    BY <1>25 DEF FiveAdd
<1> DEFINE Source(k) == R[by[k].dst]
           Sink(k) == R[vs[k].dst]
<1>e1. \A k \in 1..l : c1[k].src = met[k].src /\ c1[k].dst = Source(k) /\ Source(k) \in new
    BY <1>7, <1>11, <1>20
<1>e2. \A k \in 1..p : c2[k].src = us[k].src /\ c2[k].dst \notin nodes
    BY <1>12, <1>19, <1>20
<1>e3. \A k \in 1..both : c3[k].src \notin nodes /\ c3[k].dst = Sink(k) /\ Sink(k) \in new
  <2>1. \A k \in 1..both : c3[k].src = A(k) /\ A(k) \notin nodes /\ c3[k].dst = Sink(k) /\ vs[k] \in ToSet(ds)
      BY <1>7, <1>13, <1>19, <1>20
  <2> QED
      BY <2>1
<1>e4. \A k \in 1..(p - both) : c4[k].src \notin nodes /\ c4[k].dst = first
    BY <1>14, <1>19, <1>20
<1>e5. \A k \in 1..(q - both) : c5[k].src \notin nodes /\ c5[k].dst = Sink(both + k) /\ Sink(both + k) \in new
  <2>1. \A k \in 1..(q - both) : /\ c5[k].src = Z(k) /\ Z(k) \notin nodes
                                 /\ c5[k].dst = Sink(both + k) /\ vs[both + k] \in ToSet(ds)
      BY <1>7, <1>15, <1>19, <1>20
  <2> QED
      BY <2>1
<1> HIDE DEF Source, Sink
<1>27. ASSUME NEW x \in nodes PROVE From(s, x) = From(ts, x)
  <2>1. From(c1, x) = From(met, x)
    <3>1. \A k \in DOMAIN c1 : c1[k].src = x <=> met[k].src = x
        BY <1>e1, <1>22
    <3>2. DOMAIN c1 = DOMAIN met
        BY <1>7, <1>22
    <3> QED
        BY <3>1, <3>2, FromAlike
  <2>2. From(c2, x) = From(us, x)
    <3>1. \A k \in DOMAIN c2 : c2[k].src = x <=> us[k].src = x
        BY <1>e2, <1>22
    <3>2. DOMAIN c2 = DOMAIN us
        BY <1>7, <1>22
    <3> QED
        BY <3>1, <3>2, FromAlike
  <2>3. From(c3, x) = 0
    <3>1. \A k \in DOMAIN c3 : c3[k].src # x
        BY <1>e3, <1>22
    <3> QED
        BY <3>1, NoneFrom
  <2>4. From(c4, x) = 0
    <3>1. \A k \in DOMAIN c4 : c4[k].src # x
        BY <1>e4, <1>22
    <3> QED
        BY <3>1, NoneFrom
  <2>5. From(c5, x) = 0
    <3>1. \A k \in DOMAIN c5 : c5[k].src # x
        BY <1>e5, <1>22
    <3> QED
        BY <3>1, NoneFrom
  <2>6. From(met, x) + From(us, x) = From(ts, x)
      BY <1>2, <1>3
  <2>7. From(met, x) \in Nat /\ From(us, x) \in Nat
      BY <1>4, DegreesAreNum
  <2> QED
      BY <1>26, <2>1, <2>2, <2>3, <2>4, <2>5, <2>6, <2>7
<1>28. ASSUME NEW y \in nodes \ new PROVE Into(s, y) = 0
  <2>1. \A k \in DOMAIN c1 : c1[k].dst # y
      BY <1>e1, <1>22
  <2>2. \A k \in DOMAIN c2 : c2[k].dst # y
      BY <1>e2, <1>22
  <2>3. \A k \in DOMAIN c3 : c3[k].dst # y
      BY <1>e3, <1>22
  <2>4. \A k \in DOMAIN c4 : c4[k].dst # y
      BY <1>e4, <1>22
  <2>5. \A k \in DOMAIN c5 : c5[k].dst # y
      BY <1>e5, <1>22
  <2>6. Into(c1, y) = 0 /\ Into(c2, y) = 0 /\ Into(c3, y) = 0 /\ Into(c4, y) = 0 /\ Into(c5, y) = 0
      BY <2>1, <2>2, <2>3, <2>4, <2>5, NoneInto
  <2> QED
      BY <1>26, <2>6
<1>29. ASSUME NEW z, R[z] \in new, Tells(R, ds, z)
       PROVE  Into(s, R[z]) = Into(ds, z) + IF R[z] = first THEN p - both ELSE 0
  <2>1. PICK w : w = R[z]
      OBVIOUS
  <2>2. w \in nodes /\ \A e \in ToSet(ds) : R[e.dst] = w <=> e.dst = z
      BY <1>29, <2>1 DEF Tells
  <2>3. Into(c1, w) = Into(by, z)
    <3>1. \A k \in DOMAIN c1 : c1[k].dst = w <=> by[k].dst = z
      <4>1. \A k \in 1..l : Source(k) = w <=> by[k].dst = z
          BY <1>7, <2>2 DEF Source
      <4> QED
          BY <1>e1, <1>22, <4>1
    <3>2. DOMAIN c1 = DOMAIN by
        BY <1>7, <1>22
    <3> QED
        BY <3>1, <3>2, IntoAlike
  <2>4. Into(c2, w) = 0
    <3>1. \A k \in DOMAIN c2 : c2[k].dst # w
        BY <1>e2, <1>22, <2>2
    <3> QED
        BY <3>1, NoneInto
  <2>5. PICK u, v : u = SubSeq(vs, 1, both) /\ v = SubSeq(vs, both + 1, q)
      OBVIOUS
  <2>6. /\ u \in Seq(ToSet(ds)) /\ DOMAIN u = 1..both /\ \A k \in 1..both : u[k] = vs[k]
        /\ v \in Seq(ToSet(ds)) /\ DOMAIN v = 1..(q - both) /\ \A k \in 1..(q - both) : v[k] = vs[both + k]
    <3>1. vs \in Seq(ToSet(ds)) /\ Len(vs) = q /\ q \in Nat /\ both \in Nat /\ both <= q
        BY <1>4, <1>5, <1>6
    <3>2. u \in Seq(ToSet(ds)) /\ Len(u) = both /\ \A k \in 1..both : u[k] = vs[k]
        BY <2>5, <3>1
    <3>3. v \in Seq(ToSet(ds)) /\ Len(v) = q - both /\ \A k \in 1..(q - both) : v[k] = vs[both + k]
        BY <2>5, <3>1
    <3> QED
        BY <3>2, <3>3
  <2>7. Into(vs, z) = Into(u, z) + Into(v, z)
    <3>1. both \in 0..Len(vs) /\ q = Len(vs)
        BY <1>5, <1>6
    <3> QED
        BY <1>4, <2>5, <3>1, CutAt
  <2>8. Into(c3, w) = Into(u, z)
    <3>1. \A k \in DOMAIN c3 : c3[k].dst = w <=> u[k].dst = z
      <4>1. \A k \in 1..both : Sink(k) = w <=> u[k].dst = z
          BY <1>7, <1>19, <2>2, <2>6 DEF Sink
      <4> QED
          BY <1>e3, <1>22, <4>1
    <3>2. DOMAIN c3 = DOMAIN u
        BY <1>22, <2>6
    <3> QED
        BY <3>1, <3>2, IntoAlike
  <2>9. Into(c5, w) = Into(v, z)
    <3>1. \A k \in DOMAIN c5 : c5[k].dst = w <=> v[k].dst = z
      <4>1. \A k \in 1..(q - both) : Sink(both + k) = w <=> v[k].dst = z
          BY <1>7, <1>19, <2>2, <2>6 DEF Sink
      <4> QED
          BY <1>e5, <1>22, <4>1
    <3>2. DOMAIN c5 = DOMAIN v
        BY <1>22, <2>6
    <3> QED
        BY <3>1, <3>2, IntoAlike
  <2>10. Into(c4, w) = IF w = first THEN p - both ELSE 0
    <3>1. \A k \in DOMAIN c4 : c4[k].dst = first
        BY <1>e4, <1>22
    <3>2. p - both \in Nat
        BY <1>6
    <3>3. CASE w = first
        BY <1>22, <3>1, <3>2, <3>3, AllInto
    <3>4. CASE w # first
        BY <3>1, <3>4, NoneInto
    <3> QED
        BY <3>3, <3>4
  <2>11. Into(by, z) + Into(vs, z) = Into(ds, z)
      BY <1>2, <1>3
  <2>12. Into(by, z) \in Nat /\ Into(vs, z) \in Nat /\ Into(u, z) \in Nat /\ Into(v, z) \in Nat
      BY <1>4, <2>6, DegreesAreNum
  <2>13. Into(s, w) = Into(by, z) + 0 + Into(u, z) + (IF w = first THEN p - both ELSE 0) + Into(v, z)
      BY <1>26, <2>3, <2>4, <2>8, <2>9, <2>10
  <2> QED
      BY <1>6, <2>1, <2>7, <2>11, <2>12, <2>13
<1>30. PICK B : B = Bridge(m, nodes, first, R, kind, end)
    OBVIOUS
<1>31. B.edges = s /\ B.nodes = adaptors /\ B.extra = p - both
    BY <1>10, <1>24, <1>30
<1>32. p - both \in Nat
    BY <1>6
<1>33. Bridged(B, ts, ds, nodes, new, first, R, kind, end)
    BY <1>17, <1>18, <1>23, <1>26, <1>27, <1>28, <1>29, <1>31, <1>32 DEF Bridged
<1> QED
    BY <1>1, <1>30, <1>33

-----------------------------------------------------------------------------
(* What a crossover makes.                                                 *)

LEMMA SplitFrom ==
    ASSUME NEW T, NEW s \in Seq(T), NEW P, NEW Q, NEW n,
           \A e \in T : e.src = n => (e \in P <=> e \notin Q)
    PROVE  From(s, n) = From(Among(s, P), n) + From(Among(s, Q), n)
<1>1. PICK A, B, u, v : A = P \cap StartingAt(T, n) /\ B = Q \cap StartingAt(T, n)
                        /\ u = Among(s, P) /\ v = Among(s, Q)
    OBVIOUS
<1>2. A \cup B = StartingAt(T, n) /\ A \cap B = {}
    BY <1>1 DEF StartingAt
<1>3. u \in Seq(T) /\ v \in Seq(T)
    BY <1>1, AmongIs
<1>4. From(u, n) = Num(u, StartingAt(T, n)) /\ From(v, n) = Num(v, StartingAt(T, n))
    BY <1>3, DegreesAreNum
<1>5. Num(u, StartingAt(T, n)) = Num(s, A) /\ Num(v, StartingAt(T, n)) = Num(s, B)
    BY <1>1, NumAmong
<1>6. Num(s, A \cup B) = Num(s, A) + Num(s, B)
    BY <1>2, NumSplit
<1>7. From(s, n) = Num(s, StartingAt(T, n))
    BY DegreesAreNum
<1> QED
    BY <1>1, <1>2, <1>4, <1>5, <1>6, <1>7

LEMMA SplitInto ==
    ASSUME NEW T, NEW s \in Seq(T), NEW P, NEW Q, NEW n,
           \A e \in T : e.dst = n => (e \in P <=> e \notin Q)
    PROVE  Into(s, n) = Into(Among(s, P), n) + Into(Among(s, Q), n)
<1>1. PICK A, B, u, v : A = P \cap EndingAt(T, n) /\ B = Q \cap EndingAt(T, n)
                        /\ u = Among(s, P) /\ v = Among(s, Q)
    OBVIOUS
<1>2. A \cup B = EndingAt(T, n) /\ A \cap B = {}
    BY <1>1 DEF EndingAt
<1>3. u \in Seq(T) /\ v \in Seq(T)
    BY <1>1, AmongIs
<1>4. Into(u, n) = Num(u, EndingAt(T, n)) /\ Into(v, n) = Num(v, EndingAt(T, n))
    BY <1>3, DegreesAreNum
<1>5. Num(u, EndingAt(T, n)) = Num(s, A) /\ Num(v, EndingAt(T, n)) = Num(s, B)
    BY <1>1, NumAmong
<1>6. Num(s, A \cup B) = Num(s, A) + Num(s, B)
    BY <1>2, NumSplit
<1>7. Into(s, n) = Num(s, EndingAt(T, n))
    BY DegreesAreNum
<1> QED
    BY <1>1, <1>2, <1>4, <1>5, <1>6, <1>7

\* Turned edges.
LEMMA TurnedAre ==
    ASSUME NEW T, NEW s \in Seq(T)
    PROVE  /\ TurnedAll(s) \in Seq({Turned(e) : e \in T})
           /\ ToSet(TurnedAll(s)) = {Turned(e) : e \in ToSet(s)}
           /\ \A n : Into(TurnedAll(s), n) = From(s, n) /\ From(TurnedAll(s), n) = Into(s, n)
<1>1. PICK u, l : u = TurnedAll(s) /\ l = Len(s)
    OBVIOUS
<1>2. l \in Nat /\ DOMAIN s = 1..l /\ \A k \in 1..l : s[k] \in T
    BY <1>1
<1>3. u = [k \in 1..l |-> Turned(s[k])]
    BY <1>1, <1>2 DEF TurnedAll
<1>4. DOMAIN u = 1..l /\ \A k \in 1..l : u[k] = Turned(s[k])
    BY <1>3
<1>5. \A e : Turned(e).src = e.dst /\ Turned(e).dst = e.src
    BY DEF Turned, Edge
<1>6. u \in Seq({Turned(e) : e \in T})
  <2>1. Spans(u, l)
      BY <1>3 DEF Spans
  <2>2. \A k \in 1..l : u[k] \in {Turned(e) : e \in T}
      BY <1>2, <1>4
  <2> QED
      BY <1>2, <2>1, <2>2, SpansIs
<1>7. ToSet(u) = {Turned(e) : e \in ToSet(s)}
    BY <1>2, <1>4 DEF ToSet
<1>8. ASSUME NEW n PROVE Into(u, n) = From(s, n) /\ From(u, n) = Into(s, n)
  <2>1. {k \in DOMAIN u : u[k].dst = n} = {k \in DOMAIN s : s[k].src = n}
      BY <1>2, <1>4, <1>5
  <2>2. {k \in DOMAIN u : u[k].src = n} = {k \in DOMAIN s : s[k].dst = n}
      BY <1>2, <1>4, <1>5
  <2> QED
      BY <2>1, <2>2 DEF Into, From
<1> QED
    BY <1>1, <1>6, <1>7, <1>8

-----------------------------------------------------------------------------
(* A piece and what is around it.                                          *)

Surroundings(a, t) == Among(a.edges, Inner(a, a.nodes \ t))
Middle(b, d) == Among(b.edges, Inner(b, d))

\* Around a piece: what its nodes' edges are, and those of the others.
Around(a, t) ==
    /\ Surroundings(a, t) \in Seq(EdgeSet(a))
    /\ \A e \in ToSet(Surroundings(a, t)) : e \in EdgeSet(a) /\ e.src \in a.nodes \ t /\ e.dst \in a.nodes \ t
    /\ Middle(a, t) \in Seq(EdgeSet(a))
    /\ \A e \in ToSet(Middle(a, t)) : e \in EdgeSet(a) /\ e.src \in t /\ e.dst \in t
    /\ Inputs(a, t) \in Seq(EdgeSet(a)) /\ Inputs(a, t) \in Seq(ToSet(Inputs(a, t)))
    /\ \A e \in ToSet(Inputs(a, t)) : e \in EdgeSet(a) /\ e.src \in a.nodes \ t /\ e.dst \in t
    /\ Outputs(a, t) \in Seq(EdgeSet(a)) /\ Outputs(a, t) \in Seq(ToSet(Outputs(a, t)))
    /\ \A e \in ToSet(Outputs(a, t)) : e \in EdgeSet(a) /\ e.src \in t /\ e.dst \in a.nodes \ t
    /\ \A x \in a.nodes \ t : /\ From(a.edges, x) = From(Surroundings(a, t), x) + From(Inputs(a, t), x)
                              /\ Into(a.edges, x) = Into(Surroundings(a, t), x) + Into(Outputs(a, t), x)
    /\ \A z \in t : /\ Into(a.edges, z) = Into(Middle(a, t), z) + Into(Inputs(a, t), z)
                    /\ From(a.edges, z) = From(Middle(a, t), z) + From(Outputs(a, t), z)

LEMMA AroundIs ==
    ASSUME NEW a, IsGraph(a), NEW t
    PROVE  Around(a, t)
<1>1. PICK s, T, X : s = a.edges /\ T = EdgeSet(a) /\ X = a.nodes \ t
    OBVIOUS
<1>2. s \in Seq(T) /\ ToSet(s) = T /\ \A e \in T : e.src \in a.nodes /\ e.dst \in a.nodes
    BY <1>1 DEF IsGraph, EdgeSet
<1>3. PICK I, M, E, L : I = Inner(a, X) /\ M = Inner(a, t) /\ E = Entering(a, t) /\ L = Leaving(a, t)
    OBVIOUS
<1>4. \A e \in T : /\ e \in I <=> e.src \in X /\ e.dst \in X
                   /\ e \in M <=> e.src \in t /\ e.dst \in t
                   /\ e \in E <=> e.src \in X /\ e.dst \in t
                   /\ e \in L <=> e.src \in t /\ e.dst \in X
    BY <1>1, <1>2, <1>3 DEF Inner, Entering, Leaving
<1>5. PICK ci, cm, ce, cl : ci = Among(s, I) /\ cm = Among(s, M) /\ ce = Among(s, E) /\ cl = Among(s, L)
    OBVIOUS
<1>6. ci \in Seq(T) /\ ToSet(ci) = T \cap I
    BY <1>2, <1>5, AmongIs
<1>7. cm \in Seq(T) /\ ToSet(cm) = T \cap M
    BY <1>2, <1>5, AmongIs
<1>8. ce \in Seq(T) /\ ToSet(ce) = T \cap E /\ ce \in Seq(ToSet(ce))
    BY <1>2, <1>5, AmongIs, SeqOfItself
<1>9. cl \in Seq(T) /\ ToSet(cl) = T \cap L /\ cl \in Seq(ToSet(cl))
    BY <1>2, <1>5, AmongIs, SeqOfItself
<1>10. /\ Surroundings(a, t) = ci /\ Middle(a, t) = cm /\ Inputs(a, t) = ce /\ Outputs(a, t) = cl
    BY <1>1, <1>3, <1>5 DEF Surroundings, Middle, Inputs, Outputs
<1>11. ASSUME NEW x \in X PROVE From(s, x) = From(ci, x) + From(ce, x) /\ Into(s, x) = Into(ci, x) + Into(cl, x)
  <2>1. \A e \in T : e.src = x => (e \in I <=> e \notin E)
      BY <1>1, <1>2, <1>4
  <2>2. \A e \in T : e.dst = x => (e \in I <=> e \notin L)
      BY <1>1, <1>2, <1>4
  <2> QED
      BY <1>2, <1>5, <2>1, <2>2, SplitFrom, SplitInto
<1>12. ASSUME NEW z \in t PROVE Into(s, z) = Into(cm, z) + Into(ce, z) /\ From(s, z) = From(cm, z) + From(cl, z)
  <2>1. \A e \in T : e.dst = z => (e \in M <=> e \notin E)
      BY <1>1, <1>2, <1>4
  <2>2. \A e \in T : e.src = z => (e \in M <=> e \notin L)
      BY <1>1, <1>2, <1>4
  <2> QED
      BY <1>2, <1>5, <2>1, <2>2, SplitFrom, SplitInto
<1>13. /\ \A e \in ToSet(ci) : e \in T /\ e.src \in X /\ e.dst \in X
       /\ \A e \in ToSet(cm) : e \in T /\ e.src \in t /\ e.dst \in t
       /\ \A e \in ToSet(ce) : e \in T /\ e.src \in X /\ e.dst \in t
       /\ \A e \in ToSet(cl) : e \in T /\ e.src \in t /\ e.dst \in X
    BY <1>4, <1>6, <1>7, <1>8, <1>9
<1> QED
    BY <1>1, <1>6, <1>7, <1>8, <1>9, <1>10, <1>11, <1>12, <1>13 DEF Around

-----------------------------------------------------------------------------
(* The child.                                                              *)

NewNames(a, d) == {Renamed(a, n) : n \in d}
Names(a, d) == [n \in d |-> Renamed(a, n)]
KeptNodes(a, t, d) == (a.nodes \ t) \cup NewNames(a, d)
Moved(s, R) == [k \in DOMAIN s |-> Edge(R[s[k].src], R[s[k].dst], s[k].st, s[k].dt)]
InsOf(a, b, t, d, first) ==
    Bridge(Matched(Inputs(a, t), Inputs(b, d)), KeptNodes(a, t, d), first, Names(a, d), "adapt_in", "adapt_src")
OutsOf(a, b, t, d, first) ==
    Bridge(Matched(TurnedAll(Outputs(a, t)), TurnedAll(Outputs(b, d))),
           KeptNodes(a, t, d), first, Names(a, d), "adapt_out", "adapt_sink")
IsAdaptorName(n) == n[1] = 0 /\ n[2] \in {"adapt_in", "adapt_out", "adapt_src", "adapt_sink"}

\* The parts of a child.
MadeOf(raw, a, b, t, d, first, names, ins, outs) ==
    /\ raw.edges = Surroundings(a, t) \o Moved(Middle(b, d), Names(a, d)) \o ins.edges \o TurnedAll(outs.edges)
    /\ raw.nodes = KeptNodes(a, t, d) \cup ins.nodes \cup outs.nodes
    /\ \A n \in raw.nodes :
          raw.arity[n] = IF IsAdaptorName(n) THEN Degree([edges |-> raw.edges], n)
                         ELSE (IF n \in a.nodes \ t THEN a.arity[n] ELSE b.arity[names[n]])
                              + (IF n = first THEN ins.extra + outs.extra ELSE 0)
    /\ raw = [nodes |-> raw.nodes, edges |-> raw.edges, arity |-> raw.arity, signatures |-> raw.signatures]

LEMMA ChildIs ==
    ASSUME NEW a, NEW b, NEW t, NEW d, NEW first, NEW names
    PROVE  MadeOf(Child(a, b, t, d, first, names), a, b, t, d, first, names,
                  InsOf(a, b, t, d, first), OutsOf(a, b, t, d, first))
<1> DEFINE R == [n \in d |-> Renamed(a, n)]
           kept == (a.nodes \ t) \cup {R[n] : n \in d}
           ins == Bridge(Matched(Inputs(a, t), Inputs(b, d)), kept, first, R, "adapt_in", "adapt_src")
           outs == Bridge(Matched(TurnedAll(Outputs(a, t)), TurnedAll(Outputs(b, d))),
                          kept, first, R, "adapt_out", "adapt_sink")
           inner == Among(b.edges, Inner(b, d))
           edges == Among(a.edges, Inner(a, a.nodes \ t))
                    \o [k \in DOMAIN inner |-> Edge(R[inner[k].src], R[inner[k].dst], inner[k].st, inner[k].dt)]
                    \o ins.edges \o TurnedAll(outs.edges)
           nodes == kept \cup ins.nodes \cup outs.nodes
           Adapts(n) == n[1] = 0 /\ n[2] \in {"adapt_in", "adapt_out", "adapt_src", "adapt_sink"}
           arity == [n \in nodes |->
                     IF Adapts(n) THEN Degree([edges |-> edges], n)
                     ELSE (IF n \in a.nodes \ t THEN a.arity[n] ELSE b.arity[names[n]])
                          + (IF n = first THEN ins.extra + outs.extra ELSE 0)]
<1>1. Child(a, b, t, d, first, names)
      = [nodes |-> nodes, edges |-> edges, arity |-> arity, signatures |-> a.signatures]
    BY DEF Child
<1>2. R = Names(a, d) /\ inner = Middle(b, d)
    BY DEF Names, Middle
<1>3. kept = KeptNodes(a, t, d)
  <2>1. {R[n] : n \in d} = NewNames(a, d)
      BY DEF NewNames
  <2> QED
      BY <2>1 DEF KeptNodes
<1>4. PICK ri, ro : ri = ins /\ ro = outs
    OBVIOUS
<1>5. ri = InsOf(a, b, t, d, first) /\ ro = OutsOf(a, b, t, d, first)
  <2> HIDE DEF R, kept
  <2> QED
      BY <1>2, <1>3, <1>4 DEF InsOf, OutsOf
<1>6. PICK re, rn, rr : re = edges /\ rn = nodes /\ rr = arity
    OBVIOUS
<1>7. re = Surroundings(a, t) \o Moved(Middle(b, d), Names(a, d)) \o ri.edges \o TurnedAll(ro.edges)
  <2>1. Moved(inner, R)
        = [k \in DOMAIN inner |-> Edge(R[inner[k].src], R[inner[k].dst], inner[k].st, inner[k].dt)]
      BY DEF Moved
  <2>2. re = Surroundings(a, t) \o Moved(inner, R) \o ri.edges \o TurnedAll(ro.edges)
    <3> HIDE DEF R, inner, ins, outs
    <3> QED
        BY <1>4, <1>6, <2>1 DEF Surroundings
  <2> HIDE DEF R, inner
  <2> QED
      BY <1>2, <2>2
<1>8. rn = KeptNodes(a, t, d) \cup ri.nodes \cup ro.nodes
  <2> HIDE DEF kept, ins, outs
  <2> QED
      BY <1>3, <1>4, <1>6
<1>9. \A n \in rn : rr[n] = IF IsAdaptorName(n) THEN Degree([edges |-> re], n)
                     ELSE (IF n \in a.nodes \ t THEN a.arity[n] ELSE b.arity[names[n]])
                          + (IF n = first THEN ri.extra + ro.extra ELSE 0)
  <2>1. \A n : Adapts(n) <=> IsAdaptorName(n)
      BY DEF IsAdaptorName
  <2> HIDE DEF nodes, edges, ins, outs, Adapts
  <2> QED
      BY <1>4, <1>6, <2>1
<1>10. PICK raw : raw = Child(a, b, t, d, first, names)
    OBVIOUS
<1>11. raw = [nodes |-> rn, edges |-> re, arity |-> rr, signatures |-> a.signatures]
  <2> HIDE DEF nodes, edges, arity
  <2> QED
      BY <1>1, <1>6, <1>10
<1>12. /\ raw.nodes = rn /\ raw.edges = re /\ raw.arity = rr
       /\ raw = [nodes |-> raw.nodes, edges |-> raw.edges, arity |-> raw.arity, signatures |-> raw.signatures]
    BY <1>11
<1>13. MadeOf(raw, a, b, t, d, first, names, ri, ro)
    BY <1>7, <1>8, <1>9, <1>12 DEF MadeOf
<1> QED
    BY <1>5, <1>10, <1>13

\* The nodes that a crossover is about: new names are no names of the graph.
LEMMA NewNamesAre ==
    ASSUME NEW a, IsGraph(a), NEW b, IsGraph(b), \A n \in b.nodes : n[1] \in Nat,
           NEW t, NEW d \in SUBSET b.nodes
    PROVE  /\ IsFiniteSet(KeptNodes(a, t, d))
           /\ NewNames(a, d) \subseteq KeptNodes(a, t, d) /\ a.nodes \ t \subseteq KeptNodes(a, t, d)
           /\ NewNames(a, d) \cap a.nodes = {}
           /\ \A n \in NewNames(a, d) : n[1] \in Nat \ {0}
           /\ \A z \in d : Names(a, d)[z] = Renamed(a, z) /\ Renamed(a, z) \in NewNames(a, d)
<1>1. IsFiniteSet(a.nodes) /\ IsFiniteSet(d)
  <2>1. IsFiniteSet(a.nodes) /\ IsFiniteSet(b.nodes)
      BY DEF IsGraph
  <2> QED
      BY <2>1, FS_Subset
<1>2. \A z \in d : Names(a, d)[z] = Renamed(a, z) /\ Renamed(a, z) \in NewNames(a, d)
    BY DEF Names, NewNames
<1>3. IsFiniteSet(NewNames(a, d))
  <2>1. PICK R, S : R = Names(a, d) /\ S = NewNames(a, d)
      OBVIOUS
  <2>2. R \in Surjection(d, S)
      BY <2>1 DEF Surjection, Names, NewNames
  <2>3. IsFiniteSet(S)
      BY <1>1, <2>2, FS_Surjection
  <2> QED
      BY <2>1, <2>3
<1>4. IsFiniteSet(a.nodes \ t)
    BY <1>1, FS_Difference
<1>5. IsFiniteSet(KeptNodes(a, t, d))
  <2>1. PICK S, X : S = NewNames(a, d) /\ X = a.nodes \ t
      OBVIOUS
  <2>2. IsFiniteSet(X \cup S)
      BY <1>3, <1>4, <2>1, FS_Union
  <2> QED
      BY <2>1, <2>2 DEF KeptNodes
<1>6. \A z \in d : \E k \in Nat \ {0} : /\ Renamed(a, z) = <<z[1] + k, z[2], z[3]>>
                                         /\ Renamed(a, z) \notin a.nodes
  <2>1. \A z \in d : z[1] \in Nat
      OBVIOUS
  <2> QED
      BY <1>1, <2>1, RenamedIsNew
<1>7. \A n \in NewNames(a, d) : n \notin a.nodes /\ n[1] \in Nat \ {0}
  <2>1. ASSUME NEW n \in NewNames(a, d) PROVE n \notin a.nodes /\ n[1] \in Nat \ {0}
    <3>1. PICK z \in d : n = Renamed(a, z)
        BY DEF NewNames
    <3>2. PICK k \in Nat \ {0} : n = <<z[1] + k, z[2], z[3]>> /\ n \notin a.nodes
        BY <1>6, <3>1
    <3>3. z[1] \in Nat /\ n[1] = z[1] + k
        BY <3>2
    <3> QED
        BY <3>2, <3>3
  <2> QED
      BY <2>1
<1> QED
    BY <1>2, <1>5, <1>7 DEF KeptNodes

\* Both boundaries are bridged.
LEMMA BothBridged ==
    ASSUME NEW a, IsGraph(a), NEW b, IsGraph(b), \A n \in b.nodes : n[1] \in Nat,
           NEW t, NEW d \in SUBSET b.nodes, NEW first \in NewNames(a, d)
    PROVE  /\ Bridged(InsOf(a, b, t, d, first), Inputs(a, t), Inputs(b, d), KeptNodes(a, t, d),
                      NewNames(a, d), first, Names(a, d), "adapt_in", "adapt_src")
           /\ Bridged(OutsOf(a, b, t, d, first), TurnedAll(Outputs(a, t)), TurnedAll(Outputs(b, d)),
                      KeptNodes(a, t, d), NewNames(a, d), first, Names(a, d), "adapt_out", "adapt_sink")
<1>1. PICK nodes, new, R : nodes = KeptNodes(a, t, d) /\ new = NewNames(a, d) /\ R = Names(a, d)
    OBVIOUS
<1>2. /\ IsFiniteSet(nodes) /\ new \in SUBSET nodes /\ first \in new
      /\ \A z \in d : R[z] \in new
    BY <1>1, NewNamesAre
<1>3. Around(a, t) /\ Around(b, d)
    BY AroundIs
<1>4. PICK ti, di : ti = Inputs(a, t) /\ di = Inputs(b, d)
    OBVIOUS
<1>5. /\ ti \in Seq(ToSet(ti)) /\ di \in Seq(ToSet(di))
      /\ \A e \in ToSet(di) : R[e.dst] \in new
    BY <1>2, <1>3, <1>4 DEF Around
<1>6. Bridged(Bridge(Matched(ti, di), nodes, first, R, "adapt_in", "adapt_src"), ti, di, nodes, new, first, R,
              "adapt_in", "adapt_src")
    BY <1>2, <1>5, BridgeIs
<1>7. PICK to, do : to = TurnedAll(Outputs(a, t)) /\ do = TurnedAll(Outputs(b, d))
    OBVIOUS
<1>8. /\ to \in Seq(ToSet(to)) /\ do \in Seq(ToSet(do))
      /\ \A e \in ToSet(do) : R[e.dst] \in new
  <2>1. PICK o, u : o = Outputs(a, t) /\ u = Outputs(b, d)
      OBVIOUS
  <2>2. o \in Seq(EdgeSet(a)) /\ u \in Seq(EdgeSet(b)) /\ \A e \in ToSet(u) : e.src \in d
      BY <1>3, <2>1 DEF Around
  <2>3. to \in Seq(ToSet(to))
    <3>1. to \in Seq({Turned(e) : e \in EdgeSet(a)})
        BY <1>7, <2>1, <2>2, TurnedAre
    <3> QED
        BY <3>1, SeqOfItself
  <2>4. do \in Seq({Turned(e) : e \in EdgeSet(b)}) /\ ToSet(do) = {Turned(e) : e \in ToSet(u)}
      BY <1>7, <2>1, <2>2, TurnedAre
  <2>5. do \in Seq(ToSet(do))
      BY <2>4, SeqOfItself
  <2>6. \A e : Turned(e).dst = e.src
      BY DEF Turned, Edge
  <2> QED
      BY <1>2, <2>2, <2>3, <2>4, <2>5, <2>6
<1>9. Bridged(Bridge(Matched(to, do), nodes, first, R, "adapt_out", "adapt_sink"), to, do, nodes, new, first, R,
              "adapt_out", "adapt_sink")
    BY <1>2, <1>8, BridgeIs
<1> QED
    BY <1>1, <1>4, <1>6, <1>7, <1>9 DEF InsOf, OutsOf

FourAdd(s, a, b, c, d, T, n) ==
    /\ s \in Seq(T)
    /\ Into(s, n) = Into(a, n) + Into(b, n) + Into(c, n) + Into(d, n)
    /\ From(s, n) = From(a, n) + From(b, n) + From(c, n) + From(d, n)

LEMMA FourJoined ==
    ASSUME NEW T, NEW a \in Seq(T), NEW b \in Seq(T), NEW c \in Seq(T), NEW d \in Seq(T),
           NEW s, s = a \o b \o c \o d, NEW n
    PROVE  FourAdd(s, a, b, c, d, T, n)
<1>1. PICK ab, ac : ab = a \o b /\ ac = ab \o c
    OBVIOUS
<1>2. Adds(ab, a, b, T, n)
    BY <1>1, JoinAdds
<1>3. ab \in Seq(T)
    BY <1>2 DEF Adds
<1>4. Adds(ac, ab, c, T, n)
    BY <1>1, <1>3, JoinAdds
<1>5. ac \in Seq(T)
    BY <1>4 DEF Adds
<1>6. s = ac \o d
    BY <1>1
<1>7. Adds(s, ac, d, T, n)
    BY <1>5, <1>6, JoinAdds
<1> QED
    BY <1>2, <1>4, <1>7 DEF Adds, FourAdd

\* What is moved.
IsMoved(u, s, R) ==
    /\ u \in Seq(ToSet(u))
    /\ \A e \in ToSet(u) : \E f \in ToSet(s) : /\ e.src = R[f.src] /\ e.dst = R[f.dst]
                                              /\ e.st = f.st /\ e.dt = f.dt
    /\ \A z, y : (\A e \in ToSet(s) : e.src = z <=> R[e.src] = y) => From(u, y) = From(s, z)
    /\ \A z, y : (\A e \in ToSet(s) : e.dst = z <=> R[e.dst] = y) => Into(u, y) = Into(s, z)

LEMMA MovedIs ==
    ASSUME NEW T, NEW s \in Seq(T), NEW R
    PROVE  IsMoved(Moved(s, R), s, R)
<1>1. PICK u, l : u = Moved(s, R) /\ l = Len(s)
    OBVIOUS
<1>2. l \in Nat /\ DOMAIN s = 1..l /\ ToSet(s) = {s[k] : k \in 1..l}
    BY <1>1 DEF ToSet
<1>3. DOMAIN u = 1..l /\ Spans(u, l)
    BY <1>1, <1>2 DEF Moved, Spans
<1>4. \A k \in 1..l : /\ u[k].src = R[s[k].src] /\ u[k].dst = R[s[k].dst]
                      /\ u[k].st = s[k].st /\ u[k].dt = s[k].dt
    BY <1>1, <1>2 DEF Moved, Edge
<1>5. ToSet(u) = {u[k] : k \in 1..l}
    BY <1>3 DEF ToSet
<1>6. u \in Seq(ToSet(u))
  <2>1. \A k \in 1..l : u[k] \in ToSet(u)
      BY <1>5
  <2> QED
      BY <1>2, <1>3, <2>1, SpansIs
<1>7. ASSUME NEW e \in ToSet(u)
      PROVE  \E f \in ToSet(s) : e.src = R[f.src] /\ e.dst = R[f.dst] /\ e.st = f.st /\ e.dt = f.dt
  <2>1. PICK k \in 1..l : e = u[k]
      BY <1>5
  <2>2. s[k] \in ToSet(s)
      BY <1>2
  <2> QED
      BY <1>4, <2>1, <2>2
<1>8. ASSUME NEW z, NEW y, \A e \in ToSet(s) : e.src = z <=> R[e.src] = y
      PROVE  From(u, y) = From(s, z)
  <2>1. \A k \in 1..l : u[k].src = y <=> s[k].src = z
      BY <1>2, <1>4, <1>8
  <2>2. {k \in DOMAIN u : u[k].src = y} = {k \in DOMAIN s : s[k].src = z}
      BY <1>2, <1>3, <2>1
  <2> QED
      BY <2>2 DEF From
<1>9. ASSUME NEW z, NEW y, \A e \in ToSet(s) : e.dst = z <=> R[e.dst] = y
      PROVE  Into(u, y) = Into(s, z)
  <2>1. \A k \in 1..l : u[k].dst = y <=> s[k].dst = z
      BY <1>2, <1>4, <1>9
  <2>2. {k \in DOMAIN u : u[k].dst = y} = {k \in DOMAIN s : s[k].dst = z}
      BY <1>2, <1>3, <2>1
  <2> QED
      BY <2>2 DEF Into
<1>10. IsMoved(u, s, R)
    BY <1>6, <1>7, <1>8, <1>9 DEF IsMoved
<1> QED
    BY <1>1, <1>10

Crossing(a, b, t, d, first) ==
    /\ IsGraph(a) /\ IsGraph(b)
    /\ (\A n \in a.nodes : n[1] \in Nat) /\ (\A n \in b.nodes : n[1] \in Nat)
    /\ d \subseteq b.nodes /\ first \in NewNames(a, d)

\* The four parts of a child's edges.
Parts(raw, a, b, t, d, ins, outs, c1, c2, c3, c4, T) ==
    /\ c1 = Surroundings(a, t) /\ c2 = Moved(Middle(b, d), Names(a, d))
    /\ c3 = ins.edges /\ c4 = TurnedAll(outs.edges)
    /\ \A n : FourAdd(raw.edges, c1, c2, c3, c4, T, n)
    /\ \A n : Into(c4, n) = From(outs.edges, n) /\ From(c4, n) = Into(outs.edges, n)
    /\ \A e \in T : \/ e \in EdgeSet(a) /\ e.src \in a.nodes \ t /\ e.dst \in a.nodes \ t
                    \/ \E f \in EdgeSet(b) :
                          /\ f.src \in d /\ f.dst \in d /\ e.src = Renamed(a, f.src) /\ e.dst = Renamed(a, f.dst)
                          /\ e.st = f.st /\ e.dt = f.dt
                    \/ BridgeEdge(e, Inputs(a, t), NewNames(a, d), ins.nodes)
                    \/ \E f : /\ BridgeEdge(f, TurnedAll(Outputs(a, t)), NewNames(a, d), outs.nodes)
                              /\ e = Turned(f)

LEMMA PartsAre ==
    ASSUME NEW a, NEW b, NEW t, NEW d, NEW first, Crossing(a, b, t, d, first), NEW raw, NEW names,
           NEW ins, NEW outs, ins = InsOf(a, b, t, d, first), outs = OutsOf(a, b, t, d, first),
           MadeOf(raw, a, b, t, d, first, names, ins, outs)
    PROVE  \E c1, c2, c3, c4, T : Parts(raw, a, b, t, d, ins, outs, c1, c2, c3, c4, T)
<1>1. PICK c1, c2, c3, c4 : /\ c1 = Surroundings(a, t) /\ c2 = Moved(Middle(b, d), Names(a, d))
                            /\ c3 = ins.edges /\ c4 = TurnedAll(outs.edges)
    OBVIOUS
<1>2. Around(a, t) /\ Around(b, d)
    BY AroundIs DEF Crossing
<1>3. PICK T1 : T1 = ToSet(c1)
    OBVIOUS
<1>4. c1 \in Seq(T1) /\ \A e \in T1 : e \in EdgeSet(a) /\ e.src \in a.nodes \ t /\ e.dst \in a.nodes \ t
  <2>1. c1 \in Seq(EdgeSet(a))
      BY <1>1, <1>2 DEF Around
  <2>2. c1 \in Seq(T1)
      BY <1>3, <2>1, SeqOfItself
  <2> QED
      BY <1>1, <1>2, <1>3, <2>2 DEF Around
<1>5. PICK T2 : T2 = ToSet(c2)
    OBVIOUS
<1>6. /\ c2 \in Seq(T2)
      /\ \A e \in T2 : \E f \in EdgeSet(b) :
            /\ f.src \in d /\ f.dst \in d /\ e.src = Renamed(a, f.src) /\ e.dst = Renamed(a, f.dst)
            /\ e.st = f.st /\ e.dt = f.dt
  <2>1. PICK s, R : s = Middle(b, d) /\ R = Names(a, d)
      OBVIOUS
  <2>2. s \in Seq(EdgeSet(b)) /\ \A e \in ToSet(s) : e \in EdgeSet(b) /\ e.src \in d /\ e.dst \in d
      BY <1>2, <2>1 DEF Around
  <2>3. /\ c2 \in Seq(T2)
        /\ \A e \in T2 : \E f \in ToSet(s) : /\ e.src = R[f.src] /\ e.dst = R[f.dst]
                                              /\ e.st = f.st /\ e.dt = f.dt
    <3>1. c2 = Moved(s, R)
        BY <1>1, <2>1
    <3>2. IsMoved(c2, s, R)
        BY <2>2, <3>1, MovedIs
    <3> QED
        BY <1>5, <3>2 DEF IsMoved
  <2>4. \A z \in d : R[z] = Renamed(a, z)
      BY <2>1 DEF Names
  <2> QED
      BY <2>2, <2>3, <2>4
<1>7. PICK kept, new, R : kept = KeptNodes(a, t, d) /\ new = NewNames(a, d) /\ R = Names(a, d)
    OBVIOUS
<1>8. /\ Bridged(ins, Inputs(a, t), Inputs(b, d), kept, new, first, R, "adapt_in", "adapt_src")
      /\ Bridged(outs, TurnedAll(Outputs(a, t)), TurnedAll(Outputs(b, d)), kept, new, first, R,
                 "adapt_out", "adapt_sink")
    BY <1>7, BothBridged DEF Crossing
<1>9. PICK T3 : c3 \in Seq(T3) /\ \A e \in T3 : BridgeEdge(e, Inputs(a, t), new, ins.nodes)
    BY <1>1, <1>8 DEF Bridged
<1>10. PICK F : outs.edges \in Seq(F) /\ \A e \in F : BridgeEdge(e, TurnedAll(Outputs(a, t)), new, outs.nodes)
    BY <1>8 DEF Bridged
<1>11. PICK T4 : T4 = {Turned(e) : e \in F}
    OBVIOUS
<1>12. /\ c4 \in Seq(T4)
       /\ \A n : Into(c4, n) = From(outs.edges, n) /\ From(c4, n) = Into(outs.edges, n)
    BY <1>1, <1>10, <1>11, TurnedAre
<1>13. PICK T : T = T1 \cup T2 \cup T3 \cup T4
    OBVIOUS
<1>14. c1 \in Seq(T) /\ c2 \in Seq(T) /\ c3 \in Seq(T) /\ c4 \in Seq(T)
    BY <1>4, <1>6, <1>9, <1>12, <1>13
<1>15. raw.edges = c1 \o c2 \o c3 \o c4
    BY <1>1 DEF MadeOf
<1>16. \A n : FourAdd(raw.edges, c1, c2, c3, c4, T, n)
    BY <1>14, <1>15, FourJoined
<1>17. ASSUME NEW e \in T
       PROVE  \/ e \in EdgeSet(a) /\ e.src \in a.nodes \ t /\ e.dst \in a.nodes \ t
              \/ \E f \in EdgeSet(b) :
                    /\ f.src \in d /\ f.dst \in d /\ e.src = Renamed(a, f.src) /\ e.dst = Renamed(a, f.dst)
                    /\ e.st = f.st /\ e.dt = f.dt
              \/ BridgeEdge(e, Inputs(a, t), NewNames(a, d), ins.nodes)
              \/ \E f : /\ BridgeEdge(f, TurnedAll(Outputs(a, t)), NewNames(a, d), outs.nodes)
                        /\ e = Turned(f)
  <2>1. CASE e \in T1
      BY <1>4, <2>1
  <2>2. CASE e \in T2
      BY <1>6, <2>2
  <2>3. CASE e \in T3
      BY <1>7, <1>9, <2>3
  <2>4. CASE e \in T4
      BY <1>7, <1>10, <1>11, <2>4
  <2> QED
      BY <1>13, <2>1, <2>2, <2>3, <2>4
<1>18. Parts(raw, a, b, t, d, ins, outs, c1, c2, c3, c4, T)
    BY <1>1, <1>12, <1>16, <1>17 DEF Parts
<1> QED
    BY <1>18

\* Every node of the context keeps its edges, one for one.
LEMMA ContextKeeps ==
    ASSUME NEW a, NEW b, NEW t, NEW d, NEW first, Crossing(a, b, t, d, first), NEW raw, NEW names,
           NEW ins, NEW outs, ins = InsOf(a, b, t, d, first), outs = OutsOf(a, b, t, d, first),
           MadeOf(raw, a, b, t, d, first, names, ins, outs), NEW x \in a.nodes \ t
    PROVE  Into(raw.edges, x) = Into(a.edges, x) /\ From(raw.edges, x) = From(a.edges, x)
<1>1. PICK c1, c2, c3, c4, T : Parts(raw, a, b, t, d, ins, outs, c1, c2, c3, c4, T)
    BY PartsAre
<1>2. Around(a, t) /\ Around(b, d)
    BY AroundIs DEF Crossing
<1>3. PICK kept, new, R : kept = KeptNodes(a, t, d) /\ new = NewNames(a, d) /\ R = Names(a, d)
    OBVIOUS
<1>4. /\ new \subseteq kept /\ new \cap a.nodes = {} /\ a.nodes \ t \subseteq kept
      /\ \A z \in d : R[z] \in new
    BY <1>3, NewNamesAre DEF Crossing
<1>5. x \in kept \ new
    BY <1>4
<1>6. PICK ti, to : ti = Inputs(a, t) /\ to = TurnedAll(Outputs(a, t))
    OBVIOUS
<1>7. /\ Bridged(ins, ti, Inputs(b, d), kept, new, first, R, "adapt_in", "adapt_src")
      /\ Bridged(outs, to, TurnedAll(Outputs(b, d)), kept, new, first, R, "adapt_out", "adapt_sink")
    BY <1>3, <1>6, BothBridged DEF Crossing
<1>8. Into(c1, x) + Into(Outputs(a, t), x) = Into(a.edges, x) /\ From(c1, x) + From(ti, x) = From(a.edges, x)
    BY <1>1, <1>2, <1>6 DEF Around, Parts
<1>9. Into(c2, x) = 0 /\ From(c2, x) = 0
  <2>1. PICK s : s = Middle(b, d)
      OBVIOUS
  <2>2. s \in Seq(EdgeSet(b)) /\ \A e \in ToSet(s) : e.src \in d /\ e.dst \in d
      BY <1>2, <2>1 DEF Around
  <2>3. c2 = Moved(s, R)
      BY <1>1, <1>3, <2>1 DEF Parts
  <2>4. IsMoved(c2, s, R)
      BY <2>2, <2>3, MovedIs
  <2>5. \A e \in ToSet(c2) : e.src # x /\ e.dst # x
      BY <1>4, <1>5, <2>2, <2>4 DEF IsMoved
  <2>6. \A k \in DOMAIN c2 : c2[k].src # x /\ c2[k].dst # x
      BY <2>5 DEF ToSet
  <2> QED
      BY <2>6, NoneInto, NoneFrom
<1>10. Into(c3, x) = 0 /\ From(c3, x) = From(ti, x)
    BY <1>1, <1>5, <1>7 DEF Parts, Bridged
<1>11. Into(c4, x) = From(to, x) /\ From(c4, x) = 0
    BY <1>1, <1>5, <1>7 DEF Parts, Bridged
<1>12. From(to, x) = Into(Outputs(a, t), x)
  <2>1. PICK o : o = Outputs(a, t)
      OBVIOUS
  <2>2. o \in Seq(EdgeSet(a))
      BY <1>2, <2>1 DEF Around
  <2> QED
      BY <1>6, <2>1, <2>2, TurnedAre
<1>13. /\ Into(raw.edges, x) = Into(c1, x) + Into(c2, x) + Into(c3, x) + Into(c4, x)
       /\ From(raw.edges, x) = From(c1, x) + From(c2, x) + From(c3, x) + From(c4, x)
    BY <1>1 DEF Parts, FourAdd
<1>14. Into(c1, x) \in Nat /\ From(c1, x) \in Nat /\ Into(Outputs(a, t), x) \in Nat /\ From(ti, x) \in Nat
  <2>1. PICK o : o = Outputs(a, t)
      OBVIOUS
  <2>2. o \in Seq(EdgeSet(a)) /\ ti \in Seq(EdgeSet(a)) /\ c1 \in Seq(EdgeSet(a))
      BY <1>1, <1>2, <1>6, <2>1 DEF Around, Parts
  <2> QED
      BY <2>1, <2>2, DegreesAreNum
<1> QED
    BY <1>8, <1>9, <1>10, <1>11, <1>12, <1>13, <1>14

\* The donor keeps its shape: under one name each its nodes have the edges they
\* had, and the first of them those of the context that met none.
LEMMA DonorKeeps ==
    ASSUME NEW a, NEW b, NEW t, NEW d, NEW first, Crossing(a, b, t, d, first), NEW raw, NEW names,
           NEW ins, NEW outs, ins = InsOf(a, b, t, d, first), outs = OutsOf(a, b, t, d, first),
           MadeOf(raw, a, b, t, d, first, names, ins, outs),
           \A u, v \in d : Renamed(a, u) = Renamed(a, v) => u = v,
           NEW z \in d, NEW w, w = Renamed(a, z)
    PROVE  /\ Into(raw.edges, w) = Into(b.edges, z) + IF w = first THEN ins.extra ELSE 0
           /\ From(raw.edges, w) = From(b.edges, z) + IF w = first THEN outs.extra ELSE 0
<1>1. PICK c1, c2, c3, c4, T : Parts(raw, a, b, t, d, ins, outs, c1, c2, c3, c4, T)
    BY PartsAre
<1>2. Around(a, t) /\ Around(b, d)
    BY AroundIs DEF Crossing
<1>3. PICK kept, new, R : kept = KeptNodes(a, t, d) /\ new = NewNames(a, d) /\ R = Names(a, d)
    OBVIOUS
<1>4. /\ new \subseteq kept /\ new \cap a.nodes = {}
      /\ \A u \in d : R[u] = Renamed(a, u) /\ R[u] \in new
    BY <1>3, NewNamesAre DEF Crossing
<1>5. w = R[z] /\ w \in new /\ w \in kept /\ w \notin a.nodes /\ \A u \in d : R[u] = w => u = z
    BY <1>4
<1>6. PICK ti, to, di, do, o, u :
          /\ ti = Inputs(a, t) /\ to = TurnedAll(o) /\ o = Outputs(a, t)
          /\ di = Inputs(b, d) /\ do = TurnedAll(u) /\ u = Outputs(b, d)
    OBVIOUS
<1>7. /\ Bridged(ins, ti, di, kept, new, first, R, "adapt_in", "adapt_src")
      /\ Bridged(outs, to, do, kept, new, first, R, "adapt_out", "adapt_sink")
    BY <1>3, <1>6, BothBridged DEF Crossing
<1>8. /\ ti \in Seq(EdgeSet(a)) /\ o \in Seq(EdgeSet(a)) /\ di \in Seq(EdgeSet(b)) /\ u \in Seq(EdgeSet(b))
      /\ \A e \in ToSet(ti) : e.src \in a.nodes
      /\ \A e \in ToSet(o) : e.dst \in a.nodes
      /\ \A e \in ToSet(di) : e.dst \in d
      /\ \A e \in ToSet(u) : e.src \in d
    BY <1>2, <1>6 DEF Around
<1>9. Into(c1, w) = 0 /\ From(c1, w) = 0
  <2>1. \A e \in ToSet(c1) : e.src \in a.nodes /\ e.dst \in a.nodes
      BY <1>1, <1>2 DEF Around, Parts
  <2>2. \A k \in DOMAIN c1 : c1[k].src # w /\ c1[k].dst # w
      BY <1>5, <2>1 DEF ToSet
  <2> QED
      BY <2>2, NoneInto, NoneFrom
<1>10. PICK s : s = Middle(b, d)
    OBVIOUS
<1>11. Into(c2, w) = Into(s, z) /\ From(c2, w) = From(s, z)
  <2>1. s \in Seq(EdgeSet(b)) /\ \A e \in ToSet(s) : e.src \in d /\ e.dst \in d
      BY <1>2, <1>10 DEF Around
  <2>2. c2 = Moved(s, R)
      BY <1>1, <1>3, <1>10 DEF Parts
  <2>3. IsMoved(c2, s, R)
      BY <2>1, <2>2, MovedIs
  <2>4. \A e \in ToSet(s) : (e.src = z <=> R[e.src] = w) /\ (e.dst = z <=> R[e.dst] = w)
      BY <1>5, <2>1
  <2> QED
      BY <2>3, <2>4 DEF IsMoved
<1>12. Into(c3, w) = Into(di, z) + IF w = first THEN ins.extra ELSE 0
  <2>1. Tells(R, di, z)
      BY <1>5, <1>8 DEF Tells
  <2> QED
      BY <1>1, <1>5, <1>7, <2>1 DEF Parts, Bridged
<1>13. From(c3, w) = 0
  <2>1. From(c3, w) = From(ti, w)
      BY <1>1, <1>5, <1>7 DEF Parts, Bridged
  <2>2. \A k \in DOMAIN ti : ti[k].src # w
      BY <1>5, <1>8 DEF ToSet
  <2> QED
      BY <2>1, <2>2, NoneFrom
<1>14. From(c4, w) = From(u, z) + IF w = first THEN outs.extra ELSE 0
  <2>1. ToSet(do) = {Turned(e) : e \in ToSet(u)} /\ Into(do, z) = From(u, z)
      BY <1>6, <1>8, TurnedAre
  <2>2. \A e : Turned(e).dst = e.src
      BY DEF Turned, Edge
  <2>3. \A e \in ToSet(do) : e.dst \in d
      BY <1>8, <2>1, <2>2
  <2>4. Tells(R, do, z)
      BY <1>5, <2>3 DEF Tells
  <2>5. Into(outs.edges, w) = Into(do, z) + IF w = first THEN outs.extra ELSE 0
      BY <1>5, <1>7, <2>4 DEF Bridged
  <2>6. From(c4, w) = Into(outs.edges, w)
      BY <1>1 DEF Parts
  <2> QED
      BY <2>1, <2>5, <2>6
<1>15. Into(c4, w) = 0
  <2>1. Into(c4, w) = From(to, w)
      BY <1>1, <1>5, <1>7 DEF Parts, Bridged
  <2>2. From(to, w) = Into(o, w)
      BY <1>6, <1>8, TurnedAre
  <2>3. \A k \in DOMAIN o : o[k].dst # w
      BY <1>5, <1>8 DEF ToSet
  <2> QED
      BY <2>1, <2>2, <2>3, NoneInto
<1>16. Into(b.edges, z) = Into(s, z) + Into(di, z) /\ From(b.edges, z) = From(s, z) + From(u, z)
    BY <1>2, <1>6, <1>10 DEF Around
<1>17. /\ Into(raw.edges, w) = Into(c1, w) + Into(c2, w) + Into(c3, w) + Into(c4, w)
       /\ From(raw.edges, w) = From(c1, w) + From(c2, w) + From(c3, w) + From(c4, w)
    BY <1>1 DEF Parts, FourAdd
<1>18. Into(s, z) \in Nat /\ From(s, z) \in Nat /\ Into(di, z) \in Nat /\ From(u, z) \in Nat
  <2>1. s \in Seq(EdgeSet(b))
      BY <1>2, <1>10 DEF Around
  <2> QED
      BY <1>8, <2>1, DegreesAreNum
<1>19. ins.extra \in Nat /\ outs.extra \in Nat
    BY <1>7 DEF Bridged
<1> QED
    BY <1>9, <1>11, <1>12, <1>13, <1>14, <1>15, <1>16, <1>17, <1>18, <1>19

\* The child is a graph.
LEMMA ChildIsGraph ==
    ASSUME NEW a, NEW b, NEW t, NEW d, NEW first, Crossing(a, b, t, d, first), NEW raw, NEW names,
           NEW ins, NEW outs, ins = InsOf(a, b, t, d, first), outs = OutsOf(a, b, t, d, first),
           MadeOf(raw, a, b, t, d, first, names, ins, outs)
    PROVE  /\ IsGraph(raw) /\ \A n \in raw.nodes : n[1] \in Nat
           /\ \A n \in ins.nodes \cup outs.nodes : IsAdaptorName(n)
           /\ \A n \in NewNames(a, d) : ~IsAdaptorName(n)
           /\ \A e \in EdgeSet(raw) :
                 \/ e \in EdgeSet(a) \/ (\E f \in EdgeSet(b) : e.st = f.st /\ e.dt = f.dt)
                 \/ Unifiable(e.st, e.dt)
<1>1. PICK c1, c2, c3, c4, T : Parts(raw, a, b, t, d, ins, outs, c1, c2, c3, c4, T)
    BY PartsAre
<1>2. PICK kept, new, R, ti, to : /\ kept = KeptNodes(a, t, d) /\ new = NewNames(a, d) /\ R = Names(a, d)
                                  /\ ti = Inputs(a, t) /\ to = TurnedAll(Outputs(a, t))
    OBVIOUS
<1>3. /\ IsFiniteSet(kept) /\ new \subseteq kept /\ a.nodes \ t \subseteq kept
      /\ \A n \in new : n[1] \in Nat \ {0}
      /\ \A z \in d : Renamed(a, z) \in new
    BY <1>2, NewNamesAre DEF Crossing
<1>4. /\ Bridged(ins, ti, Inputs(b, d), kept, new, first, R, "adapt_in", "adapt_src")
      /\ Bridged(outs, to, TurnedAll(Outputs(b, d)), kept, new, first, R, "adapt_out", "adapt_sink")
    BY <1>2, BothBridged DEF Crossing
<1>5. raw.nodes = kept \cup ins.nodes \cup outs.nodes
    BY <1>2 DEF MadeOf
<1>6. \A n \in ins.nodes \cup outs.nodes : IsAdaptorName(n)
  <2>1. ASSUME NEW n \in ins.nodes PROVE IsAdaptorName(n)
    <3>1. PICK i \in Nat : n = <<0, "adapt_in", i>> \/ n = <<0, "adapt_src", i>>
        BY <1>4 DEF Bridged, Fresh
    <3> QED
        BY <3>1 DEF IsAdaptorName
  <2>2. ASSUME NEW n \in outs.nodes PROVE IsAdaptorName(n)
    <3>1. PICK i \in Nat : n = <<0, "adapt_out", i>> \/ n = <<0, "adapt_sink", i>>
        BY <1>4 DEF Bridged, Fresh
    <3> QED
        BY <3>1 DEF IsAdaptorName
  <2> QED
      BY <2>1, <2>2
<1>7. IsFiniteSet(raw.nodes)
  <2>1. IsFiniteSet(ins.nodes) /\ IsFiniteSet(outs.nodes)
      BY <1>4 DEF Bridged
  <2>2. PICK A, B : A = ins.nodes /\ B = outs.nodes
      OBVIOUS
  <2>3. IsFiniteSet(kept \cup A)
      BY <1>3, <2>1, <2>2, FS_Union
  <2>4. IsFiniteSet((kept \cup A) \cup B)
      BY <2>1, <2>2, <2>3, FS_Union
  <2> QED
      BY <1>5, <2>2, <2>4
<1>8. \A n \in raw.nodes : n[1] \in Nat
  <2>1. \A n \in kept : n[1] \in Nat
    <3>1. \A n \in a.nodes : n[1] \in Nat
        BY DEF Crossing
    <3>2. kept = (a.nodes \ t) \cup new
        BY <1>2 DEF KeptNodes
    <3> QED
        BY <1>3, <3>1, <3>2
  <2>2. \A n \in ins.nodes \cup outs.nodes : n[1] \in Nat
      BY <1>6 DEF IsAdaptorName
  <2> QED
      BY <1>5, <2>1, <2>2
<1>9. raw.edges \in Seq(T)
    BY <1>1 DEF Parts, FourAdd
<1>10. raw.edges \in Seq(EdgeSet(raw)) /\ EdgeSet(raw) \subseteq T
  <2>1. PICK s : s = raw.edges
      OBVIOUS
  <2>2. s \in Seq(ToSet(s))
      BY <1>9, <2>1, SeqOfItself
  <2>3. ToSet(s) \subseteq T
      BY <1>9, <2>1 DEF ToSet
  <2> QED
      BY <2>1, <2>2, <2>3 DEF EdgeSet
<1>11. Around(a, t)
    BY AroundIs DEF Crossing
<1>12. \A e : Turned(e).src = e.dst /\ Turned(e).dst = e.src /\ Turned(e).st = e.dt /\ Turned(e).dt = e.st
    BY DEF Turned, Edge
<1>13. (\A f \in ToSet(ti) : f.src \in kept) /\ (\A f \in ToSet(to) : f.src \in kept)
  <2>1. PICK o : o = Outputs(a, t)
      OBVIOUS
  <2>2. o \in Seq(EdgeSet(a)) /\ \A e \in ToSet(o) : e.dst \in a.nodes \ t
      BY <1>11, <2>1 DEF Around
  <2>3. ToSet(to) = {Turned(e) : e \in ToSet(o)}
      BY <1>2, <2>1, <2>2, TurnedAre
  <2>4. \A e \in ToSet(ti) : e.src \in a.nodes \ t
      BY <1>2, <1>11 DEF Around
  <2> QED
      BY <1>3, <1>12, <2>2, <2>3, <2>4
<1>14. ASSUME NEW e \in T
       PROVE  /\ e.src \in raw.nodes /\ e.dst \in raw.nodes
              /\ \/ e \in EdgeSet(a) \/ (\E f \in EdgeSet(b) : e.st = f.st /\ e.dt = f.dt)
                 \/ Unifiable(e.st, e.dt)
  <2>1. CASE e \in EdgeSet(a) /\ e.src \in a.nodes \ t /\ e.dst \in a.nodes \ t
      BY <1>3, <1>5, <2>1
  <2>2. CASE \E f \in EdgeSet(b) :
                /\ f.src \in d /\ f.dst \in d /\ e.src = Renamed(a, f.src) /\ e.dst = Renamed(a, f.dst)
                /\ e.st = f.st /\ e.dt = f.dt
      BY <1>3, <1>5, <2>2
  <2>3. CASE BridgeEdge(e, ti, new, ins.nodes)
      BY <1>3, <1>5, <1>13, <2>3 DEF BridgeEdge
  <2>4. CASE \E f : BridgeEdge(f, to, new, outs.nodes) /\ e = Turned(f)
    <3>1. PICK f : BridgeEdge(f, to, new, outs.nodes) /\ e = Turned(f)
        BY <2>4
    <3>2. f.src \in raw.nodes /\ f.dst \in raw.nodes /\ Unifiable(f.st, f.dt)
        BY <1>3, <1>5, <1>13, <3>1 DEF BridgeEdge
    <3>3. Unifiable(e.st, e.dt)
        BY <1>12, <3>1, <3>2 DEF Unifiable
    <3> QED
        BY <1>12, <3>1, <3>2, <3>3
  <2> QED
      BY <1>1, <1>2, <2>1, <2>2, <2>3, <2>4 DEF Parts
<1>15. \A n \in new : ~IsAdaptorName(n)
    BY <1>3 DEF IsAdaptorName
<1>16. IsGraph(raw)
    BY <1>7, <1>10, <1>14 DEF IsGraph
<1> QED
    BY <1>2, <1>6, <1>8, <1>10, <1>14, <1>15, <1>16

LEMMA DegreesAre ==
    ASSUME NEW g, IsGraph(g), NEW n
    PROVE  /\ InDegree(g, n) = Into(g.edges, n) /\ OutDegree(g, n) = From(g.edges, n)
           /\ Degree(g, n) = Into(g.edges, n) + From(g.edges, n)
           /\ Into(g.edges, n) \in Nat /\ From(g.edges, n) \in Nat
<1>1. InDegree(g, n) = Into(g.edges, n) /\ OutDegree(g, n) = From(g.edges, n)
    BY DEF InDegree, OutDegree, Into, From
<1>2. PICK s : s = g.edges
    OBVIOUS
<1>3. s \in Seq(EdgeSet(g))
    BY <1>2 DEF IsGraph
<1>4. Into(s, n) \in Nat /\ From(s, n) \in Nat
    BY <1>3, DegreesAreNum
<1> QED
    BY <1>1, <1>2, <1>4 DEF Degree

\* Where both parents conserve edges, the child does.
LEMMA ChildConserves ==
    ASSUME NEW a, NEW b, NEW t, NEW d, NEW first, Crossing(a, b, t, d, first), NEW raw, NEW names,
           NEW ins, NEW outs, ins = InsOf(a, b, t, d, first), outs = OutsOf(a, b, t, d, first),
           MadeOf(raw, a, b, t, d, first, names, ins, outs),
           \A u, v \in d : Renamed(a, u) = Renamed(a, v) => u = v,
           \A z \in d : names[Renamed(a, z)] = z,
           EdgeConservation(a), EdgeConservation(b)
    PROVE  EdgeConservation(raw)
<1>1. /\ IsGraph(raw)
      /\ \A n \in ins.nodes \cup outs.nodes : IsAdaptorName(n)
      /\ \A e \in EdgeSet(raw) :
            \/ e \in EdgeSet(a) \/ (\E f \in EdgeSet(b) : e.st = f.st /\ e.dt = f.dt)
            \/ Unifiable(e.st, e.dt)
    BY ChildIsGraph
<1>2. \A e \in EdgeSet(raw) : Unifiable(e.st, e.dt)
    BY <1>1 DEF EdgeConservation
<1>3. IsGraph(a) /\ IsGraph(b) /\ d \subseteq b.nodes /\ first \in NewNames(a, d)
    BY DEF Crossing
<1>4. NewNames(a, d) \cap a.nodes = {}
    BY NewNamesAre DEF Crossing
<1>5. ins.extra \in Nat /\ outs.extra \in Nat
    BY BothBridged DEF Crossing, Bridged
<1>6. ASSUME NEW n \in raw.nodes PROVE raw.arity[n] = Degree(raw, n)
  <2>1. CASE IsAdaptorName(n)
    <3>1. raw.arity[n] = Degree([edges |-> raw.edges], n)
        BY <2>1 DEF MadeOf
    <3> QED
        BY <3>1 DEF Degree, InDegree, OutDegree
  <2>2. CASE ~IsAdaptorName(n) /\ n \in a.nodes \ t
    <3>1. n # first
        BY <1>3, <1>4, <2>2
    <3>2. raw.arity[n] = a.arity[n] + 0
        BY <2>2, <3>1 DEF MadeOf
    <3>3. a.arity[n] = Degree(a, n)
        BY <2>2 DEF EdgeConservation
    <3>4. Into(raw.edges, n) = Into(a.edges, n) /\ From(raw.edges, n) = From(a.edges, n)
        BY <2>2, ContextKeeps
    <3>5. Degree(a, n) = Into(a.edges, n) + From(a.edges, n) /\ Into(a.edges, n) \in Nat /\ From(a.edges, n) \in Nat
        BY <1>3, DegreesAre
    <3>6. Degree(raw, n) = Into(raw.edges, n) + From(raw.edges, n)
        BY <1>1, DegreesAre
    <3> QED
        BY <3>2, <3>3, <3>4, <3>5, <3>6
  <2>3. CASE ~IsAdaptorName(n) /\ n \notin a.nodes \ t
    <3>1. n \in NewNames(a, d)
        BY <1>1, <2>3 DEF MadeOf, KeptNodes
    <3>2. PICK z \in d : n = Renamed(a, z)
        BY <3>1 DEF NewNames
    <3>3. names[n] = z /\ z \in b.nodes
        BY <1>3, <3>2
    <3>4. raw.arity[n] = b.arity[z] + (IF n = first THEN ins.extra + outs.extra ELSE 0)
        BY <2>3, <3>3 DEF MadeOf
    <3>5. b.arity[z] = Degree(b, z)
        BY <3>3 DEF EdgeConservation
    <3>6. /\ Into(raw.edges, n) = Into(b.edges, z) + IF n = first THEN ins.extra ELSE 0
          /\ From(raw.edges, n) = From(b.edges, z) + IF n = first THEN outs.extra ELSE 0
        BY <3>2, DonorKeeps
    <3>7. Degree(b, z) = Into(b.edges, z) + From(b.edges, z) /\ Into(b.edges, z) \in Nat /\ From(b.edges, z) \in Nat
        BY <1>3, DegreesAre
    <3>8. Degree(raw, n) = Into(raw.edges, n) + From(raw.edges, n)
        BY <1>1, DegreesAre
    <3> QED
        BY <1>5, <3>4, <3>5, <3>6, <3>7, <3>8
  <2> QED
      BY <2>1, <2>2, <2>3
<1> QED
    BY <1>2, <1>6 DEF EdgeConservation

LEMMA WavefrontsFailAtCycles ==
    ASSUME NEW g, IsGraph(g)
    PROVE  Wavefronts(g) = Failed <=> Cyclic(g)
<1>1. PICK nodes, edges : nodes = g.nodes /\ edges = EdgeSet(g)
    OBVIOUS
<1>2. IsFiniteSet(nodes) /\ Within(edges, nodes)
    BY <1>1 DEF IsGraph, Within
<1>3. CASE Sortable(edges, nodes)
  <2>1. PICK f : Rising(f, edges, nodes) /\ Tight(f, edges, nodes)
      BY <1>2, <1>3, SortableHasLevels
  <2>2. Waving(Wavefronts(g), f, nodes)
      BY <1>1, <2>1, WavefrontsWave
  <2>3. f \in [nodes -> Nat \ {0}]
      BY <2>1 DEF Rising
  <2>4. Wavefronts(g) # Failed
      BY <2>2, <2>3, WavingShows
  <2>5. ~Circular(edges, nodes)
      BY <1>2, <1>3, SortableIsNotCircular
  <2> QED
      BY <1>1, <2>4, <2>5 DEF Cyclic
<1>4. CASE ~Sortable(edges, nodes)
  <2>1. Wavefronts(g) = Failed
      BY <1>1, <1>4 DEF Wavefronts
  <2>2. Circular(edges, nodes)
      BY <1>2, <1>4, NotCircularIsSortable
  <2> QED
      BY <1>1, <2>1, <2>2 DEF Cyclic
<1> QED
    BY <1>3, <1>4

-----------------------------------------------------------------------------
(* The crossovers.                                                         *)

\* A piece of a graph is of its nodes, and has the node that it starts from.
LEMMA PiecesAre ==
    ASSUME NEW g, IsGraph(g), NEW n \in g.nodes, NEW size, NEW d \in Pieces(g, n, size)
    PROVE  d \in SUBSET g.nodes /\ n \in d
<1>1. PICK B : B = Below(g, n)
    OBVIOUS
<1>2. n \in B /\ B \subseteq g.nodes
  <2>1. PICK nodes, edges, from : nodes = g.nodes /\ edges = EdgeSet(g) /\ from = {n}
      OBVIOUS
  <2>2. IsFiniteSet(nodes) /\ \A e \in edges : e.dst \in nodes
      BY <2>1 DEF IsGraph
  <2>3. from \subseteq Reached(edges, nodes, from) /\ Reached(edges, nodes, from) \subseteq from \cup nodes
      BY <2>2, ReachedIsClosed
  <2> QED
      BY <1>1, <2>1, <2>3 DEF Below
<1>3. CASE size = 0
    BY <1>1, <1>2, <1>3 DEF Pieces
<1>4. CASE size # 0
    BY <1>1, <1>2, <1>4 DEF Pieces
<1> QED
    BY <1>3, <1>4

\* Unless there are fewer new names than nodes, no two nodes have one name.
LEMMA NamesApart ==
    ASSUME NEW a, NEW d, IsFiniteSet(d), ~(Cardinality(NewNames(a, d)) < Cardinality(d))
    PROVE  \A u, v \in d : Renamed(a, u) = Renamed(a, v) => u = v
<1>1. PICK R, S : R = Names(a, d) /\ S = NewNames(a, d)
    OBVIOUS
<1>2. R \in Surjection(d, S)
    BY <1>1 DEF Surjection, Names, NewNames
<1>3. /\ IsFiniteSet(S) /\ Cardinality(S) <= Cardinality(d)
      /\ Cardinality(S) = Cardinality(d) <=> R \in Injection(d, S)
    BY <1>2, FS_Surjection
<1>4. Cardinality(S) \in Nat /\ Cardinality(d) \in Nat
    BY <1>3, FS_CardinalityType
<1>5. R \in Injection(d, S)
    BY <1>1, <1>3, <1>4
<1>6. \A u, v \in d : R[u] = R[v] => u = v
    BY <1>5 DEF Injection, IsInjective
<1>7. \A u \in d : R[u] = Renamed(a, u)
    BY <1>1 DEF Names
<1> QED
    BY <1>6, <1>7

\* A graph whose nodes' names are numbered.
Numbered(g) == IsGraph(g) /\ \A n \in g.nodes : n[1] \in Nat

\* The graphs that are crossed are graphs.
CoupleInv ==
    /\ DOMAIN couple = {1, 2}
    /\ \A i \in {1, 2} : Numbered(couple[i])
    /\ CrossoverConserves

LEMMA CoupleInit == ASSUME GraphAssumption, GraphInit PROVE CoupleInv
<1>1. PICK a, b \in Parents : couple = <<a, b>>
    BY DEF GraphInit
<1>2. Numbered(a) /\ Numbered(b)
    BY DEF GraphAssumption, Numbered
<1>3. DOMAIN couple = {1, 2} /\ couple[1] = a /\ couple[2] = b
    BY <1>1
<1>4. ~last.tried
    BY DEF GraphInit
<1> QED
    BY <1>2, <1>3, <1>4 DEF CoupleInv, CrossoverConserves

\* What a crossover conserves, accepted or not.
Conserved(raw, a, b, t, d) ==
    /\ Numbered(raw)
    /\ raw = [nodes |-> raw.nodes, edges |-> raw.edges, arity |-> raw.arity,
              signatures |-> raw.signatures]
    /\ \A n \in a.nodes \ t : InDegree(raw, n) = InDegree(a, n) /\ OutDegree(raw, n) = OutDegree(a, n)
    /\ Accepted(raw) => EdgeConservation(raw) /\ ~Cyclic(raw)
    /\ ~Accepted(raw) =>
          \/ ~EdgeConservation(a) \/ ~EdgeConservation(b)
          \/ Cyclic(raw)
          \/ InterfaceChanged(raw, Signatures(raw, Wavefronts(raw)))
          \/ Cardinality(NewNames(a, d)) < Cardinality(d)

\* The child of one crossover.
LEMMA OneCrossover ==
    ASSUME NEW a, Numbered(a), NEW b, Numbered(b), NEW t, NEW d \in SUBSET b.nodes, NEW first,
           first \in NewNames(a, d), NEW names,
           \A n \in NewNames(a, d) : names[n] \in d /\ Renamed(a, names[n]) = n,
           NEW raw, raw = Child(a, b, t, d, first, names)
    PROVE  Conserved(raw, a, b, t, d)
<1>1. Crossing(a, b, t, d, first)
    BY DEF Crossing, Numbered
<1>2. PICK ins, outs : ins = InsOf(a, b, t, d, first) /\ outs = OutsOf(a, b, t, d, first)
    OBVIOUS
<1>3. MadeOf(raw, a, b, t, d, first, names, ins, outs)
    BY <1>2, ChildIs
<1>4. Numbered(raw)
    BY <1>1, <1>2, <1>3, ChildIsGraph DEF Numbered
<1>5. raw = [nodes |-> raw.nodes, edges |-> raw.edges, arity |-> raw.arity, signatures |-> raw.signatures]
    BY <1>3 DEF MadeOf
<1>6. ASSUME NEW n \in a.nodes \ t
      PROVE  InDegree(raw, n) = InDegree(a, n) /\ OutDegree(raw, n) = OutDegree(a, n)
  <2>1. Into(raw.edges, n) = Into(a.edges, n) /\ From(raw.edges, n) = From(a.edges, n)
      BY <1>1, <1>2, <1>3, ContextKeeps
  <2>2. IsGraph(a) /\ IsGraph(raw)
      BY <1>4 DEF Numbered
  <2>3. InDegree(a, n) = Into(a.edges, n) /\ OutDegree(a, n) = From(a.edges, n)
      BY <2>2, DegreesAre
  <2>4. InDegree(raw, n) = Into(raw.edges, n) /\ OutDegree(raw, n) = From(raw.edges, n)
      BY <2>2, DegreesAre
  <2> QED
      BY <2>1, <2>3, <2>4
<1>7. Wavefronts(raw) = Failed <=> Cyclic(raw)
    BY <1>4, WavefrontsFailAtCycles DEF Numbered
<1>8. Accepted(raw) => EdgeConservation(raw) /\ ~Cyclic(raw)
    BY <1>7 DEF Accepted
<1>9. ASSUME EdgeConservation(a), EdgeConservation(b), ~(Cardinality(NewNames(a, d)) < Cardinality(d))
      PROVE  EdgeConservation(raw)
  <2>1. IsFiniteSet(d)
      BY FS_Subset DEF Numbered, IsGraph
  <2>2. \A u, v \in d : Renamed(a, u) = Renamed(a, v) => u = v
      BY <1>9, <2>1, NamesApart
  <2>3. \A z \in d : names[Renamed(a, z)] = z
    <3>1. ASSUME NEW z \in d PROVE names[Renamed(a, z)] = z
      <4>1. PICK n : n = Renamed(a, z)
          OBVIOUS
      <4>2. n \in NewNames(a, d)
          BY <4>1 DEF NewNames
      <4>3. names[n] \in d /\ Renamed(a, names[n]) = Renamed(a, z)
          BY <4>1, <4>2
      <4> QED
          BY <2>2, <4>1, <4>3
    <3> QED
        BY <3>1
  <2> QED
      BY <1>1, <1>2, <1>3, <1>9, <2>2, <2>3, ChildConserves
<1>10. ~Accepted(raw) =>
          \/ ~EdgeConservation(a) \/ ~EdgeConservation(b)
          \/ Cyclic(raw)
          \/ InterfaceChanged(raw, Signatures(raw, Wavefronts(raw)))
          \/ Cardinality(NewNames(a, d)) < Cardinality(d)
    BY <1>7, <1>9 DEF Accepted
<1> QED
    BY <1>4, <1>5, <1>6, <1>8, <1>10 DEF Conserved

LEMMA CrossoverInv ==
    ASSUME CoupleInv, NEW i \in {1, 2}, NEW j \in {1, 2}, Crossover(i, j)
    PROVE  CoupleInv'
<1> DEFINE a == couple[i]
           b == couple[j]
           First(d) == CHOOSE n \in {Renamed(a, m) : m \in d} : TRUE
           Back(d) == [n \in {Renamed(a, m) : m \in d} |-> CHOOSE m \in d : Renamed(a, m) = n]
<1>1. PICK point \in a.nodes, size \in Sizes :
      \E t \in Pieces(a, point, size), root \in Roots(b, point, a.arity[point]) :
      \E d \in Pieces(b, root, size) :
         LET raw == Child(a, b, t, d, First(d), Back(d))
         IN /\ last' = [tried |-> TRUE, a |-> a, b |-> b, t |-> t, d |-> d,
                        raw |-> raw, ok |-> Accepted(raw)]
            /\ couple' = IF Accepted(raw) THEN [couple EXCEPT ![i] = Verified(raw)] ELSE couple
    BY DEF Crossover
<1>2. PICK t \in Pieces(a, point, size), root \in Roots(b, point, a.arity[point]) :
      \E d \in Pieces(b, root, size) :
         LET raw == Child(a, b, t, d, First(d), Back(d))
         IN /\ last' = [tried |-> TRUE, a |-> a, b |-> b, t |-> t, d |-> d,
                        raw |-> raw, ok |-> Accepted(raw)]
            /\ couple' = IF Accepted(raw) THEN [couple EXCEPT ![i] = Verified(raw)] ELSE couple
    BY <1>1
<1>3. PICK d \in Pieces(b, root, size) :
         LET raw == Child(a, b, t, d, First(d), Back(d))
         IN /\ last' = [tried |-> TRUE, a |-> a, b |-> b, t |-> t, d |-> d,
                        raw |-> raw, ok |-> Accepted(raw)]
            /\ couple' = IF Accepted(raw) THEN [couple EXCEPT ![i] = Verified(raw)] ELSE couple
    BY <1>2
<1>4. a = couple[i] /\ b = couple[j]
    OBVIOUS
<1>5. Numbered(a) /\ Numbered(b)
    BY DEF CoupleInv
<1> HIDE DEF a, b
<1>6. PICK first, names : first = First(d) /\ names = Back(d)
    OBVIOUS
<1>7. PICK raw : raw = Child(a, b, t, d, first, names)
    OBVIOUS
<1>8. /\ last' = [tried |-> TRUE, a |-> a, b |-> b, t |-> t, d |-> d,
                  raw |-> raw, ok |-> Accepted(raw)]
      /\ couple' = IF Accepted(raw) THEN [couple EXCEPT ![i] = Verified(raw)] ELSE couple
  <2> HIDE DEF First, Back
  <2> QED
      BY <1>3, <1>6, <1>7
<1>9. d \in SUBSET b.nodes /\ root \in d
  <2>1. root \in b.nodes
      BY DEF Roots
  <2> QED
      BY <1>5, <2>1, PiecesAre DEF Numbered
<1>10. first \in NewNames(a, d)
  <2>1. PICK S : S = NewNames(a, d)
      OBVIOUS
  <2>2. S = {Renamed(a, m) : m \in d}
      BY <2>1 DEF NewNames
  <2>3. \E n \in S : TRUE
      BY <1>9, <2>2
  <2>4. first = CHOOSE n \in S : TRUE
      BY <1>6, <2>2
  <2> QED
      BY <2>1, <2>3, <2>4
<1>11. \A n \in NewNames(a, d) : names[n] \in d /\ Renamed(a, names[n]) = n
  <2>1. ASSUME NEW n \in NewNames(a, d) PROVE names[n] \in d /\ Renamed(a, names[n]) = n
    <3>1. names[n] = CHOOSE m \in d : Renamed(a, m) = n
        BY <1>6, <2>1 DEF NewNames
    <3>2. \E m \in d : Renamed(a, m) = n
        BY <2>1 DEF NewNames
    <3> QED
        BY <3>1, <3>2
  <2> QED
      BY <2>1
<1>12. Conserved(raw, a, b, t, d)
    BY <1>5, <1>7, <1>9, <1>10, <1>11, OneCrossover
<1>13. DOMAIN couple' = {1, 2} /\ \A k \in {1, 2} : Numbered(couple'[k])
  <2>1. PICK v : v = Verified(raw)
      OBVIOUS
  <2>2. v.nodes = raw.nodes /\ v.edges = raw.edges
    <3>1. PICK s : v = [raw EXCEPT !.signatures = s]
        BY <2>1 DEF Verified
    <3>2. PICK x, y, z, w : raw = [nodes |-> x, edges |-> y, arity |-> z, signatures |-> w]
        BY <1>12 DEF Conserved
    <3> QED
        BY <3>1, <3>2
  <2>3. Numbered(v)
      BY <1>12, <2>2 DEF Conserved, Numbered, IsGraph, EdgeSet
  <2>4. couple' = [couple EXCEPT ![i] = v] \/ couple' = couple
      BY <1>8, <2>1
  <2> QED
      BY <2>3, <2>4 DEF CoupleInv
<1>14. CrossoverConserves'
  <2>1. /\ last'.a = a /\ last'.b = b /\ last'.t = t /\ last'.d = d /\ last'.raw = raw
        /\ last'.ok = Accepted(raw)
      BY <1>8
  <2>2. NewNames(a, d) = {Renamed(a, n) : n \in d}
      BY DEF NewNames
  <2> QED
      BY <1>12, <2>1, <2>2 DEF Conserved, CrossoverConserves
<1> QED
    BY <1>13, <1>14 DEF CoupleInv

LEMMA CoupleStep == ASSUME CoupleInv, [GraphNext]_graphVars PROVE CoupleInv'
<1>1. ASSUME UNCHANGED <<couple, last>> PROVE CoupleInv'
    BY <1>1 DEF CoupleInv, CrossoverConserves
<1>2. CASE UNCHANGED graphVars
    BY <1>1, <1>2 DEF graphVars
<1>3. CASE AddEdge \/ RemoveEdge \/ RemoveNode
    BY <1>1, <1>3 DEF AddEdge, RemoveEdge, RemoveNode, EditGraph
<1> QED
    BY <1>2, <1>3, CrossoverInv DEF GraphNext

\* A schedule that is repaired after edits is a schedule of the graph as it is then, and
\* a crossover conserves the edges of both parents: every node of the context keeps its
\* edges one for one, and where both parents conserve edges the child is refused for
\* nothing but a cycle, a stored interface or two donor nodes of one name
\* (WavefrontScheduler.update_schedule, BoundaryAwareMutator.crossover).
THEOREM GraphsStayWhole ==
    ASSUME GraphAssumption
    PROVE  GraphSpec => []GraphsStaySound
<1>1. GraphInit => GraphInv /\ CoupleInv
    BY GraphInitInv, CoupleInit
<1>2. GraphInv /\ CoupleInv /\ [GraphNext]_graphVars => (GraphInv /\ CoupleInv)'
    BY GraphStepInv, CoupleStep
<1>3. GraphInv /\ CoupleInv => GraphsStaySound
    BY InvShowsSchedule DEF CoupleInv, GraphsStaySound
<1> QED
    BY <1>1, <1>2, <1>3, PTL DEF GraphSpec
=============================================================================

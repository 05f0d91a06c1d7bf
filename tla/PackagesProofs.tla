---------------------------- MODULE PackagesProofs ----------------------------
(***************************************************************************)
(* What is proved of the ways a text becomes another: that the scaffold    *)
(* engine says the truth of what it promotes, and that what it promotes is *)
(* whole (Scaffold); that the bridge generator defines a name once         *)
(* (FfiBridge); that a recipe on the disk holds only functions that its    *)
(* run has verified (TranslationPipeline); that a user's patch which is    *)
(* applied is in the text, and that commits and merges start from what was *)
(* generated (OverlayManager); that a decomposition leaves a package that  *)
(* imports (Splitter).                                                     *)
(***************************************************************************)
EXTENDS Scaffold, FfiBridge, TranslationPipeline, OverlayManager, Splitter, LeastElements,
        SequenceTheorems

-----------------------------------------------------------------------------
(* Modular packages.                                                       *)

\* The files of a package that decompose() wrote without an error.
LEMMA FilesOfPackage ==
    ASSUME NEW j, Orchestrator(j) \notin Targets(j)
    PROVE  /\ DOMAIN Package(j) = Targets(j) \cup {Orchestrator(j)}
           /\ Package(j)[Orchestrator(j)] = OrchestratorOf(j)
           /\ \A t \in Targets(j) : Package(j)[t] = ModuleOf(j, t)
    BY DEF Package

\* A moved symbol has one target.
LEMMA TargetOfMoved ==
    ASSUME NEW j, ~CollisionError(j), NEW n \in Moved(j)
    PROVE  /\ TargetOf(j, n) \in Targets(j)
           /\ n \in Symbols(j, TargetOf(j, n))
           /\ \A t \in Targets(j) : n \in Symbols(j, t) => t = TargetOf(j, n)
<1>1. \E t \in Targets(j) : n \in Symbols(j, t)
    BY DEF Moved
<1>2. TargetOf(j, n) \in Targets(j) /\ n \in Symbols(j, TargetOf(j, n))
    BY <1>1 DEF TargetOf
<1> QED
    BY <1>2 DEF CollisionError

\* The file that holds a name of the merged sources.
HomeOf(j, n) == IF n \in Moved(j) THEN TargetOf(j, n) ELSE Orchestrator(j)

LEMMA HeldAtHome ==
    ASSUME NEW j, ~DecomposeError(j), Orchestrator(j) \notin Targets(j), NEW n \in Names
    PROVE  /\ \A f \in DOMAIN Package(j) :
                Package(j)[f].defs[n] = IF f = HomeOf(j, n) THEN Merged(j)[n] ELSE 0
           /\ HomeOf(j, n) \in DOMAIN Package(j)
<1>1. ~CollisionError(j)
    BY DEF DecomposeError
<1>2. OrchestratorOf(j).defs[n] = IF n \in Moved(j) THEN 0 ELSE Merged(j)[n]
    BY DEF OrchestratorOf
<1>3. \A t \in Targets(j) :
        ModuleOf(j, t).defs[n] = IF n \in Symbols(j, t) THEN Merged(j)[n] ELSE 0
    BY DEF ModuleOf
<1>4. CASE n \in Moved(j)
  <2>1. TargetOf(j, n) \in Targets(j) /\ n \in Symbols(j, TargetOf(j, n))
      BY <1>1, <1>4, TargetOfMoved
  <2>2. \A t \in Targets(j) : n \in Symbols(j, t) => t = TargetOf(j, n)
      BY <1>1, <1>4, TargetOfMoved
  <2> QED
      BY <1>2, <1>3, <1>4, <2>1, <2>2, FilesOfPackage DEF HomeOf
<1>5. CASE n \notin Moved(j)
  <2>1. \A t \in Targets(j) : n \notin Symbols(j, t)
      BY <1>5 DEF Moved
  <2> QED
      BY <1>2, <1>3, <1>5, <2>1, FilesOfPackage DEF HomeOf
<1> QED
    BY <1>4, <1>5

\* Every file that needs a moved name imports it from the file that holds it.
LEMMA MovedIsImported ==
    ASSUME NEW j, ~DecomposeError(j), Orchestrator(j) \notin Targets(j), NEW n \in Moved(j)
    PROVE  /\ <<HomeOf(j, n), n>> \in Package(j)[Orchestrator(j)].imports
           /\ \A t \in Targets(j) : \A d \in Symbols(j, t) :
                n \in Uses[d] /\ n \notin Symbols(j, t) =>
                    <<HomeOf(j, n), n>> \in Package(j)[t].imports
<1>1. HomeOf(j, n) = TargetOf(j, n)
    BY DEF HomeOf
<1>2. OrchestratorOf(j).imports = {<<TargetOf(j, m), m>> : m \in Moved(j)}
    BY DEF OrchestratorOf
<1>3. <<TargetOf(j, n), n>> \in OrchestratorOf(j).imports
    BY <1>2
<1>4. \A t : ModuleOf(j, t).imports = CrossImports(j, t)
    BY DEF ModuleOf
<1>5. \A t \in Targets(j) : \A d \in Symbols(j, t) :
        n \in Uses[d] /\ n \notin Symbols(j, t) => <<TargetOf(j, n), n>> \in CrossImports(j, t)
    BY DEF CrossImports
<1> QED
    BY <1>1, <1>3, <1>4, <1>5, FilesOfPackage

\* What decompose() writes without an error is whole.
LEMMA PackageIsAWhole ==
    ASSUME NEW j, ~DecomposeError(j), Orchestrator(j) \notin Targets(j)
    PROVE  Whole(j, Package(j))
<1> DEFINE p == Package(j)
<1> SUFFICES ASSUME NEW n \in Names
             PROVE  /\ Merged(j)[n] # 0 =>
                          \E f \in DOMAIN p : Holding(p, n) = {f} /\ p[f].defs[n] = Merged(j)[n]
                    /\ n \in Moved(j) =>
                          \E f \in Holding(p, n) : <<f, n>> \in p[Orchestrator(j)].imports
                    /\ \A f \in DOMAIN p : \A d \in Names :
                          p[f].defs[d] # 0 /\ n \in Uses[d] \cap Moved(j) =>
                              \/ p[f].defs[n] # 0
                              \/ \E g \in Holding(p, n) : <<g, n>> \in p[f].imports
    BY DEF Whole
<1>1. \A m \in Names : \A f \in DOMAIN p :
        p[f].defs[m] = IF f = HomeOf(j, m) THEN Merged(j)[m] ELSE 0
    BY HeldAtHome
<1>2. HomeOf(j, n) \in DOMAIN p
    BY HeldAtHome
<1>3. n \in Moved(j) => Merged(j)[n] # 0
    BY DEF DecomposeError, MissingError
<1>4. DOMAIN p = Targets(j) \cup {Orchestrator(j)}
    BY FilesOfPackage
<1>5. n \in Moved(j) => <<HomeOf(j, n), n>> \in p[Orchestrator(j)].imports
    BY MovedIsImported
<1>6. n \in Moved(j) =>
        \A t \in Targets(j) : \A d \in Symbols(j, t) :
            n \in Uses[d] /\ n \notin Symbols(j, t) => <<HomeOf(j, n), n>> \in p[t].imports
    BY MovedIsImported
<1>7. \A t \in Targets(j) : \A m \in Names :
        p[t].defs[m] = IF m \in Symbols(j, t) THEN Merged(j)[m] ELSE 0
  <2>1. \A t \in Targets(j) : p[t] = ModuleOf(j, t)
      BY FilesOfPackage
  <2>2. \A t : \A m \in Names :
          ModuleOf(j, t).defs[m] = IF m \in Symbols(j, t) THEN Merged(j)[m] ELSE 0
      BY DEF ModuleOf
  <2> HIDE DEF p
  <2> QED
      BY <2>1, <2>2
<1>8. \A t \in Targets(j) : n \in Symbols(j, t) => n \in Moved(j)
    BY DEF Moved
<1> HIDE DEF p
<1>9. Merged(j)[n] # 0 => Holding(p, n) = {HomeOf(j, n)}
    BY <1>1, <1>2 DEF Holding
<1>10. Merged(j)[n] # 0 =>
         \E f \in DOMAIN p : Holding(p, n) = {f} /\ p[f].defs[n] = Merged(j)[n]
    BY <1>1, <1>2, <1>9
<1>11. n \in Moved(j) => \E f \in Holding(p, n) : <<f, n>> \in p[Orchestrator(j)].imports
    BY <1>3, <1>5, <1>9
<1>12. ASSUME NEW f \in DOMAIN p, NEW d \in Names, p[f].defs[d] # 0, n \in Uses[d] \cap Moved(j)
       PROVE  \/ p[f].defs[n] # 0
              \/ \E g \in Holding(p, n) : <<g, n>> \in p[f].imports
  <2>1. CASE f = Orchestrator(j)
      BY <1>11, <1>12, <2>1
  <2>2. CASE f \in Targets(j) /\ n \in Symbols(j, f)
      BY <1>3, <1>7, <1>8, <2>2
  <2>3. CASE f \in Targets(j) /\ n \notin Symbols(j, f)
    <3>1. d \in Symbols(j, f)
        BY <1>7, <1>12, <2>3
    <3>2. <<HomeOf(j, n), n>> \in p[f].imports
        BY <1>6, <1>12, <2>3, <3>1
    <3> QED
        BY <1>3, <1>9, <1>12, <3>2
  <2> QED
      BY <1>4, <1>12, <2>1, <2>2, <2>3
<1> QED
    BY <1>10, <1>11, <1>12

-----------------------------------------------------------------------------
(* The scaffold engine.  A job at work has not reached the deliverable yet;  *)
(* its staging tree is its own from the moment it is written; once a compile *)
(* has run, build_info says whether the text in that tree compiles.          *)

IsTree(t) ==
    \E n \in Nat : \E x, f, a, c, o :
        t = [job |-> n, text |-> x, files |-> f, asked |-> a, checked |-> c, torn |-> o]

\* The tree is what the generator wrote for the job, up to corrections.
GeneratedTree(t, j) ==
    /\ t.asked = j
    /\ j.route = "modular" => ~DecomposeError(j) /\ t.files = Package(j)

BeforePromotion == {"generate", "build", "merge", "validate"}
AtWork == BeforePromotion \cup Promotion
PastBuild == {"merge", "validate"} \cup Promotion

ScaffoldTypes ==
    /\ jobs \in Nat /\ tries \in Nat
    /\ phase \in AtWork \cup {"idle"}
    /\ built \in {"absent", "yes", "no"}
    /\ phase # "idle" => job \in JobRecord

\* The tree of a job that decompose() refused nothing of, checked as the job
\* asked.
Deliverable(t) ==
    /\ IsTree(t) /\ t.job <= jobs
    /\ t.job > 0 => /\ GeneratedTree(t, t.asked)
                    /\ t.asked.check => t.checked

TreesAreTheirJobs ==
    /\ IsTree(staging) /\ Deliverable(deliver)
    /\ phase \in PastBuild \cup {"build"} =>
          staging.job = jobs /\ staging.torn = 0 /\ GeneratedTree(staging, job)
    /\ phase \in Promotion => staging.checked = job.check

\* How far the promotion is, and a staging directory left behind is of a job
\* that ended.
PromotionIsOn ==
    /\ phase \in BeforePromotion \cup {"remove"} => deliver = before
    /\ phase = "move" => deliver = NoTree
    /\ phase = "copy" => deliver = Torn(staging)
    /\ phase = "clear" => deliver = staging
    /\ phase # "idle" => litter = FALSE

\* Only a Rust job that asks for a build compiles, and what the build said of
\* the last attempt is true of the text that is left.
BuildIsTrue ==
    /\ tries > 0 => phase \in AtWork /\ job.route = "rust" /\ job.build
    /\ phase \in PastBuild /\ tries > 0 => (built = "yes" <=> staging.text = {})

LiveCompiles == live.job > 0 => live.text = {}

ScaffoldInv ==
    /\ ScaffoldTypes /\ TreesAreTheirJobs /\ PromotionIsOn
    /\ BuildIsTrue /\ LiveCompiles /\ ReportIsTrue

\* NoTree is a tree, and a tree with one field changed is one.
LEMMA NoTreeIsTree == IsTree(NoTree) /\ NoTree.job = 0
    BY DEF IsTree, NoTree

LEMMA JobOfTree ==
    ASSUME NEW t, IsTree(t)
    PROVE  t.job \in Nat
    BY DEF IsTree

LEMMA TreeWithText ==
    ASSUME NEW t, IsTree(t), NEW new
    PROVE  /\ IsTree([t EXCEPT !.text = new])
           /\ [t EXCEPT !.text = new].text = new
           /\ [t EXCEPT !.text = new].job = t.job
           /\ [t EXCEPT !.text = new].files = t.files
           /\ [t EXCEPT !.text = new].asked = t.asked
           /\ [t EXCEPT !.text = new].torn = t.torn
<1>0. PICK n \in Nat : \E x, f, a, c, o :
        t = [job |-> n, text |-> x, files |-> f, asked |-> a, checked |-> c, torn |-> o]
    BY DEF IsTree
<1> PICK x, f, a, c, o :
        t = [job |-> n, text |-> x, files |-> f, asked |-> a, checked |-> c, torn |-> o]
    BY <1>0
<1> DEFINE u == [job |-> n, text |-> new, files |-> f, asked |-> a, checked |-> c, torn |-> o]
<1>1. [t EXCEPT !.text = new] = u
    OBVIOUS
<1>2. IsTree(u)
    BY DEF IsTree
<1> QED
    BY <1>1, <1>2

LEMMA TreeChecked ==
    ASSUME NEW t, IsTree(t), NEW checked
    PROVE  /\ IsTree([t EXCEPT !.checked = checked])
           /\ [t EXCEPT !.checked = checked].checked = checked
           /\ [t EXCEPT !.checked = checked].job = t.job
           /\ [t EXCEPT !.checked = checked].files = t.files
           /\ [t EXCEPT !.checked = checked].asked = t.asked
           /\ [t EXCEPT !.checked = checked].text = t.text
           /\ [t EXCEPT !.checked = checked].torn = t.torn
<1>0. PICK n \in Nat : \E x, f, a, c, o :
        t = [job |-> n, text |-> x, files |-> f, asked |-> a, checked |-> c, torn |-> o]
    BY DEF IsTree
<1> PICK x, f, a, c, o :
        t = [job |-> n, text |-> x, files |-> f, asked |-> a, checked |-> c, torn |-> o]
    BY <1>0
<1> DEFINE u == [job |-> n, text |-> x, files |-> f, asked |-> a, checked |-> checked, torn |-> o]
<1>1. [t EXCEPT !.checked = checked] = u
    OBVIOUS
<1>2. IsTree(u)
    BY DEF IsTree
<1> QED
    BY <1>1, <1>2

LEMMA TreeTorn ==
    ASSUME NEW t, IsTree(t)
    PROVE  /\ IsTree(Torn(t))
           /\ Torn(t).torn = jobs
           /\ Torn(t).job = t.job
           /\ Torn(t).files = t.files
           /\ Torn(t).asked = t.asked
           /\ Torn(t).checked = t.checked
<1>0. PICK n \in Nat : \E x, f, a, c, o :
        t = [job |-> n, text |-> x, files |-> f, asked |-> a, checked |-> c, torn |-> o]
    BY DEF IsTree
<1> PICK x, f, a, c, o :
        t = [job |-> n, text |-> x, files |-> f, asked |-> a, checked |-> c, torn |-> o]
    BY <1>0
<1> DEFINE u == [job |-> n, text |-> x, files |-> f, asked |-> a, checked |-> c, torn |-> jobs]
<1>1. Torn(t) = u
    BY DEF Torn
<1>2. IsTree(u)
    BY DEF IsTree
<1> QED
    BY <1>1, <1>2

\* Tearing a tree changes nothing of what it is a part of.
LEMMA TornIsDeliverable ==
    ASSUME NEW t, Deliverable(t)
    PROVE  Deliverable(Torn(t))
    BY TreeTorn DEF Deliverable, GeneratedTree

LEMMA NoTreeIsDeliverable ==
    ASSUME jobs \in Nat
    PROVE  Deliverable(NoTree)
    BY NoTreeIsTree DEF Deliverable

\* What the staging directory holds once the validation has passed.
LEMMA StagingIsDeliverable ==
    ASSUME ScaffoldInv, phase \in Promotion
    PROVE  /\ Deliverable(staging)
           /\ staging.job = jobs /\ staging.torn = 0
           /\ tries > 0 => (built = "yes" <=> staging.text = {})
<1>1. /\ IsTree(staging) /\ staging.job = jobs /\ staging.torn = 0 /\ GeneratedTree(staging, job)
      /\ staging.checked = job.check
    BY DEF ScaffoldInv, TreesAreTheirJobs, PastBuild
<1>2. jobs \in Nat
    BY DEF ScaffoldInv, ScaffoldTypes
<1>3. tries > 0 => (built = "yes" <=> staging.text = {})
    BY DEF ScaffoldInv, BuildIsTrue, PastBuild
<1> QED
    BY <1>1, <1>2, <1>3 DEF Deliverable, GeneratedTree

LEMMA ScaffoldInitInv == ScaffoldInit => ScaffoldInv
<1> SUFFICES ASSUME ScaffoldInit PROVE ScaffoldInv
    OBVIOUS
<1>1. ScaffoldTypes
    BY DEF ScaffoldInit, ScaffoldTypes, AtWork
<1>2. TreesAreTheirJobs
    BY NoTreeIsTree, NoTreeIsDeliverable
    DEF ScaffoldInit, TreesAreTheirJobs, AtWork, PastBuild, Promotion
<1>3. BuildIsTrue /\ PromotionIsOn
    BY DEF ScaffoldInit, BuildIsTrue, PromotionIsOn, AtWork, PastBuild, Promotion, BeforePromotion
<1>4. ReportIsTrue /\ LiveCompiles
    BY DEF ScaffoldInit, ReportIsTrue, LiveCompiles, NoReport
<1> QED
    BY <1>1, <1>2, <1>3, <1>4 DEF ScaffoldInv

LEMMA RefuseInv == ScaffoldInv /\ Refuse => ScaffoldInv'
<1> SUFFICES ASSUME ScaffoldInv, Refuse PROVE ScaffoldInv'
    OBVIOUS
<1>1. ScaffoldTypes'
    BY DEF ScaffoldInv, ScaffoldTypes, Refuse, Ended
<1>2. deliver.job \in Nat /\ jobs \in Nat /\ jobs' = jobs + 1 /\ UNCHANGED <<staging, deliver>>
    BY JobOfTree DEF ScaffoldInv, ScaffoldTypes, TreesAreTheirJobs, Deliverable, Refuse
<1>3. phase' = "idle" /\ tries' = 0
    BY DEF Refuse, Ended
<1>4. Deliverable(deliver)'
    BY <1>2 DEF ScaffoldInv, TreesAreTheirJobs, Deliverable, GeneratedTree
<1>5. TreesAreTheirJobs' /\ PromotionIsOn' /\ BuildIsTrue'
    BY <1>2, <1>3, <1>4
    DEF ScaffoldInv, TreesAreTheirJobs, PromotionIsOn, BuildIsTrue, PastBuild, Promotion, BeforePromotion
<1>6. LiveCompiles'
    BY DEF ScaffoldInv, LiveCompiles, Refuse
<1>7. ReportIsTrue'
  <2>1. report'.says = "raised" /\ report'.at = "begin" /\ before' = deliver'
      BY DEF Refuse, Ended, NoReport
  <2> QED
      BY <1>6, <2>1
      DEF ReportIsTrue, LiveCompiles, Untouched, ReturnedIsWhole, SuccessIsPromoted, CutShort,
          Returned, Promotion
<1> QED
    BY <1>1, <1>5, <1>6, <1>7 DEF ScaffoldInv

LEMMA BeginInv == ScaffoldInv /\ Begin => ScaffoldInv'
<1> SUFFICES ASSUME ScaffoldInv, Begin PROVE ScaffoldInv'
    OBVIOUS
<1>1. ScaffoldTypes'
    BY ScaffoldAssumption DEF ScaffoldInv, ScaffoldTypes, Begin, AtWork, BeforePromotion
<1>2. deliver.job \in Nat /\ jobs \in Nat /\ jobs' = jobs + 1 /\ UNCHANGED <<staging, deliver>>
    BY JobOfTree DEF ScaffoldInv, ScaffoldTypes, TreesAreTheirJobs, Deliverable, Begin
<1>3. phase' = "generate" /\ litter' = FALSE /\ before' = deliver' /\ UNCHANGED tries
    BY DEF Begin
<1>4. Deliverable(deliver)'
    BY <1>2 DEF ScaffoldInv, TreesAreTheirJobs, Deliverable, GeneratedTree
<1>5. TreesAreTheirJobs'
    BY <1>2, <1>3, <1>4 DEF ScaffoldInv, TreesAreTheirJobs, PastBuild, Promotion
<1>6. PromotionIsOn'
    BY <1>3 DEF PromotionIsOn
<1>7. BuildIsTrue'
  <2>1. ~(tries > 0)
      BY DEF ScaffoldInv, ScaffoldTypes, BuildIsTrue, Begin, AtWork, BeforePromotion, Promotion
  <2> QED
      BY <1>3, <2>1 DEF BuildIsTrue
<1>8. LiveCompiles' /\ ReportIsTrue'
    BY <1>3 DEF ScaffoldInv, LiveCompiles, ReportIsTrue, Begin
<1> QED
    BY <1>1, <1>5, <1>6, <1>7, <1>8 DEF ScaffoldInv

\* A job that ends leaves what is in the live layer.
LEMMA EndedInv ==
    ASSUME ScaffoldInv, phase # "idle", UNCHANGED <<live, jobs, before>>, staging' = NoTree,
           NEW verdict, Ended(verdict), Deliverable(deliver'), ReportIsTrue'
    PROVE  ScaffoldInv'
<1>1. ScaffoldTypes'
    BY DEF ScaffoldInv, ScaffoldTypes, Ended
<1>2. phase' = "idle" /\ tries' = 0
    BY DEF Ended
<1>3. Deliverable(deliver)'
    BY DEF Deliverable, GeneratedTree
<1>4. TreesAreTheirJobs' /\ PromotionIsOn' /\ BuildIsTrue'
    BY <1>2, <1>3, NoTreeIsTree
    DEF TreesAreTheirJobs, PromotionIsOn, BuildIsTrue, PastBuild, Promotion, BeforePromotion
<1>5. LiveCompiles'
    BY DEF ScaffoldInv, LiveCompiles
<1> QED
    BY <1>1, <1>4, <1>5 DEF ScaffoldInv

\* A job that ends before its promotion leaves what was delivered.
LEMMA EndedBefore ==
    ASSUME ScaffoldInv, phase \in BeforePromotion, UNCHANGED <<deliver, live, jobs, before>>,
           staging' = NoTree,
           NEW verdict, Ended(verdict), verdict.job = jobs, verdict.at = phase,
           \/ verdict.says # "succeeded" \/ ~verdict.asked.build
           \/ verdict.asked.where # "outside",
           verdict.says \in {"succeeded", "failed"} /\ verdict.asked.where = "outside" => ~litter'
    PROVE  ScaffoldInv'
<1>1. report' = verdict /\ phase # "idle" /\ phase \notin Promotion
    BY DEF Ended, BeforePromotion, Promotion
<1>2. deliver' = before'
    BY DEF ScaffoldInv, PromotionIsOn
<1>3. Deliverable(deliver')
    BY DEF ScaffoldInv, TreesAreTheirJobs
<1>4. live'.job > 0 => live'.text = {}
    BY DEF ScaffoldInv, LiveCompiles
<1>5. Untouched' /\ ReturnedIsWhole' /\ SuccessIsPromoted' /\ CutShort'
    BY <1>1, <1>2 DEF Untouched, ReturnedIsWhole, SuccessIsPromoted, CutShort
<1>6. ReportIsTrue'
    BY <1>1, <1>4, <1>5 DEF ReportIsTrue, Returned
<1> QED
    BY <1>1, <1>3, <1>6, EndedInv

LEMMA VerdictSays ==
    ASSUME NEW b
    PROVE  /\ Verdict(b).job = jobs /\ Verdict(b).asked = job /\ Verdict(b).tries = tries
           /\ Verdict(b).at = phase
           /\ Verdict(b).says \in {"succeeded", "failed"}
           /\ Verdict(b).says = "succeeded" <=> (~job.build \/ b = "yes")
    BY DEF Verdict

\* A job that returns from its promotion has its own tree in place, and what
\* the build said is true of the text in it.
LEMMA ReturnedInv ==
    ASSUME ScaffoldInv, phase \in Promotion, UNCHANGED <<live, jobs, before, litter>>,
           deliver' = staging, staging' = NoTree, Ended(Verdict(built))
    PROVE  ScaffoldInv'
<1> DEFINE verdict == Verdict(built)
<1>1. /\ verdict.job = jobs /\ verdict.asked = job /\ verdict.tries = tries
      /\ verdict.at = phase /\ verdict.says \in {"succeeded", "failed"}
      /\ verdict.says = "succeeded" <=> (~job.build \/ built = "yes")
    BY VerdictSays
<1>2. Ended(verdict)
    OBVIOUS
<1> HIDE DEF verdict
<1>3. report' = verdict /\ phase # "idle"
    BY <1>2 DEF Ended, Promotion
<1>4. /\ Deliverable(staging) /\ staging.job = jobs /\ staging.torn = 0
      /\ tries > 0 => (built = "yes" <=> staging.text = {})
    BY StagingIsDeliverable
<1>5. tries > 0 => job.build
    BY DEF ScaffoldInv, BuildIsTrue
<1>6. litter' = FALSE
    BY <1>3 DEF ScaffoldInv, PromotionIsOn
<1>7. live'.job > 0 => live'.text = {}
    BY DEF ScaffoldInv, LiveCompiles
<1>8. Untouched' /\ SuccessIsPromoted' /\ CutShort'
    BY <1>1, <1>3 DEF Untouched, SuccessIsPromoted, CutShort, Returned
<1>9. ReturnedIsWhole'
    BY <1>1, <1>3, <1>4, <1>5 DEF ReturnedIsWhole, Compiled
<1>10. ReportIsTrue'
    BY <1>6, <1>7, <1>8, <1>9 DEF ReportIsTrue
<1> QED
    BY <1>2, <1>3, <1>4, <1>10, EndedInv

LEMMA FailureSays ==
    ASSUME NEW says
    PROVE  /\ Failure(says).job = jobs /\ Failure(says).says = says /\ Failure(says).at = phase
    BY DEF Failure

\* What a promotion that was cut short may leave.
Leavings(t) ==
    \/ t \in {before, NoTree}
    \/ t.job = jobs /\ t.torn \in {0, jobs}
    \/ t.job = before.job /\ t.torn = jobs

LEMMA CutShortInv ==
    ASSUME ScaffoldInv, phase \in Promotion, UNCHANGED <<live, jobs, before>>,
           NEW says \in {"raised", "killed"}, Ended(Failure(says)), staging' = NoTree,
           Deliverable(deliver'), Leavings(deliver')
    PROVE  ScaffoldInv'
<1> DEFINE verdict == Failure(says)
<1>1. verdict.job = jobs /\ verdict.says = says /\ verdict.at = phase
    BY FailureSays
<1>2. Ended(verdict)
    OBVIOUS
<1> HIDE DEF verdict
<1>3. report' = verdict /\ phase # "idle"
    BY <1>2 DEF Ended, Promotion
<1>4. ~Returned'
    BY <1>1, <1>3 DEF Returned
<1>5. live'.job > 0 => live'.text = {}
    BY DEF ScaffoldInv, LiveCompiles
<1>6. Untouched' /\ ReturnedIsWhole' /\ SuccessIsPromoted'
    BY <1>1, <1>3, <1>4 DEF Untouched, ReturnedIsWhole, SuccessIsPromoted
<1>7. CutShort'
    BY <1>1, <1>3 DEF CutShort, Leavings
<1>8. ReportIsTrue'
    BY <1>4, <1>5, <1>6, <1>7 DEF ReportIsTrue
<1> QED
    BY <1>2, <1>3, <1>8, EndedInv

LEMMA GenerateInv == ScaffoldInv /\ Generate => ScaffoldInv'
<1> SUFFICES ASSUME ScaffoldInv, Generate PROVE ScaffoldInv'
    OBVIOUS
<1>1. phase = "generate" /\ UNCHANGED <<deliver, live, jobs, before>>
    BY DEF Generate
<1>2. CASE job.route = "modular" /\ DecomposeError(job)
  <2> DEFINE verdict == Failure("raised")
  <2>1. Ended(verdict) /\ staging' = NoTree
      BY <1>2 DEF Generate, Raise
  <2>2. verdict.job = jobs /\ verdict.says = "raised" /\ verdict.at = phase
      BY FailureSays
  <2> HIDE DEF verdict
  <2> QED
      BY <1>1, <2>1, <2>2, EndedBefore DEF BeforePromotion
<1>3. CASE ~(job.route = "modular" /\ DecomposeError(job))
  <2> DEFINE left == job.text \ Shielded(job)
             kept == IF job.route = "modular" THEN Package(job) ELSE <<>>
  <2>1. /\ staging' = [job |-> jobs, text |-> left, files |-> kept, asked |-> job,
                       checked |-> FALSE, torn |-> 0]
        /\ phase' = "build"
        /\ UNCHANGED <<job, tries, built, report, litter>>
      BY <1>3 DEF Generate
  <2>2. job.route = "modular" => kept = Package(job) /\ ~DecomposeError(job)
      BY <1>3
  <2>3. jobs \in Nat
      BY DEF ScaffoldInv, ScaffoldTypes
  <2> HIDE DEF left, kept
  <2>4. IsTree(staging')
      BY <2>1, <2>3 DEF IsTree
  <2>5. staging'.job = jobs /\ staging'.asked = job /\ staging'.files = kept /\ staging'.torn = 0
      BY <2>1
  <2>6. GeneratedTree(staging', job)
      BY <2>2, <2>5 DEF GeneratedTree
  <2>7. Deliverable(deliver)'
      BY <1>1 DEF ScaffoldInv, TreesAreTheirJobs, Deliverable, GeneratedTree
  <2>8. TreesAreTheirJobs'
      BY <1>1, <2>1, <2>4, <2>5, <2>6, <2>7
      DEF TreesAreTheirJobs, GeneratedTree, PastBuild, Promotion
  <2>9. ScaffoldTypes'
      BY <1>1, <2>1 DEF ScaffoldInv, ScaffoldTypes, AtWork, BeforePromotion
  <2>10. BuildIsTrue' /\ PromotionIsOn'
      BY <1>1, <2>1
      DEF ScaffoldInv, BuildIsTrue, PromotionIsOn, PastBuild, AtWork, BeforePromotion, Promotion
  <2>11. LiveCompiles' /\ ReportIsTrue'
      BY <1>1, <2>1 DEF ScaffoldInv, LiveCompiles, ReportIsTrue
  <2> QED
      BY <2>8, <2>9, <2>10, <2>11 DEF ScaffoldInv
<1> QED
    BY <1>2, <1>3

\* A step of the job that changes neither tree but for the text in the staging
\* directory.
LEMMA TreesAtWork ==
    ASSUME ScaffoldInv, phase \in {"build", "merge"}, phase' \in {"build", "merge", "validate"},
           UNCHANGED <<job, deliver, jobs, before, litter>>,
           IsTree(staging'), staging'.job = staging.job, staging'.files = staging.files,
           staging'.asked = staging.asked, staging'.torn = staging.torn
    PROVE  TreesAreTheirJobs' /\ PromotionIsOn'
<1>1. Deliverable(deliver)'
    BY DEF ScaffoldInv, TreesAreTheirJobs, Deliverable, GeneratedTree
<1>2. staging.job = jobs /\ staging.torn = 0 /\ GeneratedTree(staging, job)
    BY DEF ScaffoldInv, TreesAreTheirJobs, PastBuild
<1>3. TreesAreTheirJobs'
    BY <1>1, <1>2 DEF TreesAreTheirJobs, GeneratedTree, Promotion
<1>4. PromotionIsOn'
    BY DEF ScaffoldInv, PromotionIsOn, BeforePromotion
<1> QED
    BY <1>3, <1>4

\* Without a compiler nothing is said of the text.
LEMMA SkipBuildInv == ScaffoldInv /\ (SkipBuild \/ ValidatePython) => ScaffoldInv'
<1> SUFFICES ASSUME ScaffoldInv, SkipBuild \/ ValidatePython PROVE ScaffoldInv'
    OBVIOUS
<1>1. /\ phase = "build" /\ phase' = "merge"
      /\ UNCHANGED <<job, staging, deliver, live, tries, report, litter, jobs, before>>
      /\ built' \in {"absent", "yes", "no"}
    BY DEF SkipBuild, ValidatePython
<1>2. tries = 0 \/ job.route # "rust"
    BY DEF SkipBuild, ValidatePython
<1>3. ScaffoldTypes'
    BY <1>1 DEF ScaffoldInv, ScaffoldTypes, AtWork, BeforePromotion
<1>4. TreesAreTheirJobs' /\ PromotionIsOn'
    BY <1>1, TreesAtWork DEF ScaffoldInv, TreesAreTheirJobs
<1>5. ~(tries > 0)
    BY <1>2 DEF ScaffoldInv, ScaffoldTypes, BuildIsTrue
<1>6. BuildIsTrue' /\ LiveCompiles' /\ ReportIsTrue'
    BY <1>1, <1>5 DEF ScaffoldInv, BuildIsTrue, LiveCompiles, ReportIsTrue
<1> QED
    BY <1>3, <1>4, <1>6 DEF ScaffoldInv

\* A correction is followed by another build: one build more is left whenever a
\* repair is allowed.
LEMMA CargoBuildInv == ScaffoldInv /\ CargoBuild => ScaffoldInv'
<1> SUFFICES ASSUME ScaffoldInv, CargoBuild PROVE ScaffoldInv'
    OBVIOUS
<1>1. /\ phase = "build" /\ job.route = "rust" /\ job.build /\ tries' = tries + 1
      /\ UNCHANGED <<job, deliver, live, report, litter, jobs, before>>
    BY DEF CargoBuild
<1>2. jobs \in Nat /\ tries \in Nat /\ MaxRetries \in Nat
    BY ScaffoldAssumption DEF ScaffoldInv, ScaffoldTypes
<1>3. /\ built' \in {"yes", "no"}
      /\ phase' \in {"build", "merge"}
      /\ phase' = "merge" => (built' = "yes" <=> staging'.text = {})
      /\ \/ UNCHANGED staging
         \/ \E left : staging' = [staging EXCEPT !.text = left]
  <2>1. CASE staging.text = {}
      BY <2>1 DEF CargoBuild
  <2>2. CASE staging.text # {}
    <3>1. PICK named \in (SUBSET staging.text) \ {{}} :
            /\ built' = "no"
            /\ staging' = IF MayCorrect(named)
                            THEN [staging EXCEPT !.text = @ \ (named \cap Correctable)]
                            ELSE staging
            /\ phase' = IF MayCorrect(named) /\ tries < MaxRetries THEN "build" ELSE "merge"
        BY <2>2 DEF CargoBuild
    <3>2. MayCorrect(named) => tries < MaxRetries
        BY <1>2 DEF MayCorrect
    <3> QED
        BY <2>2, <3>1, <3>2
  <2> QED
      BY <2>1, <2>2
<1>4. /\ IsTree(staging') /\ staging'.job = staging.job
      /\ staging'.files = staging.files /\ staging'.asked = staging.asked
      /\ staging'.torn = staging.torn
  <2>1. IsTree(staging)
      BY DEF ScaffoldInv, TreesAreTheirJobs
  <2>2. CASE UNCHANGED staging
      BY <2>1, <2>2
  <2>3. CASE \E left : staging' = [staging EXCEPT !.text = left]
      BY <2>1, <2>3, TreeWithText
  <2> QED
      BY <1>3, <2>2, <2>3
<1>5. ScaffoldTypes'
    BY <1>1, <1>2, <1>3 DEF ScaffoldInv, ScaffoldTypes, AtWork, BeforePromotion
<1>6. TreesAreTheirJobs' /\ PromotionIsOn'
    BY <1>1, <1>3, <1>4, TreesAtWork
<1>7. BuildIsTrue'
    BY <1>1, <1>3 DEF BuildIsTrue, PastBuild, AtWork, BeforePromotion, Promotion
<1>8. LiveCompiles' /\ ReportIsTrue'
    BY <1>1, <1>3 DEF ScaffoldInv, LiveCompiles, ReportIsTrue
<1> QED
    BY <1>5, <1>6, <1>7, <1>8 DEF ScaffoldInv

LEMMA MergeActiveInv == ScaffoldInv /\ MergeActive => ScaffoldInv'
<1> SUFFICES ASSUME ScaffoldInv, MergeActive PROVE ScaffoldInv'
    OBVIOUS
<1>1. /\ phase = "merge" /\ phase' = "validate"
      /\ UNCHANGED <<job, staging, deliver, tries, built, report, litter, jobs, before>>
    BY DEF MergeActive
<1>2. ScaffoldTypes'
    BY <1>1 DEF ScaffoldInv, ScaffoldTypes, AtWork, BeforePromotion
<1>3. TreesAreTheirJobs' /\ PromotionIsOn'
    BY <1>1, TreesAtWork DEF ScaffoldInv, TreesAreTheirJobs
<1>4. BuildIsTrue'
    BY <1>1 DEF ScaffoldInv, BuildIsTrue, PastBuild, AtWork, BeforePromotion
<1>5. LiveCompiles'
    BY <1>1 DEF ScaffoldInv, BuildIsTrue, LiveCompiles, PastBuild, MergeActive
<1>6. ReportIsTrue'
    BY <1>1 DEF ReportIsTrue
<1> QED
    BY <1>2, <1>3, <1>4, <1>5, <1>6 DEF ScaffoldInv

LEMMA ValidationFailsInv == ScaffoldInv /\ ValidationFails => ScaffoldInv'
<1> SUFFICES ASSUME ScaffoldInv, ValidationFails PROVE ScaffoldInv'
    OBVIOUS
<1> DEFINE verdict == Verdict("no")
<1>1. /\ phase = "validate" /\ UNCHANGED <<deliver, live, jobs, before>> /\ staging' = NoTree
      /\ Ended(verdict) /\ litter' = (job.where = "none")
    BY DEF ValidationFails
<1>2. /\ verdict.job = jobs /\ verdict.at = phase /\ verdict.asked = job
      /\ verdict.says # "succeeded" \/ ~verdict.asked.build
    BY VerdictSays
<1> HIDE DEF verdict
<1> QED
    BY <1>1, <1>2, EndedBefore DEF BeforePromotion

LEMMA ValidationPassesInv == ScaffoldInv /\ ValidationPasses => ScaffoldInv'
<1> SUFFICES ASSUME ScaffoldInv, ValidationPasses PROVE ScaffoldInv'
    OBVIOUS
<1>1. phase = "validate" /\ UNCHANGED <<deliver, live, jobs, before>>
    BY DEF ValidationPasses
<1>2. CASE job.where = "none"
  <2> DEFINE verdict == Verdict(built)
  <2>1. staging' = NoTree /\ Ended(verdict)
      BY <1>2 DEF ValidationPasses
  <2>2. verdict.job = jobs /\ verdict.at = phase /\ verdict.asked.where # "outside"
      BY <1>2, VerdictSays
  <2> HIDE DEF verdict
  <2> QED
      BY <1>1, <2>1, <2>2, EndedBefore DEF BeforePromotion
<1>3. CASE job.where # "none"
  <2>1. /\ staging' = [staging EXCEPT !.checked = job.check]
        /\ phase' = "remove"
        /\ UNCHANGED <<job, tries, built, report, litter>>
      BY <1>3 DEF ValidationPasses
  <2>2. /\ IsTree(staging') /\ staging'.job = staging.job /\ staging'.checked = job.check
        /\ staging'.files = staging.files /\ staging'.asked = staging.asked
        /\ staging'.text = staging.text /\ staging'.torn = staging.torn
      BY <2>1, TreeChecked DEF ScaffoldInv, TreesAreTheirJobs
  <2>3. ScaffoldTypes'
      BY <1>1, <2>1 DEF ScaffoldInv, ScaffoldTypes, AtWork, Promotion
  <2>4. Deliverable(deliver)'
      BY <1>1 DEF ScaffoldInv, TreesAreTheirJobs, Deliverable, GeneratedTree
  <2>5. TreesAreTheirJobs'
      BY <1>1, <2>1, <2>2, <2>4 DEF ScaffoldInv, TreesAreTheirJobs, PastBuild, GeneratedTree
  <2>6. PromotionIsOn'
      BY <1>1, <2>1 DEF ScaffoldInv, PromotionIsOn, BeforePromotion
  <2>7. BuildIsTrue'
      BY <1>1, <2>1, <2>2 DEF ScaffoldInv, BuildIsTrue, PastBuild, AtWork, Promotion
  <2>8. LiveCompiles' /\ ReportIsTrue'
      BY <1>1, <2>1 DEF ScaffoldInv, LiveCompiles, ReportIsTrue
  <2> QED
      BY <2>3, <2>5, <2>6, <2>7, <2>8 DEF ScaffoldInv
<1> QED
    BY <1>2, <1>3

\* A step from one phase of the promotion to the next.
LEMMA PromotionGoesOn ==
    ASSUME ScaffoldInv, phase \in Promotion, phase' \in Promotion,
           UNCHANGED <<job, staging, live, tries, built, report, litter, jobs, before>>,
           Deliverable(deliver'),
           phase' # "remove",
           phase' = "move" => deliver' = NoTree,
           phase' = "copy" => deliver' = Torn(staging),
           phase' = "clear" => deliver' = staging
    PROVE  ScaffoldInv'
<1>1. phase # "idle" /\ phase' # "idle"
    BY DEF Promotion
<1>2. ScaffoldTypes'
    BY <1>1 DEF ScaffoldInv, ScaffoldTypes, AtWork
<1>3. Deliverable(deliver)'
    BY DEF Deliverable, GeneratedTree
<1>4. TreesAreTheirJobs'
    BY <1>3 DEF ScaffoldInv, TreesAreTheirJobs, PastBuild, GeneratedTree
<1>5. phase' \notin BeforePromotion
    BY DEF Promotion, BeforePromotion
<1>6. Torn(staging)' = Torn(staging)
    BY DEF Torn
<1>7. PromotionIsOn'
    BY <1>1, <1>5, <1>6 DEF ScaffoldInv, PromotionIsOn
<1>8. BuildIsTrue'
    BY DEF ScaffoldInv, BuildIsTrue, PastBuild, AtWork
<1>9. LiveCompiles' /\ ReportIsTrue'
    BY <1>1 DEF ScaffoldInv, LiveCompiles, ReportIsTrue
<1> QED
    BY <1>2, <1>4, <1>7, <1>8, <1>9 DEF ScaffoldInv

LEMMA CommitRemoveInv == ScaffoldInv /\ CommitRemove => ScaffoldInv'
<1> SUFFICES ASSUME ScaffoldInv, CommitRemove PROVE ScaffoldInv'
    OBVIOUS
<1>1. /\ phase = "remove" /\ UNCHANGED <<live, jobs, before>>
      /\ deliver = before /\ Deliverable(deliver) /\ jobs \in Nat
    BY DEF ScaffoldInv, ScaffoldTypes, TreesAreTheirJobs, PromotionIsOn, CommitRemove
<1>2. CASE /\ deliver' = NoTree /\ phase' = "move"
           /\ UNCHANGED <<job, staging, tries, built, report, litter>>
    BY <1>1, <1>2, NoTreeIsDeliverable, PromotionGoesOn DEF Promotion
<1>3. CASE deliver' \in {deliver, Torn(deliver)} /\ Raise("raised")
  <2>1. Deliverable(deliver') /\ Leavings(deliver')
      BY <1>1, <1>3, TornIsDeliverable, TreeTorn DEF Leavings, Deliverable
  <2> QED
      BY <1>1, <1>3, <2>1, CutShortInv DEF Raise, Promotion
<1> QED
    BY <1>2, <1>3 DEF CommitRemove

LEMMA CommitMoveInv == ScaffoldInv /\ CommitMove => ScaffoldInv'
<1> SUFFICES ASSUME ScaffoldInv, CommitMove PROVE ScaffoldInv'
    OBVIOUS
<1>1. /\ phase = "move" /\ phase \in Promotion /\ UNCHANGED <<live, jobs, before>>
      /\ deliver = NoTree /\ jobs \in Nat
    BY DEF ScaffoldInv, ScaffoldTypes, PromotionIsOn, CommitMove, Promotion
<1>2. CASE deliver' = staging /\ staging' = NoTree /\ Ended(Verdict(built)) /\ UNCHANGED litter
    BY <1>1, <1>2, ReturnedInv
<1>3. CASE /\ deliver' = Torn(staging) /\ phase' = "copy"
           /\ UNCHANGED <<job, staging, tries, built, report, litter>>
  <2>1. Deliverable(Torn(staging))
      BY <1>1, StagingIsDeliverable, TornIsDeliverable
  <2> QED
      BY <1>1, <1>3, <2>1, PromotionGoesOn DEF Promotion
<1>4. CASE Raise("raised") /\ UNCHANGED deliver
  <2>1. Deliverable(deliver') /\ Leavings(deliver')
      BY <1>1, <1>4, NoTreeIsDeliverable DEF Leavings
  <2> QED
      BY <1>1, <1>4, <2>1, CutShortInv DEF Raise
<1> QED
    BY <1>2, <1>3, <1>4 DEF CommitMove

LEMMA CommitCopyInv == ScaffoldInv /\ CommitCopy => ScaffoldInv'
<1> SUFFICES ASSUME ScaffoldInv, CommitCopy PROVE ScaffoldInv'
    OBVIOUS
<1>1. /\ phase = "copy" /\ phase \in Promotion /\ UNCHANGED <<live, jobs, before>>
      /\ deliver = Torn(staging)
    BY DEF ScaffoldInv, PromotionIsOn, CommitCopy, Promotion
<1>2. Deliverable(staging) /\ staging.job = jobs
    BY <1>1, StagingIsDeliverable
<1>3. CASE /\ deliver' = staging /\ phase' = "clear"
           /\ UNCHANGED <<job, staging, tries, built, report, litter>>
    BY <1>1, <1>2, <1>3, PromotionGoesOn DEF Promotion
<1>4. CASE Raise("raised") /\ UNCHANGED deliver
  <2>1. Deliverable(deliver') /\ Leavings(deliver')
      BY <1>1, <1>2, <1>4, TornIsDeliverable, TreeTorn DEF Leavings, Deliverable
  <2> QED
      BY <1>1, <1>4, <2>1, CutShortInv DEF Raise
<1> QED
    BY <1>3, <1>4 DEF CommitCopy

LEMMA CommitClearInv == ScaffoldInv /\ CommitClear => ScaffoldInv'
<1> SUFFICES ASSUME ScaffoldInv, CommitClear PROVE ScaffoldInv'
    OBVIOUS
<1>1. /\ phase = "clear" /\ phase \in Promotion /\ UNCHANGED <<deliver, live, jobs, before>>
      /\ deliver = staging
    BY DEF ScaffoldInv, PromotionIsOn, CommitClear, Promotion
<1>2. Deliverable(deliver') /\ Leavings(deliver')
    BY <1>1, StagingIsDeliverable DEF Leavings
<1>3. CASE staging' = NoTree /\ Ended(Verdict(built)) /\ UNCHANGED litter
    BY <1>1, <1>3, ReturnedInv
<1>4. CASE Raise("raised")
    BY <1>1, <1>2, <1>4, CutShortInv DEF Raise
<1> QED
    BY <1>3, <1>4 DEF CommitClear

LEMMA KillJobInv == ScaffoldInv /\ KillJob => ScaffoldInv'
<1> SUFFICES ASSUME ScaffoldInv, KillJob PROVE ScaffoldInv'
    OBVIOUS
<1> DEFINE verdict == Failure("killed")
<1>1. /\ phase # "idle" /\ UNCHANGED <<live, jobs, before>> /\ staging' = NoTree
      /\ Ended(verdict)
    BY DEF KillJob
<1>2. verdict.job = jobs /\ verdict.says = "killed" /\ verdict.at = phase
    BY FailureSays
<1>3. Deliverable(deliver) /\ jobs \in Nat /\ phase \in BeforePromotion \cup Promotion
    BY <1>1 DEF ScaffoldInv, ScaffoldTypes, TreesAreTheirJobs, AtWork
<1>4. CASE phase \in BeforePromotion
  <2>1. UNCHANGED deliver
      BY <1>4 DEF KillJob, BeforePromotion
  <2> HIDE DEF verdict
  <2> QED
      BY <1>1, <1>2, <1>4, <2>1, EndedBefore
<1>5. CASE phase \in Promotion
  <2>1. CASE phase = "remove" /\ deliver' = Torn(deliver)
    <3>1. deliver = before
        BY <2>1 DEF ScaffoldInv, PromotionIsOn
    <3> QED
        BY <1>1, <1>3, <1>5, <2>1, <3>1, TornIsDeliverable, TreeTorn, CutShortInv
        DEF Leavings, Deliverable
  <2>2. CASE UNCHANGED deliver
    <3>1. Leavings(deliver)
        BY <1>5, StagingIsDeliverable, TreeTorn
        DEF ScaffoldInv, PromotionIsOn, Leavings, Promotion, Deliverable
    <3> QED
        BY <1>1, <1>3, <1>5, <2>2, <3>1, CutShortInv
  <2> QED
      BY <2>1, <2>2 DEF KillJob
<1> QED
    BY <1>3, <1>4, <1>5

LEMMA ScaffoldStutter == ScaffoldInv /\ UNCHANGED scaffoldVars => ScaffoldInv'
<1> SUFFICES ASSUME ScaffoldInv, UNCHANGED scaffoldVars PROVE ScaffoldInv'
    OBVIOUS
<1>1. ScaffoldTypes' /\ TreesAreTheirJobs' /\ PromotionIsOn'
    BY DEF ScaffoldInv, ScaffoldTypes, TreesAreTheirJobs, PromotionIsOn, Deliverable,
           GeneratedTree, Torn, scaffoldVars
<1>2. BuildIsTrue' /\ LiveCompiles'
    BY DEF ScaffoldInv, BuildIsTrue, LiveCompiles, scaffoldVars
<1>3. ReportIsTrue'
    BY DEF ScaffoldInv, ReportIsTrue, Untouched, ReturnedIsWhole, SuccessIsPromoted, CutShort,
           Returned, Compiled, scaffoldVars
<1> QED
    BY <1>1, <1>2, <1>3 DEF ScaffoldInv

\* What a promoted tree holds is whole, since decompose() wrote it.
LEMMA InvImpliesHonest == ScaffoldInv => PromotionIsHonest
<1> SUFFICES ASSUME ScaffoldInv PROVE PackageIsWhole
    BY DEF ScaffoldInv, PromotionIsHonest
<1>1. ASSUME deliver.job > 0, deliver.asked.route = "modular",
             Orchestrator(deliver.asked) \notin Targets(deliver.asked)
      PROVE  Whole(deliver.asked, deliver.files)
  <2>1. ~DecomposeError(deliver.asked) /\ deliver.files = Package(deliver.asked)
      BY <1>1 DEF ScaffoldInv, TreesAreTheirJobs, Deliverable, GeneratedTree
  <2> QED
      BY <1>1, <2>1, PackageIsAWhole
<1> QED
    BY <1>1 DEF ScaffoldInv, TreesAreTheirJobs, Deliverable, PackageIsWhole

\* For every blueprint and any number of jobs into one distribution directory:
\* the report of a job is true of the deliverable, what is promoted has passed
\* its validation and is whole, and the live layer only holds a library that
\* compiled, whatever failed or was killed (ScaffoldEngine._finalize_workspace,
\* DiagnosticRecoveryRunner.run, ModularDecomposer.decompose).
THEOREM PromotedIsHonest == ScaffoldSpec => []PromotionIsHonest
<1>1. ScaffoldInv /\ [ScaffoldNext]_scaffoldVars => ScaffoldInv'
  <2>1. ScaffoldInv /\ ScaffoldNext => ScaffoldInv'
      BY RefuseInv, BeginInv, GenerateInv, SkipBuildInv, CargoBuildInv, MergeActiveInv,
         ValidationFailsInv, ValidationPassesInv, CommitRemoveInv, CommitMoveInv,
         CommitCopyInv, CommitClearInv, KillJobInv
         DEF ScaffoldNext
  <2> QED
      BY <2>1, ScaffoldStutter
<1> QED
    BY <1>1, ScaffoldInitInv, InvImpliesHonest, PTL DEF ScaffoldSpec

-----------------------------------------------------------------------------
(* The bridge generator.  An emission that is not refused either repeats    *)
(* what the generator has for the identifier and hook, or defines an        *)
(* identifier that it did not have.                                         *)

IsGenerator(g) ==
    \E m, d, r, l, o : g = [made |-> m, dirs |-> d, registry |-> r, loaded |-> l, output |-> o]

Recalls(g, ident, hook, r) ==
    /\ ident \in DOMAIN g.output /\ g.output[ident].hook = hook
    /\ r.g = g /\ r.text = g.output[ident]

Defines(g, ident, hook, r) ==
    /\ ident \notin DOMAIN g.output
    /\ r.text.ident = ident /\ r.text.hook = hook
    /\ IsGenerator(r.g) /\ r.g.made = g.made
    /\ DOMAIN r.g.output = DOMAIN g.output \cup {ident}
    /\ r.g.output[ident] = r.text
    /\ \A x \in DOMAIN g.output : r.g.output[x] = g.output[x]

LEMMA EmitRecallsOrDefines ==
    ASSUME NEW g, IsGenerator(g), NEW ident, NEW hook, NEW kind, NEW node,
           Emit(g, ident, hook, kind, node) # Refused
    PROVE  \/ Recalls(g, ident, hook, Emit(g, ident, hook, kind, node))
           \/ Defines(g, ident, hook, Emit(g, ident, hook, kind, node))
<1> DEFINE t == TemplateFor(g, node.ident, kind)
           new == [kind |-> kind, ident |-> ident, hook |-> hook, sig |-> node.sig,
                   template |-> Load(g, t)]
           out == With(g.output, ident, new)
           loaded == With(g.loaded, t, Load(g, t))
           h == [made |-> g.made, dirs |-> g.dirs, registry |-> g.registry,
                 loaded |-> loaded, output |-> out]
<1>1. CASE ident \in DOMAIN g.output
  <2>1. /\ g.output[ident].hook = hook
        /\ Emit(g, ident, hook, kind, node) = [text |-> g.output[ident], g |-> g]
      BY <1>1 DEF Emit
  <2> QED
      BY <1>1, <2>1 DEF Recalls
<1>2. CASE ident \notin DOMAIN g.output
  <2>1. Emit(g, ident, hook, kind, node) = [text |-> new, g |-> h]
      BY <1>2 DEF Emit
  <2>2. new.ident = ident /\ new.hook = hook
      OBVIOUS
  <2>3. /\ DOMAIN out = DOMAIN g.output \cup {ident} /\ out[ident] = new
        /\ \A x \in DOMAIN g.output : out[x] = g.output[x]
      BY <1>2 DEF With
  <2> HIDE DEF new, out, loaded, t
  <2>4. IsGenerator(h) /\ h.made = g.made /\ h.output = out
      BY DEF IsGenerator
  <2> HIDE DEF h
  <2>5. Defines(g, ident, hook, [text |-> new, g |-> h])
      BY <1>2, <2>2, <2>3, <2>4 DEF Defines
  <2> QED
      BY <2>1, <2>5
<1> QED
    BY <1>1, <1>2

\* The shared generator still has every text it handed out.
Kept(g, texts) ==
    /\ IsGenerator(g)
    /\ \A x \in DOMAIN g.output : g.output[x].ident = x
    /\ \A t \in texts : t.ident \in DOMAIN g.output /\ g.output[t.ident] = t

LEMMA EmitKeeps ==
    ASSUME NEW g, NEW texts, Kept(g, texts), NEW ident, NEW hook, NEW kind, NEW node,
           Emit(g, ident, hook, kind, node) # Refused
    PROVE  /\ Kept(Emit(g, ident, hook, kind, node).g,
                   texts \cup {Emit(g, ident, hook, kind, node).text})
           /\ Emit(g, ident, hook, kind, node).g.made = g.made
<1>1. PICK r : r = Emit(g, ident, hook, kind, node)
    OBVIOUS
<1>2. Recalls(g, ident, hook, r) \/ Defines(g, ident, hook, r)
    BY <1>1, EmitRecallsOrDefines DEF Kept
<1>3. Kept(r.g, texts \cup {r.text}) /\ r.g.made = g.made
  <2>1. CASE Recalls(g, ident, hook, r)
      BY <2>1 DEF Recalls, Kept
  <2>2. CASE Defines(g, ident, hook, r)
      BY <2>2 DEF Defines, Kept
  <2> QED
      BY <1>2, <2>1, <2>2
<1> QED
    BY <1>1, <1>3

SharedInv ==
    /\ Kept(generator, given)
    /\ ~generator.made => given = {}

\* The files of a complete request define no name twice, and none of the source.
DefineOnce(texts, defined) ==
    /\ \A i, j \in DOMAIN texts : texts[i].ident = texts[j].ident => i = j
    /\ \A i \in DOMAIN texts : texts[i].ident \notin defined
FilesOnce == DefineOnce(files.lib \o files.legacy, files.defined)

LEMMA NewGeneratorIsEmpty ==
    ASSUME NEW project
    PROVE  /\ IsGenerator(NewGenerator(project)) /\ NewGenerator(project).made
           /\ NewGenerator(project).output = <<>>
<1> DEFINE dirs == SelectSeq(Dirs, LAMBDA d : d \in project \cup {"package"})
           registry == LoadRegistries(dirs)
<1>1. NewGenerator(project) = [made |-> TRUE, dirs |-> dirs, registry |-> registry,
                               loaded |-> <<>>, output |-> <<>>]
    BY DEF NewGenerator
<1> HIDE DEF dirs, registry
<1>2. IsGenerator(NewGenerator(project))
    BY <1>1 DEF IsGenerator
<1>3. NewGenerator(project).made = TRUE
    BY <1>1
<1>4. NewGenerator(project).output = <<>>
    BY <1>1
<1> QED
    BY <1>2, <1>3, <1>4

LEMMA HandOutInv ==
    ASSUME SharedInv, NEW project, NEW ident, NEW hook, NEW kind, NEW node,
           HandOut(Emit(GetGenerator(project), ident, hook, kind, node))
    PROVE  SharedInv' /\ UNCHANGED files
<1> DEFINE g == GetGenerator(project)
<1>1. Kept(g, given) /\ g.made
  <2>1. CASE generator.made
      BY <2>1 DEF SharedInv, GetGenerator
  <2>2. CASE ~generator.made
    <3>1. given = {} /\ g = NewGenerator(project)
        BY <2>2 DEF SharedInv, GetGenerator
    <3> HIDE DEF g
    <3> QED
        BY <3>1, NewGeneratorIsEmpty DEF Kept
  <2> QED
      BY <2>1, <2>2
<1> HIDE DEF g
<1>2. PICK r : r = Emit(g, ident, hook, kind, node)
    OBVIOUS
<1>3. r # Refused /\ generator' = r.g /\ given' = given \cup {r.text} /\ UNCHANGED files
    BY <1>2 DEF HandOut, g
<1>4. Kept(r.g, given \cup {r.text}) /\ r.g.made = g.made
    BY <1>1, <1>2, <1>3, EmitKeeps
<1> QED
    BY <1>1, <1>3, <1>4 DEF SharedInv

LEMMA RegisterInv ==
    ASSUME SharedInv, NEW ident, NEW kinds, Register(ident, kinds)
    PROVE  SharedInv' /\ UNCHANGED files
<1>1. PICK m, d, r, l, o :
        generator = [made |-> m, dirs |-> d, registry |-> r, loaded |-> l, output |-> o]
    BY DEF SharedInv, Kept, IsGenerator
<1> DEFINE registry == [e \in {x \in DOMAIN generator.registry : x[1] # ident}
                                \cup {<<ident, k>> : k \in kinds} |->
                            IF e[1] = ident THEN "custom" ELSE generator.registry[e]]
<1>2. generator' = [generator EXCEPT !.registry = registry] /\ UNCHANGED <<given, files>>
    BY DEF Register
<1> HIDE DEF registry
<1>3. generator' = [made |-> m, dirs |-> d, registry |-> registry, loaded |-> l, output |-> o]
    BY <1>1, <1>2
<1>4. IsGenerator(generator') /\ generator'.output = generator.output
      /\ generator'.made = generator.made
    BY <1>1, <1>3 DEF IsGenerator
<1> QED
    BY <1>2, <1>4 DEF SharedInv, Kept

-----------------------------------------------------------------------------
(* A complete request.  Its nodes have hooks of their own, so a second node  *)
(* of one identifier would be refused, and no wrapper has the identifier of  *)
(* a legacy function of another node.                                        *)

IsRequest(acc) ==
    \E g, r, s, b, o, h :
        acc = [g |-> g, refused |-> r, seen |-> s, lib |-> b, legacy |-> o, hooks |-> h]

Sequences2(p, q) == \E S : p \in Seq(S) /\ q \in Seq(S)

EachOnce(p) == \A i, j \in DOMAIN p : p[i].ident = p[j].ident => i = j
Apart(p, q) == \A i \in DOMAIN p, j \in DOMAIN q : p[i].ident # q[j].ident
AllIn(p, R) == \A i \in DOMAIN p : p[i].ident \in R

\* What a request has emitted for its first k nodes.
Emitted(acc, k, R) ==
    /\ IsGenerator(acc.g)
    /\ Sequences2(acc.lib, acc.legacy)
    /\ \A x \in DOMAIN acc.g.output : acc.g.output[x].hook \in 1..k
    /\ DOMAIN acc.g.output \subseteq R
    /\ AllIn(acc.lib, DOMAIN acc.g.output) /\ AllIn(acc.legacy, DOMAIN acc.g.output)
    /\ EachOnce(acc.lib) /\ EachOnce(acc.legacy) /\ Apart(acc.lib, acc.legacy)

Clean(acc, k, R) == IsRequest(acc) /\ (~acc.refused => Emitted(acc, k, R))

\* q is p with a text of the identifier x at its end.
Longer(p, q, t, x, d, S) ==
    /\ DOMAIN q = DOMAIN p \cup {Len(p) + 1}
    /\ \A i \in DOMAIN p : q[i] = p[i]
    /\ q[Len(p) + 1] = t
    /\ EachOnce(q) /\ AllIn(q, d \cup {x})
    /\ q \in Seq(S \cup {t})

LEMMA AppendFresh ==
    ASSUME NEW S, NEW p, p \in Seq(S), NEW d, AllIn(p, d), EachOnce(p),
           NEW t, NEW x, t.ident = x, x \notin d
    PROVE  Longer(p, Append(p, t), t, x, d, S)
<1>1. p \in Seq(S \cup {t}) /\ t \in S \cup {t}
    OBVIOUS
<1>2. /\ Append(p, t) \in Seq(S \cup {t})
      /\ DOMAIN Append(p, t) = DOMAIN p \cup {Len(p) + 1}
      /\ \A i \in DOMAIN p : Append(p, t)[i] = p[i]
      /\ Append(p, t)[Len(p) + 1] = t
      /\ Len(p) + 1 \notin DOMAIN p
    BY <1>1
<1> DEFINE q == Append(p, t)
<1> HIDE DEF q
<1>3. EachOnce(q) /\ AllIn(q, d \cup {x})
    BY <1>2 DEF EachOnce, AllIn, q
<1> QED
    BY <1>2, <1>3 DEF q, Longer

LEMMA EmitBothClean ==
    ASSUME NEW acc, NEW k \in Nat, NEW R, Clean(acc, k, R),
           NEW node, node.hook = k + 1, LegacyName[node.ident] # node.ident,
           node.ident \in R, LegacyName[node.ident] \in R
    PROVE  Clean(EmitBoth(acc, node), k + 1, R)
<1> DEFINE ident == node.ident
           own == LegacyName[ident]
           w == Wrapper(acc.g, node)
           l == Legacy(w.g, node)
<1>1. CASE acc.refused \/ ident \in acc.seen
  <2>1. EmitBoth(acc, node) = acc
      BY <1>1 DEF EmitBoth
  <2>2. Emitted(acc, k, R) => Emitted(acc, k + 1, R)
      BY DEF Emitted
  <2> QED
      BY <2>1, <2>2 DEF Clean
<1>2. CASE ~(acc.refused \/ ident \in acc.seen) /\ (w = Refused \/ l = Refused)
  <2>1. EmitBoth(acc, node) = [acc EXCEPT !.refused = TRUE]
      BY <1>2 DEF EmitBoth
  <2>2. PICK g, r, s, b, o, h :
          acc = [g |-> g, refused |-> r, seen |-> s, lib |-> b, legacy |-> o, hooks |-> h]
      BY DEF Clean, IsRequest
  <2>3. EmitBoth(acc, node) =
          [g |-> g, refused |-> TRUE, seen |-> s, lib |-> b, legacy |-> o, hooks |-> h]
      BY <2>1, <2>2
  <2>4. IsRequest(EmitBoth(acc, node))
      BY <2>3 DEF IsRequest
  <2>5. EmitBoth(acc, node).refused = TRUE
      BY <2>3
  <2> QED
      BY <2>4, <2>5 DEF Clean
<1>3. CASE ~(acc.refused \/ ident \in acc.seen) /\ w # Refused /\ l # Refused
  <2>1. Emitted(acc, k, R)
      BY <1>3 DEF Clean
  <2>2. Defines(acc.g, ident, k + 1, w)
    <3>1. Recalls(acc.g, ident, node.hook, w) \/ Defines(acc.g, ident, node.hook, w)
        BY <1>3, <2>1, EmitRecallsOrDefines DEF Wrapper, Emitted
    <3>2. ~Recalls(acc.g, ident, node.hook, w)
        BY <2>1 DEF Emitted, Recalls
    <3> QED
        BY <3>1, <3>2
  <2>3. Defines(w.g, own, k + 1, l)
    <3>1. IsGenerator(w.g)
        BY <2>2 DEF Defines
    <3>2. Recalls(w.g, own, node.hook, l) \/ Defines(w.g, own, node.hook, l)
        BY <1>3, <3>1, EmitRecallsOrDefines DEF Legacy
    <3>3. ~Recalls(w.g, own, node.hook, l)
        BY <2>1, <2>2 DEF Emitted, Recalls, Defines
    <3> QED
        BY <3>2, <3>3
  <2>4. PICK u, t, a, c : u = w.g /\ t = l.g /\ a = w.text /\ c = l.text
      OBVIOUS
  <2> DEFINE next == [g |-> t, refused |-> FALSE, seen |-> acc.seen \cup {ident},
                      lib |-> Append(acc.lib, a), legacy |-> Append(acc.legacy, c),
                      hooks |-> Append(acc.hooks, node.hook)]
             D == DOMAIN acc.g.output
  <2>5. EmitBoth(acc, node) = next
      BY <1>3, <2>4 DEF EmitBoth
  <2>6. /\ ident \notin D /\ own \notin D /\ own # ident
        /\ a.ident = ident /\ c.ident = own /\ a.hook = k + 1 /\ c.hook = k + 1
        /\ IsGenerator(t)
        /\ DOMAIN t.output = D \cup {ident, own}
        /\ t.output[ident] = a /\ t.output[own] = c
        /\ \A x \in D : t.output[x] = acc.g.output[x]
      BY <2>2, <2>3, <2>4 DEF Defines
  <2> HIDE DEF ident, own, w, l
  <2>7. PICK S, b, o, d :
          /\ b = acc.lib /\ o = acc.legacy /\ d = D
          /\ b \in Seq(S) /\ o \in Seq(S)
      BY <2>1 DEF Emitted, Sequences2
  <2>8. AllIn(b, d) /\ EachOnce(b) /\ AllIn(o, d) /\ EachOnce(o) /\ ident \notin d /\ own \notin d
      BY <2>1, <2>6, <2>7 DEF Emitted
  <2> DEFINE p == Append(b, a)
             q == Append(o, c)
  <2>9. Longer(b, p, a, ident, d, S) /\ Longer(o, q, c, own, d, S)
      BY <2>6, <2>7, <2>8, AppendFresh
  <2>10. /\ DOMAIN p = DOMAIN b \cup {Len(b) + 1}
         /\ \A i \in DOMAIN b : p[i] = b[i]
         /\ p[Len(b) + 1] = a
         /\ EachOnce(p) /\ AllIn(p, d \cup {ident}) /\ p \in Seq(S \cup {a})
      BY <2>9 DEF Longer
  <2>11. /\ DOMAIN q = DOMAIN o \cup {Len(o) + 1}
         /\ \A i \in DOMAIN o : q[i] = o[i]
         /\ q[Len(o) + 1] = c
         /\ EachOnce(q) /\ AllIn(q, d \cup {own}) /\ q \in Seq(S \cup {c})
      BY <2>9 DEF Longer
  <2> HIDE DEF p, q
  <2>12. Sequences2(p, q)
    <3>1. p \in Seq(S \cup {a, c}) /\ q \in Seq(S \cup {a, c})
        BY <2>10, <2>11
    <3> QED
        BY <3>1 DEF Sequences2
  <2>13. Apart(p, q)
      BY <2>1, <2>6, <2>7, <2>10, <2>11, <2>8 DEF Emitted, Apart, AllIn
  <2>14. AllIn(p, DOMAIN t.output) /\ AllIn(q, DOMAIN t.output)
      BY <2>6, <2>7, <2>10, <2>11 DEF AllIn
  <2>15. DOMAIN t.output \subseteq R
      BY <2>1, <2>6 DEF Emitted, ident, own, D
  <2>16. \A x \in DOMAIN t.output : t.output[x].hook \in 1..(k + 1)
      BY <2>1, <2>6 DEF Emitted, D
  <2>17. next.g = t /\ next.lib = p /\ next.legacy = q /\ next.refused = FALSE
      BY <2>7 DEF p, q
  <2>18. IsRequest(next)
      BY DEF IsRequest
  <2> HIDE DEF next
  <2>19. Emitted(next, k + 1, R)
      BY <2>6, <2>10, <2>11, <2>12, <2>13, <2>14, <2>15, <2>16, <2>17 DEF Emitted
  <2> QED
      BY <2>5, <2>18, <2>19 DEF Clean
<1> QED
    BY <1>1, <1>2, <1>3

\* The equations of a request for the first n nodes, and that they have a solution.
Folded(f, g, nodes, n) ==
    f = [k \in 0..n |-> IF k = 0 THEN Blank(g) ELSE EmitBoth(f[k - 1], nodes[k])]

LEMMA FoldedExists ==
    ASSUME NEW g, NEW nodes, NEW n \in Nat
    PROVE  \E f : Folded(f, g, nodes, n)
<1> DEFINE Bad == {m \in Nat : ~\E f : Folded(f, g, nodes, m)}
<1>1. SUFFICES ASSUME Bad # {} PROVE FALSE
    OBVIOUS
<1>2. PICK m \in Bad : \A k \in Bad : m <= k
    BY <1>1, LeastNatural
<1>3. m # 0
  <2> DEFINE f == [k \in 0..0 |-> Blank(g)]
  <2>1. f = [k \in 0..0 |-> IF k = 0 THEN Blank(g) ELSE EmitBoth(f[k - 1], nodes[k])]
      OBVIOUS
  <2>2. Folded(f, g, nodes, 0)
      BY <2>1 DEF Folded
  <2> QED
      BY <2>2
<1>4. m - 1 \in Nat /\ m - 1 \notin Bad
    BY <1>2, <1>3
<1>5. PICK f : Folded(f, g, nodes, m - 1)
    BY <1>4
<1> DEFINE e == [k \in 0..m |-> IF k = m THEN EmitBoth(f[m - 1], nodes[m]) ELSE f[k]]
<1>6. ASSUME NEW k \in 0..m
      PROVE  e[k] = IF k = 0 THEN Blank(g) ELSE EmitBoth(e[k - 1], nodes[k])
  <2>1. CASE k = m
      BY <1>3, <2>1
  <2>2. CASE k # m
    <3>1. k \in 0..(m - 1) /\ (k # 0 => k - 1 \in 0..m /\ k - 1 # m)
        BY <2>2
    <3>2. f[k] = IF k = 0 THEN Blank(g) ELSE EmitBoth(f[k - 1], nodes[k])
        BY <1>5, <3>1 DEF Folded
    <3> QED
        BY <2>2, <3>1, <3>2
  <2> QED
      BY <2>1, <2>2
<1>7. e = [k \in 0..m |-> IF k = 0 THEN Blank(g) ELSE EmitBoth(e[k - 1], nodes[k])]
    BY <1>6
<1>8. Folded(e, g, nodes, m)
    BY <1>7 DEF Folded
<1> QED
    BY <1>8

LEMMA EmitAllClean ==
    ASSUME NEW g, IsGenerator(g), g.output = <<>>, NEW R, NEW nodes, Len(nodes) \in Nat,
           \A k \in 1..Len(nodes) :
               /\ nodes[k].hook = k
               /\ LegacyName[nodes[k].ident] # nodes[k].ident
               /\ nodes[k].ident \in R /\ LegacyName[nodes[k].ident] \in R
    PROVE  Clean(EmitAll(g, nodes), Len(nodes), R)
<1> DEFINE f == CHOOSE f : Folded(f, g, nodes, Len(nodes))
<1>1. EmitAll(g, nodes) = f[Len(nodes)]
    BY DEF EmitAll, Folded
<1>2. Folded(f, g, nodes, Len(nodes))
    BY FoldedExists
<1> HIDE DEF f
<1> DEFINE Bad == {m \in 0..Len(nodes) : ~Clean(f[m], m, R)}
<1>3. SUFFICES ASSUME Bad # {} PROVE FALSE
    BY <1>1
<1>4. PICK m \in Bad : \A k \in Bad : m <= k
    BY <1>3, LeastNatural, Bad \in SUBSET Nat
<1>5. m # 0
  <2>1. f[0] = Blank(g)
      BY <1>2 DEF Folded
  <2>2. IsRequest(Blank(g))
      BY DEF Blank, IsRequest
  <2>3. Blank(g).g = g /\ Blank(g).lib = <<>> /\ Blank(g).legacy = <<>>
      BY DEF Blank
  <2>4. Sequences2(<<>>, <<>>)
    <3>1. <<>> \in Seq({}) /\ <<>> \in Seq({})
        OBVIOUS
    <3> QED
        BY <3>1 DEF Sequences2
  <2>5. Emitted(Blank(g), 0, R)
      BY <2>3, <2>4 DEF Emitted, EachOnce, AllIn, Apart
  <2> QED
      BY <2>1, <2>2, <2>5 DEF Clean
<1>6. m - 1 \in Nat /\ m - 1 \in 0..Len(nodes) /\ m - 1 \notin Bad /\ m \in 1..Len(nodes)
    BY <1>4, <1>5
<1>7. f[m] = EmitBoth(f[m - 1], nodes[m])
    BY <1>2, <1>5, <1>6 DEF Folded
<1>8. PICK acc, node, k : acc = f[m - 1] /\ node = nodes[m] /\ k = m - 1
    OBVIOUS
<1>9. k \in Nat /\ Clean(acc, k, R) /\ node.hook = k + 1
    BY <1>6, <1>8
<1>10. Clean(EmitBoth(acc, node), k + 1, R)
    BY <1>6, <1>8, <1>9, EmitBothClean
<1>11. k + 1 = m
    BY <1>6, <1>8
<1> QED
    BY <1>4, <1>7, <1>8, <1>10, <1>11

LEMMA GenerateFilesOnce ==
    ASSUME FilesOnce, NEW project, NEW f \in Fns, NEW h \in Fns, NEW defined,
           GenerateFfiArtifacts(project, <<f, h>>, defined)
    PROVE  FilesOnce' /\ UNCHANGED <<generator, given>>
<1> DEFINE nodes == AssignNodes(<<f, h>>)
           g == NewGenerator(project)
           all == EmitAll(g, nodes)
           conflicts == CheckConflicts(nodes, defined)
<1>1. /\ files' = IF conflicts # {}
                    THEN [lib |-> <<>>, legacy |-> <<>>, hooks |-> <<>>,
                          defined |-> defined, conflicts |-> conflicts]
                    ELSE IF all.refused THEN files
                    ELSE [lib |-> all.lib, legacy |-> all.legacy, hooks |-> all.hooks,
                          defined |-> defined, conflicts |-> {}]
      /\ UNCHANGED <<generator, given>>
    BY DEF GenerateFfiArtifacts
<1>2. /\ Len(nodes) = 2 /\ DOMAIN nodes = 1..2
      /\ nodes[1] = [ident |-> Ident[f.name], sig |-> f.sig, hook |-> 1]
      /\ nodes[2] = [ident |-> Ident[h.name], sig |-> h.sig, hook |-> 2]
    BY DEF AssignNodes
<1> HIDE DEF nodes
<1>3. \A k \in 1..2 :
        /\ nodes[k].hook = k
        /\ LegacyName[nodes[k].ident] # nodes[k].ident
        /\ nodes[k].ident \in Requested(nodes) /\ LegacyName[nodes[k].ident] \in Requested(nodes)
  <2>1. LegacyName[Ident[f.name]] # Ident[f.name] /\ LegacyName[Ident[h.name]] # Ident[h.name]
      BY BridgeAssumption
  <2>2. \A k \in 1..2 : /\ nodes[k].ident \in Requested(nodes)
                        /\ LegacyName[nodes[k].ident] \in Requested(nodes)
      BY <1>2 DEF Requested
  <2>3. \A k \in 1..2 : k = 1 \/ k = 2
      OBVIOUS
  <2> QED
      BY <1>2, <2>1, <2>2, <2>3
<1>4. IsGenerator(g) /\ g.output = <<>>
    BY NewGeneratorIsEmpty
<1> HIDE DEF g
<1>5. PICK R : R = Requested(nodes)
    OBVIOUS
<1>6. Clean(all, 2, R)
  <2>1. \A k \in 1..Len(nodes) :
          /\ nodes[k].hook = k
          /\ LegacyName[nodes[k].ident] # nodes[k].ident
          /\ nodes[k].ident \in R /\ LegacyName[nodes[k].ident] \in R
      BY <1>2, <1>3, <1>5
  <2>2. Len(nodes) \in Nat
      BY <1>2
  <2>3. Clean(EmitAll(g, nodes), Len(nodes), R)
      BY <1>4, <2>1, <2>2, EmitAllClean
  <2> QED
      BY <1>2, <2>3
<1> HIDE DEF all
<1>7. CASE conflicts # {}
  <2>1. files'.lib = <<>> /\ files'.legacy = <<>>
      BY <1>1, <1>7
  <2>2. DOMAIN (<<>> \o <<>>) = {}
      OBVIOUS
  <2> QED
      BY <1>1, <2>1, <2>2 DEF FilesOnce, DefineOnce
<1>8. CASE conflicts = {} /\ all.refused
    BY <1>1, <1>8 DEF FilesOnce
<1>9. CASE conflicts = {} /\ ~all.refused
  <2>1. Emitted(all, 2, R)
      BY <1>6, <1>9 DEF Clean
  <2>2. R \cap defined = {}
      BY <1>5, <1>9 DEF CheckConflicts
  <2>3. files'.lib = all.lib /\ files'.legacy = all.legacy /\ files'.defined = defined
      BY <1>1, <1>9
  <2>4. PICK S, p, q : p = all.lib /\ q = all.legacy /\ p \in Seq(S) /\ q \in Seq(S)
      BY <2>1 DEF Emitted, Sequences2
  <2>5. /\ EachOnce(p) /\ EachOnce(q) /\ Apart(p, q)
        /\ \A i \in DOMAIN p : p[i].ident \notin defined
        /\ \A i \in DOMAIN q : q[i].ident \notin defined
      BY <2>1, <2>2, <2>4 DEF Emitted, AllIn
  <2> DEFINE texts == p \o q
  <2>6. \A i \in DOMAIN texts :
          \/ i \in DOMAIN p /\ texts[i] = p[i]
          \/ i - Len(p) \in DOMAIN q /\ texts[i] = q[i - Len(p)] /\ i \in Nat
    <3> SUFFICES ASSUME NEW i \in DOMAIN texts
                 PROVE  \/ i \in DOMAIN p /\ texts[i] = p[i]
                        \/ i - Len(p) \in DOMAIN q /\ texts[i] = q[i - Len(p)] /\ i \in Nat
        OBVIOUS
    <3>1. PICK m \in Nat, n \in Nat : m = Len(p) /\ n = Len(q)
        BY <2>4
    <3>2. DOMAIN texts = 1..(m + n) /\ DOMAIN p = 1..m /\ DOMAIN q = 1..n
        BY <2>4, <3>1
    <3>3. texts[i] = IF i <= m THEN p[i] ELSE q[i - m]
        BY <2>4, <3>1, <3>2
    <3> HIDE DEF texts
    <3>4. CASE i <= m
        BY <3>2, <3>3, <3>4
    <3>5. CASE ~(i <= m)
        BY <3>1, <3>2, <3>3, <3>5
    <3> QED
        BY <3>4, <3>5
  <2> HIDE DEF texts
  <2>7. \A i, j \in DOMAIN texts : texts[i].ident = texts[j].ident => i = j
    <3> SUFFICES ASSUME NEW i \in DOMAIN texts, NEW j \in DOMAIN texts,
                        texts[i].ident = texts[j].ident
                 PROVE  i = j
        OBVIOUS
    <3>1. CASE i \in DOMAIN p /\ texts[i] = p[i] /\ j \in DOMAIN p /\ texts[j] = p[j]
        BY <2>5, <3>1 DEF EachOnce
    <3>2. CASE /\ i - Len(p) \in DOMAIN q /\ texts[i] = q[i - Len(p)] /\ i \in Nat
               /\ j - Len(p) \in DOMAIN q /\ texts[j] = q[j - Len(p)] /\ j \in Nat
      <4>1. i - Len(p) = j - Len(p)
          BY <2>5, <3>2 DEF EachOnce
      <4>2. Len(p) \in Nat
          BY <2>4
      <4> QED
          BY <3>2, <4>1, <4>2
    <3>3. CASE /\ i \in DOMAIN p /\ texts[i] = p[i]
               /\ j - Len(p) \in DOMAIN q /\ texts[j] = q[j - Len(p)]
        BY <2>5, <3>3 DEF Apart
    <3>4. CASE /\ j \in DOMAIN p /\ texts[j] = p[j]
               /\ i - Len(p) \in DOMAIN q /\ texts[i] = q[i - Len(p)]
        BY <2>5, <3>4 DEF Apart
    <3> QED
        BY <2>6, <3>1, <3>2, <3>3, <3>4
  <2>8. \A i \in DOMAIN texts : texts[i].ident \notin defined
      BY <2>5, <2>6
  <2>9. files'.lib \o files'.legacy = texts
      BY <2>3, <2>4 DEF texts
  <2>10. DefineOnce(texts, defined)
      BY <2>7, <2>8 DEF DefineOnce
  <2>11. DefineOnce(files'.lib \o files'.legacy, files'.defined)
      BY <2>3, <2>9, <2>10, Zenon
  <2> QED
      BY <1>1, <2>11 DEF FilesOnce
<1> QED
    BY <1>1, <1>7, <1>8, <1>9

\* A name is defined once, for every set of hot functions, registries and
\* templates: among the texts that the shared generator hands out, and in the
\* files of a complete request (wrapper, legacy, generate_ffi_artifacts).
THEOREM NamesAreDefinedOnce == BridgeSpec => []DefinedOnce
<1> DEFINE BridgeInv == SharedInv /\ FilesOnce
<1>1. BridgeInit => BridgeInv
  <2> SUFFICES ASSUME BridgeInit PROVE BridgeInv
      OBVIOUS
  <2>1. IsGenerator(NoGenerator) /\ NoGenerator.output = <<>>
      BY DEF NoGenerator, IsGenerator
  <2>2. SharedInv
      BY <2>1 DEF BridgeInit, SharedInv, Kept
  <2>3. DOMAIN (<<>> \o <<>>) = {}
      OBVIOUS
  <2>4. FilesOnce
      BY <2>3 DEF BridgeInit, FilesOnce, DefineOnce, NoFiles
  <2> QED
      BY <2>2, <2>4
<1>2. BridgeInv /\ [BridgeNext]_bridgeVars => BridgeInv'
  <2> SUFFICES ASSUME BridgeInv, [BridgeNext]_bridgeVars PROVE BridgeInv'
      OBVIOUS
  <2>1. ASSUME NEW project, NEW f, NEW k,
               LET node == [ident |-> Ident[f.name], sig |-> f.sig, hook |-> k]
               IN  GenerateWrapperFn(project, node) \/ GenerateLegacyDispatch(project, node)
        PROVE  BridgeInv'
    <3>1. PICK node : GenerateWrapperFn(project, node) \/ GenerateLegacyDispatch(project, node)
        BY <2>1
    <3>2. CASE GenerateWrapperFn(project, node)
      <4>1. PICK ident, hook : HandOut(Emit(GetGenerator(project), ident, hook, "wrapper", node))
          BY <3>2 DEF GenerateWrapperFn, Wrapper
      <4>2. SharedInv' /\ UNCHANGED files
          BY <4>1, HandOutInv
      <4> QED
          BY <4>2 DEF FilesOnce
    <3>3. CASE GenerateLegacyDispatch(project, node)
      <4>1. PICK ident, hook : HandOut(Emit(GetGenerator(project), ident, hook, "legacy", node))
          BY <3>3 DEF GenerateLegacyDispatch, Legacy
      <4>2. SharedInv' /\ UNCHANGED files
          BY <4>1, HandOutInv
      <4> QED
          BY <4>2 DEF FilesOnce
    <3> QED
        BY <3>1, <3>2, <3>3
  <2>2. ASSUME NEW ident, NEW kinds, Register(ident, kinds)
        PROVE  BridgeInv'
    <3>1. SharedInv' /\ UNCHANGED files
        BY <2>2, RegisterInv
    <3> QED
        BY <3>1 DEF FilesOnce
  <2>3. ASSUME NEW project, NEW f \in Fns, NEW h \in Fns, NEW defined,
               GenerateFfiArtifacts(project, <<f, h>>, defined)
        PROVE  BridgeInv'
    <3>1. FilesOnce' /\ UNCHANGED <<generator, given>>
        BY <2>3, GenerateFilesOnce
    <3> QED
        BY <3>1 DEF SharedInv
  <2>4. ASSUME NEW d, NEW t, WriteTemplate(d, t)
        PROVE  BridgeInv'
      BY <2>4 DEF WriteTemplate, SharedInv, FilesOnce
  <2>5. CASE UNCHANGED bridgeVars
      BY <2>5 DEF bridgeVars, SharedInv, FilesOnce
  <2> QED
      BY <2>1, <2>2, <2>3, <2>4, <2>5 DEF BridgeNext, SharedNext, RequestNext, TemplateNext
<1>3. BridgeInv => DefinedOnce
  <2> SUFFICES ASSUME BridgeInv PROVE DefinedOnce
      OBVIOUS
  <2>1. \A s, t \in given : s.ident = t.ident => s = t
    <3>1. \A t \in given : t = generator.output[t.ident]
        BY DEF SharedInv, Kept
    <3> QED
        BY <3>1
  <2> QED
      BY <2>1 DEF FilesOnce, DefineOnce, DefinedOnce
<1> HIDE DEF BridgeInv
<1> QED
    BY <1>1, <1>2, <1>3, PTL DEF BridgeSpec

-----------------------------------------------------------------------------
(* The translation pipeline: what its loops leave.  Each is a function of    *)
(* the turns made, and has a value at every turn.                            *)

Choosing(f, names, S, n) ==
    f = [k \in 0..n |-> IF k = 0 THEN <<>>
                        ELSE IF names[k] \in S THEN Append(f[k - 1], names[k]) ELSE f[k - 1]]

LEMMA ChoosingExists ==
    ASSUME NEW names, NEW S, NEW n \in Nat
    PROVE  \E f : Choosing(f, names, S, n)
<1> DEFINE Bad == {m \in Nat : ~\E f : Choosing(f, names, S, m)}
<1>1. SUFFICES ASSUME Bad # {} PROVE FALSE
    OBVIOUS
<1>2. PICK m \in Bad : \A k \in Bad : m <= k
    BY <1>1, LeastNatural
<1>3. m # 0
  <2> DEFINE f == [k \in 0..0 |-> <<>>]
  <2>1. f = [k \in 0..0 |-> IF k = 0 THEN <<>>
                ELSE IF names[k] \in S THEN Append(f[k - 1], names[k]) ELSE f[k - 1]]
      OBVIOUS
  <2>2. Choosing(f, names, S, 0)
      BY <2>1 DEF Choosing
  <2> QED
      BY <2>2
<1>4. m - 1 \in Nat /\ m - 1 \notin Bad
    BY <1>2, <1>3
<1>5. PICK f : Choosing(f, names, S, m - 1)
    BY <1>4
<1> DEFINE top == IF names[m] \in S THEN Append(f[m - 1], names[m]) ELSE f[m - 1]
           e == [k \in 0..m |-> IF k = m THEN top ELSE f[k]]
<1>6. ASSUME NEW k \in 0..m
      PROVE  e[k] = IF k = 0 THEN <<>>
                    ELSE IF names[k] \in S THEN Append(e[k - 1], names[k]) ELSE e[k - 1]
  <2>1. CASE k = m
    <3>1. e[k] = top /\ e[k - 1] = f[m - 1]
        BY <1>3, <2>1
    <3> HIDE DEF e
    <3> QED
        BY <1>3, <2>1, <3>1
  <2>2. CASE k # m
    <3>1. k \in 0..(m - 1) /\ (k # 0 => k - 1 \in 0..m /\ k - 1 # m)
        BY <2>2
    <3>2. f[k] = IF k = 0 THEN <<>>
                 ELSE IF names[k] \in S THEN Append(f[k - 1], names[k]) ELSE f[k - 1]
        BY <1>5, <3>1 DEF Choosing
    <3>3. e[k] = f[k] /\ (k # 0 => e[k - 1] = f[k - 1])
        BY <2>2, <3>1
    <3> HIDE DEF e
    <3> QED
        BY <3>2, <3>3
  <2> QED
      BY <2>1, <2>2
<1>7. e = [k \in 0..m |-> IF k = 0 THEN <<>>
              ELSE IF names[k] \in S THEN Append(e[k - 1], names[k]) ELSE e[k - 1]]
    BY <1>6
<1>8. Choosing(e, names, S, m)
    BY <1>7 DEF Choosing
<1> QED
    BY <1>8

\* The names chosen are a list of members of the set.
LEMMA ChosenAreMembers ==
    ASSUME NEW names, NEW S, Len(names) \in Nat
    PROVE  Chosen(names, S) \in Seq(S)
<1> DEFINE f == CHOOSE f : Choosing(f, names, S, Len(names))
<1>1. Chosen(names, S) = f[Len(names)]
    BY DEF Chosen, Choosing
<1>2. Choosing(f, names, S, Len(names))
    BY ChoosingExists
<1> HIDE DEF f
<1> DEFINE Bad == {m \in 0..Len(names) : f[m] \notin Seq(S)}
<1>3. SUFFICES ASSUME Bad # {} PROVE FALSE
    BY <1>1
<1>4. PICK m \in Bad : \A k \in Bad : m <= k
    BY <1>3, LeastNatural, Bad \in SUBSET Nat
<1>5. m # 0
    BY <1>2 DEF Choosing
<1>6. m - 1 \in 0..Len(names) /\ m - 1 \notin Bad
    BY <1>4, <1>5
<1>7. f[m] = IF names[m] \in S THEN Append(f[m - 1], names[m]) ELSE f[m - 1]
    BY <1>2, <1>5 DEF Choosing
<1>8. PICK p \in Seq(S) : p = f[m - 1]
    BY <1>6
<1>9. f[m] \in Seq(S)
    BY <1>7, <1>8
<1> QED
    BY <1>4, <1>9

\* The nodes of a recipe that come of the functions in S.
Nodes(S) == [fn : S, op : DOMAIN Family]

Admitting(f, nodes, n, ops, m) ==
    f = [k \in 0..m |-> IF k = 0 THEN nodes
                        ELSE Admit(f[k - 1], [fn |-> n, op |-> ops[k]])]

LEMMA AdmittingExists ==
    ASSUME NEW nodes, NEW n, NEW ops, NEW last \in Nat
    PROVE  \E f : Admitting(f, nodes, n, ops, last)
<1> DEFINE Bad == {m \in Nat : ~\E f : Admitting(f, nodes, n, ops, m)}
<1>1. SUFFICES ASSUME Bad # {} PROVE FALSE
    OBVIOUS
<1>2. PICK m \in Bad : \A k \in Bad : m <= k
    BY <1>1, LeastNatural
<1>3. m # 0
  <2> DEFINE f == [k \in 0..0 |-> nodes]
  <2>1. f = [k \in 0..0 |-> IF k = 0 THEN nodes ELSE Admit(f[k - 1], [fn |-> n, op |-> ops[k]])]
      OBVIOUS
  <2>2. Admitting(f, nodes, n, ops, 0)
      BY <2>1 DEF Admitting
  <2> QED
      BY <2>2
<1>4. m - 1 \in Nat /\ m - 1 \notin Bad
    BY <1>2, <1>3
<1>5. PICK f : Admitting(f, nodes, n, ops, m - 1)
    BY <1>4
<1> DEFINE top == Admit(f[m - 1], [fn |-> n, op |-> ops[m]])
           e == [k \in 0..m |-> IF k = m THEN top ELSE f[k]]
<1>6. ASSUME NEW k \in 0..m
      PROVE  e[k] = IF k = 0 THEN nodes ELSE Admit(e[k - 1], [fn |-> n, op |-> ops[k]])
  <2>1. CASE k = m
    <3>1. e[k] = top /\ e[k - 1] = f[m - 1]
        BY <1>3, <2>1
    <3> HIDE DEF e
    <3> QED
        BY <1>3, <2>1, <3>1
  <2>2. CASE k # m
    <3>1. k \in 0..(m - 1) /\ (k # 0 => k - 1 \in 0..m /\ k - 1 # m)
        BY <2>2
    <3>2. f[k] = IF k = 0 THEN nodes ELSE Admit(f[k - 1], [fn |-> n, op |-> ops[k]])
        BY <1>5, <3>1 DEF Admitting
    <3>3. e[k] = f[k] /\ (k # 0 => e[k - 1] = f[k - 1])
        BY <2>2, <3>1
    <3> HIDE DEF e
    <3> QED
        BY <3>2, <3>3
  <2> QED
      BY <2>1, <2>2
<1>7. e = [k \in 0..m |-> IF k = 0 THEN nodes ELSE Admit(e[k - 1], [fn |-> n, op |-> ops[k]])]
    BY <1>6
<1>8. Admitting(e, nodes, n, ops, m)
    BY <1>7 DEF Admitting
<1> QED
    BY <1>8

\* Operations of a member of S are added to nodes that come of members of S.
LEMMA AdmittedAreNodes ==
    ASSUME NEW S, NEW nodes \in Seq(Nodes(S)), NEW n \in S, NEW ops \in Seq(DOMAIN Family)
    PROVE  AdmitAll(nodes, n, ops) \in Seq(Nodes(S))
<1> DEFINE f == CHOOSE f : Admitting(f, nodes, n, ops, Len(ops))
<1>1. AdmitAll(nodes, n, ops) = f[Len(ops)]
    BY DEF AdmitAll, Admitting
<1>0. Len(ops) \in Nat /\ DOMAIN ops = 1..Len(ops) /\ \A m \in DOMAIN ops : ops[m] \in DOMAIN Family
    OBVIOUS
<1>2. Admitting(f, nodes, n, ops, Len(ops))
    BY <1>0, AdmittingExists
<1> HIDE DEF f
<1> DEFINE Bad == {m \in 0..Len(ops) : f[m] \notin Seq(Nodes(S))}
<1>3. SUFFICES ASSUME Bad # {} PROVE FALSE
    BY <1>0, <1>1
<1>4. PICK m \in Bad : \A k \in Bad : m <= k
    BY <1>3, LeastNatural, Bad \in SUBSET Nat
<1>5. m # 0
    BY <1>2 DEF Admitting
<1>6. m - 1 \in 0..Len(ops) /\ m - 1 \notin Bad /\ m \in DOMAIN ops
    BY <1>0, <1>4, <1>5
<1>7. f[m] = Admit(f[m - 1], [fn |-> n, op |-> ops[m]])
    BY <1>2, <1>5 DEF Admitting
<1>8. PICK p, x, o : p = f[m - 1] /\ x = ops[m] /\ o = [fn |-> n, op |-> x]
    OBVIOUS
<1>9. p \in Seq(Nodes(S)) /\ x \in DOMAIN Family
    BY <1>0, <1>6, <1>8
<1>10. o \in Nodes(S)
    BY <1>8, <1>9 DEF Nodes
<1>11. Admit(p, o) \in Seq(Nodes(S))
  <2>1. Append(p, o) \in Seq(Nodes(S))
      BY <1>9, <1>10
  <2> QED
      BY <1>9, <2>1 DEF Admit
<1> QED
    BY <1>4, <1>7, <1>8, <1>11

Growing(f, c, names, m) ==
    f = [k \in 0..m |-> IF k = 0 THEN <<>>
                        ELSE AdmitAll(f[k - 1], names[k], First(c, names[k]).ops)]

LEMMA GrowingExists ==
    ASSUME NEW c, NEW names, NEW last \in Nat
    PROVE  \E f : Growing(f, c, names, last)
<1> DEFINE Bad == {m \in Nat : ~\E f : Growing(f, c, names, m)}
<1>1. SUFFICES ASSUME Bad # {} PROVE FALSE
    OBVIOUS
<1>2. PICK m \in Bad : \A k \in Bad : m <= k
    BY <1>1, LeastNatural
<1>3. m # 0
  <2> DEFINE f == [k \in 0..0 |-> <<>>]
  <2>1. f = [k \in 0..0 |-> IF k = 0 THEN <<>>
                            ELSE AdmitAll(f[k - 1], names[k], First(c, names[k]).ops)]
      OBVIOUS
  <2>2. Growing(f, c, names, 0)
      BY <2>1 DEF Growing
  <2> QED
      BY <2>2
<1>4. m - 1 \in Nat /\ m - 1 \notin Bad
    BY <1>2, <1>3
<1>5. PICK f : Growing(f, c, names, m - 1)
    BY <1>4
<1> DEFINE top == AdmitAll(f[m - 1], names[m], First(c, names[m]).ops)
           e == [k \in 0..m |-> IF k = m THEN top ELSE f[k]]
<1>6. ASSUME NEW k \in 0..m
      PROVE  e[k] = IF k = 0 THEN <<>> ELSE AdmitAll(e[k - 1], names[k], First(c, names[k]).ops)
  <2>1. CASE k = m
    <3>1. e[k] = top /\ e[k - 1] = f[m - 1]
        BY <1>3, <2>1
    <3> HIDE DEF e
    <3> QED
        BY <1>3, <2>1, <3>1
  <2>2. CASE k # m
    <3>1. k \in 0..(m - 1) /\ (k # 0 => k - 1 \in 0..m /\ k - 1 # m)
        BY <2>2
    <3>2. f[k] = IF k = 0 THEN <<>> ELSE AdmitAll(f[k - 1], names[k], First(c, names[k]).ops)
        BY <1>5, <3>1 DEF Growing
    <3>3. e[k] = f[k] /\ (k # 0 => e[k - 1] = f[k - 1])
        BY <2>2, <3>1
    <3> HIDE DEF e
    <3> QED
        BY <3>2, <3>3
  <2> QED
      BY <2>1, <2>2
<1>7. e = [k \in 0..m |-> IF k = 0 THEN <<>>
                          ELSE AdmitAll(e[k - 1], names[k], First(c, names[k]).ops)]
    BY <1>6
<1>8. Growing(e, c, names, m)
    BY <1>7 DEF Growing
<1> QED
    BY <1>8

\* A name of a text stands for one of its functions.
LEMMA FirstIsFunction ==
    ASSUME NEW c, c.fns \in Seq(Function), NEW n \in Named(c)
    PROVE  First(c, n).ops \in Seq(DOMAIN Family)
<1> DEFINE At == {i \in DOMAIN c.fns : c.fns[i].name = n}
<1>1. At # {} /\ At \in SUBSET Nat
    BY DEF Named
<1>2. PICK i \in At : \A j \in At : i <= j
    BY <1>1, LeastNatural
<1>3. \A j \in 1 .. i - 1 : c.fns[j].name # n
  <2>1. \A j \in 1 .. i - 1 : j \in DOMAIN c.fns /\ ~(i <= j)
      BY <1>1
  <2> QED
      BY <1>2, <2>1
<1> DEFINE k == CHOOSE i_1 \in DOMAIN c.fns :
                    c.fns[i_1].name = n /\ \A j \in 1 .. i_1 - 1 : c.fns[j].name # n
<1>4. k \in DOMAIN c.fns
    BY <1>2, <1>3
<1>5. First(c, n) = c.fns[k]
    BY DEF First
<1> HIDE DEF k
<1>6. c.fns[k] \in Function
    BY <1>4
<1> QED
    BY <1>5, <1>6 DEF Function

\* The nodes of a recipe come of the functions translated.
LEMMA BodyIsOfNames ==
    ASSUME NEW c, c.fns \in Seq(Function), NEW S, S \subseteq Named(c), NEW names \in Seq(S)
    PROVE  RecipeBody(c, names) \in Seq(Nodes({names[k] : k \in DOMAIN names}))
<1> DEFINE T == {names[k] : k \in DOMAIN names}
           f == CHOOSE f : Growing(f, c, names, Len(names))
<1>0. DOMAIN names = 1..Len(names) /\ Len(names) \in Nat /\ \A k \in DOMAIN names : names[k] \in S
    OBVIOUS
<1>1. RecipeBody(c, names) = f[Len(names)]
    BY DEF RecipeBody, Growing
<1>2. Growing(f, c, names, Len(names))
    BY <1>0, GrowingExists
<1> HIDE DEF f
<1>12. \A k \in DOMAIN names : names[k] \in T
    OBVIOUS
<1> SUFFICES RecipeBody(c, names) \in Seq(Nodes(T))
    OBVIOUS
<1> HIDE DEF T
<1> DEFINE Bad == {m \in 0..Len(names) : f[m] \notin Seq(Nodes(T))}
<1>3. SUFFICES ASSUME Bad # {} PROVE FALSE
    BY <1>0, <1>1
<1>4. PICK m \in Bad : \A k \in Bad : m <= k
    BY <1>3, LeastNatural, Bad \in SUBSET Nat
<1>5. m # 0
    BY <1>2 DEF Growing
<1>6. m - 1 \in 0..Len(names) /\ m - 1 \notin Bad /\ m \in DOMAIN names
    BY <1>0, <1>4, <1>5
<1>7. f[m] = AdmitAll(f[m - 1], names[m], First(c, names[m]).ops)
    BY <1>2, <1>5 DEF Growing
<1>8. PICK p, n, ops : p = f[m - 1] /\ n = names[m] /\ ops = First(c, n).ops
    OBVIOUS
<1>9. n \in Named(c) /\ n \in T /\ p \in Seq(Nodes(T))
    BY <1>0, <1>6, <1>8, <1>12
<1>10. ops \in Seq(DOMAIN Family)
    BY <1>8, <1>9, FirstIsFunction
<1>11. AdmitAll(p, n, ops) \in Seq(Nodes(T))
    BY <1>9, <1>10, AdmittedAreNodes
<1> QED
    BY <1>4, <1>7, <1>8, <1>11

(* A run.  Whatever the file holds by then, the functions of the recipe at   *)
(* work were not cold when the run looked, and each is verified, rejected or *)
(* still to be verified; the first rejection takes the recipe off the disk,  *)
(* and none of a source comes back before the run is over.                   *)

TextsAreVersions ==
    /\ text \in [SourceFiles -> UNION {Versions[f] : f \in SourceFiles}]
    /\ \A f \in SourceFiles : text[f] \in Versions[f]

NoSource(f) == \A r \in DOMAIN recipes : r = Base[f] => recipes[r].of # "source"

BodyIsJudged ==
    /\ \E S : run.todo \in Seq(S)
    /\ \A i \in DOMAIN run.body :
         /\ run.body[i].fn \notin run.cold
         /\ run.body[i].fn \in ToSet(run.todo) \cup run.vetted \cup run.rejected

RunIsRight ==
    /\ run.phase \in {"route", "translate"} => run.file \in SourceFiles /\ run.request \in Requests
    /\ run.phase = "verify" => BodyIsJudged /\ (run.rejected # {} => NoSource(run.file))
    /\ run.phase = "aborted" => NoSource(run.file)

SourcesAreVetted ==
    \A r \in DOMAIN recipes :
        recipes[r].of = "source" =>
            \A i \in DOMAIN recipes[r].body :
                recipes[r].body[i].fn \in recipes[r].vetted \ recipes[r].cold

PipelineInv == TextsAreVersions /\ RunIsRight /\ SourcesAreVetted

LEMMA PipelineInitInv == PipelineInit => PipelineInv
<1> SUFFICES ASSUME PipelineInit PROVE PipelineInv
    OBVIOUS
<1>1. TextsAreVersions
    BY DEF PipelineInit, TextsAreVersions
<1>2. run.phase = "idle"
    BY DEF PipelineInit, Idle
<1>3. DOMAIN recipes = {}
    BY DEF PipelineInit
<1> QED
    BY <1>1, <1>2, <1>3 DEF PipelineInv, RunIsRight, SourcesAreVetted

\* A step that changes the run only, to a phase before the translation or to
\* none at all.
LEMMA EarlyInv ==
    ASSUME PipelineInv, UNCHANGED <<text, recipes>>,
           run'.phase \in {"route", "translate", "idle"},
           run'.phase # "idle" => run'.file \in SourceFiles /\ run'.request \in Requests
    PROVE  PipelineInv'
    BY DEF PipelineInv, TextsAreVersions, RunIsRight, SourcesAreVetted

LEMMA StartInv ==
    ASSUME PipelineInv, NEW f \in SourceFiles, NEW q \in Requests, NEW w, Start(f, q, w)
    PROVE  PipelineInv'
<1>1. /\ UNCHANGED <<text, recipes>>
      /\ run' = [phase |-> "route", file |-> f, request |-> q, write |-> w]
    BY DEF Start
<1>2. run'.phase = "route" /\ run'.file = f /\ run'.request = q
    BY <1>1
<1> QED
    BY <1>1, <1>2, EarlyInv

LEMMA RouteInv ==
    ASSUME PipelineInv, Route
    PROVE  PipelineInv'
<1>1. UNCHANGED <<text, recipes>> /\ run.phase = "route"
      /\ run' = [phase |-> "translate", file |-> run.file, request |-> run.request,
                 write |-> run.write, cold |-> ColdNames(text[run.file])]
    BY DEF Route
<1>2. run'.phase = "translate" /\ run'.file = run.file /\ run'.request = run.request
    BY <1>1
<1>3. run.file \in SourceFiles /\ run.request \in Requests
    BY <1>1 DEF PipelineInv, RunIsRight
<1> QED
    BY <1>1, <1>2, <1>3, EarlyInv

LEMMA TranslatableAreWarm ==
    ASSUME NEW c, c.fns \in Seq(Function), NEW q \in Requests, NEW cold
    PROVE  Translatable(c, q, cold) \in Seq(Named(c) \ cold)
<1> DEFINE S == {n \in Named(c) : n \notin cold /\ First(c, n).ops # <<>>}
           wanted == Wanted(c, q)
<1>1. Len(wanted) \in Nat
  <2>1. CASE c.lang # "py"
      BY <2>1 DEF Wanted
  <2>2. CASE c.lang = "py" /\ q = All
    <3>1. wanted = [i \in DOMAIN c.fns |-> c.fns[i].name]
        BY <2>2 DEF Wanted
    <3>2. wanted = [i \in 1..Len(c.fns) |-> c.fns[i].name] /\ Len(c.fns) \in Nat
        BY <3>1
    <3> HIDE DEF wanted
    <3> QED
        BY <3>2
  <2>3. CASE c.lang = "py" /\ q # All
      BY <2>3, PipelineAssumption DEF Wanted
  <2> QED
      BY <2>1, <2>2, <2>3
<1>2. Translatable(c, q, cold) = Chosen(wanted, S)
    BY DEF Translatable
<1> HIDE DEF wanted
<1>3. S \subseteq Named(c) \ cold
    OBVIOUS
<1> HIDE DEF S
<1>4. Chosen(wanted, S) \in Seq(S)
    BY <1>1, ChosenAreMembers
<1>5. PICK s : s = Chosen(wanted, S)
    OBVIOUS
<1>6. s \in Seq(Named(c) \ cold)
    BY <1>3, <1>4, <1>5
<1> QED
    BY <1>2, <1>5, <1>6

LEMMA TranslateInv ==
    ASSUME PipelineInv, NEW entropic, Translate(entropic)
    PROVE  PipelineInv'
<1> DEFINE names == Translatable(text[run.file], run.request, run.cold)
           body == RecipeBody(text[run.file], names)
<1>1. /\ run.phase = "translate" /\ UNCHANGED <<text, recipes>>
      /\ run' = IF names = <<>> \/ ~CheckEntropy(Blocks(body), entropic) THEN Idle
                ELSE [phase |-> "verify", file |-> run.file, write |-> run.write,
                      cold |-> run.cold, body |-> body, todo |-> names,
                      vetted |-> {}, rejected |-> {}]
    BY DEF Translate
<1>2. CASE run' = Idle
    BY <1>1, <1>2, EarlyInv DEF Idle
<1>3. CASE run' = [phase |-> "verify", file |-> run.file, write |-> run.write,
                   cold |-> run.cold, body |-> body, todo |-> names,
                   vetted |-> {}, rejected |-> {}]
  <2>1. PICK c, q, cold, nm, bd :
          /\ c = text[run.file] /\ q = run.request /\ cold = run.cold
          /\ nm = names /\ bd = body
      OBVIOUS
  <2>2. c.fns \in Seq(Function) /\ q \in Requests
      BY <1>1, <2>1, PipelineAssumption DEF PipelineInv, TextsAreVersions, RunIsRight
  <2>3. nm = Translatable(c, q, cold) /\ bd = RecipeBody(c, nm)
      BY <2>1
  <2> HIDE DEF names, body
  <2>4. nm \in Seq(Named(c) \ cold)
      BY <2>2, <2>3, TranslatableAreWarm
  <2>5. bd \in Seq(Nodes({nm[k] : k \in DOMAIN nm}))
    <3>1. PICK S : S = Named(c) \ cold
        OBVIOUS
    <3>2. S \subseteq Named(c) /\ nm \in Seq(S)
        BY <2>4, <3>1
    <3> QED
        BY <2>2, <2>3, <3>2, BodyIsOfNames
  <2>6. \A i \in DOMAIN bd : bd[i].fn \in ToSet(nm) /\ bd[i].fn \notin cold
    <3>1. \A i \in DOMAIN bd : bd[i] \in Nodes({nm[k] : k \in DOMAIN nm})
        BY <2>5
    <3>2. \A i \in DOMAIN bd : bd[i].fn \in {nm[k] : k \in DOMAIN nm}
        BY <3>1 DEF Nodes
    <3>3. \A k \in DOMAIN nm : nm[k] \notin cold
        BY <2>4
    <3> QED
        BY <3>2, <3>3 DEF ToSet
  <2>7. /\ run'.phase = "verify" /\ run'.todo = nm /\ run'.body = bd /\ run'.cold = cold
        /\ run'.rejected = {}
      BY <1>3, <2>1
  <2>8. BodyIsJudged'
      BY <2>4, <2>6, <2>7 DEF BodyIsJudged
  <2> QED
      BY <1>1, <2>7, <2>8 DEF PipelineInv, TextsAreVersions, RunIsRight, SourcesAreVetted
<1> QED
    BY <1>1, <1>2, <1>3

LEMMA HeadThenTail ==
    ASSUME NEW S, NEW s \in Seq(S), s # <<>>
    PROVE  Tail(s) \in Seq(S) /\ ToSet(s) = {Head(s)} \cup ToSet(Tail(s))
<1>1. PICK n \in Nat : n = Len(s)
    OBVIOUS
<1>2. n # 0 /\ DOMAIN s = 1..n /\ Head(s) = s[1]
    BY <1>1
<1>3. /\ Tail(s) \in Seq(S) /\ DOMAIN Tail(s) = 1..(n - 1)
      /\ \A i \in 1..(n - 1) : Tail(s)[i] = s[i + 1]
    BY <1>1, <1>2
<1> DEFINE t == Tail(s)
<1> HIDE DEF t
<1>4. ToSet(s) = {s[1]} \cup ToSet(t)
  <2>1. \A i \in 1..n : i = 1 \/ i - 1 \in 1..(n - 1)
      OBVIOUS
  <2>2. ASSUME NEW x \in ToSet(s)
        PROVE  x = s[1] \/ x \in ToSet(t)
    <3>1. PICK i \in 1..n : x = s[i]
        BY <1>2 DEF ToSet
    <3>2. CASE i # 1
      <4>1. i - 1 \in DOMAIN t /\ t[i - 1] = s[i]
          BY <1>3, <2>1, <3>2 DEF t
      <4> QED
          BY <3>1, <4>1 DEF ToSet
    <3> QED
        BY <3>1, <3>2
  <2>3. ASSUME NEW x \in ToSet(t)
        PROVE  x \in ToSet(s)
    <3>1. PICK i \in 1..(n - 1) : x = t[i]
        BY <1>3 DEF ToSet, t
    <3>2. x = s[i + 1] /\ i + 1 \in DOMAIN s
        BY <1>2, <1>3, <3>1 DEF t
    <3> QED
        BY <3>2 DEF ToSet
  <2>4. s[1] \in ToSet(s)
      BY <1>2 DEF ToSet
  <2> QED
      BY <2>2, <2>3, <2>4
<1> QED
    BY <1>2, <1>3, <1>4 DEF t

LEMMA VerifyTranslationInv ==
    ASSUME PipelineInv, NEW first, NEW second, NEW compiles,
           VerifyTranslation(first, second, compiles)
    PROVE  PipelineInv'
<1> DEFINE n == Head(run.todo)
<1>1. run.phase = "verify" /\ run.todo # <<>> /\ UNCHANGED text
    BY DEF VerifyTranslation
<1>2. \/ run' = Verified({n}, {}) /\ UNCHANGED recipes
      \/ run' = Verified({}, {n}) /\ recipes' = Rollback(run.file, n)
    BY DEF VerifyTranslation
<1>3. PICK good, bad :
        /\ run' = Verified(good, bad)
        /\ good \cup bad = {n}
        /\ bad = {} => UNCHANGED recipes
        /\ bad # {} => recipes' = Rollback(run.file, n)
  <2>1. CASE run' = Verified({n}, {}) /\ UNCHANGED recipes
    <3>1. {n} \cup {} = {n} /\ {} = {}
        OBVIOUS
    <3> QED
        BY <2>1, <3>1
  <2>2. CASE run' = Verified({}, {n}) /\ recipes' = Rollback(run.file, n)
    <3>1. {} \cup {n} = {n} /\ {n} # {}
        OBVIOUS
    <3> QED
        BY <2>2, <3>1
  <2> QED
      BY <1>2, <2>1, <2>2
<1>4. /\ run'.phase = "verify" /\ run'.file = run.file /\ run'.cold = run.cold
      /\ run'.body = run.body /\ run'.todo = Tail(run.todo)
      /\ run'.vetted = run.vetted \cup good /\ run'.rejected = run.rejected \cup bad
    BY <1>3 DEF Verified
<1>5. PICK S, s : s = run.todo /\ s \in Seq(S)
    BY <1>1 DEF PipelineInv, RunIsRight, BodyIsJudged
<1>6. Tail(s) \in Seq(S) /\ ToSet(s) = {n} \cup ToSet(Tail(s))
    BY <1>1, <1>5, HeadThenTail
<1> HIDE DEF n
<1>7. BodyIsJudged'
  <2>1. \A i \in DOMAIN run.body :
          /\ run.body[i].fn \notin run.cold
          /\ run.body[i].fn \in ToSet(s) \cup run.vetted \cup run.rejected
      BY <1>1, <1>5 DEF PipelineInv, RunIsRight, BodyIsJudged
  <2>2. run'.todo \in Seq(S)
      BY <1>4, <1>5, <1>6
  <2>3. ToSet(run'.todo) = ToSet(Tail(s))
      BY <1>4, <1>5
  <2>4. \A i \in DOMAIN run.body :
          run.body[i].fn \in ToSet(Tail(s)) \cup (run.vetted \cup good) \cup (run.rejected \cup bad)
      BY <1>3, <1>6, <2>1
  <2> QED
      BY <1>4, <2>1, <2>2, <2>3, <2>4 DEF BodyIsJudged
<1>8. CASE bad = {}
  <2>1. UNCHANGED recipes /\ run'.rejected = run.rejected
      BY <1>3, <1>4, <1>8
  <2> QED
      BY <1>1, <1>4, <1>7, <2>1
         DEF PipelineInv, TextsAreVersions, RunIsRight, SourcesAreVetted, NoSource
<1>9. CASE bad # {}
  <2>1. /\ DOMAIN recipes' = DOMAIN recipes \ {Base[run.file]}
        /\ \A r \in DOMAIN recipes' : recipes'[r] = recipes[r]
      BY <1>3, <1>9 DEF Rollback
  <2>2. NoSource(run.file)'
      BY <1>4, <2>1 DEF NoSource
  <2> QED
      BY <1>1, <1>4, <1>7, <2>1, <2>2
         DEF PipelineInv, TextsAreVersions, RunIsRight, SourcesAreVetted
<1> QED
    BY <1>8, <1>9

LEMMA FinishInv ==
    ASSUME PipelineInv, Finish
    PROVE  PipelineInv'
<1>1. /\ run.phase = "verify" /\ run.todo = <<>> /\ UNCHANGED text
      /\ run' = IF run.rejected = {} THEN Idle ELSE [phase |-> "aborted", file |-> run.file]
    BY DEF Finish
<1>2. TextsAreVersions'
    BY <1>1 DEF PipelineInv, TextsAreVersions
<1>3. \A i \in DOMAIN run.body :
        /\ run.body[i].fn \notin run.cold
        /\ run.body[i].fn \in run.vetted \cup run.rejected
  <2>1. ToSet(run.todo) = {}
      BY <1>1 DEF ToSet
  <2> QED
      BY <1>1, <2>1 DEF PipelineInv, RunIsRight, BodyIsJudged
<1>4. CASE run.rejected # {}
  <2>1. UNCHANGED recipes /\ run' = [phase |-> "aborted", file |-> run.file]
      BY <1>1, <1>4 DEF Finish, MayWrite
  <2>2. run'.phase = "aborted" /\ run'.file = run.file
      BY <2>1
  <2>3. RunIsRight'
      BY <1>1, <1>4, <2>1, <2>2 DEF PipelineInv, RunIsRight, NoSource
  <2> QED
      BY <1>2, <2>1, <2>3 DEF PipelineInv, SourcesAreVetted
<1>5. CASE run.rejected = {}
  <2>1. RunIsRight'
    <3>1. run'.phase = "idle"
        BY <1>1, <1>5 DEF Idle
    <3> QED
        BY <3>1 DEF RunIsRight
  <2>2. SourcesAreVetted'
    <3>1. CASE UNCHANGED recipes
        BY <3>1 DEF PipelineInv, SourcesAreVetted
    <3>2. CASE recipes' = [r \in DOMAIN recipes \cup {Base[run.file]} |->
                              IF r # Base[run.file] THEN recipes[r]
                              ELSE [of |-> "source", file |-> run.file, body |-> run.body,
                                    vetted |-> run.vetted, cold |-> run.cold]]
      <4>1. PICK new : new = [of |-> "source", file |-> run.file, body |-> run.body,
                              vetted |-> run.vetted, cold |-> run.cold]
          OBVIOUS
      <4>2. \A i \in DOMAIN new.body : new.body[i].fn \in new.vetted \ new.cold
          BY <1>3, <1>5, <4>1
      <4>3. \A r \in DOMAIN recipes' :
              \/ r \in DOMAIN recipes /\ recipes'[r] = recipes[r]
              \/ recipes'[r] = new
          BY <3>2, <4>1
      <4> QED
          BY <4>2, <4>3 DEF PipelineInv, SourcesAreVetted
    <3> QED
        BY <3>1, <3>2 DEF Finish
  <2> QED
      BY <1>2, <2>1, <2>2 DEF PipelineInv
<1> QED
    BY <1>4, <1>5

\* A telemetry recipe may take the place of a recipe of a source, never the
\* other way round.
LEMMA RunHotPipelineInv ==
    ASSUME PipelineInv, NEW scan, RunHotPipeline(scan)
    PROVE  PipelineInv'
<1> DEFINE hot == {HotName[k] : k \in IdentifyHotpaths(scan)}
<1>1. UNCHANGED <<text, run>>
    BY DEF RunHotPipeline
<1>2. \A k : HotpathRecipe(scan, k).of = "telemetry"
    BY DEF HotpathRecipe
<1>3. \A r \in DOMAIN recipes' :
        \/ r \in DOMAIN recipes /\ recipes'[r] = recipes[r]
        \/ recipes'[r].of = "telemetry"
    BY <1>2 DEF RunHotPipeline
<1>4. SourcesAreVetted'
    BY <1>3 DEF PipelineInv, SourcesAreVetted
<1>5. \A f : NoSource(f) => NoSource(f)'
    BY <1>3 DEF NoSource
<1>6. RunIsRight'
  <2>1. BodyIsJudged => BodyIsJudged'
      BY <1>1 DEF BodyIsJudged
  <2> QED
      BY <1>1, <1>5, <2>1 DEF PipelineInv, RunIsRight
<1> QED
    BY <1>1, <1>4, <1>6 DEF PipelineInv, TextsAreVersions

\* The other steps leave the recipes and the run, or end the run.
LEMMA QuietInv ==
    ASSUME PipelineInv, UNCHANGED <<recipes, run>>, TextsAreVersions'
    PROVE  PipelineInv'
<1>1. RunIsRight'
    BY DEF PipelineInv, RunIsRight, BodyIsJudged, NoSource
<1> QED
    BY <1>1 DEF PipelineInv, SourcesAreVetted

LEMMA EditInv ==
    ASSUME PipelineInv, NEW f \in SourceFiles, NEW c \in Versions[f], Edit(f, c)
    PROVE  PipelineInv'
<1>1. UNCHANGED <<recipes, run>> /\ text' = [text EXCEPT ![f] = c]
    BY DEF Edit
<1>2. TextsAreVersions'
    BY <1>1 DEF PipelineInv, TextsAreVersions
<1> QED
    BY <1>1, <1>2, QuietInv

\* For every set of files, texts and requests, with edits between any two phases
\* of a run, kills and namesakes: a recipe of a source on the disk holds only
\* functions that the run which wrote it verified or had no inputs for, and
\* none that it had routed around; a run that rejected a function leaves no
\* recipe of that name (run_translation_pipeline, apply_rollback).
THEOREM RecipesStayVetted == TranslationSpec => []RecipesAreVetted
<1>1. PipelineInv /\ [TranslationNext]_pipelineVars => PipelineInv'
  <2> SUFFICES ASSUME PipelineInv, [TranslationNext]_pipelineVars PROVE PipelineInv'
      OBVIOUS
  <2>1. CASE PipelineNext
    <3>1. CASE Report \/ KillRun
      <4>1. UNCHANGED <<text, recipes>> /\ run'.phase = "idle"
          BY <3>1 DEF Report, KillRun, Idle
      <4> QED
          BY <4>1, EarlyInv
    <3> QED
        BY <2>1, <3>1, StartInv, RouteInv, TranslateInv, VerifyTranslationInv, FinishInv,
           RunHotPipelineInv DEF PipelineNext
  <2>2. CASE MeshNext
    <3>1. UNCHANGED <<text, recipes, run>>
        BY <2>2 DEF MeshNext, EvolveWithTranslation
    <3> QED
        BY <3>1, QuietInv DEF PipelineInv, TextsAreVersions
  <2>3. CASE EditNext
      BY <2>3, EditInv DEF EditNext
  <2>4. CASE UNCHANGED pipelineVars
      BY <2>4, QuietInv DEF pipelineVars, PipelineInv, TextsAreVersions
  <2> QED
      BY <2>1, <2>2, <2>3, <2>4 DEF TranslationNext
<1>2. PipelineInv => RecipesAreVetted
    BY DEF PipelineInv, RunIsRight, NoSource, SourcesAreVetted, RecipesAreVetted,
           RejectionLeavesNoRecipe
<1> QED
    BY <1>1, <1>2, PipelineInitInv, PTL DEF TranslationSpec

-----------------------------------------------------------------------------
(* The overlay of a generated file: its patches, rebuilds, merges and      *)
(* commits.                                                                *)

Hunks(L) == [pre : Seq(L), post : Seq(L), at : Nat]

LEMMA FoundBlock ==
    ASSUME NEW L, NEW t \in Seq(L), NEW needle \in Seq(L), NEW start \in 1..(Len(t) + 1),
           NEW i, i = FindBlock(t, needle, start), i # 0
    PROVE  /\ i \in Nat /\ i >= 1 /\ i + Len(needle) <= Len(t) + 1
           /\ \A k \in i..(i + Len(needle) - 1) : t[k] \in ToSet(needle)
<1>1. CASE needle = << >>
    BY <1>1 DEF FindBlock
<1>2. CASE needle # << >>
  <2> DEFINE later == {p \in Places(needle, t) : p >= start}
  <2>1. Places(needle, t) \in SUBSET Nat /\ later \in SUBSET Nat
      BY DEF Places
  <2>2. \A S \in SUBSET Nat : S # {} => Min(S) \in S
    <3> TAKE S \in SUBSET Nat
    <3> HAVE S # {}
    <3>1. \E x \in S : \A y \in S : x <= y
        BY LeastNatural
    <3> QED
        BY <3>1 DEF Min
  <2>3. i \in Places(needle, t)
    <3>1. Places(needle, t) # {}
        BY <1>2 DEF FindBlock
    <3>2. i = IF later # {} THEN Min(later) ELSE Min(Places(needle, t))
        BY <1>2, <3>1 DEF FindBlock
    <3>3. later # {} => Min(later) \in later
        BY <2>1, <2>2
    <3>4. Min(Places(needle, t)) \in Places(needle, t)
        BY <2>1, <2>2, <3>1
    <3> QED
        BY <3>2, <3>3, <3>4
  <2>4. i \in 1..Len(t) - Len(needle) + 1 /\ SubSeq(t, i, i + Len(needle) - 1) = needle
      BY <2>3 DEF Places
  <2>5. ASSUME NEW k \in i..(i + Len(needle) - 1) PROVE t[k] \in ToSet(needle)
    <3>1. k - i + 1 \in DOMAIN needle
        BY <2>4, <2>5
    <3>2. PICK n \in Nat : n = Len(needle)
        OBVIOUS
    <3>3. i \in Nat /\ i >= 1 /\ i + n - 1 <= Len(t) /\ k \in i..i + n - 1
        BY <2>4, <2>5, <3>2
    <3>4. PICK l \in Int, m \in Int : l = i + n - 1 /\ m = i
        BY <3>3
    <3>5. \A j \in m..l : t[j] \in L
        BY <3>3, <3>4
    <3>6. \A j \in 1..(l - m + 1) : SubSeq(t, m, l)[j] = t[m + j - 1]
        BY <3>5, SubSeqProperties
    <3>7. k - i + 1 \in 1..(l - m + 1) /\ m + (k - i + 1) - 1 = k
        BY <3>2, <3>3, <3>4
    <3>8. needle[k - i + 1] = t[k]
        BY <2>4, <3>2, <3>4, <3>6, <3>7
    <3> QED
        BY <3>1, <3>8 DEF ToSet
  <2> QED
      BY <2>4, <2>5
<1> QED
    BY <1>1, <1>2

Lines(t, m, n) == {t[k] : k \in m..n}
IsPart(p, t, m, n, L) == p \in Seq(L) /\ Len(p) = n + 1 - m /\ ToSet(p) = Lines(t, m, n)

LEMMA PartOf ==
    ASSUME NEW L, NEW t \in Seq(L), NEW m \in Nat, NEW n \in Nat, m >= 1, m <= n + 1, n <= Len(t),
           NEW p, p = SubSeq(t, m, n)
    PROVE  IsPart(p, t, m, n, L)
<1>1. Len(t) \in Nat /\ \A k \in m..n : t[k] \in L
    OBVIOUS
<1>2. /\ SubSeq(t, m, n) \in Seq(L)
      /\ Len(SubSeq(t, m, n)) = IF m <= n THEN n - m + 1 ELSE 0
      /\ \A k \in 1..(n - m + 1) : SubSeq(t, m, n)[k] = t[m + k - 1]
    BY <1>1, SubSeqProperties
<1>3. p \in Seq(L) /\ Len(p) = n + 1 - m /\ \A k \in 1..(n + 1 - m) : p[k] = t[m + k - 1]
    BY <1>2
<1>4. DOMAIN p = 1..(n + 1 - m)
    BY <1>3
<1>5. ASSUME NEW k \in m..n PROVE t[k] \in ToSet(p)
  <2>1. k + 1 - m \in 1..(n + 1 - m) /\ m + (k + 1 - m) - 1 = k
      OBVIOUS
  <2> QED
      BY <1>3, <1>4, <2>1 DEF ToSet
<1>6. ASSUME NEW k \in 1..(n + 1 - m) PROVE p[k] \in Lines(t, m, n)
  <2>1. m + k - 1 \in m..n
      OBVIOUS
  <2> QED
      BY <1>3, <2>1 DEF Lines
<1>7. ToSet(p) = {p[k] : k \in 1..(n + 1 - m)}
    BY <1>4 DEF ToSet
<1>8. ToSet(p) = Lines(t, m, n)
    BY <1>5, <1>6, <1>7 DEF Lines
<1> QED
    BY <1>3, <1>8 DEF IsPart

\* r is t with post in the place of the n lines from i on.
IsSpliced(r, t, i, n, post, L) ==
    /\ r \in Seq(L) /\ i + Len(post) \in 1..(Len(r) + 1)
    /\ ToSet(r) = Lines(t, 1, i - 1) \cup ToSet(post) \cup Lines(t, i + n, Len(t))

LEMMA SplicedLines ==
    ASSUME NEW L, NEW t \in Seq(L), NEW post \in Seq(L), NEW i \in Nat, NEW n \in Nat,
           i >= 1, i + n <= Len(t) + 1,
           NEW r, r = SubSeq(t, 1, i - 1) \o post \o SubSeq(t, i + n, Len(t))
    PROVE  IsSpliced(r, t, i, n, post, L)
<1>1. PICK front, back, one, j, m, len :
        /\ front = SubSeq(t, one, j) /\ back = SubSeq(t, m, len)
        /\ one = 1 /\ j = i - 1 /\ m = i + n /\ len = Len(t)
    OBVIOUS
<1>2. /\ one \in Nat /\ j \in Nat /\ m \in Nat /\ len \in Nat
      /\ one >= 1 /\ one <= j + 1 /\ j <= Len(t)
      /\ m >= 1 /\ m <= len + 1 /\ len <= Len(t)
    BY <1>1
<1>3. IsPart(front, t, one, j, L)
    BY <1>1, <1>2, PartOf
<1>4. IsPart(back, t, m, len, L)
    BY <1>1, <1>2, PartOf
<1>5. front \in Seq(L) /\ back \in Seq(L) /\ Len(front) = j + 1 - one /\ Len(back) = len + 1 - m
    BY <1>3, <1>4 DEF IsPart
<1>6. PICK half : half = front \o post
    OBVIOUS
<1>7. half \in Seq(L) /\ ToSet(half) = ToSet(front) \cup ToSet(post)
    BY <1>5, <1>6, ToSetConcat
<1>8. Len(half) = Len(front) + Len(post)
    BY <1>5, <1>6, ConcatProperties
<1>9. PICK whole : whole = half \o back
    OBVIOUS
<1>10. r = whole
    BY <1>1, <1>6, <1>9
<1>11. whole \in Seq(L) /\ ToSet(whole) = ToSet(half) \cup ToSet(back)
    BY <1>5, <1>7, <1>9, ToSetConcat
<1>12. Len(whole) = Len(half) + Len(back)
    BY <1>5, <1>7, <1>9, ConcatProperties
<1>13. PICK pl, rl : pl = Len(post) /\ rl = Len(r)
    OBVIOUS
<1>14. pl \in Nat
    BY <1>13, LenProperties
<1>15. rl = j + pl + (len + 1 - m)
  <2>1. rl = (Len(front) + pl) + Len(back)
      BY <1>8, <1>10, <1>12, <1>13
  <2>2. Len(front) = j /\ Len(back) = len + 1 - m
      BY <1>1, <1>2, <1>5
  <2> QED
      BY <2>1, <2>2
<1>16. i + pl \in 1..(rl + 1)
  <2>1. i = j + 1 /\ j + pl \in Nat /\ len + 1 - m \in Nat
      BY <1>1, <1>2, <1>14
  <2> QED
      BY <1>2, <1>14, <1>15, <2>1
<1>17. ToSet(front) = Lines(t, one, j) /\ ToSet(back) = Lines(t, m, len)
    BY <1>3, <1>4 DEF IsPart
<1>18. ToSet(r) = Lines(t, 1, i - 1) \cup ToSet(post) \cup Lines(t, i + n, Len(t))
    BY <1>1, <1>7, <1>10, <1>11, <1>17
<1> QED
    BY <1>10, <1>11, <1>13, <1>16, <1>18 DEF IsSpliced

\* A text in the course of a patch.
Stages(L) == [text : Seq(L), from : Nat, conflict : BOOLEAN]
InRange(m) == m.from \in 1..(Len(m.text) + 1)

\* A hunk that is spliced takes no line away but those that it looks for.
KeepsOthers(m, h, s) ==
    /\ m.conflict => s.conflict
    /\ ~s.conflict => ToSet(h.post) \cup (ToSet(m.text) \ ToSet(h.pre)) \subseteq ToSet(s.text)
    /\ ToSet(s.text) \subseteq ToSet(m.text) \cup ToSet(h.post)

LEMMA SplicedKeeps ==
    ASSUME NEW L, NEW m \in Stages(L), InRange(m), NEW h \in Hunks(L),
           NEW s, s = Spliced(m, h)
    PROVE  s \in Stages(L) /\ InRange(s) /\ KeepsOthers(m, h, s)
<1>1. PICK t, pre, post, from : t = m.text /\ pre = h.pre /\ post = h.post /\ from = m.from
    OBVIOUS
<1>2. t \in Seq(L) /\ pre \in Seq(L) /\ post \in Seq(L) /\ from \in 1..(Len(t) + 1)
    BY <1>1 DEF Stages, Hunks, InRange
<1>3. PICK i : i = FindBlock(t, pre, from)
    OBVIOUS
<1>4. CASE i = 0
  <2>1. s = [text |-> t, from |-> from, conflict |-> TRUE]
      BY <1>1, <1>3, <1>4 DEF Spliced
  <2> QED
      BY <1>1, <1>2, <2>1 DEF Stages, InRange, KeepsOthers
<1>5. CASE i # 0
  <2>1. PICK r : r = SubSeq(t, 1, i - 1) \o post \o SubSeq(t, i + Len(pre), Len(t))
      OBVIOUS
  <2>2. s = [text |-> r, from |-> i + Len(post), conflict |-> m.conflict]
      BY <1>1, <1>3, <1>5, <2>1 DEF Spliced
  <2>3. /\ i \in Nat /\ i >= 1 /\ i + Len(pre) <= Len(t) + 1
        /\ \A k \in i..(i + Len(pre) - 1) : t[k] \in ToSet(pre)
      BY <1>2, <1>3, <1>5, FoundBlock
  <2>4. Len(pre) \in Nat
      BY <1>2
  <2>5. IsSpliced(r, t, i, Len(pre), post, L)
    <3>1. PICK n \in Nat : n = Len(pre)
        BY <2>4
    <3>2. i \in Nat /\ i >= 1 /\ i + n <= Len(t) + 1
        BY <2>3, <3>1
    <3>3. r = SubSeq(t, 1, i - 1) \o post \o SubSeq(t, i + n, Len(t))
        BY <2>1, <3>1
    <3>4. IsSpliced(r, t, i, n, post, L)
        BY <1>2, <3>2, <3>3, SplicedLines
    <3> QED
        BY <3>1, <3>4
  <2>6. ToSet(t) = {t[k] : k \in 1..Len(t)}
      BY <1>2 DEF ToSet
  <2>7. ToSet(t) \ ToSet(pre) \subseteq ToSet(r)
    <3>1. ASSUME NEW k \in 1..Len(t), t[k] \notin ToSet(pre) PROVE t[k] \in ToSet(r)
      <4>1. k \in 1..(i - 1) \/ k \in (i + Len(pre))..Len(t)
          BY <1>2, <2>3, <2>4, <3>1
      <4> QED
          BY <2>5, <4>1 DEF IsSpliced, Lines
    <3> QED
        BY <2>6, <3>1
  <2>8. ToSet(r) \subseteq ToSet(t) \cup ToSet(post)
    <3>1. 1..(i - 1) \subseteq 1..Len(t) /\ (i + Len(pre))..Len(t) \subseteq 1..Len(t)
        BY <1>2, <2>3, <2>4
    <3> QED
        BY <2>5, <2>6, <3>1 DEF IsSpliced, Lines
  <2>9. s \in Stages(L) /\ InRange(s)
      BY <1>2, <2>2, <2>3, <2>5 DEF Stages, InRange, IsSpliced
  <2>10. s.text = r /\ s.conflict = m.conflict
      BY <2>2
  <2>11. ToSet(post) \subseteq ToSet(r)
      BY <2>5 DEF IsSpliced
  <2>12. KeepsOthers(m, h, s)
      BY <1>1, <2>7, <2>8, <2>10, <2>11 DEF KeepsOthers
  <2> QED
      BY <2>9, <2>12
<1> QED
    BY <1>4, <1>5

Patching(f, t, hunks, n) ==
    f = [k \in 0..n |-> IF k = 0 THEN [text |-> t, from |-> 1, conflict |-> FALSE]
                        ELSE Spliced(f[k - 1], hunks[k])]

\* What the first k of hunks put in and look for.
PutBy(hunks, k) == UNION {ToSet(hunks[i].post) : i \in 1..k}
LookedForBy(hunks, k) == UNION {ToSet(hunks[i].pre) : i \in 1..k}

\* m is t with k hunks spliced in.
LinesKept(t, hunks, k, m) ==
    /\ ~m.conflict =>
          (ToSet(t) \cup PutBy(hunks, k)) \ LookedForBy(hunks, k) \subseteq ToSet(m.text)
    /\ ToSet(m.text) \subseteq ToSet(t) \cup PutBy(hunks, k)

\* A patch of no conflict leaves in the text all that it puts in and all that was
\* there, but for lines that one of its hunks looks for, and it brings in no
\* others (apply_patch): whichever places the hunks are found at.
LEMMA PatchKeepsLines ==
    ASSUME NEW L, NEW t \in Seq(L), NEW hunks \in Seq(Hunks(L))
    PROVE  LinesKept(t, hunks, Len(hunks), ApplyPatch(t, hunks))
<1> DEFINE n == Len(hunks)
           V == {m \in Stages(L) : InRange(m)}
           b == [text |-> t, from |-> 1, conflict |-> FALSE]
           g == [k \in 1..n |-> [m \in V |-> Spliced(m, hunks[k])]]
           f == CHOOSE f : Patching(f, t, hunks, n)
<1>1. n \in Nat /\ \A k \in 1..n : hunks[k] \in Hunks(L)
    OBVIOUS
<1>2. b \in V
    BY DEF Stages, InRange
<1>3. ASSUME NEW k \in 1..n, NEW m \in V
      PROVE  Spliced(m, hunks[k]) \in V /\ KeepsOthers(m, hunks[k], Spliced(m, hunks[k]))
  <2>1. PICK h \in Hunks(L) : h = hunks[k]
      BY <1>1
  <2>2. m \in Stages(L) /\ InRange(m)
      OBVIOUS
  <2>3. PICK s : s = Spliced(m, h)
      OBVIOUS
  <2>4. s \in Stages(L) /\ InRange(s) /\ KeepsOthers(m, h, s)
      BY <2>1, <2>2, <2>3, SplicedKeeps
  <2> QED
      BY <2>1, <2>3, <2>4
<1>4. g \in [1..n -> [V -> V]]
    BY <1>3
<1>5. \E e : Patching(e, t, hunks, n)
  <2>1. \E e \in [0..n -> V] : Iterates(e, b, g, n)
    <3> HIDE DEF b, g, V, n
    <3> QED
        BY <1>1, <1>2, <1>4, IterationExists
  <2>2. PICK e \in [0..n -> V] : Iterates(e, b, g, n)
      BY <2>1
  <2>3. ASSUME NEW k \in 0..n
        PROVE  e[k] = IF k = 0 THEN b ELSE Spliced(e[k - 1], hunks[k])
    <3>1. k # 0 => k \in 1..n /\ k - 1 \in 0..n
        BY <1>1
    <3>2. e[k] = IF k = 0 THEN b ELSE g[k][e[k - 1]]
        BY <2>2 DEF Iterates
    <3>3. k # 0 => g[k][e[k - 1]] = Spliced(e[k - 1], hunks[k])
      <4>1. k # 0 => e[k - 1] \in V
        <5> HIDE DEF V, n, g
        <5> QED
            BY <2>2, <3>1
      <4> QED
          BY <3>1, <4>1
    <3> QED
        BY <3>2, <3>3
  <2>4. e = [k \in 0..n |-> IF k = 0 THEN b ELSE Spliced(e[k - 1], hunks[k])]
    <3> HIDE DEF V, b, g, n
    <3> QED
        BY <2>3
  <2> QED
      BY <2>4 DEF Patching
<1>6. Patching(f, t, hunks, n)
    BY <1>5
<1>7. ApplyPatch(t, hunks) = f[n]
    BY DEF ApplyPatch, Patching
<1> HIDE DEF f
<1> DEFINE S == {k \in 0..n : f[k] \in V /\ LinesKept(t, hunks, k, f[k])}
<1>8. 0 \in S
  <2>1. f[0] = b
      BY <1>1, <1>6 DEF Patching
  <2>2. PutBy(hunks, 0) = {} /\ LookedForBy(hunks, 0) = {}
      BY DEF PutBy, LookedForBy
  <2>3. b.text = t /\ ~b.conflict
      OBVIOUS
  <2>4. LinesKept(t, hunks, 0, b)
    <3> HIDE DEF b
    <3> QED
        BY <2>2, <2>3 DEF LinesKept
  <2> QED
    <3> HIDE DEF b, V
    <3> QED
        BY <1>1, <1>2, <2>1, <2>4
<1>9. ASSUME NEW k \in 1..n, k - 1 \in S PROVE k \in S
  <2>1. PICK m : m = f[k - 1]
      OBVIOUS
  <2>2. PICK h : h = hunks[k]
      OBVIOUS
  <2>3. PICK s : s = f[k]
      OBVIOUS
  <2>4. s = Spliced(m, h)
    <3>1. k \in 0..n /\ k # 0
        BY <1>1
    <3>2. f[k] = IF k = 0 THEN [text |-> t, from |-> 1, conflict |-> FALSE]
                 ELSE Spliced(f[k - 1], hunks[k])
      <4> HIDE DEF n
      <4> QED
          BY <1>6, <3>1 DEF Patching
    <3> QED
        BY <2>1, <2>2, <2>3, <3>1, <3>2
  <2>5. m \in V /\ LinesKept(t, hunks, k - 1, m)
      BY <1>9, <2>1
  <2>6. s \in V /\ KeepsOthers(m, h, s)
      BY <1>3, <2>2, <2>4, <2>5
  <2>7. 1..k = 1..(k - 1) \cup {k}
      BY <1>1
  <2>8. /\ PutBy(hunks, k) = PutBy(hunks, k - 1) \cup ToSet(h.post)
        /\ LookedForBy(hunks, k) = LookedForBy(hunks, k - 1) \cup ToSet(h.pre)
      BY <2>2, <2>7 DEF PutBy, LookedForBy
  <2>9. LinesKept(t, hunks, k, s)
    <3> HIDE DEF V
    <3>1. ToSet(s.text) \subseteq ToSet(t) \cup PutBy(hunks, k)
        BY <2>5, <2>6, <2>8 DEF LinesKept, KeepsOthers
    <3>2. ASSUME ~s.conflict
          PROVE  (ToSet(t) \cup PutBy(hunks, k)) \ LookedForBy(hunks, k) \subseteq ToSet(s.text)
        BY <2>5, <2>6, <2>8, <3>2 DEF LinesKept, KeepsOthers
    <3> QED
        BY <3>1, <3>2 DEF LinesKept
  <2> QED
      BY <1>1, <2>3, <2>6, <2>9
<1>10. n \in S
  <2> HIDE DEF S, n
  <2>1. \A k \in 0..n : k \in S
      BY <1>1, <1>8, <1>9, CountingUp
  <2> QED
      BY <1>1, <2>1
<1> QED
    BY <1>7, <1>10

-----------------------------------------------------------------------------
\* As long as the build records what it writes, the baseline is the text that
\* the file was last generated from.
OverlayInv ==
    /\ origin # None
    /\ may \subseteq {"blueprint"} /\ file # None => cache = origin

\* A merge starts from the text that the file was generated from.
MergesFromOrigin ==
    may \subseteq {"blueprint"} /\ did' = Op("structural", "applied") =>
        file' = MergedText(origin, file, origin') /\ ~Conflicts(origin, file, origin')

\* An overlay that is reported APPLIED has kept the lines of the generator's text
\* and its own, and one that is in conflict has left that text alone.
RebuildsKeepLines(L) ==
    overlay \in Seq(Hunks(L)) /\ origin' \in Seq(L) =>
        /\ did' = Op("rebuild", "applied") =>
              /\ (ToSet(origin') \cup PutBy(overlay, Len(overlay)))
                    \ LookedForBy(overlay, Len(overlay)) \subseteq ToSet(file')
              /\ ToSet(file') \subseteq ToSet(origin') \cup PutBy(overlay, Len(overlay))
        /\ did' = Op("rebuild", "conflict") => file' = origin'

LEMMA GeneratedIsText ==
    ASSUME OverlayAssumption, NEW t \in Generated
    PROVE  t # None
BY DEF OverlayAssumption

\* What a step does, by the operation that it reports.
LEMMA OverlaySteps ==
    ASSUME OverlayAssumption, OverlayInv, OverlayNext, NEW L
    PROVE  /\ OverlayInv'
           /\ did' = Op("commit", "ok") => CommitOverlay
           /\ RebuildsKeepLines(L)
           /\ MergesFromOrigin
<1> DEFINE Goal == /\ OverlayInv'
                   /\ did' = Op("commit", "ok") => CommitOverlay
                   /\ RebuildsKeepLines(L)
                   /\ MergesFromOrigin
<1>1. CASE EditFile
    BY <1>1 DEF EditFile, OverlayInv, Op, RebuildsKeepLines, MergesFromOrigin
<1>2. CASE CommitOverlay
  <2>1. UNCHANGED <<may, file, cache, origin>> /\ did' = Op("commit", "ok")
      BY <1>2 DEF CommitOverlay
  <2> QED
      BY <1>2, <2>1 DEF OverlayInv, Op, RebuildsKeepLines, MergesFromOrigin
<1>3. ASSUME NEW t \in Generated, Rebuild(t) PROVE Goal
  <2>1. origin' = t /\ Reapply(t, "rebuild") /\ may' = may
      BY <1>3 DEF Rebuild
  <2>2. PICK m : m = ApplyPatch(t, overlay)
      OBVIOUS
  <2>3. /\ cache' = t /\ file' = IF m.conflict THEN t ELSE m.text
        /\ did' = Op("rebuild", IF m.conflict THEN "conflict" ELSE "applied")
      BY <2>1, <2>2 DEF Reapply, Conflicting
  <2>4. OverlayInv'
      BY <2>1, <2>3, GeneratedIsText DEF OverlayInv
  <2>5. RebuildsKeepLines(L)
    <3>1. SUFFICES ASSUME overlay \in Seq(Hunks(L)), t \in Seq(L) PROVE RebuildsKeepLines(L)
        BY <2>1 DEF RebuildsKeepLines
    <3>2. LinesKept(t, overlay, Len(overlay), m)
        BY <2>2, <3>1, PatchKeepsLines
    <3>3. did' = Op("rebuild", "applied") => ~m.conflict /\ file' = m.text
        BY <2>3 DEF Op
    <3>4. did' = Op("rebuild", "conflict") => file' = t
        BY <2>3 DEF Op
    <3> QED
        BY <2>1, <3>2, <3>3, <3>4 DEF RebuildsKeepLines, LinesKept
  <2>6. did' # Op("commit", "ok") /\ did' # Op("structural", "applied")
      BY <2>3 DEF Op
  <2> QED
      BY <2>4, <2>5, <2>6 DEF MergesFromOrigin
<1>4. ASSUME NEW t \in Generated, RebuildWithout(t) PROVE Goal
    BY <1>4, GeneratedIsText
       DEF RebuildWithout, Recorded, OverlayInv, Op, RebuildsKeepLines, MergesFromOrigin
<1>5. ASSUME NEW t \in Generated, StructuralReapply(t) PROVE Goal
  <2>1. CASE MergeAccepted(t)
    <3>1. /\ cache' = t /\ origin' = t /\ may' = may /\ did' = Op("structural", "applied")
          /\ ~Conflicts(MergeBase, file, t) /\ file' = MergedText(MergeBase, file, t)
        BY <2>1 DEF MergeAccepted
    <3>2. may \subseteq {"blueprint"} => MergeBase = origin
        BY <1>5 DEF StructuralReapply, OverlayInv, MergeBase
    <3>3. OverlayInv'
        BY <3>1, GeneratedIsText DEF OverlayInv
    <3>4. MergesFromOrigin
        BY <3>1, <3>2 DEF MergesFromOrigin
    <3> QED
        BY <3>1, <3>3, <3>4 DEF Op, RebuildsKeepLines
  <2>2. CASE MergeRejected
      BY <2>2 DEF MergeRejected, OverlayInv, Op, RebuildsKeepLines, MergesFromOrigin
  <2> QED
      BY <1>5, <2>1, <2>2 DEF StructuralReapply
<1>6. CASE StageAgain
  <2>1. "again" \in may /\ may' = may /\ origin' = origin /\ Reapply(file, "again")
      BY <1>6 DEF StageAgain
  <2>2. PICK status : did' = Op("again", status)
      BY <2>1 DEF Reapply
  <2> QED
      BY <2>1, <2>2 DEF OverlayInv, Op, RebuildsKeepLines, MergesFromOrigin
<1>7. CASE DropFile
    BY <1>7 DEF DropFile, OverlayInv, Op, RebuildsKeepLines, MergesFromOrigin
<1> QED
    BY <1>1, <1>2, <1>3, <1>4, <1>5, <1>6, <1>7 DEF OverlayNext

LEMMA OverlayInitInv ==
    ASSUME OverlayAssumption, OverlayInit
    PROVE  OverlayInv
BY GeneratedIsText DEF OverlayInit, OverlayInv

\* Whatever a hunk puts in is in the file after a rebuild that reports APPLIED,
\* and so is every line that the generator wrote and no hunk looks for; a
\* conflict leaves what the generator wrote (OverlayManager.reapply, apply_patch).
THEOREM AppliedOverlaysKeepLines ==
    ASSUME OverlayAssumption, NEW L
    PROVE  OverlaySpec => [][RebuildsKeepLines(L)]_vars
<1>1. OverlayInit => OverlayInv
    BY OverlayInitInv
<1>2. OverlayInv /\ [OverlayNext]_vars => OverlayInv'
    BY OverlaySteps DEF vars, OverlayInv
<1>3. OverlayInv /\ [OverlayNext]_vars => [RebuildsKeepLines(L)]_vars
    BY OverlaySteps
<1> QED
    BY <1>1, <1>2, <1>3, PTL DEF OverlaySpec

\* As long as builds record what they write, a commit is the difference to the
\* text that the file was generated from, and a merge has that text as its base,
\* after any rebuilds, merges, conflicts and commits (commit_overlay,
\* structural_reapply).
THEOREM CommitsAndMergesStartFromOrigin ==
    ASSUME OverlayAssumption
    PROVE  OverlaySpec => CommitIsTheEdits /\ [][MergesFromOrigin]_vars
<1>1. OverlayInit => OverlayInv
    BY OverlayInitInv
<1>2. OverlayInv /\ [OverlayNext]_vars => OverlayInv'
    BY OverlaySteps DEF vars, OverlayInv
<1>3. OverlayInv /\ [OverlayNext]_vars => [MergesFromOrigin]_vars
    BY OverlaySteps
<1>4. OverlayInv /\ [OverlayNext]_vars =>
        [may \subseteq {"blueprint"} /\ did' = Op("commit", "ok") =>
            overlay' = IF file = origin THEN None ELSE MakePatch(origin, file)]_vars
  <2>1. SUFFICES ASSUME OverlayInv, OverlayNext, may \subseteq {"blueprint"}, did' = Op("commit", "ok")
                 PROVE  overlay' = IF file = origin THEN None ELSE MakePatch(origin, file)
      OBVIOUS
  <2>2. CommitOverlay
      BY <2>1, OverlaySteps
  <2>3. cache = origin
      BY <2>1, <2>2 DEF CommitOverlay, OverlayInv
  <2> QED
      BY <2>2, <2>3 DEF CommitOverlay
<1> QED
    BY <1>1, <1>2, <1>3, <1>4, PTL DEF OverlaySpec, CommitIsTheEdits

-----------------------------------------------------------------------------
(* Decompositions.                                                         *)

Modules == [defs    : [Idents -> Bodies \cup {NoBody}],
            imports : SUBSET (Files \X Idents),
            typed   : BOOLEAN]

SplitterTypeOK ==
    /\ source \in [Stems -> [Idents -> Bodies \cup {NoBody}]]
    /\ pkg \in [Files -> Modules]
    /\ shared \in SUBSET Idents
    /\ at \in Nat \ {0}
    /\ stage \in {"idle", "split", "consolidate", "inject", "done"}
    /\ moved \in SUBSET (Idents \X Bodies)
    /\ clashed \in BOOLEAN

\* A name is defined in a module or imported from one other, not both.
BoundOnce(f) ==
    /\ \A n \in Defined(pkg[f]) : n \notin Imported(pkg[f])
    /\ \A i, j \in pkg[f].imports : i[2] = j[2] => i = j

\* A leaf defines one name, of its own.
HoldsOne(f) ==
    /\ \A m, n \in Defined(pkg[f]) : m = n
    /\ \A n \in Defined(pkg[f]) : LeafFile(f[1], n) = f

LeavesHoldOne == \A f \in Files : BoundOnce(f) /\ (f # Utils => HoldsOne(f))

\* What has moved is in utils.py, and nothing else is.
UtilsHoldsMoved ==
    OneMoved =>
        /\ \A n \in Defined(pkg[Utils]) : <<n, pkg[Utils].defs[n]>> \in moved
        /\ \A p \in moved : pkg[Utils].defs[p[1]] = p[2]

\* A file gives a name: it defines it, or it is the leaf that has handed it over.
HandedOver(g, n) == Defined(pkg[g]) = {} /\ <<Utils, n>> \in pkg[g].imports
Gives(g, n) ==
    /\ pkg[g].defs[n] # NoBody \/ HandedOver(g, n)
    /\ g # Utils => LeafFile(g[1], n) = g

\* The names a file is there for.
Mains(f) == IF Defined(pkg[f]) # {} THEN Defined(pkg[f]) ELSE {p[1] : p \in moved}

\* An import finds its name, and is there for a use of the name the file is
\* there for, or for that name itself.
ImportIsSound(f, i) ==
    /\ Gives(i[1], i[2])
    /\ \E m \in Mains(f) : i[2] \in Refers[m] \/ (Defined(pkg[f]) = {} /\ i = <<Utils, m>>)
ImportsAreSound ==
    OneMoved /\ ~clashed => \A f \in Files : \A i \in pkg[f].imports : ImportIsSound(f, i)

\* A unit of this build is where it belongs.
Placed(s, n) ==
    LET f == LeafFile(s, n)
    IN  \/ pkg[f].defs[n] = source[s][n]
        \/ HandedOver(f, n) /\ <<n, source[s][n]>> \in moved
Written(s) == stage # "idle" /\ (s < at \/ (s = at /\ stage \in {"consolidate", "inject"}))
UnitsArePlaced ==
    OneMoved /\ ~clashed /\ lost = {} =>
        \A s \in Stems : Written(s) => \A n \in Units(s) : Placed(s, n)

\* Nothing a module uses and the package defines is missing, unless a source is
\* still to be decomposed.
Supplied(f) ==
    /\ Used(pkg[f]) \cap SomewhereDefined \subseteq Defined(pkg[f]) \cup Imported(pkg[f])
    /\ Defined(pkg[f]) \cap Hinted # {} => pkg[f].typed
Settled == \A f \in Files : Supplied(f)
SettledInTime ==
    /\ stage \in {"idle", "split", "done"} =>
            Settled \/ \E s \in Stems : at <= s /\ Units(s) # {}
    /\ stage \in {"consolidate", "inject"} => at \in Stems /\ Units(at) # {}
    /\ stage = "inject" => \A n \in shared : pkg[Utils].defs[n] # NoBody

Finished ==
    stage = "done" =>
        /\ \A s \in Stems : s < at
        /\ \/ \A s \in Stems : Units(s) = {}
           \/ index = {e \in Files \X Idents : pkg[e[1]].defs[e[2]] # NoBody}

SplitterInv ==
    /\ SplitterTypeOK
    /\ LeavesHoldOne
    /\ UtilsHoldsMoved
    /\ ImportsAreSound
    /\ UnitsArePlaced
    /\ SettledInTime
    /\ Finished

-----------------------------------------------------------------------------
(* The files, the leaves and the names they hold.                          *)

LEMMA LeafFiles ==
    ASSUME SplitterAssumption
    PROVE  /\ Utils \in Files
           /\ \A s \in Stems, n \in Idents :
                LeafFile(s, n) \in Files /\ LeafFile(s, n) # Utils /\ LeafFile(s, n)[1] = s
           /\ \A f \in Files : f # Utils => f[1] \in Stems
           /\ \A s \in Stems : s \in Nat
<1>1. Cardinality(Stems) \in Nat /\ \A s \in Stems : s \in Nat /\ s <= Cardinality(Stems)
    BY FS_CardinalityType DEF SplitterAssumption
<1>2. \A s \in Stems, n \in Idents : LeafFile(s, n)[1] = s /\ LeafFile(s, n) \in Files
    BY DEF LeafFile, Files
<1>3. Utils \in Files /\ Utils[1] = Cardinality(Stems) + 1
    BY DEF Files, Utils
<1>4. \A s \in Stems, n \in Idents : LeafFile(s, n) # Utils
  <2> SUFFICES ASSUME NEW s \in Stems, NEW n \in Idents, LeafFile(s, n) = Utils PROVE FALSE
      OBVIOUS
  <2>1. s = Cardinality(Stems) + 1
      BY <1>2, <1>3
  <2> QED
      BY <1>1, <2>1
<1>5. \A f \in Files : f # Utils => f[1] \in Stems
    BY <1>2 DEF Files
<1> QED
    BY <1>1, <1>2, <1>3, <1>4, <1>5

\* A leaf as it is written holds its unit and nothing else.
LEMMA LeafHolds ==
    ASSUME SplitterTypeOK, NEW s \in Stems, NEW m \in Units(s)
    PROVE  /\ Leaf(s, m) \in Modules
           /\ Defined(Leaf(s, m)) = {m}
           /\ Leaf(s, m).imports = {}
           /\ Leaf(s, m).defs[m] = source[s][m]
           /\ m \in Idents /\ source[s][m] # NoBody
<1>1. m \in Idents /\ source[s][m] # NoBody
    BY DEF Units
<1>2. source[s][m] \in Bodies
    BY <1>1 DEF SplitterTypeOK
<1>3. /\ Leaf(s, m).defs = [Nothing EXCEPT ![m] = source[s][m]]
      /\ Leaf(s, m).imports = {}
      /\ Leaf(s, m).typed = (m \in Hinted)
    BY DEF Leaf
<1>4. /\ Leaf(s, m).defs \in [Idents -> Bodies \cup {NoBody}]
      /\ Leaf(s, m).defs[m] = source[s][m]
      /\ \A n \in Idents : n # m => Leaf(s, m).defs[n] = NoBody
    BY <1>1, <1>2, <1>3 DEF Nothing
<1>5. Leaf(s, m) \in Modules
    BY <1>4 DEF Leaf, Modules
<1>6. Defined(Leaf(s, m)) = {m}
    BY <1>1, <1>4 DEF Defined
<1> QED
    BY <1>1, <1>3, <1>4, <1>5, <1>6

\* What a source becomes: its leaves are written, but for those that are lost,
\* and nothing else changes.
LEMMA SourceIsDecomposed ==
    ASSUME SplitterAssumption, SplitterTypeOK, DecomposeSource
    PROVE  /\ at \in Stems /\ Units(at) # {}
           /\ pkg' \in [Files -> Modules]
           /\ \A f \in Files : \/ pkg'[f] = pkg[f]
                               \/ \E m \in Units(at) : f = LeafFile(at, m) /\ pkg'[f] = Leaf(at, m)
           /\ ~clashed' =>
                /\ ~clashed
                /\ \A m, n \in Units(at) : LeafFile(at, m) = LeafFile(at, n) => m = n
                /\ \A m \in Units(at) : Held(LeafFile(at, m)) \subseteq {m}
                /\ lost' = {} => /\ lost = {}
                                 /\ \A m \in Units(at) : pkg'[LeafFile(at, m)] = Leaf(at, m)
<1>1. PICK bad \in SUBSET Units(at), last \in SUBSET Units(at) :
        /\ \A n \in Units(at) \ bad : \E m \in last : Lower[m] = Lower[n]
        /\ \A m, n \in last : Lower[m] = Lower[n] => m = n
        /\ pkg' = [f \in Files |->
                     IF \E n \in last : f = LeafFile(at, n)
                       THEN Leaf(at, CHOOSE n \in last : f = LeafFile(at, n))
                       ELSE pkg[f]]
        /\ lost' = lost \cup {LeafFile(at, n) : n \in bad}
    BY DEF DecomposeSource
<1>2. at \in Stems /\ Units(at) # {}
    BY DEF DecomposeSource
<1>3. \A f \in Files :
        \/ pkg'[f] = pkg[f] /\ ~\E n \in last : f = LeafFile(at, n)
        \/ \E m \in last : f = LeafFile(at, m) /\ pkg'[f] = Leaf(at, m)
  <2> SUFFICES ASSUME NEW f \in Files, \E n \in last : f = LeafFile(at, n)
               PROVE  \E m \in last : f = LeafFile(at, m) /\ pkg'[f] = Leaf(at, m)
      BY <1>1
  <2>1. PICK m : m = CHOOSE n \in last : f = LeafFile(at, n)
      OBVIOUS
  <2>2. m \in last /\ f = LeafFile(at, m)
      BY <2>1
  <2>3. pkg'[f] = Leaf(at, m)
      BY <1>1, <2>1
  <2> QED
      BY <2>2, <2>3
<1>4. pkg' \in [Files -> Modules]
  <2>1. \A f \in Files : pkg'[f] \in Modules
      BY <1>2, <1>3, LeafHolds DEF SplitterTypeOK
  <2>2. pkg' = [f \in Files |-> pkg'[f]]
      BY <1>1
  <2> QED
      BY <2>1, <2>2
<1>5. ASSUME ~clashed'
      PROVE  /\ ~clashed
             /\ \A m, n \in Units(at) : LeafFile(at, m) = LeafFile(at, n) => m = n
             /\ \A m \in Units(at) : Held(LeafFile(at, m)) \subseteq {m}
  <2>1. /\ ~clashed
        /\ \A m \in Units(at), f \in Files : f = LeafFile(at, m) =>
                Held(f) \cup {n \in Units(at) : f = LeafFile(at, n)} = {m}
      BY <1>5 DEF DecomposeSource
  <2>2. \A m \in Units(at) : m \in Idents /\ LeafFile(at, m) \in Files
      BY <1>2, LeafFiles DEF Units
  <2>3. \A m \in Units(at) :
            Held(LeafFile(at, m)) \cup {n \in Units(at) : LeafFile(at, m) = LeafFile(at, n)} = {m}
      BY <2>1, <2>2
  <2> QED
      BY <2>1, <2>3
<1>6. ASSUME ~clashed', lost' = {}, NEW m \in Units(at)
      PROVE  lost = {} /\ pkg'[LeafFile(at, m)] = Leaf(at, m)
  <2>1. lost = {} /\ bad = {}
      BY <1>1, <1>6
  <2>2. PICK k \in last : Lower[k] = Lower[m]
      BY <1>1, <2>1
  <2>3. LeafFile(at, k) = LeafFile(at, m)
      BY <2>2 DEF LeafFile
  <2>4. k = m
      BY <1>5, <1>6, <2>3
  <2>5. LeafFile(at, m) \in Files
      BY <1>2, LeafFiles DEF Units
  <2>6. PICK j \in last : LeafFile(at, m) = LeafFile(at, j) /\ pkg'[LeafFile(at, m)] = Leaf(at, j)
      BY <1>3, <2>4, <2>5
  <2> QED
      BY <1>5, <1>6, <2>1, <2>6
<1> QED
    BY <1>2, <1>3, <1>4, <1>5, <1>6

LEMMA DecompositionKeeps ==
    ASSUME SplitterAssumption, SplitterInv, DecomposeSource
    PROVE  SplitterInv'
<1>1. /\ at \in Stems /\ Units(at) # {}
      /\ pkg' \in [Files -> Modules]
      /\ \A f \in Files : \/ pkg'[f] = pkg[f]
                          \/ \E m \in Units(at) : f = LeafFile(at, m) /\ pkg'[f] = Leaf(at, m)
    BY SourceIsDecomposed DEF SplitterInv
<1>2. /\ source' = source /\ shared' = shared /\ at' = at /\ moved' = moved
      /\ stage = "split" /\ stage' = "consolidate" /\ clashed' \in BOOLEAN
    BY DEF DecomposeSource
<1>3. SplitterTypeOK /\ LeavesHoldOne
    BY DEF SplitterInv
<1>4. /\ Utils \in Files /\ pkg'[Utils] = pkg[Utils]
      /\ \A m \in Units(at) : m \in Idents /\ LeafFile(at, m) # Utils /\ LeafFile(at, m)[1] = at
  <2>1. \A m \in Units(at) : m \in Idents /\ LeafFile(at, m) # Utils /\ LeafFile(at, m)[1] = at
      BY <1>1, LeafFiles DEF Units
  <2>2. Utils \in Files
      BY LeafFiles
  <2> QED
      BY <1>1, <2>1, <2>2
<1>5. \A m \in Units(at) : /\ Defined(Leaf(at, m)) = {m} /\ Leaf(at, m).imports = {}
                           /\ Leaf(at, m).defs[m] = source[at][m] /\ source[at][m] # NoBody
    BY <1>1, <1>3, LeafHolds
<1>6. SplitterTypeOK'
    BY <1>1, <1>2, <1>3 DEF SplitterTypeOK
<1>7. LeavesHoldOne'
  <2> SUFFICES ASSUME NEW f \in Files PROVE BoundOnce(f)' /\ (f # Utils => HoldsOne(f)')
      BY DEF LeavesHoldOne
  <2>1. CASE pkg'[f] = pkg[f]
      BY <1>3, <2>1 DEF LeavesHoldOne, BoundOnce, HoldsOne
  <2>2. CASE \E m \in Units(at) : f = LeafFile(at, m) /\ pkg'[f] = Leaf(at, m)
    <3>1. PICK m \in Units(at) : f = LeafFile(at, m) /\ pkg'[f] = Leaf(at, m)
        BY <2>2
    <3>2. Defined(pkg'[f]) = {m} /\ pkg'[f].imports = {}
        BY <1>5, <3>1
    <3>3. BoundOnce(f)'
        BY <3>2 DEF BoundOnce, Imported
    <3>4. HoldsOne(f)'
        BY <1>4, <3>1, <3>2 DEF HoldsOne
    <3> QED
        BY <3>3, <3>4
  <2> QED
      BY <1>1, <2>1, <2>2
<1>8. UtilsHoldsMoved'
    BY <1>2, <1>4 DEF SplitterInv, UtilsHoldsMoved, OneMoved
<1>9. ImportsAreSound'
  <2> SUFFICES ASSUME OneMoved, ~clashed', NEW f \in Files, NEW i \in pkg'[f].imports
               PROVE  ImportIsSound(f, i)'
      BY <1>2 DEF ImportsAreSound, OneMoved
  <2>1. pkg'[f] = pkg[f]
      BY <1>1, <1>5
  <2>2. /\ ~clashed
        /\ \A m \in Units(at) : Held(LeafFile(at, m)) \subseteq {m}
      BY <1>3, SourceIsDecomposed
  <2>3. ImportIsSound(f, i)
      BY <2>1, <2>2 DEF SplitterInv, ImportsAreSound
  <2>4. Gives(i[1], i[2])'
    <3>1. i[1] \in Files /\ i[2] \in Idents
      <4>1. pkg[f].imports \subseteq Files \X Idents
          BY <1>3 DEF SplitterTypeOK, Modules
      <4> QED
          BY <2>1, <4>1
    <3>2. Gives(i[1], i[2])
        BY <2>3 DEF ImportIsSound
    <3>3. CASE pkg'[i[1]] = pkg[i[1]]
        BY <3>2, <3>3 DEF Gives, HandedOver
    <3>4. CASE \E m \in Units(at) : i[1] = LeafFile(at, m) /\ pkg'[i[1]] = Leaf(at, m)
      <4>1. PICK m \in Units(at) : i[1] = LeafFile(at, m) /\ pkg'[i[1]] = Leaf(at, m)
          BY <3>4
      <4>2. i[1] # Utils /\ LeafFile(i[1][1], i[2]) = i[1]
          BY <1>4, <3>2, <4>1 DEF Gives
      <4>3. i[2] \in Defined(pkg[i[1]]) \cup Imported(pkg[i[1]])
        <5>1. CASE pkg[i[1]].defs[i[2]] # NoBody
            BY <3>1, <5>1 DEF Defined
        <5>2. CASE HandedOver(i[1], i[2])
          <6>1. <<Utils, i[2]>> \in pkg[i[1]].imports /\ <<Utils, i[2]>>[2] = i[2]
              BY <5>2 DEF HandedOver
          <6> QED
              BY <6>1 DEF Imported
        <5> QED
            BY <3>2, <5>1, <5>2 DEF Gives
      <4>4. i[2] \in Held(i[1])
          BY <4>2, <4>3 DEF Held
      <4>5. i[2] = m
          BY <2>2, <4>1, <4>4
      <4> QED
          BY <1>5, <4>1, <4>2, <4>5 DEF Gives
    <3> QED
        BY <1>1, <3>1, <3>3, <3>4
  <2>5. Mains(f)' = Mains(f) /\ Defined(pkg'[f]) = Defined(pkg[f])
      BY <1>2, <2>1 DEF Mains
  <2> QED
      BY <2>3, <2>4, <2>5 DEF ImportIsSound
<1>10. UnitsArePlaced'
  <2> SUFFICES ASSUME OneMoved, ~clashed', lost' = {}, NEW s \in Stems, Written(s)', NEW n \in Units(s)
               PROVE  Placed(s, n)'
      BY <1>2 DEF UnitsArePlaced, OneMoved, Units
  <2>1. /\ ~clashed /\ lost = {}
        /\ \A m \in Units(at) : pkg'[LeafFile(at, m)] = Leaf(at, m)
      BY <1>3, SourceIsDecomposed
  <2>2. CASE s = at
      BY <1>2, <1>5, <2>1, <2>2 DEF Placed
  <2>3. CASE s # at
    <3>1. s < at /\ Written(s)
        BY <1>2, <2>3 DEF Written
    <3>2. Placed(s, n)
        BY <2>1, <3>1 DEF SplitterInv, UnitsArePlaced
    <3>3. LeafFile(s, n) \in Files /\ LeafFile(s, n)[1] = s
        BY LeafFiles DEF Units
    <3>4. pkg'[LeafFile(s, n)] = pkg[LeafFile(s, n)]
        BY <1>1, <1>4, <2>3, <3>3
    <3> QED
        BY <1>2, <3>2, <3>4 DEF Placed, HandedOver
  <2> QED
      BY <2>2, <2>3
<1>11. SettledInTime' /\ Finished'
    BY <1>1, <1>2 DEF SettledInTime, Finished, Units
<1> QED
    BY <1>6, <1>7, <1>8, <1>9, <1>10, <1>11 DEF SplitterInv

\* Of the texts of a name that repeat there is one met last.
LEMMA CanonicalRepeats ==
    ASSUME SplitterAssumption, SplitterTypeOK, NEW n \in Duplicates(pkg)
    PROVE  /\ n \in Idents /\ Canonical(pkg, n) \in Bodies /\ Canonical(pkg, n) # NoBody
<1> DEFINE F(b) == FirstHolder(pkg, n, b)
           S == {F(b) : b \in Repeated(pkg, n)}
<1>1. n \in Idents /\ Repeated(pkg, n) # {}
    BY DEF Duplicates
<1>2. ASSUME NEW b \in Repeated(pkg, n)
      PROVE  F(b) \in Stems
  <2>1. HoldersOf(pkg, n, b) # {}
    <3> SUFFICES ASSUME HoldersOf(pkg, n, b) = {} PROVE FALSE
        OBVIOUS
    <3>1. Cardinality(HoldersOf(pkg, n, b)) = 0
        BY FS_EmptySet
    <3> QED
        BY <1>2, <3>1 DEF Repeated
  <2> DEFINE T == {f[1] : f \in HoldersOf(pkg, n, b)}
  <2>2. T # {} /\ T \subseteq Stems /\ T \subseteq Nat
      BY <2>1, LeafFiles DEF HoldersOf
  <2>3. \E x \in T : \A y \in T : x <= y
    <3> HIDE DEF T
    <3> QED
        BY <2>2, LeastNatural
  <2>4. F(b) = Min(T)
      BY DEF FirstHolder
  <2>5. Min(T) \in T
    <3> HIDE DEF T
    <3> QED
        BY <2>3 DEF Min
  <2> QED
      BY <2>2, <2>4, <2>5
<1>3. S # {} /\ S \subseteq Nat /\ Cardinality(Stems) \in Nat /\ \A x \in S : x <= Cardinality(Stems)
  <2>1. Cardinality(Stems) \in Nat /\ \A s \in Stems : s \in Nat /\ s <= Cardinality(Stems)
      BY FS_CardinalityType DEF SplitterAssumption
  <2> QED
      BY <1>1, <1>2, <2>1
<1>4. \E x \in S : \A y \in S : y <= x
  <2> HIDE DEF S
  <2> QED
      BY <1>3, GreatestNatural
<1>5. \E b \in Repeated(pkg, n) : \A c \in Repeated(pkg, n) : F(c) <= F(b)
    BY <1>4
<1>6. Canonical(pkg, n) \in Repeated(pkg, n)
    BY <1>5 DEF Canonical
<1> QED
    BY <1>1, <1>6 DEF Repeated, SplitterAssumption

\* What one pass moves, if it moves no second function: one name, of one text.
LEMMA OneIsMoved ==
    ASSUME SplitterAssumption, SplitterTypeOK, Duplicates(pkg) # {},
           moved' = moved \cup {<<n, Canonical(pkg, n)>> : n \in Duplicates(pkg)}, OneMoved'
    PROVE  \E n \in Idents, b \in Bodies :
            /\ Duplicates(pkg) = {n} /\ Canonical(pkg, n) = b
            /\ moved' = {<<n, b>>} /\ moved \subseteq {<<n, b>>}
            /\ b # NoBody
            /\ Shared(pkg).imports = {}
            /\ \A m \in Idents : Shared(pkg).defs[m] = IF m = n THEN b ELSE NoBody
<1>1. PICK n \in Duplicates(pkg) : TRUE
    OBVIOUS
<1>2. PICK b : b = Canonical(pkg, n)
    OBVIOUS
<1>3. n \in Idents /\ b \in Bodies /\ b # NoBody
    BY <1>1, <1>2, CanonicalRepeats
<1>4. <<n, b>> \in moved'
    BY <1>1, <1>2
<1>5. moved' = {<<n, b>>} /\ moved \subseteq {<<n, b>>}
    BY <1>4 DEF OneMoved
<1>6. Duplicates(pkg) = {n}
  <2> SUFFICES ASSUME NEW m \in Duplicates(pkg) PROVE m = n
      BY <1>1
  <2>1. <<m, Canonical(pkg, m)>> \in moved'
      OBVIOUS
  <2> QED
      BY <1>5, <2>1
<1>7. /\ Shared(pkg).imports = {}
      /\ \A m \in Idents : Shared(pkg).defs[m] = IF m = n THEN b ELSE NoBody
    BY <1>2, <1>6 DEF Shared
<1> QED
    BY <1>2, <1>3, <1>5, <1>6, <1>7

LEMMA ConsolidatedTypes ==
    ASSUME SplitterAssumption, SplitterTypeOK
    PROVE  Consolidated(pkg) \in [Files -> Modules]
<1>1. Shared(pkg) \in Modules
  <2>1. [n \in Idents |-> IF n \in Duplicates(pkg) THEN Canonical(pkg, n) ELSE NoBody]
            \in [Idents -> Bodies \cup {NoBody}]
      BY CanonicalRepeats
  <2> QED
      BY <2>1 DEF Shared, Modules
<1>2. ASSUME NEW f \in Files
      PROVE  Relieved(pkg, f) \in Modules
  <2> DEFINE gone == {n \in Duplicates(pkg) : pkg[f].defs[n] = Canonical(pkg, n)}
  <2>1. pkg[f] \in Modules
      BY DEF SplitterTypeOK
  <2>2. gone \subseteq Idents /\ Utils \in Files
      BY CanonicalRepeats, LeafFiles
  <2>3. Relieved(pkg, f) = [defs    |-> [n \in Idents |-> IF n \in gone THEN NoBody ELSE pkg[f].defs[n]],
                            imports |-> pkg[f].imports \cup {<<Utils, n>> : n \in gone},
                            typed   |-> pkg[f].typed]
      BY DEF Relieved
  <2> HIDE DEF gone
  <2>4. [n \in Idents |-> IF n \in gone THEN NoBody ELSE pkg[f].defs[n]] \in [Idents -> Bodies \cup {NoBody}]
      BY <2>1 DEF Modules
  <2>5. pkg[f].imports \cup {<<Utils, n>> : n \in gone} \in SUBSET (Files \X Idents)
      BY <2>1, <2>2 DEF Modules
  <2>6. pkg[f].typed \in BOOLEAN
      BY <2>1 DEF Modules
  <2> QED
      BY <2>3, <2>4, <2>5, <2>6 DEF Modules
<1> QED
    BY <1>1, <1>2 DEF Consolidated

\* A leaf after the first pass: as it was, or without the names that are in
\* utils.py now.
LEMMA LeafAfterPass ==
    ASSUME SplitterAssumption, SplitterTypeOK, LeavesHoldOne, NEW f \in Files, f # Utils,
           NEW q, q = Consolidated(pkg)[f]
    PROVE  \/ /\ \A n \in Idents : q.defs[n] = pkg[f].defs[n]
              /\ q.imports = pkg[f].imports /\ q.typed = pkg[f].typed
           \/ \E n \in Duplicates(pkg) :
                /\ Defined(pkg[f]) = {n} /\ pkg[f].defs[n] = Canonical(pkg, n)
                /\ Defined(q) = {}
                /\ q.imports = pkg[f].imports \cup {<<Utils, n>>}
                /\ q.typed = pkg[f].typed
<1> DEFINE gone == {n \in Duplicates(pkg) : pkg[f].defs[n] = Canonical(pkg, n)}
<1>1. q = Relieved(pkg, f)
    BY DEF Consolidated
<1>2. /\ \A n \in Idents : q.defs[n] = IF n \in gone THEN NoBody ELSE pkg[f].defs[n]
      /\ q.imports = pkg[f].imports \cup {<<Utils, n>> : n \in gone}
      /\ q.typed = pkg[f].typed
    BY <1>1 DEF Relieved
<1>3. CASE gone = {}
  <2>1. {<<Utils, n>> : n \in gone} = {}
      BY <1>3
  <2> HIDE DEF gone
  <2> QED
      BY <1>2, <1>3, <2>1
<1>4. CASE gone # {}
  <2>1. PICK n \in gone : TRUE
      BY <1>4
  <2>2. n \in Duplicates(pkg) /\ n \in Idents /\ pkg[f].defs[n] = Canonical(pkg, n)
        /\ Canonical(pkg, n) # NoBody
      BY <2>1, CanonicalRepeats
  <2>3. gone \subseteq Defined(pkg[f])
      BY CanonicalRepeats DEF Defined
  <2>4. Defined(pkg[f]) = {n} /\ gone = {n}
      BY <2>1, <2>3 DEF LeavesHoldOne, HoldsOne
  <2>5. {<<Utils, m>> : m \in gone} = {<<Utils, n>>}
      BY <2>4
  <2> HIDE DEF gone
  <2>6. Defined(q) = {}
      BY <1>2, <2>4 DEF Defined
  <2> QED
      BY <1>2, <2>2, <2>4, <2>5, <2>6
<1> QED
    BY <1>3, <1>4

LEMMA ConsolidationKeeps ==
    ASSUME SplitterAssumption, SplitterInv, ConsolidateSharedUtils
    PROVE  SplitterInv'
<1> DEFINE p == Consolidated(pkg)
<1>1. /\ source' = source /\ at' = at /\ lost' = lost /\ clashed' = clashed
      /\ stage = "consolidate" /\ stage' = "inject"
      /\ shared' = Duplicates(pkg)
      /\ SplitterTypeOK /\ LeavesHoldOne
    BY DEF ConsolidateSharedUtils, SplitterInv
<1>2. shared' \in SUBSET Idents
    BY <1>1, CanonicalRepeats
<1>3. Finished' /\ at \in Stems /\ Units(at)' # {}
    BY <1>1 DEF Finished, SplitterInv, SettledInTime, Units
<1>4. \A s \in Stems : Units(s)' = Units(s) /\ (Written(s)' => Written(s))
    BY <1>1 DEF Units, Written
<1>5. CASE Duplicates(pkg) = {}
  <2>1. pkg' = pkg /\ moved' = moved /\ shared' = {}
      BY <1>1, <1>5 DEF ConsolidateSharedUtils
  <2>2. SplitterTypeOK'
      BY <1>1, <1>2, <2>1 DEF SplitterTypeOK
  <2>3. LeavesHoldOne' /\ UtilsHoldsMoved'
      BY <2>1 DEF SplitterInv, LeavesHoldOne, BoundOnce, HoldsOne, UtilsHoldsMoved, OneMoved
  <2>4. ImportsAreSound'
      BY <1>1, <2>1 DEF SplitterInv, ImportsAreSound, ImportIsSound, Gives, HandedOver, Mains, OneMoved
  <2>5. UnitsArePlaced'
      BY <1>1, <1>4, <2>1 DEF SplitterInv, UnitsArePlaced, Placed, HandedOver, OneMoved
  <2>6. SettledInTime'
      BY <1>1, <1>3, <2>1 DEF SettledInTime
  <2> QED
      BY <1>3, <2>2, <2>3, <2>4, <2>5, <2>6 DEF SplitterInv
<1>6. CASE Duplicates(pkg) # {}
  <2>1. pkg' = p /\ moved' = moved \cup {<<n, Canonical(pkg, n)>> : n \in Duplicates(pkg)}
      BY <1>6 DEF ConsolidateSharedUtils
  <2>2. p \in [Files -> Modules] /\ Utils \in Files /\ p[Utils] = Shared(pkg)
    <3>1. Utils \in Files /\ p[Utils] = Shared(pkg)
        BY LeafFiles DEF Consolidated
    <3> QED
        BY <1>1, <3>1, ConsolidatedTypes
  <2> HIDE DEF p
  <2>3. SplitterTypeOK'
    <3>1. moved' \in SUBSET (Idents \X Bodies)
        BY <1>1, <2>1, CanonicalRepeats DEF SplitterTypeOK
    <3> QED
        BY <1>1, <1>2, <2>1, <2>2, <3>1 DEF SplitterTypeOK
  <2>4. \A f \in Files : f # Utils =>
          \/ /\ \A n \in Idents : p[f].defs[n] = pkg[f].defs[n]
             /\ p[f].imports = pkg[f].imports /\ p[f].typed = pkg[f].typed
          \/ \E n \in Duplicates(pkg) :
                /\ Defined(pkg[f]) = {n} /\ pkg[f].defs[n] = Canonical(pkg, n)
                /\ Defined(p[f]) = {}
                /\ p[f].imports = pkg[f].imports \cup {<<Utils, n>>}
                /\ p[f].typed = pkg[f].typed
      BY <1>1, LeafAfterPass DEF p
  <2>5. LeavesHoldOne'
    <3> SUFFICES ASSUME NEW f \in Files PROVE BoundOnce(f)' /\ (f # Utils => HoldsOne(f)')
        BY DEF LeavesHoldOne
    <3>1. BoundOnce(f) /\ (f # Utils => HoldsOne(f))
        BY <1>1 DEF LeavesHoldOne
    <3>2. CASE f = Utils
      <4>1. pkg'[f].imports = {}
          BY <2>1, <2>2, <3>2 DEF Shared
      <4> QED
          BY <3>2, <4>1 DEF BoundOnce, Imported
    <3>3. CASE /\ f # Utils
               /\ \A n \in Idents : p[f].defs[n] = pkg[f].defs[n]
               /\ p[f].imports = pkg[f].imports
      <4>1. Defined(pkg'[f]) = Defined(pkg[f]) /\ pkg'[f].imports = pkg[f].imports
          BY <2>1, <3>3 DEF Defined
      <4> QED
          BY <3>1, <3>3, <4>1 DEF BoundOnce, HoldsOne, Imported
    <3>4. CASE f # Utils /\ \E n \in Duplicates(pkg) :
                /\ Defined(pkg[f]) = {n} /\ Defined(p[f]) = {}
                /\ p[f].imports = pkg[f].imports \cup {<<Utils, n>>}
      <4>1. PICK n \in Duplicates(pkg) :
                /\ Defined(pkg[f]) = {n} /\ Defined(p[f]) = {}
                /\ p[f].imports = pkg[f].imports \cup {<<Utils, n>>}
          BY <3>4
      <4>2. \A i \in pkg[f].imports : i[2] # n
          BY <3>1, <4>1 DEF BoundOnce, Imported
      <4>3. \A i, j \in pkg'[f].imports : i[2] = j[2] => i = j
          BY <2>1, <3>1, <4>1, <4>2 DEF BoundOnce
      <4>4. Defined(pkg'[f]) = {}
          BY <2>1, <4>1
      <4> QED
          BY <4>3, <4>4 DEF BoundOnce, HoldsOne
    <3> QED
        BY <2>4, <3>2, <3>3, <3>4
  <2>6. ASSUME OneMoved'
        PROVE  \E n \in Idents, b \in Bodies :
                /\ Duplicates(pkg) = {n} /\ Canonical(pkg, n) = b
                /\ moved' = {<<n, b>>} /\ moved \subseteq {<<n, b>>} /\ b # NoBody
                /\ pkg'[Utils].imports = {}
                /\ \A m \in Idents : pkg'[Utils].defs[m] = IF m = n THEN b ELSE NoBody
    <3>1. \E n \in Idents, b \in Bodies :
                /\ Duplicates(pkg) = {n} /\ Canonical(pkg, n) = b
                /\ moved' = {<<n, b>>} /\ moved \subseteq {<<n, b>>} /\ b # NoBody
                /\ Shared(pkg).imports = {}
                /\ \A m \in Idents : Shared(pkg).defs[m] = IF m = n THEN b ELSE NoBody
        BY <1>1, <1>6, <2>1, <2>6, OneIsMoved
    <3> QED
        BY <2>1, <2>2, <3>1
  <2>7. UtilsHoldsMoved'
    <3> SUFFICES ASSUME OneMoved'
                 PROVE  /\ \A n \in Defined(pkg'[Utils]) : <<n, pkg'[Utils].defs[n]>> \in moved'
                        /\ \A q \in moved' : pkg'[Utils].defs[q[1]] = q[2]
        BY DEF UtilsHoldsMoved
    <3>1. PICK n \in Idents, b \in Bodies :
                /\ moved' = {<<n, b>>}
                /\ \A m \in Idents : pkg'[Utils].defs[m] = IF m = n THEN b ELSE NoBody
        BY <2>6
    <3> QED
        BY <3>1 DEF Defined
  <2>8. ImportsAreSound'
    <3> SUFFICES ASSUME OneMoved', ~clashed, NEW f \in Files, NEW i \in pkg'[f].imports
                 PROVE  ImportIsSound(f, i)'
        BY <1>1 DEF ImportsAreSound
    <3>1. PICK n \in Idents, b \in Bodies :
                /\ Duplicates(pkg) = {n}
                /\ moved' = {<<n, b>>} /\ moved \subseteq {<<n, b>>} /\ b # NoBody
                /\ pkg'[Utils].imports = {}
                /\ \A m \in Idents : pkg'[Utils].defs[m] = IF m = n THEN b ELSE NoBody
        BY <2>6
    <3>2. OneMoved /\ f # Utils
        BY <3>1 DEF OneMoved
    <3>3. \A g \in Files, k \in Idents : Gives(g, k) => Gives(g, k)'
      <4> SUFFICES ASSUME NEW g \in Files, NEW k \in Idents, Gives(g, k) PROVE Gives(g, k)'
          OBVIOUS
      <4>1. CASE g = Utils
        <5>1. Gives(g, k)' <=> (pkg'[Utils].defs[k] # NoBody \/ HandedOver(g, k)')
            BY <4>1 DEF Gives
        <5>2. pkg[Utils].defs[k] # NoBody => k = n
          <6> SUFFICES ASSUME pkg[Utils].defs[k] # NoBody PROVE k = n
              OBVIOUS
          <6>1. <<k, pkg[Utils].defs[k]>> \in moved
              BY <3>2 DEF SplitterInv, UtilsHoldsMoved, Defined
          <6> QED
              BY <3>1, <6>1
        <5>3. HandedOver(Utils, k) => k = n
          <6> SUFFICES ASSUME HandedOver(Utils, k) PROVE k = n
              OBVIOUS
          <6>1. ImportIsSound(Utils, <<Utils, k>>)
              BY <2>2, <3>2 DEF HandedOver, SplitterInv, ImportsAreSound
          <6>2. Defined(pkg[Utils]) = {}
              BY DEF HandedOver
          <6>3. PICK m \in Mains(Utils) : TRUE
              BY <6>1 DEF ImportIsSound
          <6>4. PICK q \in moved : m = q[1]
              BY <6>2, <6>3 DEF Mains
          <6>5. pkg[Utils].defs[n] = b /\ n \in Idents
              BY <3>1, <3>2, <6>4 DEF SplitterInv, UtilsHoldsMoved
          <6> QED
              BY <3>1, <6>2, <6>5 DEF Defined
        <5> QED
            BY <3>1, <4>1, <5>1, <5>2, <5>3 DEF Gives
      <4>2. CASE g # Utils
        <5>1. LeafFile(g[1], k) = g
            BY <4>2 DEF Gives
        <5>2. CASE /\ \A m \in Idents : p[g].defs[m] = pkg[g].defs[m]
                   /\ p[g].imports = pkg[g].imports
          <6>1. Defined(pkg'[g]) = Defined(pkg[g])
              BY <2>1, <5>2 DEF Defined
          <6> QED
              BY <2>1, <5>1, <5>2, <6>1 DEF Gives, HandedOver
        <5>3. CASE /\ Defined(pkg[g]) = {n} /\ Defined(p[g]) = {}
                   /\ p[g].imports = pkg[g].imports \cup {<<Utils, n>>}
          <6>1. k = n
              BY <5>3 DEF Gives, HandedOver, Defined
          <6>2. HandedOver(g, k)'
              BY <2>1, <5>3, <6>1 DEF HandedOver
          <6> QED
              BY <5>1, <6>2 DEF Gives
        <5> QED
            BY <2>4, <3>1, <4>2, <5>2, <5>3
      <4> QED
          BY <4>1, <4>2
    <3>4. /\ n \in Idents /\ Utils \in Files
          /\ \A j \in pkg[f].imports : j[1] \in Files /\ j[2] \in Idents
      <4>1. pkg[f].imports \subseteq Files \X Idents
          BY <1>1 DEF SplitterTypeOK, Modules
      <4> QED
          BY <2>2, <4>1
    <3>5. Gives(Utils, n)'
        BY <3>1 DEF Gives
    <3>6. CASE /\ \A m \in Idents : p[f].defs[m] = pkg[f].defs[m]
               /\ p[f].imports = pkg[f].imports
      <4>1. Defined(pkg'[f]) = Defined(pkg[f]) /\ i \in pkg[f].imports
          BY <2>1, <3>6 DEF Defined
      <4>2. ImportIsSound(f, i)
          BY <3>2, <4>1 DEF SplitterInv, ImportsAreSound
      <4>3. Mains(f) \subseteq Mains(f)'
        <5>1. {q[1] : q \in moved} \subseteq {q[1] : q \in moved'}
            BY <2>1
        <5> QED
            BY <4>1, <5>1 DEF Mains
      <4>4. Gives(i[1], i[2])'
          BY <3>3, <3>4, <4>1, <4>2 DEF ImportIsSound
      <4> QED
          BY <4>1, <4>2, <4>3, <4>4 DEF ImportIsSound
    <3>7. CASE /\ Defined(pkg[f]) = {n} /\ Defined(p[f]) = {}
               /\ p[f].imports = pkg[f].imports \cup {<<Utils, n>>}
      <4>1. Mains(f)' = {n} /\ Defined(pkg'[f]) = {} /\ Mains(f) = {n}
        <5>1. {q[1] : q \in moved'} = {n}
            BY <3>1
        <5> QED
            BY <2>1, <3>7, <5>1 DEF Mains
      <4>2. CASE i = <<Utils, n>>
          BY <3>5, <4>1, <4>2 DEF ImportIsSound
      <4>3. CASE i \in pkg[f].imports
        <5>1. ImportIsSound(f, i)
            BY <3>2, <4>3 DEF SplitterInv, ImportsAreSound
        <5>2. Gives(i[1], i[2])'
            BY <3>3, <3>4, <4>3, <5>1 DEF ImportIsSound
        <5>3. i[2] \in Refers[n]
            BY <3>7, <4>1, <5>1 DEF ImportIsSound
        <5> QED
            BY <4>1, <5>2, <5>3 DEF ImportIsSound
      <4> QED
          BY <2>1, <3>7, <4>2, <4>3
    <3> QED
        BY <2>4, <3>1, <3>2, <3>6, <3>7
  <2>9. UnitsArePlaced'
    <3> SUFFICES ASSUME OneMoved', ~clashed, lost = {}, NEW s \in Stems, Written(s), NEW n \in Units(s)
                 PROVE  Placed(s, n)'
        BY <1>1, <1>4 DEF UnitsArePlaced
    <3>1. OneMoved
        BY <2>1 DEF OneMoved
    <3>2. Placed(s, n)
        BY <3>1 DEF SplitterInv, UnitsArePlaced
    <3>3. PICK f : f = LeafFile(s, n)
        OBVIOUS
    <3>4. f \in Files /\ f # Utils /\ n \in Idents /\ source[s][n] # NoBody
        BY <3>3, LeafFiles DEF Units
    <3>5. pkg[f].defs[n] = source[s][n] \/ (HandedOver(f, n) /\ <<n, source[s][n]>> \in moved)
        BY <3>2, <3>3 DEF Placed
    <3>6. pkg'[f].defs[n] = source[s][n] \/ (HandedOver(f, n)' /\ <<n, source[s][n]>> \in moved')
      <4>1. CASE /\ \A m \in Idents : p[f].defs[m] = pkg[f].defs[m]
                 /\ p[f].imports = pkg[f].imports
        <5>1. Defined(pkg'[f]) = Defined(pkg[f])
            BY <2>1, <4>1 DEF Defined
        <5> QED
            BY <2>1, <3>4, <3>5, <4>1, <5>1 DEF HandedOver
      <4>2. CASE \E k \in Duplicates(pkg) :
                    /\ Defined(pkg[f]) = {k} /\ pkg[f].defs[k] = Canonical(pkg, k)
                    /\ Defined(p[f]) = {}
                    /\ p[f].imports = pkg[f].imports \cup {<<Utils, k>>}
        <5>1. PICK k \in Duplicates(pkg) :
                    /\ Defined(pkg[f]) = {k} /\ pkg[f].defs[k] = Canonical(pkg, k)
                    /\ Defined(p[f]) = {}
                    /\ p[f].imports = pkg[f].imports \cup {<<Utils, k>>}
            BY <4>2
        <5>2. pkg[f].defs[n] = source[s][n]
            BY <3>5, <5>1 DEF HandedOver
        <5>3. k = n
            BY <3>4, <5>1, <5>2 DEF Defined
        <5>4. <<n, source[s][n]>> \in moved'
            BY <2>1, <5>1, <5>2, <5>3
        <5> QED
            BY <2>1, <5>1, <5>3, <5>4 DEF HandedOver
      <4> QED
          BY <2>4, <3>4, <4>1, <4>2
    <3> QED
        BY <1>1, <3>3, <3>6 DEF Placed
  <2>10. SettledInTime'
    <3>1. \A n \in Duplicates(pkg) : pkg'[Utils].defs[n] # NoBody
        BY <1>1, <2>1, <2>2, CanonicalRepeats DEF Shared
    <3> QED
        BY <1>1, <1>3, <3>1 DEF SettledInTime
  <2> QED
      BY <1>3, <2>3, <2>5, <2>7, <2>8, <2>9, <2>10 DEF SplitterInv
<1> QED
    BY <1>5, <1>6

\* A known name has a home that defines it.
LEMMA HomeDefines ==
    ASSUME SplitterAssumption, SplitterInv, stage = "inject", NEW n \in Known
    PROVE  n \in Idents /\ Home(n) \in Files /\ pkg[Home(n)].defs[n] # NoBody
<1>1. SplitterTypeOK /\ n \in Idents
    BY DEF SplitterInv, SplitterTypeOK, Known
<1>2. CASE n \in shared
    BY <1>1, <1>2, LeafFiles DEF Home, SplitterInv, SettledInTime
<1>3. CASE n \notin shared
  <2> DEFINE S == {f[1] : f \in Definers(n)}
  <2>1. Definers(n) # {} /\ Definers(n) \subseteq Files
      BY <1>3 DEF Known, Definers
  <2>2. S # {} /\ S \subseteq Nat
    <3>1. \A f \in Files : f[1] \in Nat
      <4>1. Utils[1] = Cardinality(Stems) + 1 /\ Cardinality(Stems) \in Nat
          BY FS_CardinalityType DEF Utils, SplitterAssumption
      <4> QED
          BY <4>1, LeafFiles
    <3> QED
        BY <2>1, <3>1
  <2>3. \E x \in S : \A y \in S : x <= y
    <3> HIDE DEF S
    <3> QED
        BY <2>2, LeastNatural
  <2>4. \E f \in Definers(n) : \A g \in Definers(n) : f[1] <= g[1]
      BY <2>3
  <2>5. Home(n) \in Definers(n)
      BY <1>3, <2>4 DEF Home
  <2> QED
      BY <1>1, <2>1, <2>5 DEF Definers
<1> QED
    BY <1>2, <1>3

LEMMA InjectionKeeps ==
    ASSUME SplitterAssumption, SplitterInv, InjectMissingImports
    PROVE  SplitterInv'
<1>1. /\ source' = source /\ lost' = lost /\ clashed' = clashed /\ moved' = moved
      /\ at' = at + 1 /\ shared' = {}
      /\ stage = "inject" /\ stage' = "split"
      /\ pkg' = [f \in Files |-> Injected(f)]
      /\ SplitterTypeOK /\ LeavesHoldOne
    BY DEF InjectMissingImports, SplitterInv
<1>2. \A f \in Files :
        /\ pkg'[f] = Injected(f)
        /\ pkg'[f].defs = pkg[f].defs
        /\ pkg'[f].imports = pkg[f].imports \cup {<<Home(n), n>> : n \in Missing(pkg[f]) \cap Known}
        /\ pkg'[f].typed = (pkg[f].typed \/ Defined(pkg[f]) \cap Hinted # {})
        /\ Defined(pkg'[f]) = Defined(pkg[f])
        /\ Used(pkg'[f]) = Used(pkg[f])
    BY <1>1 DEF Injected, Defined, Used
<1>3. \A n \in Known : n \in Idents /\ Home(n) \in Files /\ pkg[Home(n)].defs[n] # NoBody
    BY <1>1, HomeDefines
<1>4. ASSUME NEW f \in Files
      PROVE  /\ pkg[f].defs \in [Idents -> Bodies \cup {NoBody}]
             /\ pkg[f].imports \subseteq Files \X Idents
             /\ pkg[f].typed \in BOOLEAN
    BY <1>1 DEF SplitterTypeOK, Modules
<1>5. ASSUME NEW f \in Files
      PROVE  {<<Home(n), n>> : n \in Missing(pkg[f]) \cap Known} \subseteq Files \X Idents
    BY <1>3
<1>6. SplitterTypeOK'
  <2>1. \A f \in Files : Injected(f) \in Modules
    <3> SUFFICES ASSUME NEW f \in Files PROVE Injected(f) \in Modules
        OBVIOUS
    <3>1. pkg[f].imports \cup {<<Home(n), n>> : n \in Missing(pkg[f]) \cap Known} \in SUBSET (Files \X Idents)
        BY <1>4, <1>5
    <3>2. (pkg[f].typed \/ Defined(pkg[f]) \cap Hinted # {}) \in BOOLEAN
        OBVIOUS
    <3> HIDE <1>2
    <3> QED
        BY <1>4, <3>1, <3>2 DEF Injected, Modules
  <2>2. pkg' \in [Files -> Modules]
      BY <1>1, <2>1
  <2> QED
      BY <1>1, <2>2 DEF SplitterTypeOK
<1>7. LeavesHoldOne'
  <2> SUFFICES ASSUME NEW f \in Files PROVE BoundOnce(f)' /\ (f # Utils => HoldsOne(f)')
      BY DEF LeavesHoldOne
  <2>1. BoundOnce(f) /\ (f # Utils => HoldsOne(f))
      BY <1>1 DEF LeavesHoldOne
  <2>2. f # Utils => HoldsOne(f)'
      BY <1>2, <2>1 DEF HoldsOne
  <2>3. \A i \in pkg'[f].imports : i \in pkg[f].imports \/ (i[2] \in Missing(pkg[f]) /\ i = <<Home(i[2]), i[2]>>)
      BY <1>2
  <2>4. \A i \in pkg[f].imports : i[2] \in Imported(pkg[f])
      BY DEF Imported
  <2>5. \A n \in Defined(pkg'[f]) : n \notin Imported(pkg'[f])
      BY <1>2, <2>1, <2>3, <2>4 DEF BoundOnce, Imported, Missing
  <2>6. \A i, j \in pkg'[f].imports : i[2] = j[2] => i = j
      BY <2>1, <2>3, <2>4 DEF BoundOnce, Missing
  <2> QED
      BY <2>2, <2>5, <2>6 DEF BoundOnce
<1>8. UtilsHoldsMoved'
  <2>1. Utils \in Files
      BY LeafFiles
  <2> QED
      BY <1>1, <1>2, <2>1 DEF SplitterInv, UtilsHoldsMoved, OneMoved
<1>9. \A g \in Files : Mains(g)' = Mains(g)
    BY <1>1, <1>2 DEF Mains
<1>10. ASSUME NEW g \in Files, NEW n, HandedOver(g, n)
       PROVE  HandedOver(g, n)'
    BY <1>2, <1>10 DEF HandedOver
<1>11. ImportsAreSound'
  <2> SUFFICES ASSUME OneMoved, ~clashed, NEW f \in Files, NEW i \in pkg'[f].imports
               PROVE  ImportIsSound(f, i)'
      BY <1>1 DEF ImportsAreSound, OneMoved
  <2>1. CASE i \in pkg[f].imports
    <3>1. ImportIsSound(f, i) /\ i[1] \in Files
        BY <1>4, <2>1 DEF SplitterInv, ImportsAreSound
    <3>2. Gives(i[1], i[2])'
        BY <1>2, <1>10, <3>1 DEF ImportIsSound, Gives
    <3> QED
        BY <1>2, <1>9, <3>1, <3>2 DEF ImportIsSound
  <2>2. CASE i \in {<<Home(n), n>> : n \in Missing(pkg[f]) \cap Known}
    <3>1. PICK n \in Missing(pkg[f]) \cap Known : i = <<Home(n), n>>
        BY <2>2
    <3>2. PICK h : h = Home(n)
        OBVIOUS
    <3>3. i[1] = h /\ i[2] = n /\ h \in Files /\ pkg[h].defs[n] # NoBody /\ n \in Idents
        BY <1>3, <3>1, <3>2
    <3>4. Gives(h, n)'
      <4>1. h # Utils => LeafFile(h[1], n) = h
          BY <1>1, <3>3 DEF LeavesHoldOne, HoldsOne, Defined
      <4> QED
          BY <1>2, <3>3, <4>1 DEF Gives
    <3>5. PICK m \in Defined(pkg[f]) : n \in Refers[m]
        BY <3>1 DEF Missing, Used
    <3>6. m \in Mains(f)'
        BY <1>9, <3>5 DEF Mains
    <3> QED
        BY <3>3, <3>4, <3>5, <3>6 DEF ImportIsSound
  <2> QED
      BY <1>2, <2>1, <2>2
<1>12. UnitsArePlaced'
  <2> SUFFICES ASSUME OneMoved, ~clashed, lost = {}, NEW s \in Stems, Written(s)', NEW n \in Units(s)
               PROVE  Placed(s, n)'
      BY <1>1 DEF UnitsArePlaced, OneMoved, Units
  <2>1. Written(s)
    <3>1. s \in Nat /\ at \in Nat
        BY <1>1, LeafFiles DEF SplitterTypeOK
    <3> QED
        BY <1>1, <3>1 DEF Written
  <2>2. Placed(s, n)
      BY <2>1 DEF SplitterInv, UnitsArePlaced
  <2>3. PICK f : f = LeafFile(s, n)
      OBVIOUS
  <2>4. f \in Files
      BY <2>3, LeafFiles DEF Units
  <2>5. pkg[f].defs[n] = source[s][n] \/ (HandedOver(f, n) /\ <<n, source[s][n]>> \in moved)
      BY <2>2, <2>3 DEF Placed
  <2>6. pkg'[f].defs[n] = source[s][n] \/ (HandedOver(f, n)' /\ <<n, source[s][n]>> \in moved)
      BY <1>2, <1>10, <2>4, <2>5
  <2> QED
      BY <1>1, <2>3, <2>6 DEF Placed
<1>13. SettledInTime'
  <2>1. Settled'
    <3> SUFFICES ASSUME NEW f \in Files PROVE Supplied(f)'
        BY DEF Settled
    <3>1. SomewhereDefined' \subseteq Known
        BY <1>2, <1>4 DEF SomewhereDefined, Known, Definers, Defined
    <3>2. Imported(pkg[f]) \cup (Missing(pkg[f]) \cap Known) \subseteq Imported(pkg'[f])
      <4>1. Imported(pkg[f]) \subseteq Imported(pkg'[f])
          BY <1>2 DEF Imported
      <4>2. ASSUME NEW n \in Missing(pkg[f]) \cap Known
            PROVE  n \in Imported(pkg'[f])
        <5>1. PICK h : h = Home(n)
            OBVIOUS
        <5>2. <<h, n>> \in pkg'[f].imports /\ <<h, n>>[2] = n
            BY <1>2, <5>1
        <5> QED
            BY <5>2 DEF Imported
      <4> QED
          BY <4>1, <4>2
    <3>3. Used(pkg'[f]) \cap SomewhereDefined' \subseteq Defined(pkg'[f]) \cup Imported(pkg'[f])
        BY <1>2, <3>1, <3>2 DEF Missing
    <3>4. Defined(pkg'[f]) \cap Hinted # {} => pkg'[f].typed
        BY <1>2
    <3> QED
        BY <3>3, <3>4 DEF Supplied
  <2> QED
      BY <1>1, <2>1 DEF SettledInTime
<1>14. Finished'
    BY <1>1 DEF Finished
<1> QED
    BY <1>6, <1>7, <1>8, <1>11, <1>12, <1>13, <1>14 DEF SplitterInv

\* The steps that leave the package alone.
LEMMA OtherStepsKeep ==
    ASSUME SplitterAssumption, SplitterInv,
           BeginDecomposition \/ SkipSource \/ GenerateInit \/ EditSources \/ KillDecomposition
              \/ UNCHANGED splitterVars
    PROVE  SplitterInv'
<1>1. /\ pkg' = pkg /\ moved' = moved /\ clashed' = clashed
      /\ SplitterTypeOK /\ LeavesHoldOne /\ at \in Nat \ {0}
    BY DEF BeginDecomposition, SkipSource, GenerateInit, EditSources, KillDecomposition, splitterVars,
           SplitterInv, SplitterTypeOK
<1>2. \A s \in Stems : s \in Nat /\ s >= 1
    BY LeafFiles, FS_CardinalityType DEF SplitterAssumption
<1>3. LeavesHoldOne' /\ UtilsHoldsMoved'
    BY <1>1 DEF SplitterInv, LeavesHoldOne, BoundOnce, HoldsOne, UtilsHoldsMoved, OneMoved
<1>4. ImportsAreSound'
    BY <1>1 DEF SplitterInv, ImportsAreSound, ImportIsSound, Gives, HandedOver, Mains, OneMoved
<1>5. Settled' = Settled
    BY <1>1 DEF Settled, Supplied, SomewhereDefined
<1>6. ASSUME UNCHANGED splitterVars
      PROVE  SplitterInv'
  <2>1. /\ source' = source /\ index' = index /\ shared' = shared /\ at' = at /\ stage' = stage
        /\ lost' = lost
      BY <1>6 DEF splitterVars
  <2>2. SplitterTypeOK'
      BY <1>1, <2>1 DEF SplitterTypeOK
  <2>3. UnitsArePlaced'
      BY <1>1, <2>1 DEF SplitterInv, UnitsArePlaced, Placed, HandedOver, Written, Units, OneMoved
  <2>4. SettledInTime' /\ Finished'
      BY <1>1, <1>5, <2>1 DEF SplitterInv, SettledInTime, Finished, Units
  <2> QED
      BY <1>3, <1>4, <2>2, <2>3, <2>4 DEF SplitterInv
<1>7. ASSUME BeginDecomposition
      PROVE  SplitterInv'
  <2>1. stage = "idle" /\ stage' = "split" /\ at' = 1 /\ source' = source /\ shared' = shared
      BY <1>7 DEF BeginDecomposition
  <2>2. SplitterTypeOK'
      BY <1>1, <2>1 DEF SplitterTypeOK
  <2>3. UnitsArePlaced'
      BY <1>2, <2>1 DEF UnitsArePlaced, Written
  <2>4. SettledInTime' /\ Finished'
      BY <1>1, <1>2, <1>5, <2>1 DEF SplitterInv, SettledInTime, Finished, Units
  <2> QED
      BY <1>3, <1>4, <2>2, <2>3, <2>4 DEF SplitterInv
<1>8. ASSUME SkipSource
      PROVE  SplitterInv'
  <2>1. /\ stage = "split" /\ stage' = stage /\ at \in Stems /\ Units(at) = {} /\ at' = at + 1
        /\ source' = source /\ shared' = shared /\ lost' = lost
      BY <1>8 DEF SkipSource
  <2>2. SplitterTypeOK'
      BY <1>1, <2>1 DEF SplitterTypeOK
  <2>3. UnitsArePlaced'
    <3> SUFFICES ASSUME OneMoved, ~clashed, lost = {}, NEW s \in Stems, Written(s)', NEW n \in Units(s)
                 PROVE  Placed(s, n)'
        BY <1>1, <2>1 DEF UnitsArePlaced, OneMoved, Units
    <3>1. s # at
        BY <2>1
    <3>2. Written(s)
        BY <1>1, <1>2, <2>1, <3>1 DEF Written
    <3>3. Placed(s, n)
        BY <3>2 DEF SplitterInv, UnitsArePlaced
    <3> QED
        BY <1>1, <2>1, <3>3 DEF Placed, HandedOver
  <2>4. SettledInTime' /\ Finished'
    <3>1. Settled \/ \E s \in Stems : at + 1 <= s /\ Units(s) # {}
      <4>1. Settled \/ \E s \in Stems : at <= s /\ Units(s) # {}
          BY <2>1 DEF SplitterInv, SettledInTime
      <4> QED
          BY <1>1, <1>2, <2>1, <4>1
    <3> QED
        BY <1>5, <2>1, <3>1 DEF SettledInTime, Finished, Units
  <2> QED
      BY <1>3, <1>4, <2>2, <2>3, <2>4 DEF SplitterInv
<1>9. ASSUME GenerateInit
      PROVE  SplitterInv'
  <2>1. /\ stage = "split" /\ stage' = "done" /\ at \notin Stems /\ at' = at
        /\ source' = source /\ shared' = shared /\ lost' = lost
        /\ index' = IF \A s \in Stems : Units(s) = {} THEN index
                    ELSE {e \in Files \X Idents : pkg[e[1]].defs[e[2]] # NoBody}
      BY <1>9 DEF GenerateInit
  <2>2. SplitterTypeOK'
      BY <1>1, <2>1 DEF SplitterTypeOK
  <2>3. UnitsArePlaced'
    <3> SUFFICES ASSUME OneMoved, ~clashed, lost = {}, NEW s \in Stems, Written(s)', NEW n \in Units(s)
                 PROVE  Placed(s, n)'
        BY <1>1, <2>1 DEF UnitsArePlaced, OneMoved, Units
    <3>1. Written(s)
        BY <2>1 DEF Written
    <3>2. Placed(s, n)
        BY <3>1 DEF SplitterInv, UnitsArePlaced
    <3> QED
        BY <1>1, <2>1, <3>2 DEF Placed, HandedOver
  <2>4. \A s \in Stems : s < at
    <3>1. Cardinality(Stems) \in Nat /\ \A s \in Stems : s <= Cardinality(Stems)
        BY FS_CardinalityType DEF SplitterAssumption
    <3>2. at > Cardinality(Stems)
        BY <1>1, <2>1, <3>1 DEF SplitterAssumption
    <3> QED
        BY <1>1, <1>2, <3>1, <3>2
  <2>5. Finished'
      BY <1>1, <2>1, <2>4 DEF Finished, Units
  <2>6. SettledInTime'
      BY <1>5, <2>1 DEF SplitterInv, SettledInTime, Units
  <2> QED
      BY <1>3, <1>4, <2>2, <2>3, <2>5, <2>6 DEF SplitterInv
<1>10. ASSUME EditSources
       PROVE  SplitterInv'
  <2>1. PICK d \in Possible, b \in Bodies \cup {NoBody} : source' = [source EXCEPT ![d[1]][d[2]] = b]
      BY <1>10 DEF EditSources
  <2>2. stage = "done" /\ stage' = "idle" /\ at' = 1 /\ shared' = shared
      BY <1>10 DEF EditSources
  <2>3. source' \in [Stems -> [Idents -> Bodies \cup {NoBody}]]
    <3>1. d[1] \in Stems /\ d[2] \in Idents
        BY DEF SplitterAssumption
    <3> QED
        BY <1>1, <2>1, <3>1 DEF SplitterTypeOK
  <2>4. SplitterTypeOK'
      BY <1>1, <2>2, <2>3 DEF SplitterTypeOK
  <2>5. UnitsArePlaced'
      BY <2>2 DEF UnitsArePlaced, Written
  <2>6. Settled
    <3>1. \A s \in Stems : ~(at <= s)
        BY <1>1, <1>2, <2>2 DEF SplitterInv, Finished
    <3> QED
        BY <2>2, <3>1 DEF SplitterInv, SettledInTime
  <2>7. SettledInTime' /\ Finished'
      BY <1>5, <2>2, <2>6 DEF SettledInTime, Finished
  <2> QED
      BY <1>3, <1>4, <2>4, <2>5, <2>7 DEF SplitterInv
<1>11. ASSUME KillDecomposition
       PROVE  SplitterInv'
  <2>1. /\ stage \in {"split", "consolidate", "inject"} /\ stage' = "idle" /\ at' = 1
        /\ shared' = {} /\ source' = source
      BY <1>11 DEF KillDecomposition
  <2>2. SplitterTypeOK'
      BY <1>1, <2>1 DEF SplitterTypeOK
  <2>3. UnitsArePlaced'
      BY <2>1 DEF UnitsArePlaced, Written
  <2>4. Settled \/ \E s \in Stems : 1 <= s /\ Units(s) # {}
      BY <1>2, <2>1 DEF SplitterInv, SettledInTime
  <2>5. SettledInTime' /\ Finished'
      BY <1>5, <2>1, <2>4 DEF SettledInTime, Finished, Units
  <2> QED
      BY <1>3, <1>4, <2>2, <2>3, <2>5 DEF SplitterInv
<1> QED
    BY <1>6, <1>7, <1>8, <1>9, <1>10, <1>11

LEMMA SplitterInvariance ==
    ASSUME SplitterAssumption
    PROVE  SplitterSpec => []SplitterInv
<1>1. ASSUME SplitterInit PROVE SplitterInv
  <2>1. /\ pkg = [f \in Files |-> NoModule] /\ moved = {} /\ at = 1 /\ stage = "idle" /\ shared = {}
        /\ clashed = FALSE
      BY <1>1 DEF SplitterInit
  <2>2. /\ NoModule \in Modules /\ Defined(NoModule) = {} /\ NoModule.imports = {}
      BY DEF NoModule, Nothing, Modules, Defined
  <2>3. Utils \in Files
      BY LeafFiles
  <2>4. \A f \in Files : pkg[f] = NoModule
      BY <2>1
  <2>5. SplitterTypeOK
    <3>1. source \in [Stems -> [Idents -> Bodies \cup {NoBody}]]
        BY <1>1 DEF SplitterInit
    <3>2. pkg \in [Files -> Modules]
        BY <2>1, <2>2
    <3>3. shared \in SUBSET Idents /\ moved \in SUBSET (Idents \X Bodies)
        BY <2>1
    <3>4. at \in Nat \ {0} /\ stage \in {"idle", "split", "consolidate", "inject", "done"}
        BY <2>1
    <3>5. clashed \in BOOLEAN
        BY <2>1
    <3> QED
        BY <3>1, <3>2, <3>3, <3>4, <3>5 DEF SplitterTypeOK
  <2>6. LeavesHoldOne /\ UtilsHoldsMoved
      BY <2>1, <2>2, <2>3, <2>4 DEF LeavesHoldOne, BoundOnce, HoldsOne, Imported, UtilsHoldsMoved
  <2>7. ImportsAreSound /\ UnitsArePlaced
      BY <2>1, <2>2, <2>4 DEF ImportsAreSound, UnitsArePlaced, Written
  <2>8. Settled
      BY <2>2, <2>4 DEF Settled, Supplied, Used
  <2>9. SettledInTime /\ Finished
      BY <2>1, <2>8 DEF SettledInTime, Finished
  <2> QED
      BY <2>5, <2>6, <2>7, <2>9 DEF SplitterInv
<1>2. ASSUME SplitterInv, [SplitterNext]_splitterVars PROVE SplitterInv'
    BY <1>2, DecompositionKeeps, ConsolidationKeeps, InjectionKeeps, OtherStepsKeep DEF SplitterNext
<1> QED
    BY <1>1, <1>2, PTL DEF SplitterSpec

\* The names are bound as the equations of Binding say: what a module defines to
\* its own text, what it imports to what its source binds.
Resolves(b, n) ==
    b = [k \in 0 .. Cardinality(Files) |->
            [f \in Files |->
                IF pkg[f].defs[n] # NoBody \/ k = 0 THEN pkg[f].defs[n]
                ELSE IF SourceOf(f, n) = {} THEN NoBody
                ELSE b[k - 1][CHOOSE h \in SourceOf(f, n) : TRUE]]]

LEMMA FilesAreFinite ==
    ASSUME SplitterAssumption
    PROVE  /\ IsFiniteSet(Files) /\ Cardinality(Files) \in Nat /\ Cardinality(Files) >= 1
           /\ \A f \in Files : f # Utils => Cardinality(Files) >= 2
<1> DEFINE P == Stems \X Idents
           L == {LeafFile(s, n) : s \in Stems, n \in Idents}
           g == [x \in P |-> LeafFile(x[1], x[2])]
<1>1. IsFiniteSet(P)
    BY FS_Product DEF SplitterAssumption
<1>2. g \in Surjection(P, L)
  <2>1. g \in [P -> L]
      OBVIOUS
  <2>2. ASSUME NEW t \in L PROVE \E x \in P : g[x] = t
    <3>1. PICK s \in Stems, n \in Idents : t = LeafFile(s, n)
        OBVIOUS
    <3>2. <<s, n>> \in P /\ g[<<s, n>>] = t
        BY <3>1
    <3> QED
        BY <3>2
  <2> HIDE DEF g, L, P
  <2> QED
      BY <2>1, <2>2 DEF Surjection
<1>3. IsFiniteSet(L)
  <2> HIDE DEF g, L, P
  <2> QED
      BY <1>1, <1>2, FS_Surjection
<1>4. Files = L \cup {Utils}
    BY DEF Files
<1>5. IsFiniteSet(Files) /\ Cardinality(Files) \in Nat
  <2> HIDE DEF L
  <2> QED
      BY <1>3, <1>4, FS_AddElement, FS_CardinalityType
<1>6. Cardinality(Files) >= 1
  <2>1. Cardinality(Files) # 0
      BY <1>4, <1>5, FS_EmptySet
  <2> QED
      BY <1>5, <2>1
<1>7. ASSUME NEW f \in Files, f # Utils
      PROVE  Cardinality(Files) >= 2
  <2>1. Cardinality(Files) # 1
    <3> SUFFICES ASSUME Cardinality(Files) = 1 PROVE FALSE
        OBVIOUS
    <3>1. PICK x : Files = {x}
        BY <1>5, FS_Singleton
    <3> QED
        BY <1>4, <1>7, <3>1
  <2> QED
      BY <1>5, <1>6, <2>1
<1> QED
    BY <1>5, <1>6, <1>7

LEMMA ResolvingExists ==
    ASSUME SplitterAssumption, SplitterTypeOK, NEW n \in Idents
    PROVE  \E b : Resolves(b, n)
<1> DEFINE N == Cardinality(Files)
           V == [Files -> Bodies \cup {NoBody}]
           From(f) == CHOOSE h \in SourceOf(f, n) : TRUE
           o == [f \in Files |-> pkg[f].defs[n]]
           g == [k \in 1 .. N |-> [w \in V |->
                    [f \in Files |->
                        IF pkg[f].defs[n] # NoBody THEN pkg[f].defs[n]
                        ELSE IF SourceOf(f, n) = {} THEN NoBody
                        ELSE w[From(f)]]]]
<1>1. \A f \in Files : pkg[f].defs[n] \in Bodies \cup {NoBody} /\ SourceOf(f, n) \subseteq Files
    BY DEF SplitterTypeOK, Modules, SourceOf
<1>2. o \in V
    BY <1>1
<1>3. g \in [1 .. N -> [V -> V]]
  <2>1. ASSUME NEW w \in V, NEW f \in Files
        PROVE  (IF pkg[f].defs[n] # NoBody THEN pkg[f].defs[n]
                ELSE IF SourceOf(f, n) = {} THEN NoBody
                ELSE w[From(f)]) \in Bodies \cup {NoBody}
      BY <1>1
  <2> QED
      BY <2>1
<1>4. N \in Nat
    BY FilesAreFinite
<1>5. PICK b \in [0 .. N -> V] : Iterates(b, o, g, N)
  <2> HIDE DEF g, o, V, N
  <2> QED
      BY <1>2, <1>3, <1>4, IterationExists
<1>6. ASSUME NEW k \in 0 .. N
      PROVE  b[k] = [f \in Files |->
                        IF pkg[f].defs[n] # NoBody \/ k = 0 THEN pkg[f].defs[n]
                        ELSE IF SourceOf(f, n) = {} THEN NoBody
                        ELSE b[k - 1][From(f)]]
  <2>1. b[k] = IF k = 0 THEN o ELSE g[k][b[k - 1]]
    <3> HIDE DEF g, o, V, N
    <3> QED
        BY <1>5 DEF Iterates
  <2>2. CASE k = 0
      BY <2>1, <2>2
  <2>3. CASE k # 0
    <3>1. k \in 1 .. N /\ b[k - 1] \in V
        BY <1>4, <2>3
    <3> QED
        BY <2>1, <2>3, <3>1
  <2> QED
      BY <2>2, <2>3
<1>7. b = [k \in 0 .. N |-> [f \in Files |->
                        IF pkg[f].defs[n] # NoBody \/ k = 0 THEN pkg[f].defs[n]
                        ELSE IF SourceOf(f, n) = {} THEN NoBody
                        ELSE b[k - 1][From(f)]]]
    BY <1>6
<1> QED
    BY <1>7 DEF Resolves

\* A binding is the text of the module, or what the one module it is imported
\* from binds.
LEMMA BindingFollows ==
    ASSUME SplitterAssumption, SplitterTypeOK, LeavesHoldOne, NEW n \in Idents
    PROVE  \E b :
            /\ Binding(n) = b[Cardinality(Files)]
            /\ \A k \in 0 .. Cardinality(Files), f \in Files :
                    pkg[f].defs[n] # NoBody => b[k][f] = pkg[f].defs[n]
            /\ \A k \in 1 .. Cardinality(Files), f, h \in Files :
                    <<h, n>> \in pkg[f].imports => pkg[f].defs[n] = NoBody /\ b[k][f] = b[k - 1][h]
<1>1. PICK b : b = CHOOSE a : Resolves(a, n)
    OBVIOUS
<1>2. Resolves(b, n)
    BY <1>1, ResolvingExists
<1>3. Binding(n) = b[Cardinality(Files)]
    BY <1>1 DEF Binding, Resolves
<1>4. \A k \in 0 .. Cardinality(Files), f \in Files :
        b[k][f] = IF pkg[f].defs[n] # NoBody \/ k = 0 THEN pkg[f].defs[n]
                  ELSE IF SourceOf(f, n) = {} THEN NoBody
                  ELSE b[k - 1][CHOOSE h \in SourceOf(f, n) : TRUE]
  <2> SUFFICES ASSUME NEW k \in 0 .. Cardinality(Files), NEW f \in Files
               PROVE  b[k][f] = IF pkg[f].defs[n] # NoBody \/ k = 0 THEN pkg[f].defs[n]
                                ELSE IF SourceOf(f, n) = {} THEN NoBody
                                ELSE b[k - 1][CHOOSE h \in SourceOf(f, n) : TRUE]
      OBVIOUS
  <2>1. b[k] = [g \in Files |->
                    IF pkg[g].defs[n] # NoBody \/ k = 0 THEN pkg[g].defs[n]
                    ELSE IF SourceOf(g, n) = {} THEN NoBody
                    ELSE b[k - 1][CHOOSE h \in SourceOf(g, n) : TRUE]]
      BY <1>2 DEF Resolves
  <2> QED
      BY <2>1
<1>5. Cardinality(Files) \in Nat
    BY FilesAreFinite
<1>6. ASSUME NEW f \in Files, NEW h \in Files, <<h, n>> \in pkg[f].imports
      PROVE  pkg[f].defs[n] = NoBody /\ SourceOf(f, n) = {h}
  <2>1. <<h, n>>[1] = h /\ <<h, n>>[2] = n
      OBVIOUS
  <2>2. n \in Imported(pkg[f])
      BY <1>6, <2>1 DEF Imported
  <2>3. BoundOnce(f)
      BY DEF LeavesHoldOne
  <2>4. pkg[f].defs[n] = NoBody
      BY <2>2, <2>3 DEF BoundOnce, Defined
  <2>5. \A i \in pkg[f].imports : i[2] = n => i = <<h, n>>
      BY <1>6, <2>1, <2>3 DEF BoundOnce
  <2>6. SourceOf(f, n) = {h}
      BY <1>6, <2>1, <2>5 DEF SourceOf
  <2> QED
      BY <2>4, <2>6
<1>7. ASSUME NEW k \in 1 .. Cardinality(Files), NEW f \in Files, NEW h \in Files,
             <<h, n>> \in pkg[f].imports
      PROVE  pkg[f].defs[n] = NoBody /\ b[k][f] = b[k - 1][h]
  <2>1. pkg[f].defs[n] = NoBody /\ SourceOf(f, n) = {h}
      BY <1>6, <1>7
  <2>2. (CHOOSE x \in SourceOf(f, n) : TRUE) = h
      BY <2>1
  <2>3. k \in 0 .. Cardinality(Files) /\ k # 0
      BY <1>5
  <2> QED
      BY <1>4, <2>1, <2>2, <2>3
<1>8. \A k \in 0 .. Cardinality(Files), f \in Files :
        pkg[f].defs[n] # NoBody => b[k][f] = pkg[f].defs[n]
    BY <1>4
<1>9. \A k \in 1 .. Cardinality(Files), f, h \in Files :
        <<h, n>> \in pkg[f].imports => pkg[f].defs[n] = NoBody /\ b[k][f] = b[k - 1][h]
    BY <1>7
<1> QED
    BY <1>3, <1>8, <1>9

\* What utils.py gives, it defines.
LEMMA UtilsDefines ==
    ASSUME SplitterAssumption, SplitterInv, OneMoved, ~clashed, NEW n \in Idents, Gives(Utils, n)
    PROVE  pkg[Utils].defs[n] # NoBody /\ <<n, pkg[Utils].defs[n]>> \in moved
<1>1. Utils \in Files
    BY LeafFiles
<1>2. ASSUME HandedOver(Utils, n) PROVE FALSE
  <2>1. ImportIsSound(Utils, <<Utils, n>>) /\ Defined(pkg[Utils]) = {}
      BY <1>1, <1>2 DEF HandedOver, SplitterInv, ImportsAreSound
  <2>2. PICK q \in moved : TRUE
      BY <2>1 DEF ImportIsSound, Mains
  <2>3. q \in Idents \X Bodies /\ pkg[Utils].defs[q[1]] = q[2]
      BY DEF SplitterInv, SplitterTypeOK, UtilsHoldsMoved
  <2>4. q[1] \in Defined(pkg[Utils])
      BY <2>3 DEF Defined, SplitterAssumption
  <2> QED
      BY <2>1, <2>4
<1>3. pkg[Utils].defs[n] # NoBody
    BY <1>2 DEF Gives
<1> QED
    BY <1>3 DEF SplitterInv, UtilsHoldsMoved, Defined

\* A name that a file gives is bound there.
LEMMA GivenIsBound ==
    ASSUME SplitterAssumption, SplitterInv, OneMoved, ~clashed, NEW n \in Idents, NEW b,
           \A k \in 0 .. Cardinality(Files), f \in Files :
                    pkg[f].defs[n] # NoBody => b[k][f] = pkg[f].defs[n],
           \A k \in 1 .. Cardinality(Files), f, h \in Files :
                    <<h, n>> \in pkg[f].imports => pkg[f].defs[n] = NoBody /\ b[k][f] = b[k - 1][h],
           NEW g \in Files, Gives(g, n), NEW k \in 0 .. Cardinality(Files), k = 0 => g = Utils
    PROVE  b[k][g] # NoBody
<1>1. Cardinality(Files) \in Nat /\ Utils \in Files
    BY FilesAreFinite, LeafFiles
<1>2. CASE pkg[g].defs[n] # NoBody
    BY <1>2
<1>3. CASE HandedOver(g, n)
  <2>1. <<Utils, n>> \in pkg[g].imports
      BY <1>3 DEF HandedOver
  <2>2. Gives(Utils, n)
    <3>1. ImportIsSound(g, <<Utils, n>>)
        BY <2>1 DEF SplitterInv, ImportsAreSound
    <3> QED
        BY <3>1 DEF ImportIsSound
  <2>3. pkg[Utils].defs[n] # NoBody
      BY <2>2, UtilsDefines
  <2>4. CASE k = 0
      BY <1>1, <2>3, <2>4
  <2>5. CASE k # 0
    <3>1. k \in 1 .. Cardinality(Files) /\ k - 1 \in 0 .. Cardinality(Files)
        BY <1>1, <2>5
    <3>2. b[k][g] = b[k - 1][Utils]
        BY <1>1, <2>1, <3>1
    <3>3. b[k - 1][Utils] = pkg[Utils].defs[n]
        BY <1>1, <2>3, <3>1
    <3> QED
        BY <2>3, <3>2, <3>3
  <2> QED
      BY <2>4, <2>5
<1> QED
    BY <1>2, <1>3 DEF Gives

\* A unit that was placed is bound to its text.
LEMMA PlacedIsBound ==
    ASSUME SplitterAssumption, SplitterInv, OneMoved, ~clashed, NEW s \in Stems, NEW n \in Units(s),
           Placed(s, n)
    PROVE  Binding(n)[LeafFile(s, n)] = source[s][n]
<1>1. n \in Idents /\ LeafFile(s, n) \in Files /\ source[s][n] # NoBody
    BY LeafFiles DEF Units
<1>2. SplitterTypeOK /\ LeavesHoldOne
    BY DEF SplitterInv
<1>3. PICK b :
            /\ Binding(n) = b[Cardinality(Files)]
            /\ \A k \in 0 .. Cardinality(Files), f \in Files :
                    pkg[f].defs[n] # NoBody => b[k][f] = pkg[f].defs[n]
            /\ \A k \in 1 .. Cardinality(Files), f, h \in Files :
                    <<h, n>> \in pkg[f].imports => pkg[f].defs[n] = NoBody /\ b[k][f] = b[k - 1][h]
    BY <1>1, <1>2, BindingFollows
<1>4. PICK N : N = Cardinality(Files)
    OBVIOUS
<1>5. N \in 0 .. N /\ N \in 1 .. N /\ N - 1 \in 0 .. N
    BY <1>4, FilesAreFinite
<1>6. PICK f : f = LeafFile(s, n)
    OBVIOUS
<1>7. CASE pkg[f].defs[n] = source[s][n]
    BY <1>1, <1>3, <1>4, <1>5, <1>6, <1>7
<1>8. CASE HandedOver(f, n) /\ <<n, source[s][n]>> \in moved
  <2>1. <<Utils, n>> \in pkg[f].imports /\ Utils \in Files
      BY <1>8, LeafFiles DEF HandedOver
  <2>2. pkg[Utils].defs[n] = source[s][n]
      BY <1>8 DEF SplitterInv, UtilsHoldsMoved
  <2>3. b[N][f] = b[N - 1][Utils]
      BY <1>1, <1>3, <1>4, <1>5, <1>6, <2>1
  <2>4. b[N - 1][Utils] = source[s][n]
      BY <1>1, <1>3, <1>4, <1>5, <2>1, <2>2
  <2> QED
      BY <1>3, <1>4, <1>6, <2>3, <2>4
<1> QED
    BY <1>6, <1>7, <1>8 DEF Placed

\* Files that import each other in a circle are there for names that use each
\* other in a circle.
LEMMA CirclesAreOfUses ==
    ASSUME SplitterAssumption, SplitterInv, OneMoved, ~clashed,
           NEW S \in SUBSET Files, Circle(S, ImportsFrom)
    PROVE  \E T \in SUBSET Idents : Circle(T, Refers)
<1> DEFINE T == UNION {Mains(f) : f \in S}
<1>1. SplitterTypeOK /\ LeavesHoldOne /\ Utils \in Files
    BY LeafFiles DEF SplitterInv
<1>2. \A f \in S : \E i \in pkg[f].imports : i[1] \in S
    BY DEF Circle, ImportsFrom
<1>3. \A f \in S : \A i \in pkg[f].imports :
        ImportIsSound(f, i) /\ i[1] \in Files /\ i[2] \in Idents
  <2>1. \A f \in S : pkg[f].imports \subseteq Files \X Idents
      BY <1>1 DEF SplitterTypeOK, Modules
  <2> QED
      BY <2>1 DEF SplitterInv, ImportsAreSound
<1>4. \A f \in S : Mains(f) # {} /\ Mains(f) \subseteq Idents
  <2>1. \A f \in S : Mains(f) # {}
      BY <1>2, <1>3 DEF ImportIsSound
  <2>2. \A f \in S : Mains(f) \subseteq Idents
      BY <1>1 DEF Mains, Defined, SplitterTypeOK
  <2> QED
      BY <2>1, <2>2
\* A file is there for one name.
<1>5. ASSUME NEW f \in S, NEW m \in Mains(f), NEW n \in Mains(f)
      PROVE  m = n
  <2>1. CASE Defined(pkg[f]) = {}
      BY <2>1, <1>5 DEF Mains, OneMoved
  <2>2. CASE Defined(pkg[f]) # {} /\ f # Utils
      BY <1>1, <1>5, <2>2 DEF Mains, LeavesHoldOne, HoldsOne
  <2>3. CASE Defined(pkg[f]) # {} /\ f = Utils
    <3>1. <<m, pkg[Utils].defs[m]>> \in moved /\ <<n, pkg[Utils].defs[n]>> \in moved
        BY <1>5, <2>3 DEF Mains, SplitterInv, UtilsHoldsMoved
    <3> QED
        BY <3>1 DEF OneMoved
  <2> QED
      BY <2>1, <2>2, <2>3
\* A name that a file gives is the one the file is there for.
<1>6. ASSUME NEW g \in Files, NEW n \in Idents, Gives(g, n)
      PROVE  n \in Mains(g)
  <2>1. CASE pkg[g].defs[n] # NoBody
      BY <2>1 DEF Mains, Defined
  <2>2. CASE HandedOver(g, n)
    <3>1. <<Utils, n>> \in pkg[g].imports /\ Defined(pkg[g]) = {}
        BY <2>2 DEF HandedOver
    <3>2. Gives(Utils, n)
      <4>1. ImportIsSound(g, <<Utils, n>>)
          BY <3>1 DEF SplitterInv, ImportsAreSound
      <4> QED
          BY <4>1 DEF ImportIsSound
    <3>3. <<n, pkg[Utils].defs[n]>> \in moved /\ <<n, pkg[Utils].defs[n]>>[1] = n
        BY <3>2, UtilsDefines
    <3> QED
        BY <3>1, <3>3 DEF Mains
  <2> QED
      BY <1>6, <2>1, <2>2 DEF Gives
<1>7. ASSUME NEW m \in T
      PROVE  Refers[m] \cap T # {}
  <2>1. PICK f \in S : m \in Mains(f)
      OBVIOUS
  <2>2. PICK i \in pkg[f].imports : i[1] \in S
      BY <1>2
  <2>3. i[2] \in Mains(i[1]) /\ i[2] \in T
      BY <1>3, <1>6, <2>2 DEF ImportIsSound
  <2>4. i[2] \in Refers[m] \/ (Defined(pkg[f]) = {} /\ i = <<Utils, m>>)
      BY <1>3, <1>5, <2>1 DEF ImportIsSound
  <2>5. CASE Defined(pkg[f]) = {} /\ i = <<Utils, m>>
    <3>1. Utils \in S /\ m \in Mains(Utils) /\ Gives(Utils, m) /\ m \in Idents
        BY <1>3, <2>2, <2>3, <2>5 DEF ImportIsSound
    <3>2. pkg[Utils].defs[m] # NoBody
        BY <3>1, UtilsDefines
    <3>3. Defined(pkg[Utils]) # {}
        BY <3>1, <3>2 DEF Defined
    <3>4. PICK j \in pkg[Utils].imports : j[1] \in S
        BY <1>2, <3>1
    <3>5. j[2] \in Mains(j[1]) /\ j[2] \in T
        BY <1>3, <1>6, <3>1, <3>4 DEF ImportIsSound
    <3>6. j[2] \in Refers[m]
        BY <1>3, <1>5, <3>1, <3>3, <3>4 DEF ImportIsSound
    <3> QED
        BY <3>5, <3>6
  <2> QED
      BY <2>3, <2>4, <2>5
<1>8. T # {} /\ T \in SUBSET Idents
    BY <1>4 DEF Circle
<1> HIDE DEF T
<1> QED
    BY <1>7, <1>8 DEF Circle

\* See PackageImports of Splitter, for all sources, texts and numbers of builds:
\* a finished build leaves a package that imports, with every definition bound to
\* the text of its source (run_decomposition, run_reflux).
THEOREM PackagesImport ==
    ASSUME SplitterAssumption
    PROVE  SplitterSpec => []PackageImports
<1>1. ASSUME SplitterInv, Complete
      PROVE  LeavesKeepTheirText /\ Importable /\ NoCirclesOfItsOwn /\ Indexed
  <2>1. /\ SplitterTypeOK /\ LeavesHoldOne /\ OneMoved /\ ~clashed /\ lost = {} /\ stage = "done"
        /\ \A s \in Stems : s < at
        /\ Utils \in Files
      BY <1>1, LeafFiles DEF SplitterInv, Complete, Finished
  <2>2. \A s \in Stems : \A n \in Units(s) : Placed(s, n)
      BY <1>1, <2>1 DEF SplitterInv, UnitsArePlaced, Written
  <2>3. LeavesKeepTheirText
      BY <1>1, <2>1, <2>2, PlacedIsBound DEF LeavesKeepTheirText
  <2>4. Importable
    <3>1. Settled
      <4>1. at \in Nat /\ \A s \in Stems : s \in Nat
          BY <2>1, LeafFiles DEF SplitterTypeOK
      <4>2. \A s \in Stems : ~(at <= s)
          BY <2>1, <4>1
      <4> QED
          BY <1>1, <2>1, <4>2 DEF SplitterInv, SettledInTime
    <3>2. ASSUME NEW f \in Files, NEW i \in pkg[f].imports
          PROVE  /\ i[1] \in Files /\ i[2] \in Idents /\ Gives(i[1], i[2])
                 /\ i = <<i[1], i[2]>>
      <4>1. pkg[f].imports \subseteq Files \X Idents
          BY <2>1 DEF SplitterTypeOK, Modules
      <4>2. ImportIsSound(f, i)
          BY <1>1, <2>1 DEF SplitterInv, ImportsAreSound
      <4> QED
          BY <4>1, <4>2 DEF ImportIsSound
    <3>3. PICK N : N = Cardinality(Files)
        OBVIOUS
    <3>4. N \in 0 .. N /\ N \in 1 .. N /\ N - 1 \in 0 .. N /\ \A f \in Files : f # Utils => N - 1 # 0
        BY <3>3, FilesAreFinite
    <3>5. ASSUME NEW f \in Files, NEW i \in pkg[f].imports
          PROVE  Binding(i[2])[i[1]] # NoBody /\ Binding(i[2])[f] # NoBody
      <4>1. PICK h \in Files, n \in Idents : i = <<h, n>> /\ i[1] = h /\ i[2] = n /\ Gives(h, n)
          BY <3>2
      <4>2. PICK b :
            /\ Binding(n) = b[Cardinality(Files)]
            /\ \A k \in 0 .. Cardinality(Files), g \in Files :
                    pkg[g].defs[n] # NoBody => b[k][g] = pkg[g].defs[n]
            /\ \A k \in 1 .. Cardinality(Files), g, j \in Files :
                    <<j, n>> \in pkg[g].imports => pkg[g].defs[n] = NoBody /\ b[k][g] = b[k - 1][j]
          BY <2>1, BindingFollows
      <4>3. \A k \in 0 .. Cardinality(Files) : (k = 0 => h = Utils) => b[k][h] # NoBody
          BY <1>1, <2>1, <4>1, <4>2, GivenIsBound
      <4>4. b[N][h] # NoBody /\ b[N - 1][h] # NoBody
          BY <3>3, <3>4, <4>3
      <4>5. b[N][f] = b[N - 1][h]
          BY <3>3, <3>4, <3>5, <4>1, <4>2
      <4> QED
          BY <3>3, <4>1, <4>2, <4>4, <4>5
    <3>6. ASSUME NEW f \in Files, NEW n \in Used(pkg[f]) \cap SomewhereDefined
          PROVE  Binding(n)[f] # NoBody
      <4>1. n \in Defined(pkg[f]) \cup Imported(pkg[f])
          BY <3>1 DEF Settled, Supplied
      <4>2. CASE n \in Imported(pkg[f])
        <5>1. PICK i \in pkg[f].imports : i[2] = n
            BY <4>2 DEF Imported
        <5> QED
            BY <3>5, <5>1
      <4>3. CASE n \in Defined(pkg[f])
        <5>1. n \in Idents /\ pkg[f].defs[n] # NoBody
            BY <4>3 DEF Defined
        <5>2. PICK b :
            /\ Binding(n) = b[Cardinality(Files)]
            /\ \A k \in 0 .. Cardinality(Files), g \in Files :
                    pkg[g].defs[n] # NoBody => b[k][g] = pkg[g].defs[n]
            BY <2>1, <5>1, BindingFollows
        <5> QED
            BY <3>3, <3>4, <5>1, <5>2
      <4> QED
          BY <4>1, <4>2, <4>3
    <3> QED
        BY <3>1, <3>5, <3>6 DEF Importable, Settled, Supplied
  <2>5. NoCirclesOfItsOwn
      BY <1>1, <2>1, CirclesAreOfUses DEF NoCirclesOfItsOwn
  <2>6. Indexed
    <3> SUFFICES ASSUME NEW s \in Stems, NEW n \in Units(s) PROVE \E e \in index : e[2] = n
        BY DEF Indexed
    <3>1. index = {e \in Files \X Idents : pkg[e[1]].defs[e[2]] # NoBody}
        BY <1>1, <2>1 DEF SplitterInv, Finished
    <3>2. n \in Idents /\ LeafFile(s, n) \in Files /\ source[s][n] # NoBody
        BY LeafFiles DEF Units
    <3>3. \E f \in Files : pkg[f].defs[n] # NoBody
      <4>1. CASE pkg[LeafFile(s, n)].defs[n] = source[s][n]
          BY <3>2, <4>1
      <4>2. CASE <<n, source[s][n]>> \in moved
        <5>1. pkg[Utils].defs[n] = source[s][n]
            BY <1>1, <2>1, <4>2 DEF SplitterInv, UtilsHoldsMoved
        <5> QED
            BY <2>1, <3>2, <5>1
      <4> QED
          BY <2>2, <4>1, <4>2 DEF Placed
    <3>4. PICK f \in Files : pkg[f].defs[n] # NoBody
        BY <3>3
    <3>5. <<f, n>> \in index /\ <<f, n>>[2] = n
        BY <3>1, <3>2, <3>4
    <3> QED
        BY <3>5
  <2> QED
      BY <2>3, <2>4, <2>5, <2>6
<1>2. SplitterInv => PackageImports
    BY <1>1 DEF PackageImports
<1> QED
    BY <1>2, SplitterInvariance, PTL
=============================================================================

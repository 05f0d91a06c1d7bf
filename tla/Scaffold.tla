------------------------------ MODULE Scaffold ------------------------------
(***************************************************************************)
(* The scaffold engine, src/src/scaffold: a source entry becomes a         *)
(* repository of its own outside the tool tree.  A job generates the       *)
(* repository in a staging directory, builds it there (Rust: with one      *)
(* correction of the source from the compiler's diagnostics), may merge    *)
(* the library into the live extension layer, runs the validation command  *)
(* of the blueprint in the staging directory and promotes the staging      *)
(* directory to the distribution directory, which outlives the job.        *)
(*                                                                         *)
(* A text is the set of defects a compiler would reject it for.  A Python  *)
(* job may split its sources into modules by a mapping.  A directory that  *)
(* holds a part of its files only is the tree it was, or was to be, with   *)
(* the job that left it torn.                                              *)
(***************************************************************************)
EXTENDS Naturals, FiniteSets, Sequences, SequencesExt

CONSTANTS
    Jobs,       \* the jobs a blueprint may ask for, see JobRecord
    Names,      \* the names the modular sources define
    Uses,       \* the names the text of a name refers to
    MaxJobs,    \* bound: jobs into one distribution directory
    MaxRetries  \* builds after a correction

\* What the diagnostics of a failed build let the engine repair.
Correctable == {"mut", "type"}
Defects == Correctable \cup {"trait", "glob", "other"}

\* route: the packager chosen.  native: the source is Rust.  entries: what the
\* source files define.  where: the distribution directory is absent, outside
\* or inside the tool tree.  check: a validation command is configured.
JobRecord == [route   : {"rust", "python", "modular", "aeroc"},
              native  : BOOLEAN,
              text    : SUBSET Defects,
              anchors : SUBSET {"rug", "pyo3"},
              shims   : SUBSET {"rug_v1_30_patch", "pyo3_usize_alignment"},
              entries : Seq([Names -> 0 .. 2]),
              mapping : Seq(STRING \X SUBSET Names),
              where   : {"none", "outside", "inside"},
              build   : BOOLEAN,
              merge   : BOOLEAN,
              check   : BOOLEAN]

ASSUME ScaffoldAssumption ==
    /\ Jobs \subseteq JobRecord
    /\ Uses \in [Names -> SUBSET Names]
    /\ MaxRetries \in Nat

VARIABLES
    job,       \* the job at work
    phase,     \* where it is
    staging,   \* the staging tree of the job
    deliver,   \* the distribution directory
    live,      \* the library in the live extension layer
    tries,     \* build attempts of the job
    built,     \* build_info["succeeded"], when the key is there
    report,    \* what the pipeline said of the job that ended last
    litter,    \* did that job leave its staging directory behind?
    jobs,      \* jobs so far
    before     \* history: the distribution directory when the last job began

scaffoldVars == <<job, phase, staging, deliver, live, tries, built, report, litter, jobs, before>>

NoJob == [route |-> "none"]
NoTree == [job |-> 0, text |-> {}, files |-> <<>>, asked |-> NoJob, checked |-> FALSE, torn |-> 0]

-----------------------------------------------------------------------------
(* Modular decomposition.                                                  *)

FileOf(key) == IF key = "a.py" THEN "a" ELSE key

\* The mapping by file: two spellings of a file are one, the later wins.
Targets(j) == {FileOf(j.mapping[k][1]) : k \in 1 .. Len(j.mapping)}
Symbols(j, t) ==
    LET last == CHOOSE k \in 1 .. Len(j.mapping) :
                    /\ FileOf(j.mapping[k][1]) = t
                    /\ \A m \in k + 1 .. Len(j.mapping) : FileOf(j.mapping[m][1]) # t
    IN  j.mapping[last][2]
Moved(j) == UNION {Symbols(j, t) : t \in Targets(j)}
TargetOf(j, n) == CHOOSE t \in Targets(j) : n \in Symbols(j, t)

\* Several sources are merged by concatenation: a name defined twice is what
\* the last file says.
Orchestrator(j) == IF Len(j.entries) > 1 THEN "main" ELSE "entry"
Merged(j) == [n \in Names |->
                LET in == {k \in 1 .. Len(j.entries) : j.entries[k][n] # 0}
                IN  IF in = {} THEN 0
                    ELSE j.entries[CHOOSE k \in in : \A m \in in : m <= k][n]]

MappingError(j) ==
    \/ j.mapping = <<>>
    \/ \E k \in 1 .. Len(j.mapping) : j.mapping[k][1] = "__init__" \/ j.mapping[k][2] = {}
CollisionError(j) == \E s, t \in Targets(j) : s # t /\ Symbols(j, s) \cap Symbols(j, t) # {}
MissingError(j) == \E n \in Moved(j) : Merged(j)[n] = 0
DecomposeError(j) == MappingError(j) \/ CollisionError(j) \/ MissingError(j)

\* The imports a body needs for names that moved to another module.
CrossImports(j, t) ==
    {<<TargetOf(j, n), n>> : n \in {m \in Moved(j) : /\ m \notin Symbols(j, t)
                                                     /\ \E d \in Symbols(j, t) : m \in Uses[d]}}

ModuleOf(j, t) ==
    [defs    |-> [n \in Names |-> IF n \in Symbols(j, t) THEN Merged(j)[n] ELSE 0],
     imports |-> CrossImports(j, t)]
OrchestratorOf(j) ==
    [defs    |-> [n \in Names |-> IF n \in Moved(j) THEN 0 ELSE Merged(j)[n]],
     imports |-> {<<TargetOf(j, n), n>> : n \in Moved(j)}]

\* The orchestrator is written last, over a target of the same name.
Package(j) ==
    [f \in Targets(j) \cup {Orchestrator(j)} |->
        IF f = Orchestrator(j) THEN OrchestratorOf(j) ELSE ModuleOf(j, f)]

-----------------------------------------------------------------------------
(* The Rust shield.                                                        *)

\* The defects the pre-emptive pass removes: those of the named shims, or,
\* when none is named, those the anchors of the source call for.
Shielded(j) ==
    IF ~j.native THEN {}
    ELSE IF j.shims # {}
      THEN {d \in {"trait", "type"} : \/ d = "trait" /\ "rug_v1_30_patch" \in j.shims
                                      \/ d = "type" /\ "pyo3_usize_alignment" \in j.shims}
      ELSE {d \in {"trait", "type", "glob"} : \/ d = "trait" /\ "rug" \in j.anchors
                                              \/ d = "type" /\ j.anchors # {}
                                              \/ d = "glob" /\ "pyo3" \in j.anchors}

-----------------------------------------------------------------------------
Ended(verdict) ==
    /\ report' = verdict
    /\ job' = NoJob
    /\ phase' = "idle"
    /\ tries' = 0
    /\ built' = "absent"

\* Mutant: an error of the promotion is caught, and reported as a failed build.
Failure_Caught(says) ==
    [job |-> jobs, says |-> IF says = "raised" THEN "failed" ELSE says, asked |-> job,
     tries |-> tries, at |-> phase]

\* An exception that nobody catches: the staging directory, if there is one,
\* stays.
Failure(says) == [job |-> jobs, says |-> says, asked |-> job, tries |-> tries, at |-> phase]
Raise(says) ==
    /\ litter' = TRUE
    /\ staging' = NoTree
    /\ Ended(Failure(says))

\* A job whose entries do not resolve, or whose distribution directory lies
\* in the tool tree, ends before anything is written.
NoReport == [job |-> 0, says |-> "none", asked |-> NoJob, tries |-> 0, at |-> "begin"]

Refuse ==
    /\ phase = "idle"
    /\ jobs < MaxJobs
    /\ jobs' = jobs + 1
    /\ Ended([NoReport EXCEPT !.job = jobs + 1, !.says = "raised"])
    /\ litter' = FALSE
    /\ before' = deliver
    /\ UNCHANGED <<staging, deliver, live>>

Begin ==
    /\ phase = "idle"
    /\ jobs < MaxJobs
    /\ \E j \in Jobs :
        /\ j.where # "inside"
        /\ job' = j
    /\ jobs' = jobs + 1
    /\ phase' = "generate"
    /\ report' = NoReport
    /\ litter' = FALSE
    /\ before' = deliver
    /\ UNCHANGED <<staging, deliver, live, tries, built>>

\* The repository is written into a fresh staging directory.  A mapping that
\* does not fit the sources raises once the directory is there.
Generate ==
    /\ phase = "generate"
    /\ IF job.route = "modular" /\ DecomposeError(job)
         THEN Raise("raised")
         ELSE /\ staging' = [job     |-> jobs,
                             text    |-> job.text \ Shielded(job),
                             files   |-> IF job.route = "modular" THEN Package(job) ELSE <<>>,
                             asked   |-> job,
                             checked |-> FALSE,
                             torn    |-> 0]
              /\ phase' = "build"
              /\ UNCHANGED <<job, tries, built, report, litter>>
    /\ UNCHANGED <<deliver, live, jobs, before>>

\* Nothing to compile: no build asked for, a graph artifact, a source that is
\* not Rust on the Rust route, or no Rust toolchain on this machine.
SkipBuild ==
    /\ phase = "build"
    /\ tries = 0
    /\ \/ /\ ~job.build \/ job.route = "aeroc"
          /\ built' = "absent"
       \/ /\ job.build /\ job.route = "rust" /\ ~job.native
          /\ built' = "yes"
       \/ /\ job.build /\ job.route = "rust" /\ job.native
          /\ built' = "no"
    /\ phase' = "merge"
    /\ UNCHANGED <<job, staging, deliver, live, tries, report, litter, jobs, before>>

\* Python sources are compiled to bytecode, once.
ValidatePython ==
    /\ phase = "build"
    /\ job.build
    /\ job.route \in {"python", "modular"}
    /\ built' = IF "other" \in staging.text THEN "no" ELSE "yes"
    /\ phase' = "merge"
    /\ UNCHANGED <<job, staging, deliver, live, tries, report, litter, jobs, before>>

\* One cargo build: it succeeds on a text without defects.  Of a failed
\* one the compiler names some of the defects; while a retry is left, the
\* correctable ones among them are repaired in src/lib.rs and the build runs
\* again.
MayCorrect(named) == tries + 1 <= MaxRetries /\ named \cap Correctable # {}

CargoBuild ==
    /\ phase = "build"
    /\ job.build
    /\ job.route = "rust" /\ job.native
    /\ tries <= MaxRetries
    /\ tries' = tries + 1
    /\ IF staging.text = {}
         THEN /\ built' = "yes"
              /\ phase' = "merge"
              /\ UNCHANGED staging
         ELSE \E named \in (SUBSET staging.text) \ {{}} :
              /\ built' = "no"
              /\ staging' = IF MayCorrect(named)
                              THEN [staging EXCEPT !.text = @ \ (named \cap Correctable)]
                              ELSE staging
              /\ phase' = IF MayCorrect(named) /\ tries < MaxRetries THEN "build" ELSE "merge"
    /\ UNCHANGED <<job, deliver, live, report, litter, jobs, before>>

\* The library of a build that succeeded replaces the one in the live
\* extension layer, before the validation command has run.
MergeActive ==
    /\ phase = "merge"
    /\ live' = IF job.route = "rust" /\ job.merge /\ job.build /\ built = "yes" /\ tries > 0
                 THEN [job |-> jobs, text |-> staging.text]
                 ELSE live
    /\ phase' = "validate"
    /\ UNCHANGED <<job, staging, deliver, tries, built, report, litter, jobs, before>>

\* What ScaffoldBuildPipeline.run says: the build's verdict if one was asked
\* for, and success otherwise.
Verdict(b) == [job   |-> jobs,
               says  |-> IF ~job.build \/ b = "yes" THEN "succeeded" ELSE "failed",
               asked |-> job,
               tries |-> tries,
               at    |-> phase]

\* The validation command fails, or times out, or does not exist: the staging
\* directory goes, unless it is a temporary one that is kept.
ValidationFails ==
    /\ phase = "validate"
    /\ job.check
    /\ litter' = (job.where = "none")
    /\ staging' = NoTree
    /\ Ended(Verdict("no"))
    /\ UNCHANGED <<deliver, live, jobs, before>>

\* The command passes, or none is configured.  Without a distribution
\* directory the staging directory is the result.
ValidationPasses ==
    /\ phase = "validate"
    /\ IF job.where = "none"
         THEN /\ litter' = TRUE
              /\ staging' = NoTree
              /\ Ended(Verdict(built))
         ELSE /\ staging' = [staging EXCEPT !.checked = job.check]
              /\ phase' = "remove"
              /\ UNCHANGED <<job, tries, built, report, litter>>
    /\ UNCHANGED <<deliver, live, jobs, before>>

\* Promotion: the prior deliverable is removed, file by file, which may fail
\* on the way.
Torn(tree) == [tree EXCEPT !.torn = jobs]

CommitRemove ==
    /\ phase = "remove"
    /\ \/ /\ deliver' = NoTree
          /\ phase' = "move"
          /\ UNCHANGED <<job, staging, tries, built, report, litter>>
       \/ /\ deliver.job > 0 /\ deliver' \in {deliver, Torn(deliver)}
          /\ Raise("raised")
    /\ UNCHANGED <<live, jobs, before>>

\* shutil.move renames the staging directory, or copies it if the distribution
\* directory is on another file system.  The parent directory may not be there
\* to be made.
CommitMove ==
    /\ phase = "move"
    /\ \/ /\ deliver' = staging
          /\ staging' = NoTree
          /\ Ended(Verdict(built))
          /\ UNCHANGED litter
       \/ /\ deliver' = Torn(staging)
          /\ phase' = "copy"
          /\ UNCHANGED <<job, staging, tries, built, report, litter>>
       \/ /\ Raise("raised")
          /\ UNCHANGED deliver
    /\ UNCHANGED <<live, jobs, before>>

\* copytree goes on past a file it cannot copy, and raises at the end.
CommitCopy ==
    /\ phase = "copy"
    /\ \/ /\ deliver' = staging
          /\ phase' = "clear"
          /\ UNCHANGED <<job, staging, tries, built, report, litter>>
       \/ /\ Raise("raised")
          /\ UNCHANGED deliver
    /\ UNCHANGED <<live, jobs, before>>

\* The staging directory is removed once it is copied.
CommitClear ==
    /\ phase = "clear"
    /\ \/ /\ staging' = NoTree
          /\ Ended(Verdict(built))
          /\ UNCHANGED litter
       \/ Raise("raised")
    /\ UNCHANGED <<deliver, live, jobs, before>>

\* The process dies.  Its staging directory stays where it is, and so does what
\* a removal or a copy of it left in the distribution directory.
KillJob ==
    /\ phase # "idle"
    /\ litter' = (staging.job # 0)
    /\ staging' = NoTree
    /\ Ended(Failure("killed"))
    /\ \/ UNCHANGED deliver
       \/ phase = "remove" /\ deliver.job > 0 /\ deliver' = Torn(deliver)
    /\ UNCHANGED <<live, jobs, before>>

ScaffoldInit ==
    /\ job = NoJob
    /\ phase = "idle"
    /\ staging = NoTree
    /\ deliver = NoTree
    /\ live = [job |-> 0, text |-> {}]
    /\ tries = 0
    /\ built = "absent"
    /\ report = NoReport
    /\ litter = FALSE
    /\ jobs = 0
    /\ before = NoTree

ScaffoldNext ==
    \/ Refuse \/ Begin \/ Generate \/ SkipBuild \/ ValidatePython \/ CargoBuild
    \/ MergeActive \/ ValidationFails \/ ValidationPasses
    \/ CommitRemove \/ CommitMove \/ CommitCopy \/ CommitClear \/ KillJob

ScaffoldSpec == ScaffoldInit /\ [][ScaffoldNext]_scaffoldVars
-----------------------------------------------------------------------------
\* What the pipeline says of a job is true of the distribution directory.  A
\* job that ended before its promotion left the directory as it found it.  One
\* that returned after it has its own whole tree there: success means that the
\* text compiles, failure after a compile that it does not.  One that raised or
\* was killed on the way left what it found, nothing, its own whole tree, or a
\* torn one; so a directory is never torn by a job that returned, nor does
\* such a job leave its staging directory behind.  The live extension layer
\* only ever holds a library of a text that compiles.  Success
\* without a promotion is for jobs that ask for no build, whatever the
\* validation command says, and for those without a distribution directory
\* (ScaffoldEngine._finalize_workspace, OutOfTreeWorkspace.commit,
\* DiagnosticRecoveryRunner.run, ScaffoldBuildPipeline.run).
Promotion == {"remove", "move", "copy", "clear"}
Returned == report.says \in {"succeeded", "failed"}
Compiled == report.asked.route = "rust" /\ report.asked.native /\ report.tries > 0

Untouched == report.at \notin Promotion => deliver = before
ReturnedIsWhole ==
    Returned /\ report.at \in Promotion =>
        /\ deliver.job = report.job /\ deliver.torn = 0
        /\ Compiled => (deliver.text = {} <=> report.says = "succeeded")
SuccessIsPromoted ==
    /\ report.says = "succeeded" /\ report.asked.build /\ report.asked.where = "outside"
    => report.at \in Promotion
CutShort ==
    ~Returned /\ report.at \in Promotion =>
        \/ deliver \in {before, NoTree}
        \/ deliver.job = report.job /\ deliver.torn \in {0, report.job}
        \/ deliver.job = before.job /\ deliver.torn = report.job

ReportIsTrue ==
    phase = "idle" /\ report.job > 0 =>
        /\ Untouched /\ ReturnedIsWhole /\ SuccessIsPromoted /\ CutShort
        /\ Returned /\ report.asked.where = "outside" => ~litter
        /\ live.job > 0 => live.text = {}

\* A deliverable that is not torn has passed the validation command of its job,
\* and a modular one is whole: every definition of the merged sources is in exactly
\* one file with its last text, every moved one is bound in the orchestrator,
\* and a module binds every moved name its own definitions use - provided the
\* orchestrator's file is not a target too (ModularDecomposer.decompose,
\* resolve_cross_imports, merge_source_asts).
Holding(p, n) == {f \in DOMAIN p : p[f].defs[n] # 0}
Whole(j, p) ==
    \A n \in Names :
        /\ Merged(j)[n] # 0 =>
              \E f \in DOMAIN p : Holding(p, n) = {f} /\ p[f].defs[n] = Merged(j)[n]
        /\ n \in Moved(j) => \E f \in Holding(p, n) : <<f, n>> \in p[Orchestrator(j)].imports
        /\ \A f \in DOMAIN p : \A d \in Names :
              p[f].defs[d] # 0 /\ n \in Uses[d] \cap Moved(j) =>
                  \/ p[f].defs[n] # 0
                  \/ \E g \in Holding(p, n) : <<g, n>> \in p[f].imports
PackageIsWhole ==
    deliver.job > 0 /\ deliver.torn = 0 =>
        /\ deliver.asked.check => deliver.checked
        /\ (deliver.asked.route = "modular" /\ Orchestrator(deliver.asked) \notin Targets(deliver.asked))
              => Whole(deliver.asked, deliver.files)

\* The report of a job is true of the deliverable, and a deliverable that no
\* raised or killed job left torn is whole and has passed its validation
\* (ScaffoldEngine._finalize_workspace, OutOfTreeWorkspace.commit,
\* ScaffoldBuildPipeline.run, ModularDecomposer.decompose).
PromotionIsHonest == ReportIsTrue /\ PackageIsWhole
=============================================================================

------------------------ MODULE TranslationPipeline ------------------------
(***************************************************************************)
(* The code translation pipeline, src/translator: what of a source file    *)
(* becomes a mesh recipe in the blueprint directory.  A run wraps the      *)
(* file's external calls, routes the functions that cannot be translated   *)
(* around the translator, translates the others, filters recipes that      *)
(* repeat themselves, executes every translated function beside the        *)
(* original, and writes the recipe when none was rejected.  A rejected     *)
(* function takes the recipe of its source off the disk and leaves a flag. *)
(*                                                                         *)
(* Every phase reads the source file anew, so an edit between two phases   *)
(* is seen by the later ones only.  Recipes and wrappers are named after   *)
(* the file's base name, which files of other directories share.  The      *)
(* compiler of recipes, meta_compiler, is not in the repository: it may be *)
(* absent, and a present one may refuse a recipe.                          *)
(***************************************************************************)
EXTENDS Naturals, FiniteSets, Sequences, SequencesExt

CONSTANTS
    SourceFiles, \* the paths of source files
    Base,        \* the base name of each
    Versions,    \* the texts each may have
    Requests,    \* the lists of names a run is asked for; All stands for None
    All,
    Concurrency, \* modules of threads and processes,
    Devices,     \* of hardware drivers and GPUs,
    Stdlib,      \* and of the standard library
    Family,      \* the family of each operation a function is translated to
    HasInputs,   \* the functions some test input is known for
    Scans,       \* what a scan of telemetry files may find: their schemas
    MaxNodes,    \* _MAX_NODES_PER_MESH
    MaxFamily,   \* _MAX_FAMILY_INSTANCES
    MinGroup,    \* files of one schema that make a hot path
    HotName,     \* the name of the k-th hot path
    MaxRuns, MaxEdits, MaxMesh   \* bounds

\* A text: its language ("bad" does not parse), the modules it imports, and
\* its functions in the order of the walk over its tree.  top: the function is
\* an attribute of the module.  pure: two calls return the same.  ops: what it
\* translates to.
Function == [name : STRING, top : BOOLEAN, pure : BOOLEAN, marks : SUBSET STRING,
             calls : SUBSET STRING, inside : SUBSET STRING, ops : Seq(DOMAIN Family)]

ASSUME PipelineAssumption ==
    /\ \A f \in SourceFiles : \A c \in Versions[f] : c.fns \in Seq(Function)
    /\ \A q \in Requests : q # All => q \in Seq(STRING)

Special == Concurrency \cup Devices

VARIABLES
    text,      \* what each source file holds
    recipes,   \* the recipes in the blueprint directory, by name
    flags,     \* the functions flagged as not translatable
    wrappers,  \* the generated wrapper modules, by base name
    mesh,      \* the blocks of the mesh recipe that evolution mutates
    run,       \* the run at work
    compiler,  \* whether meta_compiler can be imported
    runs, edits

pipelineVars == <<text, recipes, flags, wrappers, mesh, run, compiler, runs, edits>>

Idle == [phase |-> "idle"]
Named(c) == {c.fns[i].name : i \in DOMAIN c.fns}
First(c, n) == c.fns[CHOOSE i \in DOMAIN c.fns :
                        c.fns[i].name = n /\ \A j \in 1 .. i - 1 : c.fns[j].name # n]
LastOf(c, n) == c.fns[CHOOSE i \in DOMAIN c.fns :
                        c.fns[i].name = n /\ \A j \in i + 1 .. Len(c.fns) : c.fns[j].name # n]

-----------------------------------------------------------------------------
(* External calls and routing.                                             *)

\* A module outside the standard library is external, the project's own too.
IsExternal(m) == m \notin Stdlib

\* The calls of the file's functions that need a wrapper, one per call text; of
\* functions of one name the last counts.
ExternalCalls(c) ==
    IF c.lang # "py" THEN {}
    ELSE UNION {{m \in LastOf(c, n).calls : m \in c.imports /\ IsExternal(m)} : n \in Named(c)}

ExternalModules(c) == {m \in c.imports : m \in Special \/ IsExternal(m)}

\* Why a function is left to the original: patterns in its text, calls into
\* external modules and imports in its body.
Reasons(c, fn) ==
    IF c.lang = "rs" THEN fn.marks \cap {"memory", "thread", "lifetime"}
    ELSE (fn.marks \cap {"thread", "unsafe"})
         \cup (fn.calls \cap ExternalModules(c)) \cup (fn.inside \cap Special)

\* Routing is by name: one cold function makes all of its name cold.
ColdNames(c) ==
    IF c.lang = "bad" THEN {}
    ELSE {c.fns[i].name : i \in {j \in DOMAIN c.fns : Reasons(c, c.fns[j]) # {}}}

-----------------------------------------------------------------------------
(* Translation, by the Python grammar only.                                *)

\* The names translate_file goes through; a name twice in the file is taken
\* twice, and stands for its first function both times.
Wanted(c, request) ==
    IF c.lang # "py" THEN <<>>
    ELSE IF request = All THEN [i \in DOMAIN c.fns |-> c.fns[i].name] ELSE request

\* The names of the list that are members of S, in the order of the list.
Chosen(names, S) ==
    LET kept[k \in 0 .. Len(names)] ==
            IF k = 0 THEN <<>>
            ELSE IF names[k] \in S THEN Append(kept[k - 1], names[k]) ELSE kept[k - 1]
    IN  kept[Len(names)]

\* Mutant: the functions found by discovery are not filtered.
Translatable_Discovered(c, request, cold) ==
    Chosen(Wanted(c, request),
           {n \in Named(c) : (request = All \/ n \notin cold) /\ First(c, n).ops # <<>>})

Translatable(c, request, cold) ==
    Chosen(Wanted(c, request), {n \in Named(c) : n \notin cold /\ First(c, n).ops # <<>>})

\* The nodes between the first and the last of a recipe: one per operation, up
\* to the bounds on the mesh and on each family.
Admit(nodes, o) ==
    IF \/ Len(nodes) + 1 >= MaxNodes - 1
       \/ Cardinality({i \in DOMAIN nodes : Family[nodes[i].op] = Family[o.op]}) >= MaxFamily
    THEN nodes ELSE Append(nodes, o)
AdmitAll(nodes, n, ops) ==
    LET tried[k \in 0 .. Len(ops)] ==
            IF k = 0 THEN nodes ELSE Admit(tried[k - 1], [fn |-> n, op |-> ops[k]])
    IN  tried[Len(ops)]
RecipeBody(c, names) ==
    LET grown[k \in 0 .. Len(names)] ==
            IF k = 0 THEN <<>> ELSE AdmitAll(grown[k - 1], names[k], First(c, names[k]).ops)
    IN  grown[Len(names)]

Marker(what) == [fn |-> "", op |-> what]
Blocks(nodes) == <<Marker("init")>> \o nodes \o <<Marker("final")>>

\* structural_diversity: distinct task bodies among all, 0.4 at least.  The
\* header of a recipe counts as a body.
Diverse(blocks) == 5 * (Cardinality(ToSet(blocks)) + 1) >= 2 * (Len(blocks) + 1)

\* The two Shannon entropies are either verdict.
CheckEntropy(blocks, entropic) == entropic /\ Diverse(blocks)

-----------------------------------------------------------------------------
(* The differential sandbox: what a call of function n of text c comes to  *)
(* when the function itself comes to o.                                    *)

Loaded(c, n, o) ==
    IF c.lang = "bad" THEN "syntax error"
    ELSE IF n \notin Named(c) \/ ~First(c, n).top THEN "not found" ELSE o
ExecuteLegacy(c, n, o) == Loaded(c, n, o)

\* The translated side compiles the recipe and then calls the original.
ExecuteTranslated(c, n, o, compiles) == IF compiles THEN Loaded(c, n, o) ELSE "no recipe"

\* Values compare by hash and exceptions by text, so a pair that raised the
\* same is a match.
Outcomes == {"value", "other value", "raised"}
RunDifferential(c, n, first, second, compiles) ==
    \A i \in DOMAIN first :
        ExecuteLegacy(c, n, first[i]) = ExecuteTranslated(c, n, second[i], compiles)

Repeats(c, n) == n \in Named(c) /\ First(c, n).top /\ First(c, n).pure

-----------------------------------------------------------------------------
PipelineInit ==
    /\ text \in [SourceFiles -> UNION {Versions[f] : f \in SourceFiles}]
    /\ \A f \in SourceFiles : text[f] \in Versions[f]
    /\ recipes = <<>>
    /\ flags = {}
    /\ wrappers = <<>>
    /\ mesh = <<Marker("mesh")>>
    /\ run = Idle
    /\ compiler \in {"present", "absent"}
    /\ runs = 0
    /\ edits = 0

\* Phase 0a: the file is analysed and its wrappers are written.
Start(f, request, write) ==
    /\ run = Idle
    /\ runs < MaxRuns
    /\ runs' = runs + 1
    /\ run' = [phase |-> "route", file |-> f, request |-> request, write |-> write]
    /\ wrappers' = IF ExternalCalls(text[f]) = {} THEN wrappers
                   ELSE (Base[f] :> ExternalCalls(text[f])) @@ wrappers
    /\ UNCHANGED <<text, recipes, flags, mesh, compiler, edits>>

\* Phase 0b: the names to leave alone.
Route ==
    /\ run.phase = "route"
    /\ run' = [phase |-> "translate", file |-> run.file, request |-> run.request,
               write |-> run.write, cold |-> ColdNames(text[run.file])]
    /\ UNCHANGED <<text, recipes, flags, wrappers, mesh, compiler, runs, edits>>

\* Phases 1 to 3: nothing to translate and a recipe that repeats itself end the
\* run, and what an earlier run wrote stays.
Translate(entropic) ==
    /\ run.phase = "translate"
    /\ LET c == text[run.file]
           names == Translatable(c, run.request, run.cold)
           body == RecipeBody(c, names)
       IN  run' = IF names = <<>> \/ ~CheckEntropy(Blocks(body), entropic) THEN Idle
                  ELSE [phase |-> "verify", file |-> run.file, write |-> run.write,
                        cold |-> run.cold, body |-> body, todo |-> names,
                        vetted |-> {}, rejected |-> {}]
    /\ UNCHANGED <<text, recipes, flags, wrappers, mesh, compiler, runs, edits>>

Verified(good, bad) ==
    [phase |-> "verify", file |-> run.file, write |-> run.write, cold |-> run.cold,
     body |-> run.body, todo |-> Tail(run.todo),
     vetted |-> run.vetted \cup good, rejected |-> run.rejected \cup bad]
Rollback(f, n) == [r \in DOMAIN recipes \ {Base[f]} |-> recipes[r]]

\* Phase 4, one function: without inputs it is skipped; a mismatch removes the
\* recipe of the source and flags the function by its bare name.
VerifyTranslation(first, second, compiles) ==
    /\ run.phase = "verify"
    /\ run.todo # <<>>
    /\ LET n == Head(run.todo)
           c == text[run.file]
           accepted == n \notin HasInputs \/ RunDifferential(c, n, first, second, compiles)
       IN  /\ compiles => compiler = "present"
           /\ Repeats(c, n) => first = second
           /\ IF accepted
              THEN /\ run' = Verified({n}, {})
                   /\ UNCHANGED <<recipes, flags>>
              ELSE /\ run' = Verified({}, {n})
                   /\ recipes' = Rollback(run.file, n)
                   /\ flags' = flags \cup {n}
    /\ UNCHANGED <<text, wrappers, mesh, compiler, runs, edits>>

MayWrite(r) == r.write /\ r.rejected = {}

\* Phase 5.
Finish ==
    /\ run.phase = "verify"
    /\ run.todo = <<>>
    /\ recipes' = IF ~MayWrite(run) THEN recipes
                  ELSE [r \in DOMAIN recipes \cup {Base[run.file]} |->
                            IF r # Base[run.file] THEN recipes[r]
                            ELSE [of |-> "source", file |-> run.file, body |-> run.body,
                                  vetted |-> run.vetted, cold |-> run.cold]]
    /\ run' = IF run.rejected = {} THEN Idle ELSE [phase |-> "aborted", file |-> run.file]
    /\ UNCHANGED <<text, flags, wrappers, mesh, compiler, runs, edits>>

\* The summary of an aborted run is printed; the recipe is judged before that.
Report ==
    /\ run.phase = "aborted"
    /\ run' = Idle
    /\ UNCHANGED <<text, recipes, flags, wrappers, mesh, compiler, runs, edits>>

\* evolve_with_translation: the mesh grows by the blocks of a translation.  It
\* is neither routed nor verified.  The parameters of the grown mesh are never
\* those of the old one, since the new blocks bring some.
ParamRecycled(old, new) == Len(old) = Len(new)
EvolveWithTranslation(f, request, entropic) ==
    /\ Len(mesh) < MaxMesh
    /\ LET c == text[f]
           names == Translatable(c, request, {})
           combined == mesh \o Blocks(RecipeBody(c, names))
       IN  /\ names # <<>>
           /\ mesh' = IF CheckEntropy(combined, entropic) /\ ~ParamRecycled(mesh, combined)
                      THEN combined ELSE mesh
    /\ UNCHANGED <<text, recipes, flags, wrappers, run, compiler, runs, edits>>

\* run_pipeline: telemetry files of one schema, MinGroup at least, are a hot
\* path; its recipe is written first and compiled then, and one that does not
\* compile stays.  Hot paths are numbered by their schema's first appearance,
\* schemas of too few files included.
Schemas(scan) == SelectSeq([i \in DOMAIN scan |-> <<i, scan[i]>>],
                           LAMBDA p : \A j \in 1 .. p[1] - 1 : scan[j] # p[2])
Group(scan, s) == SelectSeq(scan, LAMBDA x : x = s)
IdentifyHotpaths(scan) ==
    {k \in DOMAIN Schemas(scan) : Len(Group(scan, Schemas(scan)[k][2])) >= MinGroup}
HotpathRecipe(scan, k) ==
    LET most == IF MaxFamily < MaxNodes - 2 THEN MaxFamily ELSE MaxNodes - 2
        members == Len(Group(scan, Schemas(scan)[k][2]))
    IN  [of |-> "telemetry", schema |-> Schemas(scan)[k][2],
         readers |-> IF members < most THEN members ELSE most]
RunHotPipeline(scan) ==
    /\ compiler = "present"
    /\ IdentifyHotpaths(scan) # {}
    /\ LET hot == {HotName[k] : k \in IdentifyHotpaths(scan)}
       IN  recipes' = [r \in DOMAIN recipes \cup hot |->
                          IF r \notin hot THEN recipes[r]
                          ELSE HotpathRecipe(scan, CHOOSE k \in IdentifyHotpaths(scan) :
                                                       HotName[k] = r)]
    /\ UNCHANGED <<text, flags, wrappers, mesh, run, compiler, runs, edits>>

\* Somebody edits a source file, during a run or between two.
Edit(f, c) ==
    /\ edits < MaxEdits
    /\ edits' = edits + 1
    /\ c # text[f]
    /\ text' = [text EXCEPT ![f] = c]
    /\ UNCHANGED <<recipes, flags, wrappers, mesh, run, compiler, runs>>

\* The process of a run is killed.
KillRun ==
    /\ run # Idle
    /\ run' = Idle
    /\ UNCHANGED <<text, recipes, flags, wrappers, mesh, compiler, runs, edits>>

\* The two callers of the translator, and what happens around them.
PipelineNext ==
    \/ \E f \in SourceFiles, q \in Requests, w \in BOOLEAN : Start(f, q, w)
    \/ Route
    \/ \E e \in BOOLEAN : Translate(e)
    \/ \E a, b \in [1 .. 1 -> Outcomes], k \in BOOLEAN : VerifyTranslation(a, b, k)
    \/ Finish
    \/ Report
    \/ \E s \in Scans : RunHotPipeline(s)
    \/ KillRun
MeshNext ==
    \E f \in SourceFiles, q \in Requests, e \in BOOLEAN : EvolveWithTranslation(f, q, e)
EditNext == \E f \in SourceFiles : \E c \in Versions[f] : Edit(f, c)

TranslationNext == PipelineNext \/ MeshNext \/ EditNext

TranslationSpec == PipelineInit /\ [][TranslationNext]_pipelineVars

-----------------------------------------------------------------------------
\* When a run ends with a rejected function no recipe made from a source of that
\* name is left, not the one of an earlier run nor that of a namesake.
RejectionLeavesNoRecipe ==
    run.phase = "aborted" =>
        \A r \in DOMAIN recipes : r = Base[run.file] => recipes[r].of # "source"

\* A recipe of a source holds functions only that the run which wrote it has
\* verified or had no inputs for, and none that run had routed around the
\* translator, whatever was edited meanwhile; a rejection leaves none on the
\* disk (run_translation_pipeline, apply_rollback).
RecipesAreVetted ==
    /\ \A r \in DOMAIN recipes :
         recipes[r].of = "source" =>
             \A i \in DOMAIN recipes[r].body :
                 recipes[r].body[i].fn \in recipes[r].vetted \ recipes[r].cold
    /\ RejectionLeavesNoRecipe
=============================================================================

------------------------------ MODULE MCPackages ------------------------------
(***************************************************************************)
(* The ways a source becomes something else: the decomposition stage of a  *)
(* build (Splitter), a generated file with a user's edits (OverlayManager),*)
(* the scaffold engine (Scaffold), the code translation pipeline over two  *)
(* files of one base name and one named like a hot path, with the mesh     *)
(* that the same translations grow (TranslationPipeline), and the shared   *)
(* generator of the FFI bridge and complete requests to it (FfiBridge).    *)
(* Nothing one of them changes is read by another, so a behaviour is of    *)
(* the one that side names.                                                *)
(***************************************************************************)
EXTENDS Scaffold, TranslationPipeline, FfiBridge, Splitter, OverlayManager

VARIABLE side

ASSUME SplitterAssumption /\ OverlayAssumption

-----------------------------------------------------------------------------
\* Three sources.  g is used by f, and f by the class G, whose file is that of g.
Sources == {1, 2, 3}
Definitions == {"f", "g", "G"}
LowerCase == [n \in Definitions |-> IF n = "G" THEN "g" ELSE n]
Mentioned == [n \in Definitions |-> CASE n = "f" -> {"g"} [] n = "G" -> {"f"} [] OTHER -> {}]
MayHold == {<<1, "f">>, <<1, "g">>, <<2, "f">>, <<2, "g">>, <<2, "G">>, <<3, "f">>}

-----------------------------------------------------------------------------
\* A file that two blueprints generate: the second changes a statement of f,
\* drops one of g and adds h.  Its last line is one of f and of h, and g has a
\* line of the first text's f, so that what a patch looks for is found where it
\* was not, too.  The user writes a statement with another operator, one with
\* another operand, one that a blueprint has, and the header of h.
Def(n) == [op |-> "def", args |-> <<n>>]
Stmt(op, x, v) == [op |-> op, args |-> <<x, v>>]
TwoTexts ==
    { <<Def("f"), Stmt("+", "x", 1), Stmt("+", "y", 1),
        Def("g"), Stmt("+", "x", 1), Stmt("+", "z", 1)>>,
      <<Def("f"), Stmt("+", "v", 2), Stmt("+", "y", 1),
        Def("g"), Stmt("+", "z", 1), Def("h"), Stmt("+", "y", 1)>> }
UsersLines == {Stmt("-", "x", 1), Stmt("+", "w", 1), Stmt("+", "v", 2), Def("h")}

\* Two edits with a build that records its baselines; one with a build whose
\* stage is run again, and one with a build that does not record them.
OverlayConditions == {{}, {"again"}, {"unrecorded", "blueprint"}}
Changes == [c \in OverlayConditions |-> IF c = {} THEN 2 ELSE 1]

-----------------------------------------------------------------------------
\* Scaffold jobs: Rust crates with every kind of defect, plain and graph
\* packages, and modular packages of one or two sources.
Text(f, g) == [n \in {"f", "g"} |-> IF n = "f" THEN f ELSE g]
Crate == [route |-> "rust", native |-> TRUE, text |-> {}, anchors |-> {}, shims |-> {},
          entries |-> <<>>, mapping |-> <<>>, where |-> "outside",
          build |-> TRUE, merge |-> FALSE, check |-> FALSE]
Crates ==
    {[Crate EXCEPT !.text = t, !.anchors = a, !.shims = IF c THEN s ELSE {}, !.merge = TRUE, !.check = c] :
        t \in {{}, {"mut"}, {"mut", "trait"}, {"mut", "type"}, {"other", "glob"}},
        a \in {{}, {"rug"}}, s \in {{}, {"pyo3_usize_alignment"}}, c \in BOOLEAN}
Others ==
    {[Crate EXCEPT !.native = n, !.where = w, !.check = c, !.build = b] :
        n \in BOOLEAN, w \in {"none", "outside", "inside"}, c \in BOOLEAN, b \in BOOLEAN}
    \cup {[Crate EXCEPT !.native = FALSE, !.route = r, !.text = t, !.check = (t # {})] :
            r \in {"python", "aeroc"}, t \in {{}, {"other"}}}
Modular ==
    {[Crate EXCEPT !.native = FALSE, !.route = "modular", !.entries = e, !.mapping = m] :
        e \in {<<Text(1, 0)>>, <<Text(1, 1)>>,
               <<Text(1, 1), Text(2, 0)>>, <<Text(0, 1), Text(1, 2)>>},
        m \in {<<>>, << <<"a", {"f"}>> >>, << <<"a", {"f", "g"}>> >>,
               << <<"a", {"f"}>>, <<"a.py", {"g"}>> >>, << <<"a", {"f"}>>, <<"b", {"g"}>> >>,
               << <<"a", {"f"}>>, <<"b", {"f"}>> >>, << <<"__init__", {"f"}>> >>,
               << <<"main", {"f"}>> >>, << <<"a", {}>> >>}}
ScaffoldJobs == Crates \cup Others \cup Modular
FUsesG == [n \in {"f", "g"} |-> IF n = "f" THEN {"g"} ELSE {}]

\* Texts of the translation pipeline, and functions of a text.
Fn(n, ops) == [name |-> n, top |-> TRUE, pure |-> TRUE, marks |-> {}, calls |-> {},
               inside |-> {}, ops |-> ops]
Py(imports, fns) == [lang |-> "py", imports |-> imports, fns |-> fns]

Sheets == {"a/x.py", "b/x.py", "c/hp.py"}
SheetName == [f \in Sheets |-> IF f = "c/hp.py" THEN "hp1" ELSE "x"]
SheetTexts == [f \in Sheets |->
    CASE f = "a/x.py" ->
           {Py({}, <<Fn("f", <<"loop", "call">>), Fn("g", <<"call", "call">>)>>),
            Py({"threading"}, <<[Fn("f", <<"call">>) EXCEPT !.inside = {"threading"}],
                                [Fn("g", <<"loop">>) EXCEPT !.pure = FALSE]>>),
            \* A cold method and a function of one name.
            Py({}, <<Fn("f", <<"loop">>), [Fn("f", <<"call">>) EXCEPT !.marks = {"thread"}],
                     [Fn("g", <<"call">>) EXCEPT !.top = FALSE]>>)}
      [] f = "b/x.py" ->
           {Py({"numpy"}, <<[Fn("f", <<"call">>) EXCEPT !.calls = {"numpy"}], Fn("h", <<"loop">>)>>),
            [lang |-> "bad", imports |-> {}, fns |-> <<>>]}
      [] OTHER ->
           {Py({}, <<Fn("h", <<>>), [Fn("g", <<"loop", "loop", "loop">>) EXCEPT !.pure = FALSE]>>),
            [lang |-> "rs", imports |-> {}, fns |-> <<[Fn("g", <<"loop">>) EXCEPT !.marks = {"memory"}]>>]}]

Asked == {All, <<"f", "g">>}
OwnFamily == [o \in {"loop", "call"} |-> o]
HotNames == <<"hp0", "hp1">>
Telemetry == {<<"s", "t", "t">>}

-----------------------------------------------------------------------------
(* The bridge: two functions of one name, and one named like the legacy of  *)
(* another.                                                                 *)

HotFunctions == {[name |-> "f", sig |-> 1], [name |-> "f", sig |-> 2],
                 [name |-> "f_legacy", sig |-> 1]}
SafeIdent == [n \in {"f", "f_legacy"} |-> n]
LegacyNames == [n \in {"f", "f_legacy"} |-> IF n = "f" THEN "f_legacy" ELSE "f_legacy_legacy"]
TemplateDirs == <<"project", "package">>
Registries == [d \in {"project", "package"} |->
                  IF d = "project" THEN [e \in {<<"f", "wrapper">>} |-> "custom"]
                  ELSE [e \in {<<"default", "legacy">>} |-> "custom"]]
ProjectSets == {{}, {"project"}}

-----------------------------------------------------------------------------
MCInit ==
    /\ side \in {"splitter", "overlay", "scaffold", "pipeline", "mesh", "shared", "files"}
    /\ ScaffoldInit
    /\ BridgeInit
    /\ side \notin {"shared", "files"} => \A e \in DOMAIN templates : templates[e] = 1
    /\ PipelineInit
    /\ side # "pipeline" => compiler = "present"
    /\ side \notin {"pipeline", "mesh"} =>
         \A f \in Sheets : text[f] = CHOOSE c \in SheetTexts[f] : TRUE
    /\ SplitterInit
    /\ side # "splitter" => source = [s \in Sources |-> Nothing]
    /\ OverlayInit
    /\ side # "overlay" => may = {} /\ Len(file) = 6

MCNext ==
    \/ side = "splitter" /\ SplitterNext
                         /\ UNCHANGED <<side, vars, scaffoldVars, pipelineVars, bridgeVars>>
    \/ side = "overlay" /\ OverlayNext
                        /\ UNCHANGED <<side, splitterVars, scaffoldVars, pipelineVars, bridgeVars>>
    \/ side = "scaffold" /\ ScaffoldNext
                         /\ UNCHANGED <<side, splitterVars, vars, pipelineVars, bridgeVars>>
    \/ side = "pipeline" /\ (PipelineNext \/ EditNext)
                         /\ UNCHANGED <<side, splitterVars, vars, scaffoldVars, bridgeVars>>
    \/ side = "mesh" /\ (MeshNext \/ EditNext)
                     /\ UNCHANGED <<side, splitterVars, vars, scaffoldVars, bridgeVars>>
    \/ side = "shared" /\ (SharedNext \/ TemplateNext)
                       /\ UNCHANGED <<side, splitterVars, vars, scaffoldVars, pipelineVars>>
    \/ side = "files" /\ (RequestNext \/ TemplateNext)
                      /\ UNCHANGED <<side, splitterVars, vars, scaffoldVars, pipelineVars>>

MCSpec == MCInit /\ [][MCNext]_<<splitterVars, vars, side, scaffoldVars, pipelineVars, bridgeVars>>
=============================================================================

------------------------------ MODULE Blueprint ------------------------------
(***************************************************************************)
(* blueprint_parser.py: one blueprint.aero in any of its dialects becomes  *)
(* a build context, the fallback context of the manifest, or an error.     *)
(* The lean dialect infers its graph (invisible_config), the living one    *)
(* has a registry (blueprint/loader.py), JSON passes through, the block    *)
(* DSL is validated (blueprint_lang) and ordered by BuildGraph, and the    *)
(* INI dialect checks its own dependency map.  A name is its place in the  *)
(* dependency map, 0 one that no entry has or the lean invariants node.    *)
(***************************************************************************)
EXTENDS BuildGraph, SequencesExt

CONSTANT Docs   \* the documents that may be read

VARIABLES
    doc,        \* the blueprint
    phase,      \* "reading", "visiting", "ordering", or how it ended
    color,      \* of the names the depth-first search has met
    stack,      \* its path: names, each with the place of its next dependency
    report,     \* the cycle it reported
    context     \* the context handed to the engines

parsing == <<doc, phase, color, stack, report, context>>
Invariants == 0

Names == DOMAIN doc.needs

\* The names are those of the dependency map, to which an INI document's targets
\* are added (setdefault); what a DSL document has are targets.
DocAssumption ==
    \A d \in Docs :
        /\ d.targets \in Seq(Targets)
        /\ DOMAIN d.needs \subseteq Targets /\ d.needs \in [DOMAIN d.needs -> Seq(0..N)]
        /\ d.dialect = "ini" => ToSet(d.targets) \subseteq DOMAIN d.needs
        /\ d.dialect = "dsl" => DOMAIN d.needs = Targets

ASSUME DocsAreRead == DocAssumption

\* What each name depends on.
Rows(needs) == [n \in DOMAIN needs |-> ToSet(needs[n])]

\* What an optional section holds in a document: "absent", "given" or "bad".
MachineSections == {"gpu"}
PackageSections == {"analysis", "validation"}
Sections == MachineSections \cup PackageSections

Defaults == [s \in Sections |-> "default"]

\* _default_optional_sections and normalize_optional_sections: a section that is
\* given replaces its default, and one that is bad is refused.
Normalized ==
    [s \in Sections |-> IF doc.optional[s] = "given" THEN "given" ELSE "default"]
MachineRefused == \E s \in MachineSections : doc.optional[s] = "bad"
PackageRefused == \E s \in PackageSections : doc.optional[s] = "bad"

-----------------------------------------------------------------------------
NoContext == [targets |-> << >>, matrix |-> << >>, edges |-> << >>,
              settings |-> Defaults, scan |-> << >>]

ParseInit ==
    /\ doc \in Docs
    /\ phase = "reading"
    /\ color = [n \in Names |-> "white"]
    /\ stack = << >>
    /\ report = << >>
    /\ context = NoContext

\* _attach_parser_validation: what the scanners are pointed at.
ScanTargets(targets) ==
    IF doc.dialect = "toml" /\ doc.paths # << >> THEN doc.paths ELSE targets

Loaded(targets, matrix, settings) ==
    /\ phase' = "loaded"
    /\ context' = [targets |-> targets, matrix |-> matrix, edges |-> matrix,
                   settings |-> settings, scan |-> ScanTargets(targets)]

\* create_fallback_context: scanner, decision_tree and parameter_tuner (1, 2, 3)
\* in a chain, while dependency_matrix is empty.
Fallback ==
    /\ phase' = "fallback"
    /\ context' = [targets |-> <<1, 2, 3>>, matrix |-> << >>,
                   edges |-> <<{}, {1}, {2}>>,
                   settings |-> Defaults, scan |-> << >>]

Raised == phase' = "raised" /\ UNCHANGED context

Reading(dialect) ==
    /\ phase = "reading" /\ doc.dialect = dialect
    /\ UNCHANGED <<doc, color, stack, report>>

-----------------------------------------------------------------------------
\* parse_blueprint without a file.
NotFound == Reading("missing") /\ Fallback

\* _add_dep: no name twice, and none on itself.
AddDeps(name, deps) == deps \ {name}

Cores == ToSet(doc.targets) \cap doc.cores

\* DAGInferenceEngine.infer: compiled cores depend on the ingested text
\* invariants, and bindings on every core.
InferredDeps(n) ==
    IF n \notin doc.cores THEN AddDeps(n, Cores)
    ELSE IF doc.ingest THEN {Invariants} ELSE {}

\* parse_lean_blueprint: a line that is neither a project nor an assignment, one
\* of them twice, no project, or no targets.
LeanRefused == doc.fault # "none" \/ doc.targets = << >>

InferLean ==
    /\ Reading("lean")
    /\ IF LeanRefused
       THEN Fallback
       ELSE /\ phase' = "loaded"
            /\ context' = [targets |-> doc.targets,
                           matrix |-> [n \in ToSet(doc.targets) |-> InferredDeps(n)],
                           edges |-> [n \in ToSet(doc.targets) |-> InferredDeps(n)],
                           settings |-> Defaults, scan |-> << >>]

\* LivingBlueprint: what the document holds is coerced, never refused.
Coerced(s) == IF doc.optional[s] = "absent" THEN "default" ELSE "given"

\* The targets are the tables of the registry, without dependencies; only
\* [validation] is taken from the document.
LoadLiving ==
    /\ Reading("toml")
    /\ IF doc.fault # "none"
       THEN Fallback
       ELSE Loaded(doc.targets, [n \in ToSet(doc.targets) |-> {}],
                   [Defaults EXCEPT !["validation"] = Coerced("validation")])

\* parse_json_blueprint checks that its sections are there, and [analysis]; what
\* else it holds passes through.
ParseJson ==
    /\ Reading("json")
    /\ IF doc.fault # "none" \/ doc.optional["analysis"] = "bad"
       THEN Raised
       ELSE Loaded(doc.targets, Rows(doc.needs),
                   [s \in Sections |-> IF doc.optional[s] = "absent" THEN "default"
                                       ELSE doc.optional[s]])

-----------------------------------------------------------------------------
Unknown == {n \in Names : \E i \in DOMAIN doc.needs[n] : doc.needs[n][i] \notin Names}

\* The parser of the DSL, and the stages of its validator: the shape of the
\* document (unknown and repeated blocks, no target) with the schema of each
\* block (keys, types, languages, sources), then the names the targets require.
Unparsed == doc.fault = "layout"
ShapeErrors == doc.fault = "shape" \/ doc.targets = << >>
SchemaErrors == doc.fault = "schema"

ValidateDsl ==
    /\ Reading("dsl")
    /\ IF Unparsed \/ ShapeErrors \/ SchemaErrors \/ Unknown # {}
       THEN Raised
       ELSE phase' = "visiting" /\ UNCHANGED context

\* parse_blueprint_content: layout, sections and targets; a document without
\* targets has no map to check; then field types and optional sections.
Malformed == doc.fault \in {"layout", "sections"}
Mistyped == doc.fault = "field"

ParseIni ==
    /\ Reading("ini")
    /\ IF \/ Malformed \/ MachineRefused \/ PackageRefused
          \/ doc.targets # << >> /\ (Unknown # {} \/ Mistyped)
       THEN Fallback
       ELSE IF doc.targets = << >>
       THEN Loaded(<< >>, << >>, Normalized)
       ELSE phase' = "visiting" /\ UNCHANGED context

-----------------------------------------------------------------------------
\* detect_cycles and _find_cycle: depth first, in the order of the map.
Visiting == phase = "visiting" /\ UNCHANGED doc
Top == stack[Len(stack)]
Path == [i \in DOMAIN stack |-> stack[i].node]
Neighbour == doc.needs[Top.node][Top.next]
More == stack # << >> /\ Top.next <= Len(doc.needs[Top.node])
Advanced == [stack EXCEPT ![Len(stack)].next = @ + 1]
White == {n \in Names : color[n] = "white"}

Enter(below, n) ==
    /\ stack' = Append(below, [node |-> n, next |-> 1])
    /\ color' = [color EXCEPT ![n] = "gray"]
    /\ UNCHANGED <<phase, report, context>>

NextRoot ==
    /\ Visiting /\ stack = << >>
    /\ \E n \in White : (\A m \in White : n <= m) /\ Enter(<< >>, n)

Descend ==
    /\ Visiting /\ More
    /\ color[Neighbour] = "white" /\ Enter(Advanced, Neighbour)

Skip_Gray ==  \* Mutant: a name on the path counts as seen.
    /\ Visiting /\ More
    /\ color[Neighbour] # "white"
    /\ stack' = Advanced
    /\ UNCHANGED <<phase, color, report, context>>

Skip ==
    /\ Visiting /\ More
    /\ color[Neighbour] = "black"
    /\ stack' = Advanced
    /\ UNCHANGED <<phase, color, report, context>>

Leave ==
    /\ Visiting /\ stack # << >> /\ ~More
    /\ color' = [color EXCEPT ![Top.node] = "black"]
    /\ stack' = SubSeq(stack, 1, Len(stack) - 1)
    /\ UNCHANGED <<phase, report, context>>

Start(n) == CHOOSE i \in DOMAIN stack : stack[i].node = n

\* _find_cycle: stack[start:] + [neighbour].
Closed(n) == Append(SubSeq(Path, Start(n), Len(Path)), n)

\* detect_cycles follows the parents up to the one that n is the parent of; a
\* name that requires itself is never its own parent, and takes all of them.
Traced(n) ==
    Append(IF n = Top.node THEN Path ELSE SubSeq(Path, Start(n) + 1, Len(Path)), n)

Found ==
    /\ Visiting /\ More
    /\ color[Neighbour] = "gray"
    /\ IF doc.dialect = "ini"
       THEN report' = Traced(Neighbour) /\ Fallback
       ELSE report' = Closed(Neighbour) /\ Raised
    /\ UNCHANGED <<color, stack>>

\* Without a cycle an INI blueprint is loaded with its map, while a DSL one goes
\* through blueprint_to_dag.
Visited == Visiting /\ stack = << >> /\ White = {} /\ UNCHANGED <<color, stack, report>>

LoadIni ==
    /\ Visited /\ doc.dialect = "ini"
    /\ Loaded(doc.targets, Rows(doc.needs), Normalized)

\* blueprint_to_dag hands the targets and what they require to the sort.
ToDag ==
    /\ Visited /\ doc.dialect = "dsl"
    /\ phase' = "ordering"
    /\ requires' = [n \in Targets |-> doc.needs[n]]
    /\ indegree' = [n \in Targets |-> Cardinality(DOMAIN doc.needs[n])]
    /\ ready' = {n \in Targets : doc.needs[n] = << >>}
    /\ UNCHANGED <<resolved, pc, context>>

Matrix == [n \in Targets |-> Dependencies(n)]

\* to_build_context, with the optional sections at their defaults.
LoadDsl ==
    /\ phase = "ordering" /\ pc # "sorting"
    /\ IF pc = "done" THEN Loaded(resolved, Matrix, Defaults) ELSE Raised
    /\ UNCHANGED <<doc, color, stack, report>>

ParseNext ==
    \/ /\ \/ NotFound \/ InferLean \/ LoadLiving \/ ParseJson \/ ValidateDsl \/ ParseIni
          \/ NextRoot \/ Descend \/ Skip \/ Leave \/ Found \/ LoadIni \/ LoadDsl
       /\ UNCHANGED vars
    \/ ToDag
    \/ phase = "ordering" /\ GraphNext /\ UNCHANGED parsing

\* Nothing is sorted before a document of the DSL has been validated.
Unsorted ==
    /\ requires = [n \in Targets |-> << >>]
    /\ indegree = [n \in Targets |-> 0]
    /\ ready = {} /\ resolved = << >> /\ pc = "sorting"

ParseSpec == ParseInit /\ Unsorted /\ [][ParseNext]_<<parsing, vars>>

-----------------------------------------------------------------------------
Edge(m, n) == m \in Names /\ n \in ToSet(doc.needs[m])
CycleIn(S) == S # {} /\ \A n \in S : \E m \in S : Edge(n, m)

\* A context that an engine is given to build from can be built: its targets are
\* nodes of its graph, each dependency is a node too (the lean dialect's
\* invariants aside), no nodes wait on each other, and no optional section
\* holds a value that was to be refused.  JSON is excepted: what it holds beyond
\* [analysis] is passed on unread.
AcceptedGraphIsSound ==
    phase = "loaded" /\ doc.dialect # "json" =>
        LET nodes == DOMAIN context.matrix
            deps(n) == context.matrix[n]
        IN  /\ ToSet(context.targets) \subseteq nodes
            /\ \A n \in nodes : deps(n) \subseteq
                    nodes \cup (IF doc.dialect = "lean" THEN {Invariants} ELSE {})
            /\ \A S \in SUBSET nodes : S = {} \/ \E n \in S : deps(n) \cap S = {}
            /\ \A s \in Sections : context.settings[s] # "bad"

\* The names require one another in this order and the last depends on itself;
\* the validator's list is the cycle alone.
TellsOfCycle(names) ==
    /\ \A i \in 1..(Len(names) - 1) : Edge(names[i], names[i + 1])
    /\ \E S \in SUBSET Names : CycleIn(S) /\ names[Len(names)] \in S
    /\ doc.dialect = "dsl" => names[1] = names[Len(names)]

\* What a document is refused for, other than a cycle.
AtFault ==
    \/ doc.fault # "none" \/ Unknown # {}
    \/ doc.dialect \in {"lean", "dsl"} /\ doc.targets = << >>
    \/ \E s \in Sections : doc.optional[s] = "bad"

\* A blueprint is refused for a fault that it has, or for a cycle and with a
\* report of it: the names reported require one another in this order, and the
\* last of them depends on itself; the validator of the DSL reports the cycle and
\* nothing but the cycle.  A blueprint that it lets pass is not refused by the
\* sort behind it.
RefusalIsJustified ==
    /\ report # << >> => TellsOfCycle(report)
    /\ phase \in {"raised", "fallback"} /\ doc.dialect # "missing" /\ report = << >> =>
        AtFault
    /\ phase = "ordering" => pc # "cyclic"

\* What the parser says of a blueprint is right: an accepted one can be built,
\* and a refused one has a fault or a cycle (parse, detect_cycles,
\* blueprint_to_dag).
VerdictIsJustified == AcceptedGraphIsSound /\ RefusalIsJustified
=============================================================================

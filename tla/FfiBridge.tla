------------------------------ MODULE FfiBridge ------------------------------
(***************************************************************************)
(* The generator of the Rust FFI bridge, src/translator/artifact_generator *)
(* and ffi_codegen: wrappers for hot functions, the originals kept under   *)
(* legacy names, and the hooks between them, rendered from templates that  *)
(* registries choose.  One generator is shared by every caller of the      *)
(* module-level functions and remembers all it has emitted; a request for  *)
(* a complete set of files makes a generator of its own.                   *)
(*                                                                         *)
(* A text is a record of what it was rendered from.                        *)
(***************************************************************************)
EXTENDS Naturals, FiniteSets, Sequences, SequencesExt

CONSTANTS
    Fns,         \* hot functions: [name, sig]
    Ident,       \* safe_ident of a name
    LegacyName,  \* the legacy name of an identifier
    Dirs,        \* template directories, the first one taken first
    Registry,    \* per directory, templates for <<identifier, kind>>
    Blueprints,  \* the sets of project directories callers may name
    MaxTexts,    \* bound: texts handed out
    MaxVersion   \* bound: versions of a template file

\* The legacy name has a suffix that the identifier has not.
ASSUME BridgeAssumption ==
    \A f \in Fns : LegacyName[Ident[f.name]] # Ident[f.name]

VARIABLES
    generator,  \* the shared generator
    templates,  \* the template files, by directory and name: their version
    given,      \* the texts handed out by the shared generator
    files       \* what the last complete request produced

bridgeVars == <<generator, templates, given, files>>

NoGenerator == [made |-> FALSE, dirs |-> <<>>, registry |-> <<>>, loaded |-> <<>>, output |-> <<>>]
NoFiles == [lib |-> <<>>, legacy |-> <<>>, hooks |-> <<>>, defined |-> {}, conflicts |-> {}]

\* assign_nodes: the k-th hot function of a crate gets the k-th hook.
AssignNodes(fns) ==
    [k \in DOMAIN fns |-> [ident |-> Ident[fns[k].name], sig |-> fns[k].sig, hook |-> k]]

-----------------------------------------------------------------------------
(* Templates.                                                              *)

\* Registries are merged entry by entry, an earlier directory over a later.
LoadRegistries(dirs) ==
    FoldLeft(LAMBDA acc, d : acc @@ Registry[d], <<>>, dirs)

\* The project's directories come before the generator's own.
NewGenerator(project) ==
    LET dirs == SelectSeq(Dirs, LAMBDA d : d \in project \cup {"package"})
    IN  [made |-> TRUE, dirs |-> dirs, registry |-> LoadRegistries(dirs),
         loaded |-> <<>>, output |-> <<>>]

Generic == "generic"
TemplateFor(g, ident, kind) ==
    IF <<ident, kind>> \in DOMAIN g.registry THEN g.registry[<<ident, kind>>]
    ELSE IF <<"default", kind>> \in DOMAIN g.registry THEN g.registry[<<"default", kind>>]
    ELSE Generic

\* resolve: the first directory that has the file.
Holders(g, t) == {k \in DOMAIN g.dirs : templates[<<g.dirs[k], t>>] > 0}
Resolve(g, t) ==
    LET k == CHOOSE k \in Holders(g, t) : \A m \in Holders(g, t) : k <= m
    IN  <<g.dirs[k], templates[<<g.dirs[k], t>>]>>

\* load: a template is read once by a generator.
Load(g, t) == IF t \in DOMAIN g.loaded THEN g.loaded[t] ELSE Resolve(g, t)
Found(g, t) == t \in DOMAIN g.loaded \/ Holders(g, t) # {}

-----------------------------------------------------------------------------
(* Emission: a generator defines an identifier once.  Asked again for the  *)
(* same hook it repeats its text, and for another hook it refuses.         *)

Refused == [text |-> [kind |-> "refused"]]
With(f, x, y) == [z \in DOMAIN f \cup {x} |-> IF z = x THEN y ELSE f[z]]

\* Mutant: only the pair of name and hook is looked up.
Emit_ByKey(g, ident, hook, kind, node) ==
    IF ident \in DOMAIN g.output /\ g.output[ident].hook = hook
    THEN [text |-> g.output[ident], g |-> g]
    ELSE LET t == TemplateFor(g, node.ident, kind)
             new == [kind |-> kind, ident |-> ident, hook |-> hook, sig |-> node.sig, template |-> t]
         IN  IF ~Found(g, t) THEN Refused
             ELSE [text |-> new, g |-> [g EXCEPT !.output = With(@, ident, new)]]

Emit(g, ident, hook, kind, node) ==
    LET t == TemplateFor(g, node.ident, kind)
    IN  IF ident \in DOMAIN g.output
        THEN IF g.output[ident].hook = hook THEN [text |-> g.output[ident], g |-> g] ELSE Refused
        ELSE IF ~Found(g, t) THEN Refused
        ELSE LET new == [kind |-> kind, ident |-> ident, hook |-> hook, sig |-> node.sig,
                         template |-> Load(g, t)]
             IN  [text |-> new,
                  g |-> [made |-> g.made, dirs |-> g.dirs, registry |-> g.registry,
                         loaded |-> With(g.loaded, t, Load(g, t)),
                         output |-> With(g.output, ident, new)]]

Wrapper(g, node) == Emit(g, node.ident, node.hook, "wrapper", node)
Legacy(g, node) == Emit(g, LegacyName[node.ident], node.hook, "legacy", node)

\* One node of a complete request: nothing for an identifier that an earlier
\* node had, else the wrapper, the legacy function and the hook.  A refusal
\* ends all.
EmitBoth(acc, node) ==
    IF acc.refused \/ node.ident \in acc.seen THEN acc
    ELSE LET w == Wrapper(acc.g, node)
             l == Legacy(w.g, node)
         IN  IF w = Refused \/ l = Refused THEN [acc EXCEPT !.refused = TRUE]
             ELSE [g |-> l.g, refused |-> FALSE, seen |-> acc.seen \cup {node.ident},
                   lib |-> Append(acc.lib, w.text), legacy |-> Append(acc.legacy, l.text),
                   hooks |-> Append(acc.hooks, node.hook)]

Blank(g) == [g |-> g, refused |-> FALSE, seen |-> {},
              lib |-> <<>>, legacy |-> <<>>, hooks |-> <<>>]
EmitAll(g, nodes) ==
    LET after[k \in 0 .. Len(nodes)] ==
            IF k = 0 THEN Blank(g) ELSE EmitBoth(after[k - 1], nodes[k])
    IN  after[Len(nodes)]

Requested(nodes) ==
    UNION {{nodes[k].ident, LegacyName[nodes[k].ident]} : k \in DOMAIN nodes}
CheckConflicts(nodes, defined) == Requested(nodes) \cap defined

-----------------------------------------------------------------------------
BridgeInit ==
    /\ generator = NoGenerator
    /\ templates \in [ToSet(Dirs) \X {Generic, "custom"} -> 0 .. 1]
    /\ given = {}
    /\ files = NoFiles

\* The shared generator is made by its first caller; the blueprints of later
\* callers are not looked at.
GetGenerator(project) == IF generator.made THEN generator ELSE NewGenerator(project)

HandOut(result) ==
    /\ Cardinality(given) < MaxTexts
    /\ result # Refused
    /\ generator' = result.g
    /\ given' = given \cup {result.text}
    /\ UNCHANGED <<templates, files>>

GenerateWrapperFn(project, node) == HandOut(Wrapper(GetGenerator(project), node))
GenerateLegacyDispatch(project, node) == HandOut(Legacy(GetGenerator(project), node))

\* register: the mapping of a name is replaced as a whole.
Register(ident, kinds) ==
    /\ generator.made
    /\ generator' = [generator EXCEPT !.registry =
                        [e \in {x \in DOMAIN @ : x[1] # ident} \cup {<<ident, k>> : k \in kinds} |->
                            IF e[1] = ident THEN "custom" ELSE @[e]]]
    /\ UNCHANGED <<templates, given, files>>

\* A complete request.  Names the source defines are reported and nothing is
\* rendered; a name the request itself would define twice raises, and the
\* caller is left with what it had.
GenerateFfiArtifacts(project, fns, defined) ==
    LET nodes == AssignNodes(fns)
        conflicts == CheckConflicts(nodes, defined)
        all == EmitAll(NewGenerator(project), nodes)
    IN  /\ files' = IF conflicts # {}
                    THEN [lib |-> <<>>, legacy |-> <<>>, hooks |-> <<>>,
                          defined |-> defined, conflicts |-> conflicts]
                    ELSE IF all.refused THEN files
                    ELSE [lib |-> all.lib, legacy |-> all.legacy, hooks |-> all.hooks,
                          defined |-> defined, conflicts |-> {}]
        /\ UNCHANGED <<generator, templates, given>>

\* Somebody writes a template file.
WriteTemplate(d, t) ==
    /\ templates[<<d, t>>] < MaxVersion
    /\ templates' = [templates EXCEPT ![<<d, t>>] = @ + 1]
    /\ UNCHANGED <<generator, given, files>>

\* Calls to the shared generator, complete requests, edits of templates.
SharedNext ==
    \/ \E p \in Blueprints, f \in Fns, k \in 1 .. 2 :
          LET node == [ident |-> Ident[f.name], sig |-> f.sig, hook |-> k]
          IN  GenerateWrapperFn(p, node) \/ GenerateLegacyDispatch(p, node)
    \/ \E f \in Fns, kinds \in SUBSET {"wrapper", "legacy"} : Register(Ident[f.name], kinds)
RequestNext ==
    \E p \in Blueprints, f, h \in Fns, defined \in SUBSET {Ident[e.name] : e \in Fns} :
        GenerateFfiArtifacts(p, <<f, h>>, defined)
TemplateNext ==
    \E d \in ToSet(Dirs), t \in {Generic, "custom"} : WriteTemplate(d, t)

BridgeNext == SharedNext \/ RequestNext \/ TemplateNext

BridgeSpec == BridgeInit /\ [][BridgeNext]_bridgeVars

-----------------------------------------------------------------------------
\* A name is defined once: the shared generator never hands out two texts for
\* one name, however its callers, their registries and the templates change,
\* and the files of a complete request define no name twice and none that the
\* source defines, among wrappers and legacy functions together (wrapper,
\* legacy, generate_ffi_artifacts).
DefinedOnce ==
    /\ \A s, t \in given : s.ident = t.ident => s = t
    /\ LET texts == files.lib \o files.legacy
       IN  /\ \A i, j \in DOMAIN texts : texts[i].ident = texts[j].ident => i = j
           /\ \A i \in DOMAIN texts : texts[i].ident \notin files.defined
=============================================================================

------------------------------ MODULE MCWorkspace ------------------------------
(***************************************************************************)
(* What processes change in a workspace they share: the replay ledger      *)
(* (ReplayBuffer), the engine's own sources (StagedBuild), and what comes  *)
(* in from outside: the files of [context] and the registry                *)
(* (ContextIngest).  The variable side says which of them a behaviour is   *)
(* about.                                                                  *)
(***************************************************************************)
EXTENDS ReplayBuffer, ContextIngest, StagedBuild

\* A file that is there and processes that live, or first use of the file with
\* processes that are killed and a disk that fills up.
QuietOrAnything == {{}, {"fresh", "crash", "write"}}

-----------------------------------------------------------------------------
\* Two self-hosting builds: one after the other, all well or not; as two
\* threads; as two processes.
TwoBuilds  == {"b1", "b2"}
TwoTargets == {"engine", "brain"}
OnePython  == {"engine"}
FourPasses ==
    {{}, {"fails", "dies"}, {"together"}, {"together", "apart", "dies"}}

-----------------------------------------------------------------------------
\* Two files outside.  Texts: an unused import beside a name to import; a line
\* with two statements; a license before a __future__ import; a statement of
\* several lines to insert behind, an import alone in its block; no Python.
Outside == {"a.py", "b.py"}
Alone(n, only) == [names |-> {n}, line |-> n, only |-> only]
Program(imports, uses, header) ==
    [kind |-> "python", imports |-> imports, uses |-> uses, header |-> header, bare |-> TRUE]
OutsideTexts ==
    { Program({Alone("json", FALSE)}, {"math"}, "plain"),
      Program({Alone("os", FALSE), [Alone("toml", FALSE) EXCEPT !.line = "os"]}, {"toml"}, "plain"),
      Program({Alone("annotations", FALSE)}, {"math"}, "comment"),
      Program({Alone("json", TRUE)}, {"math"}, "split"),
      [Program({}, {}, "plain") EXCEPT !.kind = "broken"],
      [Program({}, {}, "plain") EXCEPT !.kind = "binary"] }
\* The registry tells texts apart by what the parsers make of them; without the
\* grammar only a broken one is another case, and beside a blueprint that is no
\* TOML none is.
OnePerKind == {t \in OutsideTexts : t.header = "plain" /\ \A i \in t.imports : i.line # "os"}
Inside  == {"x", "y"}
Rules   == {"remove_unused", "auto_import", "type_inference"}
Entry(f, d, mode, rules) == [from |-> f, to |-> d, mode |-> mode, rules |-> rules]
OutsidePlans ==
    { <<Entry("a.py", "x", m, r), Entry("b.py", d, n, q)>> :
        m \in {"copy", "symlink"}, r \in {{}, Rules}, d \in Inside,
        n \in {"copy", "symlink"}, q \in {{}, {"auto_import"}} }

\* Trees of one directory name each, one of them like "aero-1.0".
DirTrees == [c \in {"lib", "app", "aero-1.0"} |->
             CASE c = "lib" -> <<"a.py", "b.py">> [] c = "app" -> <<"b.py">> [] OTHER -> <<"a.py">>]
DirNames == [c \in {"lib", "app", "aero-1.0"} |-> IF c = "aero-1.0" THEN "dotted" ELSE "bare"]

-----------------------------------------------------------------------------
VARIABLE side

\* The parts a behaviour is not about are in one state they may start in.
NoBuffer  == BufferInit /\ may = {} /\ file = Array(<< >>)
NoOutside == /\ Init /\ grammar /\ ~harmed
             /\ source = [f \in Outside |-> CHOOSE t \in OutsideTexts : t.kind = "broken"]
NoBuild   == StagedInit /\ stagedMay = {}

MCInit ==
    \/ side = "ledger" /\ BufferInit /\ NoBuild /\ NoOutside
    \/ side = "build" /\ NoBuffer /\ StagedInit /\ NoOutside
    \/ side = "context" /\ NoBuffer /\ NoBuild /\ Init /\ grammar /\ ~harmed
       /\ source["b.py"] \in OnePerKind
    \/ side = "registry" /\ NoBuffer /\ NoBuild /\ Init
       /\ source["a.py"] \in OnePerKind /\ source["b.py"].imports # {}
       /\ source["b.py"] \in OnePerKind
       /\ \/ grammar /\ ~harmed
          \/ ~grammar /\ ~harmed /\ source["a.py"].kind = "broken"
          \/ grammar /\ harmed /\ source["a.py"].kind = "python"

MCNext ==
    \/ side = "ledger" /\ BufferNext /\ UNCHANGED <<side, staged, contextVars>>
    \/ side = "build" /\ StagedNext /\ UNCHANGED <<side, vars, contextVars>>
    \/ side = "context" /\ ContextNext /\ runs' =< 2 /\ UNCHANGED <<side, vars, staged>>
    \/ side = "registry" /\ RegistryNext /\ UNCHANGED <<side, vars, staged>>
    \/ /\ side \in {"context", "registry"} /\ EditNext /\ UNCHANGED <<side, vars, staged>>
       /\ side = "registry" =>
              runs > 0 /\ source'["a.py"] \in OnePerKind /\ source'["b.py"] = source["b.py"]

\* The fairness of StagedFairSpec.
MCSpec ==
    /\ MCInit /\ [][MCNext]_<<side, vars, staged, contextVars>>
    /\ \A b \in Builds : WF_staged(side = "build" /\ Run(b))

=============================================================================

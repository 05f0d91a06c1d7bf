------------------------------ MODULE Splitter ------------------------------
(***************************************************************************)
(* The polyglot decomposition of a build: src/decomposition/splitter.py    *)
(* cuts every source into one leaf file per top level class or function,   *)
(* and src/decomposition/reflux.py repairs the package after each source:  *)
(* functions with the same text in two leaves move to utils.py, names a    *)
(* leaf uses without binding them are imported, type hints get their       *)
(* imports, and the package index is written last.  The package directory  *)
(* outlives a build, and nothing ever removes a file from it.              *)
(*                                                                         *)
(* A text is a member of Bodies; a name used by a text is in Refers; what  *)
(* is inside a text beyond that is left out.                               *)
(***************************************************************************)
EXTENDS Naturals, FiniteSets, FiniteSetsExt

CONSTANTS
    Stems,      \* the sources, 1 .. N, in the order of their file names
    Idents,     \* the names of their top level definitions
    Classes,    \* the names that are classes, the others are functions
    Lower,      \* the name in lower case, which names the leaf file
    Refers,     \* the names the definition of a name refers to
    Hinted,     \* the names whose text uses type hints no import covers
    Possible,   \* the definitions <<stem, name>> a source may hold
    Bodies,     \* the texts a definition may have
    MaxBuilds,  \* bound: builds into the same package directory
    MaxLost     \* bound: leaf files a build fails to write

NoBody == 0

SplitterAssumption ==
    /\ IsFiniteSet(Stems) /\ Stems = 1 .. Cardinality(Stems)
    /\ IsFiniteSet(Idents)
    /\ Classes \subseteq Idents
    /\ Refers \in [Idents -> SUBSET Idents]
    /\ Possible \subseteq Stems \X Idents
    /\ NoBody \notin Bodies

\* A class shorter than the five lines that make it worth a file.
Short == 1
Utils == <<Cardinality(Stems) + 1, "utils">>
LeafFile(s, n) == <<s, Lower[n]>>
Files == {LeafFile(s, n) : s \in Stems, n \in Idents} \cup {Utils}

VARIABLES
    source,   \* the text of each definition of each source
    pkg,      \* the modules of the package directory
    index,    \* the <<file, name>> pairs that __init__.py imports
    shared,   \* the names the last first pass moved to utils.py
    at,       \* the source being decomposed
    stage,    \* where the build is
    lost,     \* the leaf files this build could not write
    builds,   \* builds so far
    moved,    \* the <<name, text>> pairs ever moved to utils.py
    clashed   \* a leaf file has been written for two names

splitterVars == <<source, pkg, index, shared, at, stage, lost, builds, moved, clashed>>

Nothing == [n \in Idents |-> NoBody]
NoModule == [defs |-> Nothing, imports |-> {}, typed |-> FALSE]

Defined(m) == {n \in Idents : m.defs[n] # NoBody}
Imported(m) == {i[2] : i \in m.imports}
Used(m) == UNION {Refers[n] : n \in Defined(m)}

\* The definitions of a source that get a leaf of their own.
Units(s) == {n \in Idents : /\ source[s][n] # NoBody
                            /\ n \in Classes => source[s][n] # Short}

\* The leaf of one definition: the imports of its source, its text, and the
\* type hint imports when nothing covers them.
Leaf(s, n) == [defs    |-> [Nothing EXCEPT ![n] = source[s][n]],
               imports |-> {},
               typed   |-> n \in Hinted]

\* The names of its own that a leaf holds, or has handed to utils.py.
Held(f) == {n \in Defined(pkg[f]) \cup Imported(pkg[f]) : LeafFile(f[1], n) = f}

BeginDecomposition ==
    /\ stage = "idle"
    /\ builds < MaxBuilds
    /\ builds' = builds + 1
    /\ at' = 1
    /\ lost' = {}
    /\ stage' = "split"
    /\ UNCHANGED <<source, pkg, index, shared, moved, clashed>>

\* One source becomes leaves.  Two names that differ only in case share a
\* file and the one written last keeps it; a file that cannot be written is
\* an error of the build and the others are written all the same.  The index
\* names every unit of this source, and only those.
DecomposeSource ==
    /\ stage = "split"
    /\ at \in Stems
    /\ Units(at) # {}
    /\ \E bad \in SUBSET Units(at), last \in SUBSET Units(at) :
        /\ Cardinality(lost) + Cardinality(bad) <= MaxLost
        /\ last \cap bad = {}
        /\ \A n \in Units(at) \ bad : \E m \in last : Lower[m] = Lower[n]
        /\ \A m, n \in last : Lower[m] = Lower[n] => m = n
        /\ pkg' = [f \in Files |->
                     IF \E n \in last : f = LeafFile(at, n)
                       THEN Leaf(at, CHOOSE n \in last : f = LeafFile(at, n))
                       ELSE pkg[f]]
        /\ lost' = lost \cup {LeafFile(at, n) : n \in bad}
    /\ index' = {<<LeafFile(at, n), n>> : n \in Units(at)}
    /\ stage' = "consolidate"
    /\ clashed' = (clashed \/ \E m \in Units(at), f \in Files :
                                 /\ f = LeafFile(at, m)
                                 /\ Held(f) \cup {n \in Units(at) : f = LeafFile(at, n)} # {m})
    /\ UNCHANGED <<source, shared, at, builds, moved>>

\* A source that does not parse, or holds nothing to extract, is reported and
\* passed over: the package is not repaired after it.
SkipSource ==
    /\ stage = "split"
    /\ at \in Stems
    /\ Units(at) = {}
    /\ at' = at + 1
    /\ UNCHANGED <<source, pkg, index, shared, stage, lost, builds, moved, clashed>>

HoldersOf(p, n, b) == {f \in Files \ {Utils} : p[f].defs[n] = b}
Repeated(p, n) == {b \in Bodies : Cardinality(HoldersOf(p, n, b)) >= 2}

\* Of several texts of a name that repeat, the one met last.
FirstHolder(p, n, b) == Min({f[1] : f \in HoldersOf(p, n, b)})
Canonical(p, n) ==
    CHOOSE b \in Repeated(p, n) :
        \A c \in Repeated(p, n) : FirstHolder(p, n, c) <= FirstHolder(p, n, b)
Duplicates(p) == {n \in Idents \ Classes : Repeated(p, n) # {}}

\* Mutant: a leaf whose own text differs loses it.
Relieved_AnyText(p, f) ==
    LET gone == {n \in Duplicates(p) : p[f].defs[n] # NoBody}
    IN  [defs    |-> [n \in Idents |-> IF n \in gone THEN NoBody ELSE p[f].defs[n]],
         imports |-> p[f].imports \cup {<<Utils, n>> : n \in gone},
         typed   |-> p[f].typed]

\* The leaf without the definitions that are now in utils.py.
Relieved(p, f) ==
    LET gone == {n \in Duplicates(p) : p[f].defs[n] = Canonical(p, n)}
    IN  [defs    |-> [n \in Idents |-> IF n \in gone THEN NoBody ELSE p[f].defs[n]],
         imports |-> p[f].imports \cup {<<Utils, n>> : n \in gone},
         typed   |-> p[f].typed]

\* utils.py as the first pass writes it: the functions it found this time,
\* under the imports of every leaf.
Shared(p) ==
    [defs    |-> [n \in Idents |-> IF n \in Duplicates(p) THEN Canonical(p, n) ELSE NoBody],
     imports |-> {},
     typed   |-> \E f \in Files \ {Utils} : p[f].typed]

Consolidated(p) == [f \in Files |-> IF f = Utils THEN Shared(p) ELSE Relieved(p, f)]

\* Pass 1.
ConsolidateSharedUtils ==
    /\ stage = "consolidate"
    /\ IF Duplicates(pkg) = {}
         THEN UNCHANGED <<pkg, index, moved>>
         ELSE /\ pkg' = Consolidated(pkg)
              /\ index' = index \cup {<<Utils, n>> : n \in Duplicates(pkg)}
              /\ moved' = moved \cup {<<n, Canonical(pkg, n)>> : n \in Duplicates(pkg)}
    /\ shared' = Duplicates(pkg)
    /\ stage' = "inject"
    /\ UNCHANGED <<source, at, lost, builds, clashed>>

\* The module a name is imported from: utils.py when the first pass has just
\* put it there, else the first file that defines it.
Definers(n) == {f \in Files : pkg[f].defs[n] # NoBody}
Known == shared \cup {n \in Idents : Definers(n) # {}}
Home(n) == IF n \in shared THEN Utils
           ELSE CHOOSE f \in Definers(n) : \A g \in Definers(n) : f[1] <= g[1]

Missing(m) == Used(m) \ (Defined(m) \cup Imported(m))

\* The module with the names it uses and does not bind imported from their home,
\* and its type hints from typing and pathlib.
Injected(f) ==
    [defs    |-> pkg[f].defs,
     imports |-> pkg[f].imports \cup {<<Home(n), n>> : n \in Missing(pkg[f]) \cap Known},
     typed   |-> pkg[f].typed \/ Defined(pkg[f]) \cap Hinted # {}]

\* Passes 2 and 3.
InjectMissingImports ==
    /\ stage = "inject"
    /\ pkg' = [f \in Files |-> Injected(f)]
    /\ at' = at + 1
    /\ shared' = {}
    /\ stage' = "split"
    /\ UNCHANGED <<source, index, lost, builds, moved, clashed>>

\* After the last source the index is written from what the files define.
GenerateInit ==
    /\ stage = "split"
    /\ at \notin Stems
    /\ index' = IF \A s \in Stems : Units(s) = {}
                  THEN index
                  ELSE {e \in Files \X Idents : pkg[e[1]].defs[e[2]] # NoBody}
    /\ stage' = "done"
    /\ UNCHANGED <<source, pkg, shared, at, lost, builds, moved, clashed>>

\* The sources change while no build runs.
EditSources ==
    /\ stage = "done"
    /\ builds < MaxBuilds
    /\ \E d \in Possible, b \in Bodies \cup {NoBody} :
        source' = [source EXCEPT ![d[1]][d[2]] = b]
    /\ at' = 1
    /\ stage' = "idle"
    /\ UNCHANGED <<pkg, index, shared, lost, builds, moved, clashed>>

\* The build is killed: the next one finds the package as it was left.
KillDecomposition ==
    /\ stage \in {"split", "consolidate", "inject"}
    /\ builds < MaxBuilds
    /\ at' = 1
    /\ shared' = {}
    /\ stage' = "idle"
    /\ UNCHANGED <<source, pkg, index, lost, builds, moved, clashed>>

SplitterInit ==
    /\ source \in [Stems -> [Idents -> Bodies \cup {NoBody}]]
    /\ \A s \in Stems, n \in Idents : source[s][n] # NoBody => <<s, n>> \in Possible
    /\ pkg = [f \in Files |-> NoModule]
    /\ index = {}
    /\ shared = {}
    /\ at = 1
    /\ stage = "idle"
    /\ lost = {}
    /\ builds = 0
    /\ moved = {}
    /\ clashed = FALSE

SplitterNext ==
    \/ BeginDecomposition
    \/ DecomposeSource
    \/ SkipSource
    \/ ConsolidateSharedUtils
    \/ InjectMissingImports
    \/ GenerateInit
    \/ EditSources
    \/ KillDecomposition

SplitterSpec == SplitterInit /\ [][SplitterNext]_splitterVars

-----------------------------------------------------------------------------
\* What a name is bound to in the modules, once they are imported.
SourceOf(f, n) == {i[1] : i \in {j \in pkg[f].imports : j[2] = n}}
Binding(n) ==
    LET bound[k \in 0 .. Cardinality(Files)] ==
            [f \in Files |->
                IF pkg[f].defs[n] # NoBody \/ k = 0 THEN pkg[f].defs[n]
                ELSE IF SourceOf(f, n) = {} THEN NoBody
                ELSE bound[k - 1][CHOOSE h \in SourceOf(f, n) : TRUE]]
    IN  bound[Cardinality(Files)]

\* The exemptions: utils.py was rewritten for a second function, two names
\* have shared a file, a leaf could not be written.
OneMoved == \A p, q \in moved : p = q
Complete == stage = "done" /\ OneMoved /\ ~clashed /\ lost = {}

\* Every extracted definition under its own leaf, with the text of the source,
\* be it in the leaf or imported from utils.py.
LeavesKeepTheirText ==
    \A s \in Stems : \A n \in Units(s) : Binding(n)[LeafFile(s, n)] = source[s][n]

\* Every name that a module uses and the package defines is bound in it, and
\* every import finds its name.
SomewhereDefined == UNION {Defined(pkg[g]) : g \in Files}
Importable ==
    \A f \in Files :
        /\ \A i \in pkg[f].imports : Binding(i[2])[i[1]] # NoBody
        /\ \A n \in Used(pkg[f]) \cap SomewhereDefined : Binding(n)[f] # NoBody
        /\ Defined(pkg[f]) \cap Hinted # {} => pkg[f].typed

\* The files import each other in a circle only where definitions use each
\* other in a circle.
Circle(S, next) == S # {} /\ \A x \in S : next[x] \cap S # {}
ImportsFrom == [f \in Files |-> {i[1] : i \in pkg[f].imports}]
NoCirclesOfItsOwn ==
    (\E S \in SUBSET Files : Circle(S, ImportsFrom)) => \E T \in SUBSET Idents : Circle(T, Refers)

Indexed == \A s \in Stems : \A n \in Units(s) : \E e \in index : e[2] = n

\* Whatever earlier builds left in the package directory, a finished build that
\* wrote all its leaves leaves a package that imports, with every definition
\* bound to the text of its source and named by the index - as long as one
\* function only was ever consolidated (decompose_source,
\* consolidate_shared_utils, inject_missing_imports, _generate_init).
PackageImports == Complete => LeavesKeepTheirText /\ Importable /\ NoCirclesOfItsOwn /\ Indexed
=============================================================================

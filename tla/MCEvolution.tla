----------------------------- MODULE MCEvolution -----------------------------
(***************************************************************************)
(* The four searches of the system: the evolution loop over the blueprint  *)
(* and the sources (EvolveLoop), the population of the self-evolution      *)
(* engine (SelfEvolution), the tuner's archive (ParetoTuner), and graphs   *)
(* that are crossed and scheduled (GraphEvolution).  They share no state,  *)
(* so a behaviour is of one of them, the one side names.                   *)
(***************************************************************************)
EXTENDS EvolveLoop, ParetoTuner, GraphEvolution, TLC

VARIABLE side

\* A threshold of zero is the default one; two patterns of target files, which
\* overlap.
TwoGains == {-3, -1}
Overlapping == <<{"f", "g"}, {"f"}>>

\* Each of the vectors dominates the next; the runtime objective is missing
\* or goes the other way.
Descending == {<<1, 1>>, <<1, 2>>, <<2, 2>>}

ASSUME EngineAssumption /\ TunerAssumption /\ GraphAssumption

Port(s, d, st, dt, k) ==
    [src |-> Node(s), dst |-> Node(d), st |-> st, dt |-> dt, label |-> <<Node(s), Node(d), k>>]

\* A graph that verifies, but for one end missing at the node dangling.
Graph(names, es, dangling) ==
    [nodes |-> {Node(n) : n \in names}, edges |-> es, signatures |-> <<>>,
     arity |-> [n \in {Node(m) : m \in names} |->
                  Cardinality({k \in DOMAIN es : es[k].src = n})
                  + Cardinality({k \in DOMAIN es : es[k].dst = n})
                  + IF n = Node(dangling) THEN 1 ELSE 0]]

Single == Graph({"a"}, <<>>, "-")
MCParents ==
    {Single,
     Graph({"a", "b"}, <<Port("a", "b", "I", "I", 1)>>, "-"),
     Graph({"a", "b"}, <<Port("a", "b", "I", "I", 1), Port("a", "b", "A", "A", 2)>>, "-"),
     Graph({"a", "b", "c"}, <<Port("a", "b", "I", "any", 1), Port("b", "c", "A", "A", 2)>>, "-"),
     Graph({"a", "b", "c"}, <<Port("a", "b", "A", "A", 1), Port("b", "c", "I", "I", 2),
                              Port("a", "c", "I", "I", 3)>>, "-"),
     Graph({"b", "c"}, <<Port("b", "c", "A", "A", 1)>>, "c")}

MCNewEdges == {Edge(Node(s), Node(d), "I", "I") : s, d \in {"a", "b", "c", "d"}}

MCInit ==
    /\ side \in {"loop", "engine", "tuner", "crossover", "edits"}
    /\ EvolveInit
    \* What has nothing to do with each other is paired.
    /\ tomlkit <=> bp.genome = "g1"
    /\ feature = IF tomlkit THEN "whole" ELSE "absent"
    /\ src["g"].eol = "lf" /\ src["f"].eol = IF tomlkit THEN "crlf" ELSE "lf"
    /\ side # "loop" => tomlkit
    /\ EngineInit
    /\ TunerInit
    /\ GraphInit
    /\ side # "crossover" => couple = <<Single, Single>>
    /\ side # "edits" => net = Single

MCNext ==
    \/ side = "loop" /\ EvolveNext /\ UNCHANGED <<side, engineVars, tunerVars, graphVars>>
    \/ side = "engine" /\ EngineNext /\ UNCHANGED <<side, evolveVars, tunerVars, graphVars>>
    \/ side = "tuner" /\ TunerNext /\ UNCHANGED <<side, evolveVars, engineVars, graphVars>>
    \/ side = "crossover" /\ (\E i, j \in {1, 2} : Crossover(i, j))
       /\ UNCHANGED <<side, evolveVars, engineVars, tunerVars>>
    \/ side = "edits" /\ (AddEdge \/ RemoveEdge \/ RemoveNode)
       /\ UNCHANGED <<side, evolveVars, engineVars, tunerVars>>

MCSpec == MCInit /\ [][MCNext]_<<side, evolveVars, engineVars, tunerVars, graphVars>>
=============================================================================

--------------------------- MODULE GraphEvolution ---------------------------
(***************************************************************************)
(* core/hin_graph.py, core/wavefront_scheduler.py, core/invariants.py and  *)
(* BoundaryAwareMutator of evolve.py: directed graphs are levelled into    *)
(* waves, a schedule of waves is repaired after an edit, and a piece of    *)
(* one graph is replaced by a piece of another.                            *)
(*                                                                         *)
(* A node is <<d, name, i>>: d times "donor::" before the name, and the    *)
(* number of an adaptor.  An edge carries the types of its two ends and a  *)
(* label, whose last part is the ports, 0 for edges made by a crossover.   *)
(***************************************************************************)
EXTENDS Integers, Sequences, FiniteSets, SequencesExt, FiniteSetsExt

CONSTANTS
    Parents,        \* graphs to start from
    NewEdges,       \* edges that an edit may add
    Sizes,          \* max_size of a crossover, 0 for none
    MaxCrossovers,  \* bound: crossovers
    MaxGraphEdits   \* bound: edits of the scheduled graph

VARIABLES
    couple,   \* two graphs that are crossed with each other
    last,   \* the last crossover: its parents, the two pieces and the result
    count,  \* crossovers so far
    net,    \* the graph that is scheduled
    waves,  \* its schedule, a sequence of sets, or the cycle error
    stale,  \* nodes removed so far: they stay in the schedule
    graphEdits   \* edits so far

graphVars == <<couple, last, count, net, waves, stale, graphEdits>>

Failed == <<{}>>   \* no schedule: the graph has a cycle
Node(name) == <<0, name, 0>>
Edge(s, d, st, dt) == [src |-> s, dst |-> d, st |-> st, dt |-> dt, label |-> <<s, d, 0>>]

\* The elements of s that are in S, in the order of s.
Among(s, S) ==
    LET kept[k \in 0 .. Len(s)] ==
            IF k = 0 THEN <<>>
            ELSE IF s[k] \in S THEN Append(kept[k - 1], s[k]) ELSE kept[k - 1]
    IN  kept[Len(s)]

EdgeSet(g) == ToSet(g.edges)

\* A graph has finitely many nodes, and its edges lead from node to node.
IsGraph(g) ==
    /\ IsFiniteSet(g.nodes)
    /\ g.edges \in Seq(EdgeSet(g))
    /\ \A e \in EdgeSet(g) : e.src \in g.nodes /\ e.dst \in g.nodes

\* Names are numbered by their prefixes.
GraphAssumption == \A g \in Parents : IsGraph(g) /\ \A n \in g.nodes : n[1] \in Nat
InDegree(g, n) == Cardinality({k \in DOMAIN g.edges : g.edges[k].dst = n})
OutDegree(g, n) == Cardinality({k \in DOMAIN g.edges : g.edges[k].src = n})
Degree(g, n) == InDegree(g, n) + OutDegree(g, n)

\* What a walk along the edges reaches from some nodes.
Spread(edges, seen) == seen \cup {e.dst : e \in {f \in edges : f.src \in seen}}
Reached(edges, nodes, from) ==
    LET near[k \in 0 .. Cardinality(nodes)] == IF k = 0 THEN from ELSE Spread(edges, near[k - 1])
    IN  near[Cardinality(nodes)]
Below(g, n) == Reached(EdgeSet(g), g.nodes, {n})

\* Some nodes wait for each other: each follows one of them.
Circular(edges, nodes) ==
    \E S \in SUBSET nodes :
        S # {} /\ \A n \in S : \E e \in edges : e.dst = n /\ e.src \in S
Cyclic(g) == Circular(EdgeSet(g), g.nodes)

-----------------------------------------------------------------------------
\* Kahn's algorithm, layer by layer: what the first k layers hold.  A node comes
\* when no predecessor is left.
Freed(edges, nodes, done) == {n \in nodes : \A e \in edges : e.dst = n => e.src \in done}
Layers(edges, nodes) ==
    LET placed[k \in 0 .. Cardinality(nodes)] ==
            IF k = 0 THEN {} ELSE Freed(edges, nodes, placed[k - 1])
    IN  placed
Sortable(edges, nodes) == Layers(edges, nodes)[Cardinality(nodes)] = nodes

\* compute_wavefronts
Wavefronts(g) ==
    LET placed == Layers(EdgeSet(g), g.nodes)
        depth == Min({k \in DOMAIN placed : placed[k] = g.nodes})
    IN IF ~Sortable(EdgeSet(g), g.nodes) THEN Failed
       ELSE [k \in 1 .. depth |-> placed[k] \ placed[k - 1]]

LevelIn(schedule, n) == CHOOSE k \in DOMAIN schedule : n \in schedule[k]

Influence(g, touched) ==
    LET back == {[src |-> e.dst, dst |-> e.src] : e \in EdgeSet(g)}
    IN Reached(EdgeSet(g) \cup back, g.nodes, touched)

\* update_schedule: the levels of the zone are computed anew on top of the
\* old levels of what leads into it; the rest, and what is no longer in the
\* graph, keeps its level.
Inner(g, zone) == {e \in EdgeSet(g) : e.src \in zone /\ e.dst \in zone}
Untouched(old, zone) == (UNION ToSet(old)) \ zone

\* A predecessor outside the zone fixes the first level n may take.
Base(g, old, zone, n) ==
    Max({1} \cup {LevelIn(old, e.src) + 1 :
                     e \in {d \in EdgeSet(g) : d.dst = n /\ d.src \in Untouched(old, zone)}})

NewLevels(g, old, zone) ==
    LET level[n \in zone] ==
            Max({Base(g, old, zone, n)}
                \cup {level[e.src] + 1 : e \in {d \in Inner(g, zone) : d.dst = n}})
    IN  level

Reassembled(old, zone, level) ==
    LET top == Max({1} \cup {level[n] : n \in zone} \cup {LevelIn(old, n) : n \in Untouched(old, zone)})
    IN  [k \in 1 .. top |-> {n \in zone : level[n] = k}
                            \cup {n \in Untouched(old, zone) : LevelIn(old, n) = k}]

UpdateSchedule(g, old, touched) ==
    LET zone == Influence(g, touched)
    IN IF ~Sortable(Inner(g, zone), zone) THEN Failed
       ELSE Reassembled(old, zone, NewLevels(g, old, zone))

-----------------------------------------------------------------------------
\* InvariantVerifier.
Unifiable(s, t) == s = t \/ s = "any" \/ t = "any"

EdgeConservation(g) ==
    /\ \A n \in g.nodes : g.arity[n] = Degree(g, n)
    /\ \A e \in EdgeSet(g) : Unifiable(e.st, e.dt)

\* The labels that cross into and out of each wave.
Signatures(g, w) ==
    LET Crossing(k) == [ins |-> {e.label : e \in {d \in EdgeSet(g) : d.dst \in w[k]}},
                        outs |-> {e.label : e \in {d \in EdgeSet(g) : d.src \in w[k]}}]
    IN [k \in {j \in DOMAIN w : Crossing(j).ins \cup Crossing(j).outs # {}} |-> Crossing(k)]

\* A signature stored by an earlier verification has to be met again.
InterfaceChanged(g, now) ==
    \E k \in DOMAIN g.signatures :
        k \notin DOMAIN now \/ g.signatures[k] # now[k]

-----------------------------------------------------------------------------
\* The pieces that a walk from n may stop at: all that n reaches, or as many
\* nodes of it as asked for.  (The order of the walk is not modelled.)
Pieces(g, n, size) ==
    IF size = 0 THEN {Below(g, n)}
    ELSE {s \in SUBSET Below(g, n) :
            /\ n \in s
            /\ Cardinality(s) = Min({size, Cardinality(Below(g, n))})
            /\ s \subseteq Reached(Inner(g, s), s, {n})}

\* extract_interface: the edges that enter and leave a piece.
Entering(g, s) == {e \in EdgeSet(g) : e.src \notin s /\ e.dst \in s}
Leaving(g, s) == {e \in EdgeSet(g) : e.src \in s /\ e.dst \notin s}
Inputs(g, s) == Among(g.edges, Entering(g, s))
Outputs(g, s) == Among(g.edges, Leaving(g, s))

\* Where the donor comes from: the node of the same name, or one whose arity
\* is closest.
Roots(b, point, arity) ==
    LET Off(n) == IF b.arity[n] > arity THEN b.arity[n] - arity ELSE arity - b.arity[n]
    IN IF point \in b.nodes THEN {point}
       ELSE {n \in b.nodes : \A m \in b.nodes : Off(n) =< Off(m)}

\* Each donor node gets as many prefixes as it takes not to be in the graph;
\* other donor nodes are not looked at.
Renamed(a, n) ==
    LET Prefixed(k) == <<n[1] + k, n[2], n[3]>>
    IN Prefixed(CHOOSE k \in 1 .. Cardinality(a.nodes) + 1 :
                    /\ Prefixed(k) \notin a.nodes
                    /\ \A j \in 1 .. k - 1 : Prefixed(j) \in a.nodes)

\* The k-th adaptor of a kind that is not in the graph yet.
Adaptor(nodes, kind, k) ==
    <<0, kind, CHOOSE i \in 0 .. Cardinality(nodes) + k :
                  /\ <<0, kind, i>> \notin nodes
                  /\ Cardinality({j \in 0 .. i : <<0, kind, j>> \notin nodes}) = k>>

\* An edge seen from its other end: an output of a piece, turned, is met the way
\* an input is.
Turned(e) == Edge(e.dst, e.src, e.dt, e.st)
TurnedAll(es) == [k \in DOMAIN es |-> Turned(es[k])]

\* Each edge of the context takes the first edge of the donor that fits: met and
\* by are what fits, ts and ds what is left.
Meet(m, t) ==
    LET fit == {k \in DOMAIN m.ds : Unifiable(t.st, m.ds[k].dt)}
    IN IF fit = {} THEN [met |-> m.met, by |-> m.by, ts |-> Append(m.ts, t), ds |-> m.ds]
       ELSE [met |-> Append(m.met, t), by |-> Append(m.by, m.ds[Min(fit)]),
             ts |-> m.ts, ds |-> RemoveAt(m.ds, Min(fit))]
Matched(ts, ds) ==
    LET after[k \in 0 .. Len(ts)] ==
            IF k = 0 THEN [met |-> <<>>, by |-> <<>>, ts |-> <<>>, ds |-> ds]
            ELSE LET m == after[k - 1] IN Meet(m, ts[k])
    IN  after[Len(ts)]

\* Mutant: an edge of the donor that no edge of the context meets is dropped.
Surplus_Dropped(m) == 0

\* How many edges of the donor are left when the context has none to offer.
Surplus(m) == Len(m.ds) - Min({Len(m.ts), Len(m.ds)})

\* The edges at the input side of the boundary: joined directly, in pairs through
\* an adaptor, through an adaptor at the donor's first node, or from a source.
Bridge(m, nodes, first, R, kind, end) ==
    LET both == Min({Len(m.ts), Len(m.ds)})
        A(k) == Adaptor(nodes, kind, k)
        Direct(k) == Edge(m.met[k].src, R[m.by[k].dst], m.met[k].st, m.by[k].dt)
        ToAdaptor(k) == Edge(m.ts[k].src, A(k), m.ts[k].st, m.ts[k].st)
        FromAdaptor(k) == Edge(A(k), R[m.ds[k].dst], m.ds[k].dt, m.ds[k].dt)
        Folded(k) == Edge(A(both + k), first, m.ts[both + k].st, m.ts[both + k].st)
        Ending(k) ==
            LET d == m.ds[both + k] IN Edge(Adaptor(nodes, end, k), R[d.dst], d.dt, d.dt)
    IN [edges |-> [k \in 1 .. Len(m.met) |-> Direct(k)]
                  \o [k \in 1 .. Len(m.ts) |-> ToAdaptor(k)]
                  \o [k \in 1 .. both |-> FromAdaptor(k)]
                  \o [k \in 1 .. Len(m.ts) - both |-> Folded(k)]
                  \o [k \in 1 .. Surplus(m) |-> Ending(k)],
        nodes |-> {A(k) : k \in 1 .. Len(m.ts)} \cup {Adaptor(nodes, end, k) : k \in 1 .. Surplus(m)},
        extra |-> Len(m.ts) - both]

\* crossover: what a graph becomes when piece t of it is replaced by piece d
\* of b, before it is verified.  first is the donor node that comes first in
\* the alphabet, names tells which of two donor nodes of one name prevails.
Child(a, b, t, d, first, names) ==
    LET R == [n \in d |-> Renamed(a, n)]
        kept == (a.nodes \ t) \cup {R[n] : n \in d}
        ins == Bridge(Matched(Inputs(a, t), Inputs(b, d)), kept, first, R, "adapt_in", "adapt_src")
        outs == Bridge(Matched(TurnedAll(Outputs(a, t)), TurnedAll(Outputs(b, d))),
                       kept, first, R, "adapt_out", "adapt_sink")
        inner == Among(b.edges, Inner(b, d))
        edges == Among(a.edges, Inner(a, a.nodes \ t))
                 \o [k \in DOMAIN inner |-> Edge(R[inner[k].src], R[inner[k].dst], inner[k].st, inner[k].dt)]
                 \o ins.edges \o TurnedAll(outs.edges)
        nodes == kept \cup ins.nodes \cup outs.nodes
        IsAdaptor(n) == n[1] = 0 /\ n[2] \in {"adapt_in", "adapt_out", "adapt_src", "adapt_sink"}
        arity == [n \in nodes |->
                     IF IsAdaptor(n) THEN Degree([edges |-> edges], n)
                     ELSE (IF n \in a.nodes \ t THEN a.arity[n] ELSE b.arity[names[n]])
                          + (IF n = first THEN ins.extra + outs.extra ELSE 0)]
    IN [nodes |-> nodes, edges |-> edges, arity |-> arity, signatures |-> a.signatures]

\* verify_all, which stores the signatures it found none for.
Accepted(g) ==
    /\ Wavefronts(g) # Failed
    /\ EdgeConservation(g)
    /\ ~InterfaceChanged(g, Signatures(g, Wavefronts(g)))

Verified(g) == [g EXCEPT !.signatures = @ @@ Signatures(g, Wavefronts(g))]

Crossover(i, j) ==
    /\ count < MaxCrossovers
    /\ count' = count + 1
    /\ \E point \in couple[i].nodes, size \in Sizes :
       \E t \in Pieces(couple[i], point, size), root \in Roots(couple[j], point, couple[i].arity[point]) :
       \E d \in Pieces(couple[j], root, size) :
          LET a == couple[i]  b == couple[j]
              new == {Renamed(a, n) : n \in d}
              first == CHOOSE n \in new : TRUE
              names == [n \in new |-> CHOOSE m \in d : Renamed(a, m) = n]
              raw == Child(a, b, t, d, first, names)
          IN /\ last' = [tried |-> TRUE, a |-> a, b |-> b, t |-> t, d |-> d,
                         raw |-> raw, ok |-> Accepted(raw)]
             /\ couple' = IF Accepted(raw) THEN [couple EXCEPT ![i] = Verified(raw)] ELSE couple
    /\ UNCHANGED <<net, waves, stale, graphEdits>>

-----------------------------------------------------------------------------
\* An edit of the scheduled graph, which its schedule is repaired after.
EditGraph(g, touched, gone) ==
    /\ graphEdits < MaxGraphEdits
    /\ waves # Failed
    /\ graphEdits' = graphEdits + 1
    /\ net' = g
    /\ waves' = UpdateSchedule(g, waves, touched)
    /\ stale' = stale \cup gone
    /\ UNCHANGED <<couple, last, count>>

NetOf(nodes, edges) ==
    [nodes |-> nodes, edges |-> edges, arity |-> net.arity, signatures |-> net.signatures]

AddEdge == \E e \in NewEdges :
    /\ e.src \in net.nodes
    /\ EditGraph(NetOf(net.nodes \cup {e.dst}, Append(net.edges, e)), {e.src, e.dst}, {})
RemoveEdge == \E k \in DOMAIN net.edges :
    EditGraph(NetOf(net.nodes, RemoveAt(net.edges, k)), {net.edges[k].src, net.edges[k].dst}, {})
RemoveNode == \E n \in net.nodes :
    EditGraph(NetOf(net.nodes \ {n}, Among(net.edges, {e \in EdgeSet(net) : n \notin {e.src, e.dst}})),
              {n}, {n})

GraphInit ==
    /\ \E a, b \in Parents : couple = <<a, b>>
    /\ last = [tried |-> FALSE]
    /\ count = 0
    /\ net \in Parents
    /\ waves = Wavefronts(net)
    /\ stale = {}
    /\ graphEdits = 0

GraphNext ==
    \/ \E i, j \in {1, 2} : Crossover(i, j)
    \/ AddEdge \/ RemoveEdge \/ RemoveNode

GraphSpec == GraphInit /\ [][GraphNext]_graphVars

-----------------------------------------------------------------------------
\* The repaired schedule is one that orders the graph: every node is in one
\* wave, every edge leads to a later one, and as long as no node was removed
\* it is the schedule that a full computation gives, or both find the cycle
\* (WavefrontScheduler.update_schedule).
ScheduleIsRepaired ==
    IF waves = Failed THEN Cyclic(net)
    ELSE /\ ~Cyclic(net)
         /\ \A n \in net.nodes : Cardinality({k \in DOMAIN waves : n \in waves[k]}) = 1
         /\ \A e \in EdgeSet(net) : LevelIn(waves, e.src) < LevelIn(waves, e.dst)
         /\ stale = {} => waves = Wavefronts(net)

\* A crossover conserves edges.  Every node of the context keeps the edges it
\* had, one for one, and the donor keeps its shape; and where both parents
\* conserve edges, the child is refused for nothing but a cycle, an interface
\* that an earlier verification stored, or two donor nodes of one name.
CrossoverConserves ==
    last.tried =>
        LET a == last.a  b == last.b  raw == last.raw
            names == {Renamed(a, n) : n \in last.d}
        IN /\ \A n \in a.nodes \ last.t :
                 InDegree(raw, n) = InDegree(a, n) /\ OutDegree(raw, n) = OutDegree(a, n)
           /\ last.ok => EdgeConservation(raw) /\ ~Cyclic(raw)
           /\ ~last.ok =>
                 \/ ~EdgeConservation(a) \/ ~EdgeConservation(b)
                 \/ Cyclic(raw)
                 \/ InterfaceChanged(raw, Signatures(raw, Wavefronts(raw)))
                 \/ Cardinality(names) < Cardinality(last.d)

\* A repaired schedule is a schedule of the graph, and a crossover conserves the
\* edges of both parents (update_schedule, crossover).
GraphsStaySound == ScheduleIsRepaired /\ CrossoverConserves
=============================================================================

------------------------------- MODULE Rigidity -------------------------------
(***************************************************************************)
(* The geometry of core/spacetime_ledger.py and its users: nodes of an     *)
(* interaction net get a coordinate when the ledger records them, the      *)
(* rigidity verifier sweeps a wired boundary in waves of few nodes, and    *)
(* the topological self healer of orchestrator.py closes a port nothing is *)
(* wired to with a fallback value that a vantage-point tree picks among    *)
(* the coordinates.                                                        *)
(*                                                                         *)
(* A coordinate is a point on a line: the code uses distances only.  They  *)
(* are exact here, so that moving a boundary as a whole shifts none of its *)
(* eigenvalues; they all vanish when the points of a wave coincide, which  *)
(* is the one way a finite boundary fails.                                 *)
(***************************************************************************)
EXTENDS Integers, FiniteSets, Sequences, SequencesExt

CONSTANTS
    Order,        \* the nodes in the order they were registered
    Nets,         \* the wirings to start from: the partner at each port,
                  \* the principal port first
    Open,         \* stands for no partner
    Graft,        \* the switch the healer wires to a port
    Places,       \* coordinates
    ValueOf,      \* the value of each node, NoValue for most
    NoValue,
    Fallback,     \* the value of the safe default contract
    MaxBoundary   \* max_boundary

NodeSet == ToSet(Order)
NoPlace == -1

VARIABLES
    ports,    \* the partners of each node, by port
    point,    \* the coordinate of each node
    sweep,    \* the sweep at work
    healed    \* of the graft made last: its node and its fallback value

geometry == <<ports, point, sweep, healed>>

\* The boundary has room for a node and its neighbour, and no agent has more
\* than three ports.
RigidityAssumption ==
    /\ MaxBoundary \in Nat /\ MaxBoundary >= 2
    /\ Order \in Seq(NodeSet) /\ Places \subseteq Nat
    /\ Nets \subseteq [NodeSet -> Seq(NodeSet \cup {Open})]
    /\ \A net \in Nets, n \in NodeSet : Len(net[n]) <= 3

Dist(a, b) == IF a < b THEN b - a ELSE a - b

\* The elements of s that are in S, in the order of s.
Among(s, S) ==
    LET kept[k \in 0 .. Len(s)] ==
            IF k = 0 THEN <<>>
            ELSE IF s[k] \in S THEN Append(kept[k - 1], s[k]) ELSE kept[k - 1]
    IN  kept[Len(s)]

-----------------------------------------------------------------------------
(* The vantage-point tree.  An item is <<key, place>>.                     *)

\* sorted: by the distance from the vantage point; ties keep their order.
Insert(v, sorted, x) ==
    InsertAt(sorted,
             Cardinality({k \in DOMAIN sorted : Dist(v[2], sorted[k][2]) <= Dist(v[2], x[2])}) + 1,
             x)
ByDistance(v, rest) ==
    LET sorted[k \in 0 .. Len(rest)] ==
            IF k = 0 THEN <<>> ELSE Insert(v, sorted[k - 1], rest[k])
    IN  sorted[Len(rest)]

\* Mutant: the points at the radius are in neither half.
Inside_Strict(v, radius, items) ==
    Among(items, {x \in ToSet(items) : Dist(v[2], x[2]) < radius})

Inside(v, radius, items) == Among(items, {x \in ToSet(items) : Dist(v[2], x[2]) <= radius})
Outside(v, radius, items) == Among(items, {x \in ToSet(items) : Dist(v[2], x[2]) > radius})

\* The node built of items, with the items of its two subtrees.
Build(items) ==
    LET v == items[1]
        sorted == ByDistance(v, Tail(items))
        radius == IF sorted = <<>> THEN 0 ELSE Dist(v[2], sorted[Len(sorted) \div 2 + 1][2])
    IN  [key |-> v[1], place |-> v[2], radius |-> radius,
         inside |-> Inside(v, radius, sorted), outside |-> Outside(v, radius, sorted)]

Nothing == [key |-> NoValue, dist |-> -1]
Found == {Nothing} \cup [key : NodeSet, dist : Nat]

\* visit: the side the target falls in, then the other unless it is too far.
\* inside and outside are the searches of the subtrees.
Closer(node, target, best) ==
    LET d == Dist(node.place, target)
    IN  IF best = Nothing \/ d < best.dist THEN [key |-> node.key, dist |-> d] ELSE best
Visit(node, target, best, inside, outside) ==
    LET d == Dist(node.place, target)
        b == Closer(node, target, best)
    IN  IF d <= node.radius
        THEN LET in == inside[b] IN IF d + in.dist > node.radius THEN outside[in] ELSE in
        ELSE LET out == outside[b] IN IF d - out.dist <= node.radius THEN inside[out] ELSE out

Nearest(items, target) ==
    LET visit[s \in {t \in Seq(NodeSet \X Places) : Len(t) <= Len(items)}] ==
            [best \in Found |->
                IF s = <<>> THEN best
                ELSE LET node == Build(s)
                     IN  Visit(node, target, best, visit[node.inside], visit[node.outside])]
    IN  visit[items][Nothing]

-----------------------------------------------------------------------------
(* Waves over a wired boundary.                                            *)

Partners(n, boundary) == Among(ports[n], boundary)

\* Mutant: a wave starts with no anchor.
Anchor_None(n, boundary, visited) == <<>>

\* A visited neighbour that the wave starts with, if there is one.
Anchor(n, boundary, visited) ==
    LET near == Among(ports[n], boundary \cap visited)
    IN  IF near = <<>> THEN <<>> ELSE <<near[1]>>

\* One round of the loop over the queue.
Dequeued(w, boundary) ==
    LET n == Head(w.queue)
        done == w.visited \cup ToSet(w.wave)
    IN  IF n \in done THEN [w EXCEPT !.queue = Tail(@)]
        ELSE [queue |-> Tail(w.queue) \o Among(ports[n], boundary \ (done \cup {n})),
              wave |-> Append(w.wave, n), visited |-> w.visited \cup {n}]

\* The rounds that are enough for a full wave: three more nodes are queued for
\* each that it takes.
Rounds == 3 * MaxBoundary + 1

CollectWave(n, boundary, visited) ==
    LET walk[k \in 0 .. Rounds] ==
            IF k = 0
            THEN [queue |-> <<n>>, wave |-> Anchor(n, boundary, visited), visited |-> visited]
            ELSE LET w == walk[k - 1]
                 IN  IF w.queue = <<>> \/ Len(w.wave) >= MaxBoundary THEN w
                     ELSE Dequeued(w, boundary)
    IN  walk[Rounds]

\* _verify_coord_group, of the nodes that have a coordinate.
Located(s) == Among(s, {n \in NodeSet : point[n] # NoPlace})
Collapsed(s) ==
    /\ Len(Located(s)) >= 2
    /\ \A i, j \in DOMAIN Located(s) : point[Located(s)[i]] = point[Located(s)[j]]

-----------------------------------------------------------------------------
NoSweep == [phase |-> "idle"]
NotHealed == [node |-> Open, value |-> Fallback]

GeometryInit ==
    /\ ports \in Nets
    /\ point = [n \in NodeSet |-> NoPlace]
    /\ sweep = NoSweep
    /\ healed = NotHealed

\* annotate_node: the coordinate is frozen with the block that records it.
Annotate(n, p) ==
    /\ sweep = NoSweep
    /\ point[n] = NoPlace
    /\ point' = [point EXCEPT ![n] = p]
    /\ healed' = NotHealed
    /\ UNCHANGED <<ports, sweep>>

\* verify_boundary of the nodes that have a coordinate.  Fewer than two are
\* rigid.
BeginSweep ==
    /\ sweep = NoSweep
    /\ LET all == Located(Order)
       IN  /\ Len(all) >= 2
           /\ sweep' = [phase |-> "sweep", boundary |-> all, todo |-> all, visited |-> {},
                        waves |-> <<>>, failures |-> 0]
    /\ healed' = NotHealed
    /\ UNCHANGED <<ports, point>>

SweepWave ==
    /\ sweep.phase = "sweep"
    /\ sweep.todo # <<>>
    /\ LET n == Head(sweep.todo)
           w == CollectWave(n, ToSet(sweep.boundary), sweep.visited)
       IN  sweep' = IF n \in sweep.visited THEN [sweep EXCEPT !.todo = Tail(@)]
                    ELSE [phase |-> "sweep", boundary |-> sweep.boundary,
                          todo |-> Tail(sweep.todo), visited |-> w.visited,
                          waves |-> Append(sweep.waves, w.wave),
                          failures |-> sweep.failures + IF Collapsed(w.wave) THEN 1 ELSE 0]
    /\ UNCHANGED <<ports, point, healed>>

EndSweep ==
    /\ sweep.phase = "sweep"
    /\ sweep.todo = <<>>
    /\ sweep' = NoSweep
    /\ UNCHANGED <<ports, point, healed>>

\* find_unterminated_ports: auxiliary ports only.
Unterminated ==
    {p \in NodeSet \X (2 .. 3) : p[2] \in DOMAIN ports[p[1]] /\ ports[p[1]][p[2]] = Open}

\* _nearest_historical_fallback: the items are all the nodes that have a
\* coordinate, the faulty port's own among them.
HistoryItems ==
    LET history == Located(Order)
    IN  [k \in DOMAIN history |-> <<history[k], point[history[k]]>>]
NearestHistoricalFallback(n) ==
    IF HistoryItems = <<>> \/ point[n] = NoPlace THEN Fallback
    ELSE LET found == Nearest(HistoryItems, point[n])
         IN  IF ValueOf[found.key] = NoValue THEN Fallback ELSE ValueOf[found.key]

\* heal_unterminated_interface: a switch is wired to the port; its condition is
\* the fallback value, its branches are erased.  The boundary of the three
\* nodes it looks at next never collapses: two of them have no coordinate and
\* get distinct ones from their names.
HealUnterminated(n, i) ==
    /\ sweep = NoSweep
    /\ <<n, i>> \in Unterminated
    /\ healed' = [node |-> n, value |-> NearestHistoricalFallback(n)]
    /\ ports' = [ports EXCEPT ![n][i] = Graft]
    /\ UNCHANGED <<point, sweep>>

GeometryNext ==
    \/ \E n \in NodeSet, p \in Places : Annotate(n, p)
    \/ BeginSweep
    \/ SweepWave
    \/ EndSweep
    \/ \E n \in NodeSet, i \in 2 .. 3 : HealUnterminated(n, i)

GeometrySpec == GeometryInit /\ [][GeometryNext]_geometry

-----------------------------------------------------------------------------
\* The search prunes no nearest point away: it finds a node with a coordinate,
\* as near as any of the net, for every target (VantagePointTree.nearest).
NearestIsNearest ==
    HistoryItems # <<>> =>
        \A target \in Places :
            LET found == Nearest(HistoryItems, target)
            IN  /\ point[found.key] # NoPlace
                /\ Dist(point[found.key], target) = found.dist
                /\ \A n \in NodeSet : point[n] # NoPlace => found.dist <= Dist(point[n], target)

\* Every node of the boundary is swept, in waves no larger than the kernel
\* admits, and one that is wired to another of the boundary never alone, so
\* that drift between the two shows (verify_boundary, _collect_wave).
SweepCoversBoundary ==
    sweep.phase = "sweep" =>
        /\ sweep.visited = UNION {ToSet(sweep.waves[k]) : k \in DOMAIN sweep.waves}
        /\ sweep.todo = <<>> => sweep.visited = ToSet(sweep.boundary)
        /\ \A k \in DOMAIN sweep.waves :
              LET w == sweep.waves[k]
              IN  /\ Len(w) <= MaxBoundary /\ Cardinality(ToSet(w)) = Len(w)
                  /\ Len(w) = 1 => ToSet(Partners(w[1], ToSet(sweep.boundary))) \subseteq {w[1]}

\* What orchestrator.py says of the healer: "finding the shortest causal
\* distance to a successful historical coordinate".  When another node holds a
\* value and no node without one is as near, the fallback is the value of such
\* a node.
FallbackIsNearestHistory ==
    LET n == healed.node
        others == {m \in NodeSet \ {n} : point[m] # NoPlace}
        nearest == {m \in others : \A o \in others : Dist(point[m], point[n]) <= Dist(point[o], point[n])}
    IN  /\ n # Open
        /\ point[n] # NoPlace
        /\ nearest # {}
        /\ \A m \in nearest : ValueOf[m] # NoValue
        => \E m \in nearest : healed.value = ValueOf[m]
=============================================================================

------------------------------- MODULE HINNet -------------------------------
(***************************************************************************)
(* The Hierarchical Interaction Net and its reduction engine, HINNetwork   *)
(* of core/hin_vm.py: agents wired port to port, a FIFO worklist of active *)
(* pairs, and one rewrite rule per kind of pair.                           *)
(*                                                                         *)
(* A node is the number its fresh_id call drew, a port is a pair           *)
(* <<node, k>> where k = 0 is the principal port p and k > 0 is a_k.  The  *)
(* Port objects of a node that has been retired still exist in the heap    *)
(* and can still be the target of a live port, so wire is defined on the   *)
(* ports of every node ever made, and live is the dict self.nodes.         *)
(***************************************************************************)
EXTENDS Naturals, Sequences

CONSTANTS MaxIds,        \* bound on the number of nodes ever made
          Values,        \* payloads of value nodes
          Truthy,        \* the payloads bool() maps to True
          AgentRef,      \* the payload that is itself a node object
          None,          \* Python's None: a free port, a node without payload
          InitialNets,   \* the nets an execution may start from
          BuildKinds,    \* the agents callers register
          BuildBudget    \* bound on register_node and bind calls

Kinds == {"con", "des", "dup", "era", "val", "swi", "pro", "bnd"}

\* The number of auxiliary ports of each agent.
Arity(k) == IF k \in {"con", "des", "dup"} THEN 2
            ELSE IF k = "swi" THEN 3
            ELSE IF k = "pro" THEN 1 ELSE 0

Ids   == 0 .. (MaxIds - 1)
Port  == Ids \X (0 .. 3)
IsPrincipal(p) == p[2] = 0

\* The MELL type of a port, for agents made with their default types: the
\* unit I, its promotion !I, the closure type I -o I, and the wildcard.
PortType(k, i) ==
  CASE k \in {"con", "des"} /\ i = 0        -> "arrow"
    [] k \in {"dup", "era", "bnd"} /\ i = 0 -> "any"
    [] k = "dup" /\ i > 0                   -> "bang"
    [] OTHER                                -> "unit"

\* MELLType.unifiable between these types; !I meets I by dereliction.
Unifiable(t, u) == "any" \in {t, u} \/ t = u \/ {t, u} = {"unit", "bang"}

VARIABLES agent,    \* the class of each node ever made ("none" before that)
          val,      \* ValueNode.value
          cloned,   \* nodes made by _clone_node: they have aux but no a_1..a_3
          live,     \* self.nodes
          wire,     \* Port.target
          pairs,    \* self.active_pairs
          fresh,    \* self._gensym
          status,   \* "ready", or "raised" after an AttributeError
          built     \* number of register_node and bind calls so far

vars == <<agent, val, cloned, live, wire, pairs, fresh, status, built>>

NetAssumption ==
  /\ MaxIds \in Nat /\ BuildBudget \in Nat
  /\ BuildKinds \subseteq Kinds
  /\ Truthy \subseteq Values /\ AgentRef \in Truthy
  /\ None \notin Port /\ None \notin Values

\* The worklist ps holds the pair of m and n.
Queued(ps, m, n) == \E i \in DOMAIN ps : ps[i] \in {<<m, n>>, <<n, m>>}

Nets == [agent : [Ids -> Kinds \cup {"none"}], val : [Ids -> Values \cup {None}],
         wire : [Port -> Port \cup {None}], pairs : Seq(Ids \X Ids), size : 0 .. MaxIds,
         calls : Nat]

\* The nets executions start from are made by bind calls: they are wired both
\* ways, no port to itself, and the pairs of principal ports are queued.
NetsAssumption ==
  \A net \in InitialNets :
    /\ net \in Nets
    /\ \A n \in Ids : n < net.size <=> net.agent[n] # "none"
    /\ \A p \in Port :
         /\ net.wire[p] # None => net.wire[net.wire[p]] = p
         /\ net.wire[p] # p
         /\ p[1] >= net.size => net.wire[p] = None
    /\ \A m, n \in Ids : net.wire[<<m, 0>>] = <<n, 0>> => Queued(net.pairs, m, n)
    /\ \A i \in DOMAIN net.pairs :
         net.wire[<<net.pairs[i][1], 0>>] = <<net.pairs[i][2], 0>>

ASSUME HINAssumption == NetAssumption /\ NetsAssumption

LivePort(p) == p[1] \in live /\ p[2] <= Arity(agent[p[1]])
LivePorts   == {p \in Port : LivePort(p)}

-----------------------------------------------------------------------------
(* Wiring.  A wiring state s is the record of wire and pairs that _link    *)
(* updates together.                                                       *)

\* _record_if_active: two principal ports meet and the pair is not queued.
RecordIfActive(ps, p, q) ==
  IF IsPrincipal(p) /\ IsPrincipal(q) /\ ~Queued(ps, p[1], q[1])
  THEN Append(ps, <<p[1], q[1]>>) ELSE ps

\* Mutant: only the first of the two assignments.
Rewired_OneSided(w, p, q) == [r \in Port |-> IF r = p THEN q ELSE w[r]]

\* The two assignments of _link, the second one last; either end may be None.
Rewired(w, p, q) ==
  [r \in Port |-> IF r = q THEN p ELSE IF r = p THEN q ELSE w[r]]

Link(s, p, q) ==
  [wire  |-> Rewired(s.wire, p, q),
   pairs |-> IF None \in {p, q} THEN s.pairs ELSE RecordIfActive(s.pairs, p, q)]

\* Join the wires that leave two ports of agents about to be retired.
Splice(s, p, q) == Link(s, s.wire[p], s.wire[q])

\* Put a port of a new agent on the wire that leaves port q.
Attach(s, p, q) == Link(s, p, s.wire[q])

\* Step(s, i) for i = 1 .. n in order, n <= 3: a loop over auxiliary ports.
ForAux(n, s, Step(_, _)) ==
  LET s1 == IF n >= 1 THEN Step(s, 1) ELSE s
      s2 == IF n >= 2 THEN Step(s1, 2) ELSE s1
  IN  IF n >= 3 THEN Step(s2, 3) ELSE s2

\* The end of a rewrite: the n new nodes are registered, those of gone retired.
Commit(s, n, KindOf(_), payload, gone) ==
  LET new == fresh .. (fresh + n - 1) IN
  /\ fresh + n <= MaxIds
  /\ wire' = s.wire /\ pairs' = s.pairs
  /\ agent' = [m \in Ids |-> IF m \in new THEN KindOf(m) ELSE agent[m]]
  /\ val' = [m \in Ids |-> IF m \in new THEN payload ELSE val[m]]
  /\ live' = (live \ gone) \cup new
  /\ fresh' = fresh + n
  /\ UNCHANGED status

-----------------------------------------------------------------------------
(* The rules.  rest is the worklist behind the pair being rewritten.       *)

\* Mutant: the ends of the wires are read before any of them is moved.
Annihilate_Snapshot(a, b, rest) ==
  LET s == ForAux(Arity(agent[a]), [wire |-> wire, pairs |-> rest],
                  LAMBDA t, i : Link(t, wire[<<a, i>>], wire[<<b, i>>]))
  IN  /\ Commit(s, 0, LAMBDA m : "none", None, {a, b})
      /\ UNCHANGED <<cloned, built>>

\* gamma with its dual, and any two equal agents: splice aux to aux, zipped.
Annihilate(a, b, rest) ==
  LET s == ForAux(Arity(agent[a]), [wire |-> wire, pairs |-> rest],
                  LAMBDA t, i : Splice(t, <<a, i>>, <<b, i>>))
  IN  /\ Commit(s, 0, LAMBDA m : "none", None, {a, b})
      /\ UNCHANGED <<cloned, built>>

\* An eraser for each auxiliary wire of the erased agent o.
Erase(e, o, rest) ==
  LET n == Arity(agent[o])
      s == ForAux(n, [wire |-> wire, pairs |-> rest],
                  LAMBDA t, i : Attach(t, <<fresh + i - 1, 0>>, <<o, i>>))
  IN  /\ Commit(s, n, LAMBDA m : "era", None, {e, o})
      /\ UNCHANGED <<cloned, built>>

\* The output a_3 of switch s is spliced to one branch, the other is erased.
\* A partner that is not a value node counts as its own truth value: True.
Switch(s, v, rest) ==
  LET payload   == IF agent[v] = "val" THEN val[v] ELSE AgentRef
      selected  == <<s, IF payload \in Truthy THEN 1 ELSE 2>>
      discarded == <<s, IF payload \in Truthy THEN 2 ELSE 1>>
      spliced   == Splice([wire |-> wire, pairs |-> rest], selected, <<s, 3>>)
  IN  /\ Commit(Attach(spliced, <<fresh, 0>>, discarded),
                1, LAMBDA m : "era", None, {s, v})
      /\ UNCHANGED <<cloned, built>>

\* Mutant: the coordinate node is emitted, not the path it carries.
Project_Node(p, c, rest) ==
  /\ Commit(Attach([wire |-> wire, pairs |-> rest], <<fresh, 0>>, <<p, 1>>),
            1, LAMBDA m : "val", c, {p, c})
  /\ UNCHANGED <<cloned, built>>

\* The coordinate is emitted as a new value on the output wire.
Project(p, c, rest) ==
  /\ Commit(Attach([wire |-> wire, pairs |-> rest], <<fresh, 0>>, <<p, 1>>),
            1, LAMBDA m : "val", IF agent[c] = "val" THEN val[c] ELSE AgentRef, {p, c})
  /\ UNCHANGED <<cloned, built>>

\* A switch or projection made by _clone_node has no attribute a_1.  Nothing
\* is relinked, but the pair has left the worklist, and a projection has
\* drawn the identifier of the value it does not get to emit.
RaisesAttributeError(a, rest) ==
  /\ a \in cloned
  /\ status' = "raised"
  /\ pairs' = rest
  /\ fresh' = IF agent[a] = "pro" THEN fresh + 1 ELSE fresh
  /\ fresh' <= MaxIds
  /\ UNCHANGED <<agent, val, cloned, live, wire, built>>

\* The duplicator d commutes past o: two clones of o and one duplicator for
\* each auxiliary port of o.  The new principal ports go on the wires that
\* left d and o when the rule started (the two lists of externals), so the
\* k-th new node, fresh + k - 1, takes the wire External(k).  Where two
\* externals are equal the later link wins.
Duplicate(d, o, rest) ==
  LET n           == Arity(agent[o])
      External(k) == IF k <= 2 THEN wire[<<d, k>>] ELSE wire[<<o, k - 2>>]
      Takers(p)   == {k \in 1 .. (2 + n) : External(k) = p}
      Last(p)     == CHOOSE k \in Takers(p) : \A j \in Takers(p) : j <= k
      Rewire(p)   ==
        LET k == p[1] - fresh + 1 IN
        IF k \in 1 .. (2 + n)
        THEN IF p[2] = 0 THEN External(k)
             ELSE IF k <= 2  \* a_j of clone k meets a_k of duplicator j
                  THEN IF p[2] <= n THEN <<fresh + 1 + p[2], k>> ELSE None
                  ELSE IF p[2] <= 2 THEN <<fresh + p[2] - 1, k - 2>> ELSE None
        ELSE IF Takers(p) # {} THEN <<fresh + Last(p) - 1, 0>> ELSE wire[p]
      Recorded(ps, k) == IF k > 2 + n \/ External(k) = None THEN ps
                         ELSE RecordIfActive(ps, <<fresh + k - 1, 0>>, External(k))
      queue == Recorded(Recorded(Recorded(Recorded(Recorded(rest, 1), 2), 3), 4), 5)
  IN  /\ Commit([wire |-> [p \in Port |-> Rewire(p)], pairs |-> queue], 2 + n,
                LAMBDA m : IF m < fresh + 2 THEN agent[o] ELSE "dup", val[o], {d, o})
      /\ cloned' = cloned \cup {fresh, fresh + 1}
      /\ UNCHANGED built

-----------------------------------------------------------------------------
(* The engine.                                                             *)

HasRule(j, k) ==
  \/ "era" \in {j, k} \/ "dup" \in {j, k}
  \/ {j, k} \in {{"swi", "val"}, {"pro", "val"}, {"con", "des"}}
  \/ j = k

\* The dispatch of reduce_step, in its order.
Rewrite(a, b, rest) ==
  LET ka == agent[a]
      kb == agent[b]
      erase     == "era" \in {ka, kb}
      duplicate == ~erase /\ (ka = "dup") # (kb = "dup")
      switch    == ~erase /\ ~duplicate /\ "swi" \in {ka, kb}
      project   == ~erase /\ ~duplicate /\ ~switch /\ "pro" \in {ka, kb}
      lead == IF erase THEN "era" ELSE IF duplicate THEN "dup"
              ELSE IF switch THEN "swi" ELSE "pro"
      x == IF ka = lead THEN a ELSE b
      y == IF x = a THEN b ELSE a
  IN  \/ erase /\ Erase(x, y, rest)
      \/ duplicate /\ Duplicate(x, y, rest)
      \/ switch /\ x \notin cloned /\ Switch(x, y, rest)
      \/ project /\ x \notin cloned /\ Project(x, y, rest)
      \/ (switch \/ project) /\ RaisesAttributeError(x, rest)
      \/ ~(erase \/ duplicate \/ switch \/ project) /\ Annihilate(a, b, rest)

\* A queued pair is skipped when a node of it is gone or no rule applies.
Fires(pr) == {pr[1], pr[2]} \subseteq live /\ HasRule(agent[pr[1]], agent[pr[2]])

\* reduce_step, from popping the head to the first pair that fires: every
\* pair before it is dropped.
ReduceStep(k) ==
  /\ status = "ready"
  /\ Fires(pairs[k]) /\ \A i \in 1 .. (k - 1) : ~Fires(pairs[i])
  /\ Rewrite(pairs[k][1], pairs[k][2], SubSeq(pairs, k + 1, Len(pairs)))

\* Mutant: inert pairs go back to the worklist.
DrainWorklist_Requeues ==
  /\ status = "ready" /\ pairs # <<>>
  /\ \A i \in DOMAIN pairs : ~Fires(pairs[i])
  /\ pairs' = SelectSeq(pairs, LAMBDA pr : {pr[1], pr[2]} \subseteq live)
  /\ UNCHANGED <<agent, val, cloned, live, wire, fresh, status, built>>

\* reduce_step when no queued pair fires: it returns False.
DrainWorklist ==
  /\ status = "ready" /\ pairs # <<>>
  /\ \A i \in DOMAIN pairs : ~Fires(pairs[i])
  /\ pairs' = <<>>
  /\ UNCHANGED <<agent, val, cloned, live, wire, fresh, status, built>>

\* register_node on a node of a new identifier.
RegisterNode(k, v) ==
  /\ status = "ready" /\ built < BuildBudget
  /\ k \in BuildKinds /\ (k = "val") = (v # None)
  /\ Commit([wire |-> wire, pairs |-> pairs], 1, LAMBDA m : k, v, {})
  /\ built' = built + 1
  /\ UNCHANGED cloned

\* bind: Port.connect refuses types that do not unify.  It does not look
\* whether the ports are free; its callers bind every port once.
Bind(p, q) ==
  /\ status = "ready" /\ built < BuildBudget
  /\ p # q /\ {p, q} \subseteq LivePorts
  /\ Unifiable(PortType(agent[p[1]], p[2]), PortType(agent[q[1]], q[2]))
  /\ wire[p] = None /\ wire[q] = None
  /\ wire' = Rewired(wire, p, q)
  /\ pairs' = RecordIfActive(pairs, p, q)
  /\ built' = built + 1
  /\ UNCHANGED <<agent, val, cloned, live, fresh, status>>

Init == \E net \in InitialNets :
  /\ agent = net.agent /\ val = net.val /\ wire = net.wire /\ pairs = net.pairs
  /\ live = {n \in Ids : n < net.size} /\ fresh = net.size
  /\ cloned = {} /\ status = "ready" /\ built = net.calls

Build  == \/ \E k \in Kinds, v \in Values \cup {None} : RegisterNode(k, v)
          \/ \E p, q \in Port : Bind(p, q)
Reduce == (\E k \in DOMAIN pairs : ReduceStep(k)) \/ DrainWorklist

Next == Build \/ Reduce
Spec == Init /\ [][Next]_vars

\* run_to_completion calls reduce_step again as long as it returns True.
FairSpec == Spec /\ WF_vars(Reduce)

-----------------------------------------------------------------------------
(* Properties.                                                             *)

\* The net of self.nodes is a finite set of known agents, wired port to port.
TypeOK ==
  /\ agent \in [Ids -> Kinds \cup {"none"}]
  /\ val \in [Ids -> Values \cup {None}]
  /\ cloned \subseteq Ids
  /\ live \subseteq {n \in Ids : n < fresh /\ agent[n] # "none"}
  /\ wire \in [Port -> Port \cup {None}]
  /\ pairs \in Seq(Ids \X Ids)
  /\ fresh \in 0 .. MaxIds /\ built \in Nat
  /\ status \in {"ready", "raised"}

\* Conservation of Edges: whatever is rewritten, in whatever order, a port of
\* a live agent is free or on a wire both of whose ends know each other, so
\* no two live ports share an end (what validate_conservation looks at).
Conservation ==
  \A p \in LivePorts : wire[p] # None => wire[wire[p]] = p

\* The worklist is exact.  No redex is lost: two live agents that meet
\* principal to principal and have a rule are queued, although pairs are
\* recorded only when a wire is made, dropped when they are popped and skipped
\* when stale.  And a queued pair of two live agents still meets, so
\* reduce_step never rewrites agents that have been pulled apart.
WorklistIsExact ==
  /\ \A m, n \in live :
       /\ wire[<<m, 0>>] = <<n, 0>> /\ HasRule(agent[m], agent[n]) /\ status = "ready"
       => Queued(pairs, m, n)
  /\ \A i \in DOMAIN pairs :
       {pairs[i][1], pairs[i][2]} \subseteq live
       => wire[<<pairs[i][1], 0>>] = <<pairs[i][2], 0>>

\* No wire of a live agent leads to a retired one ("no unmanaged garbage").
NoRetiredEnd ==
  \A p \in LivePorts : wire[p] # None => LivePort(wire[p])

\* An auxiliary wire joins a duplicator or its partner to itself or to the
\* other.
Shortcut(a, b) ==
  /\ (agent[a] = "dup") # (agent[b] = "dup") /\ "era" \notin {agent[a], agent[b]}
  /\ \E m \in {a, b}, i \in 1 .. 3 :
       i <= Arity(agent[m]) /\ wire[<<m, i>>] # None /\ wire[<<m, i>>][1] \in {a, b}

\* A projection or a switch takes another one for its value.
Misread(a, b) == agent[a] = agent[b] /\ agent[a] \in {"pro", "swi"}

NextFires(P(_, _)) ==
  \E k \in DOMAIN pairs : /\ Fires(pairs[k]) /\ \A i \in 1 .. (k - 1) : ~Fires(pairs[i])
                          /\ P(pairs[k][1], pairs[k][2])

\* No auxiliary port is free: what validate_conservation asks of every agent.
Closed == \A p \in LivePorts : p[2] > 0 => wire[p] # None

\* A rewrite leaves no end dangling.  A closed net stays closed, and every
\* wire that led to the two agents a rewrite retires is moved, also where it
\* joins the two to each other.  Two rewrites do leave wires to retired
\* agents: the commutation of a duplicator, which reads all its wires before
\* it moves any, and the one that takes its partner for a value.
RewritesKeepTheNetWhole ==
  [][ /\ Closed /\ built' = built => Closed'
      /\ NoRetiredEnd /\ ~NextFires(Shortcut) /\ ~NextFires(Misread) => NoRetiredEnd' ]_vars

\* Without duplicators every reduction comes to an end: run_to_completion
\* empties the worklist.
Linear == \A n \in live : agent[n] # "dup"
Terminates == []Linear => []<>(pairs = <<>>)
============================================================================

---------------------------- MODULE HINNetProofs ----------------------------
(***************************************************************************)
(* Conservation of Edges, the exact worklist and the whole net, for every  *)
(* net, every agent and every order of construction and reduction; and the *)
(* same of the universal engine (UniversalHIN), whatever its cache holds   *)
(* and whichever of its sweeps fail.                                       *)
(***************************************************************************)
EXTENDS UniversalHIN, TLAPS

Wiring == [Port -> Port \cup {None}]

\* The wiring w is sound on the ports L, when the nodes below f exist: the
\* wires of L lead to existing nodes and back, and later nodes are unwired.
Sound(w, L, f) ==
  /\ \A p \in L : p[1] < f /\ (w[p] # None => w[p][1] < f /\ w[w[p]] = p)
  /\ \A p \in Port : p[1] >= f => w[p] = None

Loopless(w, L) == \A p \in L : w[p] # p

\* The worklist of s is exact for the nodes N: those that meet are queued,
\* but for the pairs I, and those that are queued meet.
Exact(s, N, I, f) ==
  /\ \A m, n \in N : s.wire[<<m, 0>>] = <<n, 0>> /\ <<m, n>> \notin I => Queued(s.pairs, m, n)
  /\ \A i \in DOMAIN s.pairs :
       /\ s.pairs[i][1] < f /\ s.pairs[i][2] < f
       /\ {s.pairs[i][1], s.pairs[i][2]} \subseteq N
          => s.wire[<<s.pairs[i][1], 0>>] = <<s.pairs[i][2], 0>>

\* What holds of wires and worklist also between the links of a rewrite, on
\* the ports L that are to stay and the nodes N.
Good(s, L, N, I, f) ==
  /\ Sound(s.wire, L, f) /\ Loopless(s.wire, L) /\ Exact(s, N, I, f)
  /\ \A n \in N : <<n, 0>> \in L

\* The pairs of agents that may meet without being queued.
Inert == {pr \in live \X live : status = "raised" \/ ~HasRule(agent[pr[1]], agent[pr[2]])}

Net  == [wire |-> wire, pairs |-> pairs]
IInv == TypeOK /\ Good(Net, LivePorts, live, Inert, fresh)

\* No wire of L leaves L, and no auxiliary port of L is free.
Whole(w, L) == \A p \in L : w[p] # None => w[p] \in L
Full(w, L)  == \A p \in L : p[2] > 0 => w[p] # None

\* A change of wires from w to v, while the ports to keep go from L to M.
Carries(w, L, v, M) == (Whole(w, L) => Whole(v, M)) /\ (Full(w, L) => Full(v, M))

\* The arithmetic of identifiers and port numbers.
LEMMA PortFacts ==
  /\ \A p \in Port : p[1] \in Ids /\ p[2] \in 0 .. 3 /\ p = <<p[1], p[2]>>
  /\ None \notin Port
  /\ \A n \in Ids : n \in Nat
BY HINAssumption DEF Port, Ids, NetAssumption

\* A smaller set of ports is sound as well.
LEMMA SoundShrinks ==
  ASSUME NEW w \in Wiring, NEW L \in SUBSET Port, NEW M \in SUBSET Port,
         NEW f \in Nat, Sound(w, L, f), M \subseteq L
  PROVE  Sound(w, M, f)
BY DEF Sound

\* _link on wires that leave ports of retired agents, or on free ports.
LEMMA RewiredSound ==
  ASSUME NEW w \in Wiring, NEW L \in SUBSET Port, NEW M \in SUBSET Port,
         NEW f \in Nat, NEW g \in Nat, f <= g, Sound(w, L, f),
         NEW a \in Port \cup {None}, NEW b \in Port \cup {None},
         a # None => a[1] < g, b # None => b[1] < g,
         \A p \in M \ {a, b} : p \in L /\ (w[p] # None => w[p] \notin {a, b}),
         \A p \in M : p[1] < g
  PROVE  Rewired(w, a, b) \in Wiring /\ Sound(Rewired(w, a, b), M, g)
<1> DEFINE v == Rewired(w, a, b)
<1>1. v \in Wiring
  BY DEF Rewired, Wiring
<1>2. \A p \in Port : p[1] >= g => v[p] = None
  <2> SUFFICES ASSUME NEW p \in Port, p[1] >= g PROVE v[p] = None
    OBVIOUS
  <2>1. p # a /\ p # b
    BY PortFacts
  <2>2. p[1] >= f
    BY PortFacts
  <2> QED BY <2>1, <2>2 DEF Rewired, Sound
<1>3. ASSUME NEW p \in M, v[p] # None PROVE v[p][1] < g /\ v[v[p]] = p
  <2>1. CASE p = b
    BY <2>1, <1>3, PortFacts DEF Rewired
  <2>2. CASE p = a /\ p # b
    BY <2>2, <1>3, PortFacts DEF Rewired
  <2>3. CASE p # a /\ p # b
    <3>1. p \in L /\ v[p] = w[p] /\ w[p] \in Port
      BY <2>3, <1>3 DEF Rewired, Wiring
    <3>2. w[p] \notin {a, b} /\ w[p][1] < f /\ w[w[p]] = p
      BY <3>1, <2>3, <1>3 DEF Sound
    <3> QED BY <3>1, <3>2, PortFacts DEF Rewired
  <2> QED BY <2>1, <2>2, <2>3
<1> QED BY <1>1, <1>2, <1>3 DEF Sound

-----------------------------------------------------------------------------
States == [wire : Wiring, pairs : Seq(Ids \X Ids)]

\* _link keeps wires and worklist well-typed.
LEMMA LinkType ==
  ASSUME NEW s \in States, NEW a \in Port \cup {None}, NEW b \in Port \cup {None}
  PROVE  Link(s, a, b) \in States /\ Link(s, a, b).wire = Rewired(s.wire, a, b)
<1>1. Rewired(s.wire, a, b) \in Wiring
  BY DEF Rewired, Wiring, States
<1>2. ASSUME None \notin {a, b} PROVE RecordIfActive(s.pairs, a, b) \in Seq(Ids \X Ids)
  BY <1>2, PortFacts DEF RecordIfActive, States
<1> QED BY <1>1, <1>2 DEF Link, States

\* _link keeps the worklist exact, if it takes no principal port of a node
\* of N off a wire to another one.
LEMMA LinkExact ==
  ASSUME NEW s \in States, NEW L \in SUBSET Port, NEW N \in SUBSET Ids, NEW I, NEW f \in Nat,
         Sound(s.wire, L, f), Exact(s, N, I, f), \A n \in N : <<n, 0>> \in L,
         NEW a \in Port \cup {None}, NEW b \in Port \cup {None},
         a # None => a[1] < f, b # None => b[1] < f,
         \A n \in N : s.wire[<<n, 0>>] # None => s.wire[<<n, 0>>] \notin {a, b}
  PROVE  Exact(Link(s, a, b), N, I, f)
<1> DEFINE w  == s.wire
           v  == Rewired(w, a, b)
           ps == s.pairs
           qs == Link(s, a, b).pairs
<1>1. Link(s, a, b).wire = v /\ Link(s, a, b) \in States
  BY LinkType
<1>2. ps \in Seq(Ids \X Ids) /\ qs \in Seq(Ids \X Ids) /\ w \in Wiring
  BY <1>1 DEF States
\* What the worklist gains.
<1>3. \/ qs = ps
      \/ /\ a # None /\ b # None /\ a[2] = 0 /\ b[2] = 0
         /\ qs = Append(ps, <<a[1], b[1]>>)
  BY DEF Link, RecordIfActive, IsPrincipal
<1>4. ASSUME a # None, b # None, a[2] = 0, b[2] = 0 PROVE Queued(qs, a[1], b[1])
  <2>1. CASE Queued(ps, a[1], b[1])
    BY <1>4, <2>1 DEF Link, RecordIfActive
  <2>2. CASE ~Queued(ps, a[1], b[1])
    <3>1. qs = Append(ps, <<a[1], b[1]>>)
      BY <1>4, <2>2 DEF Link, RecordIfActive, IsPrincipal
    <3>2. Len(ps) + 1 \in DOMAIN qs /\ qs[Len(ps) + 1] = <<a[1], b[1]>>
      BY <1>2, <3>1, <1>4, PortFacts
    <3> QED BY <3>2 DEF Queued
  <2> QED BY <2>1, <2>2
<1> HIDE DEF qs, ps
<1> DEFINE New(pr) == /\ a # None /\ b # None /\ a[2] = 0 /\ b[2] = 0
                      /\ pr = <<a[1], b[1]>>
<1>5. /\ \A i \in DOMAIN ps : i \in DOMAIN qs /\ qs[i] = ps[i]
      /\ \A i \in DOMAIN qs : (i \in DOMAIN ps /\ qs[i] = ps[i]) \/ New(qs[i])
  <2>1. CASE qs = ps
    BY <2>1
  <2>2. CASE /\ a # None /\ b # None /\ a[2] = 0 /\ b[2] = 0
             /\ qs = Append(ps, <<a[1], b[1]>>)
    <3> DEFINE pr == <<a[1], b[1]>>
    <3>1. pr \in Ids \X Ids /\ New(pr)
      BY <2>2, PortFacts
    <3> HIDE DEF pr, New
    <3>2. /\ \A i \in DOMAIN ps : i \in DOMAIN Append(ps, pr) /\ Append(ps, pr)[i] = ps[i]
          /\ \A i \in DOMAIN Append(ps, pr) : \/ i \in DOMAIN ps /\ Append(ps, pr)[i] = ps[i]
                                              \/ Append(ps, pr)[i] = pr
      BY <1>2, <3>1
    <3>3. qs = Append(ps, pr)
      BY <2>2 DEF pr
    <3> QED BY <3>1, <3>2, <3>3
  <2> QED BY <1>3, <2>1, <2>2
<1>6. \A i \in DOMAIN qs : (i \in DOMAIN ps /\ qs[i] = ps[i]) \/ New(qs[i])
  BY <1>5
<1>7. ASSUME NEW m \in N, NEW n \in N, v[<<m, 0>>] = <<n, 0>>, <<m, n>> \notin I
      PROVE  Queued(qs, m, n)
  <2>1. <<m, 0>> \in Port /\ <<n, 0>> \in Port /\ <<n, 0>> # None
    BY PortFacts DEF Port
  <2>2. CASE <<m, 0>> \notin {a, b}
    <3>1. w[<<m, 0>>] = <<n, 0>>
      BY <1>7, <2>1, <2>2 DEF Rewired
    <3>2. Queued(ps, m, n)
      BY <3>1, <1>7 DEF Exact, ps
    <3> QED BY <3>2, <1>5 DEF Queued
  <2>3. CASE <<m, 0>> \in {a, b}
    <3>1. {a, b} = {<<m, 0>>, <<n, 0>>}
      BY <1>7, <2>1, <2>3 DEF Rewired
    <3>2. a # None /\ b # None /\ a[2] = 0 /\ b[2] = 0
          /\ ((a[1] = m /\ b[1] = n) \/ (a[1] = n /\ b[1] = m))
      BY <3>1, <2>1, PortFacts
    <3> QED BY <3>2, <1>4 DEF Queued
  <2> QED BY <2>2, <2>3
<1>8. ASSUME NEW i \in DOMAIN qs
      PROVE  /\ qs[i][1] < f /\ qs[i][2] < f
             /\ {qs[i][1], qs[i][2]} \subseteq N => v[<<qs[i][1], 0>>] = <<qs[i][2], 0>>
  <2>1. CASE i \in DOMAIN ps /\ qs[i] = ps[i]
    <3> DEFINE m == qs[i][1]
               n == qs[i][2]
    <3>1. m < f /\ n < f /\ (m \in N /\ n \in N => w[<<m, 0>>] = <<n, 0>>)
      BY <2>1 DEF Exact, ps
    <3> HIDE DEF m, n
    <3>2. ASSUME m \in N, n \in N PROVE v[<<m, 0>>] = <<n, 0>>
      <4>1. <<m, 0>> \in L /\ <<n, 0>> \in L /\ <<n, 0>> # None /\ <<m, 0>> # None
        BY <3>2, PortFacts
      <4>2. w[<<m, 0>>] = <<n, 0>> /\ w[<<n, 0>>] = <<m, 0>>
        BY <3>1, <3>2, <4>1 DEF Sound
      <4>3. <<m, 0>> \notin {a, b}
        BY <3>2, <4>1, <4>2
      <4> QED BY <4>1, <4>2, <4>3 DEF Rewired
    <3> QED BY <3>1, <3>2 DEF m, n
  <2>2. CASE /\ a # None /\ b # None /\ a[2] = 0 /\ b[2] = 0
             /\ qs[i] = <<a[1], b[1]>>
    <3>1. a = <<a[1], 0>> /\ b = <<b[1], 0>> /\ a \in Port /\ b \in Port
      BY <2>2, PortFacts
    <3>2. v[a] = b
      BY <3>1 DEF Rewired
    <3> QED BY <2>2, <3>1, <3>2
  <2> QED BY <2>1, <2>2, <1>6
<1> QED BY <1>1, <1>7, <1>8 DEF Exact, qs

\* A change from s to t, while the ports to keep go from L to M and the nodes
\* from N to K.
Moves(s, L, N, I, f, t, M, K, g) ==
  /\ t \in States /\ M \in SUBSET Port /\ K \in SUBSET Ids
  /\ Good(t, M, K, I, g) /\ Carries(s.wire, L, t.wire, M)

\* Joining the wires of two auxiliary ports that are about to go.
LEMMA SpliceGood ==
  ASSUME NEW s \in States, NEW L \in SUBSET Port, NEW N \in SUBSET Ids, NEW I, NEW f \in Nat,
         Good(s, L, N, I, f), NEW p \in L, NEW q \in L, p # q, p[2] > 0, q[2] > 0,
         NEW M, M = L \ {p, q}, NEW t, t = Splice(s, p, q)
  PROVE  Moves(s, L, N, I, f, t, M, N, f)
<1> DEFINE w == s.wire
           a == w[p]
           b == w[q]
           v == Rewired(w, a, b)
<1>1. w \in Wiring /\ a \in Port \cup {None} /\ b \in Port \cup {None} /\ Sound(w, L, f)
  BY DEF States, Wiring, Good
<1>2. /\ a # None => a[1] < f /\ w[a] = p
      /\ b # None => b[1] < f /\ w[b] = q
  BY <1>1 DEF Sound
<1>3. \A r \in M \ {a, b} : r \in L /\ (w[r] # None => w[r] \notin {a, b})
  BY <1>1 DEF Sound
<1>4. t = Link(s, a, b) /\ t \in States /\ t.wire = v
  <2>1. t = Link(s, a, b)
    BY DEF Splice
  <2> HIDE DEF a, b
  <2> QED BY <1>1, <2>1, LinkType DEF v
<1>5. \A n \in N : <<n, 0>> \in M /\ <<n, 0>> \in L
  <2> SUFFICES ASSUME NEW n \in N PROVE <<n, 0>> \in M /\ <<n, 0>> \in L
    OBVIOUS
  <2>1. <<n, 0>> \in L /\ <<n, 0>>[2] = 0
    BY DEF Good
  <2>2. p[2] # 0 /\ q[2] # 0
    BY PortFacts
  <2>3. <<n, 0>> # p /\ <<n, 0>> # q
    BY <2>1, <2>2
  <2> QED BY <2>1, <2>3
<1>6. Sound(v, M, f)
  <2>1. \A r \in M : r[1] < f
    BY <1>1 DEF Sound
  <2> HIDE DEF a, b, w
  <2> QED BY <1>1, <1>2, <1>3, <2>1, RewiredSound
<1>7. Exact(t, N, I, f)
  <2>1. \A n \in N : w[<<n, 0>>] # None => w[<<n, 0>>] \notin {a, b}
    <3> SUFFICES ASSUME NEW n \in N, w[<<n, 0>>] # None, w[<<n, 0>>] \in {a, b} PROVE FALSE
      OBVIOUS
    <3>1. w[w[<<n, 0>>]] = <<n, 0>>
      BY <1>1, <1>5 DEF Sound
    <3>2. <<n, 0>> \in {p, q} /\ <<n, 0>>[2] = 0
      BY <3>1, <1>2
    <3> QED BY <3>2, PortFacts
  <2>2. Exact(s, N, I, f)
    BY DEF Good
  <2> HIDE DEF a, b
  <2> QED BY <1>1, <1>2, <1>4, <1>5, <2>1, <2>2, LinkExact
<1>8. a # None => a # b
  BY <1>2
<1>9. Loopless(v, M)
  <2> SUFFICES ASSUME NEW r \in M, v[r] = r PROVE FALSE
    BY DEF Loopless
  <2>1. r \in Port /\ r # None /\ w[r] # r
    BY PortFacts DEF Good, Loopless
  <2> HIDE DEF a, b, w
  <2> QED BY <2>1, <1>8 DEF Rewired
<1>10. ASSUME Whole(w, L), NEW r \in M, v[r] # None PROVE v[r] \in M
  <2>1. r \in L /\ r \in Port /\ (w[r] # None => w[r] \in L /\ w[w[r]] = r)
    BY <1>1, <1>10 DEF Whole, Sound
  <2>2. CASE r = b
    <3>1. v[r] = a /\ a \in L /\ b # None
      BY <1>10, <2>1, <2>2, PortFacts DEF Whole, Rewired
    <3>2. a # p
      BY DEF Good, Loopless
    <3>3. a # q
      BY <3>1, <2>2, <1>2, <1>10
    <3> QED BY <3>1, <3>2, <3>3
  <2>3. CASE r = a /\ r # b
    <3>1. v[r] = b /\ b \in L /\ a # None
      BY <1>10, <2>1, <2>3, PortFacts DEF Whole, Rewired
    <3>2. b # q
      BY DEF Good, Loopless
    <3>3. b # p
      BY <3>1, <2>3, <1>2, <1>10
    <3> QED BY <3>1, <3>2, <3>3
  <2>4. CASE r # a /\ r # b
    <3>1. v[r] = w[r]
      BY <2>1, <2>4 DEF Rewired
    <3>2. w[r] # p /\ w[r] # q
      BY <1>10, <2>1, <2>4, <3>1
    <3> QED BY <1>10, <2>1, <3>1, <3>2
  <2> QED BY <2>2, <2>3, <2>4
<1>11. ASSUME Full(w, L), NEW r \in M, r[2] > 0 PROVE v[r] # None
  <2>1. a # None /\ b # None /\ w[r] # None /\ r \in Port
    BY <1>11 DEF Full
  <2> HIDE DEF a, b, w
  <2> QED BY <2>1 DEF Rewired
<1>12. Carries(w, L, v, M)
  <2> HIDE DEF v, w
  <2> QED BY <1>10, <1>11 DEF Carries, Whole, Full
<1>13. M \in SUBSET Port
  OBVIOUS
<1> HIDE DEF v, a, b
<1> QED BY <1>4, <1>5, <1>6, <1>7, <1>9, <1>12, <1>13 DEF Good, Moves

\* Nodes to come are in no wire and in no queued pair.
LEMMA ExactGrows ==
  ASSUME NEW s \in States, NEW L \in SUBSET Port, NEW N \in SUBSET Ids, NEW I, NEW f \in Nat,
         f \in Ids, Good(s, L, N, I, f)
  PROVE  Exact(s, N \cup {f}, I, f + 1)
<1>1. Sound(s.wire, L, f) /\ Exact(s, N, I, f) /\ \A n \in N : <<n, 0>> \in L
  BY DEF Good
<1>2. <<f, 0>> \in Port /\ s.wire[<<f, 0>>] = None
  <2>1. <<f, 0>> \in Port /\ <<f, 0>>[1] >= f
    BY DEF Port
  <2> QED BY <1>1, <2>1 DEF Sound
<1>3. ASSUME NEW m \in N \cup {f}, NEW n \in N \cup {f}, s.wire[<<m, 0>>] = <<n, 0>>
      PROVE  m \in N /\ n \in N
  <2>1. <<n, 0>> \in Port /\ <<n, 0>> # None /\ <<n, 0>>[1] = n
    BY PortFacts DEF Port
  <2>2. m \in N
    BY <1>2, <1>3, <2>1
  <2>3. n < f
    BY <1>1, <1>3, <2>1, <2>2 DEF Sound
  <2> QED BY <2>2, <2>3
<1>4. ASSUME NEW i \in DOMAIN s.pairs
      PROVE  /\ s.pairs[i][1] < f /\ s.pairs[i][2] < f
             /\ s.pairs[i][1] \in Nat /\ s.pairs[i][2] \in Nat
  <2>1. s.pairs[i] \in Ids \X Ids
    BY DEF States
  <2> QED BY <1>1, <2>1, PortFacts DEF Exact
<1>5. ASSUME NEW i \in DOMAIN s.pairs, {s.pairs[i][1], s.pairs[i][2]} \subseteq N \cup {f}
      PROVE  {s.pairs[i][1], s.pairs[i][2]} \subseteq N
  BY <1>4, <1>5
<1>6. \A m, n \in N \cup {f} : s.wire[<<m, 0>>] = <<n, 0>> /\ <<m, n>> \notin I
                               => Queued(s.pairs, m, n)
  BY <1>1, <1>3 DEF Exact
<1>7. \A i \in DOMAIN s.pairs :
        /\ s.pairs[i][1] < f + 1 /\ s.pairs[i][2] < f + 1
        /\ {s.pairs[i][1], s.pairs[i][2]} \subseteq N \cup {f}
           => s.wire[<<s.pairs[i][1], 0>>] = <<s.pairs[i][2], 0>>
  <2> SUFFICES ASSUME NEW i \in DOMAIN s.pairs
               PROVE  /\ s.pairs[i][1] < f + 1 /\ s.pairs[i][2] < f + 1
                      /\ {s.pairs[i][1], s.pairs[i][2]} \subseteq N \cup {f}
                         => s.wire[<<s.pairs[i][1], 0>>] = <<s.pairs[i][2], 0>>
    OBVIOUS
  <2>1. s.pairs[i][1] < f + 1 /\ s.pairs[i][2] < f + 1
    BY <1>4
  <2> QED BY <1>1, <1>5, <2>1 DEF Exact
<1> QED BY <1>6, <1>7 DEF Exact

\* Giving the wire of an auxiliary port that is about to go to the new node f.
LEMMA AttachGood ==
  ASSUME NEW s \in States, NEW L \in SUBSET Port, NEW N \in SUBSET Ids, NEW I,
         NEW f \in Nat, f < MaxIds, Good(s, L, N, I, f), NEW q \in L, q[2] > 0,
         NEW a, a = <<f, 0>>, NEW M, M = (L \ {q}) \cup {a},
         NEW K, K = N \cup {f}, NEW t, t = Attach(s, a, q)
  PROVE  Moves(s, L, N, I, f, t, M, K, f + 1)
<1> DEFINE w == s.wire
           b == w[q]
           v == Rewired(w, a, b)
<1>1. /\ w \in Wiring /\ b \in Port \cup {None} /\ Sound(w, L, f)
      /\ f \in Ids /\ a \in Port /\ a[1] = f /\ a[2] = 0 /\ a # None
      /\ M \in SUBSET Port /\ K \in SUBSET Ids
  BY PortFacts, HINAssumption DEF States, Wiring, Good, Port, Ids, NetAssumption
<1>2. /\ b # None => b[1] < f /\ b[1] < f + 1 /\ w[b] = q
      /\ a \notin L /\ a[1] < f + 1
  <2>1. b # None => b[1] < f /\ w[b] = q
    BY <1>1 DEF Sound
  <2>2. a \notin L /\ a[1] < f + 1
    BY <1>1 DEF Sound
  <2>3. b # None => b[1] \in Nat
    BY <1>1, PortFacts
  <2> HIDE DEF b
  <2>4. b # None => b[1] < f + 1
    BY <2>1, <2>3
  <2> QED BY <2>1, <2>2, <2>4
<1>3. \A r \in M \ {a, b} : r \in L /\ (w[r] # None => w[r] \notin {a, b})
  BY <1>1, <1>2 DEF Sound
<1>4. t = Link(s, a, b) /\ t \in States /\ t.wire = v
  <2>1. t = Link(s, a, b)
    BY DEF Attach
  <2> HIDE DEF b
  <2> QED BY <1>1, <2>1, LinkType DEF v
<1>5. \A n \in K : <<n, 0>> \in M
  <2> SUFFICES ASSUME NEW n \in K PROVE <<n, 0>> \in M
    OBVIOUS
  <2>1. CASE n = f
    BY <2>1
  <2>2. CASE n \in N
    <3>1. <<n, 0>> \in L /\ <<n, 0>>[2] = 0
      BY <2>2 DEF Good
    <3>2. q[2] # 0
      BY PortFacts
    <3>3. <<n, 0>> # q
      BY <3>1, <3>2
    <3> QED BY <3>1, <3>3
  <2> QED BY <2>1, <2>2
<1>6. Sound(v, M, f + 1)
  <2>1. \A r \in M : r[1] < f + 1
    <3>1. \A r \in L : r[1] < f /\ r[1] \in Nat
      BY <1>1, PortFacts DEF Sound
    <3>2. \A r \in L : r[1] < f + 1
      BY <3>1
    <3> QED BY <1>2, <3>2
  <2> HIDE DEF b, w
  <2> QED BY <1>1, <1>2, <1>3, <2>1, RewiredSound
<1>7. Exact(t, K, I, f + 1)
  <2> DEFINE L1 == L \cup {a}
  <2>1. Sound(w, L1, f + 1) /\ L1 \in SUBSET Port
    <3>1. w[a] = None
      BY <1>1 DEF Sound
    <3>2. \A r \in L : r \in Port /\ r[1] < f /\ (w[r] # None => w[r] \in Port /\ w[r][1] < f)
      BY <1>1 DEF Sound, Wiring
    <3>3. \A r \in Port : r[1] >= f + 1 => r[1] >= f
      BY PortFacts
    <3>4. \A r \in L1 : r[1] < f + 1 /\ (w[r] # None => w[r][1] < f + 1 /\ w[w[r]] = r)
      <4> SUFFICES ASSUME NEW r \in L
                   PROVE  r[1] < f + 1 /\ (w[r] # None => w[r][1] < f + 1 /\ w[w[r]] = r)
        BY <3>1, <1>2
      <4>1. r[1] \in Nat /\ r[1] < f /\ (w[r] # None => w[r][1] \in Nat /\ w[r][1] < f)
        BY <3>2, PortFacts
      <4>2. r[1] < f + 1 /\ (w[r] # None => w[r][1] < f + 1)
        <5> DEFINE x == r[1]
                   y == w[r][1]
        <5> HIDE DEF x, y
        <5>1. x \in Nat /\ x < f => x < f + 1
          OBVIOUS
        <5>2. y \in Nat /\ y < f => y < f + 1
          OBVIOUS
        <5> QED BY <4>1, <5>1, <5>2 DEF x, y
      <4> QED BY <4>2, <1>1 DEF Sound
    <3>5. \A r \in Port : r[1] >= f + 1 => w[r] = None
      BY <3>3, <1>1 DEF Sound
    <3> QED BY <3>4, <3>5, <1>1 DEF Sound
  <2>2. Exact(s, K, I, f + 1)
    BY <1>1, ExactGrows
  <2>3. \A n \in K : <<n, 0>> \in L1
    BY DEF Good
  <2>4. \A n \in K : w[<<n, 0>>] # None => w[<<n, 0>>] \notin {a, b}
    <3> SUFFICES ASSUME NEW n \in K, w[<<n, 0>>] # None, w[<<n, 0>>] \in {a, b} PROVE FALSE
      OBVIOUS
    <3>1. w[w[<<n, 0>>]] = <<n, 0>> /\ w[a] = None
      BY <2>1, <2>3, <1>1 DEF Sound
    <3>2. <<n, 0>> = q /\ <<n, 0>>[2] = 0
      BY <3>1, <1>1, <1>2, PortFacts DEF Port
    <3> QED BY <3>2, PortFacts
  <2>5. f + 1 \in Nat
    OBVIOUS
  <2>6. /\ s \in States /\ L1 \in SUBSET Port /\ K \in SUBSET Ids
        /\ a \in Port \cup {None} /\ b \in Port \cup {None}
        /\ (a # None => a[1] < f + 1) /\ (b # None => b[1] < f + 1)
    BY <1>1, <1>2
  <2>7. /\ Sound(s.wire, L1, f + 1)
        /\ \A n \in K : s.wire[<<n, 0>>] # None => s.wire[<<n, 0>>] \notin {a, b}
    BY <2>1, <2>4
  <2> HIDE DEF b, L1, w
  <2> SUFFICES ASSUME NEW g \in Nat, g = f + 1 PROVE Exact(Link(s, a, b), K, I, g)
    BY <1>4, <2>5
  <2> QED BY <2>2, <2>3, <2>6, <2>7, LinkExact
<1>8. Loopless(v, M)
  <2> SUFFICES ASSUME NEW r \in M, v[r] = r PROVE FALSE
    BY DEF Loopless
  <2>1. r \in Port /\ r # None /\ (r \in L => w[r] # r) /\ (r = a \/ r \in L) /\ b # a
    BY <1>1, <1>2, PortFacts DEF Good, Loopless
  <2> HIDE DEF b, w
  <2> QED BY <2>1 DEF Rewired
<1>9. ASSUME Whole(w, L), NEW r \in M, v[r] # None PROVE v[r] \in M
  <2>1. CASE r = b
    <3>1. v[r] = a
      BY <1>1, <2>1 DEF Rewired
    <3> QED BY <3>1
  <2>2. CASE r = a /\ r # b
    <3>1. v[r] = b /\ b \in L
      BY <1>1, <1>9, <2>2 DEF Whole, Rewired
    <3>2. b # q
      BY DEF Good, Loopless
    <3> QED BY <3>1, <3>2
  <2>3. CASE r # a /\ r # b
    <3>1. v[r] = w[r] /\ r \in L
      BY <1>1, <2>3 DEF Rewired
    <3>2. w[r] # q
      BY <1>1, <1>9, <2>3, <3>1 DEF Sound
    <3> QED BY <1>9, <3>1, <3>2 DEF Whole
  <2> QED BY <2>1, <2>2, <2>3
<1>10. ASSUME Full(w, L), NEW r \in M, r[2] > 0 PROVE v[r] # None
  <2>1. b # None /\ (r # a => w[r] # None) /\ r \in Port
    BY <1>1, <1>10 DEF Full
  <2> HIDE DEF b, w
  <2> QED BY <1>1, <2>1 DEF Rewired
<1>11. Carries(w, L, v, M)
  <2> HIDE DEF v, w
  <2> QED BY <1>9, <1>10 DEF Carries, Whole, Full
<1> HIDE DEF v, b
<1> QED BY <1>1, <1>4, <1>5, <1>6, <1>7, <1>8, <1>11 DEF Good, Moves

-----------------------------------------------------------------------------
\* The ports of L that are not among the first k auxiliary ports of nodes S.
Without(L, S, k) == {p \in L : ~(p[1] \in S /\ p[2] \in 1 .. k)}

\* The k-th ports of the nodes S.
Kth(S, k) == {<<n, k>> : n \in S}

\* Leaving out the k-th wires, once those before, up to j, have been.
Peels(L, S, j, k) ==
  /\ Without(L, S, j) \in SUBSET Port /\ Without(L, S, k) \in SUBSET Port
  /\ Without(L, S, k) = Without(L, S, j) \ Kth(S, k)
  /\ \A n \in S : <<n, k>> \in L => <<n, k>> \in Without(L, S, j)

\* Wires are left out of the ports that are to stay one by one.
LEMMA WithoutFacts ==
  ASSUME NEW L \in SUBSET Port, NEW S, NEW j \in 0 .. 2, NEW k \in 1 .. 3, k = j + 1
  PROVE  Peels(L, S, j, k)
<1>1. k \in 1 .. k /\ k \notin 1 .. j /\ 1 .. k = (1 .. j) \cup {k}
  OBVIOUS
<1>2. \A n \in S : <<n, k>>[1] = n /\ <<n, k>>[2] = k
  OBVIOUS
<1>3. ASSUME NEW p \in L PROVE p \in Kth(S, k) <=> p[1] \in S /\ p[2] = k
  BY <1>2, PortFacts DEF Kth
<1>4. Without(L, S, k) = Without(L, S, j) \ Kth(S, k)
  BY <1>1, <1>3 DEF Without
<1>5. ASSUME NEW n \in S, <<n, k>> \in L PROVE <<n, k>> \in Without(L, S, j)
  BY <1>1, <1>2, <1>5 DEF Without
<1>6. Without(L, S, j) \in SUBSET Port /\ Without(L, S, k) \in SUBSET Port
  BY DEF Without
<1> QED BY <1>4, <1>5, <1>6 DEF Peels

\* An agent has at most three auxiliary ports.
LEMMA ArityFacts ==
  /\ \A k \in Kinds : Arity(k) \in 0 .. 3
  /\ \A j, k \in Kinds : HasRule(j, k) /\ ~("era" \in {j, k})
       /\ ~((j = "dup") # (k = "dup")) /\ "swi" \notin {j, k} /\ "pro" \notin {j, k}
       => Arity(j) = Arity(k)
BY DEF Arity, Kinds, HasRule

\* The nodes and ports of self.nodes exist.
LEMMA LiveFacts ==
  ASSUME TypeOK
  PROVE  /\ LivePorts \in SUBSET Port
         /\ \A n \in live : n \in Ids /\ n < fresh /\ agent[n] \in Kinds
         /\ \A n \in live : \A i \in 0 .. Arity(agent[n]) : <<n, i>> \in LivePorts
<1>1. \A n \in live : n \in Ids /\ n < fresh /\ agent[n] \in Kinds
  BY DEF TypeOK
<1>2. \A n \in live : \A i \in 0 .. Arity(agent[n]) : <<n, i>> \in LivePorts
  <2> SUFFICES ASSUME NEW n \in live, NEW i \in 0 .. Arity(agent[n])
               PROVE  <<n, i>> \in LivePorts
    OBVIOUS
  <2>1. i \in 0 .. 3
    BY <1>1, ArityFacts
  <2> QED BY <1>1, <2>1 DEF LivePorts, LivePort, Port
<1> QED BY <1>1, <1>2 DEF LivePorts

-----------------------------------------------------------------------------
\* The ports of self.nodes but for the principal ports of a and b.
Others(a, b) == LivePorts \ {<<a, 0>>, <<b, 0>>}

\* The net when reduce_step has popped the pair of a and b, with rest behind.
Popped(a, b, rest) ==
  /\ a \in live /\ b \in live /\ a # b /\ rest \in Seq(Ids \X Ids)
  /\ wire[<<a, 0>>] = <<b, 0>> /\ wire[<<b, 0>>] = <<a, 0>>
  /\ Good([wire |-> wire, pairs |-> rest], Others(a, b), live \ {a, b}, Inert, fresh)
  /\ Exact([wire |-> wire, pairs |-> rest], live, live \X live, fresh)
  /\ NoRetiredEnd => Whole(wire, Others(a, b))

\* Rules are symmetric.
LEMMA HasRuleSymmetric == \A j, k : HasRule(j, k) <=> HasRule(k, j)
BY DEF HasRule

\* The pair that fires meets, and what is dropped with it is stale or inert.
LEMMA PoppedHolds ==
  ASSUME IInv, NEW k \in DOMAIN pairs, status = "ready", Fires(pairs[k]),
         \A i \in 1 .. (k - 1) : ~Fires(pairs[i]),
         NEW a, a = pairs[k][1], NEW b, b = pairs[k][2],
         NEW rest, rest = SubSeq(pairs, k + 1, Len(pairs))
  PROVE  Popped(a, b, rest) /\ HasRule(agent[a], agent[b])
<1>1. /\ pairs \in Seq(Ids \X Ids) /\ k \in 1 .. Len(pairs) /\ Len(pairs) \in Nat
      /\ rest \in Seq(Ids \X Ids) /\ LivePorts \in SUBSET Port
      /\ Sound(wire, LivePorts, fresh) /\ Loopless(wire, LivePorts)
      /\ Exact(Net, live, Inert, fresh) /\ \A n \in live : <<n, 0>> \in LivePorts
  BY LiveFacts DEF IInv, TypeOK, Good, Net
<1>2. a \in live /\ b \in live /\ HasRule(agent[a], agent[b])
  BY DEF Fires
<1>3. wire[<<a, 0>>] = <<b, 0>>
  BY <1>1, <1>2 DEF Exact, Net
<1>4. <<a, 0>> \in LivePorts /\ <<b, 0>> \in LivePorts /\ <<b, 0>> # None
  BY <1>1, <1>2, PortFacts
<1>5. a # b /\ wire[<<b, 0>>] = <<a, 0>>
  BY <1>1, <1>3, <1>4 DEF Sound, Loopless
<1>6. /\ \A i \in DOMAIN rest : i + k \in DOMAIN pairs /\ rest[i] = pairs[i + k]
      /\ \A i \in DOMAIN pairs : i > k => i - k \in DOMAIN rest /\ rest[i - k] = pairs[i]
  <2> DEFINE l == Len(pairs)
             d == l - k
  <2>1. DOMAIN pairs = 1 .. l /\ l \in Nat /\ k \in 1 .. l /\ d \in Nat
    BY <1>1
  <2> HIDE DEF l
  <2>2. Len(rest) = d /\ \A i \in 1 .. d : rest[i] = pairs[k + 1 + i - 1]
    BY <1>1, <2>1 DEF l
  <2>3. DOMAIN rest = 1 .. d
    BY <1>1, <2>2
  <2>4. \A i \in 1 .. d : i + k \in 1 .. l /\ k + 1 + i - 1 = i + k
    BY <2>1
  <2>5. \A i \in 1 .. l : i > k => i - k \in 1 .. d /\ k + 1 + (i - k) - 1 = i
    BY <2>1
  <2> HIDE DEF d
  <2> QED BY <2>1, <2>2, <2>3, <2>4, <2>5
<1>7. ASSUME NEW m \in live \ {a, b}, NEW n \in live \ {a, b},
             wire[<<m, 0>>] = <<n, 0>>, <<m, n>> \notin Inert
      PROVE  Queued(rest, m, n)
  <2>1. HasRule(agent[m], agent[n]) /\ HasRule(agent[n], agent[m])
    BY <1>7, HasRuleSymmetric DEF Inert
  <2>2. PICK i \in DOMAIN pairs : pairs[i] \in {<<m, n>>, <<n, m>>}
    BY <1>1, <1>7 DEF Exact, Net, Queued
  <2>3. Fires(pairs[i]) /\ i # k
    BY <2>1, <2>2 DEF Fires
  <2>4. i \in 1 .. Len(pairs) /\ i \notin 1 .. (k - 1)
    BY <1>1, <2>3
  <2>5. i - k \in DOMAIN rest /\ rest[i - k] = pairs[i]
    <3>1. i > k
      BY <1>1, <2>3, <2>4
    <3> QED BY <1>6, <3>1
  <2> QED BY <2>2, <2>5 DEF Queued
<1>8. \A i \in DOMAIN rest :
        /\ rest[i][1] < fresh /\ rest[i][2] < fresh
        /\ {rest[i][1], rest[i][2]} \subseteq live
           => wire[<<rest[i][1], 0>>] = <<rest[i][2], 0>>
  <2>1. \A i \in DOMAIN pairs :
          /\ pairs[i][1] < fresh /\ pairs[i][2] < fresh
          /\ {pairs[i][1], pairs[i][2]} \subseteq live
             => wire[<<pairs[i][1], 0>>] = <<pairs[i][2], 0>>
    BY <1>1 DEF Exact, Net
  <2> QED BY <1>6, <2>1
<1> DEFINE s0 == [wire |-> wire, pairs |-> rest]
<1>9. Exact(s0, live \ {a, b}, Inert, fresh)
  BY <1>7, <1>8 DEF Exact
<1>10. Sound(wire, Others(a, b), fresh) /\ Loopless(wire, Others(a, b))
  BY <1>1 DEF Sound, Loopless, Others
<1>11. \A n \in live \ {a, b} : <<n, 0>> \in Others(a, b)
  BY <1>1 DEF Others
<1>12. ASSUME NoRetiredEnd, NEW p \in Others(a, b), wire[p] # None PROVE wire[p] \in Others(a, b)
  <2>1. p \in LivePorts /\ p # <<a, 0>> /\ p # <<b, 0>>
    BY DEF Others
  <2>2. wire[p] \in LivePorts /\ wire[wire[p]] = p
    BY <1>1, <1>12, <2>1 DEF NoRetiredEnd, LivePorts, Sound, IInv, TypeOK
  <2> QED BY <1>3, <1>5, <2>1, <2>2 DEF Others
<1>13. Exact(s0, live, live \X live, fresh)
  BY <1>8 DEF Exact
<1> QED BY <1>1, <1>2, <1>3, <1>5, <1>9, <1>10, <1>11, <1>12, <1>13 DEF Popped, Good, Whole

\* What every rewrite has to show: the net it leaves is good on a set of
\* ports that holds all ports of the agents it leaves.
LEMMA RewriteGood ==
  ASSUME IInv, TypeOK', NEW L \in SUBSET Port,
         Good(Net', L, live', Inert, fresh'), LivePorts' \subseteq L,
         \A m \in live \cap live' : agent'[m] = agent[m], status' = status
  PROVE  IInv'
<1>1. LivePorts' \in SUBSET Port
  BY DEF LivePorts
<1>2. wire' \in Wiring /\ fresh' \in Nat
  BY HINAssumption DEF TypeOK, Wiring, NetAssumption
<1>3. Sound(wire', LivePorts', fresh') /\ Loopless(wire', LivePorts')
  <2>1. Sound(wire', L, fresh') /\ Loopless(wire', L)
    BY DEF Good, Net
  <2> QED BY <1>1, <1>2, <2>1, SoundShrinks DEF Loopless
<1>4. \A n \in live' : <<n, 0>> \in LivePorts'
  <2> SUFFICES ASSUME NEW n \in live' PROVE <<n, 0>> \in LivePorts'
    OBVIOUS
  <2>1. n \in Ids /\ agent'[n] \in Kinds
    BY DEF TypeOK
  <2>2. 0 <= Arity(agent'[n])
    BY <2>1, ArityFacts
  <2> QED BY <2>1, <2>2 DEF LivePorts, LivePort, Port
<1>5. \A m, n \in live' : <<m, n>> \in Inert => <<m, n>> \in Inert'
  BY DEF Inert
<1>6. Exact(Net', live', Inert', fresh')
  BY <1>5 DEF Good, Exact
<1> QED BY <1>3, <1>4, <1>6 DEF IInv, Good, Net

\* And it carries closedness from the ports it starts with to those it leaves.
LEMMA ClosedCarries ==
  ASSUME NEW a, NEW b, NEW L, Full(wire, Others(a, b)) => Full(wire', L), LivePorts' \subseteq L
  PROVE  Closed => Closed'
BY DEF Closed, Full, Others

LEMMA WholeCarries ==
  ASSUME Whole(wire', LivePorts')
  PROVE  NoRetiredEnd'
BY DEF Whole, NoRetiredEnd, LivePorts

\* The auxiliary ports of the two agents are among those to deal with.
LEMMA AuxFacts ==
  ASSUME TypeOK, NEW a \in live, NEW b \in live
  PROVE  /\ Others(a, b) \in SUBSET Port
         /\ \A n \in {a, b}, i \in 1 .. 3 : <<n, i>> \in Others(a, b) <=> i <= Arity(agent[n])
<1>1. Others(a, b) \in SUBSET Port
  BY LiveFacts DEF Others
<1>2. ASSUME NEW n \in {a, b}, NEW i \in 1 .. 3
      PROVE  <<n, i>> \in Others(a, b) <=> i <= Arity(agent[n])
  <2>1. n \in live /\ Arity(agent[n]) \in 0 .. 3
    BY LiveFacts, ArityFacts
  <2>2. <<n, i>> \in LivePorts => i <= Arity(agent[n])
    BY DEF LivePorts, LivePort
  <2>3. i <= Arity(agent[n]) => <<n, i>> \in LivePorts
    <3>1. i <= Arity(agent[n]) => i \in 0 .. Arity(agent[n])
      BY <2>1
    <3> QED BY <2>1, <3>1, LiveFacts
  <2>4. <<n, i>> # <<a, 0>> /\ <<n, i>> # <<b, 0>>
    OBVIOUS
  <2> QED BY <2>2, <2>3, <2>4 DEF Others
<1> QED BY <1>1, <1>2

\* One round of the loop of _rule_annihilate: the k-th wires are joined.
LEMMA SpliceRound ==
  ASSUME IInv, NEW a \in live, NEW b \in live, a # b, Arity(agent[a]) = Arity(agent[b]),
         NEW s \in States, NEW j \in 0 .. 2, NEW k \in 1 .. 3, k = j + 1,
         NEW N \in SUBSET Ids, NEW Mj, Mj = Without(Others(a, b), {a, b}, j),
         NEW Mk, Mk = Without(Others(a, b), {a, b}, k), Good(s, Mj, N, Inert, fresh),
         NEW t, t = IF Arity(agent[a]) >= k THEN Splice(s, <<a, k>>, <<b, k>>) ELSE s
  PROVE  Moves(s, Mj, N, Inert, fresh, t, Mk, N, fresh)
<1>1. /\ fresh \in Nat /\ Arity(agent[a]) \in 0 .. 3 /\ Others(a, b) \in SUBSET Port
      /\ \A n \in {a, b}, i \in 1 .. 3 : <<n, i>> \in Others(a, b) <=> i <= Arity(agent[n])
  <2>1. fresh \in Nat /\ Arity(agent[a]) \in 0 .. 3
    BY LiveFacts, ArityFacts, HINAssumption DEF IInv, TypeOK, NetAssumption
  <2>2. TypeOK
    BY DEF IInv
  <2> QED BY <2>1, <2>2, AuxFacts
<1>2. /\ Mj \in SUBSET Port /\ Mk \in SUBSET Port /\ Mk = Mj \ Kth({a, b}, k)
      /\ \A n \in {a, b} : <<n, k>> \in Others(a, b) => <<n, k>> \in Mj
  <2>1. Peels(Others(a, b), {a, b}, j, k)
    BY <1>1, WithoutFacts
  <2> QED BY <2>1 DEF Peels
<1>3. CASE Arity(agent[a]) >= k
  <2>1. <<a, k>> \in Mj /\ <<b, k>> \in Mj
    BY <1>1, <1>2, <1>3
  <2>2. Mk = Mj \ {<<a, k>>, <<b, k>>}
    <3>1. Kth({a, b}, k) = {<<a, k>>, <<b, k>>}
      BY DEF Kth
    <3> QED BY <1>2, <3>1
  <2>3. t = Splice(s, <<a, k>>, <<b, k>>)
    BY <1>3
  <2>4. <<a, k>> # <<b, k>> /\ <<a, k>>[2] > 0 /\ <<b, k>>[2] > 0
    OBVIOUS
  <2> SUFFICES ASSUME NEW p, p = <<a, k>>, NEW q, q = <<b, k>>
               PROVE  Moves(s, Mj, N, Inert, fresh, t, Mk, N, fresh)
    OBVIOUS
  <2>5. /\ p \in Mj /\ q \in Mj /\ p # q /\ p[2] > 0 /\ q[2] > 0
        /\ Mk = Mj \ {p, q} /\ t = Splice(s, p, q)
    BY <2>1, <2>2, <2>3, <2>4
  <2>6. Mj \in SUBSET Port /\ Good(s, Mj, N, Inert, fresh) /\ fresh \in Nat
    BY <1>1, <1>2
  <2> QED BY <2>5, <2>6, SpliceGood
<1>4. CASE ~(Arity(agent[a]) >= k)
  <2>1. \A n \in {a, b} : <<n, k>> \notin Others(a, b)
    BY <1>1, <1>4
  <2>2. Mk = Mj
    BY <1>2, <2>1 DEF Without, Kth
  <2> QED BY <1>2, <1>4, <2>2 DEF Carries, Moves
<1> QED BY <1>3, <1>4

\* _rule_annihilate: the wires of both agents are joined pairwise.
LEMMA AnnihilatePreserves ==
  ASSUME IInv, NEW a, NEW b, NEW rest, Popped(a, b, rest),
         Arity(agent[a]) = Arity(agent[b]), Annihilate(a, b, rest)
  PROVE  IInv' /\ (Closed => Closed') /\ (NoRetiredEnd => NoRetiredEnd')
<1> DEFINE n  == Arity(agent[a])
           N  == live \ {a, b}
           M(k) == Without(Others(a, b), {a, b}, k)
           s0 == [wire |-> wire, pairs |-> rest]
           s1 == IF n >= 1 THEN Splice(s0, <<a, 1>>, <<b, 1>>) ELSE s0
           s2 == IF n >= 2 THEN Splice(s1, <<a, 2>>, <<b, 2>>) ELSE s1
           s3 == IF n >= 3 THEN Splice(s2, <<a, 3>>, <<b, 3>>) ELSE s2
<1>1. /\ a \in live /\ b \in live /\ a # b /\ n \in 0 .. 3 /\ N \in SUBSET Ids
      /\ Others(a, b) \in SUBSET Port
  BY LiveFacts, ArityFacts DEF IInv, Popped, Others
<1>2. s0 \in States /\ Good(s0, M(0), N, Inert, fresh) /\ M(0) = Others(a, b)
  <2>1. M(0) = Others(a, b)
    BY DEF Without
  <2> QED BY <2>1 DEF IInv, TypeOK, States, Wiring, Popped
<1>3. s3 \in States /\ Good(s3, M(3), N, Inert, fresh) /\ Carries(wire, M(0), s3.wire, M(3))
  <2>0. s0.wire = wire
    OBVIOUS
  <2> HIDE DEF s0, N
  <2>1. Moves(s0, M(0), N, Inert, fresh, s1, M(1), N, fresh)
    <3>1. 0 \in 0 .. 2 /\ 1 \in 1 .. 3 /\ 1 = 0 + 1
      OBVIOUS
    <3>2. s1 = IF Arity(agent[a]) >= 1 THEN Splice(s0, <<a, 1>>, <<b, 1>>) ELSE s0
      OBVIOUS
    <3>3. /\ M(0) = Without(Others(a, b), {a, b}, 0)
          /\ M(1) = Without(Others(a, b), {a, b}, 1)
      OBVIOUS
    <3> HIDE DEF s1, M, n
    <3> QED BY <1>1, <1>2, <3>1, <3>2, <3>3, SpliceRound
  <2> HIDE DEF s1
  <2>2. Moves(s1, M(1), N, Inert, fresh, s2, M(2), N, fresh)
    <3>1. 1 \in 0 .. 2 /\ 2 \in 1 .. 3 /\ 2 = 1 + 1
      OBVIOUS
    <3>2. s2 = IF Arity(agent[a]) >= 2 THEN Splice(s1, <<a, 2>>, <<b, 2>>) ELSE s1
      OBVIOUS
    <3>3. /\ M(1) = Without(Others(a, b), {a, b}, 1)
          /\ M(2) = Without(Others(a, b), {a, b}, 2)
      OBVIOUS
    <3> HIDE DEF s2, M, n
    <3>4. s1 \in States /\ Good(s1, M(1), N, Inert, fresh)
      BY <2>1 DEF Moves
    <3> QED BY <1>1, <3>1, <3>2, <3>3, <3>4, SpliceRound
  <2> HIDE DEF s2
  <2>3. Moves(s2, M(2), N, Inert, fresh, s3, M(3), N, fresh)
    <3>1. 2 \in 0 .. 2 /\ 3 \in 1 .. 3 /\ 3 = 2 + 1
      OBVIOUS
    <3>2. s3 = IF Arity(agent[a]) >= 3 THEN Splice(s2, <<a, 3>>, <<b, 3>>) ELSE s2
      OBVIOUS
    <3>3. /\ M(2) = Without(Others(a, b), {a, b}, 2)
          /\ M(3) = Without(Others(a, b), {a, b}, 3)
      OBVIOUS
    <3> HIDE DEF s3, M, n
    <3>4. s2 \in States /\ Good(s2, M(2), N, Inert, fresh)
      BY <2>2 DEF Moves
    <3> QED BY <1>1, <3>1, <3>2, <3>3, <3>4, SpliceRound
  <2> HIDE DEF s3, M
  <2> QED BY <2>0, <2>1, <2>2, <2>3 DEF Carries, Moves
<1>4. /\ wire' = s3.wire /\ pairs' = s3.pairs /\ fresh' = fresh
      /\ agent' = agent /\ val' = val /\ live' = N
      /\ UNCHANGED <<cloned, status, built>>
  <2>1. Commit(s3, 0, LAMBDA m : "none", None, {a, b}) /\ UNCHANGED <<cloned, built>>
    BY DEF Annihilate, ForAux
  <2>2. fresh \in Nat
    BY HINAssumption DEF IInv, TypeOK, NetAssumption
  <2> HIDE DEF s3
  <2> QED BY <2>1, <2>2 DEF Commit, IInv, TypeOK, Ids
<1> HIDE DEF s3
<1>5. TypeOK'
  BY <1>3, <1>4 DEF IInv, TypeOK, States, Wiring
<1>6. LivePorts' = M(3)
  <2>1. ASSUME NEW p \in Port PROVE LivePort(p)' <=> p \in M(3)
    <3>1. LivePort(p)' <=> p[1] \in live /\ p[1] \notin {a, b} /\ p[2] <= Arity(agent[p[1]])
      BY <1>4 DEF LivePort
    <3>2. p \in Others(a, b) <=> /\ p[1] \in live /\ p[2] <= Arity(agent[p[1]])
                                 /\ ~(p[1] \in {a, b} /\ p[2] = 0)
      BY PortFacts DEF Others, LivePorts, LivePort
    <3>3. p[2] = 0 \/ p[2] \in 1 .. 3
      BY PortFacts
    <3> QED BY <3>1, <3>2, <3>3 DEF Without
  <2> QED BY <2>1, <1>1 DEF LivePorts, Without
<1>7. Good(Net', LivePorts', live', Inert, fresh') /\ LivePorts' \in SUBSET Port
  <2>1. Net' = s3
    BY <1>3, <1>4 DEF Net, States
  <2> HIDE DEF M, N
  <2> QED BY <1>3, <1>4, <1>6, <2>1 DEF LivePorts
<1>8. IInv'
  <2>1. \A m \in live \cap live' : agent'[m] = agent[m]
    BY <1>4
  <2> QED BY <1>4, <1>5, <1>7, <2>1, RewriteGood
<1>9. Carries(wire, Others(a, b), wire', LivePorts')
  <2> HIDE DEF M
  <2> QED BY <1>2, <1>3, <1>4, <1>6
<1> QED BY <1>8, <1>9, ClosedCarries, WholeCarries DEF Carries, Popped

-----------------------------------------------------------------------------
\* The first k erasers made by _rule_erase.
Erasers(k) == fresh .. (fresh + k - 1)

\* The ports to keep and the nodes when k of the wires of o have an eraser.
ErasePorts(e, o, k) == Without(Others(e, o), {o}, k) \cup {<<m, 0>> : m \in Erasers(k)}
EraseNodes(e, o, k) == (live \ {e, o}) \cup Erasers(k)

\* The k-th eraser f comes after the j-th.
OneMoreEraser(e, o, j, k, f) ==
  /\ f \in Nat /\ f < MaxIds /\ f + 1 = fresh + k /\ f = fresh + k - 1
  /\ ErasePorts(e, o, j) \in SUBSET Port /\ EraseNodes(e, o, j) \in SUBSET Ids
  /\ <<o, k>> \in ErasePorts(e, o, j)
  /\ ErasePorts(e, o, k) = (ErasePorts(e, o, j) \ {<<o, k>>}) \cup {<<f, 0>>}
  /\ EraseNodes(e, o, k) = EraseNodes(e, o, j) \cup {f}

\* An eraser is one more node, whose port takes the place of one of o's.
LEMMA EraserFacts ==
  ASSUME TypeOK, NEW e \in live, NEW o \in live, NEW j \in 0 .. 2, NEW k \in 1 .. 3, k = j + 1,
         k <= Arity(agent[o]), fresh + k <= MaxIds, NEW f, f = fresh + j
  PROVE  OneMoreEraser(e, o, j, k, f)
<1>1. /\ fresh \in Nat /\ MaxIds \in Nat /\ o \in Nat /\ o < fresh /\ live \subseteq Ids
      /\ f \in Nat /\ f < MaxIds /\ f + 1 = fresh + k /\ f = fresh + k - 1
  BY LiveFacts, HINAssumption DEF TypeOK, NetAssumption, Ids
<1>2. Erasers(k) = Erasers(j) \cup {f} /\ Erasers(j) \subseteq Ids
  <2>1. fresh .. (fresh + k - 1) = (fresh .. (fresh + j - 1)) \cup {fresh + j}
    BY <1>1
  <2>2. \A m \in fresh .. (fresh + j - 1) : m \in Ids
    BY <1>1 DEF Ids
  <2> QED BY <2>1, <2>2 DEF Erasers
<1>3. /\ {<<m, 0>> : m \in Erasers(k)} = {<<m, 0>> : m \in Erasers(j)} \cup {<<f, 0>>}
      /\ \A m \in Erasers(j) : <<m, 0>> \in Port
      /\ <<o, k>> \notin {<<m, 0>> : m \in Erasers(j)} /\ <<o, k>> # <<f, 0>>
  BY <1>2 DEF Port
<1>4. Peels(Others(e, o), {o}, j, k)
  BY AuxFacts, WithoutFacts
<1>5. <<o, k>> \in Others(e, o) /\ Kth({o}, k) = {<<o, k>>}
  BY AuxFacts DEF Kth
<1>6. ErasePorts(e, o, j) \in SUBSET Port /\ <<o, k>> \in ErasePorts(e, o, j)
  BY <1>3, <1>4, <1>5 DEF Peels, ErasePorts
<1>7. ErasePorts(e, o, k) = (ErasePorts(e, o, j) \ {<<o, k>>}) \cup {<<f, 0>>}
  BY <1>3, <1>4, <1>5 DEF Peels, ErasePorts
<1>8. /\ EraseNodes(e, o, j) \in SUBSET Ids
      /\ EraseNodes(e, o, k) = EraseNodes(e, o, j) \cup {f}
  BY <1>1, <1>2 DEF EraseNodes
<1> QED BY <1>1, <1>6, <1>7, <1>8 DEF OneMoreEraser

\* One round of the loop of _rule_erase: the k-th wire gets its eraser.
LEMMA EraseRound ==
  ASSUME TypeOK, NEW e \in live, NEW o \in live, NEW s \in States,
         NEW j \in 0 .. 2, NEW k \in 1 .. 3, k = j + 1, k <= Arity(agent[o]),
         fresh + k <= MaxIds,
         Good(s, ErasePorts(e, o, j), EraseNodes(e, o, j), Inert, fresh + j),
         NEW t, t = Attach(s, <<fresh + k - 1, 0>>, <<o, k>>)
  PROVE  Moves(s, ErasePorts(e, o, j), EraseNodes(e, o, j), Inert, fresh + j,
               t, ErasePorts(e, o, k), EraseNodes(e, o, k), fresh + k)
<1> SUFFICES ASSUME NEW f, f = fresh + j, NEW q, q = <<o, k>>, NEW a, a = <<f, 0>>,
                    NEW L, L = ErasePorts(e, o, j), NEW N, N = EraseNodes(e, o, j),
                    NEW M, M = ErasePorts(e, o, k), NEW K, K = EraseNodes(e, o, k)
             PROVE  Moves(s, L, N, Inert, f, t, M, K, fresh + k)
  OBVIOUS
<1>1. /\ f \in Nat /\ f < MaxIds /\ f + 1 = fresh + k /\ f = fresh + k - 1
      /\ L \in SUBSET Port /\ N \in SUBSET Ids /\ q \in L
      /\ M = (L \ {q}) \cup {a} /\ K = N \cup {f}
  <2>1. OneMoreEraser(e, o, j, k, f)
    BY EraserFacts
  <2> QED BY <2>1 DEF OneMoreEraser
<1>2. q[2] > 0 /\ t = Attach(s, a, q) /\ Good(s, L, N, Inert, f)
  BY <1>1
<1>3. Moves(s, L, N, Inert, f, t, M, K, f + 1)
  BY <1>1, <1>2, AttachGood
<1> QED BY <1>1, <1>3

\* _rule_erase: every auxiliary wire of the erased agent ends in an eraser.
LEMMA ErasePreserves ==
  ASSUME IInv, NEW e, NEW o, NEW rest, Popped(e, o, rest), agent[e] = "era", Erase(e, o, rest)
  PROVE  IInv' /\ (Closed => Closed') /\ (NoRetiredEnd => NoRetiredEnd')
<1> DEFINE n  == Arity(agent[o])
           s0 == [wire |-> wire, pairs |-> rest]
           s1 == IF n >= 1 THEN Attach(s0, <<fresh + 1 - 1, 0>>, <<o, 1>>) ELSE s0
           s2 == IF n >= 2 THEN Attach(s1, <<fresh + 2 - 1, 0>>, <<o, 2>>) ELSE s1
           s3 == IF n >= 3 THEN Attach(s2, <<fresh + 3 - 1, 0>>, <<o, 3>>) ELSE s2
           P(k) == ErasePorts(e, o, k)
           N(k) == EraseNodes(e, o, k)
           M(s, k, t, l) == Moves(s, P(k), N(k), Inert, fresh + k, t, P(l), N(l), fresh + l)
<1>1. /\ fresh \in Nat /\ MaxIds \in Nat /\ n \in 0 .. 3 /\ n \in Nat /\ TypeOK
      /\ e \in live /\ o \in live /\ Others(e, o) \in SUBSET Port /\ live \subseteq Ids
  BY LiveFacts, ArityFacts, HINAssumption DEF IInv, TypeOK, NetAssumption, Popped, Others
<1>2. M(s0, 0, s0, 0)
  <2>1. P(0) = Others(e, o) /\ N(0) = live \ {e, o} /\ fresh + 0 = fresh
    BY <1>1 DEF Without, ErasePorts, EraseNodes, Erasers
  <2>2. s0 \in States /\ Good(s0, Others(e, o), live \ {e, o}, Inert, fresh)
    BY DEF IInv, TypeOK, States, Wiring, Popped
  <2>3. Carries(s0.wire, P(0), s0.wire, P(0))
    BY DEF Carries
  <2> HIDE DEF s0, P, N
  <2> QED BY <1>1, <2>1, <2>2, <2>3 DEF Moves
<1>3. /\ fresh + n <= MaxIds /\ wire' = s3.wire /\ pairs' = s3.pairs /\ fresh' = fresh + n
      /\ agent' = [m \in Ids |-> IF m \in fresh .. (fresh + n - 1) THEN "era" ELSE agent[m]]
      /\ val' = [m \in Ids |-> IF m \in fresh .. (fresh + n - 1) THEN None ELSE val[m]]
      /\ live' = (live \ {e, o}) \cup (fresh .. (fresh + n - 1))
      /\ UNCHANGED <<cloned, status, built>>
  <2>1. Commit(s3, n, LAMBDA m : "era", None, {e, o}) /\ UNCHANGED <<cloned, built>>
    BY DEF Erase, ForAux
  <2> HIDE DEF s3, n
  <2> QED BY <2>1 DEF Commit
\* The rounds that the arity of o asks for.
<1>4. ASSUME NEW s, NEW j \in 0 .. 2, NEW k \in 1 .. 3, k = j + 1, n >= k, M(s0, 0, s, j),
             NEW t, t = Attach(s, <<fresh + k - 1, 0>>, <<o, k>>)
      PROVE  M(s0, 0, t, k)
  <2>1. s \in States /\ Good(s, P(j), N(j), Inert, fresh + j)
    BY <1>4 DEF Moves
  <2>2. k <= Arity(agent[o]) /\ fresh + k <= MaxIds
    BY <1>1, <1>3, <1>4
  <2>3. M(s, j, t, k)
    BY <1>1, <1>4, <2>1, <2>2, EraseRound
  <2> HIDE DEF P, N, s0
  <2> QED BY <1>4, <2>3 DEF Moves, Carries
<1>5. M(s0, 0, s3, n)
  <2> HIDE DEF s0, M
  <2>1. n >= 1 => M(s0, 0, s1, 1)
    <3>1. 0 \in 0 .. 2 /\ 1 \in 1 .. 3 /\ 1 = 0 + 1
          /\ (n >= 1 => s1 = Attach(s0, <<fresh + 1 - 1, 0>>, <<o, 1>>))
      BY <1>1
    <3> HIDE DEF s1, n
    <3> QED BY <1>2, <1>4, <3>1
  <2>2. n >= 2 => M(s0, 0, s2, 2)
    <3>1. 1 \in 0 .. 2 /\ 2 \in 1 .. 3 /\ 2 = 1 + 1 /\ (n >= 2 => n >= 1)
          /\ (n >= 2 => s2 = Attach(s1, <<fresh + 2 - 1, 0>>, <<o, 2>>))
      BY <1>1
    <3> HIDE DEF s2, s1, n
    <3> QED BY <1>4, <2>1, <3>1
  <2>3. n >= 3 => M(s0, 0, s3, 3)
    <3>1. 2 \in 0 .. 2 /\ 3 \in 1 .. 3 /\ 3 = 2 + 1 /\ (n >= 3 => n >= 2)
          /\ (n >= 3 => s3 = Attach(s2, <<fresh + 3 - 1, 0>>, <<o, 3>>))
      BY <1>1
    <3> HIDE DEF s3, s2, n
    <3> QED BY <1>4, <2>2, <3>1
  <2>4. /\ n = 0 => s3 = s0
        /\ n = 1 => s3 = s1
        /\ n = 2 => s3 = s2
    OBVIOUS
  <2> HIDE DEF s1, s2, s3, n
  <2> QED BY <1>1, <1>2, <2>1, <2>2, <2>3, <2>4
<1>6. /\ s3 \in States /\ P(n) \in SUBSET Port /\ Good(s3, P(n), N(n), Inert, fresh + n)
      /\ Carries(wire, Others(e, o), s3.wire, P(n))
  <2>1. P(0) = Others(e, o) /\ s0.wire = wire
    BY <1>1 DEF Without, ErasePorts, Erasers
  <2> HIDE DEF P, N, s0, s3
  <2> QED BY <1>5, <2>1 DEF Moves
<1> HIDE DEF s3
<1>7. \A m \in fresh .. (fresh + n - 1) : m \in Ids /\ m < fresh + n
  BY <1>1, <1>3 DEF Ids
<1>8. TypeOK'
  <2>1. agent' \in [Ids -> Kinds \cup {"none"}]
    BY <1>3 DEF IInv, TypeOK, Kinds
  <2>2. live' \subseteq {m \in Ids : m < fresh' /\ agent'[m] # "none"}
    <3> HIDE DEF n
    <3>1. \A m \in live : m \in Ids /\ m < fresh /\ agent[m] # "none" /\ agent[m] = agent'[m]
      BY <1>1, <1>3 DEF IInv, TypeOK
    <3>2. \A m \in fresh .. (fresh + n - 1) : agent'[m] = "era"
      BY <1>3, <1>7
    <3>3. \A m \in live : m < fresh + n
      BY <1>1, <3>1 DEF Ids
    <3> QED BY <1>3, <1>7, <3>1, <3>2, <3>3
  <2>3. fresh' \in 0 .. MaxIds
    BY <1>1, <1>3
  <2> QED BY <1>3, <1>6, <2>1, <2>2, <2>3 DEF IInv, TypeOK, States, Wiring
<1>9. LivePorts' = P(n)
  <2>1. ASSUME NEW p \in Port PROVE LivePort(p)' <=> p \in P(n)
    <3>1. CASE p[1] \in fresh .. (fresh + n - 1)
      <4>1. agent'[p[1]] = "era" /\ Arity("era") = 0
        BY <1>3, <1>7, <3>1 DEF Arity
      <4>2. LivePort(p)' <=> p[2] = 0
        BY <1>3, <3>1, <4>1, PortFacts DEF LivePort
      <4>3. p \in P(n) <=> p[2] = 0
        <5>1. p[1] \notin live
          BY <1>1, <3>1, LiveFacts DEF Ids
        <5>2. p \notin Without(Others(e, o), {o}, n)
          BY <5>1 DEF Without, Others, LivePorts, LivePort
        <5>3. p \in {<<m, 0>> : m \in Erasers(n)} <=> p[2] = 0
          BY <3>1, PortFacts DEF Erasers
        <5> QED BY <5>2, <5>3 DEF ErasePorts
      <4> QED BY <4>2, <4>3
    <3>2. CASE p[1] \notin fresh .. (fresh + n - 1)
      <4>1. LivePort(p)' <=> p[1] \in live /\ p[1] \notin {e, o} /\ p[2] <= Arity(agent[p[1]])
        BY <1>3, <3>2, PortFacts DEF LivePort
      <4>2. p \in Others(e, o) <=> /\ p[1] \in live /\ p[2] <= Arity(agent[p[1]])
                                   /\ ~(p[1] \in {e, o} /\ p[2] = 0)
        BY PortFacts DEF Others, LivePorts, LivePort
      <4>3. p[1] = e /\ p[2] <= Arity(agent[p[1]]) => p[2] = 0
        BY PortFacts DEF Arity
      <4>4. p \notin {<<m, 0>> : m \in Erasers(n)}
        BY <3>2 DEF Erasers
      <4>5. p[2] = 0 \/ p[2] \in 1 .. 3
        BY PortFacts
      <4>6. p \in Without(Others(e, o), {o}, n) <=> p \in Others(e, o) /\ p[1] \notin {e, o}
        <5>1. p[1] = o /\ p[2] <= Arity(agent[p[1]]) /\ p[2] # 0 => p[2] \in 1 .. n
          BY <1>1, <4>5
        <5> HIDE DEF n
        <5> QED BY <4>2, <4>3, <5>1 DEF Without
      <4> HIDE DEF n
      <4> QED BY <4>1, <4>2, <4>3, <4>4, <4>6 DEF ErasePorts
    <3> QED BY <3>1, <3>2
  <2> HIDE DEF P, n
  <2> QED BY <2>1, <1>6 DEF LivePorts
<1>10. Good(Net', LivePorts', live', Inert, fresh') /\ LivePorts' \in SUBSET Port
  <2>1. Net' = s3
    BY <1>3, <1>6 DEF Net, States
  <2>2. N(n) = live'
    BY <1>3 DEF EraseNodes, Erasers
  <2> HIDE DEF P, N, n
  <2> QED BY <1>3, <1>6, <1>9, <2>1, <2>2
<1>11. IInv'
  <2>1. \A m \in live \cap live' : agent'[m] = agent[m]
    BY <1>1, <1>3, LiveFacts DEF Ids
  <2> QED BY <1>3, <1>8, <1>10, <2>1, RewriteGood
<1>12. Carries(wire, Others(e, o), wire', LivePorts')
  <2> HIDE DEF P, n
  <2> QED BY <1>3, <1>6, <1>9
<1> QED BY <1>11, <1>12, ClosedCarries, WholeCarries DEF Carries, Popped

-----------------------------------------------------------------------------
\* Making later nodes exist leaves a sound wiring sound.
LEMMA SoundGrows ==
  ASSUME NEW w \in Wiring, NEW L \in SUBSET Port, NEW M \in SUBSET Port,
         NEW f \in Nat, NEW g \in Nat, f <= g, Sound(w, L, f),
         \A p \in M : p \in L \/ (f <= p[1] /\ p[1] < g)
  PROVE  Sound(w, M, g)
<1>1. ASSUME NEW p \in Port, p[1] >= g PROVE w[p] = None
  BY <1>1, PortFacts DEF Sound
<1>2. ASSUME NEW p \in M
      PROVE  p[1] < g /\ (w[p] # None => w[p][1] < g /\ w[w[p]] = p)
  <2>1. CASE p \in L
    <3>1. w[p] # None => w[p] \in Port
      BY DEF Wiring
    <3> QED BY <2>1, <3>1, PortFacts DEF Sound
  <2>2. CASE p \notin L
    <3>1. w[p] = None
      BY <1>2, <2>2, PortFacts DEF Sound
    <3> QED BY <1>2, <2>2, <3>1
  <2> QED BY <2>1, <2>2
<1> QED BY <1>1, <1>2 DEF Sound

\* What a rewrite of a and b leaves that makes one agent: the ports L hold those
\* of the others and its principal port, and no others if L says so.
OneMore(a, b, L) ==
  /\ IInv' /\ (Closed => Closed')
  /\ (\A p \in L : p[1] # fresh => p[1] \notin {a, b} /\ p \in LivePorts)
     /\ (\A p \in L : p[1] = fresh => p[2] = 0) /\ NoRetiredEnd => NoRetiredEnd'

\* The rewrites that make one agent without auxiliary ports.
LEMMA OneMade ==
  ASSUME IInv, NEW a, NEW b, NEW rest, Popped(a, b, rest), NEW k \in {"era", "val"},
         NEW s0, s0 = [wire |-> wire, pairs |-> rest], NEW t, NEW L,
         Moves(s0, Others(a, b), live \ {a, b}, Inert, fresh, t, L,
               (live \ {a, b}) \cup {fresh}, fresh + 1),
         fresh \in Ids, wire' = t.wire, pairs' = t.pairs, fresh' = fresh + 1,
         agent' = [agent EXCEPT ![fresh] = k], live' = (live \ {a, b}) \cup {fresh},
         status' = status, TypeOK',
         \A p \in Others(a, b) : p[1] \notin {a, b} => p \in L, <<fresh, 0>> \in L
  PROVE  OneMore(a, b, L)
<1>1. /\ fresh \notin live /\ live \subseteq Ids /\ Arity(k) = 0 /\ L \in SUBSET Port
      /\ agent'[fresh] = k /\ \A m \in live : agent'[m] = agent[m]
  BY LiveFacts DEF IInv, TypeOK, Moves, Arity
<1>2. t \in States /\ Good(t, L, live', Inert, fresh') /\ Carries(wire, Others(a, b), wire', L)
  BY DEF Moves
<1>3. ASSUME NEW p \in Port
      PROVE  LivePort(p)' <=> \/ p[1] = fresh /\ p[2] = 0
                              \/ p[1] # fresh /\ p[1] \notin {a, b} /\ LivePort(p)
  <2>1. CASE p[1] = fresh
    BY <1>1, <2>1, PortFacts DEF LivePort
  <2>2. CASE p[1] # fresh
    BY <1>1, <2>2 DEF LivePort
  <2> QED BY <2>1, <2>2
<1>4. LivePorts' \subseteq L
  <2> SUFFICES ASSUME NEW p \in Port, LivePort(p)' PROVE p \in L
    BY DEF LivePorts
  <2>1. CASE p[1] = fresh /\ p[2] = 0
    <3>1. p = <<fresh, 0>>
      BY <2>1, PortFacts
    <3> QED BY <3>1
  <2>2. CASE p[1] \notin {a, b} /\ LivePort(p)
    <3>1. p \in Others(a, b)
      BY <2>2 DEF Others, LivePorts
    <3> QED BY <2>2, <3>1
  <2> QED BY <1>3, <2>1, <2>2
<1>5. IInv'
  <2>1. Net' = t
    BY <1>2 DEF Net, States
  <2>2. \A m \in live \cap live' : agent'[m] = agent[m]
    BY <1>1
  <2> QED BY <1>1, <1>2, <1>4, <2>1, <2>2, RewriteGood
<1>6. Closed => Closed'
  BY <1>2, <1>4, ClosedCarries DEF Carries
<1>7. ASSUME \A p \in L : p[1] # fresh => p[1] \notin {a, b} /\ p \in LivePorts,
             \A p \in L : p[1] = fresh => p[2] = 0, NoRetiredEnd
      PROVE  NoRetiredEnd'
  <2>1. L \subseteq LivePorts'
    BY <1>1, <1>3, <1>7 DEF LivePorts
  <2>2. Whole(wire', LivePorts')
    BY <1>2, <1>4, <1>7, <2>1 DEF Carries, Popped, Whole
  <2> QED BY <2>2, WholeCarries
<1> QED BY <1>5, <1>6, <1>7 DEF OneMore

\* _rule_switch: one branch is joined to the output, the other erased.
LEMMA SwitchPreserves ==
  ASSUME IInv, NEW s, NEW v, NEW rest, Popped(s, v, rest), agent[s] = "swi", Switch(s, v, rest)
  PROVE  IInv' /\ (Closed => Closed') /\ (agent[v] = "val" /\ NoRetiredEnd => NoRetiredEnd')
<1> DEFINE payload == IF agent[v] = "val" THEN val[v] ELSE AgentRef
           i == IF payload \in Truthy THEN 1 ELSE 2
           j == IF payload \in Truthy THEN 2 ELSE 1
           s0 == [wire |-> wire, pairs |-> rest]
           s1 == Splice(s0, <<s, i>>, <<s, 3>>)
           s2 == Attach(s1, <<fresh, 0>>, <<s, j>>)
           N  == live \ {s, v}
           L0 == Others(s, v)
           L1 == L0 \ {<<s, i>>, <<s, 3>>}
           L2 == (L1 \ {<<s, j>>}) \cup {<<fresh, 0>>}
<1>1. /\ fresh \in Nat /\ MaxIds \in Nat /\ L0 \in SUBSET Port /\ N \in SUBSET Ids
      /\ s \in live /\ v \in live /\ TypeOK /\ live \subseteq Ids
  BY LiveFacts, HINAssumption DEF IInv, TypeOK, NetAssumption, Popped, Others
<1>2. /\ fresh + 1 <= MaxIds /\ wire' = s2.wire /\ pairs' = s2.pairs /\ fresh' = fresh + 1
      /\ agent' = [m \in Ids |-> IF m \in fresh .. (fresh + 1 - 1) THEN "era" ELSE agent[m]]
      /\ val' = [m \in Ids |-> IF m \in fresh .. (fresh + 1 - 1) THEN None ELSE val[m]]
      /\ live' = (live \ {s, v}) \cup (fresh .. (fresh + 1 - 1))
      /\ UNCHANGED <<cloned, status, built>>
  <2>1. /\ Commit(s2, 1, LAMBDA m : "era", None, {s, v})
        /\ UNCHANGED <<cloned, built>>
    BY DEF Switch
  <2> HIDE DEF s2
  <2> QED BY <2>1 DEF Commit
<1>3. /\ fresh .. (fresh + 1 - 1) = {fresh} /\ fresh \in Ids /\ fresh < MaxIds /\ fresh \notin live
      /\ agent' = [agent EXCEPT ![fresh] = "era"] /\ live' = N \cup {fresh}
  <2>1. fresh .. (fresh + 1 - 1) = {fresh} /\ fresh \in Ids /\ fresh < MaxIds
    BY <1>1, <1>2 DEF Ids
  <2>2. fresh \notin live
    BY <1>1, LiveFacts
  <2> QED BY <1>2, <2>1, <2>2 DEF IInv, TypeOK
<1>4. {<<s, 1>>, <<s, 2>>, <<s, 3>>} \subseteq L0
  <2>1. Arity(agent[s]) = 3
    BY DEF Arity
  <2>2. \A k \in 1 .. 3 : <<s, k>> \in L0 <=> k <= Arity(agent[s])
    BY <1>1, AuxFacts
  <2> QED BY <2>1, <2>2
<1>5. s0 \in States /\ Good(s0, L0, N, Inert, fresh)
  BY DEF IInv, TypeOK, States, Wiring, Popped
<1>6. (i = 1 /\ j = 2) \/ (i = 2 /\ j = 1)
  OBVIOUS
<1>7. Moves(s0, L0, N, Inert, fresh, s1, L1, N, fresh)
  <2> HIDE DEF s0, i, N, L0, s1, L1
  <2> SUFFICES ASSUME NEW p, p = <<s, i>>, NEW q, q = <<s, 3>>
               PROVE  Moves(s0, L0, N, Inert, fresh, s1, L1, N, fresh)
    OBVIOUS
  <2>1. p \in L0 /\ q \in L0 /\ p # q /\ p[2] > 0 /\ q[2] > 0
    BY <1>4, <1>6
  <2>2. s1 = Splice(s0, p, q) /\ L1 = L0 \ {p, q}
    BY DEF s1, L1
  <2> QED BY <1>1, <1>5, <2>1, <2>2, SpliceGood
<1>8. Moves(s1, L1, N, Inert, fresh, s2, L2, N \cup {fresh}, fresh + 1)
  <2>1. <<s, j>> \in L1 /\ <<s, j>>[2] > 0
    BY <1>4, <1>6
  <2>2. s1 \in States /\ L1 \in SUBSET Port /\ Good(s1, L1, N, Inert, fresh)
    BY <1>7 DEF Moves
  <2>3. s2 = Attach(s1, <<fresh, 0>>, <<s, j>>) /\ L2 = (L1 \ {<<s, j>>}) \cup {<<fresh, 0>>}
    OBVIOUS
  <2> HIDE DEF s1, s2, N, L1, L2, j
  <2> SUFFICES ASSUME NEW a, a = <<fresh, 0>>, NEW q, q = <<s, j>>, NEW K, K = N \cup {fresh}
               PROVE  Moves(s1, L1, N, Inert, fresh, s2, L2, K, fresh + 1)
    OBVIOUS
  <2> QED BY <1>1, <1>3, <2>1, <2>2, <2>3, AttachGood
<1>9. Moves(s0, L0, N, Inert, fresh, s2, L2, N \cup {fresh}, fresh + 1)
  <2> HIDE DEF s0, s1, s2, L0, L1, L2, N
  <2> QED BY <1>7, <1>8 DEF Moves, Carries
<1> HIDE DEF s2
<1>10. TypeOK'
  BY <1>1, <1>2, <1>3, <1>9 DEF IInv, TypeOK, States, Wiring, Kinds, Ids, Moves
<1>11. \A p \in L0 : p[1] \notin {s, v} => p \in L2
  <2>1. <<s, i>>[1] = s /\ <<s, j>>[1] = s /\ <<s, 3>>[1] = s
    OBVIOUS
  <2> HIDE DEF i, j, L0
  <2> QED BY <2>1
<1>12. ASSUME agent[v] = "val", NEW p \in L2
       PROVE  /\ p[1] # fresh => p[1] \notin {s, v} /\ p \in LivePorts
              /\ p[1] = fresh => p[2] = 0
  <2>1. CASE p = <<fresh, 0>>
    BY <2>1
  <2>2. CASE p # <<fresh, 0>>
    <3>1. p \in LivePorts /\ p \in L0 /\ p \notin {<<s, 1>>, <<s, 2>>, <<s, 3>>}
      BY <1>6, <2>2 DEF Others
    <3>2. p[1] \in live /\ p = <<p[1], p[2]>> /\ p[2] \in 0 .. 3 /\ p[2] <= Arity(agent[p[1]])
      BY <3>1, PortFacts DEF LivePorts, LivePort
    <3>3. p[1] # s
      BY <3>1, <3>2 DEF Others
    <3>4. p[1] # v
      BY <1>12, <3>1, <3>2 DEF Others, Arity
    <3> QED BY <1>3, <3>1, <3>2, <3>3, <3>4
  <2> QED BY <2>1, <2>2
<1>13. <<fresh, 0>> \in L2
  OBVIOUS
<1> HIDE DEF L2
<1>14. OneMore(s, v, L2)
  <2>1. s0 = [wire |-> wire, pairs |-> rest]
    OBVIOUS
  <2> HIDE DEF s0
  <2> QED BY <1>2, <1>3, <1>9, <1>10, <1>11, <1>13, <2>1, OneMade
<1> QED BY <1>12, <1>14 DEF OneMore

\* _rule_project: the output wire gets a new value.
LEMMA ProjectPreserves ==
  ASSUME IInv, NEW p, NEW c, NEW rest, Popped(p, c, rest), agent[p] = "pro", Project(p, c, rest)
  PROVE  IInv' /\ (Closed => Closed') /\ (agent[c] = "val" /\ NoRetiredEnd => NoRetiredEnd')
<1> DEFINE payload == IF agent[c] = "val" THEN val[c] ELSE AgentRef
           s0 == [wire |-> wire, pairs |-> rest]
           s2 == Attach(s0, <<fresh, 0>>, <<p, 1>>)
           N  == live \ {p, c}
           L0 == Others(p, c)
           L2 == (L0 \ {<<p, 1>>}) \cup {<<fresh, 0>>}
<1>1. /\ fresh \in Nat /\ MaxIds \in Nat /\ L0 \in SUBSET Port /\ N \in SUBSET Ids
      /\ p \in live /\ c \in live /\ TypeOK /\ live \subseteq Ids
  BY LiveFacts, HINAssumption DEF IInv, TypeOK, NetAssumption, Popped, Others
<1>2. /\ fresh + 1 <= MaxIds /\ wire' = s2.wire /\ pairs' = s2.pairs /\ fresh' = fresh + 1
      /\ agent' = [m \in Ids |-> IF m \in fresh .. (fresh + 1 - 1) THEN "val" ELSE agent[m]]
      /\ val' = [m \in Ids |-> IF m \in fresh .. (fresh + 1 - 1) THEN payload ELSE val[m]]
      /\ live' = (live \ {p, c}) \cup (fresh .. (fresh + 1 - 1))
      /\ UNCHANGED <<cloned, status, built>>
  <2>1. /\ Commit(s2, 1, LAMBDA m : "val", payload, {p, c})
        /\ UNCHANGED <<cloned, built>>
    BY DEF Project
  <2> HIDE DEF s2, payload
  <2> QED BY <2>1 DEF Commit
<1>3. /\ fresh .. (fresh + 1 - 1) = {fresh} /\ fresh \in Ids /\ fresh < MaxIds /\ fresh \notin live
      /\ agent' = [agent EXCEPT ![fresh] = "val"] /\ live' = N \cup {fresh}
  <2>1. fresh .. (fresh + 1 - 1) = {fresh} /\ fresh \in Ids /\ fresh < MaxIds
    BY <1>1, <1>2 DEF Ids
  <2>2. fresh \notin live
    BY <1>1, LiveFacts
  <2> QED BY <1>2, <2>1, <2>2 DEF IInv, TypeOK
<1>4. <<p, 1>> \in L0
  <2>1. Arity(agent[p]) = 1 /\ 1 \in 1 .. 3
    BY DEF Arity
  <2>2. \A k \in 1 .. 3 : <<p, k>> \in L0 <=> k <= Arity(agent[p])
    BY <1>1, AuxFacts
  <2> QED BY <2>1, <2>2
<1>5. s0 \in States /\ Good(s0, L0, N, Inert, fresh)
  BY DEF IInv, TypeOK, States, Wiring, Popped
<1>6. payload \in Values \cup {None}
  BY <1>1, HINAssumption DEF IInv, TypeOK, NetAssumption
<1>7. Moves(s0, L0, N, Inert, fresh, s2, L2, N \cup {fresh}, fresh + 1)
  <2>1. s2 = Attach(s0, <<fresh, 0>>, <<p, 1>>) /\ L2 = (L0 \ {<<p, 1>>}) \cup {<<fresh, 0>>}
        /\ <<p, 1>>[2] > 0
    OBVIOUS
  <2> HIDE DEF s0, s2, N, L0, L2
  <2> SUFFICES ASSUME NEW a, a = <<fresh, 0>>, NEW q, q = <<p, 1>>, NEW K, K = N \cup {fresh}
               PROVE  Moves(s0, L0, N, Inert, fresh, s2, L2, K, fresh + 1)
    OBVIOUS
  <2> QED BY <1>1, <1>3, <1>4, <1>5, <2>1, AttachGood
<1> HIDE DEF s2, payload
<1>8. TypeOK'
  BY <1>1, <1>2, <1>3, <1>6, <1>7 DEF IInv, TypeOK, States, Wiring, Kinds, Ids, Moves
<1>9. \A q \in L0 : q[1] \notin {p, c} => q \in L2
  <2>1. <<p, 1>>[1] = p
    OBVIOUS
  <2> HIDE DEF L0
  <2> QED BY <2>1
<1>10. ASSUME agent[c] = "val", NEW q \in L2
       PROVE  /\ q[1] # fresh => q[1] \notin {p, c} /\ q \in LivePorts
              /\ q[1] = fresh => q[2] = 0
  <2>1. CASE q = <<fresh, 0>>
    BY <2>1
  <2>2. CASE q # <<fresh, 0>>
    <3>1. q \in LivePorts /\ q \in L0 /\ q # <<p, 1>>
      BY <2>2 DEF Others
    <3>2. q[1] \in live /\ q = <<q[1], q[2]>> /\ q[2] \in 0 .. 3 /\ q[2] <= Arity(agent[q[1]])
      BY <3>1, PortFacts DEF LivePorts, LivePort
    <3>3. q[1] # p
      BY <3>1, <3>2 DEF Others, Arity
    <3>4. q[1] # c
      BY <1>10, <3>1, <3>2 DEF Others, Arity
    <3> QED BY <1>3, <3>1, <3>2, <3>3, <3>4
  <2> QED BY <2>1, <2>2
<1>11. <<fresh, 0>> \in L2
  OBVIOUS
<1> HIDE DEF L2
<1>12. OneMore(p, c, L2)
  <2>1. s0 = [wire |-> wire, pairs |-> rest]
    OBVIOUS
  <2> HIDE DEF s0
  <2> QED BY <1>2, <1>3, <1>7, <1>8, <1>9, <1>11, <2>1, OneMade
<1> QED BY <1>10, <1>12 DEF OneMore

-----------------------------------------------------------------------------
\* What the worklist ps holds.
Listed(ps) == {ps[i] : i \in DOMAIN ps}

\* The worklist qs holds what ps does and the pair of p and q, if active.
Records(ps, p, q, qs) ==
  /\ qs \in Seq(Ids \X Ids) /\ Listed(ps) \subseteq Listed(qs)
  /\ \A x \in Listed(qs) : x \in Listed(ps) \/ (p[2] = 0 /\ q[2] = 0 /\ x = <<p[1], q[1]>>)
  /\ p[2] = 0 /\ q[2] = 0 => Queued(qs, p[1], q[1])

\* _record_if_active adds at most the pair, and it is queued then.
LEMMA RecordFacts ==
  ASSUME NEW ps \in Seq(Ids \X Ids), NEW p \in Port, NEW q \in Port
  PROVE  Records(ps, p, q, RecordIfActive(ps, p, q))
<1> DEFINE qs == RecordIfActive(ps, p, q)
<1>1. CASE p[2] = 0 /\ q[2] = 0 /\ ~Queued(ps, p[1], q[1])
  <2> DEFINE x == <<p[1], q[1]>>
  <2>1. x \in Ids \X Ids /\ qs = Append(ps, x)
    BY <1>1, PortFacts DEF RecordIfActive, IsPrincipal
  <2> HIDE DEF x, qs
  <2>2. /\ qs \in Seq(Ids \X Ids) /\ DOMAIN qs = DOMAIN ps \cup {Len(ps) + 1}
        /\ qs[Len(ps) + 1] = x /\ \A i \in DOMAIN ps : qs[i] = ps[i]
    BY <2>1
  <2>3. Listed(ps) \subseteq Listed(qs) /\ \A y \in Listed(qs) : y \in Listed(ps) \/ y = x
    BY <2>2 DEF Listed
  <2>4. Queued(qs, p[1], q[1])
    BY <2>2 DEF Queued, x
  <2>5. Records(ps, p, q, qs)
    <3>1. \A y \in Listed(qs) : y \in Listed(ps) \/ (p[2] = 0 /\ q[2] = 0 /\ y = <<p[1], q[1]>>)
      BY <1>1, <2>3 DEF x
    <3> QED BY <2>2, <2>3, <2>4, <3>1 DEF Records
  <2> QED BY <2>5 DEF qs
<1>2. CASE ~(p[2] = 0 /\ q[2] = 0 /\ ~Queued(ps, p[1], q[1]))
  <2>1. qs = ps
    BY <1>2 DEF RecordIfActive, IsPrincipal
  <2>2. p[2] = 0 /\ q[2] = 0 => Queued(ps, p[1], q[1])
    BY <1>2
  <2>3. Records(ps, p, q, ps)
    BY <2>2 DEF Records
  <2> QED BY <2>1, <2>3
<1> QED BY <1>1, <1>2

\* What the commutation of a duplicator d past o does to every port.
LEMMA DuplicatePreserves ==
  ASSUME IInv, NEW d \in live, NEW o \in live, NEW rest, Popped(d, o, rest),
         agent[d] = "dup", agent[o] # "dup", Duplicate(d, o, rest)
  PROVE  /\ IInv' /\ (Closed => Closed')
         /\ agent[o] # "era" /\ ~Shortcut(d, o) /\ NoRetiredEnd => NoRetiredEnd'
<1> DEFINE n           == Arity(agent[o])
           new         == fresh .. (fresh + (2 + n) - 1)
           External(k) == IF k <= 2 THEN wire[<<d, k>>] ELSE wire[<<o, k - 2>>]
           Source(k)   == IF k <= 2 THEN <<d, k>> ELSE <<o, k - 2>>
           Takers(p)   == {k \in 1 .. (2 + n) : External(k) = p}
           Last(p)     == CHOOSE k \in Takers(p) : \A j \in Takers(p) : j <= k
           Rewire(p)   ==
             LET k == p[1] - fresh + 1 IN
             IF k \in 1 .. (2 + n)
             THEN IF p[2] = 0 THEN External(k)
                  ELSE IF k <= 2
                       THEN IF p[2] <= n THEN <<fresh + 1 + p[2], k>> ELSE None
                       ELSE IF p[2] <= 2 THEN <<fresh + p[2] - 1, k - 2>> ELSE None
             ELSE IF Takers(p) # {} THEN <<fresh + Last(p) - 1, 0>> ELSE wire[p]
           Enqueued(ps, k) == IF k > 2 + n \/ External(k) = None THEN ps
                              ELSE RecordIfActive(ps, <<fresh + k - 1, 0>>, External(k))
           queue == Enqueued(Enqueued(Enqueued(Enqueued(Enqueued(rest, 1), 2), 3), 4), 5)
           w == [p \in Port |-> Rewire(p)]
<1>1. fresh \in Nat /\ MaxIds \in Nat /\ n \in 0 .. 3 /\ LivePorts \in SUBSET Port
  BY LiveFacts, ArityFacts, HINAssumption DEF IInv, TypeOK, NetAssumption
<1>2. /\ fresh + (2 + n) <= MaxIds /\ wire' = w /\ pairs' = queue
      /\ agent' = [m \in Ids |-> IF m \in new THEN IF m < fresh + 2 THEN agent[o] ELSE "dup"
                                 ELSE agent[m]]
      /\ val' = [m \in Ids |-> IF m \in new THEN val[o] ELSE val[m]]
      /\ live' = (live \ {d, o}) \cup new
      /\ fresh' = fresh + (2 + n)
      /\ cloned' = cloned \cup {fresh, fresh + 1}
      /\ UNCHANGED <<status, built>>
  <2>1. /\ Commit([wire |-> w, pairs |-> queue], 2 + n,
                  LAMBDA m : IF m < fresh + 2 THEN agent[o] ELSE "dup", val[o], {d, o})
        /\ cloned' = cloned \cup {fresh, fresh + 1} /\ UNCHANGED built
    BY DEF Duplicate
  <2> HIDE DEF w, queue, n
  <2> QED BY <2>1 DEF Commit
<1>3. d # o /\ d < fresh /\ o < fresh /\ d \in Ids /\ o \in Ids
  BY LiveFacts DEF IInv
<1>4. \A m \in new : m \in Ids /\ m >= fresh /\ m < fresh + (2 + n)
  BY <1>1, <1>2 DEF Ids
<1>5. ASSUME NEW k \in 1 .. (2 + n)
      PROVE  /\ Source(k) \in LivePorts /\ Source(k)[1] \in {d, o}
             /\ External(k) = wire[Source(k)]
             /\ External(k) # None =>
                  External(k) \in Port /\ External(k)[1] < fresh /\ wire[External(k)] = Source(k)
  <2>1. Source(k) \in LivePorts
    <3>1. CASE k <= 2
      <4>1. k \in 0 .. Arity(agent[d])
        BY <3>1, <1>1 DEF Arity
      <4> QED BY <3>1, <4>1, LiveFacts DEF IInv
    <3>2. CASE ~(k <= 2)
      <4>1. k - 2 \in 0 .. Arity(agent[o])
        BY <3>2, <1>1
      <4> QED BY <3>2, <4>1, LiveFacts DEF IInv
    <3> QED BY <3>1, <3>2
  <2>2. Source(k)[1] \in {d, o} /\ External(k) = wire[Source(k)]
    OBVIOUS
  <2> HIDE DEF Source, External
  <2>3. External(k) \in Port \cup {None}
    BY <2>1, <2>2, <1>1 DEF IInv, TypeOK
  <2> QED BY <2>1, <2>2, <2>3 DEF IInv, Good, Net, Sound
<1>6. \A j, k \in 1 .. (2 + n) : Source(j) = Source(k) => j = k
  BY <1>1, <1>3
<1> HIDE DEF External, Source
<1>7. ASSUME NEW p \in Port, NEW k \in Takers(p) PROVE Takers(p) = {k} /\ Last(p) = k
  <2>1. ASSUME NEW j \in Takers(p) PROVE j = k
    BY <1>5, <1>6, PortFacts
  <2> QED BY <2>1, <1>1
<1>8. ASSUME NEW p \in LivePorts, p[1] \notin {d, o} PROVE Takers(wire[p]) = {} \/ wire[p] = None
  BY <1>5, <1>8 DEF IInv, Good, Net, Sound
<1>9. ASSUME NEW p \in Port, p[1] >= fresh PROVE Takers(p) = {}
  BY <1>1, <1>5, PortFacts, <1>9 DEF Ids
<1> HIDE DEF Last
\* The wiring afterwards, by the kind of port.
<1>10. ASSUME NEW k \in 1 .. (2 + n)
       PROVE  w[<<fresh + k - 1, 0>>] = External(k) /\ <<fresh + k - 1, 0>> \in Port
  <2>1. fresh + k - 1 \in new /\ fresh + k - 1 - fresh + 1 = k
    BY <1>1
  <2> DEFINE p == <<fresh + k - 1, 0>>
  <2>2. p \in Port /\ p[1] - fresh + 1 = k /\ p[2] = 0
    <3>1. fresh + k - 1 \in Ids
      BY <1>4, <2>1
    <3>2. p \in Port
      BY <3>1 DEF Port
    <3>3. p[1] - fresh + 1 = k /\ p[2] = 0
      <4> HIDE DEF n, new
      <4>1. p[1] = fresh + k - 1 /\ p[2] = 0
        OBVIOUS
      <4> HIDE DEF p
      <4> QED BY <1>1, <2>1, <4>1
    <3> QED BY <3>2, <3>3
  <2> HIDE DEF p, Takers
  <2>3. w[p] = External(k)
    BY <2>2
  <2> QED BY <2>2, <2>3 DEF p
<1>11. ASSUME NEW k \in 1 .. 2, NEW j \in 1 .. n
       PROVE  /\ <<fresh + k - 1, j>> \in Port /\ <<fresh + j + 1, k>> \in Port
              /\ w[<<fresh + k - 1, j>>] = <<fresh + j + 1, k>>
              /\ w[<<fresh + j + 1, k>>] = <<fresh + k - 1, j>>
  <2> DEFINE p == <<fresh + k - 1, j>>
             q == <<fresh + j + 1, k>>
  <2>1. fresh + k - 1 \in new /\ fresh + j + 1 \in new
    BY <1>1
  <2>2. /\ p \in Port /\ p[1] - fresh + 1 = k /\ p[2] = j
        /\ q \in Port /\ q[1] - fresh + 1 = j + 2 /\ q[2] = k
    BY <1>1, <1>4, <2>1 DEF Port
  <2>3. k \in 1 .. (2 + n) /\ j + 2 \in 1 .. (2 + n) /\ j # 0 /\ k # 0 /\ j <= n /\ k <= 2
        /\ ~(j + 2 <= 2) /\ fresh + 1 + j = fresh + j + 1 /\ j + 2 - 2 = j
    BY <1>1
  <2> HIDE DEF p, q, Takers, n
  <2>4. w[p] = <<fresh + 1 + j, k>>
    BY <2>2, <2>3
  <2>5. w[q] = <<fresh + k - 1, j + 2 - 2>>
    BY <2>2, <2>3
  <2> QED BY <2>2, <2>3, <2>4, <2>5 DEF p, q
<1>12. ASSUME NEW p \in Port, p[1] \notin new
       PROVE  /\ Takers(p) = {} => w[p] = wire[p]
              /\ \A k \in Takers(p) : w[p] = <<fresh + k - 1, 0>>
  <2>1. p[1] - fresh + 1 \notin 1 .. (2 + n)
    BY <1>1, <1>12, PortFacts
  <2>2. w[p] = IF Takers(p) # {} THEN <<fresh + Last(p) - 1, 0>> ELSE wire[p]
    <3> HIDE DEF Takers
    <3> QED BY <2>1
  <2>3. \A k \in Takers(p) : Takers(p) # {} /\ Last(p) = k
    BY <1>7
  <2> HIDE DEF Takers, w
  <2> QED BY <2>2, <2>3
<1> DEFINE Old == {p \in LivePorts : p[1] \notin {d, o}}
           Heads == {<<fresh + k - 1, 0>> : k \in 1 .. (2 + n)}
           Inner == {<<fresh + k - 1, j>> : k \in 1 .. 2, j \in 1 .. n}
                    \cup {<<fresh + j + 1, k>> : k \in 1 .. 2, j \in 1 .. n}
           L == Old \cup Heads \cup Inner
<1>13. w \in Wiring
  <2>1. ASSUME NEW p \in Port PROVE w[p] \in Port \cup {None}
    <3>1. CASE p[1] \notin new
      <4>1. CASE Takers(p) = {}
        <5>1. w[p] = wire[p]
          BY <1>12, <3>1, <4>1
        <5> HIDE DEF w
        <5> QED BY <5>1 DEF IInv, TypeOK
      <4>2. CASE Takers(p) # {}
        <5>1. PICK k \in Takers(p) : TRUE
          BY <4>2
        <5>2. w[p] = <<fresh + k - 1, 0>>
          BY <1>12, <3>1
        <5> HIDE DEF w
        <5> QED BY <5>2, <1>10
      <4> QED BY <4>1, <4>2
    <3>2. CASE p[1] \in new
      <4> DEFINE k == p[1] - fresh + 1
      <4>1. k \in 1 .. (2 + n) /\ p[1] = fresh + k - 1 /\ p = <<p[1], p[2]>>
        BY <3>2, <1>1, PortFacts
      <4>2. CASE p[2] = 0
        <5>1. w[p] = External(k)
          BY <4>1, <4>2, <1>10
        <5> HIDE DEF w, k
        <5> QED BY <5>1, <4>1, <1>5
      <4>3. CASE p[2] # 0 /\ k <= 2
        <5>1. w[p] = IF p[2] <= n THEN <<fresh + 1 + p[2], k>> ELSE None
          <6> HIDE DEF Takers
          <6> QED BY <4>1, <4>3
        <5>2. p[2] <= n => <<fresh + p[2] + 1, k>> \in Port /\ fresh + p[2] + 1 = fresh + 1 + p[2]
          <6>1. p[2] <= n => k \in 1 .. 2 /\ p[2] \in 1 .. n
            <7> HIDE DEF k, n
            <7> QED BY <4>1, <4>3, PortFacts, <1>1
          <6>2. p[2] \in Nat
            BY PortFacts
          <6>3. fresh + p[2] + 1 = fresh + 1 + p[2]
            BY <6>2, <1>1
          <6> HIDE DEF k, n
          <6> QED BY <6>1, <6>3, <1>11
        <5> HIDE DEF w, k
        <5> QED BY <5>1, <5>2
      <4>4. CASE p[2] # 0 /\ ~(k <= 2)
        <5>1. w[p] = IF p[2] <= 2 THEN <<fresh + p[2] - 1, k - 2>> ELSE None
          <6> HIDE DEF Takers
          <6> QED BY <4>1, <4>4
        <5>2. p[2] <= 2 => <<fresh + p[2] - 1, k - 2>> \in Port
          <6>1. p[2] <= 2 => k - 2 \in 1 .. n /\ p[2] \in 1 .. 2
            <7> HIDE DEF k, n
            <7> QED BY <4>1, <4>4, PortFacts, <1>1
          <6> HIDE DEF k, n
          <6> QED BY <6>1, <1>11
        <5> HIDE DEF w, k
        <5> QED BY <5>1, <5>2
      <4> QED BY <4>2, <4>3, <4>4
    <3> QED BY <3>1, <3>2
  <2> QED BY <2>1 DEF Wiring
<1> HIDE DEF w
<1>14. ASSUME NEW p \in Old, w[p] # None PROVE w[p][1] < fresh + (2 + n) /\ w[w[p]] = p
  <2>1. p \in Port /\ p[1] \notin new /\ p[1] < fresh
    BY <1>1, <1>4 DEF IInv, Good, Net, Sound
  <2>2. CASE Takers(p) = {}
    <3>1. w[p] = wire[p] /\ wire[p] # None /\ wire[p] \in Port
      BY <1>12, <1>14, <2>1, <2>2 DEF IInv, TypeOK
    <3>2. wire[p][1] < fresh /\ wire[wire[p]] = p
      BY <3>1 DEF IInv, Good, Net, Sound
    <3>3. Takers(wire[p]) = {} /\ wire[p][1] \notin new
      <4>1. Takers(wire[p]) = {}
        <5> HIDE DEF Takers
        <5> QED BY <1>8, <3>1
      <4>2. wire[p][1] \notin new
        <5> HIDE DEF new
        <5> QED BY <1>1, <3>1, <3>2, <1>4, PortFacts
      <4> QED BY <4>1, <4>2
    <3>4. w[wire[p]] = wire[wire[p]]
      BY <3>1, <3>3, <1>12
    <3> QED BY <3>1, <3>2, <3>4, <1>1, PortFacts
  <2>3. CASE Takers(p) # {}
    <3>1. PICK k \in Takers(p) : TRUE
      BY <2>3
    <3>2. w[p] = <<fresh + k - 1, 0>> /\ k \in 1 .. (2 + n) /\ External(k) = p
      BY <1>12, <2>1, <3>1
    <3>3. w[<<fresh + k - 1, 0>>] = p
      BY <3>2, <1>10
    <3> QED BY <3>2, <3>3, <1>1
  <2> QED BY <2>2, <2>3
<1>15. ASSUME NEW p \in Heads, w[p] # None PROVE w[p][1] < fresh + (2 + n) /\ w[w[p]] = p
  <2>1. PICK k \in 1 .. (2 + n) : p = <<fresh + k - 1, 0>>
    OBVIOUS
  <2>2. w[p] = External(k)
    BY <2>1, <1>10
  <2>3. w[p] \in Port /\ w[p][1] < fresh /\ w[p][1] \in Nat
    BY <2>2, <1>5, <1>15, PortFacts
  <2>4. k \in Takers(w[p]) /\ w[p][1] \notin new
    BY <2>2, <2>3, <1>1
  <2>5. w[w[p]] = <<fresh + k - 1, 0>>
    BY <2>3, <2>4, <1>12
  <2> QED BY <2>1, <2>3, <2>5, <1>1
<1>16. ASSUME NEW p \in Inner PROVE w[p][1] < fresh + (2 + n) /\ w[w[p]] = p
  <2>1. PICK k \in 1 .. 2, j \in 1 .. n : p \in {<<fresh + k - 1, j>>, <<fresh + j + 1, k>>}
    OBVIOUS
  <2>2. /\ w[<<fresh + k - 1, j>>] = <<fresh + j + 1, k>>
        /\ w[<<fresh + j + 1, k>>] = <<fresh + k - 1, j>>
        /\ fresh + k - 1 < fresh + (2 + n) /\ fresh + j + 1 < fresh + (2 + n)
    <3> HIDE DEF n
    <3>1. fresh + k - 1 < fresh + (2 + n) /\ fresh + j + 1 < fresh + (2 + n)
      BY <1>1
    <3> HIDE DEF w, Inner, n
    <3>2. /\ w[<<fresh + k - 1, j>>] = <<fresh + j + 1, k>>
          /\ w[<<fresh + j + 1, k>>] = <<fresh + k - 1, j>>
      BY <1>11
    <3> QED BY <3>1, <3>2
  <2>3. <<fresh + j + 1, k>>[1] = fresh + j + 1 /\ <<fresh + k - 1, j>>[1] = fresh + k - 1
    OBVIOUS
  <2> HIDE DEF Inner, n
  <2> QED BY <2>1, <2>2, <2>3
<1>17. L \in SUBSET Port /\ \A p \in L : p[1] < fresh + (2 + n)
  <2>1. \A p \in Old : p \in Port /\ p[1] < fresh + (2 + n)
    BY <1>1, PortFacts DEF IInv, Good, Net, Sound
  <2>2. \A p \in Heads : p \in Port /\ p[1] < fresh + (2 + n)
    BY <1>1, <1>10
  <2>3. \A p \in Inner : p \in Port /\ p[1] < fresh + (2 + n)
    <3> HIDE DEF n
    <3>1. ASSUME NEW k \in 1 .. 2, NEW j \in 1 .. n
          PROVE  /\ <<fresh + k - 1, j>> \in Port /\ fresh + k - 1 < fresh + (2 + n)
                 /\ <<fresh + j + 1, k>> \in Port /\ fresh + j + 1 < fresh + (2 + n)
      <4>1. fresh + k - 1 < fresh + (2 + n) /\ fresh + j + 1 < fresh + (2 + n)
        BY <1>1
      <4>2. <<fresh + k - 1, j>> \in Port /\ <<fresh + j + 1, k>> \in Port
        BY <1>11
      <4> QED BY <4>1, <4>2
    <3>2. ASSUME NEW p \in Inner PROVE p \in Port /\ p[1] < fresh + (2 + n)
      <4>1. PICK k \in 1 .. 2, j \in 1 .. n : p \in {<<fresh + k - 1, j>>, <<fresh + j + 1, k>>}
        OBVIOUS
      <4>2. /\ <<fresh + k - 1, j>> \in Port /\ fresh + k - 1 < fresh + (2 + n)
            /\ <<fresh + j + 1, k>> \in Port /\ fresh + j + 1 < fresh + (2 + n)
        BY <3>1
      <4>3. p[1] = fresh + k - 1 \/ p[1] = fresh + j + 1
        BY <4>1
      <4> HIDE DEF Inner
      <4> QED BY <4>1, <4>2, <4>3
    <3> QED BY <3>2
  <2> HIDE DEF Old, Heads, Inner
  <2> QED BY <2>1, <2>2, <2>3
<1>18. \A p \in Port : p[1] >= fresh + (2 + n) => w[p] = None
  <2> SUFFICES ASSUME NEW p \in Port, p[1] >= fresh + (2 + n) PROVE w[p] = None
    OBVIOUS
  <2>1. p[1] >= fresh /\ p[1] \notin new
    BY <1>1, PortFacts DEF Ids
  <2> QED BY <2>1, <1>9, <1>12 DEF IInv, Good, Net, Sound
<1>19. Sound(w, L, fresh + (2 + n))
  <2> HIDE DEF Old, Heads, Inner
  <2> QED BY <1>14, <1>15, <1>16, <1>17, <1>18 DEF Sound
\* The worklist afterwards.
<1> DEFINE Active(k)  == k \in 1 .. (2 + n) /\ External(k) # None /\ External(k)[2] = 0
           Mark(k)    == <<fresh + k - 1, External(k)[1]>>
           Holds(ps, K) ==
             /\ ps \in Seq(Ids \X Ids) /\ Listed(rest) \subseteq Listed(ps)
             /\ \A x \in Listed(ps) : x \in Listed(rest) \/ \E k \in 1 .. K : Active(k) /\ x = Mark(k)
             /\ \A k \in 1 .. K : Active(k) => \E x \in Listed(ps) :
                  x = Mark(k) \/ x = <<External(k)[1], fresh + k - 1>>
<1>20. Holds(queue, 5)
  <2>1. ASSUME NEW ps, NEW J \in 0 .. 4, NEW K \in 1 .. 5, K = J + 1, Holds(ps, J)
        PROVE  Holds(Enqueued(ps, K), K)
    <3>1. 1 .. K = (1 .. J) \cup {K}
      BY <2>1
    <3>2. CASE K > 2 + n \/ External(K) = None
      <4>1. Enqueued(ps, K) = ps /\ ~Active(K)
        BY <3>2, <1>1
      <4> HIDE DEF Enqueued, Active, Mark
      <4> QED BY <2>1, <3>1, <4>1
    <3>3. CASE ~(K > 2 + n \/ External(K) = None)
      <4> DEFINE p == <<fresh + K - 1, 0>>
                 q == External(K)
                 qs == RecordIfActive(ps, p, q)
      <4>1. K \in 1 .. (2 + n)
        BY <3>3, <1>1
      <4>2. p \in Port /\ q \in Port /\ p[2] = 0 /\ p[1] = fresh + K - 1
            /\ Enqueued(ps, K) = qs
        BY <4>1, <3>3, <1>5, <1>10
      <4>3. ps \in Seq(Ids \X Ids)
        BY <2>1
      <4> HIDE DEF p, q, qs
      <4>4. /\ qs \in Seq(Ids \X Ids) /\ Listed(ps) \subseteq Listed(qs)
            /\ \A x \in Listed(qs) : x \in Listed(ps) \/ (q[2] = 0 /\ x = <<p[1], q[1]>>)
            /\ q[2] = 0 => Queued(qs, p[1], q[1])
        <5>1. Records(ps, p, q, qs)
          BY <4>2, <4>3, RecordFacts DEF qs
        <5> QED BY <4>2, <5>1 DEF Records
      <4>5. Active(K) <=> q[2] = 0
        BY <4>1, <3>3 DEF q
      <4>6. Mark(K) = <<p[1], q[1]>> /\ External(K) = q
        BY <4>2 DEF q
      <4>7. Active(K) => \E x \in Listed(qs) : x = Mark(K) \/ x = <<External(K)[1], fresh + K - 1>>
        BY <4>2, <4>4, <4>5, <4>6 DEF Queued, Listed
      <4> HIDE DEF Enqueued, Active, Mark
      <4>8. \A x \in Listed(qs) : x \in Listed(rest) \/ \E k \in 1 .. K : Active(k) /\ x = Mark(k)
        BY <2>1, <3>1, <4>4, <4>5, <4>6
      <4>9. \A k \in 1 .. K : Active(k) => \E x \in Listed(qs) :
              x = Mark(k) \/ x = <<External(k)[1], fresh + k - 1>>
        BY <2>1, <3>1, <4>4, <4>7
      <4> QED BY <2>1, <4>2, <4>4, <4>8, <4>9
    <3> QED BY <3>2, <3>3
  <2> DEFINE q1 == Enqueued(rest, 1)
             q2 == Enqueued(q1, 2)
             q3 == Enqueued(q2, 3)
             q4 == Enqueued(q3, 4)
  <2>2. Holds(rest, 0)
    <3>1. 1 .. 0 = {}
      OBVIOUS
    <3> HIDE DEF Active, Mark
    <3> QED BY <3>1 DEF Popped
  <2> HIDE DEF Enqueued, Holds
  <2>3. Holds(q1, 1)
    BY <2>1, <2>2
  <2> HIDE DEF q1
  <2>4. Holds(q2, 2)
    BY <2>1, <2>3
  <2> HIDE DEF q2
  <2>5. Holds(q3, 3)
    BY <2>1, <2>4
  <2> HIDE DEF q3
  <2>6. Holds(q4, 4)
    BY <2>1, <2>5
  <2>7. queue = Enqueued(q4, 5)
    BY DEF q1, q2, q3
  <2> HIDE DEF q4, queue
  <2> QED BY <2>1, <2>6, <2>7
<1> HIDE DEF Enqueued, queue
<1>21. TypeOK'
  <2>1. agent' \in [Ids -> Kinds \cup {"none"}]
    <3> HIDE DEF n
    <3> QED BY <1>2, LiveFacts DEF IInv, TypeOK, Kinds
  <2>2. live' \subseteq {m \in Ids : m < fresh' /\ agent'[m] # "none"}
    <3>1. \A m \in live : m \in Ids /\ m < fresh + (2 + n) /\ agent'[m] = agent[m]
                          /\ agent[m] # "none"
      BY <1>1, <1>2, <1>4, LiveFacts, PortFacts DEF IInv, TypeOK
    <3>2. \A m \in new : agent'[m] # "none"
      <4>1. agent[o] # "none"
        BY DEF IInv, TypeOK
      <4> QED BY <4>1, <1>2, <1>4
    <3> HIDE DEF new, n
    <3> QED BY <1>2, <1>4, <3>1, <3>2
  <2>3. fresh' \in 0 .. MaxIds
    BY <1>1, <1>2
  <2>4. cloned' \subseteq Ids
    <3>1. fresh \in new /\ fresh + 1 \in new
      BY <1>1
    <3> HIDE DEF new
    <3> QED BY <3>1, <1>2, <1>4 DEF IInv, TypeOK
  <2>5. val' \in [Ids -> Values \cup {None}]
    <3> HIDE DEF n, new
    <3> QED BY <1>2, <1>3 DEF IInv, TypeOK
  <2>6. queue \in Seq(Ids \X Ids)
    BY <1>20
  <2> HIDE DEF queue
  <2> QED BY <1>2, <1>13, <2>6, <2>1, <2>2, <2>3, <2>4, <2>5 DEF IInv, TypeOK, Wiring
<1>22. LivePorts' \subseteq L
  <2> SUFFICES ASSUME NEW p \in Port, p[1] \in live', p[2] <= Arity(agent'[p[1]]) PROVE p \in L
    BY DEF LivePorts, LivePort
  <2>1. CASE p[1] \notin new
    <3>1. p \in Old
      <4> HIDE DEF new, n
      <4> QED BY <1>2, <2>1, PortFacts DEF LivePorts, LivePort
    <3> QED BY <3>1
  <2>2. CASE p[1] \in new
    <3> DEFINE k == p[1] - fresh + 1
    <3>1. k \in 1 .. (2 + n) /\ p[1] = fresh + k - 1 /\ p = <<fresh + k - 1, p[2]>>
      BY <2>2, <1>1, PortFacts
    <3>2. CASE p[2] = 0
      <4>1. p \in Heads
        BY <3>1, <3>2
      <4> QED BY <4>1
    <3>3. CASE p[2] # 0 /\ k <= 2
      <4>1. p[1] < fresh + 2
        BY <3>1, <3>3, <1>1
      <4>2. agent'[p[1]] = agent[o]
        <5> HIDE DEF new, n
        <5> QED BY <4>1, <2>2, <1>2, <1>4
      <4>3. p[2] \in 1 .. n /\ k \in 1 .. 2
        <5>1. p[2] <= n
          BY <4>2
        <5> HIDE DEF n, k
        <5> QED BY <5>1, <1>1, <3>1, <3>3, PortFacts
      <4>4. p \in Inner
        BY <3>1, <4>3
      <4> QED BY <4>4
    <3>4. CASE p[2] # 0 /\ ~(k <= 2)
      <4>1. ~(p[1] < fresh + 2)
        BY <3>1, <3>4, <1>1
      <4>2. agent'[p[1]] = "dup"
        <5> HIDE DEF new, n
        <5> QED BY <4>1, <2>2, <1>2, <1>4
      <4>3. p[2] \in 1 .. 2 /\ k - 2 \in 1 .. n /\ p = <<fresh + (k - 2) + 1, p[2]>>
        BY <4>2, <1>1, <3>1, <3>4, PortFacts DEF Arity
      <4>4. p \in Inner
        BY <4>3
      <4> QED BY <4>4
    <3> QED BY <3>2, <3>3, <3>4
  <2> QED BY <2>1, <2>2
<1>23. Loopless(w, L)
  <2>4. ASSUME NEW p \in Port, p[1] \notin new, Takers(p) # {}
        PROVE  \E k \in 1 .. (2 + n) : w[p] = <<fresh + k - 1, 0>>
    <3>1. PICK k \in Takers(p) : TRUE
      BY <2>4
    <3>2. w[p] = <<fresh + k - 1, 0>>
      BY <2>4, <3>1, <1>12
    <3> HIDE DEF w, n
    <3> QED BY <3>2
  <2> SUFFICES ASSUME NEW p \in L, w[p] = p PROVE FALSE
    BY DEF Loopless
  <2>1. CASE p \in Old
    <3>1. p \in Port /\ p[1] \notin new /\ p[1] < fresh /\ p[1] \in Nat /\ wire[p] # p
      BY <2>1, <1>1, <1>4, PortFacts DEF IInv, Good, Net, Sound, Loopless
    <3>2. CASE Takers(p) = {}
      BY <3>1, <3>2, <1>12
    <3>3. CASE Takers(p) # {}
      <4>1. PICK k \in 1 .. (2 + n) : w[p] = <<fresh + k - 1, 0>>
        <5>1. p \in Port /\ p[1] \notin new /\ Takers(p) # {}
          BY <3>1, <3>3
        <5> HIDE DEF w, new, Takers, n, Old, Heads, Inner, L
        <5> QED BY <5>1, <2>4
      <4>2. p[1] = fresh + k - 1
        <5> HIDE DEF w, Takers, n
        <5> QED BY <4>1
      <4> HIDE DEF n
      <4> QED BY <1>1, <3>1, <4>1, <4>2
    <3> QED BY <3>2, <3>3
  <2>2. CASE p \in Heads
    <3>1. PICK k \in 1 .. (2 + n) : p = <<fresh + k - 1, 0>>
      BY <2>2
    <3>2. w[p] = External(k) /\ p \in Port /\ p[1] = fresh + k - 1
      BY <3>1, <1>10
    <3>3. p[1] < fresh
      BY <3>2, <1>5, PortFacts
    <3> HIDE DEF n
    <3> QED BY <1>1, <3>2, <3>3
  <2>3. CASE p \in Inner
    <3>1. PICK k \in 1 .. 2, j \in 1 .. n : p \in {<<fresh + k - 1, j>>, <<fresh + j + 1, k>>}
      BY <2>3
    <3>2. /\ w[<<fresh + k - 1, j>>] = <<fresh + j + 1, k>>
          /\ w[<<fresh + j + 1, k>>] = <<fresh + k - 1, j>>
      <4> HIDE DEF w, n
      <4> QED BY <1>11
    <3>3. <<fresh + k - 1, j>> = <<fresh + j + 1, k>>
      BY <3>1, <3>2
    <3>4. fresh + k - 1 = fresh + j + 1 /\ j = k
      BY <3>3
    <3> QED BY <1>1, <3>4
  <2> QED BY <2>1, <2>2, <2>3
<1>24. live' = (live \ {d, o}) \cup new /\ \A m \in new : m \in Ids /\ m >= fresh
  BY <1>2, <1>4
<1>25. /\ \A m \in live : m \in Ids /\ m < fresh /\ m \notin new
       /\ \A m \in live \ {d, o} : <<m, 0>> \in Old /\ <<m, 0>> \in Port
  <2>1. \A m \in live : m \in Ids /\ m < fresh /\ <<m, 0>> \in LivePorts
    BY DEF IInv, Good, TypeOK
  <2>2. \A m \in live : m \notin new
    <3>1. \A m \in live : m \in Nat /\ ~(m >= fresh)
      <4>1. \A m \in live : m \in Nat /\ m < fresh
        BY <2>1, PortFacts
      <4> QED BY <4>1, <1>1
    <3> HIDE DEF new, n
    <3> QED BY <3>1, <1>4
  <2> QED BY <2>1, <2>2, <1>1
<1>26. Exact([wire |-> wire, pairs |-> rest], live \ {d, o}, Inert, fresh)
  BY DEF Popped, Good
\* The wire of the k-th new node, and the one that leads to it.
<1>27. ASSUME NEW m \in new
       PROVE  \E k \in 1 .. (2 + n) : m = fresh + k - 1 /\ w[<<m, 0>>] = External(k)
  <2>1. m - fresh + 1 \in 1 .. (2 + n) /\ m = fresh + (m - fresh + 1) - 1
    BY <1>1
  <2> HIDE DEF n
  <2> QED BY <2>1, <1>10
<1>28. ASSUME NEW m \in live \ {d, o}
       PROVE  /\ Takers(<<m, 0>>) = {} => w[<<m, 0>>] = wire[<<m, 0>>]
              /\ \A k \in Takers(<<m, 0>>) : w[<<m, 0>>] = <<fresh + k - 1, 0>>
  <2> DEFINE p == <<m, 0>>
  <2>1. p \in Port /\ p[1] \notin new
    BY <1>25
  <2> HIDE DEF p, w, new
  <2>2. /\ Takers(p) = {} => w[p] = wire[p]
        /\ \A k \in Takers(p) : w[p] = <<fresh + k - 1, 0>>
    BY <2>1, <1>12
  <2> QED BY <2>2 DEF p
<1>29. ASSUME NEW m \in live', NEW m2 \in live', w[<<m, 0>>] = <<m2, 0>>, <<m, m2>> \notin Inert
       PROVE  Queued(queue, m, m2)
  <2>1. <<m2, 0>> # None /\ <<m, 0>> # None /\ <<m, 0>> \in Port /\ <<m2, 0>> \in Port
    BY <1>24, <1>25, PortFacts DEF Port
  <2>2. CASE m \in new
    <3>1. PICK k \in 1 .. (2 + n) : m = fresh + k - 1 /\ w[<<m, 0>>] = External(k)
      BY <1>27, <2>2
    <3>2. External(k) = <<m2, 0>> /\ External(k)[1] = m2 /\ External(k)[2] = 0
      BY <3>1, <1>29
    <3>3. Active(k) /\ k \in 1 .. 5
      BY <3>2, <2>1, <1>1
    <3>4. PICK x \in Listed(queue) : x = Mark(k) \/ x = <<External(k)[1], fresh + k - 1>>
      BY <3>3, <1>20
    <3>5. x = <<m, m2>> \/ x = <<m2, m>>
      BY <3>1, <3>2, <3>4
    <3> QED BY <3>5 DEF Queued, Listed
  <2>3. CASE m \notin new /\ Takers(<<m, 0>>) # {}
    <3>1. PICK k \in Takers(<<m, 0>>) : TRUE
      BY <2>3
    <3>2. m \in live \ {d, o}
      BY <2>3, <1>24
    <3>3. k \in 1 .. (2 + n) /\ External(k) = <<m, 0>> /\ <<m2, 0>> = <<fresh + k - 1, 0>>
      BY <3>1, <3>2, <1>28, <1>29
    <3>4. m2 = fresh + k - 1 /\ External(k)[1] = m /\ External(k)[2] = 0
      BY <3>3
    <3>5. Active(k) /\ k \in 1 .. 5
      BY <3>3, <3>4, <2>1, <1>1
    <3>6. PICK x \in Listed(queue) : x = Mark(k) \/ x = <<External(k)[1], fresh + k - 1>>
      BY <3>5, <1>20
    <3>7. x = <<m, m2>> \/ x = <<m2, m>>
      BY <3>4, <3>6
    <3> QED BY <3>7 DEF Queued, Listed
  <2>4. CASE m \notin new /\ Takers(<<m, 0>>) = {}
    <3>1. m \in live \ {d, o} /\ wire[<<m, 0>>] = <<m2, 0>>
      BY <2>4, <1>24, <1>28, <1>29
    <3>2. m2 < fresh
      <4>1. <<m, 0>> \in LivePorts
        BY <3>1, <1>25
      <4>2. <<m2, 0>>[1] = m2
        OBVIOUS
      <4> QED BY <3>1, <4>1, <4>2, <2>1 DEF IInv, Good, Net, Sound
    <3>3. m2 \in live \ {d, o}
      <4>1. m2 \in Nat /\ ~(m2 >= fresh)
        BY <2>1, <3>2, <1>1, <1>24, <1>25 DEF Ids
      <4> QED BY <4>1, <1>24
    <3>4. Queued(rest, m, m2)
      BY <3>1, <3>3, <1>26, <1>29 DEF Exact
    <3>5. Listed(rest) \subseteq Listed(queue)
      BY <1>20
    <3> HIDE DEF Holds
    <3> QED BY <3>4, <3>5 DEF Queued, Listed
  <2> QED BY <2>2, <2>3, <2>4
<1>30. ASSUME NEW x \in Listed(queue)
       PROVE  /\ x[1] < fresh' /\ x[2] < fresh'
              /\ {x[1], x[2]} \subseteq live' => w[<<x[1], 0>>] = <<x[2], 0>>
  <2>1. CASE x \in Listed(rest)
    <3>1. /\ x \in Ids \X Ids /\ x[1] < fresh /\ x[2] < fresh
          /\ {x[1], x[2]} \subseteq live \ {d, o} => wire[<<x[1], 0>>] = <<x[2], 0>>
      BY <2>1, <1>26 DEF Listed, Exact, Popped
    <3>2. x[1] \in Nat /\ x[2] \in Nat /\ x[1] \notin new /\ x[2] \notin new
      BY <3>1, <1>1, <1>4 DEF Ids
    <3>3. x[1] < fresh' /\ x[2] < fresh'
      BY <3>1, <3>2, <1>1, <1>2
    <3>4. ASSUME {x[1], x[2]} \subseteq live' PROVE w[<<x[1], 0>>] = <<x[2], 0>>
      <4>1. x[1] \in live \ {d, o} /\ x[2] \in live \ {d, o} /\ wire[<<x[1], 0>>] = <<x[2], 0>>
        BY <3>1, <3>2, <3>4, <1>24
      <4>2. Takers(<<x[1], 0>>) = {}
        <5> SUFFICES ASSUME NEW k \in Takers(<<x[1], 0>>) PROVE FALSE
          OBVIOUS
        <5>1. k \in 1 .. (2 + n) /\ External(k) = <<x[1], 0>> /\ External(k) # None
          BY <4>1, <1>25, PortFacts
        <5>2. wire[<<x[1], 0>>] = Source(k)
          BY <5>1, <1>5
        <5>3. Source(k)[2] # 0
          BY <5>1, <1>1 DEF Source
        <5>4. <<x[2], 0>>[2] = 0
          OBVIOUS
        <5> QED BY <4>1, <5>2, <5>3, <5>4
      <4> QED BY <4>1, <4>2, <1>28
    <3> QED BY <3>3, <3>4
  <2>2. CASE x \notin Listed(rest)
    <3>1. PICK k \in 1 .. 5 : Active(k) /\ x = Mark(k)
      BY <2>2, <1>20
    <3>2. /\ k \in 1 .. (2 + n) /\ External(k) \in Port /\ External(k)[1] < fresh
          /\ External(k)[2] = 0 /\ x[1] = fresh + k - 1 /\ x[2] = External(k)[1]
          /\ External(k) = <<External(k)[1], 0>> /\ External(k)[1] \in Nat
      BY <3>1, <1>5, PortFacts
    <3>3. x[1] < fresh' /\ x[2] < fresh'
      <4> HIDE DEF n, new
      <4> QED BY <3>2, <1>1, <1>2
    <3>4. w[<<x[1], 0>>] = <<x[2], 0>>
      BY <3>2, <1>10
    <3> QED BY <3>3, <3>4
  <2> QED BY <2>1, <2>2
<1>31. Good(Net', L, live', Inert, fresh')
  <2>1. Exact([wire |-> w, pairs |-> queue], live', Inert, fresh')
    <3>1. \A i \in DOMAIN queue : queue[i] \in Listed(queue)
      BY DEF Listed
    <3> HIDE DEF w, queue, new, n
    <3> QED BY <3>1, <1>29, <1>30 DEF Exact
  <2>2. ASSUME NEW m \in live' PROVE <<m, 0>> \in L
    <3>1. CASE m \in new
      <4>1. m - fresh + 1 \in 1 .. (2 + n) /\ m = fresh + (m - fresh + 1) - 1
        BY <1>1, <3>1
      <4>2. <<m, 0>> \in Heads
        <5> HIDE DEF n
        <5> QED BY <4>1
      <4> QED BY <4>2
    <3>2. CASE m \notin new
      BY <3>2, <1>24, <1>25
    <3> QED BY <3>1, <3>2
  <2>3. Net' = [wire |-> w, pairs |-> queue]
    BY <1>2 DEF Net
  <2> HIDE DEF w, queue, L
  <2> QED BY <1>2, <1>19, <1>23, <2>1, <2>2, <2>3 DEF Good
<1>32. IInv'
  <2>1. \A m \in live \cap live' : agent'[m] = agent[m]
    BY <1>2, <1>25
  <2> HIDE DEF L, n, new
  <2> QED BY <1>2, <1>17, <1>21, <1>22, <1>31, <2>1, RewriteGood
<1>33. ASSUME Full(wire, Others(d, o)), NEW p \in L, p[2] > 0 PROVE w[p] # None
  <2>1. CASE p \in Old
    <3>1. p \in Port /\ p[1] \notin new /\ p \in Others(d, o)
      BY <2>1, <1>1, <1>4 DEF IInv, Good, Net, Sound, Others
    <3>2. CASE Takers(p) = {}
      BY <3>1, <3>2, <1>12, <1>33 DEF Full
    <3>3. CASE Takers(p) # {}
      <4>1. PICK k \in Takers(p) : TRUE
        BY <3>3
      <4>2. w[p] = <<fresh + k - 1, 0>> /\ <<fresh + k - 1, 0>> \in Port
        BY <3>1, <4>1, <1>12, <1>10
      <4> QED BY <4>2, PortFacts
    <3> QED BY <3>2, <3>3
  <2>2. CASE p \in Heads
    BY <1>33, <2>2
  <2>3. CASE p \in Inner
    <3>1. PICK k \in 1 .. 2, j \in 1 .. n : p \in {<<fresh + k - 1, j>>, <<fresh + j + 1, k>>}
      BY <2>3
    <3>2. /\ w[<<fresh + k - 1, j>>] = <<fresh + j + 1, k>>
          /\ w[<<fresh + j + 1, k>>] = <<fresh + k - 1, j>>
          /\ <<fresh + k - 1, j>> \in Port /\ <<fresh + j + 1, k>> \in Port
      <4> HIDE DEF w, n
      <4>1. /\ w[<<fresh + k - 1, j>>] = <<fresh + j + 1, k>>
            /\ w[<<fresh + j + 1, k>>] = <<fresh + k - 1, j>>
        BY <1>11
      <4>2. <<fresh + k - 1, j>> \in Port /\ <<fresh + j + 1, k>> \in Port
        BY <1>11
      <4> QED BY <4>1, <4>2
    <3> HIDE DEF Inner, n
    <3> QED BY <3>1, <3>2, PortFacts
  <2> QED BY <2>1, <2>2, <2>3
<1>34. Closed => Closed'
  <2>1. Full(wire, Others(d, o)) => Full(wire', L)
    <3> HIDE DEF L
    <3> QED BY <1>33, <1>2 DEF Full
  <2> HIDE DEF L
  <2> QED BY <2>1, <1>22, ClosedCarries
\* What is left are exactly the ports of the agents that are left.
<1>35. L \subseteq LivePorts'
  <2>1. ASSUME NEW p \in Old PROVE LivePort(p)'
    <3>1. p \in Port /\ p[1] \in live /\ p[1] \notin {d, o} /\ p[2] <= Arity(agent[p[1]])
      BY DEF LivePorts, LivePort
    <3>2. agent'[p[1]] = agent[p[1]] /\ p[1] \in live'
      BY <3>1, <1>2, <1>24, <1>25
    <3> QED BY <3>1, <3>2 DEF LivePort
  <2>2. ASSUME NEW m \in new
        PROVE  agent'[m] = (IF m < fresh + 2 THEN agent[o] ELSE "dup") /\ m \in live'
    BY <1>2, <1>4, <1>24
  <2>3. ASSUME NEW p \in Heads PROVE LivePort(p)'
    <3>1. PICK k \in 1 .. (2 + n) : p = <<fresh + k - 1, 0>>
      OBVIOUS
    <3>2. fresh + k - 1 \in new /\ p[1] = fresh + k - 1 /\ p[2] = 0
      BY <3>1, <1>1
    <3>3. 0 <= Arity(agent[o]) /\ 0 <= Arity("dup")
      BY <1>1 DEF Arity
    <3> HIDE DEF n, new
    <3> QED BY <3>2, <3>3, <2>2 DEF LivePort
  <2>4. ASSUME NEW p \in Inner PROVE LivePort(p)'
    <3>1. PICK k \in 1 .. 2, j \in 1 .. n : p \in {<<fresh + k - 1, j>>, <<fresh + j + 1, k>>}
      OBVIOUS
    <3>2. /\ fresh + k - 1 \in new /\ fresh + j + 1 \in new
          /\ fresh + k - 1 < fresh + 2 /\ ~(fresh + j + 1 < fresh + 2)
          /\ k <= 2 /\ j <= n /\ Arity("dup") = 2
      BY <1>1 DEF Arity
    <3>3. agent'[fresh + k - 1] = agent[o] /\ agent'[fresh + j + 1] = "dup"
          /\ fresh + k - 1 \in live' /\ fresh + j + 1 \in live'
      BY <3>2, <2>2
    <3>4. CASE p = <<fresh + k - 1, j>>
      <4>1. p[1] = fresh + k - 1 /\ p[2] = j
        BY <3>4
      <4> HIDE DEF new
      <4> QED BY <4>1, <3>2, <3>3 DEF LivePort
    <3>5. CASE p = <<fresh + j + 1, k>>
      <4>1. p[1] = fresh + j + 1 /\ p[2] = k
        BY <3>5
      <4> HIDE DEF new
      <4> QED BY <4>1, <3>2, <3>3 DEF LivePort
    <3> QED BY <3>1, <3>4, <3>5
  <2> HIDE DEF Old, Heads, Inner
  <2> QED BY <2>1, <2>3, <2>4, <1>17 DEF LivePorts
<1>36. ASSUME agent[o] # "era", ~Shortcut(d, o), NoRetiredEnd, NEW p \in L, w[p] # None
       PROVE  w[p] \in L
  <2>1. CASE p \in Inner
    <3>1. PICK k \in 1 .. 2, j \in 1 .. n : p \in {<<fresh + k - 1, j>>, <<fresh + j + 1, k>>}
      BY <2>1
    <3>2. /\ w[<<fresh + k - 1, j>>] = <<fresh + j + 1, k>>
          /\ w[<<fresh + j + 1, k>>] = <<fresh + k - 1, j>>
      <4> HIDE DEF w, n
      <4> QED BY <1>11
    <3>3. w[p] \in Inner
      BY <3>1, <3>2
    <3> QED BY <3>3
  <2>2. CASE p \in Heads
    <3>1. PICK k \in 1 .. (2 + n) : p = <<fresh + k - 1, 0>>
      BY <2>2
    <3>2. w[p] = External(k) /\ External(k) \in Port /\ Source(k) \in LivePorts
          /\ External(k) = wire[Source(k)]
      BY <3>1, <1>5, <1>10, <1>36
    <3>3. External(k) \in LivePorts
      BY <3>2, <1>36 DEF NoRetiredEnd, LivePorts
    <3>4. External(k)[1] \notin {d, o}
      <4> SUFFICES ASSUME External(k)[1] \in {d, o} PROVE FALSE
        OBVIOUS
      <4>1. CASE k <= 2
        <5>1. k \in 1 .. 3 /\ k <= Arity(agent[d]) /\ External(k) = wire[<<d, k>>]
          BY <4>1, <3>1 DEF External, Arity
        <5>2. wire[<<d, k>>] # None /\ wire[<<d, k>>][1] \in {d, o}
          BY <5>1, <3>2, PortFacts
        <5> HIDE DEF n
        <5>3. Shortcut(d, o)
          BY <5>1, <5>2, <1>36 DEF Shortcut
        <5> QED BY <5>3, <1>36
      <4>2. CASE ~(k <= 2)
        <5> DEFINE l == k - 2
        <5>1. l \in 1 .. 3 /\ l <= Arity(agent[o]) /\ External(k) = wire[<<o, l>>]
          BY <4>2, <3>1, <1>1 DEF External
        <5> HIDE DEF l
        <5>2. wire[<<o, l>>] # None /\ wire[<<o, l>>][1] \in {d, o}
          BY <5>1, <3>2, PortFacts
        <5> HIDE DEF n
        <5>3. Shortcut(d, o)
          BY <5>1, <5>2, <1>36 DEF Shortcut
        <5> QED BY <5>3, <1>36
      <4> QED BY <4>1, <4>2
    <3> QED BY <3>2, <3>3, <3>4
  <2>3. CASE p \in Old
    <3>1. p \in Port /\ p[1] \notin new /\ p \in LivePorts /\ p[1] \notin {d, o}
      BY <2>3, <1>25 DEF LivePorts, LivePort
    <3>2. CASE Takers(p) # {}
      <4>1. PICK k \in Takers(p) : TRUE
        BY <3>2
      <4>2. w[p] = <<fresh + k - 1, 0>> /\ k \in 1 .. (2 + n)
        BY <3>1, <4>1, <1>12
      <4>3. w[p] \in Heads
        BY <4>2
      <4> QED BY <4>3
    <3>3. CASE Takers(p) = {}
      <4>1. w[p] = wire[p] /\ wire[p] # None
        BY <3>1, <3>3, <1>12, <1>36
      <4>2. wire[p] \in LivePorts /\ wire[wire[p]] = p
        BY <3>1, <4>1, <1>36, <1>1 DEF NoRetiredEnd, LivePorts, IInv, Good, Net, Sound, TypeOK
      <4>3. wire[p][1] \notin {d, o}
        <5> SUFFICES ASSUME wire[p][1] \in {d, o} PROVE FALSE
          OBVIOUS
        <5> DEFINE m == wire[p][1]
                   i == wire[p][2]
        <5>1. wire[p] = <<m, i>> /\ i \in 0 .. 3 /\ i <= Arity(agent[m])
          BY <4>2, PortFacts DEF LivePorts, LivePort
        <5>5. m = d \/ m = o
          OBVIOUS
        <5> HIDE DEF m, i
        <5>2. CASE i = 0
          <6>1. wire[p] = <<d, 0>> \/ wire[p] = <<o, 0>>
            BY <5>1, <5>2, <5>5
          <6>2. wire[<<d, 0>>] = <<o, 0>> /\ wire[<<o, 0>>] = <<d, 0>>
            BY DEF Popped
          <6>3. p \in {<<d, 0>>, <<o, 0>>}
            BY <4>2, <6>1, <6>2
          <6> QED BY <3>1, <6>3
        <5>3. CASE i # 0 /\ m = d
          <6>1. i \in 1 .. 2 /\ i \in 1 .. (2 + n)
            BY <5>1, <5>3, <1>1 DEF Arity
          <6>2. External(i) = p
            BY <4>2, <5>1, <5>3, <6>1 DEF External
          <6> QED BY <6>1, <6>2, <3>3
        <5>4. CASE i # 0 /\ m = o
          <6>1. i + 2 \in 1 .. (2 + n) /\ i + 2 - 2 = i /\ ~(i + 2 <= 2)
            BY <5>1, <5>4, <1>1
          <6>2. External(i + 2) = p
            BY <4>2, <5>1, <5>4, <6>1 DEF External
          <6> QED BY <6>1, <6>2, <3>3
        <5> QED BY <5>2, <5>3, <5>4, <5>5
      <4> QED BY <4>1, <4>2, <4>3
    <3> QED BY <3>2, <3>3
  <2> QED BY <2>1, <2>2, <2>3
<1>37. ASSUME agent[o] # "era", ~Shortcut(d, o), NoRetiredEnd PROVE NoRetiredEnd'
  <2>1. L = LivePorts'
    BY <1>22, <1>35
  <2>2. Whole(w, L)
    <3> HIDE DEF L
    <3> QED BY <1>36, <1>37 DEF Whole
  <2> HIDE DEF L, w
  <2> QED BY <2>1, <2>2, <1>2, WholeCarries
<1> QED BY <1>32, <1>34, <1>37

-----------------------------------------------------------------------------
\* The actions that make no rewrite.

\* What a step that moves no wire and retires no agent leaves.
LEMMA QuietPreserves ==
  ASSUME IInv, TypeOK', wire' = wire, live' = live, agent' = agent, fresh <= fresh',
         Exact(Net', live, Inert', fresh')
  PROVE  IInv' /\ (Closed => Closed') /\ (NoRetiredEnd => NoRetiredEnd')
<1>1. fresh \in Nat /\ fresh' \in Nat /\ LivePorts \in SUBSET Port /\ wire \in Wiring
  BY LiveFacts, HINAssumption DEF IInv, TypeOK, NetAssumption, Wiring
<1>2. LivePorts' = LivePorts
  BY DEF LivePorts, LivePort
<1>3. /\ Sound(wire, LivePorts, fresh) /\ Loopless(wire, LivePorts)
      /\ \A n \in live : <<n, 0>> \in LivePorts
  BY DEF IInv, Good, Net
<1>4. Sound(wire, LivePorts, fresh')
  BY <1>1, <1>3, SoundGrows
<1>5. Net'.wire = wire
  BY DEF Net
<1>6. IInv'
  <2>1. Sound(Net'.wire, LivePorts', fresh') /\ Loopless(Net'.wire, LivePorts')
    BY <1>2, <1>3, <1>4, <1>5
  <2> HIDE DEF IInv
  <2> QED BY <1>2, <1>3, <2>1 DEF IInv, Good
<1>7. (Closed => Closed') /\ (NoRetiredEnd => NoRetiredEnd')
  BY <1>2 DEF Closed, NoRetiredEnd, LivePort
<1> QED BY <1>6, <1>7

\* A rule that raises moves no wire.
LEMMA RaisesPreserves ==
  ASSUME IInv, NEW a, NEW b, NEW x \in {a, b}, NEW rest, Popped(a, b, rest),
         RaisesAttributeError(x, rest)
  PROVE  IInv' /\ (Closed => Closed') /\ (NoRetiredEnd => NoRetiredEnd')
<1>1. fresh \in Nat /\ fresh' \in Nat /\ fresh <= fresh' /\ fresh' <= MaxIds
  BY HINAssumption DEF IInv, TypeOK, NetAssumption, RaisesAttributeError
<1>2. /\ status' = "raised" /\ pairs' = rest
      /\ UNCHANGED <<agent, val, cloned, live, wire, built>>
  BY DEF RaisesAttributeError
<1>3. TypeOK'
  <2>1. \A n : n < fresh /\ n \in Ids => n < fresh'
    BY <1>1, PortFacts
  <2> QED BY <1>1, <1>2, <2>1 DEF IInv, TypeOK, Popped
<1>4. Inert' = live \X live
  BY <1>2 DEF Inert
<1>5. Exact(Net', live, Inert', fresh')
  <2>1. \A i \in DOMAIN rest :
          /\ rest[i] \in Ids \X Ids /\ rest[i][1] < fresh /\ rest[i][2] < fresh
          /\ {rest[i][1], rest[i][2]} \subseteq live
             => wire[<<rest[i][1], 0>>] = <<rest[i][2], 0>>
    BY DEF Popped, Exact
  <2>2. \A i \in DOMAIN rest : rest[i][1] < fresh' /\ rest[i][2] < fresh'
    <3>1. \A i \in DOMAIN rest : rest[i][1] \in Nat /\ rest[i][2] \in Nat
      BY <2>1, PortFacts
    <3>2. \A i \in DOMAIN rest : rest[i][1] < fresh /\ rest[i][2] < fresh
      BY <2>1
    <3>3. \A m \in Nat : m < fresh => m < fresh'
      BY <1>1
    <3> QED BY <3>1, <3>2, <3>3
  <2>3. Net' = [wire |-> wire, pairs |-> rest]
    BY <1>2 DEF Net
  <2> QED BY <1>4, <2>1, <2>2, <2>3 DEF Exact
<1> QED BY <1>1, <1>2, <1>3, <1>5, QuietPreserves

\* The pairs that are dropped at the end are stale or have no rule.
LEMMA DrainPreserves ==
  ASSUME IInv, DrainWorklist
  PROVE  IInv' /\ (Closed => Closed') /\ (NoRetiredEnd => NoRetiredEnd')
<1>1. pairs' = <<>> /\ UNCHANGED <<agent, val, cloned, live, wire, fresh, status, built>>
  BY DEF DrainWorklist
<1>2. TypeOK' /\ fresh <= fresh'
  BY <1>1, HINAssumption DEF IInv, TypeOK, NetAssumption
<1>3. Inert' = Inert /\ Net' = [wire |-> wire, pairs |-> <<>>]
  BY <1>1 DEF Inert, Net
<1>4. ASSUME NEW m \in live, NEW n \in live, wire[<<m, 0>>] = <<n, 0>> PROVE <<m, n>> \in Inert
  <2> SUFFICES ASSUME <<m, n>> \notin Inert PROVE FALSE
    OBVIOUS
  <2>1. PICK i \in DOMAIN pairs : pairs[i] \in {<<m, n>>, <<n, m>>}
    BY <1>4 DEF IInv, Good, Exact, Net, Queued
  <2>2. HasRule(agent[m], agent[n]) /\ HasRule(agent[n], agent[m])
    BY HasRuleSymmetric DEF Inert
  <2>3. Fires(pairs[i])
    BY <2>1, <2>2 DEF Fires
  <2> QED BY <2>3 DEF DrainWorklist
<1>5. Exact(Net', live, Inert', fresh')
  BY <1>1, <1>3, <1>4 DEF Exact
<1> QED BY <1>1, <1>2, <1>5, QuietPreserves

\* A new agent is unwired.
LEMMA RegisterPreserves ==
  ASSUME IInv, NEW k \in Kinds, NEW v \in Values \cup {None}, RegisterNode(k, v)
  PROVE  IInv' /\ (NoRetiredEnd => NoRetiredEnd') /\ built' # built
<1>1. /\ fresh \in Nat /\ MaxIds \in Nat /\ LivePorts \in SUBSET Port
      /\ built + 1 \in Nat /\ built + 1 # built
  BY LiveFacts, HINAssumption DEF IInv, TypeOK, NetAssumption
<1>2. /\ fresh + 1 <= MaxIds /\ wire' = wire /\ pairs' = pairs /\ fresh' = fresh + 1
      /\ agent' = [m \in Ids |-> IF m \in fresh .. (fresh + 1 - 1) THEN k ELSE agent[m]]
      /\ val' = [m \in Ids |-> IF m \in fresh .. (fresh + 1 - 1) THEN v ELSE val[m]]
      /\ live' = (live \ {}) \cup (fresh .. (fresh + 1 - 1))
      /\ built' = built + 1 /\ UNCHANGED <<cloned, status>>
  BY DEF RegisterNode, Commit
<1>3. fresh .. (fresh + 1 - 1) = {fresh} /\ fresh \in Ids /\ fresh + 1 \in Nat
  BY <1>1, <1>2 DEF Ids
<1>4. TypeOK'
  BY <1>1, <1>2, <1>3 DEF IInv, TypeOK, Kinds, Ids
<1> DEFINE L == LivePorts \cup {p \in Port : p[1] = fresh}
<1>5. L \in SUBSET Port /\ wire \in Wiring /\ Net \in States
  BY <1>1 DEF IInv, TypeOK, Wiring, Net, States
<1>6. Good(Net, LivePorts, live, Inert, fresh) /\ live \in SUBSET Ids /\ Net.wire = wire
  BY DEF IInv, TypeOK, Net
<1>7. Sound(wire, L, fresh + 1)
  <2>1. Sound(wire, LivePorts, fresh)
    BY <1>6 DEF Good
  <2>2. \A p \in L : p \in LivePorts \/ (fresh <= p[1] /\ p[1] < fresh + 1)
    BY <1>1
  <2>3. fresh <= fresh + 1
    BY <1>1
  <2> HIDE DEF L
  <2> QED BY <1>1, <1>3, <1>5, <2>1, <2>2, <2>3, SoundGrows
<1>8. ASSUME NEW p \in Port, p[1] = fresh PROVE wire[p] = None
  BY <1>1, <1>6, <1>8 DEF Good, Sound
<1>9. Loopless(wire, L)
  BY <1>6, <1>8, PortFacts DEF Good, Loopless
<1>10. Exact(Net, live \cup {fresh}, Inert, fresh + 1)
  BY <1>1, <1>3, <1>5, <1>6, ExactGrows
<1>11. \A n \in live \cup {fresh} : <<n, 0>> \in L
  <2>1. <<fresh, 0>> \in Port /\ <<fresh, 0>>[1] = fresh
    BY <1>3 DEF Port
  <2>2. \A n \in live : <<n, 0>> \in LivePorts
    BY <1>6 DEF Good
  <2> QED BY <2>1, <2>2
<1>12. Good(Net', L, live', Inert, fresh')
  <2>1. Net' = Net /\ live' = live \cup {fresh} /\ fresh' = fresh + 1
    BY <1>2, <1>3 DEF Net
  <2> HIDE DEF L
  <2> QED BY <1>6, <1>7, <1>9, <1>10, <1>11, <2>1 DEF Good
<1>13. ASSUME NEW m \in live PROVE agent'[m] = agent[m] /\ m \in live' /\ m # fresh
  <2>1. m \in Ids /\ m # fresh
    BY <1>1, LiveFacts, PortFacts DEF IInv
  <2> QED BY <1>2, <1>3, <2>1
<1>14. LivePorts' \subseteq L
  BY <1>2, <1>3, <1>13 DEF LivePorts, LivePort
<1>15. IInv'
  <2> HIDE DEF L
  <2> QED BY <1>2, <1>4, <1>5, <1>12, <1>13, <1>14, RewriteGood
<1>16. ASSUME NoRetiredEnd, NEW p \in LivePorts', wire'[p] # None PROVE LivePort(wire[p])'
  <2>1. p \in LivePorts
    BY <1>2, <1>8, <1>14, <1>16
  <2>2. LivePort(wire[p])
    BY <1>2, <1>16, <2>1 DEF NoRetiredEnd
  <2> QED BY <1>2, <1>13, <2>2 DEF LivePort
<1> QED BY <1>1, <1>2, <1>15, <1>16 DEF NoRetiredEnd

\* bind joins two free ports.
LEMMA BindPreserves ==
  ASSUME IInv, NEW p \in Port, NEW q \in Port, Bind(p, q)
  PROVE  IInv' /\ (NoRetiredEnd => NoRetiredEnd') /\ built' # built
<1>1. /\ fresh \in Nat /\ LivePorts \in SUBSET Port /\ built + 1 \in Nat /\ built + 1 # built
      /\ p # None /\ q # None
  BY LiveFacts, HINAssumption, PortFacts DEF IInv, TypeOK, NetAssumption
<1>2. /\ p # q /\ p \in LivePorts /\ q \in LivePorts /\ wire[p] = None /\ wire[q] = None
      /\ wire' = Rewired(wire, p, q) /\ pairs' = RecordIfActive(pairs, p, q)
      /\ built' = built + 1 /\ UNCHANGED <<agent, val, cloned, live, fresh, status>>
  BY DEF Bind
<1>3. LivePorts' = LivePorts /\ Inert' = Inert
  BY <1>2 DEF LivePorts, LivePort, Inert
<1>4. /\ Net \in States /\ wire \in Wiring /\ live \in SUBSET Ids /\ Net.wire = wire
      /\ Sound(wire, LivePorts, fresh) /\ Loopless(wire, LivePorts)
      /\ Exact(Net, live, Inert, fresh) /\ \A n \in live : <<n, 0>> \in LivePorts
  BY DEF IInv, TypeOK, Wiring, Net, States, Good
<1>5. Net' = Link(Net, p, q)
  BY <1>1, <1>2 DEF Net, Link
<1>6. Link(Net, p, q) \in States /\ Link(Net, p, q).wire = Rewired(wire, p, q)
  BY <1>4, LinkType
<1>7. TypeOK'
  <2>1. pairs' \in Seq(Ids \X Ids) /\ wire' \in Wiring
    BY <1>5, <1>6 DEF Net, States
  <2> QED BY <1>1, <1>2, <2>1 DEF IInv, TypeOK, Wiring
<1>8. \A r \in LivePorts : r[1] < fresh /\ (wire[r] # None => wire[r] \notin {p, q})
  <2>1. \A r \in LivePorts : r # None
    BY <1>1, PortFacts
  <2> QED BY <1>2, <1>4, <2>1 DEF Sound
<1>9. p[1] < fresh /\ q[1] < fresh
  BY <1>2, <1>8
<1>10. Sound(Rewired(wire, p, q), LivePorts, fresh)
  <2>1. \A r \in LivePorts \ {p, q} :
          r \in LivePorts /\ (wire[r] # None => wire[r] \notin {p, q})
    BY <1>8
  <2>2. p \in Port \cup {None} /\ q \in Port \cup {None} /\ fresh <= fresh
    BY <1>1
  <2> QED BY <1>1, <1>4, <1>8, <1>9, <2>1, <2>2, RewiredSound
<1>11. Exact(Link(Net, p, q), live, Inert, fresh)
  <2>1. \A n \in live : Net.wire[<<n, 0>>] # None => Net.wire[<<n, 0>>] \notin {p, q}
    BY <1>4, <1>8
  <2> QED BY <1>1, <1>4, <1>9, <2>1, LinkExact
<1>12. Loopless(Rewired(wire, p, q), LivePorts)
  BY <1>1, <1>2, <1>4 DEF Loopless, Rewired
<1>13. Good(Net', LivePorts, live, Inert, fresh)
  BY <1>4, <1>5, <1>6, <1>10, <1>11, <1>12 DEF Good
<1>14. IInv'
  BY <1>2, <1>3, <1>7, <1>13 DEF IInv
<1>15. ASSUME NoRetiredEnd, NEW r \in LivePorts, wire'[r] # None PROVE LivePort(wire'[r])
  <2>1. r \in Port /\ wire'[r] \in {p, q, wire[r]}
    BY <1>1, <1>2 DEF Rewired
  <2> QED BY <1>2, <1>15, <2>1 DEF NoRetiredEnd, LivePorts
<1> QED BY <1>1, <1>2, <1>3, <1>14, <1>15 DEF NoRetiredEnd, LivePort

-----------------------------------------------------------------------------
\* What the rewrite of a and b leaves.
Outcome(a, b) ==
  /\ IInv' /\ (Closed => Closed')
  /\ NoRetiredEnd /\ ~Shortcut(a, b) /\ ~Misread(a, b) => NoRetiredEnd'

\* It does not matter which of the two agents the worklist names first.
LEMMA PoppedSymmetric ==
  ASSUME NEW a, NEW b, NEW rest, Popped(a, b, rest)
  PROVE  Popped(b, a, rest) /\ (Shortcut(b, a) => Shortcut(a, b))
<1>1. Others(b, a) = Others(a, b) /\ live \ {b, a} = live \ {a, b}
  BY DEF Others
<1>2. Popped(b, a, rest)
  BY <1>1 DEF Popped
<1>3. Shortcut(b, a) => Shortcut(a, b)
  BY DEF Shortcut
<1> QED BY <1>2, <1>3

\* Whichever rule reduce_step dispatches to.
LEMMA RewritePreserves ==
  ASSUME IInv, NEW a, NEW b, NEW rest, Popped(a, b, rest), HasRule(agent[a], agent[b]),
         Rewrite(a, b, rest)
  PROVE  Outcome(a, b)
<1> DEFINE ka == agent[a]
           kb == agent[b]
           erase     == "era" \in {ka, kb}
           duplicate == ~erase /\ (ka = "dup") # (kb = "dup")
           switch    == ~erase /\ ~duplicate /\ "swi" \in {ka, kb}
           project   == ~erase /\ ~duplicate /\ ~switch /\ "pro" \in {ka, kb}
           lead == IF erase THEN "era" ELSE IF duplicate THEN "dup"
                   ELSE IF switch THEN "swi" ELSE "pro"
           x == IF ka = lead THEN a ELSE b
           y == IF x = a THEN b ELSE a
<1>1. \/ erase /\ Erase(x, y, rest)
      \/ duplicate /\ Duplicate(x, y, rest)
      \/ switch /\ Switch(x, y, rest)
      \/ project /\ Project(x, y, rest)
      \/ (switch \/ project) /\ RaisesAttributeError(x, rest)
      \/ ~(erase \/ duplicate \/ switch \/ project) /\ Annihilate(a, b, rest)
  BY DEF Rewrite
<1>2. a # b /\ a \in live /\ b \in live
  BY DEF Popped
<1>3. (x = a /\ y = b) \/ (x = b /\ y = a)
  BY <1>2
<1>4. /\ Popped(x, y, rest) /\ x \in live /\ y \in live /\ x \in {a, b}
      /\ (Shortcut(x, y) => Shortcut(a, b))
  <2>1. Popped(b, a, rest) /\ (Shortcut(b, a) => Shortcut(a, b))
    BY PoppedSymmetric
  <2> HIDE DEF x, y
  <2> QED BY <1>2, <1>3, <2>1
<1>5. erase => agent[x] = "era"
  OBVIOUS
<1>6. duplicate => agent[x] = "dup" /\ agent[y] # "dup" /\ agent[y] # "era"
  BY <1>2
<1>7. switch => agent[x] = "swi" /\ (~Misread(a, b) => agent[y] = "val")
  BY <1>2 DEF HasRule, Misread
<1>8. project => agent[x] = "pro" /\ (~Misread(a, b) => agent[y] = "val")
  BY <1>2 DEF HasRule, Misread
<1>9. ~(erase \/ duplicate \/ switch \/ project) => Arity(agent[a]) = Arity(agent[b])
  <2>1. ka \in Kinds /\ kb \in Kinds
    BY <1>2, LiveFacts DEF IInv
  <2> QED BY <2>1, ArityFacts
<1> HIDE DEF erase, duplicate, switch, project, x, y
<1>10. CASE erase /\ Erase(x, y, rest)
  BY <1>4, <1>5, <1>10, ErasePreserves DEF Outcome
<1>11. CASE duplicate /\ Duplicate(x, y, rest)
  BY <1>4, <1>6, <1>11, DuplicatePreserves DEF Outcome
<1>12. CASE switch /\ Switch(x, y, rest)
  BY <1>4, <1>7, <1>12, SwitchPreserves DEF Outcome
<1>13. CASE project /\ Project(x, y, rest)
  BY <1>4, <1>8, <1>13, ProjectPreserves DEF Outcome
<1>14. CASE RaisesAttributeError(x, rest)
  BY <1>4, <1>14, RaisesPreserves DEF Outcome
<1>15. CASE ~(erase \/ duplicate \/ switch \/ project) /\ Annihilate(a, b, rest)
  BY <1>9, <1>15, AnnihilatePreserves DEF Outcome
<1> QED BY <1>1, <1>10, <1>11, <1>12, <1>13, <1>14, <1>15

\* One reduce_step, from the head of the worklist.
LEMMA ReducePreserves ==
  ASSUME IInv, NEW k \in DOMAIN pairs, ReduceStep(k)
  PROVE  Outcome(pairs[k][1], pairs[k][2])
<1> DEFINE a    == pairs[k][1]
           b    == pairs[k][2]
           rest == SubSeq(pairs, k + 1, Len(pairs))
<1>1. /\ status = "ready" /\ Fires(pairs[k]) /\ \A i \in 1 .. (k - 1) : ~Fires(pairs[i])
      /\ Rewrite(a, b, rest)
  BY DEF ReduceStep
<1>2. a = pairs[k][1] /\ b = pairs[k][2] /\ rest = SubSeq(pairs, k + 1, Len(pairs))
  OBVIOUS
<1> HIDE DEF a, b, rest
<1>3. Popped(a, b, rest) /\ HasRule(agent[a], agent[b])
  BY <1>1, <1>2, PoppedHolds
<1>4. Outcome(a, b)
  BY <1>1, <1>3, RewritePreserves
<1> QED BY <1>2, <1>4

-----------------------------------------------------------------------------
\* The nets executions start from are whole and their worklist is exact.
LEMMA InitHolds == Init => IInv
<1> SUFFICES ASSUME Init PROVE IInv
  OBVIOUS
<1>1. PICK net \in InitialNets :
        /\ agent = net.agent /\ val = net.val /\ wire = net.wire /\ pairs = net.pairs
        /\ live = {n \in Ids : n < net.size} /\ fresh = net.size
        /\ cloned = {} /\ status = "ready" /\ built = net.calls
  BY DEF Init
<1>2. /\ net \in Nets
      /\ \A n \in Ids : n < net.size <=> net.agent[n] # "none"
      /\ \A p \in Port : /\ net.wire[p] # None => net.wire[net.wire[p]] = p
                         /\ net.wire[p] # p
                         /\ p[1] >= net.size => net.wire[p] = None
      /\ \A m, n \in Ids : net.wire[<<m, 0>>] = <<n, 0>> => Queued(net.pairs, m, n)
      /\ \A i \in DOMAIN net.pairs :
           net.wire[<<net.pairs[i][1], 0>>] = <<net.pairs[i][2], 0>>
  BY HINAssumption DEF NetsAssumption
<1>3. TypeOK
  BY <1>1, <1>2, HINAssumption DEF TypeOK, Nets, NetAssumption
<1>4. fresh \in Nat /\ LivePorts \in SUBSET Port
  BY <1>3, LiveFacts, HINAssumption DEF TypeOK, NetAssumption
\* Both ends of a wire are ports of agents that exist.
<1>5. ASSUME NEW p \in Port, wire[p] # None
      PROVE  /\ wire[p] \in Port /\ wire[wire[p]] = p
             /\ p[1] < fresh /\ wire[p][1] < fresh
  <2>1. wire[p] \in Port /\ wire[wire[p]] = p
    BY <1>1, <1>2, <1>3, <1>5 DEF TypeOK
  <2>2. wire[wire[p]] # None
    BY <2>1, PortFacts
  <2>3. ~(p[1] >= fresh) /\ ~(wire[p][1] >= fresh)
    BY <1>1, <1>2, <1>5, <2>1, <2>2
  <2> QED BY <1>4, <2>1, <2>3, PortFacts
<1>6. Sound(wire, LivePorts, fresh)
  <2>1. \A p \in LivePorts : p \in Port /\ p[1] < fresh
    BY <1>1 DEF LivePorts, LivePort
  <2> QED BY <1>1, <1>2, <1>5, <2>1 DEF Sound
<1>7. Loopless(wire, LivePorts)
  BY <1>1, <1>2, <1>4 DEF Loopless
<1>8. ASSUME NEW i \in DOMAIN pairs
      PROVE  /\ pairs[i][1] < fresh /\ pairs[i][2] < fresh
             /\ wire[<<pairs[i][1], 0>>] = <<pairs[i][2], 0>>
  <2>1. pairs[i] \in Ids \X Ids
    BY <1>3 DEF TypeOK
  <2> DEFINE p == <<pairs[i][1], 0>>
             q == <<pairs[i][2], 0>>
  <2>2. p \in Port /\ q # None /\ p[1] = pairs[i][1] /\ q[1] = pairs[i][2] /\ wire[p] = q
    BY <1>1, <1>2, <2>1, PortFacts DEF Port
  <2> HIDE DEF p, q
  <2>3. p[1] < fresh /\ q[1] < fresh
    BY <2>2, <1>5
  <2> QED BY <2>2, <2>3 DEF p, q
<1>9. \A m, n \in live : wire[<<m, 0>>] = <<n, 0>> => Queued(pairs, m, n)
  BY <1>1, <1>2
<1>10. Exact(Net, live, Inert, fresh)
  BY <1>8, <1>9 DEF Exact, Net
<1>11. \A n \in live : <<n, 0>> \in LivePorts
  <2> SUFFICES ASSUME NEW n \in live PROVE <<n, 0>> \in LivePorts
    OBVIOUS
  <2>1. agent[n] \in Kinds
    BY <1>3, LiveFacts
  <2>2. 0 \in 0 .. Arity(agent[n])
    BY <2>1, ArityFacts
  <2> QED BY <1>3, <2>2, LiveFacts
<1>12. Good(Net, LivePorts, live, Inert, fresh)
  <2>1. Net.wire = wire
    BY DEF Net
  <2> QED BY <1>6, <1>7, <1>10, <1>11, <2>1 DEF Good
<1> QED BY <1>3, <1>12 DEF IInv

\* What RewritesKeepTheNetWhole says of one step.
KeepsWhole ==
  /\ Closed /\ built' = built => Closed'
  /\ NoRetiredEnd /\ ~NextFires(Shortcut) /\ ~NextFires(Misread) => NoRetiredEnd'

\* Every build call and every reduction preserves the invariant.
LEMMA NextPreserves == IInv /\ Next => IInv' /\ KeepsWhole
<1> SUFFICES ASSUME IInv, Next PROVE IInv' /\ KeepsWhole
  OBVIOUS
<1>1. ASSUME NEW k \in Kinds, NEW v \in Values \cup {None}, RegisterNode(k, v)
      PROVE  IInv' /\ KeepsWhole
  BY <1>1, RegisterPreserves DEF KeepsWhole
<1>2. ASSUME NEW p \in Port, NEW q \in Port, Bind(p, q) PROVE IInv' /\ KeepsWhole
  BY <1>2, BindPreserves DEF KeepsWhole
<1>3. ASSUME NEW k \in DOMAIN pairs, ReduceStep(k) PROVE IInv' /\ KeepsWhole
  <2>1. Outcome(pairs[k][1], pairs[k][2])
    BY <1>3, ReducePreserves
  <2>2. /\ ~NextFires(Shortcut) => ~Shortcut(pairs[k][1], pairs[k][2])
        /\ ~NextFires(Misread) => ~Misread(pairs[k][1], pairs[k][2])
    BY <1>3 DEF NextFires, ReduceStep
  <2> QED BY <2>1, <2>2 DEF Outcome, KeepsWhole
<1>4. CASE DrainWorklist
  BY <1>4, DrainPreserves DEF KeepsWhole
<1> QED BY <1>1, <1>2, <1>3, <1>4 DEF Next, Build, Reduce

\* It is preserved when nothing happens, too.
LEMMA InvPreserved == IInv /\ [Next]_vars => IInv'
<1>1. ASSUME IInv, UNCHANGED vars PROVE IInv'
  BY <1>1 DEF vars, IInv, TypeOK, LivePorts, LivePort, Good, Sound, Loopless, Exact, Inert, Net
<1> QED BY <1>1, NextPreserves

\* The net always is a set of known agents wired port to port, whatever is
\* built and in whatever order the active pairs come up.
THEOREM TypeCorrect == Spec => []TypeOK
<1>1. IInv => TypeOK
  BY DEF IInv
<1> QED BY <1>1, InitHolds, InvPreserved, PTL DEF Spec

\* Conservation of Edges holds in every net reachable by building and
\* reducing: no rewrite of reduce_step leaves a one-sided wire.
THEOREM EdgesConserved == Spec => []Conservation
<1>1. IInv => Conservation
  BY DEF IInv, Good, Net, Sound, Conservation
<1> QED BY <1>1, InitHolds, InvPreserved, PTL DEF Spec

\* What the invariant says of the worklist.
LEMMA InvShowsWorklist == ASSUME IInv PROVE WorklistIsExact
<1>1. Exact(Net, live, Inert, fresh)
  BY DEF IInv, Good
<1>2. ASSUME NEW m \in live, NEW n \in live, wire[<<m, 0>>] = <<n, 0>>,
             HasRule(agent[m], agent[n]), status = "ready"
      PROVE  Queued(pairs, m, n)
  <2>1. <<m, n>> \notin Inert
    BY <1>2 DEF Inert
  <2> QED BY <1>1, <1>2, <2>1 DEF Exact, Net
<1>3. \A i \in DOMAIN pairs :
        {pairs[i][1], pairs[i][2]} \subseteq live
        => wire[<<pairs[i][1], 0>>] = <<pairs[i][2], 0>>
  BY <1>1 DEF Exact, Net
<1> QED BY <1>2, <1>3 DEF WorklistIsExact

\* No redex is ever lost and no pair that was pulled apart is ever rewritten:
\* recording a pair when a wire is made, and only then, keeps the worklist of
\* reduce_step exact in every net and under every order of rewrites.
THEOREM WorklistExact == Spec => []WorklistIsExact
<1>1. IInv => WorklistIsExact
  BY InvShowsWorklist
<1> QED BY <1>1, InitHolds, InvPreserved, PTL DEF Spec

\* No rewrite of a closed net frees a port, and none but the commutation of a
\* self-wired duplicator and the misread value leaves a wire to a retired
\* agent, in every net.
THEOREM NetStaysWhole == Spec => RewritesKeepTheNetWhole
<1>1. IInv /\ [Next]_vars => [KeepsWhole]_vars
  BY NextPreserves
<1>2. Spec => []IInv
  BY InitHolds, InvPreserved, PTL DEF Spec
<1>3. Spec => [][KeepsWhole]_vars
  BY <1>1, <1>2, PTL DEF Spec
<1> QED BY <1>3 DEF KeepsWhole, RewritesKeepTheNetWhole

-----------------------------------------------------------------------------
\* The universal engine.

\* A sweep that fails leaves the pair it was for at the head of the worklist;
\* the pairs before it are stale or have no rule.
LEMMA AnomalyPreserves ==
  ASSUME IInv, NEW k \in DOMAIN pairs, Anomaly(k)
  PROVE  IInv' /\ (Closed => Closed') /\ (NoRetiredEnd => NoRetiredEnd')
<1>1. PICK rest, l : rest = SubSeq(pairs, k, Len(pairs)) /\ l = Len(pairs)
  OBVIOUS
<1>2. /\ pairs' = rest /\ UNCHANGED <<agent, val, cloned, live, wire, fresh, status, built>>
      /\ \A i \in 1 .. (k - 1) : ~Fires(pairs[i])
  BY <1>1 DEF Anomaly
<1>3. pairs \in Seq(Ids \X Ids) /\ l \in Nat /\ k \in 1 .. l /\ DOMAIN pairs = 1 .. l
  BY <1>1 DEF IInv, TypeOK
<1>4. /\ rest \in Seq(Ids \X Ids) /\ DOMAIN rest = 1 .. (l - k + 1)
      /\ \A i \in 1 .. (l - k + 1) : rest[i] = pairs[i + k - 1]
  <2>1. rest \in Seq(Ids \X Ids) /\ Len(rest) = l - k + 1
    BY <1>1, <1>3
  <2>2. \A i \in 1 .. (l - k + 1) : rest[i] = pairs[k + i - 1]
    BY <1>1, <1>3
  <2>3. \A i \in 1 .. (l - k + 1) : k + i - 1 = i + k - 1
    BY <1>3
  <2>4. DOMAIN rest = 1 .. (l - k + 1)
    BY <2>1
  <2> QED BY <2>1, <2>2, <2>3, <2>4
<1>5. TypeOK' /\ fresh <= fresh'
  BY <1>2, <1>4, HINAssumption DEF IInv, TypeOK, NetAssumption
<1>6. Inert' = Inert /\ Net' = [wire |-> wire, pairs |-> rest]
  BY <1>2 DEF Inert, Net
<1>7. ASSUME NEW m \in live, NEW n \in live, wire[<<m, 0>>] = <<n, 0>>, <<m, n>> \notin Inert
      PROVE  Queued(rest, m, n)
  <2>1. PICK i \in DOMAIN pairs : pairs[i] \in {<<m, n>>, <<n, m>>}
    BY <1>7 DEF IInv, Good, Exact, Net, Queued
  <2>2. HasRule(agent[m], agent[n]) /\ HasRule(agent[n], agent[m])
    BY <1>7, HasRuleSymmetric DEF Inert
  <2>3. Fires(pairs[i])
    BY <2>1, <2>2 DEF Fires
  <2>4. i \in 1 .. l /\ i \notin 1 .. (k - 1)
    BY <1>2, <1>3, <2>3
  <2>5. i - k + 1 \in 1 .. (l - k + 1) /\ (i - k + 1) + k - 1 = i
    BY <1>3, <2>4
  <2>6. i - k + 1 \in DOMAIN rest /\ rest[i - k + 1] = pairs[i]
    BY <1>4, <2>5
  <2> QED BY <2>1, <2>6 DEF Queued
<1>8. \A i \in DOMAIN rest :
        /\ rest[i][1] < fresh /\ rest[i][2] < fresh
        /\ {rest[i][1], rest[i][2]} \subseteq live
           => wire[<<rest[i][1], 0>>] = <<rest[i][2], 0>>
  <2>1. \A i \in DOMAIN pairs :
          /\ pairs[i][1] < fresh /\ pairs[i][2] < fresh
          /\ {pairs[i][1], pairs[i][2]} \subseteq live
             => wire[<<pairs[i][1], 0>>] = <<pairs[i][2], 0>>
    BY DEF IInv, Good, Exact, Net
  <2>2. \A i \in 1 .. (l - k + 1) : i + k - 1 \in DOMAIN pairs
    BY <1>3
  <2> QED BY <1>4, <2>1, <2>2
<1>9. Exact(Net', live, Inert', fresh')
  BY <1>2, <1>6, <1>7, <1>8 DEF Exact
<1> QED BY <1>2, <1>5, <1>9, QuietPreserves

LEMMA UniversalPreserves == IInv /\ UNext => IInv' /\ KeepsWhole
<1> SUFFICES ASSUME IInv, UNext PROVE IInv' /\ KeepsWhole
  OBVIOUS
<1>1. CASE UDrainWorklist
  BY <1>1, NextPreserves DEF UDrainWorklist, Next, Reduce
<1>2. ASSUME NEW k \in DOMAIN pairs, UReduceStep(k) PROVE IInv' /\ KeepsWhole
  BY <1>2, NextPreserves DEF UReduceStep, Next, Reduce
<1>3. ASSUME NEW k \in DOMAIN pairs, Anomaly(k) PROVE IInv' /\ KeepsWhole
  BY <1>3, AnomalyPreserves DEF KeepsWhole
<1> QED BY <1>1, <1>2, <1>3 DEF UNext, UReduce

\* The universal engine, which consults a cache before every rewrite and sweeps
\* the boundary of a pair where the cache has no answer, keeps what the plain one
\* keeps, also where a sweep fails between two rewrites: its worklist stays exact,
\* so the pair of the failed sweep is found again by the next call.
THEOREM UniversalNetStaysWhole ==
  USpec => []TypeOK /\ []Conservation /\ []WorklistIsExact /\ RewritesKeepTheNetWhole
<1>1. UInit => IInv
  BY InitHolds DEF UInit
<1>2. IInv /\ [UNext]_uvars => IInv' /\ [KeepsWhole]_vars
  <2>1. ASSUME IInv, UNCHANGED uvars PROVE IInv' /\ UNCHANGED vars
    BY <2>1, InvPreserved DEF uvars
  <2> QED BY <2>1, UniversalPreserves
<1>3. IInv => TypeOK /\ Conservation /\ WorklistIsExact
  BY InvShowsWorklist DEF IInv, Good, Net, Sound, Conservation
<1>4. USpec => []IInv
  BY <1>1, <1>2, PTL DEF USpec
<1>5. USpec => [][KeepsWhole]_vars
  BY <1>2, <1>4, PTL DEF USpec
<1>6. USpec => []TypeOK /\ []Conservation /\ []WorklistIsExact
  BY <1>3, <1>4, PTL
<1> QED BY <1>5, <1>6 DEF KeepsWhole, RewritesKeepTheNetWhole
=============================================================================

------------------------------ MODULE MCHINNet ------------------------------
(***************************************************************************)
(* Instances of HINNet: the nets executions start from, and the programs   *)
(* that are translated, split, mutated and then reduced.                   *)
(***************************************************************************)
EXTENDS UASTTranslator

CONSTANTS tt, ff, agentRef

MCValues == {tt, ff, agentRef}
MCTruthy == {tt, agentRef}

\* In a list of agents, "tt" and "ff" stand for value agents.
KindOf(a) == IF a \in {"tt", "ff"} THEN "val" ELSE a

\* The net of the agents ks whose wires were made in the order of links.
NetOf(ks, links) ==
  LET kind(n)  == IF n < Len(ks) THEN KindOf(ks[n + 1]) ELSE "none"
      ends     == UNION {{links[i][1], links[i][2]} : i \in DOMAIN links}
      other(p) == CHOOSE q \in ends : \E i \in DOMAIN links : links[i] \in {<<p, q>>, <<q, p>>}
      active   == SelectSeq(links, LAMBDA l : IsPrincipal(l[1]) /\ IsPrincipal(l[2]))
  IN  [agent |-> [n \in Ids |-> kind(n)],
       val   |-> [n \in Ids |-> IF kind(n) # "val" THEN None
                                ELSE IF ks[n + 1] = "tt" THEN tt ELSE ff],
       wire  |-> [p \in Port |-> IF p \in ends THEN other(p) ELSE None],
       pairs |-> [i \in DOMAIN active |-> <<active[i][1][1], active[i][2][1]>>],
       size  |-> Len(ks),
       calls |-> Len(ks) + Len(links)]

Empty == NetOf(<<>>, <<>>)

Type(ks, p) == PortType(KindOf(ks[p[1] + 1]), p[2])

\* Every well-typed way to wire up all the ports in S, as sequences of wires.
RECURSIVE Matchings(_, _)
Matchings(ks, S) ==
  IF S = {} THEN {<<>>}
  ELSE LET p == CHOOSE p \in S : TRUE
       IN  UNION {{<<<<p, q>>>> \o m : m \in Matchings(ks, S \ {p, q})} :
                   q \in {r \in S \ {p} : Unifiable(Type(ks, p), Type(ks, r))}}

\* Every closed and well-typed net of the agents ks.
ClosedNets(ks) ==
  {NetOf(ks, m) : m \in Matchings(ks, {p \in Port : /\ p[1] < Len(ks)
                                                    /\ p[2] <= Arity(KindOf(ks[p[1] + 1]))})}

\* Nets without duplicators: beta-reduction, branching, projection, erasure.
LinearNets == UNION {ClosedNets(ks) : ks \in {
    <<"con", "des", "bnd", "tt">>, <<"con", "des", "era", "era">>,
    <<"con", "des", "con", "des">>,
    <<"swi", "tt", "tt", "ff", "bnd">>, <<"swi", "ff", "tt", "ff", "bnd">>,
    <<"swi", "pro", "tt", "ff", "bnd", "era">>, <<"pro", "con", "des", "tt", "bnd">>}}

\* Nets in which values, closures, projections and applications are shared.
SharedNets == UNION {ClosedNets(ks) : ks \in {
    <<"dup", "tt", "bnd", "bnd">>, <<"dup", "pro", "tt", "bnd", "bnd">>,
    <<"dup", "con", "tt", "era">>, <<"dup", "con", "des", "tt">>}}

\* The identity closure, shared by two applications: (\f. .. f .. f ..) (\x. x).
SharedIdentity == NetOf(<<"con", "dup", "bnd", "bnd">>,
   << <<<<0, 1>>, <<0, 2>>>>, <<<<1, 1>>, <<2, 0>>>>, <<<<1, 2>>, <<3, 0>>>>,
      <<<<1, 0>>, <<0, 0>>>> >>)

\* Two projections that meet.
MeetingProjections == NetOf(<<"pro", "pro", "bnd", "tt">>,
   << <<<<0, 1>>, <<2, 0>>>>, <<<<1, 1>>, <<3, 0>>>>, <<<<0, 0>>, <<1, 0>>>> >>)

\* The empty net is built call by call; the others have had their calls.
MCNets == LinearNets \cup SharedNets \cup {Empty, SharedIdentity, MeetingProjections}

-----------------------------------------------------------------------------
Tree(kind, name, param, parts) ==
  [kind |-> kind, name |-> name, param |-> param, parts |-> parts]

Literal         == Tree("literal", None, None, <<>>)
Nothing         == Tree("none", None, None, <<>>)
Refer(x)        == Tree("ref", x, None, <<>>)
Let(x, v)       == Tree("bind", x, None, <<v>>)
Lambda(p, body) == Tree("fun", None, p, body)
Define(f, body) == Tree("fun", f, "y", body)
Choose(c, t, e) == Tree("if", None, None, <<c, t, e>>)
Apply(f, args)  == Tree("call", None, None, <<f>> \o args)
Block(parts)    == Tree("block", None, None, parts)

Closures == {Lambda("y", <<Refer("y")>>), Lambda("y", <<>>), Lambda(None, <<Refer("x")>>),
             Lambda("y", <<Apply(Refer("y"), <<Refer("y")>>)>>)}
Uses     == {Refer("x"), Literal, Apply(Refer("x"), <<Literal>>), Apply(Refer("x"), <<>>),
             Apply(Refer("x"), <<Refer("x")>>), Choose(Refer("x"), Refer("x"), Nothing),
             Choose(Nothing, Literal, Let("z", Refer("x"))), Let("z", Refer("x")),
             Let(None, Literal), Block(<<>>)}

SomePrograms ==
  {Block(<<Let("x", v), use>>) : v \in Closures \cup {Literal, Nothing}, use \in Uses \cup Closures}
  \cup {Block(<<Let("x", Literal), use, again>>) : use \in Uses, again \in Uses}
  \cup {Block(<<Apply(f, <<Literal>>)>>) : f \in Closures}

PlainPrograms == {tree \in SomePrograms : Plain(tree)}

\* Programs that name functions and bind names again.
OtherPrograms ==
  {Block(<<first, second, third>>) :
     first \in {Define("f", <<Refer("y")>>), Let("x", Literal)},
     second \in {Let("x", Literal), Refer("f"), Let("x", Refer("f"))},
     third \in {Apply(Refer("f"), <<Literal>>), Refer("x")}}

AllPrograms == SomePrograms \cup OtherPrograms

\* A program with a branch, and one that applies a closure.
ReloadedPrograms ==
  {Block(<<Choose(Literal, Literal, Nothing)>>),
   Block(<<Apply(Lambda("y", <<Refer("y")>>), <<Literal>>)>>)}

-----------------------------------------------------------------------------
ByHand == program = None /\ stage = "none" /\ part2 = {} /\ contracts = <<>>
            /\ whole = EmptyNet.wire

MCInit == (Init /\ ByHand) \/ TranslatorInit
MCNext == (stage = "none" /\ Build /\ UNCHANGED tvars) \/ TranslatorNext
============================================================================

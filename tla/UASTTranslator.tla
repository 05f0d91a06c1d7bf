---------------------------- MODULE UASTTranslator ----------------------------
(***************************************************************************)
(* core/translator.py: a syntax tree becomes an interaction net, and a net *)
(* is cut into two modules whose severed wires end in boundary ports; with *)
(* the mutation of evolve.py and the reload of core/aeroc.py, and then the *)
(* rewrites of HINNet.                                                     *)
(*                                                                         *)
(* A tree is a record of its kind, the name it binds or refers to (None),  *)
(* the parameter of a function (None) and its parts: the value of a        *)
(* binding, the body of a function, the three parts of a conditional, the  *)
(* function and the argument of a call, the children of a container.       *)
(***************************************************************************)
EXTENDS HINNet, FiniteSets

CONSTANTS Programs,   \* the trees that may be translated
          Names,      \* the names in them
          True, False,
          SplitSize   \* bound on the nodes of a net that is split

VARIABLES program,    \* the tree, None where the net was built by hand
          stage,      \* "source", then what was last done to its net
          part2,      \* the nodes of the second module of a split
          contracts,  \* the boundary contracts of the split: their two caps
          whole       \* the wires before the split

tvars == <<program, stage, part2, contracts, whole>>

-----------------------------------------------------------------------------
(* A translation in progress: the net made so far, the stack of scopes,    *)
(* each with the source ports of its names and the references left, and    *)
(* the port of the node built last.                                        *)

\* _count_refs: the references to a name in a tree, nested ones included.
RECURSIVE Refs(_, _)
Refs(node, name) ==
  LET in[i \in 0 .. Len(node.parts)] ==
        IF i = 0 THEN 0 ELSE in[i - 1] + Refs(node.parts[i], name)
  IN  in[Len(node.parts)] + (IF node.kind = "ref" /\ node.name = name THEN 1 ELSE 0)

PushScope(s, node) ==
  [s EXCEPT !.scopes = Append(@, [port |-> [x \in Names |-> None],
                                  left |-> [x \in Names |-> Refs(node, x)]])]

\* register_node of a new node; its principal port becomes the output.
Made(s, kind, v) ==
  [s EXCEPT !.agent[s.fresh] = kind, !.val[s.fresh] = v,
            !.fresh = @ + 1, !.out = <<s.fresh, 0>>]

Wired(s, p, q) ==
  LET linked == Link(s, p, q)
  IN  [s EXCEPT !.wire = linked.wire, !.pairs = linked.pairs]

\* A part without an output gets a value in its place.
OrValue(s, v) == IF s.out = None THEN Made(s, "val", v) ELSE s

\* _terminate: an eraser caps a wire that is free.
Terminated(s, p) ==
  IF p = None THEN s
  ELSE IF s.wire[p] # None THEN s
  ELSE [Wired(Made(s, "era", None), <<s.fresh, 0>>, p) EXCEPT !.out = s.out]

RECURSIVE AllTerminated(_, _)
AllTerminated(s, ports) ==
  IF ports = {} THEN s
  ELSE LET p == CHOOSE p \in ports : TRUE
       IN  AllTerminated(Terminated(s, p), ports \ {p})

\* _pop_scope caps the sources nobody took.
PopScope(s) ==
  LET top == s.scopes[Len(s.scopes)]
  IN  AllTerminated([s EXCEPT !.scopes = SubSeq(@, 1, Len(@) - 1)],
                    {top.port[x] : x \in Names} \ {None})

Holding(s, name) == {i \in DOMAIN s.scopes : s.scopes[i].port[name] # None}

\* Mutant: the last reference is served a copy too.
Resolved_NeverLast(s, name) ==
  IF Holding(s, name) = {} THEN Made(s, "val", None)
  ELSE LET idx == CHOOSE i \in Holding(s, name) : \A j \in Holding(s, name) : j <= i
           fork == Wired(Made(s, "dup", None), s.scopes[idx].port[name], <<s.fresh, 0>>)
       IN  [fork EXCEPT !.out = <<s.fresh, 1>>, !.scopes[idx].port[name] = <<s.fresh, 2>>]

\* _resolve: the last reference takes the source itself, those before it one
\* copy of a duplicator, whose other copy is the source from then on.  A name
\* that no scope holds is a new value.
Resolved(s, name) ==
  IF Holding(s, name) = {} THEN Made(s, "val", None)
  ELSE LET idx  == CHOOSE i \in Holding(s, name) : \A j \in Holding(s, name) : j <= i
           src  == s.scopes[idx].port[name]
           left == s.scopes[idx].left[name]
           fork == Wired(Made(s, "dup", None), src, <<s.fresh, 0>>)
       IN  IF left <= 1
           THEN [s EXCEPT !.scopes[idx].left[name] = 0,
                          !.scopes[idx].port[name] = None, !.out = src]
           ELSE [fork EXCEPT !.scopes[idx].left[name] = left - 1,
                             !.scopes[idx].port[name] = <<s.fresh, 2>>,
                             !.out = <<s.fresh, 1>>]

-----------------------------------------------------------------------------
RECURSIVE Built(_, _), Container(_, _, _)

\* _build_container: the output of a statement is capped once the next
\* statement is built, if that has not taken it.
Container(s, parts, last) ==
  IF parts = <<>> THEN [s EXCEPT !.out = last]
  ELSE LET t == Built(s, Head(parts))
       IN  Container(Terminated(t, last), Tail(parts), t.out)

BindName(s, name, port) == [s EXCEPT !.scopes[Len(s.scopes)].port[name] = port]

\* _build_function: the parameter is a_1, the result goes to a_2; the closure is
\* known by its name in the scope around it.
Function(s, node) ==
  LET c      == s.fresh
      inner  == PushScope(Made(s, "con", None), node)
      begun  == IF node.param = None THEN Terminated(inner, <<c, 1>>)
                ELSE BindName(inner, node.param, <<c, 1>>)
      body   == OrValue(Container(begun, node.parts, None), None)
      closed == PopScope(Wired(body, body.out, <<c, 2>>))
      named  == IF node.name = None THEN closed
                ELSE BindName(closed, node.name, <<c, 0>>)
  IN  [named EXCEPT !.out = <<c, 0>>]

\* _build_binding: the name is bound to the output, whatever it was bound to.
Binding(s, node) ==
  LET t == OrValue(Built(s, node.parts[1]), None)
      u == IF node.name = None THEN Terminated(t, t.out) ELSE BindName(t, node.name, t.out)
  IN  [u EXCEPT !.out = None]

\* _build_if: the condition meets the switch, the branches are its a_1 and a_2.
Conditional(s, node) ==
  LET w  == s.fresh
      c  == OrValue(Built(Made(s, "swi", None), node.parts[1]), False)
      t  == OrValue(Built(Wired(c, c.out, <<w, 0>>), node.parts[2]), None)
      e  == OrValue(Built(t, node.parts[3]), None)
  IN  [Wired(Wired(e, t.out, <<w, 1>>), e.out, <<w, 2>>) EXCEPT !.out = <<w, 3>>]

\* _build_call: only the first argument is wired.
Call(s, node) ==
  LET d == s.fresh
      f == OrValue(Built(Made(s, "des", None), node.parts[1]), None)
      g == Wired(f, f.out, <<d, 0>>)
      a == OrValue(Built(g, node.parts[2]), None)
  IN  [IF Len(node.parts) = 1 THEN Terminated(g, <<d, 1>>)
       ELSE Wired(a, a.out, <<d, 1>>) EXCEPT !.out = <<d, 2>>]

\* _traverse_and_build; a missing part has no output.
Built(s, node) ==
  CASE node.kind = "none"    -> [s EXCEPT !.out = None]
    [] node.kind = "fun"     -> Function(s, node)
    [] node.kind = "bind"    -> Binding(s, node)
    [] node.kind = "ref"     -> Resolved(s, node.name)
    [] node.kind = "literal" -> Made(s, "val", True)
    [] node.kind = "if"      -> Conditional(s, node)
    [] node.kind = "call"    -> Call(s, node)
    [] OTHER                 -> Container(s, node.parts, None)

EmptyNet == [agent |-> [n \in Ids |-> "none"], val |-> [n \in Ids |-> None],
             wire |-> [p \in Port |-> None], pairs |-> <<>>, fresh |-> 0,
             scopes |-> <<>>, out |-> None]

\* translate_uast, with the seal on the last output.
Net(tree) ==
  LET s == Container(PushScope(EmptyNet, tree), tree.parts, None)
  IN  PopScope(Terminated(s, s.out))

Translate ==
  /\ stage = "source"
  /\ LET s == Net(program) IN
       /\ s.fresh <= MaxIds
       /\ agent' = s.agent /\ val' = s.val /\ wire' = s.wire /\ pairs' = s.pairs
       /\ fresh' = s.fresh /\ live' = {n \in Ids : n < s.fresh}
  /\ stage' = "translated"
  /\ UNCHANGED <<cloned, status, built, program, part2, contracts, whole>>

-----------------------------------------------------------------------------
(* split_module.                                                           *)

\* _rescan_active: each pair of nodes that meet once, in the order of the nodes.
Rescan(w, order, nodes) ==
  LET meets(n)  == w[<<n, 0>>] # None /\ w[<<n, 0>>][2] = 0 /\ w[<<n, 0>>][1] \in nodes
      found[i \in 0 .. Len(order)] ==
        IF i = 0 THEN <<>>
        ELSE IF ~meets(order[i]) THEN found[i - 1]
        ELSE IF Queued(found[i - 1], order[i], w[<<order[i], 0>>][1]) THEN found[i - 1]
        ELSE Append(found[i - 1], <<order[i], w[<<order[i], 0>>][1]>>)
  IN  found[Len(order)]

Ascending(S) ==
  [i \in 1 .. Cardinality(S) |-> CHOOSE n \in S : Cardinality({m \in S : m < n}) = i - 1]

\* The wire at p, if it leads to the other side, ends in a cap on either side.
Cut(s, p, side) ==
  LET q == s.wire[p] IN
  IF q = None THEN s
  ELSE IF q[1] \notin live \/ side[p[1]] = side[q[1]] THEN s
  ELSE [contracts |-> Append(s.contracts, <<s.next, s.next + 1>>), next |-> s.next + 2,
        wire |-> Rewired(Rewired(s.wire, p, <<s.next, 0>>), q, <<s.next + 1, 0>>)]

\* Wires are cut in the order of the nodes and of their ports.
RECURSIVE CutAll(_, _, _)
CutAll(s, ports, side) ==
  IF ports = {} THEN s
  ELSE LET p == CHOOSE p \in ports : \A q \in ports : 4 * p[1] + p[2] <= 4 * q[1] + q[2]
       IN  CutAll(Cut(s, p, side), ports \ {p}, side)

\* execute_mitosis over the threshold.  The signs of the Fiedler vector give
\* some partition; the first module is the one that is reduced.
Split ==
  /\ stage = "translated" /\ Cardinality(live) \in 2 .. SplitSize
  /\ \E side \in [live -> {0, 1}] :
       LET s     == CutAll([wire |-> wire, next |-> fresh, contracts |-> <<>>],
                           LivePorts, side)
           caps(d) == {c \in fresh .. (s.next - 1) : side[s.wire[<<c, 0>>][1]] = d}
           nodes(d) == {n \in live : side[n] = d}
           order == Ascending(caps(0)) \o Ascending(nodes(0))
       IN  /\ s.next <= MaxIds
           /\ wire' = s.wire /\ fresh' = s.next /\ contracts' = s.contracts
           /\ agent' = [n \in Ids |-> IF n \in fresh .. (s.next - 1) THEN "bnd" ELSE agent[n]]
           /\ live' = nodes(0) \cup caps(0)
           /\ part2' = nodes(1) \cup caps(1)
           /\ pairs' = Rescan(s.wire, order, nodes(0) \cup caps(0))
  /\ whole' = wire /\ stage' = "split"
  /\ UNCHANGED <<val, cloned, status, built, program>>

-----------------------------------------------------------------------------
\* apply_type_safe_mutation: closures and applications change places, values
\* are negated, any of them.
Mutate ==
  /\ stage = "translated"
  /\ \E S \in SUBSET {n \in live : agent[n] \in {"con", "des", "val"}} :
       /\ S # {}
       /\ agent' = [n \in Ids |-> IF n \notin S \/ agent[n] = "val" THEN agent[n]
                                  ELSE IF agent[n] = "con" THEN "des" ELSE "con"]
       /\ val' = [n \in Ids |-> IF n \notin S \/ val[n] \notin {True, False} THEN val[n]
                                ELSE IF val[n] = True THEN False ELSE True]
  /\ stage' = "mutated"
  /\ UNCHANGED <<cloned, live, wire, pairs, fresh, status, built, program, part2,
                 contracts, whole>>

\* save_aeroc and load_aeroc: nodes made by object.__new__ have aux but no a_1
\* to a_3, wires to nodes that are not saved are free, and the pairs are found
\* again.  (The names of new nodes start at 0 again; nodes keep their identity
\* here, so that a new node taking the name of a live one is not modelled.)
Reload ==
  /\ stage \in {"translated", "split", "mutated"} /\ status = "ready"
  /\ cloned' = live
  /\ wire' = [p \in Port |-> IF LivePort(p) /\ wire[p] # None /\ wire[p][1] \notin live
                             THEN None ELSE wire[p]]
  /\ pairs' = Rescan(wire, Ascending(live), live)
  /\ stage' = "reloaded"
  /\ UNCHANGED <<agent, val, live, fresh, status, built, program, part2, contracts, whole>>

\* run_to_completion, or one generation of evolve_aeroc.
Rewriting ==
  /\ stage # "source" /\ Reduce
  /\ stage' = IF stage \in {"none", "reloaded"} THEN stage ELSE "reduced"
  /\ UNCHANGED <<program, part2, contracts, whole>>

TranslatorInit ==
  /\ program \in Programs /\ stage = "source"
  /\ agent = EmptyNet.agent /\ val = EmptyNet.val /\ wire = EmptyNet.wire
  /\ pairs = <<>> /\ live = {} /\ fresh = 0 /\ cloned = {} /\ status = "ready"
  /\ built = BuildBudget
  /\ part2 = {} /\ contracts = <<>> /\ whole = EmptyNet.wire

TranslatorNext == Translate \/ Split \/ Mutate \/ Rewriting
TranslatorSpec == TranslatorInit /\ [][TranslatorNext]_<<vars, tvars>>

ReloadSpec == TranslatorInit /\ [][TranslatorNext \/ Reload]_<<vars, tvars>>

-----------------------------------------------------------------------------
RECURSIVE Binders(_, _)
\* The places that bind a name: bindings, parameters and named functions.
Binders(node, name) ==
  LET in[i \in 0 .. Len(node.parts)] ==
        IF i = 0 THEN 0 ELSE in[i - 1] + Binders(node.parts[i], name)
  IN  in[Len(node.parts)] + (IF node.kind \in {"bind", "fun"} /\ node.name = name THEN 1 ELSE 0)
        + (IF node.param = name THEN 1 ELSE 0)

RECURSIVE NamesFunctions(_)
NamesFunctions(node) ==
  \/ node.kind = "fun" /\ node.name # None
  \/ \E i \in DOMAIN node.parts : NamesFunctions(node.parts[i])

Plain(tree) == ~NamesFunctions(tree) /\ \A x \in Names : Binders(tree, x) <= 1

\* Every port of the net is on a wire, and both its ends know each part2.
Sealed == \A p \in LivePorts : wire[p] # None /\ wire[wire[p]] = p

CopiesOf(tree) ==
  LET over[S \in SUBSET Names] ==
        IF S = {} THEN 0
        ELSE LET x == CHOOSE x \in S : TRUE
             IN  over[S \ {x}] + (IF Refs(tree, x) > 1 THEN Refs(tree, x) - 1 ELSE 0)
  IN  over[Names]

\* A program that binds each name once and names no function becomes a sealed
\* net: sources, copies and outputs that nobody uses are capped, and none is
\* capped and used.  A name is copied at most once less than it is referred to.
PlainNetsAreSealed ==
  stage = "translated" /\ Plain(program) =>
    /\ Sealed
    /\ Cardinality({n \in live : agent[n] = "dup"}) <= CopiesOf(program)

\* "Cap a free wire with an eraser (no un-terminated ports)": every program
\* becomes a sealed net.
NetsAreSealed == stage = "translated" => Sealed

\* The two modules of a split have no wire in common, and sewing their caps
\* together, contract by contract, gives the net they were cut from.
SplitIsLossless ==
  stage = "split" =>
    LET caps   == UNION {{contracts[i][1], contracts[i][2]} : i \in DOMAIN contracts}
        mate(c) == CHOOSE d \in caps : \E i \in DOMAIN contracts :
                     contracts[i] \in {<<c, d>>, <<d, c>>}
        sewn(p) == IF wire[p] = None \/ wire[p] = p THEN wire[p]
                   ELSE IF wire[p][1] \in caps THEN wire[<<mate(wire[p][1]), 0>>] ELSE wire[p]
        ports(S) == {p \in Port : p[1] \in S /\ p[2] <= Arity(agent[p[1]])}
    IN  /\ \A p \in ports((live \cup part2) \ caps) : sewn(p) = whole[p]
        /\ \A S \in {live, part2} : \A p \in ports(S) :
             wire[p] # None => wire[p][1] \in S /\ wire[wire[p]] = p

\* "Serialization is lossless": a net that was saved and loaded can be reduced.
ReloadedNetsReduce == stage = "reloaded" => status = "ready"

\* The nets the translator makes of plain programs are closed, and stay so cut in
\* two (translate_uast, split_module).
NetsAreWhole == PlainNetsAreSealed /\ SplitIsLossless
============================================================================

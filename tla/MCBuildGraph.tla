----------------------------- MODULE MCBuildGraph -----------------------------
(***************************************************************************)
(* The sort by itself: all dependency graphs of four targets, each name    *)
(* listed once; and all requires lists of up to two names for the last two *)
(* targets, of at most one for the others, undeclared, own and repeated    *)
(* names among them.  The parsers: blueprints of every dialect, whose DSL  *)
(* targets are then sorted.  And the two ways a source of the build is     *)
(* repaired: transactions in a staging directory (HealingStage), two of    *)
(* them, of one manager or of two, on one file or two; and the diagnostics *)
(* loop that edits in place (SelfHealing).  The variable part says which   *)
(* of them a behaviour is about.                                           *)
(***************************************************************************)
EXTENDS Blueprint, Healing

MCSets == [Targets -> {SetToSeq(S) : S \in SUBSET Targets}]

Lists(max) == UNION {[1..k -> 0..N] : k \in 0..max}
MCLists ==
    {[n \in Targets |-> IF n <= N - 2 THEN short[n] ELSE long[n]] :
        short \in [1..(N - 2) -> Lists(1)], long \in [(N - 1)..N -> Lists(2)]}

MCGraphs == MCSets \cup MCLists

-----------------------------------------------------------------------------
Absent == [s \in Sections |-> "absent"]
Doc(dialect, fault, targets, needs, optional) ==
    [dialect |-> dialect, fault |-> fault, targets |-> targets, needs |-> needs,
     optional |-> optional, cores |-> {}, ingest |-> FALSE, paths |-> << >>]

Chain == << << >>, <<1>>, <<2>>, << >> >>
Empty == [n \in {} |-> << >>]
Orders == {<< >>, <<1>>, <<2, 1>>, <<1, 2, 1>>, <<3, 1, 2>>, <<1, 2, 3, 4>>}

\* Needs of the first three names of up to two names, of the fourth at most one.
Needs == {[n \in Targets |-> IF n = N THEN last ELSE first[n]] :
            first \in [1..(N - 1) -> {s \in Lists(2) : \A i \in DOMAIN s : s[i] < N}],
            last \in {<< >>, <<2>>}}

MCDocs ==
    {Doc("missing", "none", << >>, Empty, Absent)}
    \cup {[Doc("lean", fault, targets, Empty, Absent) EXCEPT !.cores = cores, !.ingest = ingest] :
            fault \in {"none", "line"}, targets \in Orders,
            cores \in SUBSET Targets, ingest \in BOOLEAN}
    \cup {[Doc("toml", fault, targets, Empty, optional) EXCEPT !.paths = paths] :
            fault \in {"none", "syntax"}, targets \in {<< >>, <<1>>, <<1, 2>>},
            optional \in [Sections -> {"absent", "given", "bad"}], paths \in {<< >>, <<1>>}}
    \cup {Doc(dialect, fault, targets, Chain, optional) :
            dialect \in {"json", "ini"}, fault \in {"none", "layout", "sections"},
            targets \in {<< >>, <<1, 2, 3, 4>>},
            optional \in [Sections -> {"absent", "given", "bad"}]}
    \cup {Doc("ini", "field", targets, Chain, Absent) : targets \in {<< >>, <<3, 4>>}}
    \cup {Doc("dsl", fault, targets, Chain, Absent) :
            fault \in {"none", "layout", "shape", "schema"}, targets \in {<< >>, <<1, 2, 3, 4>>}}
    \cup {Doc(dialect, "none", IF dialect = "dsl" THEN <<1, 2, 3, 4>> ELSE <<3, 4>>, needs, Absent) :
            dialect \in {"dsl", "ini"}, needs \in Needs}

-----------------------------------------------------------------------------
TwoTxns     == {"t1", "t2"}
TwoManagers == {"m1", "m2"}
TwoFiles    == {"a.py", "b.py"}

Own(names) == [t \in TwoTxns |-> IF t = "t1" THEN names[1] ELSE names[2]]

MCSetups ==
    {s \in [manager : {Own(<<"m1", "m2">>), Own(<<"m1", "m1">>)},
            target : {Own(<<"a.py", "b.py">>), Own(<<"a.py", "a.py">>)},
            fails : BOOLEAN] :
        s.fails => (s.manager["t1"] = s.manager["t2"]) # (s.target["t1"] = s.target["t2"])}

\* A defect of every kind the handlers treat differently: two in one place, two
\* that are repaired in another file, one whose construct is not recognised.
Import(known) == [cat |-> "missing_import", at |-> 0, rule |-> known]
MCDefects ==
    {Import(TRUE),
     [cat |-> "missing_semicolon", at |-> 3, rule |-> TRUE],
     [cat |-> "immutable_assignment", at |-> 3, rule |-> FALSE],
     [cat |-> "missing_crate", at |-> 1, rule |-> TRUE],
     [cat |-> "unresolved_parent_import", at |-> 2, rule |-> TRUE]}
NewImports == {Import(FALSE)}
TwoModules == {"m1", "m2"}

-----------------------------------------------------------------------------
VARIABLE part

NoDoc == Doc("none", "none", << >>, Empty, Absent)

NotParsing ==
    /\ doc = NoDoc /\ phase = "none" /\ color = << >> /\ stack = << >>
    /\ report = << >> /\ context = NoContext

NotStaging == HealingInit /\ setup = CHOOSE s \in Setups : TRUE

NotInPlace ==
    /\ LoopInit
    /\ \A m \in Modules : text[m].defects = {}
    /\ manifest = {} /\ parent = {}

MCInit ==
    \/ part = "sort" /\ NotInPlace /\ NotStaging /\ NotParsing /\ GraphInit
    \/ part = "parse" /\ NotInPlace /\ NotStaging /\ Unsorted /\ ParseInit
    \/ part = "stage" /\ NotInPlace /\ NotParsing /\ Unsorted /\ HealingInit
    \/ /\ part = "loop" /\ LoopInit /\ NotParsing /\ Unsorted /\ NotStaging
       /\ text["m2"].defects \subseteq {Import(TRUE)}

MCNext ==
    \/ part = "sort" /\ GraphNext /\ UNCHANGED <<part, parsing, staged, inPlace>>
    \/ part = "parse" /\ ParseNext /\ UNCHANGED <<part, staged, inPlace>>
    \/ part = "stage" /\ HealingNext /\ UNCHANGED <<part, vars, parsing, inPlace>>
    \/ part = "loop" /\ LoopNext /\ UNCHANGED <<part, vars, parsing, staged>>

\* A transaction that is under way goes on.
MCSpec ==
    /\ MCInit /\ [][MCNext]_<<part, vars, parsing, staged, inPlace>>
    /\ \A t \in Txns : WF_staged(part = "stage" /\ Run(t))

\* Every transaction comes to an end within its budget, and only what compiles
\* is swapped in (_verify_compilation, _atomic_workspace_swap).
TransactionsEndWell ==
    /\ OnlyVerifiedIsSwapped
    /\ part = "stage" => \A t \in Txns : <>(step[t] = "ended")
=============================================================================

---------------------------- MODULE ContextIngest ----------------------------
(***************************************************************************)
(* Source trees outside the project and the two ways they come into it.    *)
(* src/context/{ingest,repair,analyser}.py copies, links or repairs the    *)
(* files of the [context] section into the workspace; `aero ingest` with   *)
(* src/registry/{ingest,ast_db}.py and core/parser/universal.py keeps a    *)
(* row for each file of a tree and a table for the tree in the blueprint.  *)
(*                                                                         *)
(* A text is what the analyser sees of it: its import statements, the      *)
(* names it uses without defining them, and what stands before them.       *)
(***************************************************************************)
EXTENDS Naturals, Sequences

CONSTANTS
    Sources,    \* files outside the workspace
    Texts,      \* what their owners write into them, see Text
    Places,     \* files in the workspace
    Plans,      \* [context] sections: the files they name, in order, see Item
    WellKnown,  \* names that _KNOWN_IMPORTS has an import for
    Trees,      \* what `aero ingest` is called on: its files, in order
    NameKind,   \* of a tree: is its directory's name a bare key of TOML?
    Ingestors,  \* processes that may run `aero ingest`
    MaxRuns, MaxChanges     \* bounds: ingestions and edits of sources

\* lines: statements on one line have one.  only: nothing else is in its block.
Import == [names : SUBSET STRING, line : STRING, only : BOOLEAN]
\* late: a __future__ import stands behind another statement; ast.parse accepts
\* that and the compiler does not.
Text == [kind : {"python", "late", "broken", "binary"}, imports : SUBSET Import,
         uses : SUBSET STRING, header : {"plain", "comment", "split"}, bare : BOOLEAN]
Item == [from : Sources, to : Places, mode : {"copy", "symlink"},
         rules : SUBSET {"remove_unused", "auto_import", "type_inference"}]
Nothing == "none"

ASSUME ContextAssumption ==
    /\ Nothing \notin Sources /\ Texts \subseteq Text /\ Plans \subseteq Seq(Item)
    /\ \A c \in DOMAIN Trees : Trees[c] \in Seq(Sources)

VARIABLES
    source,     \* the text of each file outside
    place,      \* the workspace: a link to a source, or a text of its own
    plan,       \* what ingest_all works through
    report,     \* its records so far, in the order of the plan
    rows,       \* the registry: the text of a file under a context
    blueprint,  \* the tables of [context_registry], and is the rest TOML?
    harmed,     \* was the blueprint ever no TOML, cut short by a kill, or
                \* written over by who had not seen its last table?
    task,       \* what each ingestor is at
    grammar,    \* is the tree-sitter grammar installed?
    runs, changes

ingested   == <<place, plan, report>>
registered == <<rows, blueprint, harmed, task>>
contextVars == <<source, ingested, registered, grammar, runs, changes>>

Future == "annotations"
Blank == [kind |-> "python", imports |-> {}, uses |-> {}, header |-> "plain", bare |-> FALSE]
Link(f) == [link |-> f, text |-> Blank]
File(t) == [link |-> Nothing, text |-> t]
Idle == [phase |-> "idle", tree |-> Nothing, left |-> << >>, text |-> Blank,
         stored |-> {}, seen |-> [tables |-> << >>, toml |-> TRUE], alone |-> FALSE]

Init ==
    /\ source \in [Sources -> Texts]
    /\ place = [d \in Places |-> File(Blank)]
    /\ plan = << >> /\ report = << >>
    /\ rows = << >>
    /\ blueprint \in [tables : {<< >>}, toml : BOOLEAN]
    /\ harmed = ~blueprint.toml
    /\ task = [p \in Ingestors |-> Idle]
    /\ grammar \in BOOLEAN
    /\ runs = 0 /\ changes = 0

-----------------------------------------------------------------------------
\* CodeAnalyser._analyse_python.
Bound(t)     == UNION {i.names : i \in t.imports}
Undefined(t) == t.uses \ Bound(t)
Unused(t)    == Bound(t) \ t.uses

Parses(t) == t.kind \in {"python", "late"}

\* A rule that breaks the syntax, or changes nothing, is given up whole.
Safely(t, changed) == IF Parses(changed) THEN changed ELSE t

\* _remove_unused drops the lines of the statements none of whose names is
\* used, with all that stands on them.
DropsUnused(t) ==
    LET gone == {i \in t.imports : i.names \subseteq Unused(t)}
        lines == {i.line : i \in gone}
        cut == {i \in t.imports : i.line \in lines}
    IN  [t EXCEPT !.imports = @ \ cut,
                  !.kind = IF \E i \in cut : i.only THEN "broken" ELSE @]

\* _auto_import, at _import_insertion_point: behind a docstring and the
\* __future__ imports, but before a comment that precedes them and inside a
\* statement of several lines.
AddsImports(t) ==
    LET added == {[names |-> {n}, line |-> n, only |-> FALSE] : n \in Undefined(t) \cap WellKnown}
    IN  IF added = {} THEN t
        ELSE [t EXCEPT !.imports = @ \cup added,
                       !.kind = CASE t.header = "split" -> "broken"
                                  [] t.header = "comment" /\ Future \in Bound(t) -> "late"
                                  [] OTHER -> @]

\* _type_inference: the functions that return nothing say so.
Annotated(t) == [t EXCEPT !.bare = FALSE]

\* CodeRepairer.repair.
Repaired(t, rules) ==
    LET lean == IF "remove_unused" \in rules THEN Safely(t, DropsUnused(t)) ELSE t
        full == IF "auto_import" \in rules THEN Safely(lean, AddsImports(lean)) ELSE lean
    IN  IF ~Parses(t) THEN t
        ELSE IF "type_inference" \in rules THEN Annotated(full) ELSE full

-----------------------------------------------------------------------------
IngestAll(p) ==
    /\ Len(report) = Len(plan)
    /\ runs < MaxRuns /\ runs' = runs + 1
    /\ plan' = p /\ report' = << >>
    /\ UNCHANGED <<source, place, registered, grammar, changes>>

\* Is a process that ingests a tree alone with it?
Busy(p) == task[p].phase \notin {"idle", "done"}
FilesOf(s) == {s[i] : i \in DOMAIN s}
Disturbed(j) == [p \in Ingestors |-> [j[p] EXCEPT !.alone = FALSE]]
Noticed == task' = IF source' = source THEN task ELSE Disturbed(task)

\* What is written to a place that is a link is written to the source.
Write(d, t) ==
    IF place[d].link = Nothing
      THEN place' = [place EXCEPT ![d] = File(t)] /\ UNCHANGED source
      ELSE source' = [source EXCEPT ![place[d].link] = t] /\ UNCHANGED place

Recorded(item, error, found, left) ==
    report' = Append(report, [item |-> item, error |-> error, found |-> found, left |-> left])

\* Mutant: the mode is honoured before the rules are looked at.
WriteRepaired_IfCopied(item) ==
    LET found == source[item.from]
    IN  /\ item.rules # {}
        /\ Recorded(item, FALSE, found, Repaired(found, item.rules))
        /\ IF item.mode = "symlink"
             THEN place' = [place EXCEPT ![item.to] = Link(item.from)] /\ UNCHANGED source
             ELSE Write(item.to, Repaired(found, item.rules))

WriteRepaired(item) ==
    LET found == source[item.from]
        left  == Repaired(found, item.rules)
    IN  /\ item.rules # {}
        /\ IF found.kind = "binary"
             THEN Recorded(item, TRUE, found, found) /\ UNCHANGED <<source, place>>
             ELSE Recorded(item, FALSE, found, left) /\ Write(item.to, left)

MakeLink(item) ==
    /\ item.rules = {} /\ item.mode = "symlink"
    /\ place' = [place EXCEPT ![item.to] = Link(item.from)]
    /\ Recorded(item, FALSE, source[item.from], source[item.from])
    /\ UNCHANGED source

\* copy2 refuses to copy a file onto itself.
Copy(item) ==
    /\ item.rules = {} /\ item.mode = "copy"
    /\ LET itself == place[item.to].link = item.from
       IN  /\ Recorded(item, itself, source[item.from], source[item.from])
           /\ IF itself THEN UNCHANGED <<source, place>> ELSE Write(item.to, source[item.from])

IngestFile ==
    /\ Len(report) < Len(plan)
    /\ LET item == plan[Len(report) + 1]
       IN  WriteRepaired(item) \/ MakeLink(item) \/ Copy(item)
    /\ Noticed
    /\ UNCHANGED <<plan, rows, blueprint, harmed, grammar, runs, changes>>

\* The process is killed; what it was writing is empty, or not yet touched.
KillIngestAll ==
    /\ Len(report) < Len(plan)
    /\ LET item == plan[Len(report) + 1]
       IN  \/ UNCHANGED <<source, place>>
           \/ (item.rules # {} \/ item.mode = "copy") /\ Write(item.to, Blank)
    /\ plan' = << >> /\ report' = << >>
    /\ Noticed
    /\ UNCHANGED <<rows, blueprint, harmed, grammar, runs, changes>>

-----------------------------------------------------------------------------
\* The loader accepts the blueprint; a dotted name makes nested tables, one
\* with a blank makes none.
Readable(b) ==
    /\ b.toml
    /\ \A i \in DOMAIN b.tables : NameKind[b.tables[i]] # "blank"
    /\ \A i, k \in DOMAIN b.tables : i # k => b.tables[i] # b.tables[k]
Names(b) == {b.tables[i] : i \in DOMAIN b.tables}
Registers(b, c) == Readable(b) /\ NameKind[c] = "bare" /\ c \in Names(b)

Ingest(p, c) ==
    /\ ~Busy(p)
    /\ runs < MaxRuns /\ runs' = runs + 1
    /\ LET alone == \A q \in Ingestors : ~Busy(q)
       IN  task' = [Disturbed(task) EXCEPT ![p] =
                      [Idle EXCEPT !.phase = "read", !.tree = c, !.left = Trees[c], !.alone = alone]]
    /\ UNCHANGED <<source, ingested, rows, blueprint, harmed, grammar, changes>>

Goto(p, j) == task' = [task EXCEPT ![p] = j]

\* read_text and parse_bytes: a file that is no text is an error of its own.
\* Without the grammar Python is parsed by ast, and the SyntaxError of a broken
\* file ends the ingestion.
Outcome(t) == CASE t.kind = "binary" -> "error"
                [] t.kind = "broken" /\ ~grammar -> "raises"
                [] OTHER -> "uast"

Read(p) ==
    /\ task[p].phase = "read" /\ task[p].left # << >>
    /\ LET j == task[p]
           t == source[Head(j.left)]
       IN  CASE Outcome(t) = "error"  -> Goto(p, [j EXCEPT !.left = Tail(@)])
             [] Outcome(t) = "raises" -> Goto(p, Idle)
             [] Outcome(t) = "uast"   -> Goto(p, [j EXCEPT !.phase = "store", !.text = t])
    /\ UNCHANGED <<source, ingested, rows, blueprint, harmed, grammar, runs, changes>>

\* ASTDatabase.upsert commits each row.
\* Mutant: ON CONFLICT DO NOTHING.
Upsert_Keeps(key, t) ==
    [k \in DOMAIN rows \cup {key} |-> IF k \in DOMAIN rows THEN rows[k] ELSE t]
Upsert(key, t) == [k \in DOMAIN rows \cup {key} |-> IF k = key THEN t ELSE rows[k]]
Store(p) ==
    /\ task[p].phase = "store"
    /\ LET j == task[p]
           f == Head(j.left)
       IN  /\ rows' = Upsert(<<j.tree, f>>, j.text)
           /\ Goto(p, [j EXCEPT !.phase = "read", !.left = Tail(@), !.stored = @ \cup {f}])
    /\ UNCHANGED <<source, ingested, blueprint, harmed, grammar, runs, changes>>

\* update_context_registry keeps the text it read first, loads the file again
\* to look for the context, and writes the text with one more table.
ReadBlueprint(p) ==
    /\ task[p].phase = "read" /\ task[p].left = << >>
    /\ Goto(p, IF task[p].stored = {} THEN [task[p] EXCEPT !.phase = "done"]
               ELSE [task[p] EXCEPT !.phase = "look", !.seen = blueprint])
    /\ UNCHANGED <<source, ingested, rows, blueprint, harmed, grammar, runs, changes>>

Look(p) ==
    /\ task[p].phase = "look"
    /\ Goto(p, [task[p] EXCEPT !.phase = IF Registers(blueprint, task[p].tree) THEN "done" ELSE "write"])
    /\ UNCHANGED <<source, ingested, rows, blueprint, harmed, grammar, runs, changes>>

Register(p) ==
    /\ task[p].phase = "write"
    /\ blueprint' = [task[p].seen EXCEPT !.tables = Append(@, task[p].tree)]
    /\ harmed' = (harmed \/ task[p].seen # blueprint)
    /\ Goto(p, [task[p] EXCEPT !.phase = "done"])
    /\ UNCHANGED <<source, ingested, rows, grammar, runs, changes>>

\* A kill in the last step leaves an empty blueprint or the beginning of one.
KillIngest(p) ==
    /\ Busy(p)
    /\ Goto(p, Idle)
    /\ \/ UNCHANGED <<blueprint, harmed>>
       \/ /\ task[p].phase = "write"
          /\ blueprint' \in [tables : {<< >>}, toml : BOOLEAN]
          /\ harmed' = TRUE
    /\ UNCHANGED <<source, ingested, rows, grammar, runs, changes>>

Edit(f, t) ==
    /\ changes < MaxChanges /\ changes' = changes + 1
    /\ t # source[f]
    /\ source' = [source EXCEPT ![f] = t]
    /\ task' = Disturbed(task)
    /\ UNCHANGED <<ingested, rows, blueprint, harmed, grammar, runs>>

ContextNext == \/ \E p \in Plans : IngestAll(p)
               \/ IngestFile
               \/ KillIngestAll
RegistryNext ==
    \E p \in Ingestors :
        \/ \E c \in DOMAIN Trees : Ingest(p, c)
        \/ Read(p) \/ Store(p) \/ ReadBlueprint(p) \/ Look(p) \/ Register(p)
        \/ KillIngest(p)
EditNext == \E f \in Sources, t \in Texts : Edit(f, t)

Next == ContextNext \/ RegistryNext \/ EditNext
Spec == Init /\ [][Next]_contextVars

-----------------------------------------------------------------------------
LastOf(d) == CHOOSE i \in DOMAIN report :
                 /\ report[i].item.to = d
                 /\ \A k \in DOMAIN report : k > i => report[k].item.to # d

\* What the last record without an error says of a place is true when
\* ingest_all returns: a place that is no link holds the text of the source as
\* the rules left it, and one that was linked is a link to its source.
PlacesAreAsReported ==
    Len(report) = Len(plan) =>
        \A d \in {report[i].item.to : i \in DOMAIN report} :
            LET r == report[LastOf(d)]
            IN  \/ r.error
                \/ /\ r.item.rules = {} /\ r.item.mode = "symlink"
                   /\ place[d].link = r.item.from
                \/ /\ r.item.rules # {} \/ r.item.mode = "copy"
                   /\ place[d].link = Nothing => place[d].text = r.left

\* "any change that would break the syntax is rolled back" (repair.py): a text
\* that parses does so afterwards, and a name that was bound and is used is
\* still bound.  Two things are beyond it: statements that share a line, and a
\* comment before a __future__ import.
RepairsDoNoHarm ==
    \A r \in {report[i] : i \in DOMAIN report} :
        /\ Parses(r.found) => Parses(r.left)
        /\ (\A i, k \in r.found.imports : i.line = k.line => i = k)
              => r.found.uses \cap Bound(r.found) \subseteq Bound(r.left)
        /\ r.found.header # "comment" => r.left.kind = r.found.kind

\* Nothing but its owner changes a source that no place is a link to: what is
\* copied or repaired goes to the workspace.
SourcesAreTheirOwners ==
    \A f \in Sources :
        source'[f] # source[f] =>
            changes' # changes \/ \E d \in Places : place[d].link = f

\* Who reads a place finds what the record says was left there.
Content(d) == IF place[d].link = Nothing THEN place[d].text ELSE source[place[d].link]
RecordsAreTrue ==
    \A d \in Places :
        LET made == report'[Len(report')]
        IN  Len(report') > Len(report) /\ made.item.to = d /\ ~made.error =>
                Content(d)' = made.left

\* The records are true when they are made and when ingest_all returns, what
\* the rules did is harmless, and the files outside are left alone.
DeliveredIsReported ==
    /\ [](PlacesAreAsReported /\ RepairsDoNoHarm)
    /\ [][RecordsAreTrue /\ SourcesAreTheirOwners]_contextVars

\* Whatever is killed and whoever runs beside it, a context of the blueprint
\* has a row: nothing is registered that was never ingested.
RegisteredHaveRows ==
    \A c \in Names(blueprint) : \E f \in Sources : <<c, f>> \in DOMAIN rows

\* Ingestions leave a blueprint that the loader accepts, with each context
\* once, if it was one, the names are bare keys, and none of those that race
\* lost the table of another: a process that has seen a table which is then
\* lost writes it a second time.
BlueprintStaysReadable ==
    ~harmed /\ (\A c \in Names(blueprint) : NameKind[c] = "bare")
        => Readable(blueprint)

\* An ingestion that nothing disturbs leaves the row of each file it could read
\* as the file is, and a context that is registered if it can be.
AloneIsExact ==
    \A p \in Ingestors :
        task[p].phase = "done" /\ task[p].alone =>
            /\ \A f \in FilesOf(Trees[task[p].tree]) :
                   source[f].kind # "binary" =>
                       <<task[p].tree, f>> \in DOMAIN rows /\ rows[<<task[p].tree, f>>] = source[f]
            /\ task[p].stored # {} /\ Readable(blueprint) /\ NameKind[task[p].tree] = "bare"
                   => Registers(blueprint, task[p].tree)

\* The three promises of the registry together.
RegistryIsExact == RegisteredHaveRows /\ BlueprintStaysReadable /\ AloneIsExact
=============================================================================

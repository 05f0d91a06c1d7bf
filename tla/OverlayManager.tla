--------------------------- MODULE OverlayManager ---------------------------
(***************************************************************************)
(* src/overlay/{manager,store,apply,patch}.py, src/build/overlay_stage.py  *)
(* and the merge of core/overlay/structural_merger.py: one generated file, *)
(* its pristine baseline in .build_cache, and the user's committed edits   *)
(* in .overlays.                                                           *)
(*                                                                         *)
(* A text is a sequence of lines.  A line heads an entity (function, type) *)
(* or is a statement of it: an operator, which the parser has for an       *)
(* anonymous token, with operands, which are named nodes.  All statements  *)
(* are nodes of one type with as many operands, each of the type of its    *)
(* place.                                                                  *)
(***************************************************************************)
EXTENDS Naturals, FiniteSets, SequencesExt, FiniteSetsExt

CONSTANTS
    UserLines,      \* lines a user writes
    Generated,      \* the texts the generator produces, one per blueprint
    Context,        \* lines of context in a patch
    None,
    MaxLines,       \* bound: lines of a text after an edit or a repeated stage
    Conditions,     \* the sets of things that may happen in one execution
    MaxChanges      \* bound: lines a user edits, for each of those sets

Heads(line) == line.op = "def"
IsText(t) == t # << >> /\ Heads(t[1])
HasTwice(t) == \E i, j \in DOMAIN t : i # j /\ Heads(t[i]) /\ t[i] = t[j]

OverlayAssumption ==
    /\ \A t \in Generated : IsText(t) /\ ~HasTwice(t)
    /\ None \notin Generated
    /\ Context \in Nat /\ MaxLines \in Nat
    /\ Conditions \subseteq SUBSET {"unrecorded", "again", "blueprint"}
    /\ MaxChanges \in [Conditions -> Nat]

\* "unrecorded": the build does not call record_generated on what it writes
\* (as at this commit, where only callers of the manager do); "again": the
\* stage also runs when nothing was regenerated; "blueprint": a merge is given
\* the blueprint to note a rejection in.
VARIABLES
    may,        \* what may happen in this execution
    file,       \* the text on disk, None if it is not generated any more
    cache,      \* .build_cache/<file>, None if there is none
    overlay,    \* .overlays/<file>.patch: the hunks; None if there is none
    flagged,    \* is the file listed in [merge_collisions] of blueprint.aero?
    changes,    \* lines edited so far
    did,        \* the last operation that changed a text, with its status
    \* history variables, which no step reads:
    origin,     \* the text that file was last generated from
    committed   \* the texts between which overlay is the difference

vars == <<may, file, cache, overlay, flagged, changes, did, origin, committed>>

Op(name, status) == [name |-> name, status |-> status]

-----------------------------------------------------------------------------
(* Patches.                                                                *)

\* SequenceMatcher.find_longest_match: of the longest common blocks of
\* a[i0 .. i1] and b[j0 .. j1] the one that starts earliest in a, and of those
\* the one that starts earliest in b.
LongestMatch(a, b, i0, i1, j0, j1) ==
    LET common == {p \in (i0 .. i1) \X (j0 .. j1) : a[p[1]] = b[p[2]]}
        Length(p) == Max({n \in 1 .. i1 - p[1] + 1 :
                             \A k \in 1 .. n - 1 : <<p[1] + k, p[2] + k>> \in common})
        blocks == {<<p[1], p[2], Length(p)>> : p \in common}
    IN  CHOOSE m \in blocks : \A o \in blocks :
            \/ o[3] < m[3]
            \/ o[3] = m[3] /\ (m[1] < o[1] \/ (m[1] = o[1] /\ m[2] <= o[2]))

\* get_matching_blocks: the places of the lines that a and b have in common.
Matching(a, b) ==
    LET pairs[i0 \in 1 .. Len(a) + 1, i1 \in 0 .. Len(a), j0 \in 1 .. Len(b) + 1, j1 \in 0 .. Len(b)] ==
            LET Around(m) == pairs[i0, m[1] - 1, j0, m[2] - 1]
                             \cup {<<m[1] + k, m[2] + k>> : k \in 0 .. m[3] - 1}
                             \cup pairs[m[1] + m[3], i1, m[2] + m[3], j1]
            IN  IF {a[i] : i \in i0 .. i1} \cap {b[j] : j \in j0 .. j1} = {} THEN {}
                ELSE Around(LongestMatch(a, b, i0, i1, j0, j1))
    IN  pairs[1, Len(a), 1, Len(b)]

\* The difference as a sequence of lines kept, taken out and put in.
Script(a, b) ==
    LET m == Matching(a, b)
        entries[i \in 1 .. Len(a) + 1, j \in 1 .. Len(b) + 1] ==
            IF i <= Len(a) /\ \A p \in m : p[1] # i
            THEN <<[tag |-> "-", line |-> a[i], at |-> i]>> \o entries[i + 1, j]
            ELSE IF j <= Len(b) /\ \A p \in m : p[2] # j
            THEN <<[tag |-> "+", line |-> b[j], at |-> i]>> \o entries[i, j + 1]
            ELSE IF i <= Len(a)
            THEN <<[tag |-> " ", line |-> a[i], at |-> i]>> \o entries[i + 1, j + 1]
            ELSE << >>
    IN  entries[1, 1]

LinesOf(entries, tags) ==
    LET s == SelectSeq(entries, LAMBDA e : e.tag \in tags) IN [k \in DOMAIN s |-> s[k].line]

\* make_patch: a hunk is a longest run of lines within the context of a change.
\* Its line number, at, is never read.
MakePatch(base, current) ==
    LET s == Script(base, current)
        near == {k \in DOMAIN s : \E c \in k - Context .. k + Context : c \in DOMAIN s /\ s[c].tag # " "}
        starts == SetToSortSeq({k \in near : k - 1 \notin near}, <)
        Run(k) == SubSeq(s, k, Min({e \in near : e >= k /\ e + 1 \notin near}))
    IN  [n \in DOMAIN starts |-> [pre  |-> LinesOf(Run(starts[n]), {" ", "-"}),
                                  post |-> LinesOf(Run(starts[n]), {" ", "+"}),
                                  at   |-> s[starts[n]].at]]

Places(needle, t) ==
    {i \in 1 .. Len(t) - Len(needle) + 1 : SubSeq(t, i, i + Len(needle) - 1) = needle}

\* _find_block: the first place at or after start, or else the first of the
\* whole text; 0 if there is none.
FindBlock(t, needle, start) ==
    LET places == Places(needle, t)
        later == {i \in places : i >= start}
    IN  IF needle = << >> THEN start
        ELSE IF places = {} THEN 0
        ELSE IF later # {} THEN Min(later) ELSE Min(places)

\* apply_patch: a hunk is located by its content alone, anywhere in the text
\* that the hunks before it made; one that is not found is passed over.
Spliced(m, h) ==
    LET i == FindBlock(m.text, h.pre, m.from)
    IN  IF i = 0 THEN [text |-> m.text, from |-> m.from, conflict |-> TRUE]
        ELSE [text |-> SubSeq(m.text, 1, i - 1) \o h.post
                       \o SubSeq(m.text, i + Len(h.pre), Len(m.text)),
              from |-> i + Len(h.post), conflict |-> m.conflict]

ApplyPatch(t, hunks) ==
    LET made[k \in 0 .. Len(hunks)] ==
            IF k = 0 THEN [text |-> t, from |-> 1, conflict |-> FALSE]
            ELSE Spliced(made[k - 1], hunks[k])
    IN  made[Len(hunks)]

-----------------------------------------------------------------------------
(* The structural merge.                                                   *)

Absent == << >>
HeadsOf(t) == {i \in DOMAIN t : Heads(t[i])}
EntityAt(t, i) == SubSeq(t, i, Min({k \in HeadsOf(t) : k > i} \cup {Len(t) + 1}) - 1)

\* by_id: of two entities with one identity the later counts.
Entity(t, h) ==
    LET found == {i \in HeadsOf(t) : t[i] = h}
    IN  IF found = {} THEN Absent ELSE EntityAt(t, Max(found))

\* The rule for three versions of anything: only both sides' changes clash.
Clash(b, l, r) == l # b /\ r # b /\ l # r
Pick(b, l, r) == IF l = b THEN r ELSE l

\* _align: exact matches first; then, in order, what is left of b goes with the
\* first line of o between the matches around it.
Align(b, o) ==
    LET pairs[i \in 0 .. Len(b)] ==
            IF i = 0 THEN Matching(b, o)
            ELSE LET m == pairs[i - 1]
                     lo == Max({0} \cup {p[2] : p \in {q \in m : q[1] < i}})
                     hi == Min({Len(o) + 1} \cup {p[2] : p \in {q \in m : q[1] > i}})
                 IN  IF (\E p \in m : p[1] = i) \/ lo + 1 >= hi THEN m ELSE m \cup {<<i, lo + 1>>}
        m == pairs[Len(b)]
    IN  [i \in {p[1] : p \in m} |-> CHOOSE j \in DOMAIN o : <<i, j>> \in m]

\* _merge_node on two versions of a statement: the operands are merged one by
\* one onto the generator's statement, whose operator stays.
OperandsClash(b, l, r) == \E k \in DOMAIN b.args : Clash(b.args[k], l.args[k], r.args[k])
Operands(b, l, r) ==
    [op |-> r.op, args |-> [k \in DOMAIN b.args |-> Pick(b.args[k], l.args[k], r.args[k])]]
Statement(b, l, r) == IF Clash(b, l, r) THEN Operands(b, l, r) ELSE Pick(b, l, r)

\* _merge_node on the statements of an entity: those of the user are spliced
\* into the generator's.  What the user added comes after the statement it
\* follows, last one first, unless the generator has the same statement.
Additions(l, r, ml) == {x \in DOMAIN l : l[x] \notin ToSet(r) /\ \A i \in DOMAIN ml : ml[i] # x}

\* _insertion_anchor_left; 0 if there is none.
Anchor(ml, mr, x) ==
    LET above == {i \in DOMAIN ml \cap DOMAIN mr : ml[i] < x}
    IN  IF above = {} THEN 0 ELSE mr[CHOOSE i \in above : \A k \in above : ml[k] <= ml[i]]

\* An addition without an anchor is put before the first statement, in the same
\* line, and no parser takes that.
NodesClash(b, l, r) ==
    LET ml == Align(b, l)
        mr == Align(b, r)
    IN  \/ << >> \in {b, l, r}
        \/ \E i \in DOMAIN b :
              CASE i \in DOMAIN ml /\ i \in DOMAIN mr ->
                      Clash(b[i], l[ml[i]], r[mr[i]]) /\ OperandsClash(b[i], l[ml[i]], r[mr[i]])
                [] i \in DOMAIN ml -> l[ml[i]] # b[i]
                [] i \in DOMAIN mr -> r[mr[i]] # b[i]
                [] OTHER -> FALSE
        \/ \E x \in Additions(l, r, ml) : Anchor(ml, mr, x) = 0

Statements(b, l, r) ==
    LET ml == Align(b, l)
        mr == Align(b, r)
        added == Additions(l, r, ml)
        Framed(j) == IF \A i \in DOMAIN mr : mr[i] # j THEN <<r[j]>>
                   ELSE LET i == CHOOSE i \in DOMAIN mr : mr[i] = j
                        IN  IF i \in DOMAIN ml THEN <<Statement(b[i], l[ml[i]], r[j])>> ELSE << >>
        Added(j) == LET s == SetToSortSeq({x \in added : Anchor(ml, mr, x) = j}, >)
                    IN  [k \in DOMAIN s |-> l[s[k]]]
    IN  FlattenSeq([j \in DOMAIN r |-> Framed(j) \o Added(j)])

\* three_way_merge for one entity.
EntityClash(b, l, r) ==
    Clash(b, l, r) /\ (Absent \in {b, l, r} \/ NodesClash(Tail(b), Tail(l), Tail(r)))
MergedEntity(b, l, r) ==
    IF Clash(b, l, r) THEN <<Head(b)>> \o Statements(Tail(b), Tail(l), Tail(r)) ELSE Pick(b, l, r)

Conflicts(base, left, right) ==
    \E t \in {base, left, right} : \E i \in HeadsOf(t) :
        EntityClash(Entity(base, t[i]), Entity(left, t[i]), Entity(right, t[i]))

\* _reconstruct: the entities in the generator's order, then the user's own.
MergedText(base, left, right) ==
    LET HeadersOf(t) == SelectSeq(t, Heads)
        own == SelectSeq(HeadersOf(left), LAMBDA h : h \notin ToSet(base) \cup ToSet(right))
        order == HeadersOf(right) \o own
    IN  FlattenSeq([k \in DOMAIN order |-> MergedEntity(
                        Entity(base, order[k]), Entity(left, order[k]), Entity(right, order[k]))])

-----------------------------------------------------------------------------
\* The baseline after the build has written t.
Recorded(t) == IF "unrecorded" \in may THEN cache ELSE t

OverlayInit ==
    /\ may \in Conditions
    /\ file \in Generated /\ origin = file
    /\ cache = IF "unrecorded" \in may THEN None ELSE file
    /\ overlay = None /\ committed = None /\ flagged = FALSE /\ changes = 0
    /\ did = Op("build", "ok")

\* The user adds, replaces or deletes a line, or deletes an entity.
EditFile ==
    /\ file # None /\ changes < MaxChanges[may]
    /\ changes' = changes + 1
    /\ \E i \in DOMAIN file :
        \/ \E x \in UserLines : file' \in {InsertAt(file, i + 1, x), ReplaceAt(file, i, x)}
        \/ file' = RemoveAt(file, i)
        \/ Heads(file[i]) /\ file' = SubSeq(file, 1, i - 1)
                                     \o SubSeq(file, i + Len(EntityAt(file, i)), Len(file))
    /\ IsText(file') /\ Len(file') <= MaxLines
    /\ did' = Op("edit", "ok")
    /\ UNCHANGED <<may, cache, overlay, flagged, origin, committed>>

\* commit_overlay; without edits a stale overlay is removed.
CommitOverlay ==
    /\ file # None /\ cache # None
    /\ IF file = cache THEN overlay' = None /\ committed' = None
       ELSE overlay' = MakePatch(cache, file) /\ committed' = [base |-> cache, text |-> file]
    /\ did' = Op("commit", "ok")
    /\ UNCHANGED <<may, file, cache, flagged, changes, origin>>

\* reapply on a file that reads as body, which is the new baseline.  What was
\* merged beside a conflict is thrown away.
Conflicting_Never(m) == FALSE  \* Mutant: a hunk that is not found is no conflict.
Conflicting(m) == m.conflict

Reapply(body, name) ==
    LET m == ApplyPatch(body, overlay)
    IN  /\ cache' = body
        /\ file' = IF Conflicting(m) THEN body ELSE m.text
        /\ did' = Op(name, IF Conflicting(m) THEN "conflict" ELSE "applied")

\* The build generates the file again and runs apply_overlays_stage, unless it
\* has --no-overlay or there is no overlay.
Rebuild(t) ==
    /\ overlay # None
    /\ Reapply(t, "rebuild")
    /\ origin' = t
    /\ UNCHANGED <<may, overlay, flagged, changes, committed>>

RebuildWithout(t) ==
    /\ file' = t /\ origin' = t
    /\ cache' = Recorded(t)
    /\ did' = Op("build", "ok")
    /\ UNCHANGED <<may, overlay, flagged, changes, committed>>

\* The stage on a file that the build left as it was; lines that were put in
\* are put in again.
StageAgain ==
    /\ "again" \in may /\ file # None /\ overlay # None
    /\ Reapply(file, "again")
    /\ Len(file') <= MaxLines
    /\ UNCHANGED <<may, overlay, flagged, changes, origin, committed>>

\* The file is not generated any more; its overlay is reported missing.
DropFile ==
    /\ file # None
    /\ file' = None /\ did' = Op("build", IF overlay = None THEN "ok" ELSE "missing")
    /\ UNCHANGED <<may, cache, overlay, flagged, changes, origin, committed>>

\* structural_reapply: the file is merged in place with the regenerated text.
\* Texts whose first lines are of no entity are left out.
MergeBase_Left == file  \* Mutant: the file itself is the base.
MergeBase == IF cache = None THEN file ELSE cache

\* verify_merge refuses an entity that is there twice.
MergeAccepted(t) ==
    /\ ~Conflicts(MergeBase, file, t)
    /\ file' = MergedText(MergeBase, file, t)
    /\ ~HasTwice(file')
    /\ cache' = t /\ origin' = t
    /\ did' = Op("structural", "applied")
    /\ UNCHANGED <<may, overlay, flagged, changes, committed>>

\* A conflict, or the merged text does not parse or compile.
MergeRejected ==
    /\ flagged' = (flagged \/ "blueprint" \in may)
    /\ did' = Op("structural", "conflict")
    /\ UNCHANGED <<may, file, cache, overlay, changes, origin, committed>>

StructuralReapply(t) ==
    /\ file # None /\ IsText(file) /\ IsText(MergeBase)
    /\ MergeAccepted(t) \/ MergeRejected

OverlayNext ==
    \/ EditFile
    \/ CommitOverlay
    \/ \E t \in Generated : Rebuild(t)
    \/ \E t \in Generated : RebuildWithout(t)
    \/ \E t \in Generated : StructuralReapply(t)
    \/ StageAgain
    \/ DropFile

OverlaySpec == OverlayInit /\ [][OverlayNext]_vars

-----------------------------------------------------------------------------
\* The header a line of t stands under.
HeaderOver(t, i) ==
    LET above == {k \in HeadsOf(t) : k <= i} IN IF above = {} THEN None ELSE t[Max(above)]
HeadersOver(x, t) == {HeaderOver(t, i) : i \in {k \in DOMAIN t : t[k] = x}}

\* The surroundings of every hunk are in t once, in their order, each under the
\* header it had.
Place(hunk, t) == CHOOSE i \in Places(hunk.pre, t) : TRUE
Intact(hunks, base, t) ==
    /\ \A k \in DOMAIN hunks : /\ Cardinality(Places(hunks[k].pre, t)) = 1
                               /\ HeaderOver(t, Place(hunks[k], t)) = HeaderOver(base, hunks[k].at)
    /\ \A k, m \in DOMAIN hunks :
          k < m => Place(hunks[k], t) + Len(hunks[k].pre) <= Place(hunks[m], t)

OwnLines == ToSet(committed.text) \ ToSet(committed.base)

\* "after regeneration, re-apply every committed overlay so manual edits
\* survive" (manager.py): a rebuild that reports APPLIED has every line of the
\* committed text that is not one of its baseline.  Where the surroundings of
\* all edits are still there, and are there once, those lines also stand under
\* their headers, and all is as it was committed if the generator made the
\* baseline again.  (An edit whose surroundings are there twice may land in
\* another entity, and is reported APPLIED.)  A conflict leaves what the
\* generator made.
AppliedKeepsOwnLines == did' = Op("rebuild", "applied") => OwnLines \subseteq ToSet(file')
AppliedIsInPlace ==
    did' = Op("rebuild", "applied") /\ Intact(overlay, committed.base, origin') =>
        /\ \A x \in OwnLines :
              /\ HeadersOver(x, committed.text) \subseteq HeadersOver(x, file')
              /\ HeadersOver(x, file') \subseteq HeadersOver(x, committed.text) \cup HeadersOver(x, origin')
        /\ origin' = committed.base => file' = committed.text
ConflictLeavesGenerated == did' = Op("rebuild", "conflict") => file' = origin'

OverlaySurvivesRebuild ==
    [][overlay # None => AppliedKeepsOwnLines /\ AppliedIsInPlace /\ ConflictLeavesGenerated]_vars

\* "Re-apply user edits" (structural_reapply): in a merge that reports APPLIED
\* an entity that one side left alone is the other side's, deletions included.
\* Where both changed an entity every new statement of either is there, or the
\* merge of the two versions of a statement, with all operands that either
\* changed and the operator of the generator's.  (So what is lost of the
\* user's is an operator, where the generator changed the statement as well,
\* and one of two copies of a statement that both wrote.  A baseline that was
\* never recorded, or that the stage took from a file with edits, is no base
\* for a merge.)
NewIn(t, b) == ToSet(t) \ ToSet(b)
KeepsBoth(b, l, r, m) ==
    LET Woven(x, y) == \E z \in ToSet(b) : ~OperandsClash(z, x, y) /\ Operands(z, x, y) \in ToSet(m)
    IN  /\ \A x \in NewIn(l, b) : x \in ToSet(m) \/ \E y \in ToSet(r) : Woven(x, y)
        /\ \A y \in NewIn(r, b) : y \in ToSet(m) \/ \E x \in ToSet(l) : Woven(x, y)
StructuralMergeKeepsEdits ==
    [][may \subseteq {"blueprint"} /\ did' = Op("structural", "applied") /\ ~HasTwice(file) =>
        \A h \in {x \in ToSet(origin) \cup ToSet(file) \cup ToSet(origin') : Heads(x)} :
            LET b == Entity(origin, h)
                l == Entity(file, h)
                r == Entity(origin', h)
                m == Entity(file', h)
            IN  IF Clash(b, l, r) THEN KeepsBoth(Tail(b), Tail(l), Tail(r), Tail(m))
                ELSE m = Pick(b, l, r)]_vars

\* "capture the user's manual edits as a patch (the diff between the file now
\* and its last pristine generated version)": that version is the text the
\* file was generated from, after any rebuilds, merges and commits.
CommitIsTheEdits ==
    [][may \subseteq {"blueprint"} /\ did' = Op("commit", "ok") =>
        overlay' = IF file = origin THEN None ELSE MakePatch(origin, file)]_vars

\* What the user wrote goes through every merge, and a commit after it captures
\* just that (structural_reapply, commit_overlay).
MergesKeepEdits == StructuralMergeKeepsEdits /\ CommitIsTheEdits
=============================================================================

---------------------------- MODULE ReplayLedger ----------------------------
(***************************************************************************)
(* What builder_brains/experience_replay.py promises its callers: one      *)
(* shared list of at most MaxSize trajectories, the best results first, on *)
(* which recording and clearing are atomic.                                *)
(***************************************************************************)
EXTENDS Naturals, Sequences

CONSTANTS
    MaxSize,    \* max_size of every buffer on the file
    Results,    \* bound: the result scores that are recorded
    Numbers     \* tell recorded trajectories with the same result apart

VARIABLE ledger

Trajectory == [result : Results, nr : Numbers]

\* The number of trajectories at the head of s whose result is at least r.
Better(s, r) ==
    CHOOSE i \in 0..Len(s) :
        /\ \A j \in 1..i : s[j].result >= r
        /\ i < Len(s) => s[i + 1].result < r

UpTo(s, n) == SubSeq(s, 1, IF Len(s) < n THEN Len(s) ELSE n)

\* Mutant: the list is cut before it is sorted.
Inserted_CutFirst(s, t) ==
    IF Len(s) = MaxSize THEN s
    ELSE SubSeq(s, 1, Better(s, t.result)) \o <<t>>
            \o SubSeq(s, Better(s, t.result) + 1, Len(s))

\* _apply: append, sort by falling result (a stable sort of a list that is
\* sorted but for its last element), keep the first MaxSize.
Inserted(s, t) ==
    UpTo(SubSeq(s, 1, Better(s, t.result)) \o <<t>>
            \o SubSeq(s, Better(s, t.result) + 1, Len(s)), MaxSize)

LedgerInit == ledger = << >>

Record == \E t \in Trajectory : ledger' = Inserted(ledger, t)

Clear == ledger' = << >>

LedgerSpec == LedgerInit /\ [][Record \/ Clear]_ledger
=============================================================================

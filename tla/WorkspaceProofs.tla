--------------------------- MODULE WorkspaceProofs ---------------------------
(***************************************************************************)
(* What processes change in a workspace they share.  First: ReplayBuffer   *)
(* implements ReplayLedger, for every set of processes, every bound and    *)
(* every combination of faults; and without faults no trajectory is        *)
(* dropped but for better ones.                                            *)
(*                                                                         *)
(* Then: the registry of ContextIngest is exact for every set of sources,  *)
(* trees, names, texts and processes, and for every bound.  Needed for     *)
(* that is what each ingestion still knows: that the files it has not read *)
(* are still ahead of it, and that a blueprint nobody harmed only grows,   *)
(* so one that looks as it did when it was read has not changed.           *)
(*                                                                         *)
(* And: what ingest_all reports of the files of [context] is true, and the *)
(* rules of repair do no harm.                                             *)
(*                                                                         *)
(* Last: self-hosting builds (StagedBuild) keep the live tree consistent   *)
(* and their guard tells the truth, for every number of builds, targets,   *)
(* cycles and edits, and whatever may fail or die.  The strengthening is   *)
(* about the stage of a build under way: what was copied lies between the  *)
(* output and the source of the live tree, what was compiled was compiled  *)
(* from what was copied, and what is promoted was found valid.             *)
(***************************************************************************)
EXTENDS ReplayBuffer, ContextIngest, StagedBuild, LeastElements, SequenceTheorems, TLAPS

\* A process that is in its cycle holds the lock, what it parsed is still what
\* the file holds until it truncates it, and the truncated file parses as empty.
CycleInv ==
    /\ DOMAIN pc = Procs /\ DOMAIN base = Procs
    /\ job \in [Procs -> Trajectory \cup {None}]
    /\ issued \in Nat
    /\ \A p \in Procs : pc[p] \in {"locked", "truncated"} <=> lock = p
    /\ \A p \in Procs : pc[p] = "locked" => base[p] = Parsed(file)
    /\ lock = None \/ lock \in Procs
    /\ file.kind \in {"absent", "empty", "torn"} => Parsed(file) = << >>
    /\ (\E p \in Procs : pc[p] = "truncated") => Parsed(file) = << >>
    /\ \A p \in Procs : pc[p] = "created" => file.kind # "absent"

\* A new file, or an existing one that nobody has locked, satisfies it.
LEMMA CycleInit == BufferInit => CycleInv
BY BufferAssumption
   DEF BufferInit, CycleInv, Parsed, Array, Absent

\* Every system call of the protocol and every fault preserves it.
LEMMA CycleStep == CycleInv /\ [BufferNext]_vars => CycleInv'
<1> SUFFICES ASSUME CycleInv, [BufferNext]_vars PROVE CycleInv'
  OBVIOUS
<1> USE BufferAssumption DEF CycleInv, Parsed
<1>1. ASSUME NEW p \in Procs, StartRecord(p) PROVE CycleInv'
  <2>1. issued \in 0..(MaxRecords - 1)
    BY <1>1 DEF StartRecord
  <2>2. PICK r \in Results : job' = [job EXCEPT ![p] = [result |-> r, nr |-> issued]]
    BY <1>1 DEF StartRecord
  <2>3. job' \in [Procs -> Trajectory \cup {None}]
    BY <2>1, <2>2 DEF Trajectory
  <2>4. CASE file.kind = "absent"
    BY <1>1, <2>3, <2>4 DEF StartRecord, EnsureFile, Empty
  <2>5. CASE file.kind # "absent"
    BY <1>1, <2>3, <2>5 DEF StartRecord, EnsureFile
  <2> QED BY <2>4, <2>5
<1>2. ASSUME NEW p \in Procs, StartClear(p) PROVE CycleInv'
  <2>1. CASE file.kind = "absent"
    BY <1>2, <2>1 DEF StartClear, EnsureFile, Empty
  <2>2. CASE file.kind # "absent"
    BY <1>2, <2>2 DEF StartClear, EnsureFile
  <2> QED BY <2>1, <2>2
<1>3. ASSUME NEW p \in Procs, Seed(p) PROVE CycleInv'
  BY <1>3 DEF Seed, Seeded, Torn, Array
<1>4. ASSUME NEW p \in Procs, LockAndRead(p) PROVE CycleInv'
  BY <1>4 DEF LockAndRead
<1>5. ASSUME NEW p \in Procs, Truncate(p) PROVE CycleInv'
  BY <1>5 DEF Truncate, Empty
<1>6. ASSUME NEW p \in Procs, WriteAndUnlock(p) PROVE CycleInv'
  BY <1>6 DEF WriteAndUnlock, Array
<1>7. ASSUME NEW p \in Procs, WriteFails(p) PROVE CycleInv'
  BY <1>7 DEF WriteFails, Torn
<1>8. ASSUME NEW p \in Procs, Crash(p) PROVE CycleInv'
  BY <1>8 DEF Crash
<1>9. CASE UNCHANGED vars
  BY <1>9 DEF vars
<1> QED
  BY <1>1, <1>2, <1>3, <1>4, <1>5, <1>6, <1>7, <1>8, <1>9 DEF BufferNext

\* Each step is a Record, a Clear or a stutter of the shared list.
LEMMA StepImplements ==
    CycleInv /\ [BufferNext]_vars => [Shared!Record \/ Shared!Clear]_Committed
<1> SUFFICES ASSUME CycleInv, [BufferNext]_vars
             PROVE  Shared!Record \/ Shared!Clear \/ Committed' = Committed
  OBVIOUS
<1> USE BufferAssumption DEF CycleInv, Parsed, Committed
<1>1. ASSUME NEW p \in Procs, StartRecord(p) PROVE Committed' = Committed
  BY <1>1 DEF StartRecord, EnsureFile, Empty
<1>2. ASSUME NEW p \in Procs, StartClear(p) PROVE Committed' = Committed
  BY <1>2 DEF StartClear, EnsureFile, Empty
<1>3. ASSUME NEW p \in Procs, Seed(p) PROVE Shared!Clear
  BY <1>3 DEF Seed, Seeded, Torn, Array, Shared!Clear
<1>4. ASSUME NEW p \in Procs, LockAndRead(p) PROVE Committed' = Committed
  BY <1>4 DEF LockAndRead
<1>5. ASSUME NEW p \in Procs, Truncate(p) PROVE Committed' = Committed
  BY <1>5 DEF Truncate
<1>6. ASSUME NEW p \in Procs, WriteAndUnlock(p) PROVE Shared!Record \/ Shared!Clear
  <2>1. Committed = base[p] /\ Committed' = Mutated(p)
    BY <1>6 DEF WriteAndUnlock, Array
  <2>2. CASE job[p] = None
    BY <2>1, <2>2 DEF Mutated, Shared!Clear
  <2>3. CASE job[p] # None
    <3>1. job[p] \in Shared!Trajectory
      BY <2>3 DEF Trajectory, Shared!Trajectory
    <3>2. Committed' = Shared!Inserted(Committed, job[p])
      BY <2>1, <2>3 DEF Mutated
    <3> QED BY <3>1, <3>2 DEF Shared!Record
  <2> QED BY <2>2, <2>3
<1>7. ASSUME NEW p \in Procs, WriteFails(p) PROVE Shared!Clear
  BY <1>7 DEF WriteFails, Torn, Shared!Clear
<1>8. ASSUME NEW p \in Procs, Crash(p) PROVE Shared!Clear \/ Committed' = Committed
  BY <1>8 DEF Crash, Shared!Clear
<1>9. CASE UNCHANGED vars
  BY <1>9 DEF vars
<1> QED
  BY <1>1, <1>2, <1>3, <1>4, <1>5, <1>6, <1>7, <1>8, <1>9 DEF BufferNext

\* Record and clear are atomic on one shared list, whatever system calls of
\* other processes, kills and failing writes fall between their own.
THEOREM ImplementsOneLedger == BufferSpec => IsOneLedger
<1>1. BufferInit => Shared!LedgerInit
  BY DEF BufferInit, Shared!LedgerInit, Committed, Parsed, Array, Absent
<1> QED
  BY <1>1, CycleInit, CycleStep, StepImplements, PTL
     DEF BufferSpec, IsOneLedger, Shared!LedgerSpec

-----------------------------------------------------------------------------
\* The list is sorted by falling result and no longer than max_size.
Sorted(s) == \A i, j \in DOMAIN s : i <= j => s[i].result >= s[j].result

IsLedger(s) == s \in Seq(Trajectory) /\ Len(s) <= MaxSize /\ Sorted(s)

\* t is on the list, or beaten by a full list.
KeptOrBeaten(t, s) ==
    \/ \E i \in DOMAIN s : s[i] = t
    \/ Len(s) = MaxSize /\ \A i \in DOMAIN s : s[i].result >= t.result

\* In a sorted list the results that are at least r are at the head.
LEMMA BetterIsAPlace ==
    ASSUME NEW s, IsLedger(s), NEW r \in Nat
    PROVE  /\ Shared!Better(s, r) \in 0..Len(s)
           /\ \A j \in 1..Shared!Better(s, r) : s[j].result >= r
           /\ \A j \in DOMAIN s : j > Shared!Better(s, r) => s[j].result < r
<1>1. s \in Seq(Trajectory) /\ Len(s) \in Nat /\ DOMAIN s = 1..Len(s)
  BY DEF IsLedger
<1>2. \A i \in DOMAIN s : s[i].result \in Nat
  <2>1. \A x \in Trajectory : x.result \in Nat
    BY BufferAssumption DEF Trajectory
  <2>2. \A i \in DOMAIN s : s[i] \in Trajectory
    BY <1>1
  <2> QED BY <2>1, <2>2
<1> DEFINE Ends == {i \in 0..Len(s) : i < Len(s) => s[i + 1].result < r}
<1>3. PICK i \in Ends : \A j \in Ends : i <= j
  <2>1. Ends \in SUBSET Nat /\ Len(s) \in Ends
    BY <1>1
  <2> HIDE DEF Ends
  <2> QED BY <2>1, LeastNatural
<1>4. \A j \in 1..i : s[j].result >= r
  <2> TAKE j \in 1..i
  <2>1. j - 1 \notin Ends
    <3>1. i \in Nat /\ ~(i <= j - 1)
      BY <1>1
    <3> HIDE DEF Ends
    <3> QED BY <1>3, <3>1
  <2>2. j \in DOMAIN s /\ j - 1 \in 0..Len(s) /\ (j - 1) + 1 = j
    BY <1>1
  <2>3. ~(s[j].result < r)
    BY <2>1, <2>2
  <2> QED BY <1>2, <2>2, <2>3
<1> DEFINE b == Shared!Better(s, r)
<1>5. b \in 0..Len(s) /\ (\A j \in 1..b : s[j].result >= r) /\ (b < Len(s) => s[b + 1].result < r)
  BY <1>3, <1>4 DEF Shared!Better
<1> HIDE DEF b
<1>6. ASSUME NEW j \in DOMAIN s, j > b PROVE s[j].result < r
  <2>1. b + 1 \in DOMAIN s /\ b + 1 <= j /\ b < Len(s)
    BY <1>1, <1>5, <1>6
  <2>2. s[b + 1].result >= s[j].result
    BY <2>1 DEF IsLedger, Sorted
  <2> QED BY <1>2, <1>5, <1>6, <2>1, <2>2
<1> QED BY <1>5, <1>6 DEF b

\* _apply: the new trajectory has a place before all results that it beats, and
\* what is cut off is beaten by all that stays.
LEMMA InsertedIsLedger ==
    ASSUME NEW s, IsLedger(s), NEW t \in Trajectory
    PROVE  /\ IsLedger(Shared!Inserted(s, t))
           /\ KeptOrBeaten(t, Shared!Inserted(s, t))
           /\ \A x \in Trajectory :
                KeptOrBeaten(x, s) => KeptOrBeaten(x, Shared!Inserted(s, t))
<1>1. s \in Seq(Trajectory) /\ Len(s) \in Nat /\ DOMAIN s = 1..Len(s) /\ Len(s) <= MaxSize
  BY DEF IsLedger
<1>2. MaxSize \in Nat /\ MaxSize > 0
  BY BufferAssumption
<1>3. t.result \in Nat /\ \A x \in Trajectory : x.result \in Nat
  BY BufferAssumption DEF Trajectory
<1> DEFINE b == Shared!Better(s, t.result)
           head == SubSeq(s, 1, b)
           rest == SubSeq(s, b + 1, Len(s))
           full == head \o <<t>> \o rest
           n == IF Len(full) < MaxSize THEN Len(full) ELSE MaxSize
           new == Shared!Inserted(s, t)
<1>4. /\ b \in 0..Len(s)
      /\ \A j \in 1..b : s[j].result >= t.result
      /\ \A j \in DOMAIN s : j > b => s[j].result < t.result
  BY <1>3, BetterIsAPlace
<1> HIDE DEF b
<1>5. /\ head \in Seq(Trajectory) /\ Len(head) = b /\ \A i \in 1..b : head[i] = s[i]
      /\ rest \in Seq(Trajectory) /\ Len(rest) = Len(s) - b
      /\ \A i \in 1..(Len(s) - b) : rest[i] = s[b + i]
  <2>1. (\A i \in 1..b : s[i] \in Trajectory) /\ (\A i \in (b + 1)..Len(s) : s[i] \in Trajectory)
    BY <1>1, <1>4
  <2>2. b \in Int /\ b + 1 \in Int /\ Len(s) \in Int
    BY <1>1, <1>4
  <2>3. /\ head \in Seq(Trajectory) /\ Len(head) = IF 1 <= b THEN b - 1 + 1 ELSE 0
        /\ \A i \in 1..(b - 1 + 1) : head[i] = s[1 + i - 1]
    BY <2>1, <2>2, SubSeqProperties
  <2>4. /\ rest \in Seq(Trajectory)
        /\ Len(rest) = IF b + 1 <= Len(s) THEN Len(s) - (b + 1) + 1 ELSE 0
        /\ \A i \in 1..(Len(s) - (b + 1) + 1) : rest[i] = s[(b + 1) + i - 1]
    BY <2>1, <2>2, SubSeqProperties
  <2> HIDE DEF head, rest
  <2>5. Len(head) = b /\ \A i \in 1..b : head[i] = s[i]
    <3>1. \A i \in 1..b : 1 + i - 1 = i
      BY <1>4
    <3>2. b - 1 + 1 = b /\ (b < 1 => b = 0)
      BY <1>4
    <3>3. Len(head) = b
      BY <1>4, <2>3, <3>2
    <3>4. \A i \in 1..b : head[i] = s[i]
      BY <1>4, <2>3, <3>1, <3>2
    <3> QED BY <3>3, <3>4
  <2>6. Len(rest) = Len(s) - b /\ \A i \in 1..(Len(s) - b) : rest[i] = s[b + i]
    <3>1. \A i \in 1..(Len(s) - b) : (b + 1) + i - 1 = b + i
      BY <1>4
    <3> DEFINE l == Len(s)
    <3>2. l \in Nat /\ b \in 0..l
      BY <1>1, <1>4
    <3> HIDE DEF l
    <3>3. l - (b + 1) + 1 = l - b /\ (~(b + 1 <= l) => l - b = 0)
      BY <3>2
    <3> QED BY <2>4, <3>1, <3>2, <3>3 DEF l
  <2> QED BY <2>3, <2>4, <2>5, <2>6
<1> HIDE DEF head, rest
<1>6. /\ full \in Seq(Trajectory) /\ Len(full) = Len(s) + 1
      /\ \A i \in 1..b : full[i] = s[i]
      /\ full[b + 1] = t
      /\ \A i \in (b + 2)..(Len(s) + 1) : full[i] = s[i - 1]
  <2> DEFINE front == head \o <<t>>
  <2>1. <<t>> \in Seq(Trajectory) /\ Len(<<t>>) = 1 /\ <<t>>[1] = t
    OBVIOUS
  <2>2. /\ front \in Seq(Trajectory) /\ Len(front) = b + 1
        /\ \A i \in 1..(b + 1) : front[i] = IF i <= b THEN head[i] ELSE <<t>>[i - b]
    BY <1>5, <2>1, ConcatProperties
  <2>3. (\A i \in 1..b : front[i] = s[i]) /\ front[b + 1] = t
    BY <1>4, <1>5, <2>1, <2>2
  <2> HIDE DEF front
  <2>4. /\ front \o rest \in Seq(Trajectory) /\ Len(front \o rest) = Len(s) + 1
        /\ \A i \in 1..(Len(s) + 1) :
             (front \o rest)[i] = IF i <= b + 1 THEN front[i] ELSE rest[i - (b + 1)]
    <3>1. /\ front \o rest \in Seq(Trajectory) /\ Len(front \o rest) = Len(front) + Len(rest)
          /\ \A i \in 1..(Len(front) + Len(rest)) :
               (front \o rest)[i] = IF i <= Len(front) THEN front[i] ELSE rest[i - Len(front)]
      <4>1. front \in Seq(Trajectory) /\ rest \in Seq(Trajectory)
        BY <1>5, <2>2
      <4> QED BY <4>1, ConcatProperties
    <3>2. Len(front) + Len(rest) = Len(s) + 1 /\ Len(front) = b + 1
      BY <1>1, <1>4, <1>5, <2>2
    <3> QED BY <3>1, <3>2
  <2>5. \A i \in (b + 2)..(Len(s) + 1) : (front \o rest)[i] = s[i - 1]
    <3> TAKE i \in (b + 2)..(Len(s) + 1)
    <3>1. i - (b + 1) \in 1..(Len(s) - b) /\ b + (i - (b + 1)) = i - 1
      BY <1>1, <1>4
    <3> QED BY <1>1, <1>4, <1>5, <2>4, <3>1
  <2>6. full = front \o rest
    BY DEF front
  <2>7. \A i \in 1..(b + 1) : (front \o rest)[i] = front[i]
    BY <1>1, <1>4, <2>4
  <2>8. b + 1 \in 1..(b + 1) /\ \A i \in 1..b : i \in 1..(b + 1)
    BY <1>4
  <2> QED BY <2>3, <2>4, <2>5, <2>6, <2>7, <2>8
<1> HIDE DEF full
<1>7. /\ n \in Nat /\ n <= MaxSize /\ n <= Len(s) + 1 /\ n > 0
      /\ n < Len(s) + 1 => n = MaxSize /\ n = Len(s)
  <2>1. n = IF Len(s) + 1 < MaxSize THEN Len(s) + 1 ELSE MaxSize
    BY <1>6
  <2> DEFINE l == Len(s)
  <2>2. l \in Nat /\ l <= MaxSize
    BY <1>1
  <2> HIDE DEF n, l
  <2>3. n = IF l + 1 < MaxSize THEN l + 1 ELSE MaxSize
    BY <2>1 DEF l
  <2>4. /\ n \in Nat /\ n <= MaxSize /\ n <= l + 1 /\ n > 0
        /\ n < l + 1 => n = MaxSize /\ n = l
    BY <1>2, <2>2, <2>3
  <2> QED BY <2>4 DEF l
<1>8. /\ new \in Seq(Trajectory) /\ Len(new) = n /\ DOMAIN new = 1..n
      /\ \A i \in 1..n : new[i] = full[i]
  <2>1. new = SubSeq(full, 1, n)
    BY DEF Shared!Inserted, Shared!UpTo, b, full, head, rest
  <2>2. \A i \in 1..n : full[i] \in Trajectory
    BY <1>6, <1>7
  <2>3. /\ SubSeq(full, 1, n) \in Seq(Trajectory)
        /\ Len(SubSeq(full, 1, n)) = IF 1 <= n THEN n - 1 + 1 ELSE 0
        /\ \A i \in 1..(n - 1 + 1) : SubSeq(full, 1, n)[i] = full[1 + i - 1]
    BY <1>7, <2>2, SubSeqProperties
  <2> HIDE DEF n, new
  <2> QED BY <1>7, <2>1, <2>3
<1> HIDE DEF n, new
<1>9. \A i, j \in 1..(Len(s) + 1) : i <= j => full[i].result >= full[j].result
  <2> TAKE i, j \in 1..(Len(s) + 1)
  <2> HAVE i <= j
  <2>1. \A k, l \in 1..Len(s) : k <= l => s[k].result >= s[l].result
    BY <1>1 DEF IsLedger, Sorted
  <2>2. \A k \in 1..Len(s) : s[k].result \in Nat
    BY <1>1, <1>3
  <2>3. CASE j <= b
    BY <1>1, <1>4, <1>6, <2>1, <2>3
  <2>4. CASE j = b + 1
    BY <1>1, <1>3, <1>4, <1>6, <2>4
  <2>5. CASE j > b + 1
    <3>1. full[j] = s[j - 1] /\ j - 1 \in 1..Len(s) /\ j - 1 > b
      BY <1>1, <1>4, <1>6, <2>5
    <3>2. CASE i <= b
      BY <1>1, <1>4, <1>6, <2>1, <2>5, <3>1, <3>2
    <3>3. CASE i = b + 1
      <4>1. s[j - 1].result < t.result /\ s[j - 1].result \in Nat /\ full[i] = t
        BY <1>1, <1>4, <1>6, <2>2, <3>1, <3>3
      <4> QED BY <1>3, <3>1, <4>1
    <3>4. CASE i > b + 1
      <4>1. full[i] = s[i - 1] /\ i - 1 \in 1..Len(s) /\ i - 1 <= j - 1
        BY <1>1, <1>4, <1>6, <3>4
      <4> QED BY <2>1, <3>1, <4>1
    <3> QED BY <1>4, <3>2, <3>3, <3>4
  <2> QED BY <1>4, <2>3, <2>4, <2>5
<1>10. IsLedger(new)
  <2>1. Sorted(new)
    BY <1>7, <1>8, <1>9 DEF Sorted
  <2> QED BY <1>7, <1>8, <2>1 DEF IsLedger
<1>11. ASSUME NEW i \in 1..(Len(s) + 1)
       PROVE  KeptOrBeaten(full[i], new)
  <2>1. CASE i <= n
    BY <1>7, <1>8, <2>1 DEF KeptOrBeaten
  <2>2. CASE i > n
    <3>1. n = MaxSize /\ n + 1 = i
      BY <1>7, <2>2
    <3>2. \A j \in 1..n : full[j].result >= full[i].result
      BY <1>7, <1>9, <3>1
    <3> QED BY <1>8, <3>1, <3>2 DEF KeptOrBeaten
  <2> QED BY <1>7, <2>1, <2>2
<1>12. KeptOrBeaten(t, new)
  BY <1>1, <1>4, <1>6, <1>11
<1>13. ASSUME NEW x \in Trajectory, KeptOrBeaten(x, s)
       PROVE  KeptOrBeaten(x, new)
  <2>1. CASE \E i \in DOMAIN s : s[i] = x
    <3>1. PICK i \in 1..Len(s) : s[i] = x
      BY <1>1, <2>1
    <3>2. CASE i <= b
      BY <1>1, <1>6, <1>11, <3>1, <3>2
    <3>3. CASE i > b
      <4>1. i + 1 \in (b + 2)..(Len(s) + 1) /\ i + 1 \in 1..(Len(s) + 1)
        BY <1>1, <1>4, <3>3
      <4>2. full[i + 1] = x
        BY <1>1, <1>6, <3>1, <4>1
      <4> QED BY <1>11, <4>1, <4>2
    <3> QED BY <1>4, <3>2, <3>3
  <2>2. CASE Len(s) = MaxSize /\ \A i \in DOMAIN s : s[i].result >= x.result
    <3>1. n = MaxSize /\ n = Len(s)
      BY <1>1, <1>2, <1>6, <1>7, <2>2 DEF n
    <3>2. \A i \in 1..n : full[i].result >= x.result
      <4> TAKE i \in 1..n
      <4>1. CASE i <= b
        BY <1>1, <1>6, <2>2, <3>1, <4>1
      <4>2. CASE i = b + 1
        <5>1. t.result > s[i].result /\ s[i].result >= x.result
          BY <1>1, <1>4, <2>2, <3>1, <4>2
        <5> QED BY <1>1, <1>3, <1>6, <3>1, <4>2, <5>1
      <4>3. CASE i > b + 1
        <5>1. full[i] = s[i - 1] /\ i - 1 \in 1..Len(s)
          BY <1>1, <1>4, <1>6, <3>1, <4>3
        <5> QED BY <1>1, <2>2, <5>1
      <4> QED BY <1>4, <4>1, <4>2, <4>3
    <3> QED BY <1>8, <3>1, <3>2 DEF KeptOrBeaten
  <2> QED BY <1>13, <2>1, <2>2 DEF KeptOrBeaten
<1> QED BY <1>10, <1>12, <1>13 DEF new

\* Where nothing unforeseen happens the file is there from the start, what it
\* is read as is a ledger, and nothing acknowledged is missing from it.
KeptInv ==
    may = {} =>
        /\ file.kind # "absent" /\ \A p \in Procs : pc[p] # "created"
        /\ IsLedger(Committed)
        /\ acked \subseteq Trajectory
        /\ \A t \in acked : KeptOrBeaten(t, Committed)

LEMMA EmptyIsLedger == IsLedger(<< >>)
<1>1. << >> \in Seq(Trajectory) /\ Len(<< >>) = 0 /\ DOMAIN << >> = {}
  OBVIOUS
<1>2. MaxSize >= 0
  BY BufferAssumption
<1> QED BY <1>1, <1>2 DEF IsLedger, Sorted

LEMMA KeptInit == BufferInit => KeptInv
<1> SUFFICES ASSUME BufferInit, may = {} PROVE KeptInv
  BY DEF KeptInv
<1>1. file = Array(<< >>) /\ lock = None /\ acked = {} /\ \A p \in Procs : pc[p] = "idle"
  BY DEF BufferInit
<1>2. Committed = << >> /\ file.kind = "array"
  BY <1>1 DEF Committed, Parsed, Array
<1> QED BY <1>1, <1>2, EmptyIsLedger DEF KeptInv

\* A step that leaves the list and what was acknowledged alone.
LEMMA KeptSame ==
    ASSUME KeptInv, may' = may, Committed' = Committed, acked' = acked,
           file.kind # "absent" => file'.kind # "absent",
           may = {} => \A p \in Procs : pc[p]' # "created"
    PROVE  KeptInv'
BY DEF KeptInv

\* A cycle that comes to its end has one trajectory more on the list, and the
\* others where they are or beaten.
LEMMA KeptWrite ==
    ASSUME CycleInv, KeptInv, NEW p \in Procs, WriteAndUnlock(p)
    PROVE  KeptInv'
<1> SUFFICES ASSUME may = {} PROVE KeptInv'
  BY DEF KeptInv, WriteAndUnlock
<1>1. Committed = base[p] /\ Committed' = Mutated(p) /\ file'.kind = "array"
  BY BufferAssumption DEF CycleInv, WriteAndUnlock, Committed, Parsed, Array
<1>2. /\ IsLedger(Committed) /\ acked \subseteq Trajectory
      /\ \A t \in acked : KeptOrBeaten(t, Committed)
      /\ \A q \in Procs : pc[q] # "created"
  BY DEF KeptInv
<1>3. \A q \in Procs : pc'[q] # "created"
  BY <1>2 DEF WriteAndUnlock, CycleInv
<1>4. CASE job[p] = None
  <2>1. Committed' = << >> /\ acked' = {}
    BY <1>1, <1>4 DEF Mutated, WriteAndUnlock
  <2> QED BY <1>1, <1>3, <2>1, EmptyIsLedger DEF KeptInv
<1>5. CASE job[p] # None
  <2>1. job[p] \in Trajectory
    BY <1>5 DEF CycleInv
  <2>2. Committed' = Shared!Inserted(Committed, job[p]) /\ acked' = acked \cup {job[p]}
    BY <1>1, <1>5 DEF Mutated, WriteAndUnlock
  <2>3. /\ IsLedger(Committed') /\ KeptOrBeaten(job[p], Committed')
        /\ \A t \in acked : KeptOrBeaten(t, Committed')
    BY <1>2, <2>1, <2>2, InsertedIsLedger
  <2> HIDE DEF IsLedger, KeptOrBeaten
  <2>4. acked' \subseteq Trajectory /\ \A t \in acked' : KeptOrBeaten(t, Committed')
    BY <1>2, <2>1, <2>2, <2>3
  <2>5. IsLedger(Committed)' /\ \A t \in acked' : KeptOrBeaten(t, Committed)'
    BY <2>3, <2>4 DEF IsLedger, KeptOrBeaten, Sorted
  <2> QED BY <1>1, <1>3, <2>4, <2>5 DEF KeptInv
<1> QED BY <1>4, <1>5

LEMMA KeptStep == CycleInv /\ KeptInv /\ [BufferNext]_vars => KeptInv'
<1> SUFFICES ASSUME CycleInv, KeptInv, [BufferNext]_vars PROVE KeptInv'
  OBVIOUS
<1> USE BufferAssumption DEF CycleInv, Parsed
<1>0. may = {} => file.kind # "absent" /\ \A p \in Procs : pc[p] # "created"
  BY DEF KeptInv
<1>1. ASSUME NEW p \in Procs, StartRecord(p) PROVE KeptInv'
  <2>1. Committed' = Committed
    BY <1>1 DEF StartRecord, EnsureFile, Empty, Committed
  <2>2. /\ file.kind # "absent" => file' = file
        /\ may = {} => \A q \in Procs : pc[q]' # "created"
    BY <1>0, <1>1 DEF StartRecord, EnsureFile
  <2>3. may' = may /\ acked' = acked
    BY <1>1 DEF StartRecord
  <2> QED BY <2>1, <2>2, <2>3, KeptSame
<1>2. ASSUME NEW p \in Procs, StartClear(p) PROVE KeptInv'
  <2>1. Committed' = Committed
    BY <1>2 DEF StartClear, EnsureFile, Empty, Committed
  <2>2. /\ file.kind # "absent" => file' = file
        /\ may = {} => \A q \in Procs : pc[q]' # "created"
    BY <1>0, <1>2 DEF StartClear, EnsureFile
  <2>3. may' = may /\ acked' = acked
    BY <1>2 DEF StartClear
  <2> QED BY <2>1, <2>2, <2>3, KeptSame
<1>3. ASSUME NEW p \in Procs, Seed(p) PROVE KeptInv'
  BY <1>0, <1>3 DEF Seed, KeptInv
<1>4. ASSUME NEW p \in Procs, LockAndRead(p) PROVE KeptInv'
  <2>1. Committed' = Committed
    BY <1>4 DEF LockAndRead, Committed
  <2>2. may' = may /\ acked' = acked /\ file' = file
    BY <1>4 DEF LockAndRead
  <2>3. may = {} => \A q \in Procs : pc[q]' # "created"
    BY <1>0, <1>4 DEF LockAndRead
  <2> QED BY <2>1, <2>2, <2>3, KeptSame
<1>5. ASSUME NEW p \in Procs, Truncate(p) PROVE KeptInv'
  <2>1. Committed' = Committed
    BY <1>5 DEF Truncate, Committed
  <2>2. may' = may /\ acked' = acked /\ file'.kind = "empty"
    BY <1>5 DEF Truncate, Empty
  <2>3. may = {} => \A q \in Procs : pc[q]' # "created"
    BY <1>0, <1>5 DEF Truncate
  <2> QED BY <2>1, <2>2, <2>3, KeptSame
<1>6. ASSUME NEW p \in Procs, WriteAndUnlock(p) PROVE KeptInv'
  BY <1>6, KeptWrite
<1>7. ASSUME NEW p \in Procs, WriteFails(p) PROVE KeptInv'
  BY <1>7 DEF WriteFails, KeptInv
<1>8. ASSUME NEW p \in Procs, Crash(p) PROVE KeptInv'
  BY <1>8 DEF Crash, KeptInv
<1>9. CASE UNCHANGED vars
  BY <1>9 DEF vars, KeptInv, Committed, IsLedger, KeptOrBeaten, Sorted
<1> QED
  BY <1>1, <1>2, <1>3, <1>4, <1>5, <1>6, <1>7, <1>8, <1>9 DEF BufferNext

\* "only the top max_size highest-performing trajectories survive": however the
\* cycles of the processes interleave, what record_trajectory acknowledged is on
\* the list, or the list is full of results at least as good.
THEOREM TopTrajectoriesSurvive == BufferSpec => []OnlyBeatenAreDropped
<1>1. KeptInv => OnlyBeatenAreDropped
  BY DEF KeptInv, KeptOrBeaten, OnlyBeatenAreDropped
<1> QED
  BY <1>1, CycleInit, CycleStep, KeptInit, KeptStep, PTL DEF BufferSpec

------------------------------------------------------------------------------

IsBlueprint(b) ==
    /\ b = [tables |-> b.tables, toml |-> b.toml]
    /\ b.tables \in Seq(DOMAIN Trees)
IsJob(j) ==
    /\ j = [phase |-> j.phase, tree |-> j.tree, left |-> j.left, text |-> j.text,
            stored |-> j.stored, seen |-> j.seen, alone |-> j.alone]
    /\ j.left \in Seq(Sources)
    /\ j.phase = "store" => j.left # << >>
    /\ j.phase # "idle" => j.tree \in DOMAIN Trees
    /\ j.phase \in {"look", "write"} => j.stored # {} /\ IsBlueprint(j.seen)

JobsAreJobs ==
    /\ task = [p \in Ingestors |-> task[p]]
    /\ IsBlueprint(blueprint)
    /\ \A p \in Ingestors : IsJob(task[p])

HasRow(c) == \E f \in Sources : <<c, f>> \in DOMAIN rows
JobHasRows(j) ==
    /\ j.phase # "idle" /\ j.stored # {} => HasRow(j.tree)
    /\ j.phase \in {"look", "write"} => \A c \in Names(j.seen) : HasRow(c)
TablesHaveRows ==
    /\ \A c \in Names(blueprint) : HasRow(c)
    /\ \A p \in Ingestors : JobHasRows(task[p])

AllBare(b) == \A c \in Names(b) : NameKind[c] = "bare"
JobIsBehind(j) ==
    /\ j.phase \in {"look", "write"} => Len(j.seen.tables) =< Len(blueprint.tables)
    /\ /\ j.phase = "write" /\ j.seen = blueprint
       /\ AllBare(blueprint) /\ NameKind[j.tree] = "bare"
       => j.tree \notin Names(blueprint)
GrowsUnharmed ==
    ~harmed =>
        /\ blueprint.toml
        /\ AllBare(blueprint) => Readable(blueprint)
        /\ \A p \in Ingestors : JobIsBehind(task[p])

Settled(c, f) ==
    source[f].kind # "binary" => <<c, f>> \in DOMAIN rows /\ rows[<<c, f>>] = source[f]
JobKnows(j) ==
    /\ j.phase # "idle"
    /\ \A f \in FilesOf(Trees[j.tree]) : f \in FilesOf(j.left) \/ Settled(j.tree, f)
    /\ j.phase = "store" => j.text = source[Head(j.left)]
    /\ j.phase \in {"look", "write"} => j.seen = blueprint
    /\ j.phase \in {"look", "write", "done"} => j.left = << >>
    /\ j.phase = "done" /\ j.stored # {} /\ Readable(blueprint) /\ NameKind[j.tree] = "bare"
           => Registers(blueprint, j.tree)
AloneInv ==
    \A p \in Ingestors :
        task[p].alone => JobKnows(task[p]) /\ \A q \in Ingestors \ {p} : ~Busy(q)

RegistryInv == JobsAreJobs /\ TablesHaveRows /\ GrowsUnharmed /\ AloneInv

-----------------------------------------------------------------------------
\* Reading a file takes it off what is ahead.
LEMMA HeadOrTail ==
    ASSUME NEW s \in Seq(Sources), s # << >>
    PROVE  /\ Tail(s) \in Seq(Sources) /\ Head(s) \in Sources
           /\ \A f \in FilesOf(s) : f = Head(s) \/ f \in FilesOf(Tail(s))
<1>1. Tail(s) \in Seq(Sources) /\ Head(s) \in Sources
  OBVIOUS
<1>2. ASSUME NEW f \in FilesOf(s), f # Head(s) PROVE f \in FilesOf(Tail(s))
  <2>1. PICK i \in DOMAIN s : f = s[i]
    BY DEF FilesOf
  <2>2. i \in 1..Len(s) /\ i # 1 /\ Len(Tail(s)) = Len(s) - 1
    BY <1>2, <2>1
  <2>3. i - 1 \in DOMAIN Tail(s) /\ Tail(s)[i - 1] = f
    BY <2>1, <2>2
  <2> QED BY <2>3 DEF FilesOf
<1> QED BY <1>1, <1>2

\* One more table is one more name, and the blueprint is longer by it.
LEMMA OneMoreTable ==
    ASSUME NEW b, IsBlueprint(b), NEW c \in DOMAIN Trees, NEW d,
           d = [b EXCEPT !.tables = Append(@, c)]
    PROVE  /\ IsBlueprint(d) /\ d.toml = b.toml
           /\ Names(d) = Names(b) \cup {c} /\ Len(d.tables) = Len(b.tables) + 1
           /\ Readable(b) /\ NameKind[c] = "bare" /\ c \notin Names(b) => Readable(d)
<1>1. IsBlueprint(d) /\ d.toml = b.toml /\ d.tables = Append(b.tables, c)
  <2>1. b.tables \in Seq(DOMAIN Trees) /\ b = [tables |-> b.tables, toml |-> b.toml]
    BY DEF IsBlueprint
  <2>2. d = [tables |-> Append(b.tables, c), toml |-> b.toml]
    BY <2>1
  <2>3. Append(b.tables, c) \in Seq(DOMAIN Trees)
    BY <2>1
  <2> QED BY <2>2, <2>3 DEF IsBlueprint
<1>2. /\ Len(d.tables) = Len(b.tables) + 1
      /\ DOMAIN d.tables = 1..(Len(b.tables) + 1) /\ DOMAIN b.tables = 1..Len(b.tables)
      /\ Len(b.tables) \in Nat
      /\ d.tables[Len(b.tables) + 1] = c
      /\ \A i \in 1..Len(b.tables) : d.tables[i] = b.tables[i]
  BY <1>1 DEF IsBlueprint
<1>3. Names(d) = Names(b) \cup {c}
  BY <1>2 DEF Names
<1>4. ASSUME Readable(b), NameKind[c] = "bare", c \notin Names(b) PROVE Readable(d)
  <2>1. \A i \in 1..Len(b.tables) : NameKind[d.tables[i]] # "blank" /\ d.tables[i] # c
    BY <1>2, <1>4 DEF Readable, Names
  <2>2. \A i, k \in 1..Len(b.tables) : i # k => d.tables[i] # d.tables[k]
    BY <1>2, <1>4 DEF Readable
  <2>3. \A i \in DOMAIN d.tables : i \in 1..Len(b.tables) \/ i = Len(b.tables) + 1
    BY <1>2
  <2> QED BY <1>1, <1>2, <1>4, <2>1, <2>2, <2>3 DEF Readable
<1> QED BY <1>1, <1>2, <1>3, <1>4

LEMMA RegistryInit == Init => RegistryInv
<1> SUFFICES ASSUME Init PROVE RegistryInv
  OBVIOUS
<1>1. blueprint = [tables |-> << >>, toml |-> blueprint.toml] /\ harmed = ~blueprint.toml
  BY DEF Init
<1>2. task = [p \in Ingestors |-> task[p]] /\ \A p \in Ingestors : task[p] = Idle
  BY DEF Init
<1>3. JobsAreJobs
  <2>1. IsBlueprint(blueprint)
    <3>1. blueprint.tables = << >> /\ << >> \in Seq(DOMAIN Trees)
      BY <1>1
    <3> QED BY <1>1, <3>1 DEF IsBlueprint
  <2>2. IsJob(Idle) /\ Idle.phase = "idle"
    BY DEF IsJob, Idle
  <2> QED BY <1>2, <2>1, <2>2 DEF JobsAreJobs
<1>4. TablesHaveRows
  BY <1>1, <1>2 DEF TablesHaveRows, JobHasRows, Names, Idle
<1>5. GrowsUnharmed
  <2>1. ~harmed => blueprint.toml
    BY <1>1
  <2>2. blueprint.tables = << >> /\ DOMAIN blueprint.tables = {}
    BY <1>1
  <2>3. blueprint.toml => Readable(blueprint)
    BY <2>2 DEF Readable
  <2>4. \A p \in Ingestors : task[p].phase = "idle"
    BY <1>2 DEF Idle
  <2> QED BY <2>1, <2>3, <2>4 DEF GrowsUnharmed, JobIsBehind
<1>6. AloneInv
  BY <1>2 DEF AloneInv, Idle
<1> QED BY <1>3, <1>4, <1>5, <1>6 DEF RegistryInv

\* What the ingestions of files, the owners of sources and a second process
\* do to the registry is at most to disturb it.
LEMMA DisturbedStep ==
    ASSUME RegistryInv, UNCHANGED <<rows, blueprint, harmed>>,
           (task' = task /\ source' = source) \/ task' = Disturbed(task)
    PROVE  RegistryInv'
<1>1. CASE task' = task /\ source' = source
  BY <1>1 DEF RegistryInv, JobsAreJobs, TablesHaveRows, JobHasRows, GrowsUnharmed,
              JobIsBehind, AloneInv, JobKnows, Settled, HasRow, Busy
<1>2. CASE task' = Disturbed(task)
  <2>1. \A p \in Ingestors : task'[p] = [task[p] EXCEPT !.alone = FALSE]
    BY <1>2 DEF Disturbed
  <2>2. \A p \in Ingestors : IsJob(task[p])
    BY DEF RegistryInv, JobsAreJobs
  <2>3. \A p \in Ingestors :
            /\ task'[p].phase = task[p].phase /\ task'[p].tree = task[p].tree
            /\ task'[p].left = task[p].left /\ task'[p].stored = task[p].stored
            /\ task'[p].seen = task[p].seen /\ ~task'[p].alone
            /\ IsJob(task'[p])
    <3> TAKE p \in Ingestors
    <3>1. task'[p] = [phase |-> task[p].phase, tree |-> task[p].tree, left |-> task[p].left,
                     text |-> task[p].text, stored |-> task[p].stored, seen |-> task[p].seen,
                     alone |-> FALSE]
      BY <2>1, <2>2 DEF IsJob
    <3>2. IsJob(task[p])
      BY <2>2
    <3> QED BY <3>1, <3>2 DEF IsJob
  <2>4. task' = [p \in Ingestors |-> task'[p]]
    BY <1>2 DEF Disturbed
  <2>5. JobsAreJobs'
    BY <2>3, <2>4 DEF RegistryInv, JobsAreJobs
  <2>6. TablesHaveRows'
    BY <2>3 DEF RegistryInv, TablesHaveRows, JobHasRows, HasRow
  <2>7. GrowsUnharmed'
    BY <2>3 DEF RegistryInv, GrowsUnharmed, JobIsBehind
  <2>8. AloneInv'
    BY <2>3 DEF AloneInv
  <2> QED BY <2>5, <2>6, <2>7, <2>8 DEF RegistryInv
<1> QED BY <1>1, <1>2

\* What one process knows and does.
LEMMA Moved ==
    ASSUME JobsAreJobs, NEW p \in Ingestors, NEW j, Goto(p, j)
    PROVE  /\ task' = [q \in Ingestors |-> task'[q]] /\ task'[p] = j
           /\ \A q \in Ingestors \ {p} : task'[q] = task[q]
BY DEF JobsAreJobs, Goto

\* A step of a busy process that leaves the blueprint and the sources alone
\* needs to be right about this process only: no other is alone.
LEMMA OwnStep ==
    ASSUME RegistryInv, NEW p \in Ingestors, Busy(p), NEW j, Goto(p, j),
           UNCHANGED <<source, blueprint, harmed>>,
           \A k \in DOMAIN rows : k \in DOMAIN rows',
           IsJob(j), JobHasRows(j)', ~harmed => JobIsBehind(j)',
           j.alone => task[p].alone /\ JobKnows(j)'
    PROVE  RegistryInv'
<1>1. /\ task' = [q \in Ingestors |-> task'[q]] /\ task'[p] = j
      /\ \A q \in Ingestors \ {p} : task'[q] = task[q]
  BY Moved DEF RegistryInv
<1>2. JobsAreJobs'
  BY <1>1 DEF RegistryInv, JobsAreJobs
<1>3. \A c : HasRow(c) => HasRow(c)'
  BY DEF HasRow
<1>4. TablesHaveRows'
  <2>1. \A q \in Ingestors \ {p} : JobHasRows(task[q])'
    BY <1>1, <1>3 DEF RegistryInv, TablesHaveRows, JobHasRows
  <2> QED BY <1>1, <1>3, <2>1 DEF RegistryInv, TablesHaveRows
<1>5. GrowsUnharmed'
  <2>1. ASSUME ~harmed, NEW q \in Ingestors \ {p} PROVE JobIsBehind(task[q])'
    BY <1>1, <2>1 DEF RegistryInv, GrowsUnharmed, JobIsBehind
  <2> QED BY <1>1, <2>1 DEF RegistryInv, GrowsUnharmed
<1>6. AloneInv'
  <2>1. \A q \in Ingestors \ {p} : ~task'[q].alone
    BY <1>1 DEF RegistryInv, AloneInv
  <2>2. task[p].alone => \A q \in Ingestors \ {p} : ~Busy(q)'
    BY <1>1 DEF RegistryInv, AloneInv, Busy
  <2> QED BY <1>1, <2>1, <2>2 DEF AloneInv
<1> QED BY <1>2, <1>4, <1>5, <1>6 DEF RegistryInv

\* The job of a process in a state of the invariant, field by field.
LEMMA JobOf ==
    ASSUME RegistryInv, NEW p \in Ingestors, NEW j, j = task[p]
    PROVE  /\ j = [phase |-> j.phase, tree |-> j.tree, left |-> j.left, text |-> j.text,
                   stored |-> j.stored, seen |-> j.seen, alone |-> j.alone]
           /\ IsJob(j) /\ JobHasRows(j) /\ (~harmed => JobIsBehind(j)) /\ (j.alone => JobKnows(j))
<1>1. IsJob(j)
  BY DEF RegistryInv, JobsAreJobs
<1>2. JobHasRows(j) /\ (~harmed => JobIsBehind(j)) /\ (j.alone => JobKnows(j))
  BY DEF RegistryInv, TablesHaveRows, GrowsUnharmed, AloneInv
<1> QED BY <1>1, <1>2 DEF IsJob

\* A killed or aborted ingestion knows nothing and needs nothing.
LEMMA IdleIsAJob ==
    /\ IsJob(Idle) /\ Idle.phase = "idle" /\ ~Idle.alone
    /\ JobHasRows(Idle)' /\ JobIsBehind(Idle)'
BY DEF Idle, IsJob, JobHasRows, JobIsBehind

\* A file that cannot be read is done with; one that can is parsed.
LEMMA ReadStep == ASSUME RegistryInv, NEW p \in Ingestors, Read(p) PROVE RegistryInv'
<1>1. PICK j : j = task[p]
  OBVIOUS
<1>2. /\ j = [phase |-> j.phase, tree |-> j.tree, left |-> j.left, text |-> j.text,
              stored |-> j.stored, seen |-> j.seen, alone |-> j.alone]
      /\ IsJob(j) /\ JobHasRows(j) /\ (j.alone => JobKnows(j))
  BY <1>1, JobOf
<1>3. /\ j.phase = "read" /\ j.left \in Seq(Sources) /\ j.left # << >> /\ Busy(p)
      /\ UNCHANGED <<source, blueprint, harmed, rows>>
  BY <1>1, <1>2 DEF Read, Busy, IsJob
<1>4. /\ Tail(j.left) \in Seq(Sources)
      /\ \A f \in FilesOf(j.left) : f = Head(j.left) \/ f \in FilesOf(Tail(j.left))
  BY <1>3, HeadOrTail
<1>5. CASE Outcome(source[Head(j.left)]) = "error"
  <2>1. PICK k : k = [j EXCEPT !.left = Tail(@)]
    OBVIOUS
  <2>2. k = [phase |-> j.phase, tree |-> j.tree, left |-> Tail(j.left), text |-> j.text,
             stored |-> j.stored, seen |-> j.seen, alone |-> j.alone]
    BY <1>2, <2>1
  <2>3. Goto(p, k)
    BY <1>1, <1>5, <2>1 DEF Read
  <2>4. IsJob(k) /\ JobHasRows(k)' /\ JobIsBehind(k)'
    BY <1>2, <1>3, <1>4, <2>2 DEF IsJob, JobHasRows, JobIsBehind, HasRow
  <2>5. source[Head(j.left)].kind = "binary"
    BY <1>5 DEF Outcome
  <2>6. k.alone => j.alone /\ JobKnows(k)'
    BY <1>2, <1>3, <1>4, <2>2, <2>5 DEF JobKnows, Settled
  <2> QED BY <1>1, <1>3, <2>3, <2>4, <2>6, OwnStep
<1>6. CASE Outcome(source[Head(j.left)]) = "raises"
  <2>1. Goto(p, Idle)
    BY <1>1, <1>6 DEF Read
  <2> QED BY <1>3, <2>1, OwnStep, IdleIsAJob
<1>7. CASE Outcome(source[Head(j.left)]) = "uast"
  <2>1. PICK k : k = [j EXCEPT !.phase = "store", !.text = source[Head(j.left)]]
    OBVIOUS
  <2>2. k = [phase |-> "store", tree |-> j.tree, left |-> j.left, text |-> source[Head(j.left)],
             stored |-> j.stored, seen |-> j.seen, alone |-> j.alone]
    BY <1>2, <2>1
  <2>3. Goto(p, k)
    BY <1>1, <1>7, <2>1 DEF Read
  <2>4. IsJob(k) /\ JobHasRows(k)' /\ JobIsBehind(k)'
    BY <1>2, <1>3, <2>2 DEF IsJob, JobHasRows, JobIsBehind, HasRow
  <2>5. k.alone => j.alone /\ JobKnows(k)'
    BY <1>2, <1>3, <2>2 DEF JobKnows, Settled
  <2> QED BY <1>1, <1>3, <2>3, <2>4, <2>5, OwnStep
<1> QED BY <1>5, <1>6, <1>7 DEF Outcome

\* The row that is written is the file's, and no other changes.
LEMMA StoreStep == ASSUME RegistryInv, NEW p \in Ingestors, Store(p) PROVE RegistryInv'
<1>1. PICK j : j = task[p]
  OBVIOUS
<1>2. /\ j = [phase |-> j.phase, tree |-> j.tree, left |-> j.left, text |-> j.text,
              stored |-> j.stored, seen |-> j.seen, alone |-> j.alone]
      /\ IsJob(j) /\ JobHasRows(j) /\ (j.alone => JobKnows(j))
  BY <1>1, JobOf
<1>3. /\ j.phase = "store" /\ j.left \in Seq(Sources) /\ j.left # << >> /\ Busy(p)
      /\ UNCHANGED <<source, blueprint, harmed>>
  BY <1>1, <1>2 DEF Store, Busy, IsJob
<1>4. PICK f : f = Head(j.left)
  OBVIOUS
<1>5. /\ f \in Sources /\ Tail(j.left) \in Seq(Sources)
      /\ \A g \in FilesOf(j.left) : g = f \/ g \in FilesOf(Tail(j.left))
  BY <1>3, <1>4, HeadOrTail
<1>6. PICK k : k = [j EXCEPT !.phase = "read", !.left = Tail(@), !.stored = @ \cup {f}]
  OBVIOUS
<1>7. k = [phase |-> "read", tree |-> j.tree, left |-> Tail(j.left), text |-> j.text,
           stored |-> j.stored \cup {f}, seen |-> j.seen, alone |-> j.alone]
  BY <1>2, <1>6
<1>8. Goto(p, k) /\ rows' = Upsert(<<j.tree, f>>, j.text)
  BY <1>1, <1>4, <1>6 DEF Store
<1>9. /\ DOMAIN rows' = DOMAIN rows \cup {<<j.tree, f>>} /\ rows'[<<j.tree, f>>] = j.text
      /\ \A g : g # f /\ <<j.tree, g>> \in DOMAIN rows =>
                  rows'[<<j.tree, g>>] = rows[<<j.tree, g>>]
  BY <1>8 DEF Upsert
<1>10. HasRow(j.tree)'
  BY <1>5, <1>9 DEF HasRow
<1>11. IsJob(k) /\ JobHasRows(k)' /\ JobIsBehind(k)'
  BY <1>2, <1>3, <1>5, <1>7, <1>10 DEF IsJob, JobHasRows, JobIsBehind
<1>12. ASSUME k.alone PROVE j.alone /\ JobKnows(k)'
  <2>1. j.alone /\ JobKnows(j)
    BY <1>2, <1>7, <1>12
  <2>2. Settled(j.tree, f)'
    BY <1>3, <1>4, <1>9, <2>1 DEF JobKnows, Settled
  <2>3. \A g : g # f /\ Settled(j.tree, g) => Settled(j.tree, g)'
    BY <1>3, <1>9 DEF Settled
  <2>4. \A g \in FilesOf(Trees[j.tree]) : g \in FilesOf(k.left) \/ Settled(j.tree, g)'
    BY <1>5, <1>7, <2>1, <2>2, <2>3 DEF JobKnows
  <2> QED BY <1>7, <2>1, <2>4 DEF JobKnows
<1> QED BY <1>1, <1>3, <1>8, <1>9, <1>11, <1>12, OwnStep

\* What it reads first is the blueprint as it is.
LEMMA ReadBlueprintStep ==
    ASSUME RegistryInv, NEW p \in Ingestors, ReadBlueprint(p) PROVE RegistryInv'
<1>1. PICK j : j = task[p]
  OBVIOUS
<1>2. /\ j = [phase |-> j.phase, tree |-> j.tree, left |-> j.left, text |-> j.text,
              stored |-> j.stored, seen |-> j.seen, alone |-> j.alone]
      /\ IsJob(j) /\ JobHasRows(j) /\ (j.alone => JobKnows(j))
  BY <1>1, JobOf
<1>3. /\ j.phase = "read" /\ j.left = << >> /\ Busy(p)
      /\ UNCHANGED <<source, blueprint, harmed, rows>>
  BY <1>1 DEF ReadBlueprint, Busy
<1>4. IsBlueprint(blueprint) /\ \A c \in Names(blueprint) : HasRow(c)
  BY DEF RegistryInv, JobsAreJobs, TablesHaveRows
<1>5. CASE j.stored = {}
  <2>1. PICK k : k = [j EXCEPT !.phase = "done"]
    OBVIOUS
  <2>2. k = [phase |-> "done", tree |-> j.tree, left |-> j.left, text |-> j.text,
             stored |-> j.stored, seen |-> j.seen, alone |-> j.alone]
    BY <1>2, <2>1
  <2>3. Goto(p, k)
    BY <1>1, <1>5, <2>1 DEF ReadBlueprint
  <2>4. IsJob(k) /\ JobHasRows(k)' /\ JobIsBehind(k)'
    BY <1>2, <1>3, <1>5, <2>2 DEF IsJob, JobHasRows, JobIsBehind
  <2>5. k.alone => j.alone /\ JobKnows(k)'
    BY <1>2, <1>3, <1>5, <2>2 DEF JobKnows, Settled
  <2> QED BY <1>1, <1>3, <2>3, <2>4, <2>5, OwnStep
<1>6. CASE j.stored # {}
  <2>1. PICK k : k = [j EXCEPT !.phase = "look", !.seen = blueprint]
    OBVIOUS
  <2>2. k = [phase |-> "look", tree |-> j.tree, left |-> j.left, text |-> j.text,
             stored |-> j.stored, seen |-> blueprint, alone |-> j.alone]
    BY <1>2, <2>1
  <2>3. Goto(p, k)
    BY <1>1, <1>6, <2>1 DEF ReadBlueprint
  <2>4. IsJob(k) /\ JobHasRows(k)'
    BY <1>2, <1>3, <1>4, <1>6, <2>2 DEF IsJob, JobHasRows, HasRow
  <2>5. JobIsBehind(k)'
    <3>1. Len(blueprint.tables) =< Len(blueprint.tables)
      BY <1>4 DEF IsBlueprint
    <3> QED BY <1>3, <2>2, <3>1 DEF JobIsBehind
  <2>6. k.alone => j.alone /\ JobKnows(k)'
    BY <1>2, <1>3, <2>2 DEF JobKnows, Settled
  <2> QED BY <1>1, <1>3, <2>3, <2>4, <2>5, <2>6, OwnStep
<1> QED BY <1>5, <1>6

\* A context is written only if it was not found, or the loader was in the way.
LEMMA LookStep == ASSUME RegistryInv, NEW p \in Ingestors, Look(p) PROVE RegistryInv'
<1>1. PICK j : j = task[p]
  OBVIOUS
<1>2. /\ j = [phase |-> j.phase, tree |-> j.tree, left |-> j.left, text |-> j.text,
              stored |-> j.stored, seen |-> j.seen, alone |-> j.alone]
      /\ IsJob(j) /\ JobHasRows(j) /\ (~harmed => JobIsBehind(j)) /\ (j.alone => JobKnows(j))
  BY <1>1, JobOf
<1>3. /\ j.phase = "look" /\ Busy(p)
      /\ UNCHANGED <<source, blueprint, harmed, rows>>
  BY <1>1 DEF Look, Busy
<1>4. CASE Registers(blueprint, j.tree)
  <2>1. PICK k : k = [j EXCEPT !.phase = "done"]
    OBVIOUS
  <2>2. k = [phase |-> "done", tree |-> j.tree, left |-> j.left, text |-> j.text,
             stored |-> j.stored, seen |-> j.seen, alone |-> j.alone]
    BY <1>2, <2>1
  <2>3. Goto(p, k)
    BY <1>1, <1>4, <2>1 DEF Look
  <2>4. IsJob(k) /\ JobHasRows(k)' /\ JobIsBehind(k)'
    BY <1>2, <1>3, <2>2 DEF IsJob, JobHasRows, JobIsBehind, HasRow
  <2>5. Registers(blueprint, j.tree)'
    BY <1>3, <1>4 DEF Registers, Readable, Names
  <2>6. k.alone => j.alone /\ JobKnows(k)'
    BY <1>2, <1>3, <2>2, <2>5 DEF JobKnows, Settled
  <2> QED BY <1>1, <1>3, <2>3, <2>4, <2>6, OwnStep
<1>5. CASE ~Registers(blueprint, j.tree)
  <2>1. PICK k : k = [j EXCEPT !.phase = "write"]
    OBVIOUS
  <2>2. k = [phase |-> "write", tree |-> j.tree, left |-> j.left, text |-> j.text,
             stored |-> j.stored, seen |-> j.seen, alone |-> j.alone]
    BY <1>2, <2>1
  <2>3. Goto(p, k)
    BY <1>1, <1>5, <2>1 DEF Look
  <2>4. IsJob(k) /\ JobHasRows(k)'
    BY <1>2, <1>3, <2>2 DEF IsJob, JobHasRows, HasRow
  <2>5. ASSUME ~harmed PROVE JobIsBehind(k)'
    <3>1. AllBare(blueprint) /\ NameKind[j.tree] = "bare" => j.tree \notin Names(blueprint)
      BY <1>5, <2>5 DEF RegistryInv, GrowsUnharmed, Registers
    <3> QED BY <1>2, <1>3, <2>2, <2>5, <3>1 DEF JobIsBehind, AllBare
  <2>6. k.alone => j.alone /\ JobKnows(k)'
    BY <1>2, <1>3, <2>2 DEF JobKnows, Settled
  <2> QED BY <1>1, <1>3, <2>3, <2>4, <2>5, <2>6, OwnStep
<1> QED BY <1>4, <1>5

\* The table is appended to what was read; unless somebody wrote meanwhile,
\* that is the blueprint, and the table is not in it.
LEMMA RegisterStep == ASSUME RegistryInv, NEW p \in Ingestors, Register(p) PROVE RegistryInv'
<1>1. PICK j : j = task[p]
  OBVIOUS
<1>2. /\ j = [phase |-> j.phase, tree |-> j.tree, left |-> j.left, text |-> j.text,
              stored |-> j.stored, seen |-> j.seen, alone |-> j.alone]
      /\ IsJob(j) /\ JobHasRows(j) /\ (~harmed => JobIsBehind(j)) /\ (j.alone => JobKnows(j))
  BY <1>1, JobOf
<1>3. /\ j.phase = "write" /\ Busy(p) /\ UNCHANGED <<source, rows>>
      /\ blueprint' = [j.seen EXCEPT !.tables = Append(@, j.tree)]
      /\ harmed' = (harmed \/ j.seen # blueprint)
  BY <1>1 DEF Register, Busy
<1>4. j.tree \in DOMAIN Trees /\ IsBlueprint(j.seen) /\ j.stored # {}
  BY <1>2, <1>3 DEF IsJob
<1>5. /\ IsBlueprint(blueprint') /\ blueprint'.toml = j.seen.toml
      /\ Names(blueprint') = Names(j.seen) \cup {j.tree}
      /\ Len(blueprint'.tables) = Len(j.seen.tables) + 1
      /\ Readable(j.seen) /\ NameKind[j.tree] = "bare" /\ j.tree \notin Names(j.seen)
             => Readable(blueprint')
  BY <1>3, <1>4, OneMoreTable
<1>6. PICK k : k = [j EXCEPT !.phase = "done"]
  OBVIOUS
<1>7. k = [phase |-> "done", tree |-> j.tree, left |-> j.left, text |-> j.text,
           stored |-> j.stored, seen |-> j.seen, alone |-> j.alone]
  BY <1>2, <1>6
<1>8. /\ task' = [q \in Ingestors |-> task'[q]] /\ task'[p] = k
      /\ \A q \in Ingestors \ {p} : task'[q] = task[q]
  <2>1. Goto(p, k)
    BY <1>1, <1>6 DEF Register
  <2> QED BY <2>1, Moved DEF RegistryInv
<1>9. IsJob(k) /\ JobHasRows(k)'
  BY <1>2, <1>3, <1>7 DEF IsJob, JobHasRows, HasRow
<1>10. JobsAreJobs'
  BY <1>5, <1>8, <1>9 DEF RegistryInv, JobsAreJobs
<1>11. TablesHaveRows'
  <2>1. \A c : HasRow(c)' <=> HasRow(c)
    BY <1>3 DEF HasRow
  <2>2. \A c \in Names(blueprint)' : HasRow(c)
    <3>1. Names(blueprint)' = Names(blueprint')
      BY DEF Names
    <3> QED BY <1>2, <1>3, <1>4, <1>5, <3>1 DEF JobHasRows
  <2>3. \A q \in Ingestors \ {p} : JobHasRows(task[q])'
    BY <1>8, <2>1 DEF RegistryInv, TablesHaveRows, JobHasRows
  <2> QED BY <1>8, <1>9, <2>1, <2>2, <2>3 DEF TablesHaveRows
<1>12. GrowsUnharmed'
  <2> SUFFICES ASSUME ~harmed' PROVE GrowsUnharmed'
    BY DEF GrowsUnharmed
  <2>1. ~harmed /\ j.seen = blueprint
    BY <1>3
  <2>2. blueprint.toml /\ (AllBare(blueprint) => Readable(blueprint))
    BY <2>1 DEF RegistryInv, GrowsUnharmed
  <2>3. AllBare(blueprint)' => Readable(blueprint)'
    <3> SUFFICES ASSUME AllBare(blueprint') PROVE Readable(blueprint')
      BY DEF AllBare, Readable, Names
    <3>1. NameKind[j.tree] = "bare" /\ AllBare(blueprint)
      BY <1>5, <2>1 DEF AllBare
    <3>2. j.tree \notin Names(blueprint)
      BY <1>2, <1>3, <2>1, <3>1 DEF JobIsBehind
    <3> QED BY <1>5, <2>1, <2>2, <3>1, <3>2
  <2>4. JobIsBehind(k)'
    BY <1>7 DEF JobIsBehind
  <2>5. ASSUME NEW q \in Ingestors \ {p} PROVE JobIsBehind(task[q])'
    <3>1. PICK i : i = task[q]
      OBVIOUS
    <3>2. IsJob(i) /\ JobIsBehind(i) /\ task'[q] = i
      BY <1>8, <2>1, <3>1, JobOf
    <3>3. CASE i.phase \in {"look", "write"}
      <4>1. Len(i.seen.tables) =< Len(blueprint.tables)
        BY <3>2, <3>3 DEF JobIsBehind
      <4>2. Len(i.seen.tables) \in Nat /\ Len(blueprint.tables) \in Nat
        BY <1>4, <2>1, <3>2, <3>3 DEF IsJob, IsBlueprint
      <4>3. Len(blueprint'.tables) = Len(blueprint.tables) + 1
        BY <1>5, <2>1
      <4>4. Len(i.seen.tables) =< Len(blueprint'.tables) /\ i.seen # blueprint'
        BY <4>1, <4>2, <4>3
      <4> QED BY <3>2, <4>4 DEF JobIsBehind
    <3>4. CASE i.phase \notin {"look", "write"}
      BY <3>2, <3>4 DEF JobIsBehind
    <3> QED BY <3>3, <3>4
  <2> QED BY <1>5, <1>8, <2>1, <2>2, <2>3, <2>4, <2>5 DEF GrowsUnharmed
<1>13. AloneInv'
  <2>1. \A q \in Ingestors \ {p} : ~task'[q].alone
    BY <1>3, <1>8 DEF RegistryInv, AloneInv
  <2>2. ASSUME k.alone PROVE JobKnows(k)'
    <3>1. JobKnows(j)
      BY <1>2, <1>7, <2>2
    <3>2. j.tree \in Names(blueprint)'
      BY <1>5 DEF Names
    <3> QED BY <1>3, <1>7, <3>1, <3>2 DEF JobKnows, Settled, Registers
  <2>3. k.alone => \A q \in Ingestors \ {p} : ~Busy(q)'
    BY <1>1, <1>7, <1>8 DEF RegistryInv, AloneInv, Busy
  <2> QED BY <1>8, <2>1, <2>2, <2>3 DEF AloneInv
<1> QED BY <1>10, <1>11, <1>12, <1>13 DEF RegistryInv

\* A kill harms the blueprint or leaves it.
LEMMA KillStep == ASSUME RegistryInv, NEW p \in Ingestors, KillIngest(p) PROVE RegistryInv'
<1>1. Busy(p) /\ Goto(p, Idle) /\ UNCHANGED <<source, rows>>
  BY DEF KillIngest
<1>2. CASE UNCHANGED <<blueprint, harmed>>
  BY <1>1, <1>2, OwnStep, IdleIsAJob
<1>3. CASE blueprint' \in [tables : {<< >>}, toml : BOOLEAN] /\ harmed'
  <2>1. /\ task' = [q \in Ingestors |-> task'[q]] /\ task'[p] = Idle
        /\ \A q \in Ingestors \ {p} : task'[q] = task[q]
    BY <1>1, Moved DEF RegistryInv
  <2>2. blueprint'.tables = << >> /\ blueprint' = [tables |-> blueprint'.tables, toml |-> blueprint'.toml]
    BY <1>3
  <2>3. JobsAreJobs'
    <3>1. << >> \in Seq(DOMAIN Trees)
      OBVIOUS
    <3>2. IsBlueprint(blueprint')
      BY <2>2, <3>1 DEF IsBlueprint
    <3> QED BY <2>1, <3>2, IdleIsAJob DEF RegistryInv, JobsAreJobs
  <2>4. TablesHaveRows'
    <3>1. Names(blueprint)' = {}
      BY <2>2 DEF Names
    <3>2. \A q \in Ingestors \ {p} : JobHasRows(task[q])'
      BY <1>1, <2>1 DEF RegistryInv, TablesHaveRows, JobHasRows, HasRow
    <3> QED BY <2>1, <3>1, <3>2, IdleIsAJob DEF TablesHaveRows
  <2>5. GrowsUnharmed'
    BY <1>3 DEF GrowsUnharmed
  <2>6. AloneInv'
    <3>1. \A q \in Ingestors \ {p} : ~task'[q].alone
      BY <1>1, <2>1 DEF RegistryInv, AloneInv
    <3> QED BY <2>1, <3>1, IdleIsAJob DEF AloneInv
  <2> QED BY <2>3, <2>4, <2>5, <2>6 DEF RegistryInv
<1> QED BY <1>2, <1>3 DEF KillIngest

\* Whoever starts has everything ahead, and no other is alone from then on.
LEMMA IngestStep ==
    ASSUME RegistryInv, NEW p \in Ingestors, NEW c \in DOMAIN Trees, Ingest(p, c)
    PROVE  RegistryInv'
<1>1. PICK k : k = [Idle EXCEPT !.phase = "read", !.tree = c, !.left = Trees[c],
                                !.alone = \A q \in Ingestors : ~Busy(q)]
  OBVIOUS
<1>2. k = [phase |-> "read", tree |-> c, left |-> Trees[c], text |-> Blank, stored |-> {},
           seen |-> [tables |-> << >>, toml |-> TRUE], alone |-> \A q \in Ingestors : ~Busy(q)]
  BY <1>1 DEF Idle
<1>3. task' = [Disturbed(task) EXCEPT ![p] = k] /\ UNCHANGED <<source, rows, blueprint, harmed>>
  BY <1>1 DEF Ingest, ingested
<1>4. PICK d : d = Disturbed(task)
  OBVIOUS
<1>5. /\ task' = [q \in Ingestors |-> task'[q]] /\ task'[p] = k
      /\ \A q \in Ingestors \ {p} : task'[q] = [task[q] EXCEPT !.alone = FALSE]
  BY <1>3 DEF Disturbed
<1>6. ASSUME NEW q \in Ingestors \ {p}
      PROVE  /\ task'[q].phase = task[q].phase /\ task'[q].tree = task[q].tree
             /\ task'[q].left = task[q].left /\ task'[q].stored = task[q].stored
             /\ task'[q].seen = task[q].seen /\ ~task'[q].alone /\ IsJob(task'[q])
  <2>1. PICK j : j = task[q]
    OBVIOUS
  <2>2. IsJob(j) /\ task'[q] = [phase |-> j.phase, tree |-> j.tree, left |-> j.left, text |-> j.text,
                               stored |-> j.stored, seen |-> j.seen, alone |-> FALSE]
    BY <1>5, <2>1, JobOf
  <2> QED BY <2>1, <2>2 DEF IsJob
<1>7. IsJob(k) /\ JobHasRows(k)' /\ JobIsBehind(k)' /\ JobKnows(k)'
  BY <1>2, ContextAssumption DEF IsJob, JobHasRows, JobIsBehind, JobKnows
<1>8. JobsAreJobs'
  BY <1>3, <1>5, <1>6, <1>7 DEF RegistryInv, JobsAreJobs
<1>9. TablesHaveRows'
  <2>1. \A q \in Ingestors \ {p} : JobHasRows(task[q])'
    BY <1>3, <1>6 DEF RegistryInv, TablesHaveRows, JobHasRows, HasRow
  <2> QED BY <1>3, <1>5, <1>7, <2>1 DEF RegistryInv, TablesHaveRows, HasRow
<1>10. GrowsUnharmed'
  <2>1. ASSUME ~harmed, NEW q \in Ingestors \ {p} PROVE JobIsBehind(task[q])'
    BY <1>3, <1>6, <2>1 DEF RegistryInv, GrowsUnharmed, JobIsBehind
  <2> QED BY <1>3, <1>5, <1>7, <2>1 DEF RegistryInv, GrowsUnharmed
<1>11. AloneInv'
  <2>1. k.alone => \A q \in Ingestors \ {p} : ~Busy(q)'
    BY <1>2, <1>6 DEF Busy
  <2> QED BY <1>5, <1>6, <1>7, <2>1 DEF AloneInv
<1> QED BY <1>8, <1>9, <1>10, <1>11 DEF RegistryInv

LEMMA RegistryStep == RegistryInv /\ [Next]_contextVars => RegistryInv'
<1> SUFFICES ASSUME RegistryInv, [Next]_contextVars PROVE RegistryInv'
  OBVIOUS
<1>1. ASSUME ContextNext PROVE RegistryInv'
  <2>1. UNCHANGED <<rows, blueprint, harmed>>
    BY <1>1 DEF ContextNext, IngestAll, IngestFile, KillIngestAll, registered
  <2>2. (task' = task /\ source' = source) \/ task' = Disturbed(task)
    BY <1>1 DEF ContextNext, IngestAll, IngestFile, KillIngestAll, registered, Noticed
  <2> QED BY <2>1, <2>2, DisturbedStep
<1>2. ASSUME NEW p \in Ingestors, NEW c \in DOMAIN Trees, Ingest(p, c) PROVE RegistryInv'
  BY <1>2, IngestStep
<1>3. ASSUME NEW p \in Ingestors, Read(p) PROVE RegistryInv'
  BY <1>3, ReadStep
<1>4. ASSUME NEW p \in Ingestors, Store(p) PROVE RegistryInv'
  BY <1>4, StoreStep
<1>5. ASSUME NEW p \in Ingestors, ReadBlueprint(p) PROVE RegistryInv'
  BY <1>5, ReadBlueprintStep
<1>6. ASSUME NEW p \in Ingestors, Look(p) PROVE RegistryInv'
  BY <1>6, LookStep
<1>7. ASSUME NEW p \in Ingestors, Register(p) PROVE RegistryInv'
  BY <1>7, RegisterStep
<1>8. ASSUME NEW p \in Ingestors, KillIngest(p) PROVE RegistryInv'
  BY <1>8, KillStep
<1>9. ASSUME NEW f \in Sources, NEW t \in Texts, Edit(f, t) PROVE RegistryInv'
  BY <1>9, DisturbedStep DEF Edit
<1>10. ASSUME UNCHANGED contextVars PROVE RegistryInv'
  BY <1>10, DisturbedStep DEF contextVars, registered
<1> QED BY <1>1, <1>2, <1>3, <1>4, <1>5, <1>6, <1>7, <1>8, <1>9, <1>10
        DEF Next, RegistryNext, EditNext

LEMMA InvIsExact == RegistryInv => RegistryIsExact
<1> SUFFICES ASSUME RegistryInv PROVE RegistryIsExact
  OBVIOUS
<1>1. RegisteredHaveRows
  BY DEF RegistryInv, TablesHaveRows, HasRow, RegisteredHaveRows
<1>2. BlueprintStaysReadable
  BY DEF RegistryInv, GrowsUnharmed, AllBare, BlueprintStaysReadable
<1>3. AloneIsExact
  <2> SUFFICES ASSUME NEW p \in Ingestors, task[p].phase = "done", task[p].alone
               PROVE  /\ \A f \in FilesOf(Trees[task[p].tree]) : Settled(task[p].tree, f)
                      /\ task[p].stored # {} /\ Readable(blueprint)
                             /\ NameKind[task[p].tree] = "bare"
                             => Registers(blueprint, task[p].tree)
    BY DEF AloneIsExact, Settled
  <2>1. JobKnows(task[p]) /\ task[p].left = << >>
    BY DEF RegistryInv, AloneInv, JobKnows
  <2>2. FilesOf(task[p].left) = {}
    BY <2>1 DEF FilesOf
  <2> QED BY <2>1, <2>2 DEF JobKnows
<1> QED BY <1>1, <1>2, <1>3 DEF RegistryIsExact

\* `aero ingest` (src/registry/ingest.py) registers nothing it has not stored,
\* keeps a blueprint the loader accepts unless somebody interferes, and left
\* alone stores every file it can read as the file is: for all trees and
\* names, any number of processes, and kills and changes at any step.
THEOREM RegistryStaysExact == Spec => []RegistryIsExact
<1>1. Init => RegistryInv
  BY RegistryInit
<1>2. RegistryInv /\ [Next]_contextVars => RegistryInv'
  BY RegistryStep
<1>3. RegistryInv => RegistryIsExact
  BY InvIsExact
<1> QED BY <1>1, <1>2, <1>3, PTL DEF Spec

-----------------------------------------------------------------------------
\* Of the files of [context]: what a rule leaves is a text, and one that parses if it did.
LEMMA RulesKeepTexts ==
    ASSUME NEW t \in Text
    PROVE  /\ DropsUnused(t) \in Text /\ AddsImports(t) \in Text /\ Annotated(t) \in Text
           /\ DropsUnused(t).header = t.header /\ DropsUnused(t).uses = t.uses
           /\ AddsImports(t).header = t.header /\ AddsImports(t).uses = t.uses
<1>1. t.imports \subseteq Import /\ t.uses \subseteq STRING
  BY DEF Text
<1> DEFINE With(k, s) ==
               [kind |-> k, imports |-> s, uses |-> t.uses, header |-> t.header, bare |-> t.bare]
<1>2. ASSUME NEW k \in {"python", "late", "broken", "binary"}, NEW s \in SUBSET Import
      PROVE  With(k, s) \in Text /\ With(k, s).header = t.header /\ With(k, s).uses = t.uses
  BY <1>2 DEF Text
<1>9. ASSUME NEW k, NEW s PROVE [t EXCEPT !.imports = s, !.kind = k] = With(k, s)
  <2>1. t = [kind |-> t.kind, imports |-> t.imports, uses |-> t.uses, header |-> t.header,
             bare |-> t.bare]
    BY DEF Text
  <2>2. PICK a, b, c, d, e :
          t = [kind |-> a, imports |-> b, uses |-> c, header |-> d, bare |-> e]
    BY <2>1
  <2>3. [t EXCEPT !.imports = s] = [kind |-> a, imports |-> s, uses |-> c, header |-> d, bare |-> e]
    BY <2>2
  <2>4. [t EXCEPT !.imports = s, !.kind = k]
          = [kind |-> k, imports |-> s, uses |-> c, header |-> d, bare |-> e]
    <3>1. [t EXCEPT !.imports = s, !.kind = k] = [[t EXCEPT !.imports = s] EXCEPT !.kind = k]
      OBVIOUS
    <3>2. PICK r : r = [t EXCEPT !.imports = s]
      OBVIOUS
    <3>3. r = [kind |-> a, imports |-> s, uses |-> c, header |-> d, bare |-> e]
      BY <2>3, <3>2
    <3>4. [r EXCEPT !.kind = k] = [kind |-> k, imports |-> s, uses |-> c, header |-> d, bare |-> e]
      BY <3>3
    <3> QED BY <3>1, <3>2, <3>4
  <2> QED BY <2>2, <2>4 DEF With
<1> HIDE DEF With
<1>3. /\ DropsUnused(t) \in Text
      /\ DropsUnused(t).header = t.header /\ DropsUnused(t).uses = t.uses
  <2> DEFINE gone == {i \in t.imports : i.names \subseteq Unused(t)}
             cut == {i \in t.imports : i.line \in {j.line : j \in gone}}
             kind == IF \E i \in cut : i.only THEN "broken" ELSE t.kind
  <2>1. DropsUnused(t) = [t EXCEPT !.imports = t.imports \ cut, !.kind = kind]
    BY DEF DropsUnused
  <2>2. t.imports \ cut \subseteq Import
    BY <1>1
  <2>3. kind \in {"python", "late", "broken", "binary"}
    BY DEF Text
  <2> HIDE DEF cut, kind
  <2>4. DropsUnused(t) = With(kind, t.imports \ cut)
    BY <1>9, <2>1
  <2> QED BY <1>2, <2>2, <2>3, <2>4
<1>4. /\ AddsImports(t) \in Text
      /\ AddsImports(t).header = t.header /\ AddsImports(t).uses = t.uses
  <2> DEFINE added == {[names |-> {n}, line |-> n, only |-> FALSE] : n \in Undefined(t) \cap WellKnown}
             kind == CASE t.header = "split" -> "broken"
                       [] t.header = "comment" /\ Future \in Bound(t) -> "late"
                       [] OTHER -> t.kind
  <2>1. AddsImports(t) =
          IF added = {} THEN t ELSE [t EXCEPT !.imports = t.imports \cup added, !.kind = kind]
    BY DEF AddsImports
  <2>2. t.imports \cup added \subseteq Import
    <3>1. Undefined(t) \subseteq STRING
      BY <1>1 DEF Undefined
    <3>2. \A n \in STRING : [names |-> {n}, line |-> n, only |-> FALSE] \in Import
      BY DEF Import
    <3> QED BY <1>1, <3>1, <3>2
  <2>3. kind \in {"python", "late", "broken", "binary"}
    BY DEF Text
  <2> HIDE DEF added, kind
  <2>4. CASE added = {}
    BY <2>1, <2>4
  <2>5. CASE added # {}
    <3>1. AddsImports(t) = With(kind, t.imports \cup added)
      BY <1>9, <2>1, <2>5
    <3> QED BY <1>2, <2>2, <2>3, <3>1
  <2> QED BY <2>4, <2>5
<1>5. Annotated(t) \in Text
  BY DEF Annotated, Text
<1> QED BY <1>3, <1>4, <1>5

\* A rule kept by Safely leaves the kind alone, but for a late __future__ import.
LEMMA RulesKeepKinds ==
    ASSUME NEW t \in Text, Parses(t)
    PROVE  /\ Parses(Safely(t, DropsUnused(t))) /\ Parses(Safely(t, AddsImports(t)))
           /\ Safely(t, DropsUnused(t)).kind = t.kind
           /\ t.header # "comment" => Safely(t, AddsImports(t)).kind = t.kind
<1>1. DropsUnused(t).kind \in {"broken", t.kind}
  BY DEF DropsUnused, Text
<1>2. t.header # "comment" => AddsImports(t).kind \in {"broken", t.kind}
  BY DEF AddsImports, Text
<1> QED BY <1>1, <1>2 DEF Safely, Parses

\* Where each statement has a line of its own no rule unbinds a name that is used.
LEMMA RulesKeepNames ==
    ASSUME NEW t \in Text
    PROVE  /\ (\A i, k \in t.imports : i.line = k.line => i = k)
                 => t.uses \cap Bound(t) \subseteq Bound(DropsUnused(t))
           /\ Bound(t) \subseteq Bound(AddsImports(t)) /\ Bound(Annotated(t)) = Bound(t)
<1>1. ASSUME \A i, k \in t.imports : i.line = k.line => i = k, NEW n \in t.uses \cap Bound(t)
      PROVE  n \in Bound(DropsUnused(t))
  <2> DEFINE gone == {i \in t.imports : i.names \subseteq Unused(t)}
             cut == {i \in t.imports : i.line \in {j.line : j \in gone}}
  <2>1. PICK i \in t.imports : n \in i.names
    BY <1>1 DEF Bound
  <2>2. i \notin gone
    BY <1>1, <2>1 DEF Unused
  <2>3. i \notin cut
    BY <1>1, <2>2
  <2>4. DropsUnused(t).imports = t.imports \ cut
    BY DEF DropsUnused, Text
  <2> HIDE DEF cut, gone
  <2>5. i \in DropsUnused(t).imports
    BY <2>3, <2>4
  <2> QED BY <2>1, <2>5 DEF Bound
<1>2. Bound(t) \subseteq Bound(AddsImports(t))
  <2>1. t.imports \subseteq AddsImports(t).imports
    BY DEF AddsImports, Text
  <2> QED BY <2>1 DEF Bound
<1>3. Bound(Annotated(t)) = Bound(t)
  BY DEF Annotated, Bound, Text
<1> QED BY <1>1, <1>2, <1>3

\* What one record promises.
DoesNoHarm(found, left) ==
    /\ Parses(found) => Parses(left)
    /\ (\A i, k \in found.imports : i.line = k.line => i = k)
          => found.uses \cap Bound(found) \subseteq Bound(left)
    /\ found.header # "comment" => left.kind = found.kind

\* What the rules made of a text keeps it.
LEMMA RepairDoesNoHarm ==
    ASSUME NEW t \in Text, NEW rules
    PROVE  Repaired(t, rules) \in Text /\ DoesNoHarm(t, Repaired(t, rules))
<1> DEFINE lean == IF "remove_unused" \in rules THEN Safely(t, DropsUnused(t)) ELSE t
           full == IF "auto_import" \in rules THEN Safely(lean, AddsImports(lean)) ELSE lean
           last == IF "type_inference" \in rules THEN Annotated(full) ELSE full
           Apart(u) == \A i, k \in u.imports : i.line = k.line => i = k
<1>1. CASE ~Parses(t)
  BY <1>1 DEF Repaired, DoesNoHarm
<1>2. CASE Parses(t)
  <2>1. Repaired(t, rules) = last
    BY <1>2 DEF Repaired
  <2>2. /\ lean \in Text /\ lean.header = t.header /\ lean.uses = t.uses
        /\ Parses(lean) /\ lean.kind = t.kind
    BY <1>2, RulesKeepTexts, RulesKeepKinds DEF Safely
  <2>3. Apart(t) => t.uses \cap Bound(t) \subseteq Bound(lean)
    BY RulesKeepNames DEF Safely
  <2> HIDE DEF lean
  <2>4. /\ full \in Text /\ Parses(full)
        /\ lean.header # "comment" => full.kind = lean.kind
    BY <2>2, RulesKeepTexts, RulesKeepKinds DEF Safely
  <2>5. Bound(lean) \subseteq Bound(full)
    BY <2>2, RulesKeepNames DEF Safely
  <2> HIDE DEF full
  <2>6. last \in Text /\ last.kind = full.kind /\ Bound(last) = Bound(full)
    <3>1. Annotated(full) \in Text /\ Bound(Annotated(full)) = Bound(full)
      BY <2>4, RulesKeepTexts, RulesKeepNames
    <3>2. Annotated(full).kind = full.kind
      BY <2>4 DEF Annotated, Text
    <3> QED BY <2>4, <3>1, <3>2
  <2> HIDE DEF last
  <2>7. Parses(last)
    BY <2>4, <2>6 DEF Parses
  <2>8. t.header # "comment" => last.kind = t.kind
    BY <2>2, <2>4, <2>6
  <2>9. Apart(t) => t.uses \cap Bound(t) \subseteq Bound(last)
    BY <2>3, <2>5, <2>6
  <2> QED BY <2>1, <2>6, <2>7, <2>8, <2>9 DEF DoesNoHarm
<1> QED BY <1>1, <1>2

\* Nothing is lost by leaving a text as it is.
LEMMA SameDoesNoHarm == ASSUME NEW t PROVE DoesNoHarm(t, t)
  BY DEF DoesNoHarm

-----------------------------------------------------------------------------
Record == [item : Item, error : BOOLEAN, found : Text, left : Text]

DeliveryTypeOK ==
    /\ source \in [Sources -> Text]
    /\ place \in [Places -> [link : Sources \cup {Nothing}, text : Text]]
    /\ plan \in Seq(Item) /\ report \in Seq(Record)
    /\ changes \in Nat

\* What place d must be if r is the last record of it.
Told(d, r) ==
    \/ r.error
    \/ /\ r.item.rules = {} /\ r.item.mode = "symlink"
       /\ place[d].link = r.item.from
    \/ /\ r.item.rules # {} \/ r.item.mode = "copy"
       /\ place[d].link = Nothing => place[d].text = r.left
IsLast(d, i) ==
    /\ i \in DOMAIN report /\ report[i].item.to = d
    /\ \A k \in DOMAIN report : k > i => report[k].item.to # d

\* A record is true from the moment it is made until the next of its place.
DeliveryInv ==
    /\ DeliveryTypeOK
    /\ \A j \in DOMAIN report : \E i \in DOMAIN report :
           IsLast(report[j].item.to, i) /\ Told(report[j].item.to, report[i])
    /\ \A i \in DOMAIN report : DoesNoHarm(report[i].found, report[i].left)

\* No record, and places that are no links, satisfy it.
LEMMA DeliveryInit == Init => DeliveryInv
  BY ContextAssumption
     DEF Init, DeliveryInv, DeliveryTypeOK, File, Blank, Text

\* With it what ingest_all reports is true when it returns.
LEMMA DeliveryImplies == DeliveryInv => PlacesAreAsReported /\ RepairsDoNoHarm
<1> SUFFICES ASSUME DeliveryInv PROVE PlacesAreAsReported /\ RepairsDoNoHarm
  OBVIOUS
<1>1. RepairsDoNoHarm
  BY DEF RepairsDoNoHarm, DeliveryInv, DoesNoHarm
<1>2. ASSUME NEW j \in DOMAIN report PROVE Told(report[j].item.to, report[LastOf(report[j].item.to)])
  <2> DEFINE d == report[j].item.to
  <2>1. PICK i \in DOMAIN report : IsLast(d, i) /\ Told(d, report[i])
    BY DEF DeliveryInv
  <2>2. report \in Seq(Record)
    BY DEF DeliveryInv, DeliveryTypeOK
  <2> HIDE DEF d
  <2>3. IsLast(d, LastOf(d))
    BY <2>1 DEF LastOf, IsLast
  <2>4. LastOf(d) = i
    <3>1. DOMAIN report = 1..Len(report) /\ Len(report) \in Nat
      BY <2>2
    <3>2. ~(LastOf(d) > i) /\ ~(i > LastOf(d))
      BY <2>1, <2>3 DEF IsLast
    <3>3. i \in Nat /\ LastOf(d) \in Nat
      BY <2>1, <2>3, <3>1 DEF IsLast
    <3> QED BY <3>2, <3>3
  <2> QED BY <2>1, <2>4 DEF d
<1>3. PlacesAreAsReported
  BY <1>2 DEF PlacesAreAsReported, Told
<1> QED BY <1>1, <1>3

\* Writing to a place leaves all other places alone, and changes a source only
\* through a link to it.
LEMMA WriteIsLocal ==
    ASSUME DeliveryTypeOK, NEW d \in Places, NEW t \in Text, Write(d, t)
    PROVE  /\ source' \in [Sources -> Text]
           /\ place' \in [Places -> [link : Sources \cup {Nothing}, text : Text]]
           /\ Content(d)' = t
           /\ place'[d].link = Nothing => place'[d].text = t
           /\ \A e \in Places \ {d} : place'[e] = place[e]
           /\ \A f \in Sources : source'[f] # source[f] => place[d].link = f
<1> USE DEF DeliveryTypeOK
<1>1. CASE place[d].link = Nothing
  <2>1. place' = [place EXCEPT ![d] = File(t)] /\ source' = source
    BY <1>1 DEF Write
  <2>2. File(t) \in [link : Sources \cup {Nothing}, text : Text]
    BY DEF File
  <2>3. File(t).link = Nothing /\ File(t).text = t
    BY DEF File
  <2> QED BY <2>1, <2>2, <2>3 DEF Content
<1>2. CASE place[d].link # Nothing
  <2>1. source' = [source EXCEPT ![place[d].link] = t] /\ place' = place
    BY <1>2 DEF Write
  <2>2. place[d].link \in Sources
    BY <1>2
  <2> QED BY <1>2, <2>1, <2>2 DEF Content
<1> QED BY <1>1, <1>2

\* A file was delivered with the record r.
Delivers(r) ==
    /\ r \in Record /\ report' = Append(report, r)
    /\ source' \in [Sources -> Text]
    /\ place' \in [Places -> [link : Sources \cup {Nothing}, text : Text]]
    /\ DoesNoHarm(r.found, r.left)
    /\ Told(r.item.to, r)'
    /\ r.error \/ Content(r.item.to)' = r.left
    /\ \A e \in Places \ {r.item.to} : place'[e] = place[e]
    /\ \A f \in Sources : source'[f] # source[f] => \E d \in Places : place[d].link = f

\* Each of the three ways to deliver a file makes a record that is true.
LEMMA FileIsDelivered ==
    ASSUME DeliveryTypeOK, NEW item \in Item, NEW found \in Text, found = source[item.from],
           WriteRepaired(item) \/ MakeLink(item) \/ Copy(item)
    PROVE  \E r : Delivers(r)
<1> USE DEF DeliveryTypeOK
<1> DEFINE r(error, left) == [item |-> item, error |-> error, found |-> found, left |-> left]
<1>2. item.to \in Places /\ item.from \in Sources /\ item.from # Nothing
  BY ContextAssumption DEF Item
<1>4. ASSUME NEW error \in BOOLEAN, NEW left \in Text
      PROVE  /\ r(error, left) \in Record /\ r(error, left).item = item
             /\ r(error, left).error = error
             /\ r(error, left).found = found /\ r(error, left).left = left
  BY DEF Record
<1>5. ASSUME NEW error \in BOOLEAN, NEW left \in Text, Recorded(item, error, found, left)
      PROVE  report' = Append(report, r(error, left))
  BY <1>5 DEF Recorded
<1> HIDE DEF r
<1>6. ASSUME UNCHANGED <<source, place>>, Recorded(item, TRUE, found, found)
      PROVE  Delivers(r(TRUE, found))
  BY <1>2, <1>4, <1>5, <1>6, SameDoesNoHarm DEF Delivers, Told
<1>7. ASSUME NEW left \in Text, DoesNoHarm(found, left), Write(item.to, left),
             Recorded(item, FALSE, found, left), item.rules # {} \/ item.mode = "copy"
      PROVE  Delivers(r(FALSE, left))
  <2>1. /\ source' \in [Sources -> Text]
        /\ place' \in [Places -> [link : Sources \cup {Nothing}, text : Text]]
        /\ Content(item.to)' = left
        /\ place'[item.to].link = Nothing => place'[item.to].text = left
        /\ \A e \in Places \ {item.to} : place'[e] = place[e]
        /\ \A f \in Sources : source'[f] # source[f] => place[item.to].link = f
    BY <1>2, <1>7, WriteIsLocal
  <2>2. /\ r(FALSE, left) \in Record /\ r(FALSE, left).item = item
        /\ r(FALSE, left).found = found /\ r(FALSE, left).left = left
        /\ report' = Append(report, r(FALSE, left))
    BY <1>4, <1>5, <1>7
  <2>3. Told(item.to, r(FALSE, left))'
    BY <1>7, <2>1, <2>2 DEF Told
  <2> QED BY <1>2, <1>7, <2>1, <2>2, <2>3 DEF Delivers
<1>8. CASE WriteRepaired(item)
  <2>1. CASE found.kind = "binary"
    BY <1>6, <1>8, <2>1 DEF WriteRepaired
  <2>2. CASE found.kind # "binary"
    <3>1. /\ item.rules # {} /\ Recorded(item, FALSE, found, Repaired(found, item.rules))
          /\ Write(item.to, Repaired(found, item.rules))
      BY <1>8, <2>2 DEF WriteRepaired
    <3>2. /\ Repaired(found, item.rules) \in Text
          /\ DoesNoHarm(found, Repaired(found, item.rules))
      BY <1>2, RepairDoesNoHarm
    <3> QED BY <1>7, <3>1, <3>2
  <2> QED BY <2>1, <2>2
<1>9. CASE Copy(item)
  <2>1. CASE place[item.to].link = item.from
    BY <1>6, <1>9, <2>1 DEF Copy
  <2>2. CASE place[item.to].link # item.from
    <3>1. Write(item.to, found) /\ Recorded(item, FALSE, found, found) /\ item.mode = "copy"
      BY <1>9, <2>2 DEF Copy
    <3> QED BY <1>2, <1>7, <3>1, SameDoesNoHarm
  <2> QED BY <2>1, <2>2
<1>10. CASE MakeLink(item)
  <2>1. /\ item.rules = {} /\ item.mode = "symlink" /\ source' = source
        /\ place' = [place EXCEPT ![item.to] = Link(item.from)]
        /\ Recorded(item, FALSE, found, found)
    BY <1>10 DEF MakeLink
  <2>2. Link(item.from) \in [link : Sources \cup {Nothing}, text : Text]
    BY <1>2 DEF Link, Blank, Text
  <2>3. Link(item.from).link = item.from
    BY DEF Link
  <2>4. /\ place' \in [Places -> [link : Sources \cup {Nothing}, text : Text]]
        /\ place'[item.to].link = item.from
        /\ \A e \in Places \ {item.to} : place'[e] = place[e]
    BY <1>2, <2>1, <2>2, <2>3
  <2>5. Content(item.to)' = found
    BY <1>2, <2>1, <2>4 DEF Content
  <2>6. /\ r(FALSE, found) \in Record /\ r(FALSE, found).item = item
        /\ r(FALSE, found).found = found /\ r(FALSE, found).left = found
        /\ report' = Append(report, r(FALSE, found))
    BY <1>2, <1>4, <1>5, <2>1
  <2>7. Told(item.to, r(FALSE, found))'
    BY <2>1, <2>4, <2>6 DEF Told
  <2> QED BY <1>2, <2>1, <2>4, <2>5, <2>6, <2>7, SameDoesNoHarm DEF Delivers
<1> QED BY <1>8, <1>9, <1>10

\* A delivery makes its record the last of its place, and leaves the last ones
\* of the other places and these places alone.
LEMMA DeliveryKeeps ==
    ASSUME DeliveryInv, NEW r, Delivers(r), plan' = plan, changes' = changes
    PROVE  DeliveryInv'
<1>1. /\ report \in Seq(Record) /\ r \in Record /\ report' = Append(report, r)
  BY DEF DeliveryInv, DeliveryTypeOK, Delivers
<1>0. PICK n \in Nat : n = Len(report)
  BY <1>1
<1>2. report' \in Seq(Record) /\ DOMAIN report = 1..n /\ DOMAIN report' = 1..(n + 1)
  BY <1>0, <1>1
<1>3. report'[n + 1] = r /\ \A i \in 1..n : report'[i] = report[i]
  BY <1>0, <1>1
<1>4. DeliveryTypeOK'
  BY <1>2 DEF DeliveryInv, DeliveryTypeOK, Delivers
<1>5. ASSUME NEW i \in DOMAIN report' PROVE DoesNoHarm(report'[i].found, report'[i].left)
  <2>1. CASE i = n + 1
    BY <1>3, <2>1 DEF Delivers
  <2>2. CASE i \in 1..n
    BY <1>2, <1>3, <2>2 DEF DeliveryInv
  <2> QED BY <1>2, <2>1, <2>2
<1> DEFINE Keeps(d) == \E i \in DOMAIN report : IsLast(d, i) /\ Told(d, report[i])
<1>6. ASSUME NEW d, d = r.item.to PROVE Keeps(d)'
  <2>1. IsLast(d, n + 1)'
    BY <1>2, <1>3, <1>6 DEF IsLast
  <2>2. Told(d, r)'
    BY <1>6 DEF Delivers
  <2>3. Told(d, report[n + 1])'
    BY <1>3, <2>2 DEF Told
  <2> QED BY <1>2, <2>1, <2>3
<1>7. ASSUME NEW j \in 1..n, NEW d, d = report[j].item.to, d # r.item.to PROVE Keeps(d)'
  <2>1. PICK i \in 1..n : IsLast(d, i) /\ Told(d, report[i])
    BY <1>2, <1>7 DEF DeliveryInv
  <2>2. d \in Places
    <3>1. report[j] \in Record
      BY <1>1, <1>2
    <3> QED BY <1>7, <3>1 DEF Record, Item
  <2>3. place'[d] = place[d]
    BY <1>7, <2>2 DEF Delivers
  <2>4. IsLast(d, i)'
    BY <1>2, <1>3, <1>7, <2>1 DEF IsLast
  <2>5. Told(d, report[i])'
    BY <1>3, <2>1, <2>3 DEF Told
  <2> QED BY <1>2, <2>4, <2>5
<1>8. ASSUME NEW j \in DOMAIN report', NEW d, d = report'[j].item.to PROVE Keeps(d)'
  <2>1. CASE d # r.item.to
    <3>1. j \in 1..n /\ report'[j] = report[j]
      BY <1>2, <1>3, <1>8, <2>1
    <3> QED BY <1>7, <1>8, <2>1, <3>1
  <2> QED BY <1>6, <2>1
<1>9. (\A j \in DOMAIN report : Keeps(report[j].item.to))'
  BY <1>8
<1> QED BY <1>4, <1>5, <1>9 DEF DeliveryInv

\* The steps that deliver nothing keep the records with the places, or drop all.
LEMMA DeliveryStep == DeliveryInv /\ [Next]_contextVars => DeliveryInv'
<1> SUFFICES ASSUME DeliveryInv, [Next]_contextVars PROVE DeliveryInv'
  OBVIOUS
<1>1. DeliveryTypeOK
  BY DEF DeliveryInv
<1>2. ASSUME report' = << >>, DeliveryTypeOK' PROVE DeliveryInv'
  BY <1>2 DEF DeliveryInv
<1>3. ASSUME UNCHANGED <<place, plan, report>>, DeliveryTypeOK' PROVE DeliveryInv'
  <2>1. \A d, r : Told(d, r)' <=> Told(d, r)
    BY <1>3 DEF Told
  <2>2. \A d, i : IsLast(d, i)' <=> IsLast(d, i)
    BY <1>3 DEF IsLast
  <2> QED BY <1>3, <2>1, <2>2 DEF DeliveryInv
<1>4. ASSUME NEW p \in Plans, IngestAll(p) PROVE DeliveryInv'
  <2>1. DeliveryTypeOK'
    BY <1>1, <1>4, ContextAssumption DEF IngestAll, DeliveryTypeOK
  <2> QED BY <1>2, <1>4, <2>1 DEF IngestAll
<1>5. ASSUME IngestFile PROVE DeliveryInv'
  <2>1. PICK item, found : item = plan[Len(report) + 1] /\ found = source[item.from]
    OBVIOUS
  <2>2. item \in Item
    BY <1>1, <1>5, <2>1 DEF DeliveryTypeOK, IngestFile
  <2>3. found \in Text
    BY <1>1, <2>1, <2>2 DEF DeliveryTypeOK, Item
  <2>4. WriteRepaired(item) \/ MakeLink(item) \/ Copy(item)
    BY <1>5, <2>1 DEF IngestFile
  <2>5. PICK r : Delivers(r)
    BY <1>1, <2>1, <2>2, <2>3, <2>4, FileIsDelivered
  <2> QED BY <1>5, <2>5, DeliveryKeeps DEF IngestFile
<1>6. ASSUME KillIngestAll PROVE DeliveryInv'
  <2>1. PICK item : item = plan[Len(report) + 1]
    OBVIOUS
  <2>2. item \in Item /\ item.to \in Places
    <3>1. item \in Item
      BY <1>1, <1>6, <2>1 DEF DeliveryTypeOK, KillIngestAll
    <3> QED BY <3>1 DEF Item
  <2>3. Blank \in Text
    BY DEF Blank, Text
  <2>4. UNCHANGED <<source, place>> \/ Write(item.to, Blank)
    BY <1>6, <2>1 DEF KillIngestAll
  <2>5. /\ source' \in [Sources -> Text]
        /\ place' \in [Places -> [link : Sources \cup {Nothing}, text : Text]]
    BY <1>1, <2>2, <2>3, <2>4, WriteIsLocal DEF DeliveryTypeOK
  <2>6. DeliveryTypeOK'
    BY <1>1, <1>6, <2>5 DEF KillIngestAll, DeliveryTypeOK
  <2> QED BY <1>2, <1>6, <2>6 DEF KillIngestAll
<1>7. ASSUME RegistryNext PROVE DeliveryInv'
  <2>1. UNCHANGED <<source, place, plan, report, changes>>
    BY <1>7 DEF RegistryNext, Ingest, Read, Store, ReadBlueprint, Look, Register, KillIngest, ingested
  <2> QED BY <1>1, <1>3, <2>1 DEF DeliveryTypeOK
<1>8. ASSUME NEW f \in Sources, NEW t \in Texts, Edit(f, t) PROVE DeliveryInv'
  <2>1. source' \in [Sources -> Text]
    BY <1>1, <1>8, ContextAssumption DEF Edit, DeliveryTypeOK
  <2>2. UNCHANGED <<place, plan, report>> /\ changes' = changes + 1
    BY <1>8 DEF Edit, ingested
  <2> QED BY <1>1, <1>3, <2>1, <2>2 DEF DeliveryTypeOK
<1>9. ASSUME UNCHANGED contextVars PROVE DeliveryInv'
  BY <1>1, <1>3, <1>9 DEF contextVars, ingested, DeliveryTypeOK
<1> QED BY <1>4, <1>5, <1>6, <1>7, <1>8, <1>9 DEF Next, ContextNext, EditNext

\* A record is true when it is made, and the step that makes it changes no source
\* but through a link; nor does a kill.
LEMMA DeliveriesAreTrue ==
    ASSUME DeliveryInv, Next PROVE RecordsAreTrue /\ SourcesAreTheirOwners
<1>1. DeliveryTypeOK
  BY DEF DeliveryInv
<1>2. ASSUME source' = source, report' \in {report, << >>}
      PROVE  RecordsAreTrue /\ SourcesAreTheirOwners
  <2>1. ~(Len(report') > Len(report))
    <3>1. report \in Seq(Record) /\ Len(<< >>) = 0
      BY <1>1 DEF DeliveryTypeOK
    <3>2. Len(report) \in Nat
      BY <3>1
    <3> QED BY <1>2, <3>1, <3>2
  <2> QED BY <1>2, <2>1 DEF RecordsAreTrue, SourcesAreTheirOwners
<1>3. ASSUME NEW r, Delivers(r) PROVE RecordsAreTrue /\ SourcesAreTheirOwners
  <2>1. report \in Seq(Record) /\ r \in Record /\ report' = Append(report, r)
    BY <1>1, <1>3 DEF DeliveryTypeOK, Delivers
  <2>2. report'[Len(report')] = r
    BY <2>1
  <2>3. ASSUME NEW d \in Places, d = r.item.to, ~r.error PROVE Content(d)' = r.left
    BY <1>3, <2>3 DEF Delivers, Content
  <2>4. RecordsAreTrue
    BY <2>2, <2>3 DEF RecordsAreTrue
  <2>5. SourcesAreTheirOwners
    BY <1>3 DEF Delivers, SourcesAreTheirOwners
  <2> QED BY <2>4, <2>5
<1>4. ASSUME NEW p \in Plans, IngestAll(p) PROVE RecordsAreTrue /\ SourcesAreTheirOwners
  BY <1>2, <1>4 DEF IngestAll
<1>5. ASSUME IngestFile PROVE RecordsAreTrue /\ SourcesAreTheirOwners
  <2>1. PICK item, found : item = plan[Len(report) + 1] /\ found = source[item.from]
    OBVIOUS
  <2>2. item \in Item
    BY <1>1, <1>5, <2>1 DEF DeliveryTypeOK, IngestFile
  <2>3. found \in Text
    BY <1>1, <2>1, <2>2 DEF DeliveryTypeOK, Item
  <2>4. WriteRepaired(item) \/ MakeLink(item) \/ Copy(item)
    BY <1>5, <2>1 DEF IngestFile
  <2>5. PICK r : Delivers(r)
    BY <1>1, <2>1, <2>2, <2>3, <2>4, FileIsDelivered
  <2> QED BY <1>3, <2>5
<1>6. ASSUME KillIngestAll PROVE RecordsAreTrue /\ SourcesAreTheirOwners
  <2>1. PICK item : item = plan[Len(report) + 1]
    OBVIOUS
  <2>2. item \in Item
    BY <1>1, <1>6, <2>1 DEF DeliveryTypeOK, KillIngestAll
  <2>3. item.to \in Places /\ Blank \in Text
    BY <2>2 DEF Item, Blank, Text
  <2>4. UNCHANGED <<source, place>> \/ Write(item.to, Blank)
    BY <1>6, <2>1 DEF KillIngestAll
  <2>5. \A f \in Sources : source'[f] # source[f] => place[item.to].link = f
    BY <1>1, <2>3, <2>4, WriteIsLocal
  <2>6. SourcesAreTheirOwners
    BY <2>3, <2>5 DEF SourcesAreTheirOwners
  <2>7. report' = << >>
    BY <1>6 DEF KillIngestAll
  <2>8. ~(Len(report') > Len(report))
    <3>1. report \in Seq(Record) /\ Len(<< >>) = 0
      BY <1>1 DEF DeliveryTypeOK
    <3>2. Len(report) \in Nat
      BY <3>1
    <3> QED BY <2>7, <3>1, <3>2
  <2> QED BY <2>6, <2>8 DEF RecordsAreTrue
<1>7. ASSUME RegistryNext PROVE RecordsAreTrue /\ SourcesAreTheirOwners
  <2>1. source' = source /\ report' = report
    BY <1>7 DEF RegistryNext, Ingest, Read, Store, ReadBlueprint, Look, Register, KillIngest, ingested
  <2> QED BY <1>2, <2>1
<1>8. ASSUME NEW f \in Sources, NEW t \in Texts, Edit(f, t)
      PROVE  RecordsAreTrue /\ SourcesAreTheirOwners
  <2>1. report' = report /\ changes' = changes + 1 /\ changes \in Nat
    BY <1>1, <1>8 DEF Edit, ingested, DeliveryTypeOK
  <2>2. changes' # changes
    BY <2>1
  <2>3. ~(Len(report') > Len(report))
    <3>1. Len(report) \in Nat
      BY <1>1 DEF DeliveryTypeOK
    <3> QED BY <2>1, <3>1
  <2> QED BY <2>2, <2>3 DEF RecordsAreTrue, SourcesAreTheirOwners
<1> QED BY <1>4, <1>5, <1>6, <1>7, <1>8 DEF Next, ContextNext, EditNext

\* The records of ingest_all are true when they are made and when it returns,
\* what the rules of repair do breaks no text that parses and unbinds no name in
\* use, and no source changes but by its owner or through a link to it, whatever
\* the plans name twice, link or repair, and wherever a run is killed.
THEOREM DeliveriesAreReported == Spec => DeliveredIsReported
<1>1. Init => DeliveryInv
  BY DeliveryInit
<1>2. DeliveryInv /\ [Next]_contextVars => DeliveryInv'
  BY DeliveryStep
<1>3. DeliveryInv => PlacesAreAsReported /\ RepairsDoNoHarm
  BY DeliveryImplies
<1>4. DeliveryInv /\ [Next]_contextVars => [RecordsAreTrue /\ SourcesAreTheirOwners]_contextVars
  BY DeliveriesAreTrue
<1> QED BY <1>1, <1>2, <1>3, <1>4, PTL DEF Spec, DeliveredIsReported

-----------------------------------------------------------------------------
Version == [v : Nat, good : BOOLEAN]
Tree == [src : [Targets -> Version], out : [Targets -> Nat]]

StagedTypeOK ==
    /\ stagedMay \in StagedConditions
    /\ at \in [Builds -> {"idle", "admitted"} \cup InStage \cup Ended]
    /\ flag \in [Builds -> BOOLEAN]
    /\ src \in [Targets -> Version] /\ out \in [Targets -> Nat]
    /\ stage \in [Builds -> Tree] /\ todo \in [Builds -> SUBSET Files]
    /\ edits \in Nat

\* Builds, flags, trees, stages and worklists keep their types.
LEMMA TypeInit == StagedInit => StagedTypeOK
  BY StagedAssumption
     DEF StagedInit, StagedTypeOK, Version, Tree, EmptyStage, NoFile, InStage, Ended, Files

\* So they do in every step.
LEMMA TypeStep ==
    ASSUME StagedTypeOK, [StagedNext]_staged PROVE StagedTypeOK'
<1> USE DEF StagedTypeOK, InStage, Ended
<1>1. ASSUME NEW b \in Builds, Enter(b) PROVE StagedTypeOK'
  BY <1>1 DEF Enter, NowAt
<1>2. ASSUME NEW b \in Builds, ShortCircuit(b) PROVE StagedTypeOK'
  BY <1>2 DEF ShortCircuit, NowAt
<1>3. ASSUME NEW b \in Builds, Prepare(b) PROVE StagedTypeOK'
  <2>1. EmptyStage \in Tree
    BY DEF EmptyStage, Tree, Version, NoFile
  <2> HIDE DEF StagedTypeOK
  <2>2. flag' \in [Builds -> BOOLEAN]
    BY <1>3 DEF Prepare, SetBootstrapActive, StagedTypeOK
  <2> QED BY <1>3, <2>1, <2>2 DEF Prepare, NowAt, StagedTypeOK
<1>4. ASSUME NEW b \in Builds, CopyTargetFile(b) PROVE StagedTypeOK'
  <2>1. PICK t \in Targets :
          /\ stage' = [stage EXCEPT ![b].src[t] = src[t]]
          /\ todo' = [todo EXCEPT ![b] = @ \ {<<t, "src">>}]
    BY <1>4 DEF CopyTargetFile
  <2>2. stage' \in [Builds -> Tree]
    BY <2>1 DEF Tree
  <2>3. todo' \in [Builds -> SUBSET Files]
    BY <2>1
  <2> QED BY <1>4, <2>2, <2>3 DEF CopyTargetFile
<1>5. ASSUME NEW b \in Builds, Copied(b) PROVE StagedTypeOK'
  BY <1>5 DEF Copied, NowAt
<1>6. ASSUME NEW b \in Builds, StagingFails(b) PROVE StagedTypeOK'
  BY <1>6 DEF StagingFails, NowAt, SetBootstrapActive
<1>7. ASSUME NEW b \in Builds, BeginCycle(b) PROVE StagedTypeOK'
  BY <1>7 DEF BeginCycle, NowAt
<1>8. ASSUME NEW b \in Builds, Boundary(b) PROVE StagedTypeOK'
  BY <1>8 DEF Boundary, NowAt
<1>9. ASSUME NEW b \in Builds, BrainRaises(b) PROVE StagedTypeOK'
  BY <1>9 DEF BrainRaises, NowAt
<1>10. ASSUME NEW b \in Builds, CompileTargets(b) PROVE StagedTypeOK'
  <2>1. ASSUME NEW some PROVE Compiled(stage[b].src, some) \in [Targets -> Nat]
    BY DEF Compiled, Tree, Version
  <2>2. PICK some : stage' = [stage EXCEPT ![b].out = Compiled(stage[b].src, some)]
    BY <1>10 DEF CompileTargets
  <2>3. stage' \in [Builds -> Tree]
    BY <2>1, <2>2 DEF Tree
  <2>4. at' \in [Builds -> {"idle", "admitted"} \cup InStage \cup Ended]
    BY <1>10 DEF CompileTargets, NowAt
  <2> QED BY <1>10, <2>3, <2>4 DEF CompileTargets
<1>11. ASSUME NEW b \in Builds, EndCycles(b) PROVE StagedTypeOK'
  BY <1>11 DEF EndCycles, NowAt
<1>12. ASSUME NEW b \in Builds, Validate(b) PROVE StagedTypeOK'
  <2>1. Staged(b) \subseteq Files
    BY DEF Staged
  <2> QED BY <1>12, <2>1 DEF Validate, NowAt
<1>13. ASSUME NEW b \in Builds, PromoteFile(b) PROVE StagedTypeOK'
  <2>1. PICK f \in todo[b] :
          /\ todo' = [todo EXCEPT ![b] = @ \ {f}]
          /\ IF f[2] = "src"
             THEN src' = [src EXCEPT ![f[1]] = stage[b].src[f[1]]] /\ UNCHANGED out
             ELSE out' = [out EXCEPT ![f[1]] = stage[b].out[f[1]]] /\ UNCHANGED src
    BY <1>13 DEF PromoteFile
  <2>2. f \in Files
    OBVIOUS
  <2>3. f[1] \in Targets
    BY <2>2 DEF Files
  <2>4. stage[b].src \in [Targets -> Version] /\ stage[b].out \in [Targets -> Nat]
    BY DEF Tree
  <2>5. CASE f[2] = "src"
    <3>1. src' \in [Targets -> Version]
      BY <2>1, <2>3, <2>4, <2>5
    <3> QED BY <1>13, <2>1, <2>5, <3>1 DEF PromoteFile
  <2>6. CASE f[2] # "src"
    <3>1. out' \in [Targets -> Nat]
      BY <2>1, <2>3, <2>4, <2>6
    <3> QED BY <1>13, <2>1, <2>6, <3>1 DEF PromoteFile
  <2> QED BY <2>5, <2>6
<1>14. ASSUME NEW b \in Builds, PromoteFails(b) PROVE StagedTypeOK'
  BY <1>14 DEF PromoteFails, NowAt
<1>15. ASSUME NEW b \in Builds, Finish(b) PROVE StagedTypeOK'
  <2>1. EmptyStage \in Tree
    BY DEF EmptyStage, Tree, Version, NoFile
  <2> QED BY <1>15, <2>1 DEF Finish, Discard, SetBootstrapActive, NowAt
<1>16. ASSUME NEW b \in Builds, Dies(b) PROVE StagedTypeOK'
  <2>1. at' \in [Builds -> {"idle", "admitted"} \cup InStage \cup Ended]
    BY <1>16 DEF Dies
  <2>2. todo' \in [Builds -> SUBSET Files]
    BY <1>16 DEF Dies
  <2>3. flag' \in [Builds -> BOOLEAN]
    BY <1>16 DEF Dies, SetBootstrapActive
  <2> QED BY <1>16, <2>1, <2>2, <2>3 DEF Dies
<1>17. ASSUME NEW t \in Targets, EditLive(t) PROVE StagedTypeOK'
  <2>1. PICK good \in BOOLEAN : src' = [src EXCEPT ![t] = [v |-> edits + 1, good |-> good]]
    BY <1>17 DEF EditLive
  <2>2. src' \in [Targets -> Version]
    BY <2>1 DEF Version
  <2> QED BY <1>17, <2>2 DEF EditLive
<1> QED
  BY <1>1, <1>2, <1>3, <1>4, <1>5, <1>6, <1>7, <1>8, <1>9, <1>10, <1>11, <1>12,
     <1>13, <1>14, <1>15, <1>16, <1>17 DEF StagedNext, staged

-----------------------------------------------------------------------------
\* A build that has entered and has not ended.
Running(b) == at[b] \notin {"idle"} \cup Ended

OneAtATime ==
    "together" \notin stagedMay => \A b, c \in Builds : Running(b) /\ Running(c) => b = c

\* No build runs at first.
LEMMA OneInit == StagedInit => OneAtATime
  BY DEF StagedInit, OneAtATime, Running

\* Only the start of a build lets another one run, and it waits for the others.
LEMMA OneStep ==
    ASSUME StagedTypeOK, OneAtATime, [StagedNext]_staged PROVE OneAtATime'
<1> DEFINE NoneStarts == \A c \in Builds : Running(c)' => Running(c)
<1> USE DEF StagedTypeOK, Running, InStage, Ended
<1>0. stagedMay' = stagedMay
  BY DEF StagedNext, staged, Enter, ShortCircuit, Prepare, CopyTargetFile, Copied, StagingFails,
     BeginCycle, Boundary, BrainRaises, CompileTargets, EndCycles, Validate, PromoteFile,
     PromoteFails, Finish, Dies, EditLive
<1>1. ASSUME NoneStarts PROVE OneAtATime'
  BY <1>0, <1>1 DEF OneAtATime
<1>2. ASSUME NEW b \in Builds, Enter(b) PROVE OneAtATime'
  <2>1. ASSUME "together" \notin stagedMay, NEW c \in Builds, Running(c)' PROVE c = b
    BY <1>2, <2>1 DEF Enter, NowAt, MayStart
  <2> QED BY <1>0, <2>1 DEF OneAtATime
<1>3. ASSUME NEW b \in Builds, ShortCircuit(b) \/ Prepare(b) \/ Copied(b) \/ StagingFails(b)
      PROVE NoneStarts
  BY <1>3 DEF ShortCircuit, Prepare, Copied, StagingFails, NowAt
<1>4. ASSUME NEW b \in Builds, BeginCycle(b) \/ Boundary(b) \/ BrainRaises(b) \/ EndCycles(b)
      PROVE NoneStarts
  BY <1>4 DEF BeginCycle, Boundary, BrainRaises, EndCycles, NowAt
<1>5. ASSUME NEW b \in Builds, CompileTargets(b) PROVE NoneStarts
  BY <1>5 DEF CompileTargets, NowAt
<1>6. ASSUME NEW b \in Builds, Validate(b) \/ PromoteFails(b) \/ Finish(b) PROVE NoneStarts
  BY <1>6 DEF Validate, PromoteFails, Finish, NowAt
<1>7. ASSUME NEW b \in Builds, CopyTargetFile(b) \/ PromoteFile(b) PROVE NoneStarts
  BY <1>7 DEF CopyTargetFile, PromoteFile
<1>8. ASSUME NEW b \in Builds, Dies(b) PROVE NoneStarts
  BY <1>8 DEF Dies
<1>9. ASSUME NEW t \in Targets, EditLive(t) PROVE NoneStarts
  BY <1>9 DEF EditLive
<1>10. ASSUME UNCHANGED staged PROVE NoneStarts
  BY <1>10 DEF staged
<1> HIDE DEF NoneStarts
<1> QED
  BY <1>1, <1>2, <1>3, <1>4, <1>5, <1>6, <1>7, <1>8, <1>9, <1>10 DEF StagedNext

-----------------------------------------------------------------------------
InPass(b) == at[b] \in InStage

\* A step that leaves the flag alone and takes no build into a pass or out of it
\* keeps the guard right.
LEMMA GuardStays ==
    ASSUME GuardTellsTheTruth, stagedMay' = stagedMay, flag' = flag,
           \A c \in Builds : InPass(c)' = InPass(c)
    PROVE  GuardTellsTheTruth'
<1> SUFFICES ASSUME "fails" \notin stagedMay, "together" \in stagedMay => "apart" \in stagedMay, NEW b \in Builds
             PROVE  (flag[b] <=> \E c \in SameProcess(b) : at[c] \in InStage)'
  BY DEF GuardTellsTheTruth
<1>1. flag[b] <=> \E c \in SameProcess(b) : at[c] \in InStage
  BY DEF GuardTellsTheTruth
<1>2. SameProcess(b)' = SameProcess(b) /\ SameProcess(b) \subseteq Builds
  BY DEF SameProcess
<1> QED BY <1>1, <1>2 DEF InPass

\* So does one that sets the flag of the process as the build enters its pass,
\* or clears it as the build leaves it: of two in one process one alone runs.
LEMMA GuardMoves ==
    ASSUME StagedTypeOK, GuardTellsTheTruth, OneAtATime, stagedMay' = stagedMay,
           NEW b \in Builds, Running(b), NEW value \in BOOLEAN,
           SetBootstrapActive(b, value), InPass(b)' = value,
           \A c \in Builds \ {b} : InPass(c)' = InPass(c)
    PROVE  GuardTellsTheTruth'
<1> SUFFICES ASSUME "fails" \notin stagedMay, "together" \in stagedMay => "apart" \in stagedMay, NEW d \in Builds
             PROVE  (flag[d] <=> \E c \in SameProcess(d) : at[c] \in InStage)'
  BY DEF GuardTellsTheTruth
<1>1. flag[d] <=> \E c \in SameProcess(d) : at[c] \in InStage
  BY DEF GuardTellsTheTruth
<1>2. CASE "apart" \in stagedMay
  <2>1. SameProcess(b) = {b} /\ SameProcess(d) = {d} /\ SameProcess(d)' = {d}
    BY <1>2 DEF SameProcess
  <2>2. flag'[d] = IF d = b THEN value ELSE flag[d]
    BY <2>1 DEF SetBootstrapActive
  <2>3. CASE d = b
    BY <2>1, <2>2, <2>3 DEF InPass
  <2>4. CASE d # b
    BY <1>1, <2>1, <2>2, <2>4 DEF InPass
  <2> QED BY <2>3, <2>4
<1>3. CASE "apart" \notin stagedMay
  <2>1. SameProcess(b) = Builds /\ SameProcess(d)' = Builds
    BY <1>3 DEF SameProcess
  <2>2. flag'[d] = value
    BY <2>1 DEF SetBootstrapActive
  <2>3. \A c \in Builds \ {b} : ~InPass(c)
    BY <1>3 DEF OneAtATime, Running, InPass, InStage, Ended
  <2>4. (\E c \in Builds : InPass(c)') <=> value
    BY <2>3
  <2> QED BY <2>1, <2>2, <2>4 DEF InPass
<1> QED BY <1>2, <1>3

\* No flag is set at first, and no build is in its pass.
LEMMA GuardInit == StagedInit => GuardTellsTheTruth
  BY DEF StagedInit, GuardTellsTheTruth, SameProcess, InStage

\* The flag follows the passes of its process in every step.
LEMMA GuardStep ==
    ASSUME StagedTypeOK, OneAtATime, GuardTellsTheTruth, [StagedNext]_staged
    PROVE  GuardTellsTheTruth'
<1> DEFINE Stays == stagedMay' = stagedMay /\ flag' = flag /\ \A c \in Builds : InPass(c)' = InPass(c)
<1> USE DEF StagedTypeOK, InPass, InStage, Ended
<1>1. ASSUME Stays PROVE GuardTellsTheTruth'
  BY <1>1, GuardStays
<1>2. ASSUME NEW b \in Builds, Enter(b) \/ ShortCircuit(b) \/ Copied(b) PROVE Stays
  <2>1. CASE Enter(b)
    BY <2>1 DEF Enter, NowAt, MayStart
  <2>2. CASE ShortCircuit(b)
    BY <2>2 DEF ShortCircuit, NowAt, MayStart
  <2>3. CASE Copied(b)
    BY <2>3 DEF Copied, NowAt
  <2> QED BY <1>2, <2>1, <2>2, <2>3
<1>3. ASSUME NEW b \in Builds, BeginCycle(b) \/ Boundary(b) \/ BrainRaises(b) \/ EndCycles(b)
      PROVE Stays
  BY <1>3 DEF BeginCycle, Boundary, BrainRaises, EndCycles, NowAt
<1>4. ASSUME NEW b \in Builds, CompileTargets(b) PROVE Stays
  BY <1>4 DEF CompileTargets, NowAt
<1>5. ASSUME NEW b \in Builds, CopyTargetFile(b) \/ PromoteFile(b) PROVE Stays
  BY <1>5 DEF CopyTargetFile, PromoteFile
<1>6. ASSUME NEW b \in Builds, Validate(b) PROVE Stays
  BY <1>6 DEF Validate, NowAt
<1>7. ASSUME NEW t \in Targets, EditLive(t) PROVE Stays
  BY <1>7 DEF EditLive
<1>8. ASSUME UNCHANGED staged PROVE Stays
  BY <1>8 DEF staged
<1>9. ASSUME NEW b \in Builds, Prepare(b) PROVE GuardTellsTheTruth'
  <2>1. /\ stagedMay' = stagedMay /\ Running(b) /\ SetBootstrapActive(b, TRUE)
        /\ InPass(b)' = TRUE /\ \A c \in Builds \ {b} : InPass(c)' = InPass(c)
    BY <1>9 DEF Prepare, NowAt, Running
  <2> QED BY <2>1, GuardMoves
<1>10. ASSUME NEW b \in Builds, Finish(b) PROVE GuardTellsTheTruth'
  <2>1. stagedMay' = stagedMay /\ Running(b) /\ SetBootstrapActive(b, FALSE)
    BY <1>10 DEF Finish, Running
  <2>2. at' = [at EXCEPT ![b] = "done"]
    BY <1>10 DEF Finish, NowAt
  <2>3. InPass(b)' = FALSE
    BY <2>2
  <2>4. \A c \in Builds \ {b} : InPass(c)' = InPass(c)
    BY <2>2
  <2> QED BY <2>1, <2>3, <2>4, GuardMoves
<1>11. ASSUME NEW b \in Builds, Dies(b) PROVE GuardTellsTheTruth'
  <2>1. stagedMay' = stagedMay /\ Running(b) /\ SetBootstrapActive(b, FALSE)
    BY <1>11 DEF Dies, Running
  <2>4. at'[b] = "dead"
    BY <1>11 DEF Dies, SameProcess
  <2>5. InPass(b)' = FALSE
    BY <2>4
  <2>2. CASE "together" \in stagedMay /\ "apart" \notin stagedMay
    BY <2>1, <2>2 DEF GuardTellsTheTruth
  <2>3. CASE ~("together" \in stagedMay /\ "apart" \notin stagedMay)
    <3>1. ASSUME NEW c \in Builds \ {b} PROVE InPass(c)' = InPass(c)
      BY <1>11, <2>1, <2>3 DEF Dies, SameProcess, OneAtATime, Running
    <3> QED BY <2>1, <2>5, <3>1, GuardMoves
  <2> QED BY <2>2, <2>3
<1>12. ASSUME NEW b \in Builds, StagingFails(b) \/ PromoteFails(b) PROVE GuardTellsTheTruth'
  <2>1. "fails" \in stagedMay'
    BY <1>12 DEF StagingFails, PromoteFails
  <2> QED BY <2>1 DEF GuardTellsTheTruth
<1> HIDE DEF Stays
<1> QED
  BY <1>1, <1>2, <1>3, <1>4, <1>5, <1>6, <1>7, <1>8, <1>9, <1>10, <1>11, <1>12 DEF StagedNext

-----------------------------------------------------------------------------
\* What is in the stage of a build under way.
CompiledFromCopy(b) == \A t \in Targets : stage[b].out[t] \in {0, stage[b].src[t].v}
NothingCompiled(b) == \A t \in Targets : stage[b].out[t] = 0
CopyIsBetween(b) ==
    \A t \in Targets : stage[b].src[t] # NoFile =>
        out[t] <= stage[b].src[t].v /\ stage[b].src[t].v <= src[t].v
PromotesValid(b) == todo[b] \subseteq Staged(b) /\ \A t \in Python : stage[b].src[t].good

StageIsSound(b) ==
    /\ CompiledFromCopy(b)
    /\ at[b] = "copying" => NothingCompiled(b)
    /\ "together" \notin stagedMay => CopyIsBetween(b)
    /\ at[b] = "promote" => PromotesValid(b)
StagesAreSound == \A b \in Builds : InPass(b) => StageIsSound(b)

VersionsAreEdits == "together" \notin stagedMay => \A t \in Targets : src[t].v <= edits

SafetyInv ==
    /\ StagedTypeOK /\ OneAtATime /\ GuardTellsTheTruth
    /\ VersionsAreEdits /\ OutputsHaveTheirSource /\ StagesAreSound

\* The initial state satisfies it.
LEMMA SafetyInit == StagedInit => SafetyInv
<1> SUFFICES ASSUME StagedInit PROVE SafetyInv
  OBVIOUS
<1>1. VersionsAreEdits /\ OutputsHaveTheirSource
  BY DEF StagedInit, VersionsAreEdits, OutputsHaveTheirSource
<1>2. StagesAreSound
  BY DEF StagedInit, StagesAreSound, InPass, InStage
<1> QED BY <1>1, <1>2, TypeInit, OneInit, GuardInit DEF SafetyInv

\* A step that changes no file, and takes no build into a pass, into copying or
\* into promotion, keeps the trees and the stages sound.
Idles ==
    /\ stagedMay' = stagedMay /\ src' = src /\ out' = out /\ stage' = stage /\ edits' = edits
    /\ \A c \in Builds : InPass(c)' => InPass(c) /\ todo'[c] \subseteq todo[c]
    /\ \A c \in Builds : at'[c] \in {"copying", "promote"} => at[c] = at'[c]

FilesAreSound == VersionsAreEdits /\ OutputsHaveTheirSource /\ StagesAreSound

LEMMA IdleStep == ASSUME FilesAreSound, Idles PROVE FilesAreSound'
<1>1. (VersionsAreEdits /\ OutputsHaveTheirSource)'
  BY DEF FilesAreSound, Idles, VersionsAreEdits, OutputsHaveTheirSource
<1>2. ASSUME NEW b \in Builds, InPass(b)' PROVE StageIsSound(b)'
  <2>1. StageIsSound(b)
    BY <1>2 DEF Idles, FilesAreSound, StagesAreSound
  <2>2. CompiledFromCopy(b)' /\ (at[b] = "copying" => NothingCompiled(b))'
    BY <2>1 DEF Idles, StageIsSound, CompiledFromCopy, NothingCompiled
  <2>3. ("together" \notin stagedMay => CopyIsBetween(b))'
    BY <2>1 DEF Idles, StageIsSound, CopyIsBetween
  <2>4. Staged(b)' = Staged(b)
    BY DEF Idles, Staged
  <2>5. (at[b] = "promote" => PromotesValid(b))'
    BY <1>2, <2>1, <2>4 DEF Idles, StageIsSound, PromotesValid
  <2> QED BY <2>2, <2>3, <2>5 DEF StageIsSound
<1> QED BY <1>1, <1>2 DEF FilesAreSound, StagesAreSound

\* What another build does to its stage alone leaves this one as sound as it was.
LEMMA OtherStages ==
    ASSUME StagedTypeOK, StagesAreSound, stagedMay' = stagedMay, src' = src, out' = out,
           NEW b \in Builds,
           \A c \in Builds \ {b} : at'[c] = at[c] /\ stage'[c] = stage[c] /\ todo'[c] = todo[c],
           InPass(b)' => StageIsSound(b)'
    PROVE  StagesAreSound'
<1>1. ASSUME NEW c \in Builds \ {b}, InPass(c)' PROVE StageIsSound(c)'
  <2>1. at'[c] = at[c] /\ stage'[c] = stage[c] /\ todo'[c] = todo[c] /\ StageIsSound(c)
    BY <1>1 DEF StagesAreSound, InPass
  <2>2. Staged(c)' = Staged(c)
    BY <2>1 DEF Staged
  <2>3. CompiledFromCopy(c)' /\ (at[c] = "copying" => NothingCompiled(c))'
    BY <2>1 DEF StageIsSound, CompiledFromCopy, NothingCompiled
  <2>4. ("together" \notin stagedMay => CopyIsBetween(c))'
    BY <2>1 DEF StageIsSound, CopyIsBetween
  <2>5. (at[c] = "promote" => PromotesValid(c))'
    BY <2>1, <2>2 DEF StageIsSound, PromotesValid
  <2> QED BY <2>3, <2>4, <2>5 DEF StageIsSound
<1> QED BY <1>1 DEF StagesAreSound

\* A new stage is empty, and stays without outputs while it is filled: each copy
\* is what the live source is then.
LEMMA CopyingStep ==
    ASSUME StagedTypeOK, FilesAreSound, NEW b \in Builds, Prepare(b) \/ CopyTargetFile(b)
    PROVE  FilesAreSound'
<1> USE DEF StagedTypeOK
<1>1. stagedMay' = stagedMay /\ src' = src /\ out' = out /\ edits' = edits
  BY DEF Prepare, CopyTargetFile
<1>2. \A c \in Builds \ {b} : at'[c] = at[c] /\ stage'[c] = stage[c] /\ todo'[c] = todo[c]
  BY DEF Prepare, CopyTargetFile, NowAt
<1>3. (VersionsAreEdits /\ OutputsHaveTheirSource)'
  BY <1>1 DEF FilesAreSound, VersionsAreEdits, OutputsHaveTheirSource
<1>4. ASSUME Prepare(b) PROVE StageIsSound(b)'
  <2>1. at'[b] = "copying" /\ stage'[b] = EmptyStage
    BY <1>4 DEF Prepare, NowAt
  <2>2. \A t \in Targets : stage'[b].src[t] = NoFile /\ stage'[b].out[t] = 0
    BY <2>1 DEF EmptyStage
  <2> QED BY <2>1, <2>2 DEF StageIsSound, CompiledFromCopy, NothingCompiled, CopyIsBetween
<1>5. ASSUME CopyTargetFile(b) PROVE StageIsSound(b)'
  <2>1. PICK t \in Targets : stage' = [stage EXCEPT ![b].src[t] = src[t]]
    BY <1>5 DEF CopyTargetFile
  <2>2. at[b] = "copying" /\ at' = at
    BY <1>5 DEF CopyTargetFile
  <2>3. StageIsSound(b)
    BY <2>2 DEF FilesAreSound, StagesAreSound, InPass, InStage
  <2>4. /\ stage'[b].src = [stage[b].src EXCEPT ![t] = src[t]]
        /\ stage'[b].out = stage[b].out
    BY <2>1 DEF Tree
  <2>5. \A u \in Targets : stage'[b].out[u] = 0
    BY <2>2, <2>3, <2>4 DEF StageIsSound, NothingCompiled
  <2>6. ASSUME "together" \notin stagedMay PROVE CopyIsBetween(b)'
    <3>1. CopyIsBetween(b) /\ \A u \in Targets : out[u] <= src[u].v
      BY <2>3, <2>6 DEF StageIsSound, FilesAreSound, OutputsHaveTheirSource
    <3>2. stage[b].src \in [Targets -> Version] /\ \A u \in Targets : src[u].v \in Nat
      BY DEF Tree, Version
    <3>3. ASSUME NEW u \in Targets, stage'[b].src[u] # NoFile
          PROVE  out[u] <= stage'[b].src[u].v /\ stage'[b].src[u].v <= src[u].v
      <4>1. CASE u = t
        <5>1. stage'[b].src[u] = src[u]
          BY <2>4, <3>2, <4>1
        <5> QED BY <3>1, <3>2, <5>1
      <4>2. CASE u # t
        <5>1. stage'[b].src[u] = stage[b].src[u]
          BY <2>4, <3>2, <4>2
        <5> QED BY <3>1, <3>3, <5>1 DEF CopyIsBetween
      <4> QED BY <4>1, <4>2
    <3> QED BY <1>1, <3>3 DEF CopyIsBetween
  <2> QED BY <1>1, <2>2, <2>5, <2>6 DEF StageIsSound, CompiledFromCopy, NothingCompiled
<1>6. StagesAreSound'
  BY <1>1, <1>2, <1>4, <1>5, OtherStages DEF FilesAreSound
<1> QED BY <1>3, <1>6 DEF FilesAreSound

\* What is compiled bears the number of the copy it was compiled from.
LEMMA CompileStep ==
    ASSUME StagedTypeOK, FilesAreSound, NEW b \in Builds, CompileTargets(b)
    PROVE  FilesAreSound'
<1> USE DEF StagedTypeOK
<1>1. stagedMay' = stagedMay /\ src' = src /\ out' = out /\ edits' = edits
  BY DEF CompileTargets
<1>2. PICK some : stage' = [stage EXCEPT ![b].out = Compiled(stage[b].src, some)]
  BY DEF CompileTargets
<1>3. /\ at[b] = "compile" /\ at'[b] \in {"cycle", "final"}
      /\ \A c \in Builds \ {b} : at'[c] = at[c] /\ stage'[c] = stage[c] /\ todo'[c] = todo[c]
  BY DEF CompileTargets, NowAt
<1>4. StageIsSound(b)
  BY <1>3 DEF FilesAreSound, StagesAreSound, InPass, InStage
<1>5. stage'[b].src = stage[b].src /\ stage'[b].out = Compiled(stage[b].src, some)
  BY <1>2 DEF Tree
<1>6. CompiledFromCopy(b)'
  BY <1>5 DEF CompiledFromCopy, Compiled
<1>7. ("together" \notin stagedMay => CopyIsBetween(b))'
  BY <1>1, <1>4, <1>5 DEF StageIsSound, CopyIsBetween
<1>8. StageIsSound(b)'
  BY <1>3, <1>6, <1>7 DEF StageIsSound
<1>9. (VersionsAreEdits /\ OutputsHaveTheirSource)'
  BY <1>1 DEF FilesAreSound, VersionsAreEdits, OutputsHaveTheirSource
<1>10. StagesAreSound'
  BY <1>1, <1>3, <1>8, OtherStages DEF FilesAreSound
<1> QED BY <1>9, <1>10 DEF FilesAreSound

\* What will be promoted is in the stage, and its Python sources parse.
LEMMA ValidateStep ==
    ASSUME StagedTypeOK, FilesAreSound, NEW b \in Builds, Validate(b)
    PROVE  FilesAreSound'
<1> USE DEF StagedTypeOK
<1>1. stagedMay' = stagedMay /\ src' = src /\ out' = out /\ edits' = edits /\ stage' = stage
  BY DEF Validate
<1>2. /\ at[b] = "final" /\ at'[b] = "promote" /\ todo'[b] = Staged(b)
      /\ \A c \in Builds \ {b} : at'[c] = at[c] /\ stage'[c] = stage[c] /\ todo'[c] = todo[c]
  BY DEF Validate, NowAt
<1>3. StageIsSound(b)
  BY <1>2 DEF FilesAreSound, StagesAreSound, InPass, InStage
<1>4. Staged(b)' = Staged(b)
  BY <1>1 DEF Staged
<1>5. PromotesValid(b)'
  BY <1>1, <1>2, <1>4 DEF PromotesValid, Validate, Valid, AllParse
<1>6. CompiledFromCopy(b)' /\ ("together" \notin stagedMay => CopyIsBetween(b))'
  BY <1>1, <1>3 DEF StageIsSound, CompiledFromCopy, CopyIsBetween
<1>7. StageIsSound(b)'
  BY <1>2, <1>5, <1>6 DEF StageIsSound
<1>8. (VersionsAreEdits /\ OutputsHaveTheirSource)'
  BY <1>1 DEF FilesAreSound, VersionsAreEdits, OutputsHaveTheirSource
<1>9. StagesAreSound'
  BY <1>1, <1>2, <1>7, OtherStages DEF FilesAreSound
<1> QED BY <1>8, <1>9 DEF FilesAreSound

\* An edit makes the source of one target newer than every copy of it.
LEMMA EditStep ==
    ASSUME StagedTypeOK, FilesAreSound, NEW t \in Targets, EditLive(t)
    PROVE  FilesAreSound'
<1> USE DEF StagedTypeOK
<1>1. /\ stagedMay' = stagedMay /\ at' = at /\ out' = out /\ stage' = stage /\ todo' = todo
      /\ edits' = edits + 1
  BY DEF EditLive
<1>2. PICK good : src' = [src EXCEPT ![t] = [v |-> edits + 1, good |-> good]]
  BY DEF EditLive
<1>3. ASSUME "together" \notin stagedMay, NEW u \in Targets
      PROVE  src[u].v <= src'[u].v /\ src'[u].v <= edits'
  <2>1. PICK m \in Nat, n \in Nat : m = src[u].v /\ n = edits /\ m <= n
    BY <1>3 DEF FilesAreSound, VersionsAreEdits, Version
  <2>2. src'[u].v = IF u = t THEN n + 1 ELSE m
    BY <1>2, <2>1
  <2> QED BY <1>1, <2>1, <2>2
<1>4. ASSUME NEW u \in Targets PROVE src[u].v \in Nat /\ src'[u].v \in Nat
  BY <1>2 DEF Version
<1>5. VersionsAreEdits'
  BY <1>1, <1>3 DEF VersionsAreEdits
<1>6. OutputsHaveTheirSource'
  <2>1. ASSUME "together" \notin stagedMay, NEW u \in Targets PROVE out'[u] <= src'[u].v
    <3>1. out[u] <= src[u].v /\ out[u] \in Nat
      BY <2>1 DEF FilesAreSound, OutputsHaveTheirSource
    <3> QED BY <1>1, <1>3, <1>4, <2>1, <3>1
  <2> QED BY <1>1, <2>1 DEF OutputsHaveTheirSource
<1>7. ASSUME NEW b \in Builds, InPass(b)' PROVE StageIsSound(b)'
  <2>1. StageIsSound(b) /\ Staged(b)' = Staged(b)
    BY <1>1, <1>7 DEF FilesAreSound, StagesAreSound, InPass, Staged
  <2>2. ASSUME "together" \notin stagedMay, CopyIsBetween(b), NEW u \in Targets, stage[b].src[u] # NoFile
        PROVE  out[u] <= stage[b].src[u].v /\ stage[b].src[u].v <= src'[u].v
    <3>1. stage[b].src[u].v \in Nat
      BY DEF Tree, Version
    <3>2. out[u] <= stage[b].src[u].v /\ stage[b].src[u].v <= src[u].v
      BY <2>2 DEF CopyIsBetween
    <3> QED BY <1>3, <1>4, <2>2, <3>1, <3>2
  <2>3. ("together" \notin stagedMay => CopyIsBetween(b))'
    BY <1>1, <2>1, <2>2 DEF StageIsSound, CopyIsBetween
  <2>4. CompiledFromCopy(b)' /\ (at[b] = "copying" => NothingCompiled(b))'
    BY <1>1, <2>1 DEF StageIsSound, CompiledFromCopy, NothingCompiled
  <2>5. (at[b] = "promote" => PromotesValid(b))'
    BY <1>1, <2>1 DEF StageIsSound, PromotesValid
  <2> QED BY <2>3, <2>4, <2>5 DEF StageIsSound
<1> QED BY <1>5, <1>6, <1>7 DEF FilesAreSound, StagesAreSound

\* A promoted source is the copy, which the output beside it is not newer than;
\* a promoted output was compiled from a copy not newer than the source there.
LEMMA PromoteStep ==
    ASSUME StagedTypeOK, OneAtATime, FilesAreSound, NEW b \in Builds, PromoteFile(b)
    PROVE  FilesAreSound'
<1> USE DEF StagedTypeOK
<1>1. /\ stagedMay' = stagedMay /\ at' = at /\ stage' = stage /\ edits' = edits /\ at[b] = "promote"
      /\ \A c \in Builds : todo'[c] \subseteq todo[c]
  BY DEF PromoteFile
<1>2. StageIsSound(b)
  BY <1>1 DEF FilesAreSound, StagesAreSound, InPass, InStage
<1>3. PICK f \in todo[b] :
        IF f[2] = "src"
        THEN src' = [src EXCEPT ![f[1]] = stage[b].src[f[1]]] /\ out' = out
        ELSE out' = [out EXCEPT ![f[1]] = stage[b].out[f[1]]] /\ src' = src
  BY DEF PromoteFile
<1>4. f \in Staged(b) /\ f[1] \in Targets
  BY <1>1, <1>2, <1>3 DEF StageIsSound, PromotesValid, Staged, Files
<1> DEFINE t == f[1]
           Sound(u) ==
               /\ out'[u] <= src'[u].v /\ src'[u].v <= edits
               /\ stage[b].src[u] # NoFile =>
                      out'[u] <= stage[b].src[u].v /\ stage[b].src[u].v <= src'[u].v
<1>5. ASSUME NEW u \in Targets
      PROVE  out[u] \in Nat /\ src[u].v \in Nat /\ stage[b].src[u].v \in Nat
  BY DEF Version, Tree
<1>6. ASSUME "together" \notin stagedMay, NEW u \in Targets
      PROVE  /\ out[u] <= src[u].v /\ src[u].v <= edits
             /\ stage[b].src[u] # NoFile =>
                    out[u] <= stage[b].src[u].v /\ stage[b].src[u].v <= src[u].v
  BY <1>2, <1>6
     DEF StageIsSound, CopyIsBetween, FilesAreSound, VersionsAreEdits, OutputsHaveTheirSource
<1>7. ASSUME "together" \notin stagedMay, NEW u \in Targets, u # t PROVE Sound(u)
  <2>1. out'[u] = out[u] /\ src'[u] = src[u]
    BY <1>3, <1>4, <1>7
  <2> QED BY <1>6, <1>7, <2>1
<1>8. ASSUME "together" \notin stagedMay, f[2] = "src" PROVE Sound(t)
  <2>1. out'[t] = out[t] /\ src'[t] = stage[b].src[t] /\ stage[b].src[t] # NoFile
    BY <1>3, <1>4, <1>8 DEF Staged
  <2>2. out[t] <= stage[b].src[t].v /\ stage[b].src[t].v <= src[t].v /\ src[t].v <= edits
    BY <1>4, <1>6, <1>8, <2>1
  <2> QED BY <1>4, <1>5, <2>1, <2>2
<1>9. ASSUME "together" \notin stagedMay, f[2] # "src" PROVE Sound(t)
  <2>1. out'[t] = stage[b].out[t] /\ src'[t] = src[t] /\ stage[b].out[t] # 0
    BY <1>3, <1>4, <1>9 DEF Staged
  <2>2. stage[b].out[t] = stage[b].src[t].v
    BY <1>2, <1>4, <2>1 DEF StageIsSound, CompiledFromCopy
  <2>3. stage[b].src[t] # NoFile
    BY <2>1, <2>2 DEF NoFile
  <2>4. out'[t] = stage[b].src[t].v /\ stage[b].src[t].v <= src[t].v /\ src[t].v <= edits
    BY <1>4, <1>6, <1>9, <2>1, <2>2, <2>3
  <2> QED BY <1>4, <1>5, <2>1, <2>4
<1>10. ASSUME "together" \notin stagedMay, NEW u \in Targets PROVE Sound(u)
  BY <1>7, <1>8, <1>9, <1>10
<1>11. (VersionsAreEdits /\ OutputsHaveTheirSource)'
  BY <1>1, <1>10 DEF VersionsAreEdits, OutputsHaveTheirSource
<1>12. ASSUME NEW c \in Builds, InPass(c)' PROVE StageIsSound(c)'
  <2>1. StageIsSound(c) /\ Staged(c)' = Staged(c)
    BY <1>1, <1>12 DEF FilesAreSound, StagesAreSound, InPass, Staged
  <2>2. CompiledFromCopy(c)' /\ (at[c] = "copying" => NothingCompiled(c))'
    BY <1>1, <2>1 DEF StageIsSound, CompiledFromCopy, NothingCompiled
  <2>3. (at[c] = "promote" => PromotesValid(c))'
    BY <1>1, <2>1 DEF StageIsSound, PromotesValid
  <2>4. ASSUME "together" \notin stagedMay PROVE CopyIsBetween(c)'
    <3>1. c = b
      BY <1>1, <1>12, <2>4 DEF OneAtATime, Running, InPass, InStage, Ended
    <3> QED BY <1>1, <1>10, <2>4, <3>1 DEF CopyIsBetween
  <2> QED BY <1>1, <2>2, <2>3, <2>4 DEF StageIsSound
<1> QED BY <1>11, <1>12 DEF FilesAreSound, StagesAreSound

\* Only a build that stages, compiles, validates or promotes, and an edit, bear
\* on the trees; every other step idles or drops the stage.
LEMMA FilesStep ==
    ASSUME StagedTypeOK, OneAtATime, FilesAreSound, [StagedNext]_staged
    PROVE  FilesAreSound'
<1> USE DEF StagedTypeOK, InPass, InStage, Ended
<1>1. ASSUME Idles PROVE FilesAreSound'
  BY <1>1, IdleStep
<1>2. ASSUME NEW b \in Builds, Enter(b) \/ ShortCircuit(b) PROVE Idles
  BY <1>2 DEF Enter, ShortCircuit, NowAt, Idles
<1>3. ASSUME NEW b \in Builds, Copied(b) PROVE Idles
  BY <1>3 DEF Copied, NowAt, Idles
<1>4. ASSUME NEW b \in Builds, StagingFails(b) PROVE Idles
  BY <1>4 DEF StagingFails, NowAt, Idles
<1>5. ASSUME NEW b \in Builds, BeginCycle(b) \/ Boundary(b) PROVE Idles
  BY <1>5 DEF BeginCycle, Boundary, NowAt, Idles
<1>6. ASSUME NEW b \in Builds, BrainRaises(b) \/ EndCycles(b) \/ PromoteFails(b) PROVE Idles
  BY <1>6 DEF BrainRaises, EndCycles, PromoteFails, NowAt, Idles
<1>7. ASSUME NEW b \in Builds, Dies(b) PROVE Idles
  BY <1>7 DEF Dies, Idles
<1>8. ASSUME UNCHANGED staged PROVE Idles
  BY <1>8 DEF staged, Idles
<1>9. ASSUME NEW b \in Builds, Finish(b) PROVE FilesAreSound'
  <2>1. /\ stagedMay' = stagedMay /\ src' = src /\ out' = out /\ edits' = edits /\ at'[b] = "done"
        /\ \A c \in Builds \ {b} : at'[c] = at[c] /\ stage'[c] = stage[c] /\ todo'[c] = todo[c]
    BY <1>9 DEF Finish, NowAt, Discard
  <2>2. (VersionsAreEdits /\ OutputsHaveTheirSource)'
    BY <2>1 DEF FilesAreSound, VersionsAreEdits, OutputsHaveTheirSource
  <2>3. ~InPass(b)'
    BY <2>1
  <2>4. StagesAreSound'
    BY <2>1, <2>3, OtherStages DEF FilesAreSound
  <2> QED BY <2>2, <2>4 DEF FilesAreSound
<1>10. ASSUME NEW b \in Builds, Prepare(b) \/ CopyTargetFile(b) PROVE FilesAreSound'
  BY <1>10, CopyingStep
<1>11. ASSUME NEW b \in Builds, CompileTargets(b) PROVE FilesAreSound'
  BY <1>11, CompileStep
<1>12. ASSUME NEW b \in Builds, Validate(b) PROVE FilesAreSound'
  BY <1>12, ValidateStep
<1>13. ASSUME NEW b \in Builds, PromoteFile(b) PROVE FilesAreSound'
  BY <1>13, PromoteStep
<1>14. ASSUME NEW t \in Targets, EditLive(t) PROVE FilesAreSound'
  BY <1>14, EditStep
<1> QED
  BY <1>1, <1>2, <1>3, <1>4, <1>5, <1>6, <1>7, <1>8, <1>9, <1>10, <1>11, <1>12, <1>13, <1>14
  DEF StagedNext

-----------------------------------------------------------------------------
\* Every step preserves the invariant.
LEMMA SafetyStep == SafetyInv /\ [StagedNext]_staged => SafetyInv'
<1> SUFFICES ASSUME SafetyInv, [StagedNext]_staged PROVE SafetyInv'
  OBVIOUS
<1>1. StagedTypeOK /\ OneAtATime /\ GuardTellsTheTruth /\ FilesAreSound
  BY DEF SafetyInv, FilesAreSound
<1>2. StagedTypeOK' /\ OneAtATime' /\ GuardTellsTheTruth' /\ FilesAreSound'
  BY <1>1, TypeStep, OneStep, GuardStep, FilesStep
<1> QED BY <1>2 DEF SafetyInv, FilesAreSound

\* The guard holds off nested passes but among threads of one process and after
\* staging or promotion raised, and no output in the live tree is newer than the
\* source beside it unless builds run at the same time, wherever a build fails,
\* dies or promotes half of its files (set_bootstrap_active, promote).
THEOREM SelfHostingStaysSafe == StagedSpec => []SelfHostingIsSafe
<1>1. StagedInit => SafetyInv
  BY SafetyInit
<1>2. SafetyInv /\ [StagedNext]_staged => SafetyInv'
  BY SafetyStep
<1>3. SafetyInv => SelfHostingIsSafe
  BY DEF SafetyInv, SelfHostingIsSafe
<1> QED BY <1>1, <1>2, <1>3, PTL DEF StagedSpec

\* Only a promotion writes a source besides an edit, and what it writes over a
\* Python source parses.
LEMMA PromotionsParse ==
    ASSUME SafetyInv, StagedNext,
           NEW t \in Python, src[t].good, ~src'[t].good
    PROVE  edits' # edits
<1> USE DEF StagedTypeOK
<1>1. t \in Targets
  BY StagedAssumption
<1>2. CASE src' = src
  BY <1>2
<1>3. ASSUME NEW b \in Builds, PromoteFile(b) PROVE FALSE
  <2>1. \A u \in Python : stage[b].src[u].good
    BY <1>3 DEF PromoteFile, SafetyInv, StagesAreSound, InPass, InStage, StageIsSound, PromotesValid
  <2>2. PICK f : src' = [src EXCEPT ![f] = stage[b].src[f]] \/ src' = src
    BY <1>3 DEF PromoteFile
  <2>3. src'[t] = src[t] \/ src'[t] = stage[b].src[t]
    BY <1>1, <2>2 DEF SafetyInv
  <2> QED BY <2>1, <2>3
<1>4. ASSUME NEW u \in Targets, EditLive(u) PROVE edits' # edits
  BY <1>4 DEF EditLive, SafetyInv
<1>5. src' = src \/ (\E b \in Builds : PromoteFile(b)) \/ (\E u \in Targets : EditLive(u))
  BY DEF StagedNext, Enter, ShortCircuit, Prepare, CopyTargetFile, Copied, StagingFails,
     BeginCycle, Boundary, BrainRaises, CompileTargets, EndCycles, Validate, PromoteFails,
     Finish, Dies
<1> QED BY <1>2, <1>3, <1>4, <1>5

\* A build never puts a source that does not parse into the live tree, or puts
\* one back there, whatever is edited, fails or runs at the same time
\* (_bootstrap_validator, promote).
THEOREM OnlyEditsBreakSources == StagedSpec => OnlyEditsBreak
<1> DEFINE Step == \A t \in Python : src[t].good /\ ~src'[t].good => edits' # edits
<1>1. StagedInit => SafetyInv
  BY SafetyInit
<1>2. SafetyInv /\ [StagedNext]_staged => SafetyInv'
  BY SafetyStep
<1>3. SafetyInv /\ [StagedNext]_staged => [Step]_staged
  BY PromotionsParse
<1>4. OnlyEditsBreak <=> [][Step]_staged
  BY DEF OnlyEditsBreak
<1> HIDE DEF Step
<1> QED BY <1>1, <1>2, <1>3, <1>4, PTL DEF StagedSpec
==============================================================================

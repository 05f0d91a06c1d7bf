---------------------------- MODULE ReplayBuffer ----------------------------
(***************************************************************************)
(* builder_brains/experience_replay.py: several processes that record      *)
(* trajectories in one JSON file under flock.  A read-modify-write cycle   *)
(* is taken apart into the system calls other processes can run between:   *)
(* create, seed, lock and read, truncate, write and unlock.                *)
(***************************************************************************)
EXTENDS Naturals, Sequences, FiniteSets

CONSTANTS
    Procs,
    None,
    MaxSize,
    Results,
    MaxRecords, \* bound: trajectories recorded in a behaviour
    Conditions  \* the sets of things that may happen in one execution

ASSUME BufferAssumption ==
    /\ MaxSize \in Nat \ {0} /\ Results \subseteq Nat /\ MaxRecords \in Nat
    /\ None \notin Procs
    /\ Conditions \subseteq SUBSET {"fresh", "crash", "write"}

\* "fresh": there is no file when the first buffer is made; "crash": a process
\* is killed; "write": there is no space left.
VARIABLES
    may,        \* what may happen in this execution
    file,       \* the bytes of the file, by what they parse to
    lock,       \* holder of LOCK_EX
    pc,         \* where each process is
    job,        \* the trajectory it records, or None for clear
    base,       \* the list it parsed under the lock
    acked,      \* trajectories for which record_trajectory returned True
    issued      \* number of trajectories so far

vars == <<may, file, lock, pc, job, base, acked, issued>>

Trajectory == [result : Results, nr : 0..(MaxRecords - 1)]

-----------------------------------------------------------------------------
\* File contents: no file, an empty file, a JSON array, anything else.
Absent == [kind |-> "absent", list |-> << >>]
Empty == [kind |-> "empty", list |-> << >>]
Torn == [kind |-> "torn", list |-> << >>]
Array(s) == [kind |-> "array", list |-> s]

\* _parse_ledger: what cannot be parsed is an empty list.
Parsed(f) == f.list

\* The seed "[]" written at offset 0 of a file that may have grown meanwhile.
Seeded(f) == IF f.kind = "empty" \/ f = Array(<< >>) THEN Array(<< >>) ELSE Torn

\* What the file is read as once the cycle in progress has ended or was undone.
Committed == IF lock = None THEN Parsed(file) ELSE base[lock]

Shared == INSTANCE ReplayLedger WITH
    ledger <- Committed, Numbers <- 0..(MaxRecords - 1)

\* The mutate callback of record_trajectory and of clear.
Mutated(p) == IF job[p] = None THEN << >> ELSE Shared!Inserted(base[p], job[p])

-----------------------------------------------------------------------------
BufferInit ==
    /\ may \in Conditions
    /\ file = IF "fresh" \in may THEN Absent ELSE Array(<< >>)
    /\ lock = None
    /\ pc = [p \in Procs |-> "idle"]
    /\ job = [p \in Procs |-> None]
    /\ base = [p \in Procs |-> << >>]
    /\ acked = {} /\ issued = 0

\* _ensure_file: the file is there, or this process creates it, empty.
EnsureFile(p) ==
    IF file.kind = "absent" THEN file' = Empty /\ pc' = [pc EXCEPT ![p] = "created"]
    ELSE pc' = [pc EXCEPT ![p] = "ready"] /\ UNCHANGED file

StartRecord(p) ==
    /\ pc[p] = "idle" /\ issued < MaxRecords
    /\ \E r \in Results : job' = [job EXCEPT ![p] = [result |-> r, nr |-> issued]]
    /\ issued' = issued + 1
    /\ EnsureFile(p)
    /\ UNCHANGED <<may, lock, base, acked>>

StartClear(p) ==
    /\ pc[p] = "idle"
    /\ job' = [job EXCEPT ![p] = None]
    /\ EnsureFile(p)
    /\ UNCHANGED <<may, lock, base, acked, issued>>

\* The process that created the file writes the seed under LOCK_EX, which it
\* takes only after the file is visible to the others.
Seed(p) ==
    /\ pc[p] = "created" /\ lock = None
    /\ file' = Seeded(file)
    /\ pc' = [pc EXCEPT ![p] = "ready"]
    /\ UNCHANGED <<may, lock, job, base, acked, issued>>

\* Mutant: the list a process read in an earlier cycle is used again.
LockAndRead_Cached(p) ==
    /\ pc[p] = "ready" /\ lock = None
    /\ lock' = p
    /\ base' = [base EXCEPT ![p] = IF @ = << >> THEN Parsed(file) ELSE @]
    /\ pc' = [pc EXCEPT ![p] = "locked"]
    /\ UNCHANGED <<may, file, job, acked, issued>>

LockAndRead(p) ==
    /\ pc[p] = "ready" /\ lock = None
    /\ lock' = p
    /\ base' = [base EXCEPT ![p] = Parsed(file)]
    /\ pc' = [pc EXCEPT ![p] = "locked"]
    /\ UNCHANGED <<may, file, job, acked, issued>>

Truncate(p) ==
    /\ pc[p] = "locked"
    /\ file' = Empty
    /\ pc' = [pc EXCEPT ![p] = "truncated"]
    /\ UNCHANGED <<may, lock, job, base, acked, issued>>

\* os.write, LOCK_UN, return True.
WriteAndUnlock(p) ==
    /\ pc[p] = "truncated"
    /\ file' = Array(Mutated(p))
    /\ lock' = None
    /\ pc' = [pc EXCEPT ![p] = "idle"]
    /\ acked' = IF job[p] = None THEN {} ELSE acked \cup {job[p]}
    /\ UNCHANGED <<may, job, base, issued>>

\* The write fails, or writes a part, which its result would tell; then True.
WriteFails(p) ==
    /\ "write" \in may /\ pc[p] = "truncated"
    /\ \/ file' = Torn /\ acked' = IF job[p] = None THEN {} ELSE acked \cup {job[p]}
       \/ UNCHANGED <<file, acked>>
    /\ lock' = None
    /\ pc' = [pc EXCEPT ![p] = "idle"]
    /\ UNCHANGED <<may, job, base, issued>>

\* The kernel drops the locks of a killed process.
Crash(p) ==
    /\ "crash" \in may /\ pc[p] \in {"created", "locked", "truncated"}
    /\ lock' = IF lock = p THEN None ELSE lock
    /\ pc' = [pc EXCEPT ![p] = "idle"]
    /\ UNCHANGED <<may, file, job, base, acked, issued>>

BufferNext ==
    \/ \E p \in Procs : StartRecord(p)
    \/ \E p \in Procs : StartClear(p)
    \/ \E p \in Procs : Seed(p)
    \/ \E p \in Procs : LockAndRead(p)
    \/ \E p \in Procs : Truncate(p)
    \/ \E p \in Procs : WriteAndUnlock(p)
    \/ \E p \in Procs : WriteFails(p)
    \/ \E p \in Procs : Crash(p)

BufferSpec == BufferInit /\ [][BufferNext]_vars

-----------------------------------------------------------------------------
\* "only the top max_size highest-performing trajectories survive": a recorded
\* trajectory is in the list, or the list is full of results at least as good,
\* however the cycles of the processes interleave.  (The process that creates
\* the file seeds it late, and the file is rewritten in place, so first use,
\* kills and failing writes lose trajectories.)
OnlyBeatenAreDropped ==
    may = {} => \A t \in acked :
        \/ \E i \in DOMAIN Committed : Committed[i] = t
        \/ /\ Len(Committed) = MaxSize
           /\ \A i \in DOMAIN Committed : Committed[i].result >= t.result

\* Every step of the protocol is an atomic Record or Clear of the shared list,
\* or leaves it alone: no schedule and no fault brings back an older list or
\* mixes two.  (What a fault costs shows as a Clear.)
IsOneLedger == Shared!LedgerSpec
=============================================================================

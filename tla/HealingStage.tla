----------------------------- MODULE HealingStage -----------------------------
(***************************************************************************)
(* orchestrator.py, AeroCoreExecutionOrchestrator.process_target_file and  *)
(* AeroShadowStagingManager: a source file is repaired in a staging        *)
(* directory, verified there and swapped into the production tree.  A      *)
(* content is the edit it is based on, the transaction that repaired it    *)
(* (none: a developer wrote it) and whether it compiles.                   *)
(***************************************************************************)
EXTENDS Naturals, FiniteSets

CONSTANTS
    Txns,           \* healing transactions
    Managers,       \* staging managers, each of which owns a directory
    Files,          \* production files
    Setups,         \* who heals what, and whether something may fail
    Budget,         \* build_retry_budget as given
    MaxEdits,       \* bound: edits of the production files
    NoTxn           \* no transaction

ASSUME HealingAssumption ==
    /\ \A s \in Setups :
        s \in [manager : [Txns -> Managers], target : [Txns -> Files], fails : BOOLEAN]
    /\ Budget \in Nat /\ MaxEdits \in Nat
    /\ NoTxn \notin Txns

VARIABLES
    setup,      \* the manager and the file of each transaction; may a repair
                \* raise, or a verifier be missing or too slow?
    step,       \* where each transaction is
    attempt,    \* number of the attempt
    patch,      \* the content that the repair function will write
    prod,       \* production files
    stage,      \* staged file of each manager and target, or Nothing
    result,     \* what each transaction returned
    edits       \* edits so far

staged == <<setup, step, attempt, patch, prod, stage, result, edits>>

\* The retry budget B is bound to a maximum value of 3.
B == IF Budget < 1 THEN 1 ELSE IF Budget > 3 THEN 3 ELSE Budget
Written(v, good) == [v |-> v, by |-> NoTxn, good |-> good]
Nothing == Written(0, FALSE)
Mine(t) == stage[setup.manager[t]][setup.target[t]]

-----------------------------------------------------------------------------
HealingInit ==
    /\ setup \in Setups
    /\ step = [t \in Txns |-> "idle"] /\ attempt = [t \in Txns |-> 0]
    /\ patch = [t \in Txns |-> Nothing]
    /\ prod = [f \in Files |-> Written(1, FALSE)]
    /\ stage = [m \in Managers |-> [f \in Files |-> Nothing]]
    /\ result = [t \in Txns |-> "none"] /\ edits = 1

Goto(t, l) == step' = [step EXCEPT ![t] = l]
SetMine(t, c) == stage' = [stage EXCEPT ![setup.manager[t]][setup.target[t]] = c]
Returns(t, r) == result' = [result EXCEPT ![t] = r]

\* The file is read and recovered once; the repair closes over what was read,
\* so every attempt writes the same, whatever it is fed.
ReadSource(t) ==
    /\ step[t] = "idle"
    /\ \E good \in BOOLEAN :
        patch' = [patch EXCEPT ![t] = [v |-> prod[setup.target[t]].v, by |-> t, good |-> good]]
    /\ Goto(t, "read")
    /\ UNCHANGED <<setup, attempt, prod, stage, result, edits>>

\* Anomalies remain after recovery.
Unrecoverable(t) ==
    /\ step[t] = "idle"
    /\ Goto(t, "ended") /\ Returns(t, "fallback_unrecoverable")
    /\ UNCHANGED <<setup, attempt, patch, prod, stage, edits>>

CopyToStage(t) ==
    /\ step[t] = "read"
    /\ SetMine(t, prod[setup.target[t]])
    /\ attempt' = [attempt EXCEPT ![t] = 1]
    /\ Goto(t, "feeding")
    /\ UNCHANGED <<setup, patch, prod, result, edits>>

NextAttempt(t) ==
    IF attempt[t] < B
    THEN attempt' = [attempt EXCEPT ![t] = @ + 1] /\ Goto(t, "feeding") /\ UNCHANGED result
    ELSE Goto(t, "purging") /\ Returns(t, "rolled_back") /\ UNCHANGED attempt

\* The staged file is read for the repair function.
Feed(t) ==
    /\ step[t] = "feeding" /\ Mine(t) # Nothing
    /\ Goto(t, "repairing")
    /\ UNCHANGED <<setup, attempt, patch, prod, stage, result, edits>>

\* The staged file, or its directory, is gone, or the repair function raises.
RepairRaises(t) ==
    /\ \/ step[t] = "feeding" /\ Mine(t) = Nothing
       \/ step[t] = "repairing" /\ (Mine(t) = Nothing \/ setup.fails)
    /\ NextAttempt(t)
    /\ UNCHANGED <<setup, patch, prod, stage, edits>>

Repair(t) ==
    /\ step[t] = "repairing"
    /\ SetMine(t, patch[t])
    /\ Goto(t, "verifying")
    /\ UNCHANGED <<setup, attempt, patch, prod, result, edits>>

Verify_MissingIsFine(t) ==  \* Mutant: without a verifier nothing is asserted.
    /\ step[t] = "verifying" /\ (Mine(t).good \/ setup.fails)
    /\ Goto(t, "swapping")
    /\ UNCHANGED <<setup, attempt, patch, prod, stage, result, edits>>

Verify(t) ==
    /\ step[t] = "verifying" /\ Mine(t).good
    /\ Goto(t, "swapping")
    /\ UNCHANGED <<setup, attempt, patch, prod, stage, result, edits>>

VerifyFails(t) ==
    /\ step[t] = "verifying" /\ (~Mine(t).good \/ setup.fails)
    /\ NextAttempt(t)
    /\ UNCHANGED <<setup, patch, prod, stage, edits>>

\* What is staged now replaces the production file.
Swap(t) ==
    /\ step[t] = "swapping" /\ Mine(t) # Nothing
    /\ prod' = [prod EXCEPT ![setup.target[t]] = Mine(t)]
    /\ Goto(t, "purging") /\ Returns(t, "promoted")
    /\ UNCHANGED <<setup, attempt, patch, stage, edits>>

\* The staged file is gone, or the production directory cannot be written.
SwapRaises(t) ==
    /\ step[t] = "swapping" /\ (Mine(t) = Nothing \/ setup.fails)
    /\ Goto(t, "purging") /\ Returns(t, "raised")
    /\ UNCHANGED <<setup, attempt, patch, prod, stage, edits>>

\* The finally block removes the manager's whole directory.
Purge(t) ==
    /\ step[t] = "purging"
    /\ stage' = [stage EXCEPT ![setup.manager[t]] = [f \in Files |-> Nothing]]
    /\ Goto(t, "ended")
    /\ UNCHANGED <<setup, attempt, patch, prod, result, edits>>

Edit(f) ==
    /\ edits < MaxEdits
    /\ edits' = edits + 1
    /\ \E good \in BOOLEAN : prod' = [prod EXCEPT ![f] = Written(edits + 1, good)]
    /\ UNCHANGED <<setup, step, attempt, patch, stage, result>>

Run(t) ==
    \/ ReadSource(t) \/ Unrecoverable(t) \/ CopyToStage(t) \/ Feed(t) \/ RepairRaises(t)
    \/ Repair(t) \/ Verify(t) \/ VerifyFails(t) \/ Swap(t) \/ SwapRaises(t) \/ Purge(t)

HealingNext ==
    \/ \E t \in Txns : ReadSource(t)
    \/ \E t \in Txns : Unrecoverable(t)
    \/ \E t \in Txns : CopyToStage(t)
    \/ \E t \in Txns : Feed(t)
    \/ \E t \in Txns : RepairRaises(t)
    \/ \E t \in Txns : Repair(t)
    \/ \E t \in Txns : Verify(t)
    \/ \E t \in Txns : VerifyFails(t)
    \/ \E t \in Txns : Swap(t)
    \/ \E t \in Txns : SwapRaises(t)
    \/ \E t \in Txns : Purge(t)
    \/ \E f \in Files : Edit(f)

\* Each transaction is a thread that runs on, and verifiers have a timeout: the
\* module that composes this one states WF of Run(t).
HealingSpec == HealingInit /\ [][HealingNext]_staged

-----------------------------------------------------------------------------
\* t has its staged file to itself.
Private(t) ==
    \A u \in Txns \ {t} :
        setup.manager[u] = setup.manager[t] => setup.target[u] # setup.target[t]

\* "verifies the result ..., and only then performs an atomic swap": what a
\* transaction puts into production compiles, whatever is edited and whatever
\* fails.  (Of two transactions of one manager on one file, one may stage
\* another content after the verification and before the swap.)
OnlyVerifiedIsSwapped ==
    [][\A f \in Files :
        prod'[f] # prod[f] /\ (\A t \in Txns : Private(t)) => prod'[f].good \/ edits' # edits]_staged

\* A transaction that reports a rollback has left production untouched: its
\* repair is not there.
RollbackLeavesProduction ==
    \A f \in Files :
        prod[f].by # NoTxn /\ Private(prod[f].by) => result[prod[f].by] = "promoted"

\* Without failures, a repair that compiles is promoted: transactions of
\* different managers that run in parallel do not disturb each other, on one
\* file either.  (Those of one manager purge each other's staged file.)
GoodRepairIsPromoted ==
    \A t \in Txns :
        /\ ~setup.fails /\ \A u \in Txns \ {t} : setup.manager[u] # setup.manager[t]
        /\ step[t] = "ended" /\ patch[t].good
        => result[t] = "promoted"

=============================================================================

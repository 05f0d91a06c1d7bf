---------------------------- MODULE HpcScheduler ----------------------------
(***************************************************************************)
(* src/hpc/scheduler.py: submit_many with wait=True on a SLURM or PBS      *)
(* cluster.  Jobs are submitted by a pool of threads and then waited for   *)
(* one after the other, by polling commands whose output is normalised.    *)
(***************************************************************************)
EXTENDS Naturals, Sequences, FiniteSets

CONSTANTS
    Jobs,           \* the jobs, a sequence of names; a job is its position
    MaxParallel,    \* worker threads
    MaxPolls,       \* bound: polls until wait's timeout has passed
    Clusters        \* the sets of things that hold of one cluster

ASSUME HpcAssumption ==
    /\ Jobs \in Seq(STRING) /\ MaxParallel \in Nat \ {0} /\ MaxPolls \in Nat
    /\ Clusters \subseteq SUBSET {"pbs", "forgets", "flaky", "oom", "killed"}

\* "pbs": the scheduler is PBS, else SLURM; "forgets": sacct does not know
\* finished jobs; "flaky": squeue, sacct or qstat may fail for a moment; "oom",
\* "killed": a job may run out of memory, or be killed by its user.
VARIABLES
    clusterMay, \* what holds of this cluster
    at,         \* where submit_many is with each job
    jobState,   \* HPCJob.state
    polls,      \* polls of each job
    script,     \* script file -> the job whose commands it holds, 0 if none
    cluster,    \* what each job is on the cluster
    runs,       \* the job whose commands the cluster took for each job
    cancelled   \* jobs that were cancelled

hpcVars == <<clusterMay, at, jobState, polls, script, cluster, runs, cancelled>>

Ids == DOMAIN Jobs
ScriptNames == {Jobs[j] : j \in Ids}
Terminal == {"COMPLETED", "FAILED", "CANCELLED", "TIMEOUT", "NODE_FAIL"}

-----------------------------------------------------------------------------
\* What the cluster prints for a job.
Ended == {"ok", "bad", "oom", "killed", "slow"}
Raw(phase) ==
    IF "pbs" \in clusterMay
    THEN CASE phase = "queued" -> {"Q"} [] phase = "running" -> {"R"} [] OTHER -> {"C", "F"}
    ELSE CASE phase = "queued" -> {"PENDING"} [] phase = "running" -> {"RUNNING"}
           [] phase = "ok" -> {"COMPLETED"} [] phase = "bad" -> {"FAILED"}
           [] phase = "slow" -> {"TIMEOUT"} [] phase = "killed" -> {"CANCELLED by 1000"}
           [] OTHER -> {"OUT_OF_MEMORY"}

SlurmMap == [PENDING |-> "PENDING", RUNNING |-> "RUNNING", COMPLETED |-> "COMPLETED",
             FAILED |-> "FAILED", TIMEOUT |-> "TIMEOUT", R |-> "RUNNING", F |-> "FAILED"]
PbsMap == [Q |-> "PENDING", R |-> "RUNNING", C |-> "COMPLETED", F |-> "COMPLETED"]

\* Mutant: every unknown state is a completed job.
NormalizeState_Completed(raw) ==
    IF raw \in {"RUNNING", "PENDING"} THEN raw ELSE "COMPLETED"

\* _normalize_state looks in the SLURM table first, whatever the scheduler is.
NormalizeState(raw) ==
    IF raw \in DOMAIN SlurmMap THEN SlurmMap[raw]
    ELSE IF raw \in DOMAIN PbsMap THEN PbsMap[raw]
    ELSE raw

\* status: the states a poll may report.  A job that the scheduler's commands
\* do not list counts as completed: it may be finished and forgotten, or the
\* commands may have failed.
Unlisted(j) ==
    \/ "flaky" \in clusterMay
    \/ cluster[j] \in Ended /\ clusterMay \cap {"pbs", "forgets"} # {}

Status(j) ==
    {NormalizeState(r) : r \in Raw(cluster[j])}
        \cup (IF Unlisted(j) THEN {"COMPLETED"} ELSE {})

-----------------------------------------------------------------------------
HpcInit ==
    /\ clusterMay \in Clusters
    /\ at = [j \in Ids |-> "new"] /\ jobState = [j \in Ids |-> "UNKNOWN"]
    /\ polls = [j \in Ids |-> 0]
    /\ script = [n \in ScriptNames |-> 0]
    /\ cluster = [j \in Ids |-> "none"] /\ runs = [j \in Ids |-> 0]
    /\ cancelled = {}

Busy == {j \in Ids : at[j] = "written"}

\* A worker thread takes the jobs in order.
Taken(j) == /\ at[j] = "new" /\ \A i \in 1..(j - 1) : at[i] # "new"
            /\ Cardinality(Busy) < MaxParallel

Fails(j) ==
    /\ at' = [at EXCEPT ![j] = "refused"] /\ jobState' = [jobState EXCEPT ![j] = "FAILED"]

WriteScript(j) ==
    /\ Taken(j)
    /\ script' = [script EXCEPT ![Jobs[j]] = j]
    /\ at' = [at EXCEPT ![j] = "written"]
    /\ UNCHANGED <<clusterMay, jobState, polls, cluster, runs, cancelled>>

\* No scheduler on this machine, or the script cannot be written.
SubmitImpossible(j) ==
    /\ Taken(j) /\ Fails(j)
    /\ UNCHANGED <<clusterMay, polls, script, cluster, runs, cancelled>>

\* sbatch or qsub reads the script that is there now.
SubmitAccepted(j) ==
    /\ at[j] = "written"
    /\ at' = [at EXCEPT ![j] = "submitted"] /\ jobState' = [jobState EXCEPT ![j] = "PENDING"]
    /\ cluster' = [cluster EXCEPT ![j] = "queued"]
    /\ runs' = [runs EXCEPT ![j] = script[Jobs[j]]]
    /\ UNCHANGED <<clusterMay, polls, script, cancelled>>

\* The command fails, or its output has no job id though the job is queued.
SubmitRefused(j) ==
    /\ at[j] = "written" /\ Fails(j)
    /\ \/ UNCHANGED <<cluster, runs>>
       \/ /\ cluster' = [cluster EXCEPT ![j] = "queued"]
          /\ runs' = [runs EXCEPT ![j] = script[Jobs[j]]]
    /\ UNCHANGED <<clusterMay, polls, script, cancelled>>

\* wait is called for the jobs in order, when all have been submitted.
InWait(j) ==
    /\ at[j] = "submitted"
    /\ \A i \in Ids : at[i] \notin {"new", "written"}
    /\ \A i \in 1..(j - 1) : at[i] \in {"done", "refused"}

\* cancel only if the command is there.
Cancel(j) ==
    \/ cancelled' = cancelled \cup {j}
       /\ cluster' = [cluster EXCEPT ![j] = IF @ \in Ended THEN @ ELSE "killed"]
    \/ UNCHANGED <<cancelled, cluster>>

Poll(j) ==
    /\ InWait(j)
    /\ \E s \in Status(j) :
        \/ /\ s \in Terminal
           /\ at' = [at EXCEPT ![j] = "done"] /\ jobState' = [jobState EXCEPT ![j] = s]
           /\ UNCHANGED <<polls, cluster, cancelled>>
        \/ /\ s \notin Terminal /\ polls[j] < MaxPolls
           /\ polls' = [polls EXCEPT ![j] = @ + 1] /\ jobState' = [jobState EXCEPT ![j] = s]
           /\ UNCHANGED <<at, cluster, cancelled>>
        \/ /\ s \notin Terminal /\ polls[j] = MaxPolls
           /\ at' = [at EXCEPT ![j] = "done"] /\ jobState' = [jobState EXCEPT ![j] = "TIMEOUT"]
           /\ Cancel(j) /\ UNCHANGED polls
    /\ UNCHANGED <<clusterMay, script, runs>>

ClusterStarts(j) ==
    /\ cluster[j] = "queued"
    /\ cluster' = [cluster EXCEPT ![j] = "running"]
    /\ UNCHANGED <<clusterMay, at, jobState, polls, script, runs, cancelled>>

ClusterEnds(j) ==
    /\ cluster[j] = "running"
    /\ \E o \in {"ok", "bad", "slow"} \cup ({"oom", "killed"} \cap clusterMay) :
         cluster' = [cluster EXCEPT ![j] = o]
    /\ UNCHANGED <<clusterMay, at, jobState, polls, script, runs, cancelled>>

HpcNext ==
    \/ \E j \in Ids : WriteScript(j)
    \/ \E j \in Ids : SubmitImpossible(j)
    \/ \E j \in Ids : SubmitAccepted(j)
    \/ \E j \in Ids : SubmitRefused(j)
    \/ \E j \in Ids : Poll(j)
    \/ \E j \in Ids : ClusterStarts(j)
    \/ \E j \in Ids : ClusterEnds(j)

HpcSpec == HpcInit /\ [][HpcNext]_hpcVars

\* The pool's threads and the polling loop keep running.
HpcFairSpec ==
    HpcSpec /\ \A j \in Ids :
        WF_hpcVars(WriteScript(j) \/ SubmitImpossible(j) \/ SubmitAccepted(j)
                  \/ SubmitRefused(j) \/ Poll(j))

-----------------------------------------------------------------------------
\* "Poll until the job reaches a terminal state (or times out)": a job that
\* got an id is reported completed if its commands succeeded and failed if they
\* did not, when the cluster is SLURM and its commands answer.  (A job they do
\* not list counts as completed, and a finished PBS job as failed.)
VerdictIsTrue ==
    clusterMay \cap {"pbs", "forgets", "flaky"} = {} =>
        \A j \in Ids : at[j] = "done" =>
            /\ jobState[j] = "COMPLETED" => cluster[j] = "ok"
            /\ jobState[j] = "FAILED" => cluster[j] \in {"bad", "oom"}

\* The cluster runs the commands of the job it was given, if no other job has
\* its name.
OwnCommands ==
    \A j \in Ids : (\A i \in Ids \ {j} : Jobs[i] # Jobs[j]) => runs[j] \in {0, j}

\* submit_many returns.
AllReturn == <>(\A j \in Ids : at[j] \in {"done", "refused"})

\* Every job runs its own commands, and is reported as they ended (submit,
\* write_script, wait).
JobsAreReportedRight == OwnCommands /\ VerdictIsTrue
=============================================================================

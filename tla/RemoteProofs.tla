---------------------------- MODULE RemoteProofs ----------------------------
(***************************************************************************)
(* What aero-topos may rely on when it hands work to somebody else: the    *)
(* backends of src/build/distributed.py, the cluster of                    *)
(* src/hpc/scheduler.py and the language server of                         *)
(* core/toolchain/lsp_proxy.py, for every value of the constants.          *)
(***************************************************************************)
EXTENDS DistributedBuild, HpcScheduler, LspProxy, FiniteSetTheorems, TLAPS

-----------------------------------------------------------------------------
(* The coordinator.  A task's attempts exclude each other, so before the   *)
(* last one either a local backend has been tried, and succeeded, or as    *)
(* many different remote backends as there have been attempts.             *)

\* What is known of a task that runs locally.
Progress(t) ==
  /\ tried[t] \subseteq Remotes
  /\ pc[t] \in {"queued", "pick"} => attempt[t] = Cardinality(tried[t])
  /\ pc[t] \in {"index", "run", "mark"} => attempt[t] = Cardinality(tried[t]) + 1
  /\ pc[t] = "index" => \A i \in list[t] : i \in DOMAIN Backends /\ Backends[i] \notin tried[t]
  /\ pc[t] \in {"run", "mark"} => worker[t] \notin tried[t] /\ worker[t] \in Names \cup {Fallback}
  /\ pc[t] = "mark" => ~IsLocal(worker[t])
  /\ pc[t] = "done" => success[t]

TInv ==
  /\ DOMAIN pc = Tasks /\ DOMAIN attempt = Tasks /\ DOMAIN tried = Tasks
  /\ DOMAIN list = Tasks /\ DOMAIN worker = Tasks /\ DOMAIN success = Tasks
  /\ \A t \in Tasks : pc[t] \in {"queued", "pick", "index", "run", "mark", "done"}
  /\ \A t \in Good \cup Func : Progress(t)

\* A coordinator has finitely many backends.
LEMMA FiniteBackends == IsFiniteSet(Names) /\ IsFiniteSet(Remotes)
<1>1. Backends \in Seq(Names)
  BY CoordinatorConstants DEF CoordinatorAssumption
<1>2. /\ Len(Backends) \in Nat /\ DOMAIN Backends = 1 .. Len(Backends)
      /\ Backends \in [DOMAIN Backends -> Names]
  BY <1>1
<1>3. IsFiniteSet(DOMAIN Backends)
  <2>1. IsFiniteSet(1 .. Len(Backends))
    <3>1. 1 \in Int /\ Len(Backends) \in Int
      BY <1>2
    <3> QED BY <3>1, FS_Interval, Zenon
  <2> QED BY <1>2, <2>1
<1>4. Backends \in Surjection(DOMAIN Backends, Names)
  BY <1>2 DEF Surjection, Names
<1>5. IsFiniteSet(Names)
  BY <1>3, <1>4, FS_Surjection
<1> QED BY <1>5, FS_Subset DEF Remotes

\* The inductive invariant: the limit does not change, and TInv holds where it
\* exceeds the number of remote backends.
IInv == maxAttempts \in Nat /\ (FewRemotes => TInv)

\* A dispatch begins with nothing tried.
LEMMA InitTInv == ASSUME maxAttempts # 0 PROVE Init => TInv
<1> SUFFICES ASSUME Init PROVE TInv
  OBVIOUS
<1>1. Good \cup Func \subseteq Tasks
  BY CoordinatorConstants DEF CoordinatorAssumption
<1> QED BY <1>1, FS_EmptySet DEF Init, TInv, Progress

\* The step of one thread leaves what is known of the other tasks as it is.
LEMMA OtherTasks ==
  ASSUME NEW t, NEW u, t # u, Progress(u),
         tried'[u] = tried[u], pc'[u] = pc[u], attempt'[u] = attempt[u],
         list'[u] = list[u], worker'[u] = worker[u], success'[u] = success[u]
  PROVE  Progress(u)'
  BY DEF Progress

\* Every step of a thread keeps what is known of its task: an attempt that
\* fails has added a remote backend to tried, and they are not used up.
LEMMA StepTInv ==
  ASSUME maxAttempts \in Nat, FewRemotes
  PROVE  TInv /\ [Next]_vars => TInv'
<1> SUFFICES ASSUME TInv, [Next]_vars PROVE TInv'
  OBVIOUS
<1>0. /\ Good \cup Func \subseteq Tasks /\ Fallback \notin Names /\ maxAttempts \in Nat
      /\ Cardinality(Remotes) < maxAttempts
      /\ IsFiniteSet(Remotes) /\ Cardinality(Remotes) \in Nat
  BY CoordinatorConstants, FiniteBackends, FS_CardinalityType DEF CoordinatorAssumption, FewRemotes
<1>1. CASE UNCHANGED <<pc, list, worker, tried, attempt, success>>
  BY <1>1 DEF TInv, Progress
<1>2. ASSUME NEW t \in Tasks, Step(t) PROVE TInv'
  <2>1. /\ DOMAIN pc' = Tasks /\ DOMAIN attempt' = Tasks /\ DOMAIN tried' = Tasks
        /\ DOMAIN list' = Tasks /\ DOMAIN worker' = Tasks /\ DOMAIN success' = Tasks
        /\ \A u \in Tasks : pc'[u] \in {"queued", "pick", "index", "run", "mark", "done"}
    <3>1. CASE Start(t)
      BY <3>1 DEF TInv, Start
    <3>2. CASE ReadHealthy(t)
      BY <3>2 DEF TInv, ReadHealthy
    <3>3. CASE ChooseWorker(t)
      BY <3>3 DEF TInv, ChooseWorker
    <3>4. CASE RunTask(t)
      BY <3>4 DEF TInv, RunTask
    <3>5. CASE Retry(t)
      BY <3>5 DEF TInv, Retry
    <3> QED BY <1>2, <3>1, <3>2, <3>3, <3>4, <3>5 DEF Step
  <2>2. ASSUME NEW u \in Good \cup Func, u # t PROVE Progress(u)'
    <3>1. /\ tried'[u] = tried[u] /\ pc'[u] = pc[u] /\ attempt'[u] = attempt[u]
          /\ list'[u] = list[u] /\ worker'[u] = worker[u] /\ success'[u] = success[u]
      <4>0. u \in Tasks
        BY <1>0
      <4>1. CASE Start(t)
        BY <2>2, <4>0, <4>1 DEF TInv, Start
      <4>2. CASE ReadHealthy(t)
        BY <2>2, <4>0, <4>2 DEF TInv, ReadHealthy
      <4>3. CASE ChooseWorker(t)
        BY <2>2, <4>0, <4>3 DEF TInv, ChooseWorker
      <4>4. CASE RunTask(t)
        BY <2>2, <4>0, <4>4 DEF TInv, RunTask
      <4>5. CASE Retry(t)
        BY <2>2, <4>0, <4>5 DEF TInv, Retry
      <4> QED BY <1>2, <4>1, <4>2, <4>3, <4>4, <4>5 DEF Step
    <3> QED BY <2>2, <3>1, OtherTasks DEF TInv
  <2>3. ASSUME t \in Good \cup Func PROVE Progress(t)'
    <3>1. Progress(t) /\ IsFiniteSet(tried[t]) /\ Cardinality(tried[t]) \in Nat
      BY <1>0, <2>3, FS_Subset, FS_CardinalityType DEF TInv, Progress
    <3>2. CASE Start(t)
      BY <3>1, <3>2 DEF TInv, Start, Progress
    <3>3. CASE ReadHealthy(t)
      BY <3>1, <3>3 DEF TInv, ReadHealthy, Candidates, Progress
    <3>4. CASE ChooseWorker(t)
      <4>1. worker'[t] \in Names \cup {Fallback} /\ worker'[t] \notin tried[t]
        BY <1>0, <3>1, <3>4 DEF TInv, ChooseWorker, Progress, Names, Remotes
      <4> QED BY <3>1, <3>4, <4>1 DEF TInv, ChooseWorker, Progress
    <3>5. CASE RunTask(t)
      <4>1. Succeeds(t, worker[t]) \/ ~IsLocal(worker[t])
        BY <2>3 DEF Succeeds
      <4> QED BY <3>1, <3>5, <4>1 DEF TInv, RunTask, Progress
    <3>6. CASE Retry(t)
      <4>1. worker[t] \in Remotes \ tried[t]
        BY <3>1, <3>6 DEF Retry, Progress, IsLocal, Remotes
      <4>2. tried'[t] = tried[t] \cup {worker[t]} /\ tried'[t] \subseteq Remotes
        BY <3>1, <3>6, <4>1 DEF TInv, Retry, Progress
      <4>3. Cardinality(tried'[t]) = Cardinality(tried[t]) + 1
        BY <3>1, <4>1, <4>2, FS_AddElement
      <4>4. Cardinality(tried'[t]) <= Cardinality(Remotes)
        BY <1>0, <4>2, FS_Subset
      <4>5. attempt[t] = Cardinality(tried'[t]) /\ attempt'[t] = attempt[t]
        BY <3>1, <3>6, <4>3 DEF Retry, Progress
      <4>6. attempt[t] < maxAttempts
        BY <1>0, <3>1, <4>3, <4>4, <4>5
      <4>7. pc'[t] = "pick"
        BY <3>6, <4>6 DEF TInv, Retry
      <4> QED BY <4>2, <4>5, <4>7 DEF Progress
    <3> QED BY <1>2, <3>2, <3>3, <3>4, <3>5, <3>6 DEF Step
  <2> QED BY <2>1, <2>2, <2>3 DEF TInv
<1> QED BY <1>1, <1>2 DEF Next, Step, GoAway, vars

\* With fewer remote backends than attempts no outage and no interleaving of
\* the threads keeps a task from its local run.
THEOREM LocalRunIsReached == Spec => []FallsBackToLocal
<1>1. Init => IInv
  <2>1. Cardinality(Remotes) \in Nat
    BY FiniteBackends, FS_CardinalityType
  <2>2. Init => maxAttempts \in Nat
    BY CoordinatorConstants DEF Init, CoordinatorAssumption
  <2> QED BY <2>1, <2>2, InitTInv DEF IInv, FewRemotes
<1>2. IInv /\ [Next]_vars => IInv'
  <2> SUFFICES ASSUME IInv, [Next]_vars PROVE IInv'
    OBVIOUS
  <2>1. maxAttempts' = maxAttempts
    <3>1. CASE UNCHANGED vars
      BY <3>1 DEF vars
    <3>2. CASE Next
      BY <3>2 DEF Next, Start, ReadHealthy, ChooseWorker, RunTask, Retry, GoAway
    <3> QED BY <3>1, <3>2
  <2>2. CASE FewRemotes
    <3>1. TInv'
      BY <2>2, StepTInv DEF IInv
    <3> QED BY <2>1, <3>1 DEF IInv
  <2>3. CASE ~FewRemotes
    <3>1. ~FewRemotes'
      BY <2>1, <2>3 DEF FewRemotes
    <3> QED BY <2>1, <3>1 DEF IInv
  <2> QED BY <2>2, <2>3
<1>3. IInv => FallsBackToLocal
  BY DEF IInv, TInv, Progress, FallsBackToLocal, Failed
<1> QED BY <1>1, <1>2, <1>3, PTL DEF Spec

-----------------------------------------------------------------------------
(* The scheduler.                                                          *)

JobStates ==
    Terminal \cup {"UNKNOWN", "PENDING", "RUNNING", "CANCELLED by 1000", "OUT_OF_MEMORY"}
Phases == Ended \cup {"none", "queued", "running"}

HpcTypeOK ==
    /\ at \in [Ids -> {"new", "written", "refused", "submitted", "done"}]
    /\ jobState \in [Ids -> JobStates]
    /\ polls \in [Ids -> 0..MaxPolls]
    /\ script \in [ScriptNames -> Ids \cup {0}]
    /\ cluster \in [Ids -> Phases]
    /\ runs \in [Ids -> Ids \cup {0}]
    /\ cancelled \subseteq Ids

OwnName(j) == \A i \in Ids \ {j} : Jobs[i] # Jobs[j]

\* Between write_script and sbatch, the file of a job whose name no other job
\* has holds its own commands.
OwnScripts == \A j \in Ids : at[j] = "written" /\ OwnName(j) => script[Jobs[j]] = j

HpcInv == HpcTypeOK /\ OwnScripts /\ OwnCommands /\ VerdictIsTrue

\* What _normalize_state makes of each line the two schedulers print.
LEMMA NormalizedStates ==
    /\ \A raw \in {"PENDING", "RUNNING", "COMPLETED", "FAILED", "TIMEOUT"} :
          NormalizeState(raw) = raw
    /\ NormalizeState("R") = "RUNNING" /\ NormalizeState("F") = "FAILED"
    /\ NormalizeState("Q") = "PENDING" /\ NormalizeState("C") = "COMPLETED"
    /\ NormalizeState("CANCELLED by 1000") = "CANCELLED by 1000"
    /\ NormalizeState("OUT_OF_MEMORY") = "OUT_OF_MEMORY"
<1>1. DOMAIN SlurmMap = {"PENDING", "RUNNING", "COMPLETED", "FAILED", "TIMEOUT", "R", "F"}
  BY DEF SlurmMap
<1>2. DOMAIN PbsMap = {"Q", "R", "C", "F"}
  BY DEF PbsMap
<1>3. /\ SlurmMap["PENDING"] = "PENDING" /\ SlurmMap["RUNNING"] = "RUNNING"
      /\ SlurmMap["COMPLETED"] = "COMPLETED" /\ SlurmMap["FAILED"] = "FAILED"
      /\ SlurmMap["TIMEOUT"] = "TIMEOUT"
      /\ SlurmMap["R"] = "RUNNING" /\ SlurmMap["F"] = "FAILED"
  BY DEF SlurmMap
<1>4. PbsMap["Q"] = "PENDING" /\ PbsMap["C"] = "COMPLETED"
  BY DEF PbsMap
<1> QED
  BY <1>1, <1>2, <1>3, <1>4 DEF NormalizeState

\* What a poll may report is a state of HPCJob, or a raw one that neither table
\* knows (_normalize_state).
LEMMA StatusIsState ==
    ASSUME HpcTypeOK, NEW j \in Ids
    PROVE  Status(j) \subseteq JobStates
<1>1. ASSUME NEW r \in Raw(cluster[j])
      PROVE  NormalizeState(r) \in JobStates
  <2>1. r \in {"Q", "R", "C", "F", "PENDING", "RUNNING", "COMPLETED", "FAILED", "TIMEOUT",
               "CANCELLED by 1000", "OUT_OF_MEMORY"}
    BY <1>1 DEF Raw
  <2> QED
    BY <2>1, NormalizedStates DEF JobStates, Terminal
<1> QED
  BY <1>1 DEF Status, JobStates, Terminal

\* On a SLURM cluster whose commands answer, a poll reports COMPLETED only of a
\* job whose commands succeeded, and FAILED only of one whose commands did not
\* (status, _normalize_state).
LEMMA StatusIsTrue ==
    ASSUME HpcTypeOK, NEW j \in Ids,
           clusterMay \cap {"pbs", "forgets", "flaky"} = {}
    PROVE  /\ "COMPLETED" \in Status(j) => cluster[j] = "ok"
           /\ "FAILED" \in Status(j) => cluster[j] = "bad"
<1>1. "pbs" \notin clusterMay /\ ~Unlisted(j)
  BY DEF Unlisted
<1>2. PICK c \in Phases : c = cluster[j]
  BY DEF HpcTypeOK
<1>3. Status(j) = {NormalizeState(r) : r \in Raw(c)}
  BY <1>1, <1>2 DEF Status
<1>4. \A r \in Raw(c) : NormalizeState(r) = "COMPLETED" => c = "ok"
  BY <1>1, NormalizedStates DEF Raw, Phases, Ended
<1>5. \A r \in Raw(c) : NormalizeState(r) = "FAILED" => c = "bad"
  BY <1>1, NormalizedStates DEF Raw, Phases, Ended
<1> QED
  BY <1>2, <1>3, <1>4, <1>5

LEMMA HpcInitInv == HpcInit => HpcInv
BY HpcAssumption DEF HpcInit, HpcInv, HpcTypeOK, JobStates, Phases, OwnScripts, OwnCommands,
   VerdictIsTrue

LEMMA HpcStepInv ==
    ASSUME HpcInv, [HpcNext]_hpcVars
    PROVE  HpcInv'
<1> USE DEF HpcInv, HpcTypeOK, OwnScripts, OwnCommands, VerdictIsTrue
<1>0. \A j \in Ids : Jobs[j] \in ScriptNames
  BY DEF ScriptNames
<1>1. ASSUME NEW j \in Ids, WriteScript(j)
      PROVE  HpcInv'
  <2>1. HpcTypeOK'
    BY <1>0, <1>1 DEF WriteScript
  <2>2. OwnScripts'
    BY <1>0, <1>1 DEF WriteScript, OwnName
  <2>3. OwnCommands' /\ VerdictIsTrue'
    BY <1>1 DEF WriteScript
  <2> QED
    BY <2>1, <2>2, <2>3
<1>2. ASSUME NEW j \in Ids, SubmitImpossible(j)
      PROVE  HpcInv'
  BY <1>2 DEF SubmitImpossible, Fails, JobStates, Terminal, OwnName
<1>3. ASSUME NEW j \in Ids, SubmitAccepted(j)
      PROVE  HpcInv'
  <2>1. HpcTypeOK'
    BY <1>0, <1>3 DEF SubmitAccepted, JobStates, Phases
  <2>2. OwnScripts' /\ VerdictIsTrue'
    BY <1>3 DEF SubmitAccepted, OwnName
  <2>3. OwnCommands'
    BY <1>3 DEF SubmitAccepted, OwnName
  <2> QED
    BY <2>1, <2>2, <2>3
<1>4. ASSUME NEW j \in Ids, SubmitRefused(j)
      PROVE  HpcInv'
  <2>0. cluster' \in [Ids -> Phases] /\ runs' \in [Ids -> Ids \cup {0}]
    <3>1. CASE UNCHANGED <<cluster, runs>>
      BY <3>1
    <3>2. CASE /\ cluster' = [cluster EXCEPT ![j] = "queued"]
               /\ runs' = [runs EXCEPT ![j] = script[Jobs[j]]]
      BY <1>0, <3>2 DEF Phases
    <3> QED
      BY <1>4, <3>1, <3>2 DEF SubmitRefused
  <2>1. HpcTypeOK'
    BY <1>4, <2>0 DEF SubmitRefused, Fails, JobStates, Terminal
  <2>2. OwnScripts' /\ VerdictIsTrue'
    BY <1>4 DEF SubmitRefused, Fails, OwnName
  <2>3. OwnCommands'
    BY <1>4 DEF SubmitRefused, Fails, OwnName
  <2> QED
    BY <2>1, <2>2, <2>3
<1>5. ASSUME NEW j \in Ids, Poll(j)
      PROVE  HpcInv'
  <2>1. PICK s \in Status(j) :
          \/ /\ s \in Terminal
             /\ at' = [at EXCEPT ![j] = "done"] /\ jobState' = [jobState EXCEPT ![j] = s]
             /\ UNCHANGED <<polls, cluster, cancelled>>
          \/ /\ s \notin Terminal /\ polls[j] < MaxPolls
             /\ polls' = [polls EXCEPT ![j] = @ + 1]
             /\ jobState' = [jobState EXCEPT ![j] = s]
             /\ UNCHANGED <<at, cluster, cancelled>>
          \/ /\ s \notin Terminal /\ polls[j] = MaxPolls
             /\ at' = [at EXCEPT ![j] = "done"]
             /\ jobState' = [jobState EXCEPT ![j] = "TIMEOUT"]
             /\ Cancel(j) /\ UNCHANGED polls
    BY <1>5 DEF Poll
  <2>2. at[j] = "submitted" /\ UNCHANGED <<clusterMay, script, runs>>
    BY <1>5 DEF Poll, InWait
  <2>3. s \in JobStates
    BY <2>1, StatusIsState
  <2>4. cluster' \in [Ids -> Phases] /\ cancelled' \subseteq Ids
    BY <2>1 DEF Cancel, Phases, Ended
  <2>5. polls' \in [Ids -> 0..MaxPolls]
    <3>1. polls[j] \in 0..MaxPolls /\ MaxPolls \in Nat
      BY HpcAssumption
    <3>2. polls[j] < MaxPolls => polls[j] + 1 \in 0..MaxPolls
      BY <3>1
    <3> QED
      BY <2>1, <3>2
  <2>6. HpcTypeOK'
    <3>1. at' \in [Ids -> {"new", "written", "refused", "submitted", "done"}]
      BY <2>1
    <3>2. jobState' \in [Ids -> JobStates]
      BY <2>1, <2>3 DEF JobStates, Terminal
    <3> QED
      BY <2>2, <2>4, <2>5, <3>1, <3>2
  <2>7. OwnScripts' /\ OwnCommands'
    BY <2>1, <2>2 DEF OwnName
  <2>8. \A i \in Ids \ {j} : cluster'[i] = cluster[i] /\ at'[i] = at[i]
                                /\ jobState'[i] = jobState[i]
    BY <2>1 DEF Cancel
  <2>9. ASSUME clusterMay \cap {"pbs", "forgets", "flaky"} = {}, at'[j] = "done"
        PROVE  /\ jobState'[j] = "COMPLETED" => cluster'[j] = "ok"
               /\ jobState'[j] = "FAILED" => cluster'[j] = "bad"
    <3>1. CASE s \in Terminal
      BY <2>1, <2>9, <3>1, StatusIsTrue
    <3>2. CASE s \notin Terminal
      BY <2>1, <2>2, <2>9, <3>2
    <3> QED
      BY <3>1, <3>2
  <2>10. VerdictIsTrue'
    BY <2>2, <2>8, <2>9
  <2> QED
    BY <2>6, <2>7, <2>10
<1>6. ASSUME NEW j \in Ids, ClusterStarts(j)
      PROVE  HpcInv'
  BY <1>6 DEF ClusterStarts, Phases, OwnName
<1>7. ASSUME NEW j \in Ids, ClusterEnds(j)
      PROVE  HpcInv'
  BY <1>7 DEF ClusterEnds, Phases, Ended, OwnName
<1>8. CASE UNCHANGED hpcVars
  BY <1>8 DEF hpcVars, OwnName, Raw, Unlisted
<1> QED
  BY <1>1, <1>2, <1>3, <1>4, <1>5, <1>6, <1>7, <1>8 DEF HpcNext

\* For every list of jobs, every pool and every cluster: a job whose name no
\* other job has runs its own commands, and on a SLURM cluster whose commands
\* answer it is reported as they ended (submit_many, write_script, submit,
\* wait).
THEOREM JobsReportedRight == HpcSpec => []JobsAreReportedRight
<1>1. HpcInv => JobsAreReportedRight
  BY DEF HpcInv, JobsAreReportedRight
<1> QED
  BY <1>1, HpcInitInv, HpcStepInv, PTL DEF HpcSpec

-----------------------------------------------------------------------------
(* The language server proxy.                                              *)

ClientKinds == {"initialize", "initialized", "didOpen", "didChange", "shutdown", "exit"}
Syncs       == {"didOpen", "didChange"}
ClientMsgs  == [kind : ClientKinds, version : Nat, text : Nat]
ServerMsgs  == [kind : {"answer"}, id : {InitId, ShutdownId}, text : {0}]
                   \cup [kind : {"publish"}, id : {0}, text : Nat]

LspTypeOK ==
    /\ lspState \in {"disconnected", "initializing", "initialized", "shutdown"}
    /\ responses \subseteq {InitId, ShutdownId} /\ fired \subseteq {InitId, ShutdownId}
    /\ waiting \in {0, InitId, ShutdownId}
    /\ edits \in Nat /\ buffer \in [version : Nat, text : Nat]
    /\ diags \in [text : Nat, spans : Nat] /\ diagEvent \in BOOLEAN
    /\ reader \in [at : {"off", "idle", "answer", "publish", "dead"},
                   id : {0, InitId, ShutdownId}, text : Nat, spans : Nat]
    /\ toServer \in Seq(ClientMsgs) /\ toClient \in Seq(ServerMsgs)
    /\ server \in [alive : BOOLEAN, phase : {"new", "answered", "ready", "ending"},
                   version : Nat, text : Nat, published : Nat, rejected : BOOLEAN]

\* The request the client is in is the only one that is pending.
OnePending ==
    /\ pending = IF waiting = 0 THEN {} ELSE {waiting}
    /\ waiting = InitId => lspState = "initializing"
    /\ waiting = ShutdownId => lspState = "initialized"

\* The response is stored before the Event is set, and taken by the request only.
StoredFirst ==
    /\ AnswerIsThere
    /\ reader.at = "answer" /\ reader.id \in pending => reader.id \in responses

\* An answer to a request is somewhere only after the server had the request.
OnTheWay(id)  == \E i \in 1..Len(toClient) : toClient[i].kind = "answer" /\ toClient[i].id = id
Answered(id)  == id \in fired \/ (reader.at = "answer" /\ reader.id = id) \/ OnTheWay(id)
AnswersFollow ==
    /\ Answered(InitId) => server.phase # "new"
    /\ Answered(ShutdownId) => server.phase = "ending"

\* What the client has asked for, and how far the server is with it.
PhasesFollow ==
    /\ lspState = "disconnected" =>
         server.phase = "new" /\ toServer = << >> /\ reader.at = "off"
    /\ lspState = "initializing" =>
         /\ server.phase \in {"new", "answered"}
         /\ server.phase = "answered" => toServer = << >>
    /\ lspState = "initialized" => server.phase # "new"
    /\ lspState = "initialized" /\ server.alive /\ server.phase = "answered" => toServer # << >>
    /\ server.phase = "ending" => waiting = ShutdownId \/ lspState = "shutdown"
    /\ ~server.alive => toServer = << >>

\* The messages in the stream to the server come in the protocol's order: each
\* has its place, given what the server has seen.
Fits(i, m) ==
    /\ m.kind = "initialize" => server.phase = "new" /\ i = 1
    /\ m.kind = "initialized" => server.phase = "answered" /\ i = 1
    /\ m.kind \in Syncs => server.phase = "ready" \/ (server.phase = "answered" /\ i > 1)
    /\ m.kind = "shutdown" =>
         /\ server.phase = "ready" \/ (server.phase = "answered" /\ i > 1)
         /\ i = Len(toServer)
         /\ waiting = ShutdownId \/ lspState = "shutdown"
    /\ m.kind = "exit" => server.phase = "ending" /\ i = 1 /\ lspState = "shutdown"

StreamInOrder == \A i \in 1..Len(toServer) : Fits(i, toServer[i])

\* Before and after the texts in that stream: the notification that ends the
\* handshake, and the last request.
Lead  == IF server.phase = "answered" THEN 1 ELSE 0
Trail == IF waiting = ShutdownId /\ server.phase # "ending" THEN 1 ELSE 0

\* A client that opens its document once numbers its texts one by one.
TextAt(i, m) ==
    m.kind \in Syncs =>
        /\ m.version + Lead = server.version + i /\ m.text = m.version
        /\ m.kind = "didOpen" <=> m.version = 1

VersionsCount ==
    "reopen" \notin lspMay =>
        /\ buffer.version = edits /\ server.text = server.version /\ ~server.rejected
        /\ lspState \in {"disconnected", "initializing"} => edits = 0
        /\ server.phase \in {"new", "answered"} => server.version = 0
        /\ \A i \in 1..Len(toServer) : TextAt(i, toServer[i])
        /\ lspState = "initialized" /\ server.alive =>
             server.version + Len(toServer) = edits + Lead + Trail

\* No text is younger than the client's.
NoneIsNewer ==
    /\ server.text <= edits /\ server.published <= edits
    /\ reader.text <= edits /\ diags.text <= edits
    /\ \A i \in 1..Len(toServer) : toServer[i].text <= edits
    /\ \A i \in 1..Len(toClient) : toClient[i].text <= edits

\* The last diagnostics the server sent are the last in the stream, or with the
\* reader thread, or stored.
LastOf(s, i) == /\ i \in 1..Len(s) /\ s[i].kind = "publish"
                /\ \A k \in 1..Len(s) : k > i => s[k].kind # "publish"
NoneIn(s)    == \A i \in 1..Len(s) : s[i].kind # "publish"

LastIsKept ==
    lspState # "shutdown" =>
        /\ \A i \in 1..Len(toClient) :
              LastOf(toClient, i) => toClient[i].text = server.published
        /\ NoneIn(toClient) /\ reader.at = "publish" => reader.text = server.published
        /\ NoneIn(toClient) /\ reader.at # "publish" => diags.text = server.published

\* Diagnostics of the newest text have offsets in that text, and were announced.
OffsetsFit ==
    lspMay \cap {"ranged", "reopen"} = {} =>
        /\ buffer.text = edits
        /\ reader.at = "publish" /\ reader.text = edits => reader.spans = edits
        /\ diags.text = edits /\ edits > 0 => diags.spans = edits /\ diagEvent

LspInv == /\ LspTypeOK /\ OnePending /\ StoredFirst /\ AnswersFollow /\ PhasesFollow
          /\ StreamInOrder /\ VersionsCount /\ NoneIsNewer /\ LastIsKept /\ OffsetsFit

\* The reader thread before its first message, between two, and at its end.
LEMMA ReaderStates ==
    /\ Off = [at |-> "off", id |-> 0, text |-> 0, spans |-> 0]
    /\ Idle = [at |-> "idle", id |-> 0, text |-> 0, spans |-> 0]
    /\ Dead = [at |-> "dead", id |-> 0, text |-> 0, spans |-> 0]
BY DEF Off, Idle, Dead

\* The first message of a stream, and the rest of it.
LEMMA FirstAndRest ==
    ASSUME NEW S, NEW s \in Seq(S), s # << >>
    PROVE  /\ Head(s) \in S /\ Head(s) = s[1] /\ 1 \in 1..Len(s)
           /\ Tail(s) \in Seq(S) /\ Len(s) = Len(Tail(s)) + 1
           /\ \A i \in 1..Len(Tail(s)) : i + 1 \in 1..Len(s) /\ Tail(s)[i] = s[i + 1]
OBVIOUS

LEMMA OneMore ==
    ASSUME NEW S, NEW s \in Seq(S), NEW e \in S
    PROVE  /\ Append(s, e) \in Seq(S) /\ Len(Append(s, e)) = Len(s) + 1
           /\ Append(s, e)[Len(s) + 1] = e
           /\ \A i \in 1..Len(s) : Append(s, e)[i] = s[i]
OBVIOUS

\* What _write_message does for a server that lives, and for one that has died.
Sent(m) ==
    /\ toServer' \in Seq(ClientMsgs)
    /\ server.alive =>
         /\ Len(toServer') = Len(toServer) + 1 /\ toServer'[Len(toServer) + 1] = m
         /\ \A i \in 1..Len(toServer) : toServer'[i] = toServer[i]
    /\ ~server.alive => toServer' = toServer /\ Len(toServer) = 0

LEMMA SendOne ==
    ASSUME toServer \in Seq(ClientMsgs), NEW m \in ClientMsgs, Send(<<m>>),
           ~server.alive => toServer = << >>
    PROVE  Sent(m)
<1>1. CASE server.alive
  <2>1. toServer' = toServer \o <<m>>
    BY <1>1 DEF Send
  <2> QED
    BY <1>1, <2>1 DEF Sent
<1>2. CASE ~server.alive
  <2>1. toServer' = toServer /\ Len(toServer) = 0
    BY <1>2 DEF Send
  <2> QED
    BY <1>2, <2>1 DEF Sent
<1> QED
  BY <1>1, <1>2

\* A message in the stream now was there before, or is the one just written.
LEMMA EachIsOldOrNew ==
    ASSUME toServer \in Seq(ClientMsgs), NEW m, Sent(m), NEW i \in 1..Len(toServer')
    PROVE  \/ i \in 1..Len(toServer) /\ toServer'[i] = toServer[i]
           \/ i = Len(toServer) + 1 /\ i = Len(toServer') /\ toServer'[i] = m /\ server.alive
<1>1. Len(toServer) \in Nat
  OBVIOUS
<1> QED
  BY <1>1 DEF Sent

LEMMA LspInitInv == LspInit => LspInv
<1> SUFFICES ASSUME LspInit
             PROVE  LspInv
  OBVIOUS
<1>1. reader.at = "off" /\ reader.text = 0 /\ Len(toServer) = 0 /\ Len(toClient) = 0
  BY DEF LspInit, Off
<1>2. LspTypeOK
  <2>1. reader \in [at : {"off", "idle", "answer", "publish", "dead"},
                    id : {0, InitId, ShutdownId}, text : Nat, spans : Nat]
    BY ReaderStates DEF LspInit
  <2>2. toServer \in Seq(ClientMsgs) /\ toClient \in Seq(ServerMsgs)
    BY DEF LspInit
  <2>3. server \in [alive : BOOLEAN, phase : {"new", "answered", "ready", "ending"},
                    version : Nat, text : Nat, published : Nat, rejected : BOOLEAN]
    BY DEF LspInit
  <2> QED
    BY <2>1, <2>2, <2>3 DEF LspInit, LspTypeOK
<1>3. OnePending /\ StoredFirst /\ AnswersFollow /\ PhasesFollow
  BY <1>1 DEF LspInit, OnePending, StoredFirst, AnswerIsThere, AnswersFollow, Answered,
     OnTheWay, PhasesFollow, InitId, ShutdownId
<1>4. StreamInOrder /\ NoneIsNewer /\ LastIsKept /\ OffsetsFit
  BY <1>1 DEF LspInit, StreamInOrder, NoneIsNewer, LastIsKept, OffsetsFit
<1>5. VersionsCount
  BY <1>1 DEF LspInit, VersionsCount
<1> QED
  BY <1>2, <1>3, <1>4, <1>5 DEF LspInv

-----------------------------------------------------------------------------
(* Writing to the server.                                                  *)

\* While the client may write texts, the handshake is over or its end is in the
\* stream, and no last request is.
LEMMA SessionIsOpen ==
    ASSUME LspTypeOK, PhasesFollow, StreamInOrder, waiting = 0, lspState = "initialized"
    PROVE  /\ server.phase \in {"answered", "ready"}
           /\ server.alive /\ server.phase = "answered" => Len(toServer) > 0
           /\ \A i \in 1..Len(toServer) : toServer[i].kind \in Syncs \cup {"initialized"}
<1>1. server.phase \in {"answered", "ready"}
  BY DEF LspTypeOK, PhasesFollow, ShutdownId
<1>2. ASSUME server.alive, server.phase = "answered"
      PROVE  Len(toServer) > 0
  BY <1>2 DEF LspTypeOK, PhasesFollow
<1>3. ASSUME NEW i \in 1..Len(toServer)
      PROVE  toServer[i].kind \in Syncs \cup {"initialized"}
  <2>1. toServer[i] \in ClientMsgs /\ Fits(i, toServer[i])
    BY DEF LspTypeOK, StreamInOrder
  <2> QED
    BY <1>1, <2>1 DEF Fits, ClientMsgs, ClientKinds, Syncs, ShutdownId
<1> QED
  BY <1>1, <1>2, <1>3

\* A text, or the last request, has its place at the end of the stream.
LEMMA SentInOrder ==
    ASSUME LspTypeOK, PhasesFollow, StreamInOrder, waiting = 0, lspState = "initialized",
           UNCHANGED <<lspState, server>>, NEW m, Sent(m),
           m.kind \in Syncs \/ (m.kind = "shutdown" /\ waiting' = ShutdownId)
    PROVE  StreamInOrder'
<1> SUFFICES ASSUME NEW i \in 1..Len(toServer')
             PROVE  Fits(i, toServer[i])'
  BY DEF StreamInOrder
<1>1. Len(toServer) \in Nat
  BY DEF LspTypeOK
<1>2. CASE i \in 1..Len(toServer) /\ toServer'[i] = toServer[i]
  <2>1. Fits(i, toServer[i]) /\ toServer[i].kind \in Syncs \cup {"initialized"}
    BY <1>2, SessionIsOpen DEF StreamInOrder
  <2> QED
    BY <1>2, <2>1 DEF Fits, Syncs
<1>3. CASE /\ i = Len(toServer) + 1 /\ i = Len(toServer')
           /\ toServer'[i] = m /\ server.alive
  <2>1. server.phase = "ready" \/ (server.phase = "answered" /\ i > 1)
    BY <1>1, <1>3, SessionIsOpen
  <2> QED
    BY <1>3, <2>1 DEF Fits, Syncs
<1> QED
  BY <1>2, <1>3, EachIsOldOrNew DEF LspTypeOK

LEMMA SentIsNotNewer ==
    ASSUME LspTypeOK, NoneIsNewer, NEW m, Sent(m), edits' \in Nat, edits <= edits', m.text \in Nat,
           m.text <= edits'
    PROVE  \A i \in 1..Len(toServer') : toServer'[i].text <= edits'
<1> SUFFICES ASSUME NEW i \in 1..Len(toServer')
             PROVE  toServer'[i].text <= edits'
  OBVIOUS
<1>1. CASE i \in 1..Len(toServer) /\ toServer'[i] = toServer[i]
  <2>0. toServer[i] \in ClientMsgs
    BY <1>1 DEF LspTypeOK
  <2>1. toServer[i] \in ClientMsgs /\ toServer[i].text <= edits
    BY <1>1, <2>0 DEF NoneIsNewer
  <2>2. toServer[i].text \in Nat /\ edits \in Nat
    BY <2>1 DEF ClientMsgs, LspTypeOK
  <2> QED
    BY <1>1, <2>1, <2>2
<1>2. CASE toServer'[i] = m
  BY <1>2
<1> QED
  BY <1>1, <1>2, EachIsOldOrNew DEF LspTypeOK

-----------------------------------------------------------------------------
(* The client.                                                             *)

LEMMA InitializeInv ==
    ASSUME LspInv, Initialize
    PROVE  LspInv'
<1> USE DEF LspInv
<1>0. Sent(Msg("initialize"))
  BY SendOne DEF Initialize, Request, LspTypeOK, PhasesFollow, Msg, ClientMsgs, ClientKinds
<1>1. /\ reader.at = "off" /\ server.phase = "new" /\ Len(toServer) = 0
      /\ pending = {}
  BY DEF Initialize, PhasesFollow, OnePending
<1>2. /\ reader'.at = "idle" /\ reader'.id = 0 /\ reader'.text = 0
      /\ UNCHANGED <<lspMay, responses, fired, edits, buffer, diags, diagEvent, toClient, server>>
      /\ lspState' = "initializing" /\ waiting' = InitId /\ pending' = {InitId}
  BY <1>1, ReaderStates DEF Initialize, Request
<1>3. Msg("initialize").kind = "initialize" /\ Msg("initialize").text = 0
  BY DEF Msg
<1>4. \A i \in 1..Len(toServer') : i = 1 /\ toServer'[i].kind = "initialize"
  BY <1>0, <1>1, <1>3, EachIsOldOrNew DEF LspTypeOK
<1>5. LspTypeOK'
  <2>1. reader' \in [at : {"off", "idle", "answer", "publish", "dead"},
                     id : {0, InitId, ShutdownId}, text : Nat, spans : Nat]
    BY ReaderStates DEF Initialize
  <2> QED
    BY <1>0, <1>2, <2>1 DEF LspTypeOK, Sent
<1>6. OnePending'
  BY <1>2 DEF OnePending, InitId, ShutdownId
<1>7. AnswersFollow'
  <2>1. ~Answered(InitId) /\ ~Answered(ShutdownId)
    BY <1>1 DEF AnswersFollow
  <2> QED
    BY <1>2, <2>1 DEF AnswersFollow, Answered, OnTheWay
<1>8. StoredFirst'
  <2>1. InitId \notin fired
    BY <1>1 DEF AnswersFollow, Answered
  <2> QED
    BY <1>2, <2>1 DEF StoredFirst, AnswerIsThere
<1>9. PhasesFollow'
  BY <1>0, <1>1, <1>2 DEF PhasesFollow, Sent
<1>10. StreamInOrder'
  BY <1>1, <1>2, <1>4 DEF StreamInOrder, Fits, Syncs
<1>11. VersionsCount'
  BY <1>1, <1>2, <1>4, Z3 DEF VersionsCount, TextAt, Syncs, Initialize
<1>12. NoneIsNewer'
  <2>1. \A i \in 1..Len(toServer') : toServer'[i].text <= edits'
    <3>1. edits' \in Nat /\ edits <= edits' /\ 0 <= edits'
      BY <1>2 DEF LspTypeOK
    <3> QED
      BY <1>0, <1>3, <3>1, SentIsNotNewer
  <2> QED
    BY <1>2, <2>1 DEF NoneIsNewer, LspTypeOK
<1>13. LastIsKept' /\ OffsetsFit'
  BY <1>1, <1>2 DEF LastIsKept, LastOf, NoneIn, OffsetsFit, Initialize
<1> QED
  BY <1>5, <1>6, <1>7, <1>8, <1>9, <1>10, <1>11, <1>12, <1>13

LEMMA InitializeReturnsInv ==
    ASSUME LspInv, InitializeReturns
    PROVE  LspInv'
<1> USE DEF LspInv
<1>0. Sent(Msg("initialized"))
  BY SendOne DEF InitializeReturns, LspTypeOK, PhasesFollow, Msg, ClientMsgs, ClientKinds
<1>1. server.phase = "answered" /\ Len(toServer) = 0 /\ lspState = "initializing"
  BY DEF InitializeReturns, OnePending, AnswersFollow, Answered, PhasesFollow
<1>2. /\ UNCHANGED <<lspMay, fired, edits, buffer, diags, diagEvent, reader, toClient, server>>
      /\ lspState' = "initialized" /\ waiting' = 0 /\ pending' = {}
      /\ responses' = responses \ {InitId}
  BY DEF InitializeReturns, OnePending, InitId
<1>3. Msg("initialized").kind = "initialized" /\ Msg("initialized").text = 0
  BY DEF Msg
<1>4. \A i \in 1..Len(toServer') : i = 1 /\ toServer'[i].kind = "initialized"
  BY <1>0, <1>1, <1>3, EachIsOldOrNew DEF LspTypeOK
<1>5. LspTypeOK'
  BY <1>0, <1>2 DEF LspTypeOK, Sent
<1>6. OnePending' /\ StoredFirst'
  BY <1>2 DEF OnePending, StoredFirst, AnswerIsThere, InitId, ShutdownId
<1>7. AnswersFollow'
  BY <1>2 DEF AnswersFollow, Answered, OnTheWay
<1>8. PhasesFollow'
  BY <1>0, <1>1, <1>2 DEF PhasesFollow, Sent
<1>9. StreamInOrder'
  BY <1>1, <1>2, <1>4 DEF StreamInOrder, Fits, Syncs
<1>10. VersionsCount'
  <2> SUFFICES ASSUME "reopen" \notin lspMay
               PROVE  VersionsCount'
    BY <1>2 DEF VersionsCount
  <2>1. /\ buffer.version = edits /\ server.text = server.version /\ ~server.rejected
        /\ edits = 0 /\ server.version = 0
    BY <1>1 DEF VersionsCount
  <2>2. \A i \in 1..Len(toServer') : TextAt(i, toServer[i])'
    BY <1>4 DEF TextAt, Syncs
  <2>3. server.alive => Len(toServer') = 1
    BY <1>0, <1>1 DEF Sent
  <2>4. Lead' = 1 /\ Trail' = 0
    BY <1>1, <1>2 DEF Lead, Trail, ShutdownId
  <2> QED
    BY <1>2, <2>1, <2>2, <2>3, <2>4 DEF VersionsCount
<1>11. NoneIsNewer'
  <2>1. \A i \in 1..Len(toServer') : toServer'[i].text <= edits'
    <3>1. edits' \in Nat /\ edits <= edits' /\ 0 <= edits'
      BY <1>2 DEF LspTypeOK
    <3> QED
      BY <1>0, <1>3, <3>1, SentIsNotNewer
  <2> QED
    BY <1>2, <2>1 DEF NoneIsNewer
<1>12. LastIsKept' /\ OffsetsFit'
  BY <1>1, <1>2 DEF LastIsKept, LastOf, NoneIn, OffsetsFit
<1> QED
  BY <1>5, <1>6, <1>7, <1>8, <1>9, <1>10, <1>11, <1>12

LEMMA InitializeTimesOutInv ==
    ASSUME LspInv, InitializeTimesOut
    PROVE  LspInv'
<1> USE DEF LspInv
<1>1. /\ UNCHANGED <<lspMay, lspState, responses, fired, edits, buffer, diags, diagEvent, reader,
                     toServer, toClient, server>>
      /\ waiting = InitId /\ waiting' = 0 /\ pending' = {} /\ lspState = "initializing"
  BY DEF InitializeTimesOut, OnePending, InitId
<1>2. LspTypeOK' /\ OnePending' /\ StoredFirst'
  BY <1>1 DEF LspTypeOK, OnePending, StoredFirst, AnswerIsThere, InitId, ShutdownId
<1>3. AnswersFollow' /\ PhasesFollow'
  BY <1>1 DEF AnswersFollow, Answered, OnTheWay, PhasesFollow, InitId, ShutdownId
<1>4. StreamInOrder' /\ VersionsCount'
  BY <1>1 DEF StreamInOrder, Fits, VersionsCount, TextAt, Lead, InitId, ShutdownId
<1>5. NoneIsNewer' /\ LastIsKept' /\ OffsetsFit'
  BY <1>1 DEF NoneIsNewer, LastIsKept, LastOf, NoneIn, OffsetsFit
<1> QED
  BY <1>2, <1>3, <1>4, <1>5

\* A text is written: it is the newest, and has the next version if the
\* document is opened once (did_open, did_change).
Writes(kind) ==
    /\ waiting = 0 /\ lspState = "initialized" /\ edits' = edits + 1
    /\ buffer' \in [version : Nat, text : Nat] /\ diagEvent' \in BOOLEAN
    /\ "reopen" \notin lspMay => /\ buffer'.version = edits'
                                 /\ kind = "didOpen" <=> edits' = 1
    /\ lspMay \cap {"ranged", "reopen"} = {} => buffer'.text = edits'
    /\ Sent(Sync(kind, buffer'.version, edits'))
    /\ UNCHANGED <<lspMay, lspState, pending, responses, fired, waiting, diags, reader,
                   toClient, server>>

LEMMA WritesInv ==
    ASSUME LspInv, NEW kind \in Syncs, Writes(kind)
    PROVE  LspInv'
<1> USE DEF LspInv
<1> DEFINE m == Sync(kind, buffer'.version, edits')
<1>1. m.kind = kind /\ m.version = buffer'.version /\ m.text = edits'
  BY DEF Sync
<1>2. Sent(m)
  BY DEF Writes
<1>3. edits \in Nat /\ edits' = edits + 1
  BY DEF LspTypeOK, Writes
<1> HIDE DEF m
<1>4. /\ UNCHANGED <<lspMay, lspState, pending, responses, fired, waiting, diags, reader,
                     toClient, server>>
      /\ waiting = 0 /\ lspState = "initialized"
  BY DEF Writes
<1>5. LspTypeOK'
  BY <1>2, <1>3, <1>4 DEF LspTypeOK, Writes, Sent
<1>6. OnePending' /\ StoredFirst' /\ AnswersFollow'
  BY <1>4 DEF OnePending, StoredFirst, AnswerIsThere, AnswersFollow, Answered, OnTheWay
<1>7. PhasesFollow'
  BY <1>2, <1>4, SessionIsOpen DEF PhasesFollow, Sent, LspTypeOK
<1>8. StreamInOrder'
  BY <1>1, <1>2, <1>4, SentInOrder
<1>9. VersionsCount'
  <2> SUFFICES ASSUME "reopen" \notin lspMay
               PROVE  VersionsCount'
    BY <1>4 DEF VersionsCount
  <2>1. buffer'.version = edits' /\ (kind = "didOpen" <=> edits' = 1)
    BY DEF Writes
  <2>2. /\ server.text = server.version /\ ~server.rejected
        /\ server.phase \in {"new", "answered"} => server.version = 0
        /\ \A i \in 1..Len(toServer) : TextAt(i, toServer[i])
        /\ server.alive => server.version + Len(toServer) = edits + Lead + Trail
    BY <1>4 DEF VersionsCount
  <2>3. Lead' = Lead /\ Trail' = 0 /\ Trail = 0 /\ Lead \in {0, 1}
    BY <1>4 DEF Lead, Trail, ShutdownId
  <2>4. server.version \in Nat /\ Len(toServer) \in Nat
    BY DEF LspTypeOK
  <2>5. server.alive => server.version + Len(toServer) + 1 = edits' + Lead
    BY <1>3, <2>2, <2>3, <2>4
  <2>6. ASSUME NEW i \in 1..Len(toServer')
        PROVE  TextAt(i, toServer[i])'
    <3>1. CASE i \in 1..Len(toServer) /\ toServer'[i] = toServer[i]
      <4>1. TextAt(i, toServer[i])
        BY <2>2, <3>1
      <4> QED
        BY <1>4, <2>3, <3>1, <4>1 DEF TextAt
    <3>2. CASE i = Len(toServer) + 1 /\ toServer'[i] = m /\ server.alive
      <4>1. m.version = edits' /\ m.text = edits' /\ (m.kind = "didOpen" <=> m.version = 1)
        BY <1>1, <2>1
      <4>2. server' = server /\ Lead' = Lead /\ Lead \in {0, 1}
        BY <1>4, <2>3
      <4>3. PICK v \in Nat, n \in Nat, e \in Nat, d \in {0, 1} :
              v = server.version /\ n = Len(toServer) /\ e = edits' /\ d = Lead
        <5>1. edits' \in Nat
          BY <1>3
        <5> QED
          BY <2>3, <2>4, <5>1
      <4>4. v + n + 1 = e + d
        BY <2>5, <3>2, <4>3
      <4>5. e + d = v + i
        <5>1. i = n + 1
          BY <3>2, <4>3
        <5> QED
          BY <4>3, <4>4, <5>1
      <4>6. m.version + Lead' = server'.version + i
        BY <4>1, <4>2, <4>3, <4>5
      <4> QED
        BY <3>2, <4>1, <4>6 DEF TextAt
    <3> QED
      BY <1>2, <3>1, <3>2, EachIsOldOrNew DEF LspTypeOK
  <2>7. server.alive => Len(toServer') = Len(toServer) + 1
    BY <1>2 DEF Sent
  <2>8. server.alive => server.version + Len(toServer') = edits' + Lead' + Trail'
    BY <1>3, <2>3, <2>4, <2>5, <2>7
  <2> QED
    BY <1>4, <2>1, <2>2, <2>6, <2>8 DEF VersionsCount
<1>10. NoneIsNewer'
  <2>1. \A i \in 1..Len(toServer') : toServer'[i].text <= edits'
    BY <1>1, <1>2, <1>3, SentIsNotNewer
  <2>2. \A n \in Nat : n <= edits => n <= edits'
    BY <1>3
  <2>3. \A i \in 1..Len(toClient) : toClient[i].text \in Nat
    <3>1. \A i \in 1..Len(toClient) : toClient[i] \in ServerMsgs
      BY DEF LspTypeOK
    <3> QED
      BY <3>1 DEF ServerMsgs
  <2>4. server.text \in Nat /\ server.published \in Nat /\ reader.text \in Nat /\ diags.text \in Nat
    BY DEF LspTypeOK
  <2> QED
    BY <1>4, <2>1, <2>2, <2>3, <2>4 DEF NoneIsNewer
<1>11. LastIsKept'
  BY <1>4 DEF LastIsKept, LastOf, NoneIn
<1>12. OffsetsFit'
  <2>1. reader.text <= edits /\ diags.text <= edits
    BY DEF NoneIsNewer
  <2>2. reader.text \in Nat /\ diags.text \in Nat
    BY DEF LspTypeOK
  <2>3. reader.text # edits' /\ diags.text # edits'
    BY <1>3, <2>1, <2>2
  <2> QED
    BY <1>4, <2>3 DEF OffsetsFit, Writes
<1> QED
  BY <1>5, <1>6, <1>7, <1>8, <1>9, <1>10, <1>11, <1>12

LEMMA DidOpenInv ==
    ASSUME LspInv, DidOpen
    PROVE  LspInv'
<1>1. buffer' = [version |-> 1, text |-> edits'] /\ edits' = edits + 1 /\ edits \in Nat
  BY DEF LspInv, LspTypeOK, DidOpen
<1>2. Sent(Sync("didOpen", 1, edits'))
  BY <1>1, SendOne DEF DidOpen, LspInv, LspTypeOK, PhasesFollow, Sync, ClientMsgs, ClientKinds
<1>3. "reopen" \notin lspMay => edits = 0
  BY DEF DidOpen, LspInv, VersionsCount, LspTypeOK
<1>4. Writes("didOpen")
  BY <1>1, <1>2, <1>3 DEF DidOpen, Writes, LspInv, LspTypeOK
<1> QED
  BY <1>4, WritesInv DEF Syncs

LEMMA DidChangeInv ==
    ASSUME LspInv, DidChange
    PROVE  LspInv'
<1>1. edits' = edits + 1 /\ edits \in Nat /\ buffer \in [version : Nat, text : Nat]
  BY DEF LspInv, LspTypeOK, DidChange
<1>2. buffer' \in [version : Nat, text : Nat] /\ buffer'.version = buffer.version + 1
  BY <1>1 DEF DidChange, BufferAfterChange
<1>3. Sent(Sync("didChange", buffer'.version, edits'))
  <2>1. Sync("didChange", buffer'.version, edits') \in ClientMsgs
    BY <1>1, <1>2 DEF Sync, ClientMsgs, ClientKinds
  <2>2. Send(<<Sync("didChange", buffer'.version, edits')>>)
    BY DEF DidChange
  <2>3. toServer \in Seq(ClientMsgs) /\ (~server.alive => toServer = << >>)
    BY DEF LspInv, LspTypeOK, PhasesFollow
  <2> QED
    BY <2>1, <2>2, <2>3, SendOne
<1>4. "reopen" \notin lspMay => buffer.version = edits /\ edits # 0
  BY DEF DidChange, LspInv, VersionsCount
<1>5. lspMay \cap {"ranged", "reopen"} = {} => buffer'.text = edits'
  BY <1>1 DEF DidChange, BufferAfterChange
<1>6. "reopen" \notin lspMay => buffer'.version = edits' /\ edits' # 1
  BY <1>1, <1>2, <1>4
<1>7. /\ waiting = 0 /\ lspState = "initialized" /\ diagEvent' \in BOOLEAN
      /\ UNCHANGED <<lspMay, lspState, pending, responses, fired, waiting, diags, reader,
                     toClient, server>>
  BY DEF DidChange
<1>8. Writes("didChange")
  BY <1>1, <1>2, <1>3, <1>5, <1>6, <1>7 DEF Writes
<1> QED
  BY <1>8, WritesInv DEF Syncs

LEMMA ShutdownAtOnceInv ==
    ASSUME LspInv, ShutdownAtOnce
    PROVE  LspInv'
<1> USE DEF LspInv
<1>1. /\ UNCHANGED <<lspMay, pending, responses, fired, edits, buffer, diags, diagEvent, reader,
                     toServer, server>>
      /\ lspState \in {"disconnected", "initializing"} /\ lspState' = "shutdown"
      /\ waiting = 0 /\ waiting' = 0 /\ toClient' = << >> /\ Len(toClient') = 0
  BY DEF ShutdownAtOnce, Closed
<1>2. LspTypeOK' /\ OnePending' /\ StoredFirst'
  BY <1>1 DEF LspTypeOK, OnePending, StoredFirst, AnswerIsThere, InitId, ShutdownId
<1>3. AnswersFollow' /\ PhasesFollow'
  BY <1>1 DEF AnswersFollow, Answered, OnTheWay, PhasesFollow
<1>4. StreamInOrder' /\ VersionsCount'
  BY <1>1 DEF StreamInOrder, Fits, VersionsCount, TextAt, Lead
<1>5. NoneIsNewer' /\ LastIsKept' /\ OffsetsFit'
  BY <1>1 DEF NoneIsNewer, LastIsKept, OffsetsFit
<1> QED
  BY <1>2, <1>3, <1>4, <1>5

LEMMA ShutdownRequestInv ==
    ASSUME LspInv, ShutdownRequest
    PROVE  LspInv'
<1> USE DEF LspInv
<1> DEFINE m == Msg("shutdown")
<1>0. Sent(m)
  BY SendOne DEF ShutdownRequest, Request, LspTypeOK, PhasesFollow, Msg, ClientMsgs, ClientKinds
<1>1. m.kind = "shutdown" /\ m.text = 0
  BY DEF Msg
<1> HIDE DEF m
<1>2. /\ UNCHANGED <<lspMay, lspState, responses, fired, edits, buffer, diags, diagEvent, reader,
                     toClient, server>>
      /\ waiting = 0 /\ lspState = "initialized" /\ waiting' = ShutdownId
      /\ pending = {} /\ pending' = {ShutdownId}
  BY DEF ShutdownRequest, Request, OnePending
<1>3. server.phase \in {"answered", "ready"}
  BY <1>2, SessionIsOpen
<1>4. LspTypeOK'
  BY <1>0, <1>2 DEF LspTypeOK, Sent
<1>5. OnePending'
  BY <1>2 DEF OnePending, InitId, ShutdownId
<1>6. StoredFirst'
  <2>1. ~Answered(ShutdownId)
    BY <1>3 DEF AnswersFollow
  <2> QED
    BY <1>2, <2>1 DEF StoredFirst, AnswerIsThere, Answered
<1>7. AnswersFollow'
  BY <1>2 DEF AnswersFollow, Answered, OnTheWay
<1>8. PhasesFollow'
  BY <1>0, <1>2, SessionIsOpen DEF PhasesFollow, Sent, LspTypeOK
<1>9. StreamInOrder'
  BY <1>0, <1>1, <1>2, SentInOrder
<1>10. VersionsCount'
  <2> SUFFICES ASSUME "reopen" \notin lspMay
               PROVE  VersionsCount'
    BY <1>2 DEF VersionsCount
  <2>1. /\ \A i \in 1..Len(toServer) : TextAt(i, toServer[i])
        /\ server.alive => server.version + Len(toServer) = edits + Lead + Trail
        /\ buffer.version = edits /\ server.text = server.version /\ ~server.rejected
        /\ server.phase \in {"new", "answered"} => server.version = 0
    BY <1>2 DEF VersionsCount
  <2>2. Lead' = Lead /\ Trail' = 1 /\ Trail = 0 /\ Lead \in {0, 1}
    BY <1>2, <1>3 DEF Lead, Trail, ShutdownId
  <2>3. \A i \in 1..Len(toServer') : TextAt(i, toServer[i])'
    <3> SUFFICES ASSUME NEW i \in 1..Len(toServer')
                 PROVE  TextAt(i, toServer[i])'
      OBVIOUS
    <3>1. CASE i \in 1..Len(toServer) /\ toServer'[i] = toServer[i]
      <4>1. TextAt(i, toServer[i])
        BY <2>1, <3>1
      <4> QED
        BY <1>2, <2>2, <3>1, <4>1 DEF TextAt
    <3>2. CASE toServer'[i] = m
      BY <1>1, <3>2 DEF TextAt, Syncs
    <3> QED
      BY <1>0, <3>1, <3>2, EachIsOldOrNew DEF LspTypeOK
  <2>4. server.version \in Nat /\ Len(toServer) \in Nat /\ edits \in Nat
    BY DEF LspTypeOK
  <2>5. server.alive => server.version + Len(toServer') = edits + Lead' + Trail'
    BY <1>0, <2>1, <2>2, <2>4 DEF Sent
  <2> QED
    BY <1>2, <2>1, <2>3, <2>5 DEF VersionsCount
<1>11. NoneIsNewer'
  <2>1. edits' \in Nat /\ edits <= edits' /\ 0 <= edits'
    BY <1>2 DEF LspTypeOK
  <2>2. \A i \in 1..Len(toServer') : toServer'[i].text <= edits'
    BY <1>0, <1>1, <2>1, SentIsNotNewer
  <2> QED
    BY <1>2, <2>2 DEF NoneIsNewer
<1>12. LastIsKept' /\ OffsetsFit'
  BY <1>2 DEF LastIsKept, LastOf, NoneIn, OffsetsFit
<1> QED
  BY <1>4, <1>5, <1>6, <1>7, <1>8, <1>9, <1>10, <1>11, <1>12

LEMMA ShutdownReturnsInv ==
    ASSUME LspInv, ShutdownReturns
    PROVE  LspInv'
<1> USE DEF LspInv
<1>0. Sent(Msg("exit"))
  BY SendOne DEF ShutdownReturns, LspTypeOK, PhasesFollow, Msg, ClientMsgs, ClientKinds
<1>1. server.phase = "ending" /\ lspState = "initialized"
  BY DEF ShutdownReturns, OnePending, AnswersFollow, Answered
<1>2. Len(toServer) = 0
  <2>1. ASSUME NEW i \in 1..Len(toServer)
        PROVE  FALSE
    <3>1. toServer[i] \in ClientMsgs /\ Fits(i, toServer[i])
      BY DEF LspTypeOK, StreamInOrder
    <3> QED
      BY <1>1, <3>1 DEF Fits, ClientMsgs, ClientKinds, Syncs
  <2>2. Len(toServer) \in Nat
    BY DEF LspTypeOK
  <2> QED
    BY <2>1, <2>2
<1>3. /\ UNCHANGED <<lspMay, fired, edits, buffer, diags, diagEvent, reader, server>>
      /\ lspState' = "shutdown" /\ waiting' = 0 /\ toClient' = << >> /\ Len(toClient') = 0
      /\ pending' = {} /\ responses' = responses \ {ShutdownId}
  BY DEF ShutdownReturns, Closed, OnePending, ShutdownId
<1>4. Msg("exit").kind = "exit" /\ Msg("exit").text = 0
  BY DEF Msg
<1>5. \A i \in 1..Len(toServer') : i = 1 /\ toServer'[i].kind = "exit"
  BY <1>0, <1>2, <1>4, EachIsOldOrNew DEF LspTypeOK
<1>6. LspTypeOK'
  BY <1>0, <1>3 DEF LspTypeOK, Sent
<1>7. OnePending' /\ StoredFirst'
  BY <1>3 DEF OnePending, StoredFirst, AnswerIsThere, InitId, ShutdownId
<1>8. AnswersFollow' /\ PhasesFollow'
  BY <1>0, <1>1, <1>3 DEF AnswersFollow, Answered, OnTheWay, PhasesFollow, Sent
<1>9. StreamInOrder'
  BY <1>1, <1>3, <1>5 DEF StreamInOrder, Fits, Syncs
<1>10. VersionsCount'
  BY <1>1, <1>3, <1>5 DEF VersionsCount, TextAt, Syncs
<1>11. NoneIsNewer'
  <2>1. edits' \in Nat /\ edits <= edits' /\ 0 <= edits'
    BY <1>3 DEF LspTypeOK
  <2>2. \A i \in 1..Len(toServer') : toServer'[i].text <= edits'
    BY <1>0, <1>4, <2>1, SentIsNotNewer
  <2> QED
    BY <1>3, <2>2 DEF NoneIsNewer
<1>12. LastIsKept' /\ OffsetsFit'
  BY <1>3 DEF LastIsKept, OffsetsFit
<1> QED
  BY <1>6, <1>7, <1>8, <1>9, <1>10, <1>11, <1>12

LEMMA ShutdownTimesOutInv ==
    ASSUME LspInv, ShutdownTimesOut
    PROVE  LspInv'
<1> USE DEF LspInv
<1>1. /\ UNCHANGED <<lspMay, responses, fired, edits, buffer, diags, diagEvent, reader,
                     toServer, server>>
      /\ lspState' = "shutdown" /\ waiting' = 0 /\ toClient' = << >> /\ Len(toClient') = 0
      /\ pending' = {} /\ waiting = ShutdownId /\ lspState = "initialized"
  BY DEF ShutdownTimesOut, Closed, OnePending, InitId, ShutdownId
<1>2. LspTypeOK' /\ OnePending' /\ StoredFirst'
  BY <1>1 DEF LspTypeOK, OnePending, StoredFirst, AnswerIsThere, InitId, ShutdownId
<1>3. AnswersFollow' /\ PhasesFollow'
  BY <1>1 DEF AnswersFollow, Answered, OnTheWay, PhasesFollow
<1>4. StreamInOrder' /\ VersionsCount'
  BY <1>1 DEF StreamInOrder, Fits, VersionsCount, TextAt, Lead
<1>5. NoneIsNewer' /\ LastIsKept' /\ OffsetsFit'
  BY <1>1 DEF NoneIsNewer, LastIsKept, OffsetsFit
<1> QED
  BY <1>2, <1>3, <1>4, <1>5

-----------------------------------------------------------------------------
(* The reader thread.                                                      *)

\* What is behind the first message of the stream to the client.
LEMMA FirstFromServer ==
    ASSUME LspTypeOK, toClient # << >>, toClient' = Tail(toClient)
    PROVE  /\ Head(toClient) \in ServerMsgs /\ Head(toClient) = toClient[1]
           /\ toClient' \in Seq(ServerMsgs) /\ Len(toClient) = Len(toClient') + 1
           /\ 1 \in 1..Len(toClient)
           /\ \A i \in 1..Len(toClient') :
                 i + 1 \in 1..Len(toClient) /\ toClient'[i] = toClient[i + 1]
BY FirstAndRest DEF LspTypeOK

LEMMA ReadMessageInv ==
    ASSUME LspInv, ReadMessage
    PROVE  LspInv'
<1> USE DEF LspInv
<1> DEFINE m == Head(toClient)
<1>0. toClient # << >> /\ toClient' = Tail(toClient)
  BY DEF ReadMessage
<1>1. /\ m \in ServerMsgs /\ m = toClient[1] /\ 1 \in 1..Len(toClient)
      /\ toClient' \in Seq(ServerMsgs) /\ Len(toClient) = Len(toClient') + 1
      /\ \A i \in 1..Len(toClient') :
            i + 1 \in 1..Len(toClient) /\ toClient'[i] = toClient[i + 1]
  BY <1>0, FirstFromServer
<1>2. /\ reader.at = "idle" /\ lspState # "shutdown"
      /\ UNCHANGED <<lspMay, lspState, pending, waiting, edits, buffer, fired, diags, diagEvent,
                     toServer, server>>
  BY DEF ReadMessage, clientVars
<1>3. \/ /\ m.kind = "answer" /\ responses' = responses \cup {m.id}
         /\ reader' = [at |-> "answer", id |-> m.id, text |-> 0, spans |-> 0]
      \/ /\ m.kind = "publish" /\ UNCHANGED responses
         /\ reader' = [at |-> "publish", id |-> 0, text |-> m.text, spans |-> buffer.text]
  BY <1>1, ReaderStates DEF ReadMessage, ServerMsgs
<1> HIDE DEF m
<1>4. /\ m.text \in Nat
      /\ m.kind = "answer" => m.id \in {InitId, ShutdownId} /\ m.text = 0
      /\ Len(toClient) \in Nat /\ Len(toClient') \in Nat
  BY <1>1 DEF ServerMsgs, LspTypeOK
<1>5. \A k \in 1..Len(toClient) :
        k > 1 => k - 1 \in 1..Len(toClient') /\ toClient[k] = toClient'[k - 1]
  BY <1>1, <1>4
<1>6. LspTypeOK'
  <2>0. responses \subseteq {InitId, ShutdownId} /\ buffer.text \in Nat
    BY DEF LspTypeOK
  <2>1. CASE /\ m.kind = "answer" /\ responses' = responses \cup {m.id}
             /\ reader' = [at |-> "answer", id |-> m.id, text |-> 0, spans |-> 0]
    <3>1. m.id \in {InitId, ShutdownId}
      BY <1>4, <2>1
    <3>2. responses' \subseteq {InitId, ShutdownId}
      BY <2>0, <2>1, <3>1
    <3>3. reader' \in [at : {"off", "idle", "answer", "publish", "dead"},
                       id : {0, InitId, ShutdownId}, text : Nat, spans : Nat]
      BY <2>1, <3>1
    <3> QED
      BY <1>1, <1>2, <3>2, <3>3 DEF LspTypeOK
  <2>2. CASE /\ m.kind = "publish" /\ UNCHANGED responses
             /\ reader' = [at |-> "publish", id |-> 0, text |-> m.text, spans |-> buffer.text]
    <3>1. reader' \in [at : {"off", "idle", "answer", "publish", "dead"},
                       id : {0, InitId, ShutdownId}, text : Nat, spans : Nat]
      BY <1>4, <2>0, <2>2
    <3> QED
      BY <1>1, <1>2, <2>0, <2>2, <3>1 DEF LspTypeOK
  <2> QED
    BY <1>3, <2>1, <2>2
<1>7. OnePending' /\ PhasesFollow' /\ StreamInOrder' /\ VersionsCount'
  BY <1>2 DEF OnePending, PhasesFollow, StreamInOrder, Fits, VersionsCount, TextAt, Lead, Trail
<1>8. StoredFirst'
  BY <1>2, <1>3 DEF StoredFirst, AnswerIsThere
<1>9. AnswersFollow'
  <2>1. ASSUME NEW id \in {InitId, ShutdownId}, Answered(id)'
        PROVE  Answered(id)
    <3>1. CASE id \in fired'
      BY <1>2, <3>1 DEF Answered
    <3>2. CASE reader'.at = "answer" /\ reader'.id = id
      BY <1>1, <1>3, <3>2 DEF Answered, OnTheWay
    <3>3. CASE OnTheWay(id)'
      <4>1. PICK i \in 1..Len(toClient') : toClient'[i].kind = "answer" /\ toClient'[i].id = id
        BY <3>3 DEF OnTheWay
      <4> QED
        BY <1>1, <4>1 DEF Answered, OnTheWay
    <3> QED
      BY <2>1, <3>1, <3>2, <3>3 DEF Answered
  <2> QED
    BY <1>2, <2>1 DEF AnswersFollow
<1>10. NoneIsNewer'
  <2>1. \A i \in 1..Len(toClient) : toClient[i].text <= edits
    BY DEF NoneIsNewer
  <2>2. reader'.text <= edits
    BY <1>1, <1>3, <1>4, <2>1 DEF LspTypeOK
  <2>3. \A i \in 1..Len(toClient') : toClient'[i].text <= edits
    BY <1>1, <2>1
  <2> QED
    BY <1>2, <2>2, <2>3 DEF NoneIsNewer
<1>11. LastIsKept'
  <2>1. ASSUME NEW i \in 1..Len(toClient'), LastOf(toClient', i)
        PROVE  toClient'[i].text = server.published
    <3>1. i \in Nat /\ i + 1 \in 1..Len(toClient) /\ toClient'[i] = toClient[i + 1]
      BY <1>1
    <3>2. ASSUME NEW k \in 1..Len(toClient), k > i + 1
          PROVE  toClient[k].kind # "publish"
      <4>1. k > 1 /\ k - 1 > i
        BY <3>1, <3>2
      <4> QED
        BY <1>5, <2>1, <4>1 DEF LastOf
    <3>3. LastOf(toClient, i + 1)
      BY <2>1, <3>1, <3>2 DEF LastOf
    <3> QED
      BY <1>2, <3>1, <3>3 DEF LastIsKept
  <2>2. ASSUME NoneIn(toClient')
        PROVE  \A k \in 1..Len(toClient) : k > 1 => toClient[k].kind # "publish"
    BY <1>5, <2>2 DEF NoneIn
  <2>3. ASSUME NoneIn(toClient'), reader'.at = "publish"
        PROVE  reader'.text = server.published
    <3>1. m.kind = "publish" /\ reader'.text = m.text
      BY <1>3, <2>3
    <3>2. LastOf(toClient, 1)
      BY <1>1, <2>2, <2>3, <3>1 DEF LastOf
    <3> QED
      BY <1>1, <1>2, <3>1, <3>2 DEF LastIsKept
  <2>4. ASSUME NoneIn(toClient'), reader'.at # "publish"
        PROVE  diags.text = server.published
    <3>1. m.kind # "publish"
      BY <1>3, <2>4
    <3>2. NoneIn(toClient)
      <4>1. \A k \in 1..Len(toClient) : k = 1 \/ k > 1
        BY <1>4
      <4> QED
        BY <1>1, <2>2, <2>4, <3>1, <4>1 DEF NoneIn
    <3> QED
      BY <1>2, <3>2 DEF LastIsKept
  <2> QED
    BY <1>2, <2>1, <2>3, <2>4 DEF LastIsKept
<1>12. OffsetsFit'
  BY <1>2, <1>3 DEF OffsetsFit
<1> QED
  BY <1>6, <1>7, <1>8, <1>9, <1>10, <1>11, <1>12

LEMMA FireEventInv ==
    ASSUME LspInv, FireEvent
    PROVE  LspInv'
<1> USE DEF LspInv
<1>1. /\ reader.at = "answer" /\ fired' = fired \cup ({reader.id} \cap pending)
      /\ reader'.at = "idle" /\ reader'.text = 0 /\ reader' = Idle
      /\ UNCHANGED <<lspMay, lspState, pending, waiting, edits, buffer, responses, diags, diagEvent,
                     toServer, toClient, server>>
  BY ReaderStates DEF FireEvent, clientVars
<1>2. pending \subseteq {InitId, ShutdownId}
  BY DEF OnePending, LspTypeOK
<1>3. LspTypeOK'
  <2>1. reader' \in [at : {"off", "idle", "answer", "publish", "dead"},
                     id : {0, InitId, ShutdownId}, text : Nat, spans : Nat]
    BY <1>1, ReaderStates
  <2> QED
    BY <1>1, <1>2, <2>1 DEF LspTypeOK
<1>4. OnePending' /\ StreamInOrder' /\ VersionsCount'
  BY <1>1 DEF OnePending, StreamInOrder, Fits, VersionsCount, TextAt, Lead, Trail
<1>5. PhasesFollow'
  BY <1>1 DEF PhasesFollow
<1>6. StoredFirst' /\ AnswersFollow'
  BY <1>1 DEF StoredFirst, AnswerIsThere, AnswersFollow, Answered, OnTheWay
<1>7. NoneIsNewer'
  BY <1>1 DEF NoneIsNewer, LspTypeOK
<1>8. LastIsKept' /\ OffsetsFit'
  BY <1>1 DEF LastIsKept, LastOf, NoneIn, OffsetsFit
<1> QED
  BY <1>3, <1>4, <1>5, <1>6, <1>7, <1>8

LEMMA StoreDiagnosticsInv ==
    ASSUME LspInv, StoreDiagnostics
    PROVE  LspInv'
<1> USE DEF LspInv
<1>1. /\ reader.at = "publish" /\ diagEvent' = TRUE
      /\ diags' = [text |-> reader.text, spans |-> reader.spans]
      /\ reader'.at = "idle" /\ reader'.text = 0 /\ reader' = Idle
      /\ UNCHANGED <<lspMay, lspState, pending, waiting, edits, buffer, responses, fired,
                     toServer, toClient, server>>
  BY ReaderStates DEF StoreDiagnostics, clientVars
<1>2. LspTypeOK'
  <2>1. reader' \in [at : {"off", "idle", "answer", "publish", "dead"},
                     id : {0, InitId, ShutdownId}, text : Nat, spans : Nat]
    BY <1>1, ReaderStates
  <2> QED
    BY <1>1, <2>1 DEF LspTypeOK
<1>3. OnePending' /\ StreamInOrder' /\ VersionsCount'
  BY <1>1 DEF OnePending, StreamInOrder, Fits, VersionsCount, TextAt, Lead, Trail
<1>4. PhasesFollow'
  BY <1>1 DEF PhasesFollow
<1>5. StoredFirst' /\ AnswersFollow'
  BY <1>1 DEF StoredFirst, AnswerIsThere, AnswersFollow, Answered, OnTheWay
<1>6. NoneIsNewer'
  BY <1>1 DEF NoneIsNewer, LspTypeOK
<1>7. LastIsKept' /\ OffsetsFit'
  BY <1>1 DEF LastIsKept, LastOf, NoneIn, OffsetsFit
<1> QED
  BY <1>2, <1>3, <1>4, <1>5, <1>6, <1>7

LEMMA ReaderEndsInv ==
    ASSUME LspInv, ReaderEnds
    PROVE  LspInv'
<1> USE DEF LspInv
<1>1. /\ reader.at = "idle" /\ reader'.at = "dead" /\ reader'.text = 0 /\ reader' = Dead
      /\ UNCHANGED <<lspMay, lspState, pending, waiting, edits, buffer, responses, fired,
                     diags, diagEvent, toServer, toClient, server>>
  BY ReaderStates DEF ReaderEnds, clientVars
<1>2. LspTypeOK'
  <2>1. reader' \in [at : {"off", "idle", "answer", "publish", "dead"},
                     id : {0, InitId, ShutdownId}, text : Nat, spans : Nat]
    BY <1>1, ReaderStates
  <2> QED
    BY <1>1, <2>1 DEF LspTypeOK
<1>3. OnePending' /\ StreamInOrder' /\ VersionsCount'
  BY <1>1 DEF OnePending, StreamInOrder, Fits, VersionsCount, TextAt, Lead, Trail
<1>4. PhasesFollow'
  BY <1>1 DEF PhasesFollow
<1>5. StoredFirst' /\ AnswersFollow'
  BY <1>1 DEF StoredFirst, AnswerIsThere, AnswersFollow, Answered, OnTheWay
<1>6. NoneIsNewer'
  BY <1>1 DEF NoneIsNewer, LspTypeOK
<1>7. LastIsKept' /\ OffsetsFit'
  BY <1>1 DEF LastIsKept, LastOf, NoneIn, OffsetsFit
<1> QED
  BY <1>2, <1>3, <1>4, <1>5, <1>6, <1>7

-----------------------------------------------------------------------------
(* The server.                                                             *)

\* The first message of the stream to the server is one the protocol allows
\* now; a text may come too early only if the document was opened twice.
LEMMA FirstIsAllowed ==
    ASSUME LspTypeOK, StreamInOrder, VersionsCount, toServer # << >>
    PROVE  LET m == Head(toServer) IN
             /\ m \in ClientMsgs /\ m = toServer[1] /\ 1 \in 1..Len(toServer)
             /\ m.kind \notin Syncs => Accepts(m)
             /\ m.kind \in Syncs => server.phase = "ready"
             /\ m.kind \in Syncs /\ "reopen" \notin lspMay =>
                  Accepts(m) /\ m.version = server.version + 1 /\ m.text = m.version
<1> DEFINE m == Head(toServer)
<1>1. m \in ClientMsgs /\ m = toServer[1] /\ 1 \in 1..Len(toServer)
  BY FirstAndRest DEF LspTypeOK
<1>2. Fits(1, m)
  BY <1>1 DEF StreamInOrder
<1> HIDE DEF m
<1>3. m.kind \in ClientKinds /\ m.version \in Nat /\ m.text \in Nat /\ server.version \in Nat
  BY <1>1 DEF ClientMsgs, LspTypeOK
<1>4. m.kind \notin Syncs => Accepts(m)
  BY <1>2, <1>3 DEF Fits, Accepts, ClientKinds, Syncs
<1>5. m.kind \in Syncs => server.phase = "ready"
  BY <1>2 DEF Fits
<1>6. ASSUME m.kind \in Syncs, "reopen" \notin lspMay
      PROVE  Accepts(m) /\ m.version = server.version + 1 /\ m.text = m.version
  <2>1. TextAt(1, m)
    BY <1>1, <1>6 DEF VersionsCount
  <2>2. /\ m.version = server.version + 1 /\ m.text = m.version
        /\ m.kind = "didOpen" <=> m.version = 1
    BY <1>3, <1>5, <1>6, <2>1 DEF TextAt, Lead
  <2>3. CASE m.kind = "didOpen"
    BY <1>3, <1>5, <1>6, <2>2, <2>3 DEF Accepts
  <2>4. CASE m.kind = "didChange"
    <3>1. server.version \in 1..(m.version - 1)
      BY <1>3, <2>2, <2>4
    <3> QED
      BY <1>5, <1>6, <2>2, <2>4, <3>1 DEF Accepts
  <2> QED
    BY <1>6, <2>2, <2>3, <2>4 DEF Syncs
<1> QED
  BY <1>1, <1>4, <1>5, <1>6 DEF m

\* One message is taken, and at most one answer is written.
Takes(m, answers) ==
    /\ m \in ClientMsgs /\ m = toServer[1]
    /\ 1 \in 1..Len(toServer) /\ Len(toServer) = Len(toServer') + 1
    /\ toServer' \in Seq(ClientMsgs)
    /\ \A i \in 1..Len(toServer') :
          i + 1 \in 1..Len(toServer) /\ toServer'[i] = toServer[i + 1]
    /\ \/ answers = {} /\ UNCHANGED toClient
       \/ /\ answers # {} /\ Len(toClient') = Len(toClient) + 1
          /\ \A i \in 1..Len(toClient) : toClient'[i] = toClient[i]
          /\ toClient'[Len(toClient) + 1].kind = "answer"
          /\ toClient'[Len(toClient) + 1].id \in answers
          /\ toClient'[Len(toClient) + 1].text = 0
    /\ toClient' \in Seq(ServerMsgs)
    /\ server.alive
    /\ UNCHANGED <<clientVars, responses, fired, diags, diagEvent, reader>>
    /\ server' \in [alive : BOOLEAN, phase : {"new", "answered", "ready", "ending"},
                    version : Nat, text : Nat, published : Nat, rejected : BOOLEAN]
    /\ server'.alive /\ server'.published = server.published
    /\ m.kind = "initialize" => /\ server.phase = "new" /\ server'.phase = "answered"
                                /\ answers \subseteq {InitId}
    /\ m.kind = "initialized" => /\ server.phase = "answered" /\ server'.phase = "ready"
                                 /\ answers = {}
    /\ m.kind \in Syncs => server.phase = "ready" /\ server'.phase = "ready" /\ answers = {}
    /\ m.kind = "shutdown" => /\ server.phase = "ready" /\ server'.phase = "ending"
                              /\ answers \subseteq {ShutdownId}
    /\ m.kind = "exit" => server.phase = "ending" /\ server'.phase = "ending" /\ answers = {}
    /\ server'.text \in {server.text, m.text}
    /\ m.kind \notin Syncs => /\ server'.rejected = server.rejected
                              /\ server'.version = server.version /\ server'.text = server.text
    /\ m.kind \in Syncs /\ "reopen" \notin lspMay =>
         /\ server'.rejected = server.rejected
         /\ server'.version = server.version + 1 /\ server'.text = server.version + 1

LEMMA ServerTakes ==
    ASSUME LspInv, ServerReceives
    PROVE  \E m \in ClientMsgs, answers \in SUBSET {InitId, ShutdownId} : Takes(m, answers)
<1> USE DEF LspInv
<1> DEFINE m  == Head(toServer)
           id == IF m.kind = "initialize" THEN InitId
                 ELSE IF m.kind = "shutdown" THEN ShutdownId ELSE 0
<1>1. server.alive /\ toServer # << >> /\ toServer' = Tail(toServer)
  BY DEF ServerReceives
<1>2. /\ m \in ClientMsgs /\ m = toServer[1] /\ 1 \in 1..Len(toServer)
      /\ m.kind \notin Syncs => Accepts(m)
      /\ m.kind \in Syncs => server.phase = "ready"
      /\ m.kind \in Syncs /\ "reopen" \notin lspMay =>
           Accepts(m) /\ m.version = server.version + 1 /\ m.text = m.version
  BY <1>1, FirstIsAllowed
<1>3. /\ toServer' \in Seq(ClientMsgs) /\ Len(toServer) = Len(toServer') + 1
      /\ \A i \in 1..Len(toServer') :
            i + 1 \in 1..Len(toServer) /\ toServer'[i] = toServer[i + 1]
  BY <1>1, FirstAndRest DEF LspTypeOK
<1>4. server' = IF ~Accepts(m) THEN [server EXCEPT !.rejected = TRUE]
                ELSE IF m.kind \in {"didOpen", "didChange"}
                     THEN [server EXCEPT !.version = m.version, !.text = m.text]
                     ELSE [server EXCEPT !.phase = PhaseAfter(m)]
  BY DEF ServerReceives
<1>5. \/ id > 0 /\ toClient' = Append(toClient, Answer(id))
      \/ UNCHANGED toClient
  BY DEF ServerReceives
<1>6. UNCHANGED <<clientVars, responses, fired, diags, diagEvent, reader>>
  BY DEF ServerReceives
<1> HIDE DEF m
<1>7. m.kind \in ClientKinds /\ m.version \in Nat /\ m.text \in Nat
  BY <1>2 DEF ClientMsgs
<1>8. PICK answers \in SUBSET {InitId, ShutdownId} :
        /\ m.kind = "initialize" => answers \subseteq {InitId}
        /\ m.kind = "shutdown" => answers \subseteq {ShutdownId}
        /\ m.kind \notin {"initialize", "shutdown"} => answers = {}
        /\ \/ answers = {} /\ UNCHANGED toClient
           \/ \E n \in answers : toClient' = Append(toClient, Answer(n))
  <2>1. CASE id > 0 /\ toClient' = Append(toClient, Answer(id))
    <3>1. /\ id \in {InitId, ShutdownId} /\ m.kind \in {"initialize", "shutdown"}
          /\ m.kind = "initialize" => id = InitId
          /\ m.kind = "shutdown" => id = ShutdownId
      BY <2>1
    <3> WITNESS {id} \in SUBSET {InitId, ShutdownId}
    <3> QED
      BY <2>1, <3>1
  <2>2. CASE UNCHANGED toClient
    <3> WITNESS {} \in SUBSET {InitId, ShutdownId}
    <3> QED
      BY <2>2
  <2> QED
    BY <1>5, <2>1, <2>2
<1> HIDE DEF id
<1>9. /\ toClient' \in Seq(ServerMsgs)
      /\ \/ answers = {} /\ UNCHANGED toClient
         \/ /\ answers # {} /\ Len(toClient') = Len(toClient) + 1
            /\ \A i \in 1..Len(toClient) : toClient'[i] = toClient[i]
            /\ toClient'[Len(toClient) + 1].kind = "answer"
            /\ toClient'[Len(toClient) + 1].id \in answers
            /\ toClient'[Len(toClient) + 1].text = 0
  <2>1. CASE answers = {} /\ UNCHANGED toClient
    BY <2>1 DEF LspTypeOK
  <2>2. CASE \E n \in answers : toClient' = Append(toClient, Answer(n))
    <3>1. PICK n \in answers : toClient' = Append(toClient, Answer(n))
      BY <2>2
    <3>2. /\ Answer(n) \in ServerMsgs /\ Answer(n).kind = "answer"
          /\ Answer(n).id = n /\ Answer(n).text = 0
      BY DEF Answer, ServerMsgs
    <3>3. toClient \in Seq(ServerMsgs)
      BY DEF LspTypeOK
    <3>4. /\ toClient' \in Seq(ServerMsgs) /\ Len(toClient') = Len(toClient) + 1
          /\ toClient'[Len(toClient) + 1] = Answer(n)
          /\ \A i \in 1..Len(toClient) : toClient'[i] = toClient[i]
      BY <3>1, <3>2, <3>3, OneMore
    <3> QED
      BY <3>2, <3>4
  <2> QED
    BY <1>8, <2>1, <2>2
<1>10. /\ server \in [alive : BOOLEAN, phase : {"new", "answered", "ready", "ending"},
                      version : Nat, text : Nat, published : Nat, rejected : BOOLEAN]
  BY DEF LspTypeOK
<1>11. CASE m.kind \notin Syncs
  <2>1. Accepts(m) /\ server' = [server EXCEPT !.phase = PhaseAfter(m)]
    BY <1>2, <1>4, <1>11 DEF Syncs
  <2>2. /\ server'.alive = server.alive /\ server'.published = server.published
        /\ server'.rejected = server.rejected /\ server'.version = server.version
        /\ server'.text = server.text /\ server'.phase = PhaseAfter(m)
    BY <1>10, <2>1
  <2>3. /\ m.kind = "initialize" => server.phase = "new" /\ PhaseAfter(m) = "answered"
        /\ m.kind = "initialized" => server.phase = "answered" /\ PhaseAfter(m) = "ready"
        /\ m.kind = "shutdown" => server.phase = "ready" /\ PhaseAfter(m) = "ending"
        /\ m.kind = "exit" => server.phase = "ending" /\ PhaseAfter(m) = "ending"
    BY <2>1 DEF Accepts, PhaseAfter
  <2>4. PhaseAfter(m) \in {"new", "answered", "ready", "ending"}
    BY <1>10 DEF PhaseAfter
  <2>5. server' \in [alive : BOOLEAN, phase : {"new", "answered", "ready", "ending"},
                     version : Nat, text : Nat, published : Nat, rejected : BOOLEAN]
    BY <1>10, <2>1, <2>4
  <2>6. Takes(m, answers)
    BY <1>1, <1>2, <1>3, <1>6, <1>7, <1>8, <1>9, <1>11, <2>2, <2>3, <2>5
       DEF Takes, ClientKinds, Syncs
  <2> QED
    BY <1>2, <2>6
<1>12. CASE m.kind \in Syncs
  <2>1. \/ ~Accepts(m) /\ server' = [server EXCEPT !.rejected = TRUE]
        \/ Accepts(m) /\ server' = [server EXCEPT !.version = m.version, !.text = m.text]
    BY <1>4, <1>12 DEF Syncs
  <2>2. /\ server'.alive = server.alive /\ server'.published = server.published
        /\ server'.phase = server.phase /\ server'.text \in {server.text, m.text}
        /\ Accepts(m) => /\ server'.rejected = server.rejected
                         /\ server'.version = m.version /\ server'.text = m.text
    BY <1>10, <2>1
  <2>3. server' \in [alive : BOOLEAN, phase : {"new", "answered", "ready", "ending"},
                     version : Nat, text : Nat, published : Nat, rejected : BOOLEAN]
    BY <1>7, <1>10, <2>1
  <2>4. Takes(m, answers)
    BY <1>1, <1>2, <1>3, <1>6, <1>8, <1>9, <1>12, <2>2, <2>3 DEF Takes, Syncs
  <2> QED
    BY <1>2, <2>4
<1> QED
  BY <1>11, <1>12

LEMMA ServerReceivesInv ==
    ASSUME LspInv, ServerReceives
    PROVE  LspInv'
<1> USE DEF LspInv
<1>0. PICK m \in ClientMsgs, answers \in SUBSET {InitId, ShutdownId} : Takes(m, answers)
  BY ServerTakes
<1>1. /\ UNCHANGED <<lspMay, lspState, pending, waiting, edits, buffer, responses, fired, diags,
                     diagEvent, reader>>
      /\ server.alive /\ server'.alive /\ server'.published = server.published
      /\ m = toServer[1] /\ 1 \in 1..Len(toServer) /\ Len(toServer) = Len(toServer') + 1
      /\ \A i \in 1..Len(toServer') :
            i + 1 \in 1..Len(toServer) /\ toServer'[i] = toServer[i + 1]
  BY <1>0 DEF Takes, clientVars
<1>2. Len(toServer) \in Nat /\ Len(toServer') \in Nat /\ Len(toClient) \in Nat
  BY <1>0 DEF Takes, LspTypeOK
<1>3. m.kind \in ClientKinds /\ m.text \in Nat /\ Fits(1, m)
  BY <1>0, <1>1 DEF ClientMsgs, StreamInOrder
<1>4. /\ m.kind = "initialize" => /\ server.phase = "new" /\ server'.phase = "answered"
                                  /\ answers \subseteq {InitId}
      /\ m.kind = "initialized" => /\ server.phase = "answered" /\ server'.phase = "ready"
                                   /\ answers = {}
      /\ m.kind \in Syncs => server.phase = "ready" /\ server'.phase = "ready" /\ answers = {}
      /\ m.kind = "shutdown" => /\ server.phase = "ready" /\ server'.phase = "ending"
                                /\ answers \subseteq {ShutdownId}
      /\ m.kind = "exit" => server.phase = "ending" /\ server'.phase = "ending" /\ answers = {}
  BY <1>0 DEF Takes
\* Nothing is behind the first and the last request.
<1>5. m.kind \in {"initialize", "shutdown"} => Len(toServer') = 0
  <2>1. m.kind = "shutdown" => 1 = Len(toServer)
    BY <1>3 DEF Fits
  <2>2. ASSUME m.kind = "initialize", NEW i \in 1..Len(toServer')
        PROVE  FALSE
    <3>1. i + 1 \in 1..Len(toServer) /\ i + 1 # 1
      BY <1>1, <2>2
    <3>2. toServer[i + 1] \in ClientMsgs /\ Fits(i + 1, toServer[i + 1])
      BY <3>1 DEF StreamInOrder, LspTypeOK
    <3>3. server.phase = "new"
      BY <1>4, <2>2
    <3> QED
      BY <3>1, <3>2, <3>3 DEF Fits, ClientMsgs, ClientKinds, Syncs
  <2>3. m.kind = "initialize" => Len(toServer') = 0
    BY <1>2, <2>2
  <2> QED
    BY <1>1, <1>2, <2>1, <2>3
<1>6. LspTypeOK' /\ OnePending' /\ StoredFirst' /\ OffsetsFit'
  <2>1. LspTypeOK'
    BY <1>0, <1>1 DEF Takes, LspTypeOK
  <2> QED
    BY <1>1, <2>1 DEF OnePending, StoredFirst, AnswerIsThere, OffsetsFit
<1>7. AnswersFollow'
  <2>1. ASSUME NEW id \in {InitId, ShutdownId}, Answered(id)'
        PROVE  Answered(id) \/ id \in answers
    <3>1. CASE OnTheWay(id)'
      <4>1. PICK i \in 1..Len(toClient') : toClient'[i].kind = "answer" /\ toClient'[i].id = id
        BY <3>1 DEF OnTheWay
      <4>2. CASE i \in 1..Len(toClient) /\ toClient'[i] = toClient[i]
        BY <4>1, <4>2 DEF Answered, OnTheWay
      <4>3. CASE toClient'[i].id \in answers
        BY <4>1, <4>3
      <4>4. \/ i \in 1..Len(toClient) /\ toClient'[i] = toClient[i]
            \/ toClient'[i].id \in answers
        BY <1>0, <1>2 DEF Takes
      <4> QED
        BY <4>2, <4>3, <4>4
    <3> QED
      BY <1>1, <2>1, <3>1 DEF Answered
  <2>2. InitId # ShutdownId
    BY DEF InitId, ShutdownId
  <2>3. /\ server.phase # "new" => server'.phase # "new"
        /\ server.phase = "ending" => server'.phase = "ending"
        /\ InitId \in answers => server'.phase # "new"
        /\ ShutdownId \in answers => server'.phase = "ending"
    BY <1>3, <1>4, <2>2 DEF ClientKinds, Syncs
  <2> QED
    BY <2>1, <2>3 DEF AnswersFollow
<1>8. PhasesFollow'
  <2>1. toServer' = << >> <=> Len(toServer') = 0
    BY <1>0 DEF Takes
  <2>2. toServer # << >>
    BY <1>1, <1>2
  <2>3. lspState = "initializing" => m.kind = "initialize"
    <3>1. server.phase = "new" => m.kind = "initialize"
      BY <1>3, <1>4 DEF ClientKinds, Syncs
    <3> QED
      BY <2>2, <3>1 DEF PhasesFollow
  <2>4. lspState = "initialized" => m.kind # "initialize"
    BY <1>4 DEF PhasesFollow
  <2>5. m.kind = "shutdown" => waiting = ShutdownId \/ lspState = "shutdown"
    BY <1>3 DEF Fits
  <2>6. server.phase = "ending" => waiting = ShutdownId \/ lspState = "shutdown"
    BY DEF PhasesFollow
  <2>7. lspState # "disconnected"
    BY <2>2 DEF PhasesFollow
  <2>8. server'.phase = "ending" => waiting = ShutdownId \/ lspState = "shutdown"
    BY <1>3, <1>4, <2>5, <2>6 DEF ClientKinds, Syncs
  <2>9. lspState = "initializing" => server'.phase = "answered" /\ toServer' = << >>
    BY <1>4, <1>5, <2>1, <2>3
  <2>10. lspState = "initialized" => server'.phase \in {"ready", "ending"}
    BY <1>3, <1>4, <2>4 DEF ClientKinds, Syncs
  <2> QED
    BY <1>1, <2>7, <2>8, <2>9, <2>10 DEF PhasesFollow
<1>9. StreamInOrder'
  <2> SUFFICES ASSUME NEW i \in 1..Len(toServer')
               PROVE  Fits(i, toServer[i])'
    BY DEF StreamInOrder
  <2>1. i + 1 \in 1..Len(toServer) /\ toServer'[i] = toServer[i + 1] /\ i > 0
    BY <1>1
  <2>2. Fits(i + 1, toServer[i + 1]) /\ i + 1 # 1
    BY <2>1 DEF StreamInOrder
  <2>3. m.kind \in Syncs \cup {"initialized", "exit"}
    BY <1>2, <1>3, <1>5 DEF ClientKinds, Syncs
  <2>4. toServer[i + 1] \in ClientMsgs
    BY <2>1 DEF LspTypeOK
  <2>5. toServer[i + 1].kind \in Syncs \cup {"shutdown"}
    BY <2>2, <2>4 DEF Fits, ClientMsgs, ClientKinds, Syncs
  <2>6. server.phase \in {"answered", "ready"}
    BY <2>2, <2>5 DEF Fits
  <2>7. server'.phase = "ready"
    BY <1>4, <2>3, <2>6
  <2>8. toServer[i + 1].kind = "shutdown" =>
           i = Len(toServer') /\ (waiting = ShutdownId \/ lspState = "shutdown")
    BY <1>1, <1>2, <2>1, <2>2 DEF Fits
  <2> QED
    BY <1>1, <2>1, <2>5, <2>7, <2>8 DEF Fits, Syncs
<1>10. VersionsCount'
  <2> SUFFICES ASSUME "reopen" \notin lspMay
               PROVE  VersionsCount'
    BY <1>1 DEF VersionsCount
  <2>1. /\ buffer.version = edits /\ server.text = server.version /\ ~server.rejected
        /\ lspState \in {"disconnected", "initializing"} => edits = 0
        /\ server.phase \in {"new", "answered"} => server.version = 0
        /\ \A i \in 1..Len(toServer) : TextAt(i, toServer[i])
        /\ lspState = "initialized" =>
             server.version + Len(toServer) = edits + Lead + Trail
    BY <1>1 DEF VersionsCount
  <2>2. server.version \in Nat /\ edits \in Nat /\ server'.version \in Nat
    BY <1>0 DEF LspTypeOK, Takes
  <2>3. /\ m.kind \notin Syncs => server'.version = server.version
        /\ m.kind \in Syncs => server'.version = server.version + 1
        /\ server'.text = server'.version /\ ~server'.rejected
    BY <1>0, <2>1 DEF Takes
  <2>4. Lead \in {0, 1} /\ Lead' \in {0, 1} /\ Trail \in {0, 1} /\ Trail' \in {0, 1}
    BY DEF Lead, Trail
  <2>5. m.kind \in Syncs \cup {"initialized"} => server'.version + Lead = server.version + 1 + Lead'
    BY <1>4, <2>2, <2>3, <2>4 DEF Lead, Syncs
  <2>6. ASSUME NEW i \in 1..Len(toServer')
        PROVE  TextAt(i, toServer[i])'
    <3>1. i + 1 \in 1..Len(toServer) /\ toServer'[i] = toServer[i + 1] /\ i \in Nat
      BY <1>1
    <3>2. TextAt(i + 1, toServer[i + 1]) /\ Fits(i + 1, toServer[i + 1]) /\ i + 1 # 1
      BY <2>1, <3>1 DEF StreamInOrder
    <3>3. toServer[i + 1] \in ClientMsgs
      BY <3>1 DEF LspTypeOK
    <3>4. toServer[i + 1].version \in Nat
      BY <3>3 DEF ClientMsgs
    <3>5. toServer[i + 1].kind \in Syncs => m.kind \in Syncs \cup {"initialized"}
      <4>1. toServer[i + 1].kind \in Syncs => server.phase \in {"answered", "ready"}
        BY <3>2 DEF Fits
      <4>2. m.kind \notin {"initialize", "shutdown"}
        BY <1>2, <1>5
      <4> QED
        BY <1>3, <1>4, <4>1, <4>2 DEF ClientKinds, Syncs
    <3>6. ASSUME toServer[i + 1].kind \in Syncs
          PROVE  toServer[i + 1].version + Lead' = server'.version + i
      <4>1. toServer[i + 1].version + Lead = server.version + (i + 1)
        BY <3>2, <3>6 DEF TextAt
      <4>2. server'.version + Lead = server.version + 1 + Lead'
        BY <2>5, <3>5, <3>6
      <4> QED
        <5>1. Lead \in Nat /\ Lead' \in Nat
          BY <2>4
        <5>2. PICK v \in Nat, old \in Nat, new \in Nat, lead \in Nat, lead1 \in Nat :
                /\ v = toServer[i + 1].version /\ old = server.version /\ new = server'.version
                /\ lead = Lead /\ lead1 = Lead'
          BY <2>2, <3>4, <5>1
        <5>3. v + lead = old + (i + 1) /\ new + lead = old + 1 + lead1
          BY <4>1, <4>2, <5>2
        <5>4. v + lead1 = new + i
          BY <3>1, <5>3
        <5> QED
          BY <5>2, <5>4
    <3> QED
      BY <3>1, <3>2, <3>6 DEF TextAt
  <2>7. server'.phase \in {"new", "answered"} => server'.version = 0
    BY <1>3, <1>4, <2>1, <2>3 DEF ClientKinds, Syncs
  <2>8. ASSUME lspState = "initialized"
        PROVE  server'.version + Len(toServer') = edits + Lead' + Trail'
    <3>1. server.version + Len(toServer) = edits + Lead + Trail
      BY <2>1, <2>8
    <3>2. m.kind \notin {"initialize", "exit"}
      <4>1. m.kind # "exit"
        BY <1>3, <2>8 DEF Fits
      <4>2. m.kind # "initialize"
        BY <1>4, <2>8 DEF PhasesFollow
      <4> QED
        BY <4>1, <4>2
    <3>3. CASE m.kind \in Syncs \cup {"initialized"}
      <4>1. Trail' = Trail
        BY <1>1, <1>4, <3>3 DEF Trail
      <4> QED
        <5>1. Lead \in Nat /\ Lead' \in Nat /\ Trail \in Nat
          BY <2>4
        <5>2. server'.version + Lead = server.version + 1 + Lead'
          BY <2>5, <3>3
        <5>3. Len(toServer) = Len(toServer') + 1
          BY <1>1
        <5>4. PICK old \in Nat, new \in Nat, lead \in Nat, lead1 \in Nat, trail \in Nat,
                   n \in Nat, n1 \in Nat, e \in Nat :
                /\ old = server.version /\ new = server'.version /\ lead = Lead /\ lead1 = Lead'
                /\ trail = Trail /\ n = Len(toServer) /\ n1 = Len(toServer') /\ e = edits
          BY <1>2, <2>2, <5>1
        <5>5. old + n = e + lead + trail /\ new + lead = old + 1 + lead1 /\ n = n1 + 1
          BY <3>1, <5>2, <5>3, <5>4
        <5>6. new + n1 = e + lead1 + trail
          BY <5>5
        <5> QED
          BY <1>1, <4>1, <5>4, <5>6
    <3>4. CASE m.kind = "shutdown"
      <4>1. waiting = ShutdownId
        BY <1>3, <2>8, <3>4 DEF Fits
      <4>2. Trail = 1 /\ Trail' = 0 /\ Lead = 0 /\ Lead' = 0
        BY <1>1, <1>4, <3>4, <4>1 DEF Trail, Lead
      <4>3. server'.version = server.version
        BY <2>3, <3>4 DEF Syncs
      <4> QED
        BY <1>1, <1>2, <2>2, <3>1, <4>2, <4>3
    <3> QED
      BY <1>3, <3>2, <3>3, <3>4 DEF ClientKinds, Syncs
  <2> QED
    BY <1>1, <2>1, <2>3, <2>6, <2>7, <2>8 DEF VersionsCount
<1>11. NoneIsNewer'
  <2>1. server'.text \in {server.text, m.text}
    BY <1>0 DEF Takes
  <2>2. m.text <= edits
    BY <1>1 DEF NoneIsNewer
  <2>3. \A i \in 1..Len(toServer') : toServer'[i].text <= edits
    BY <1>1 DEF NoneIsNewer
  <2>4. ASSUME NEW i \in 1..Len(toClient')
        PROVE  toClient'[i].text <= edits
    <3>1. \/ i \in 1..Len(toClient) /\ toClient'[i] = toClient[i]
          \/ toClient'[i].text = 0
      BY <1>0, <1>2 DEF Takes
    <3>2. edits \in Nat
      BY DEF LspTypeOK
    <3> QED
      BY <3>1, <3>2 DEF NoneIsNewer
  <2> QED
    BY <1>1, <2>1, <2>2, <2>3, <2>4 DEF NoneIsNewer
<1>12. LastIsKept'
  <2>1. CASE UNCHANGED toClient
    BY <1>1, <2>1 DEF LastIsKept, LastOf, NoneIn
  <2>2. CASE /\ Len(toClient') = Len(toClient) + 1
             /\ \A i \in 1..Len(toClient) : toClient'[i] = toClient[i]
             /\ toClient'[Len(toClient) + 1].kind = "answer"
    <3>1. \A i \in 1..Len(toClient') : i \in 1..Len(toClient) \/ i = Len(toClient) + 1
      BY <1>2, <2>2
    <3>2. \A i \in 1..Len(toClient) : i \in 1..Len(toClient')
      BY <1>2, <2>2
    <3>3. NoneIn(toClient') => NoneIn(toClient)
      BY <2>2, <3>2 DEF NoneIn
    <3>4. ASSUME NEW i \in 1..Len(toClient'), LastOf(toClient', i)
          PROVE  i \in 1..Len(toClient) /\ LastOf(toClient, i) /\ toClient'[i] = toClient[i]
      <4>1. i \in 1..Len(toClient)
        BY <2>2, <3>1, <3>4 DEF LastOf
      <4> QED
        BY <2>2, <3>2, <3>4, <4>1 DEF LastOf
    <3> QED
      BY <1>1, <3>3, <3>4 DEF LastIsKept
  <2> QED
    BY <1>0, <2>1, <2>2 DEF Takes
<1> QED
  BY <1>6, <1>7, <1>8, <1>9, <1>10, <1>11, <1>12

LEMMA ServerPublishesInv ==
    ASSUME LspInv, ServerPublishes
    PROVE  LspInv'
<1> USE DEF LspInv
<1>1. /\ UNCHANGED <<lspMay, lspState, pending, waiting, edits, buffer, responses, fired, diags,
                     diagEvent, reader, toServer>>
      /\ server' = [server EXCEPT !.published = server.text]
      /\ toClient' = Append(toClient, Publish(server.text))
  BY DEF ServerPublishes, clientVars
<1>2. /\ server \in [alive : BOOLEAN, phase : {"new", "answered", "ready", "ending"},
                     version : Nat, text : Nat, published : Nat, rejected : BOOLEAN]
      /\ toClient \in Seq(ServerMsgs) /\ Len(toClient) \in Nat
  BY DEF LspTypeOK
<1>3. /\ server'.alive = server.alive /\ server'.phase = server.phase
      /\ server'.version = server.version /\ server'.text = server.text
      /\ server'.rejected = server.rejected /\ server'.published = server.text
      /\ server' \in [alive : BOOLEAN, phase : {"new", "answered", "ready", "ending"},
                      version : Nat, text : Nat, published : Nat, rejected : BOOLEAN]
  BY <1>1, <1>2
<1>4. /\ Publish(server.text) \in ServerMsgs /\ Publish(server.text).kind = "publish"
      /\ Publish(server.text).text = server.text
  BY <1>2 DEF Publish, ServerMsgs
<1>5. /\ toClient' \in Seq(ServerMsgs) /\ Len(toClient') = Len(toClient) + 1
      /\ toClient'[Len(toClient) + 1] = Publish(server.text)
      /\ \A i \in 1..Len(toClient) : toClient'[i] = toClient[i]
  BY <1>1, <1>2, <1>4, OneMore
<1>6. \A i \in 1..Len(toClient') :
        \/ i \in 1..Len(toClient) /\ toClient'[i] = toClient[i]
        \/ i = Len(toClient) + 1 /\ toClient'[i] = Publish(server.text)
  BY <1>2, <1>5
<1>7. LspTypeOK' /\ OnePending' /\ StoredFirst' /\ OffsetsFit'
  BY <1>1, <1>3, <1>5 DEF LspTypeOK, OnePending, StoredFirst, AnswerIsThere, OffsetsFit
<1>8. AnswersFollow'
  <2>1. ASSUME NEW id, Answered(id)'
        PROVE  Answered(id)
    BY <1>1, <1>4, <1>6, <2>1 DEF Answered, OnTheWay
  <2> QED
    BY <1>3, <2>1 DEF AnswersFollow
<1>9. PhasesFollow' /\ StreamInOrder'
  BY <1>1, <1>3 DEF PhasesFollow, StreamInOrder, Fits
<1>10. VersionsCount'
  BY <1>1, <1>3 DEF VersionsCount, TextAt, Lead, Trail
<1>11. NoneIsNewer'
  BY <1>1, <1>3, <1>4, <1>6 DEF NoneIsNewer
<1>12. LastIsKept'
  <2>1. Len(toClient) + 1 \in 1..Len(toClient')
    BY <1>2, <1>5
  <2>2. ~NoneIn(toClient')
    BY <1>4, <1>5, <2>1 DEF NoneIn
  <2>3. ASSUME NEW i \in 1..Len(toClient'), LastOf(toClient', i)
        PROVE  toClient'[i].text = server.text
    <3>1. ~(Len(toClient) + 1 > i)
      BY <1>4, <1>5, <2>1, <2>3 DEF LastOf
    <3>2. i = Len(toClient) + 1
      BY <1>2, <1>5, <3>1
    <3> QED
      BY <1>4, <1>5, <3>2
  <2> QED
    BY <1>3, <2>2, <2>3 DEF LastIsKept
<1> QED
  BY <1>7, <1>8, <1>9, <1>10, <1>11, <1>12

LEMMA ServerDiesInv ==
    ASSUME LspInv, ServerDies
    PROVE  LspInv'
<1> USE DEF LspInv
<1>1. /\ UNCHANGED <<lspMay, lspState, pending, waiting, edits, buffer, responses, fired, diags,
                     diagEvent, reader, toClient>>
      /\ server' = [server EXCEPT !.alive = FALSE]
      /\ toServer' = << >> /\ Len(toServer') = 0
  BY DEF ServerDies, clientVars
<1>2. /\ server'.alive = FALSE /\ server'.phase = server.phase
      /\ server'.version = server.version /\ server'.text = server.text
      /\ server'.rejected = server.rejected /\ server'.published = server.published
      /\ server' \in [alive : BOOLEAN, phase : {"new", "answered", "ready", "ending"},
                      version : Nat, text : Nat, published : Nat, rejected : BOOLEAN]
  BY <1>1 DEF LspTypeOK
<1>3. LspTypeOK' /\ OnePending' /\ StoredFirst' /\ OffsetsFit'
  BY <1>1, <1>2 DEF LspTypeOK, OnePending, StoredFirst, AnswerIsThere, OffsetsFit
<1>4. AnswersFollow' /\ PhasesFollow'
  BY <1>1, <1>2 DEF AnswersFollow, Answered, OnTheWay, PhasesFollow
<1>5. StreamInOrder' /\ VersionsCount'
  BY <1>1, <1>2 DEF StreamInOrder, VersionsCount
<1>6. NoneIsNewer' /\ LastIsKept'
  BY <1>1, <1>2 DEF NoneIsNewer, LastIsKept, LastOf, NoneIn
<1> QED
  BY <1>3, <1>4, <1>5, <1>6

-----------------------------------------------------------------------------
LEMMA LspStepInv ==
    ASSUME LspInv, [LspNext]_lspVars
    PROVE  LspInv'
<1>1. CASE UNCHANGED lspVars
  <2> USE <1>1 DEF LspInv, lspVars
  <2>1. LspTypeOK' /\ OnePending' /\ StoredFirst'
    BY DEF LspTypeOK, OnePending, StoredFirst, AnswerIsThere
  <2>2. AnswersFollow' /\ PhasesFollow'
    BY DEF AnswersFollow, Answered, OnTheWay, PhasesFollow
  <2>3. StreamInOrder' /\ VersionsCount'
    BY DEF StreamInOrder, Fits, VersionsCount, TextAt, Lead, Trail
  <2>4. NoneIsNewer' /\ LastIsKept' /\ OffsetsFit'
    BY DEF NoneIsNewer, LastIsKept, LastOf, NoneIn, OffsetsFit
  <2> QED
    BY <2>1, <2>2, <2>3, <2>4
<1>2. CASE LspNext
  BY <1>2, InitializeInv, InitializeReturnsInv, InitializeTimesOutInv, DidOpenInv, DidChangeInv,
     ShutdownAtOnceInv, ShutdownRequestInv, ShutdownReturnsInv, ShutdownTimesOutInv,
     ReadMessageInv, FireEventInv, StoreDiagnosticsInv, ReaderEndsInv, ServerReceivesInv,
     ServerPublishesInv, ServerDiesInv DEF LspNext
<1> QED
  BY <1>1, <1>2

\* When everything that was sent has been handled, the server's text is the
\* client's, and its diagnostics are the stored ones.
LEMMA LspInvSettles == LspInv => SettledIsExact
<1> SUFFICES ASSUME LspInv, lspMay \cap {"ranged", "reopen"} = {}, lspState = "initialized",
                    server.alive, reader = Idle, toServer = << >>, toClient = << >>,
                    server.published = server.text, buffer.version > 0
             PROVE  diags = [text |-> edits, spans |-> edits] /\ diagEvent
  BY DEF SettledIsExact
<1> USE DEF LspInv
<1>1. reader.at = "idle" /\ Len(toServer) = 0 /\ Len(toClient) = 0
  BY ReaderStates
<1>2. diags.text = server.text
  BY <1>1 DEF LastIsKept, NoneIn
<1>3. Lead = 0 /\ server.phase \in {"ready", "ending"}
  BY DEF PhasesFollow, Lead, LspTypeOK
<1>4. /\ buffer.version = edits /\ server.text = server.version
      /\ server.version + Len(toServer) = edits + Lead + Trail
  BY DEF VersionsCount
<1>5. edits \in Nat /\ server.version \in Nat /\ server.text <= edits /\ Trail \in {0, 1}
  BY DEF LspTypeOK, NoneIsNewer, Trail
<1>6. server.text = edits /\ edits > 0
  BY <1>1, <1>3, <1>4, <1>5
<1>7. diags.spans = edits /\ diagEvent
  BY <1>2, <1>6 DEF OffsetsFit
<1>8. diags = [text |-> diags.text, spans |-> diags.spans]
  BY DEF LspTypeOK
<1> QED
  BY <1>2, <1>6, <1>7, <1>8

\* For any number of edits, and whatever is answered late, never, or by a server
\* that dies: a client that opens its document once is never rejected, a request
\* whose Event is set has its response, and the diagnostics settle on the last
\* text with the offsets of that text (initialize, _dispatch, did_open,
\* did_change, _on_publish_diagnostics, shutdown).
THEOREM ClientStaysInStep == LspSpec => []ClientIsInStep
<1>1. LspInv => ClientIsInStep
  BY LspInvSettles DEF LspInv, ClientIsInStep, NeverRejected, VersionsCount, StoredFirst
<1> QED
  BY <1>1, LspInitInv, LspStepInv, PTL DEF LspSpec
=============================================================================

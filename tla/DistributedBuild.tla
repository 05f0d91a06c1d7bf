--------------------------- MODULE DistributedBuild ---------------------------
(***************************************************************************)
(* DistributedCoordinator of src/build/distributed.py: one thread per      *)
(* task, a round-robin choice among the backends believed healthy, retries *)
(* on other backends, and local execution as the last resort.  The list of *)
(* healthy backends is read under a lock and used after it is released.    *)
(***************************************************************************)
EXTENDS Naturals, Sequences, FiniteSets

CONSTANTS Tasks,          \* the tasks of one dispatch
          Good,           \* commands that exit with 0 wherever they run
          Func,           \* tasks with a callable, which only a local backend runs
          Backends,       \* self.backends, as a sequence of names
          Locals,         \* the names of LocalBackends among them
          Kubernetes,     \* the names of KubernetesBackends among them
          Fallback,       \* "local-fallback"
          None,           \* no backend chosen
          AttemptLimits,  \* the values of max_attempts
          Outages         \* bound on how many remote backends go away

Names   == {Backends[i] : i \in DOMAIN Backends}
Remotes == Names \ Locals

CoordinatorAssumption ==
  /\ Good \subseteq Tasks /\ Func \subseteq Tasks /\ Good \cap Func = {}
  /\ Backends \in Seq(Names) /\ Locals \subseteq Names /\ Kubernetes \subseteq Remotes
  /\ Fallback \notin Names /\ None \notin Names \cup {Fallback}
  /\ AttemptLimits \subseteq Nat /\ Outages \in Nat

ASSUME CoordinatorConstants == CoordinatorAssumption

VARIABLES maxAttempts, \* max_attempts of this coordinator
          up,        \* the remote backends that can be reached
          healthy,   \* _healthy: what the coordinator believes
          rr,        \* the round-robin counter
          pc,        \* each task's thread: "queued", "pick", "index", "run", "mark", "done"
          list,      \* the healthy backends it has read
          worker,    \* the backend it is using
          tried,     \* the names it excludes
          attempt,   \* attempts begun
          success    \* the last result

vars == <<maxAttempts, up, healthy, rr, pc, list, worker, tried, attempt, success>>

IsLocal(w) == w \in Locals \cup {Fallback}

\* run_task of the three backends.  Kubernetes answers when the pod is created.
Succeeds(t, w) ==
  IF IsLocal(w) THEN t \in Good \cup Func
  ELSE /\ w \in up
       /\ t \in Good \/ (w \in Kubernetes /\ t \notin Func)

Running == {t \in Tasks : pc[t] \notin {"queued", "done"}}

\* The pool has as many threads as there are backends.
Start(t) ==
  /\ pc[t] = "queued" /\ Cardinality(Running) < Len(Backends)
  /\ pc' = [pc EXCEPT ![t] = "pick"]
  /\ UNCHANGED <<maxAttempts, up, healthy, rr, list, worker, tried, attempt, success>>

\* The backends a task may use, as positions in self.backends.
Candidates(t) == {i \in DOMAIN Backends : healthy[Backends[i]] /\ Backends[i] \notin tried[t]}

\* _next_worker up to the release of the lock.
ReadHealthy(t) ==
  /\ pc[t] = "pick"
  /\ list' = [list EXCEPT ![t] = Candidates(t)]
  /\ attempt' = [attempt EXCEPT ![t] = @ + 1]
  /\ pc' = [pc EXCEPT ![t] = "index"]
  /\ UNCHANGED <<maxAttempts, up, healthy, rr, worker, tried, success>>

\* The rest of _next_worker: the counter moves only when there is a choice.
ChooseWorker(t) ==
  /\ pc[t] = "index"
  /\ \/ /\ list[t] = {}
        /\ worker' = [worker EXCEPT ![t] = Fallback] /\ UNCHANGED rr
     \/ \E i \in list[t] :
          /\ Cardinality({j \in list[t] : j < i}) = rr % Cardinality(list[t])
          /\ worker' = [worker EXCEPT ![t] = Backends[i]] /\ rr' = rr + 1
  /\ pc' = [pc EXCEPT ![t] = "run"]
  /\ list' = [list EXCEPT ![t] = {}]
  /\ UNCHANGED <<maxAttempts, up, healthy, tried, attempt, success>>

RunTask(t) ==
  /\ pc[t] = "run"
  /\ success' = [success EXCEPT ![t] = Succeeds(t, worker[t])]
  /\ pc' = [pc EXCEPT ![t] = IF Succeeds(t, worker[t]) THEN "done" ELSE "mark"]
  /\ UNCHANGED <<maxAttempts, up, healthy, rr, list, worker, tried, attempt>>

\* _mark_unhealthy
Marked(w) == IF IsLocal(w) THEN healthy ELSE [healthy EXCEPT ![w] = FALSE]

\* Mutant: the thread goes on until an attempt succeeds.
Retry_Forever(t) ==
  /\ pc[t] = "mark"
  /\ healthy' = Marked(worker[t])
  /\ tried' = [tried EXCEPT ![t] = @ \cup {worker[t]}]
  /\ pc' = [pc EXCEPT ![t] = "pick"]
  /\ attempt' = [attempt EXCEPT ![t] = 0]
  /\ UNCHANGED <<maxAttempts, up, rr, list, worker, success>>

\* Mutant: range(1, max_attempts) makes one attempt less.
Retry_OneLess(t) ==
  /\ pc[t] = "mark"
  /\ healthy' = Marked(worker[t])
  /\ tried' = [tried EXCEPT ![t] = @ \cup {worker[t]}]
  /\ pc' = [pc EXCEPT ![t] = IF attempt[t] + 1 < maxAttempts THEN "pick" ELSE "done"]
  /\ UNCHANGED <<maxAttempts, up, rr, list, worker, attempt, success>>

\* The end of a failed attempt in _run_one.
Retry(t) ==
  /\ pc[t] = "mark"
  /\ healthy' = Marked(worker[t])
  /\ tried' = [tried EXCEPT ![t] = @ \cup {worker[t]}]
  /\ pc' = [pc EXCEPT ![t] = IF attempt[t] < maxAttempts THEN "pick" ELSE "done"]
  /\ UNCHANGED <<maxAttempts, up, rr, list, worker, attempt, success>>

\* A remote node goes away.
GoAway(w) ==
  /\ w \in up /\ Cardinality(Remotes \ up) < Outages
  /\ up' = up \ {w}
  /\ UNCHANGED <<maxAttempts, healthy, rr, pc, list, worker, tried, attempt, success>>

Init ==
  /\ maxAttempts \in AttemptLimits
  /\ up = Remotes
  /\ healthy = [w \in Names |-> TRUE]
  /\ rr = 0
  /\ pc = [t \in Tasks |-> IF maxAttempts = 0 THEN "done" ELSE "queued"]
  /\ list = [t \in Tasks |-> {}]
  /\ worker = [t \in Tasks |-> None]
  /\ tried = [t \in Tasks |-> {}]
  /\ attempt = [t \in Tasks |-> 0]
  /\ success = [t \in Tasks |-> FALSE]

Step(t) ==
  Start(t) \/ ReadHealthy(t) \/ ChooseWorker(t) \/ RunTask(t) \/ Retry(t)

Next ==
  \/ \E t \in Tasks : \/ Start(t)
                      \/ ReadHealthy(t)
                      \/ ChooseWorker(t)
                      \/ RunTask(t)
                      \/ Retry(t)
  \/ \E w \in Remotes : GoAway(w)

Spec     == Init /\ [][Next]_vars
\* The threads of the pool run; a run_task call returns.
FairSpec == Spec /\ \A t \in Tasks : WF_vars(Step(t))

-----------------------------------------------------------------------------
(* Properties *)

Failed(t) == pc[t] = "done" /\ ~success[t]

\* "falling back to local execution so a build never stalls because a remote
\* node went away": every task that runs locally ends with a success, as long
\* as there are more attempts than remote backends to spend them on.
FewRemotes       == Cardinality(Remotes) < maxAttempts
FallsBackToLocal == FewRemotes => \A t \in Good \cup Func : ~Failed(t)

\* Every dispatched task gets a result: the retries are bounded and no thread
\* waits for another.
AllTasksEnd == <>(\A t \in Tasks : pc[t] = "done")
=============================================================================

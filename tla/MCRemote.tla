------------------------------- MODULE MCRemote -------------------------------
(***************************************************************************)
(* What aero-topos talks to and waits for: the builders of a coordinator   *)
(* (DistributedBuild), the cache they share (SharedCache), a cluster       *)
(* (HpcScheduler) and a language server (LspProxy).  The variable side     *)
(* says which of the four a behaviour is about; a coordinator that may not *)
(* attempt anything stands for its absence.                                *)
(***************************************************************************)
EXTENDS DistributedBuild, SharedCache, HpcScheduler, LspProxy

CONSTANTS ssh, pod, local, mount

SshAndPod == <<ssh, pod, local>>

\* Three candidate builds with names of their own, and four clusters.
ThreeJobs    == <<"cand_a", "cand_b", "cand_c">>
FourClusters == {{}, {"oom", "killed"}, {"forgets", "flaky"}, {"pbs"}}

\* A session as the protocol has it, one with a failing server, and two with
\* what a client may do besides.
FourSessions == {{}, {"silent", "dies"}, {"ranged"}, {"reopen"}}

VARIABLE side

all == <<side, vars, shared, hpcVars, lspVars>>

\* The parts a behaviour is not about are in one state they may start in.
NoCoordinator == Init /\ maxAttempts = 0
NoCache       == CacheInit /\ mode = "nfs"
NoCluster     == HpcInit /\ clusterMay = {}
NoSession     == LspInit /\ lspMay = {}

MCInit ==
  \/ side = "dispatch" /\ Init /\ NoCache /\ NoCluster /\ NoSession
  \/ side = "cache" /\ NoCoordinator /\ CacheInit /\ NoCluster /\ NoSession
  \/ side = "cluster" /\ NoCoordinator /\ NoCache /\ HpcInit /\ NoSession
  \/ side = "session" /\ NoCoordinator /\ NoCache /\ NoCluster /\ LspInit

MCNext ==
  \/ side = "dispatch" /\ Next /\ UNCHANGED <<side, shared, hpcVars, lspVars>>
  \/ side = "cache" /\ CacheNext /\ UNCHANGED <<side, vars, hpcVars, lspVars>>
  \/ side = "cluster" /\ HpcNext /\ UNCHANGED <<side, vars, shared, lspVars>>
  \/ side = "session" /\ LspNext /\ UNCHANGED <<side, vars, shared, hpcVars>>

\* The fairness of FairSpec, HpcFairSpec and LspFairSpec.
MCSpec ==
  /\ MCInit /\ [][MCNext]_all
  /\ \A t \in Tasks : WF_vars(side = "dispatch" /\ Step(t))
  /\ \A j \in Ids :
       WF_hpcVars(side = "cluster" /\ (\/ WriteScript(j) \/ SubmitImpossible(j)
                                       \/ SubmitAccepted(j) \/ SubmitRefused(j)
                                       \/ Poll(j)))
  /\ WF_lspVars(side = "session" /\ (InitializeReturns \/ InitializeTimesOut))
  /\ WF_lspVars(side = "session" /\ (ShutdownReturns \/ ShutdownTimesOut))
  /\ WF_lspVars(side = "session" /\ (\/ ReadMessage \/ FireEvent
                                      \/ StoreDiagnostics \/ ReaderEnds))

-----------------------------------------------------------------------------
\* Everything this side waits for comes to an end: the tasks of dispatch, the
\* jobs of submit_many, and the requests and the reader of the proxy.
EverythingEnds ==
  /\ side = "dispatch" => AllTasksEnd
  /\ side = "cluster" => AllReturn
  /\ NothingHangs
=============================================================================

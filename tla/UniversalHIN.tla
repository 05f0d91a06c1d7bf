----------------------------- MODULE UniversalHIN -----------------------------
(***************************************************************************)
(* UniversalHINNetwork of core/hin_vm.py: the reduction engine of HINNet   *)
(* with a path-integral cache, consulted before every step and extended    *)
(* after it, and a rigidity sweep over the boundary of a pair that the     *)
(* cache does not know.                                                    *)
(*                                                                         *)
(* The inherited reduce_step calls self.reduce_step on a pair it skips, so *)
(* one call of the overriding method is nested once per skipped pair: every*)
(* level consults the cache on the way down and records on the way up.     *)
(***************************************************************************)
EXTENDS HINNet, FiniteSetsExt

CONSTANTS InitialMemo(_, _, _), \* what the cache knows of a net (agents, wires, pairs)
          MaxAnomalies          \* bound on failed sweeps

VARIABLES memo,        \* PathIntegralCache._memo: the weight of each signature
          hits,        \* coalescence_hits
          sweeps,      \* rigidity_sweeps
          reductions,  \* reductions
          anomalies    \* AnomalyClosureErrors so far

universal == <<memo, hits, sweeps, reductions, anomalies>>
uvars     == <<vars, universal>>

\* node_signature: the agent and the agents its ports lead to.
NodeSignature(ag, w, n) ==
  [kind |-> ag[n],
   ends |-> [i \in 0 .. Arity(ag[n]) |->
               IF w[<<n, i>>] = None THEN "none" ELSE ag[w[<<n, i>>][1]]]]

\* active_pair_signature, whatever the order of the two.
PairSignature(ag, w, pr) == {NodeSignature(ag, w, pr[1]), NodeSignature(ag, w, pr[2])}

Signature(i) == PairSignature(agent, wire, pairs[i])
Known(i)     == Signature(i) \in DOMAIN memo

\* The levels 1 .. k consult the cache and sweep where it has no answer.
Consult(k) ==
  /\ hits' = hits + Cardinality({i \in 1 .. k : Known(i)})
  /\ sweeps' = sweeps + Cardinality({i \in 1 .. k : ~Known(i)})

Weight(s) == IF s \in DOMAIN memo THEN memo[s] ELSE 0

\* PathIntegralCache.record at each level.
Recorded(k) ==
  [s \in DOMAIN memo \cup {Signature(i) : i \in 1 .. k} |->
     Weight(s) + Cardinality({i \in 1 .. k : Signature(i) = s})]

\* reduce_step where the first k - 1 pairs are skipped and the k-th fires.  A
\* rule that raises passes all the recording by.
UReduceStep(k) ==
  /\ ReduceStep(k)
  /\ Consult(k)
  /\ IF status' = "ready"
       THEN memo' = Recorded(k) /\ reductions' = reductions + k
       ELSE UNCHANGED <<memo, reductions>>
  /\ UNCHANGED anomalies

\* reduce_step where no pair fires: False at every level.
UDrainWorklist ==
  /\ DrainWorklist
  /\ Consult(Len(pairs))
  /\ UNCHANGED <<memo, reductions, anomalies>>

\* Mutant: the pair is popped before it is swept.
Anomaly_Pops(k) ==
  /\ status = "ready" /\ anomalies < MaxAnomalies
  /\ \A i \in 1 .. (k - 1) : ~Fires(pairs[i])
  /\ ~Known(k)
  /\ Consult(k)
  /\ pairs' = SubSeq(pairs, k + 1, Len(pairs))
  /\ anomalies' = anomalies + 1
  /\ UNCHANGED <<agent, val, cloned, live, wire, fresh, status, built, memo, reductions>>

\* The sweep of the k-th pair fails: the pairs before it are gone, it is not.
Anomaly(k) ==
  /\ status = "ready" /\ anomalies < MaxAnomalies
  /\ \A i \in 1 .. (k - 1) : ~Fires(pairs[i])
  /\ ~Known(k)
  /\ Consult(k)
  /\ pairs' = SubSeq(pairs, k, Len(pairs))
  /\ anomalies' = anomalies + 1
  /\ UNCHANGED <<agent, val, cloned, live, wire, fresh, status, built, memo, reductions>>

\* adopt: the state of a net that has been built, and the cache of a ledger.
UInit ==
  /\ Init
  /\ memo = InitialMemo(agent, wire, pairs)
  /\ hits = 0 /\ sweeps = 0 /\ reductions = 0 /\ anomalies = 0

UReduce == (\E k \in DOMAIN pairs : UReduceStep(k)) \/ UDrainWorklist

UNext == UReduce \/ \E k \in DOMAIN pairs : Anomaly(k)

USpec == UInit /\ [][UNext]_uvars

-----------------------------------------------------------------------------
(* Properties *)

=============================================================================

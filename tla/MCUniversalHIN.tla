---------------------------- MODULE MCUniversalHIN ----------------------------
(***************************************************************************)
(* Executions of the nets and programs of MCHINNet by the plain reduction  *)
(* engine, and of the nets without duplicators by the universal one, whose *)
(* cache has seen their first pairs before.  The variable universalNet     *)
(* says whose a behaviour is.                                              *)
(***************************************************************************)
EXTENDS UniversalHIN, MCHINNet

VARIABLE universalNet

everything == <<vars, tvars, universal, universalNet>>

\* What a cache knows that has seen the first pairs of the net reduced.
SeenBefore(ag, w, ps) ==
  [s \in {PairSignature(ag, w, ps[i]) : i \in {j \in DOMAIN ps : HasRule(ag[ps[j][1]], ag[ps[j][2]])}} |-> 1]

EngineInit ==
  \/ /\ universalNet = FALSE /\ MCInit
     /\ memo = <<>> /\ hits = 0 /\ sweeps = 0 /\ reductions = 0 /\ anomalies = 0
  \/ /\ universalNet = TRUE /\ ByHand /\ UInit
     /\ live # {} /\ Linear

EngineNext ==
  \/ ~universalNet /\ MCNext /\ UNCHANGED <<universal, universalNet>>
  \/ universalNet /\ UNext /\ UNCHANGED <<tvars, universalNet>>

\* A caller of either engine reduces until the worklist is empty; sweeps that
\* fail are tried again.
EngineSpec ==
  /\ EngineInit /\ [][EngineNext]_everything
  /\ WF_everything(~universalNet /\ Rewriting /\ UNCHANGED <<universal, universalNet>>)
  /\ WF_everything(universalNet /\ UReduce /\ UNCHANGED <<tvars, universalNet>>)
============================================================================

-------------------------------- MODULE Healing --------------------------------
(***************************************************************************)
(* The two ways a source of the build is repaired: transactions in a       *)
(* staging directory (HealingStage) and the diagnostics loop that edits in *)
(* place (SelfHealing).  They share no state.                              *)
(***************************************************************************)
EXTENDS HealingStage, SelfHealing

RepairSpec == HealingSpec /\ LoopSpec

\* A repair that is reported as failed has left nothing behind, in the staging
\* directory's production tree or in place, and a good one is there
\* (execute_healing_transaction, heal_module).
FailedRepairLeavesNoTrace ==
    RollbackLeavesProduction /\ GoodRepairIsPromoted /\ HealIsAllOrNothing
================================================================================

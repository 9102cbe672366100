------------------------------- MODULE MCStore -------------------------------
(* Small instances of CycStore.                                            *)
EXTENDS CycStore, TLC

CONSTANTS
    j1, j2, n1, n2, p1,
    PlanTime,   \* how far the clock goes once there are plans
    PlanFleet   \* and the last fleet revision then

(* Every job suits every node.                                             *)
AnyNode == [j \in Jobs |-> Nodes]

(* Contention needs time and plans need fleet revisions, not both: a plan  *)
(* is good for one revision only.                                          *)
Scope ==
    \/ now <= PlanTime /\ fleet <= PlanFleet
    \/ plans = [p \in PlanIds |-> NoPlan] /\ \A n \in Nodes : nodes[n].rev = 0

(* Jobs of equal standing may be exchanged.                                *)
JobSymmetry == Permutations(Jobs)
=============================================================================

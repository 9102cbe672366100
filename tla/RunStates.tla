------------------------------ MODULE RunStates ------------------------------
(* The states of a run, cyc-protocol's JobState, shared by the controller's *)
(* store and the worker's run session.                                      *)

Terminal == {"Succeeded", "Failed", "Cancelled"}
Executing == {"Preparing", "Running", "Verifying"}

(* JobState::can_transition_to.                                            *)
CanTransition(s, next) ==
    \/ s = "Queued"    /\ next \in {"Preparing", "Failed", "Cancelled"}
    \/ s = "Preparing" /\ next \in {"Running", "Failed", "Cancelled"}
    \/ s = "Running"   /\ next \in {"Verifying"} \cup Terminal
    \/ s = "Verifying" /\ next \in Terminal
=============================================================================

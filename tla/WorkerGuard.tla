----------------------------- MODULE WorkerGuard -----------------------------
(***************************************************************************)
(* The worker host's active-run guard: crates/cyc-worker/src/runtime.rs,   *)
(* run_forever, claim_loop, run_guarded_assignment and the marker file     *)
(* they keep in the workspace.  Daemons (one in a proper installation,     *)
(* more if a service is started twice) share one workspace; they crash,    *)
(* the host loses power, and managed processes outlive a dead daemon.      *)
(*                                                                         *)
(* What happens inside an assignment is RunSession; here it only starts    *)
(* and stops processes and ends with success or an error.                  *)
(***************************************************************************)
EXTENDS Naturals

CONSTANTS
    Daemons,  \* worker daemons using the workspace
    Runs,     \* runs the controller dispatches to this node
    NoRun     \* no marker entry; no assignment

ASSUME NoRunAssumption == NoRun \notin Runs

VARIABLES
    marker,   \* the run named by the marker entry everybody sees
    disk,     \* the entry that survives a power loss
    alive,    \* runs with a managed process that no monitor reported gone
    stray,    \* runs with a process that outlived such a report
    queue,    \* runs nobody claimed yet
    acked,    \* runs whose terminal and cleanup receipts were acknowledged
    pc,       \* what each daemon does
    run       \* its assignment

vars == <<marker, disk, alive, stray, queue, acked, pc, run>>

Places == {"down", "poll", "claiming", "claimed", "armed", "work", "clear",
           "cleared", "parked"}

Goto(d, place) == pc' = [pc EXCEPT ![d] = place]

-----------------------------------------------------------------------------
(* Polling and claiming.                                                   *)

(* refuse_containment_quarantine: any entry at the marker path refuses.    *)
Unmarked == marker = NoRun

(* run_forever: startup refuses while the marker exists.                   *)
Start(d) ==
    /\ pc[d] = "down" /\ Unmarked
    /\ Goto(d, "poll")
    /\ UNCHANGED <<marker, disk, alive, stray, queue, acked, run>>

(* claim_loop looks again before every poll and exits on a marker.         *)
Poll(d) ==
    /\ pc[d] = "poll"
    /\ Goto(d, IF Unmarked THEN "claiming" ELSE "down")
    /\ UNCHANGED <<marker, disk, alive, stray, queue, acked, run>>

(* The controller dispatched a run, committed the claim, and the response  *)
(* arrived.                                                                *)
Claim(d, r) ==
    /\ pc[d] = "claiming" /\ r \in queue
    /\ queue' = queue \ {r}
    /\ run' = [run EXCEPT ![d] = r]
    /\ Goto(d, "claimed")
    /\ UNCHANGED <<marker, disk, alive, stray, acked>>

(* The claim was committed and its response lost: the run expires at the   *)
(* controller, this daemon retries after a delay.                          *)
ClaimLost(d, r) ==
    /\ pc[d] = "claiming" /\ r \in queue
    /\ queue' = queue \ {r}
    /\ Goto(d, "poll")
    /\ UNCHANGED <<marker, disk, alive, stray, acked, run>>

(* No assignment, or a transient error; a permanent one ends the daemon.   *)
ClaimNothing(d) ==
    /\ pc[d] = "claiming"
    /\ \E next \in {"poll", "down"} : Goto(d, next)
    /\ UNCHANGED <<marker, disk, alive, stray, queue, acked, run>>

-----------------------------------------------------------------------------
(* The guard.                                                              *)

(* Mutant: an existing entry is replaced by the new record.                *)
MutArm(d) ==
    /\ pc[d] = "claimed"
    /\ marker' = run[d] /\ Goto(d, "armed")
    /\ UNCHANGED <<disk, alive, stray, queue, acked, run>>

(* persist_active_run_guard installs the record by a hard link (a rename   *)
(* that cannot replace, on Windows): it fails when there is an entry, and  *)
(* the daemon parks for ever.                                              *)
Arm(d) ==
    /\ pc[d] = "claimed"
    /\ IF marker = NoRun
       THEN marker' = run[d] /\ Goto(d, "armed")
       ELSE marker' = marker /\ Goto(d, "parked")
    /\ UNCHANGED <<disk, alive, stray, queue, acked, run>>

(* Mutant: the work begins before the directory is flushed.                *)
MutArmed(d) ==
    /\ pc[d] = "armed" /\ marker = run[d]
    /\ Goto(d, "work")
    /\ UNCHANGED <<marker, disk, alive, stray, queue, acked, run>>

(* The directory is flushed and the record read back; only then does the   *)
(* work receive its first poll.                                            *)
Armed(d) ==
    /\ pc[d] = "armed" /\ marker = run[d]
    /\ disk' = marker
    /\ Goto(d, "work")
    /\ UNCHANGED <<marker, alive, stray, queue, acked, run>>

(* GuardDurabilityLost while arming, with or without an entry left behind. *)
ArmFailed(d) ==
    /\ pc[d] \in {"claimed", "armed"}
    /\ Goto(d, "parked")
    /\ UNCHANGED <<marker, disk, alive, stray, queue, acked, run>>

(* Source preparation and steps start managed processes one after another. *)
Spawn(d) ==
    /\ pc[d] = "work"
    /\ alive' = alive \cup {run[d]}
    /\ UNCHANGED <<marker, disk, stray, queue, acked, pc, run>>

(* run_process saw the tree empty, and it is.                              *)
Reap(d) ==
    /\ pc[d] = "work"
    /\ alive' = alive \ {run[d]}
    /\ UNCHANGED <<marker, disk, stray, queue, acked, pc, run>>

(* run_process saw the tree empty while a process of it lives: after a     *)
(* cancellation or a timeout the first empty look decides                  *)
(* (ProcessTree.ContainmentSound says what a look may miss).               *)
Overlook(d) ==
    /\ pc[d] = "work" /\ run[d] \in alive
    /\ alive' = alive \ {run[d]}
    /\ stray' = stray \cup {run[d]}
    /\ UNCHANGED <<marker, disk, queue, acked, pc, run>>

(* process_assignment returned Ok: the process tree was reported empty,    *)
(* the completion and the cleanup receipt were acknowledged.               *)
Succeed(d) ==
    /\ pc[d] = "work" /\ run[d] \notin alive
    /\ acked' = acked \cup {run[d]}
    /\ Goto(d, "clear")
    /\ UNCHANGED <<marker, disk, alive, stray, queue, run>>

(* Mutant: an error after which no process is left clears the guard too.   *)
MutFail(d) ==
    /\ pc[d] = "work"
    /\ IF run[d] \in alive
       THEN marker' = marker /\ Goto(d, "down")
       ELSE marker' = NoRun /\ Goto(d, "cleared")
    /\ UNCHANGED <<disk, alive, stray, queue, acked, run>>

(* process_assignment returned an error, its processes alive or not: the   *)
(* guard is verified and kept and the daemon exits.                        *)
Fail(d) ==
    /\ pc[d] = "work"
    /\ Goto(d, IF marker = run[d] THEN "down" ELSE "parked")
    /\ UNCHANGED <<marker, disk, alive, stray, queue, acked, run>>

(* ActiveRunGuard::clear removes only its own record.                      *)
Clear(d) ==
    /\ pc[d] = "clear" /\ marker = run[d]
    /\ marker' = NoRun
    /\ Goto(d, "cleared")
    /\ UNCHANGED <<disk, alive, stray, queue, acked, run>>

(* The directory is flushed, on Unix only, and the next poll begins.       *)
Cleared(d) ==
    /\ pc[d] = "cleared"
    /\ disk' \in {marker, disk}
    /\ Goto(d, "poll")
    /\ UNCHANGED <<marker, alive, stray, queue, acked, run>>

(* GuardDurabilityLost while clearing.                                     *)
ClearFailed(d) ==
    /\ pc[d] \in {"clear", "cleared"}
    /\ Goto(d, "parked")
    /\ UNCHANGED <<marker, disk, alive, stray, queue, acked, run>>

-----------------------------------------------------------------------------
(* The host.                                                               *)

(* A daemon dies or is stopped; its processes and the marker stay.         *)
Crash(d) ==
    /\ pc[d] # "down"
    /\ Goto(d, "down")
    /\ UNCHANGED <<marker, disk, alive, stray, queue, acked, run>>

(* A process ends by itself, watched or not.                               *)
Exit(r) ==
    /\ \/ r \in alive /\ alive' = alive \ {r} /\ stray' = stray
       \/ r \in stray /\ stray' = stray \ {r} /\ alive' = alive
    /\ UNCHANGED <<marker, disk, queue, acked, pc, run>>

(* Power loss: no process survives; of the marker, what was flushed does,  *)
(* and what was not may.                                                   *)
PowerLoss ==
    /\ alive' = {} /\ stray' = {}
    /\ pc' = [d \in Daemons |-> "down"]
    /\ marker' \in {marker, disk} /\ disk' = marker'
    /\ UNCHANGED <<queue, acked, run>>

(* The operator stops the service, makes sure that no managed descendant   *)
(* remains, and removes the marker.                                        *)
Inspect ==
    /\ \A d \in Daemons : pc[d] = "down"
    /\ alive = {} /\ stray = {}
    /\ marker' = NoRun /\ disk' = NoRun
    /\ UNCHANGED <<alive, stray, queue, acked, pc, run>>

-----------------------------------------------------------------------------

Init ==
    /\ marker = NoRun /\ disk = NoRun
    /\ alive = {} /\ stray = {} /\ queue = Runs /\ acked = {}
    /\ pc = [d \in Daemons |-> "down"]
    /\ run = [d \in Daemons |-> NoRun]

Claiming(d) ==
    \/ Start(d) \/ Poll(d) \/ ClaimNothing(d)
    \/ \E r \in Runs : Claim(d, r) \/ ClaimLost(d, r)

Guarded(d) ==
    \/ Arm(d) \/ Armed(d) \/ ArmFailed(d)
    \/ Spawn(d) \/ Reap(d) \/ Overlook(d) \/ Succeed(d) \/ Fail(d)
    \/ Clear(d) \/ Cleared(d) \/ ClearFailed(d)

Next ==
    \/ \E d \in Daemons : Claiming(d) \/ Guarded(d) \/ Crash(d)
    \/ \E r \in Runs : Exit(r)
    \/ PowerLoss \/ Inspect

Spec == Init /\ [][Next]_vars

-----------------------------------------------------------------------------
(* Properties.                                                             *)

(* Types of the variables.                                                 *)
TypeOK ==
    /\ marker \in Runs \cup {NoRun} /\ disk \in Runs \cup {NoRun}
    /\ alive \subseteq Runs /\ stray \subseteq Runs
    /\ queue \subseteq Runs /\ acked \subseteq Runs
    /\ pc \in [Daemons -> Places] /\ run \in [Daemons -> Runs \cup {NoRun}]

(* A process never runs without a marker that names its run and would      *)
(* survive a power loss, so that no crash point lets a restarted daemon    *)
(* overlook it.  One exception: a process that run_process took for gone,  *)
(* and this only once the receipts of its run were acknowledged            *)
(* (run_guarded_assignment_inner, ActiveRunGuard::clear).                  *)
GuardCovers ==
    /\ \A r \in alive : marker = r /\ disk = r
    /\ \A r \in stray : (marker = r /\ disk = r) \/ r \in acked

(* A daemon begins work, and so starts processes, only on a host where no  *)
(* other run has an unfinished assignment, and no other a process but one  *)
(* that run_process took for gone before that run was acknowledged         *)
(* (persist_active_run_guard, run_guarded_assignment_inner).               *)
SoleWorker ==
    \A d \in Daemons : pc[d] = "work" =>
        /\ alive \subseteq {run[d]}
        /\ stray \subseteq acked \cup {run[d]}
        /\ \A e \in Daemons : pc[e] \in {"armed", "work", "clear"} => e = d

(* The durable marker of a run disappears only after the receipts of the   *)
(* run were acknowledged, or by the operator's hand on a quiet host.       *)
MarkerRetained ==
    [][(marker \in Runs /\ disk = marker /\ marker' # marker) =>
          \/ marker \in acked
          \/ alive \cup stray = {} /\ \A d \in Daemons : pc[d] = "down"]_vars

-----------------------------------------------------------------------------
(* What a document says and the code does not do: README, section 5.       *)

(* docs/managed-worker-protocol.md 435-436: the worker "fails closed when  *)
(* it cannot confirm that every descendant (including a setsid escape) is  *)
(* gone"; the marker would then stay as long as any of them lives.         *)
EveryProcessMarked == \A r \in alive \cup stray : marker = r
=============================================================================

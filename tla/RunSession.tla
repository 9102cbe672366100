----------------------------- MODULE RunSession -----------------------------
(***************************************************************************)
(* One assignment between its claim and its cleanup receipt: the worker's  *)
(* tasks (crates/cyc-worker/src/runtime.rs, process_assignment) against    *)
(* the controller's run endpoints (crates/cyc-controller/src/worker_api.rs *)
(* and store.rs), over a network that loses, delays and reorders requests  *)
(* and loses responses.                                                    *)
(*                                                                         *)
(* Three tasks of the worker share RunControl: the main task, the          *)
(* heartbeat loop and the watchdogs.  A step of a task reaches from one    *)
(* await to the next.  A request the worker gave up may still be handled   *)
(* by the controller later.  Deadlines are the time that remains.          *)
(***************************************************************************)
EXTENDS Integers, Sequences, FiniteSets, RunStates

CONSTANTS
    TTL,        \* CLAIM_TTL_SECONDS
    ClockLag,   \* age of the clock reading an operation works with
    ClockSkew,  \* how far the worker's clock is behind the controller's
    Attempts,   \* sends of one control request (3 in the code)
    MaxWire     \* a heartbeat is sent only with fewer requests in flight

ASSUME SessionAssumption ==
    /\ TTL \in Nat \ {0} /\ ClockLag \in Nat /\ ClockSkew \in Nat
    /\ Attempts \in Nat \ {0} /\ MaxWire \in Nat \ {0}

VARIABLES
    ctl,    \* the controller's rows of the run
    hist,   \* auxiliary: the state the run had at version v is hist[v + 1]
    wire,   \* requests sent and not yet handled
    view,   \* RunControl.version and RunControl.state
    lease,  \* RunControl.lease_until
    stop,   \* the cancellation word the tasks and the process share
    main,   \* the main task
    hb      \* the heartbeat task

vars == <<ctl, hist, wire, view, lease, stop, main, hb>>

States == Executing \cup Terminal
StopReasons == {"none", "requested", "lease_lost", "job_timeout", "transport_failure"}
Outcomes == {"removed", "not_created"}
Stopped == {"done", "quarantined", "crashed"}
Larger(a, b) == IF a >= b THEN a ELSE b

(* A request.  "arg" is the state of a heartbeat, the next state of an     *)
(* update, the final state of a completion or the outcome of a cleanup.    *)
Request == [ kind: {"heartbeat", "state", "complete", "cleanup"},
             attempt: 0..(Attempts - 1), version: Nat, arg: States \cup Outcomes ]

NoCall == [ kind |-> "none", attempt |-> 0, version |-> 0, arg |-> "none" ]

(* A response: the authoritative version, state and cancellation flag of   *)
(* StateUpdateResponse, HeartbeatResponse or VersionConflict.              *)
Reply == [ kind: {"ok", "conflict", "denied"}, version: Nat, state: States,
           cancel: BOOLEAN, lease: Int ]

NoReply == [ kind |-> "none", version |-> 0, state |-> "Failed",
             cancel |-> FALSE, lease |-> 0 ]

(* The stored completion document is determined by its expected version    *)
(* and final state: the worker changes no other part without these.        *)
Document == [version: Nat, state: Terminal]
NoDocument == [version |-> 0, state |-> "none"]

-----------------------------------------------------------------------------
(* The controller's handlers.  Each gives the rows after it and the        *)
(* response; a transaction that fails leaves the rows as they were, its    *)
(* expire_leases prefix included, though the response tells of it.         *)

Answer(kind, c, l) ==
    [ kind |-> kind, version |-> c.version, state |-> c.state,
      cancel |-> c.cancel, lease |-> l ]

Accept(c, l) == [rows |-> c, reply |-> Answer("ok", c, l)]
Conflict(c) == [rows |-> ctl, reply |-> Answer("conflict", c, 0)]
Denied == [rows |-> ctl, reply |-> [NoReply EXCEPT !.kind = "denied"]]

Live(c) == c.state \in Executing

(* Mutant: a run that is being cancelled is left to its worker.            *)
MutExpireUncancelled(c, d) ==
    IF Live(c) /\ c.lease + d <= 0 /\ ~c.cancel
    THEN [c EXCEPT !.state = "Failed", !.version = @ + 1, !.lease = 0]
    ELSE c

(* expire_leases with a clock reading that is d old.                       *)
Expire(c, d) ==
    IF Live(c) /\ c.lease + d <= 0
    THEN [c EXCEPT !.state = "Failed", !.version = @ + 1, !.lease = 0]
    ELSE c

(* worker_heartbeat.  A request that has not seen the cancellation yet is  *)
(* accepted, so that the response can tell of it.                          *)
HandleHeartbeat(r, d) ==
    LET c == Expire(ctl, d) IN
    IF ~Live(c) THEN Denied
    ELSE IF /\ r.version = c.version \/ (c.cancel /\ r.version < c.version)
            /\ r.arg = c.state
         THEN Accept([c EXCEPT !.lease = TTL - d], TTL - d)
         ELSE Conflict(c)

(* worker_transition.                                                      *)
HandleState(r, d) ==
    LET c == Expire(ctl, d) IN
    IF ~Live(c) THEN Denied
    ELSE IF r.version = c.version /\ ~c.cancel /\ CanTransition(c.state, r.arg)
         THEN Accept([c EXCEPT !.state = r.arg, !.version = @ + 1], 0)
         ELSE Conflict(c)

(* Mutant: the cancellation flag is not looked at again.                   *)
MutHandleComplete(r, d) ==
    LET c == Expire(ctl, d)
        doc == [version |-> r.version, state |-> r.arg] IN
    IF ~Live(c)
    THEN IF c.completion = doc THEN Accept(c, 0) ELSE Conflict(c)
    ELSE IF r.version = c.version /\ CanTransition(c.state, r.arg)
         THEN Accept([c EXCEPT !.state = r.arg, !.version = @ + 1,
                               !.lease = 0, !.completion = doc], 0)
         ELSE Conflict(c)

(* worker_complete_managed.  An ended run acknowledges only the document   *)
(* that ended it.                                                          *)
HandleComplete(r, d) ==
    LET c == Expire(ctl, d)
        doc == [version |-> r.version, state |-> r.arg] IN
    IF ~Live(c)
    THEN IF c.completion = doc THEN Accept(c, 0) ELSE Conflict(c)
    ELSE IF /\ r.version = c.version
            /\ c.cancel => r.arg \in {"Cancelled", "Failed"}
            /\ CanTransition(c.state, r.arg)
         THEN Accept([c EXCEPT !.state = r.arg, !.version = @ + 1,
                               !.lease = 0, !.completion = doc], 0)
         ELSE Conflict(c)

(* record_cleanup.                                                         *)
HandleCleanup(r) ==
    IF /\ ctl.completion # NoDocument /\ r.version = ctl.version
       /\ ctl.receipt \in {"none", r.arg}
    THEN Accept([ctl EXCEPT !.receipt = r.arg], 0)
    ELSE Denied

Handle(r, d) ==
    CASE r.kind = "heartbeat" -> HandleHeartbeat(r, d)
      [] r.kind = "state"     -> HandleState(r, d)
      [] r.kind = "complete"  -> HandleComplete(r, d)
      [] r.kind = "cleanup"   -> HandleCleanup(r)

Store(c) ==
    /\ ctl' = c
    /\ hist' = IF c.version = ctl.version THEN hist ELSE Append(hist, c.state)

(* The response reaches the task that still waits for it, or nobody.       *)
Deliver(r, reply) ==
    /\ main' = IF r = main.call /\ main.reply = NoReply
               THEN [main EXCEPT !.reply = reply] ELSE main
    /\ hb' = IF r = hb.call /\ hb.reply = NoReply
             THEN [hb EXCEPT !.reply = reply] ELSE hb

Serve(r, d) ==
    LET h == Handle(r, d) IN
    /\ wire' = wire \ {r}
    /\ Store(h.rows)
    /\ Deliver(r, h.reply)
    /\ UNCHANGED <<view, lease, stop>>

(* Any other refusal: evidence that does not match, a revoked pairing.     *)
Refuse(r) ==
    /\ wire' = wire \ {r}
    /\ Deliver(r, Denied.reply)
    /\ UNCHANGED <<ctl, hist, view, lease, stop>>

(* cancel_job by a client, for a claimed run.                              *)
Cancel(d) ==
    LET c == Expire(ctl, d) IN
    /\ Live(c) /\ ~c.cancel
    /\ Store([c EXCEPT !.cancel = TRUE, !.version = @ + 1])
    /\ UNCHANGED <<wire, view, lease, stop, main, hb>>

(* Any operation on another run expires this one's lease.                  *)
ExpireLeases(d) ==
    /\ Store(Expire(ctl, d))
    /\ UNCHANGED <<wire, view, lease, stop, main, hb>>

-----------------------------------------------------------------------------
(* RunControl.                                                             *)

(* Mutant: the response that came last wins.                               *)
MutApplyStateVersion(v, s) == view' = [version |-> Larger(view.version, v), state |-> s]

(* apply_state_version, under the state lock.                              *)
ApplyStateVersion(v, s) ==
    view' = [ version |-> Larger(view.version, v),
              state |-> IF v >= view.version THEN s ELSE view.state ]

(* publish_version: fetch_max, without the state.                          *)
PublishVersion(v) == view' = [view EXCEPT !.version = Larger(@, v)]

ObserveCancel(flag) == stop' = IF flag THEN "requested" ELSE stop

(* cancellation_final_state.                                               *)
CancelFinal == IF stop \in {"requested", "lease_lost"} THEN "Cancelled" ELSE "Failed"

-----------------------------------------------------------------------------
(* The main task.                                                          *)

NoWork == [pc |-> "stopped", seen |-> "none", call |-> NoCall, reply |-> NoReply]

(* The main task sends a request and waits.                                *)
Send(pc, kind, attempt, version, arg, pending) ==
    LET r == [kind |-> kind, attempt |-> attempt, version |-> version, arg |-> arg]
    IN  /\ wire' = wire \cup {r}
        /\ main' = [main EXCEPT !.pc = pc, !.call = r, !.reply = NoReply,
                                !.pending = pending]

Idle == main.call = NoCall

(* execute_assignment returns an error: process_assignment aborts its      *)
(* tasks, the marker stays, the daemon exits; RunControl dies with them.   *)
Quarantine ==
    /\ main' = [main EXCEPT !.pc = "quarantined", !.call = NoCall, !.reply = NoReply]
    /\ hb' = NoWork
    /\ UNCHANGED <<ctl, hist, wire, view, lease, stop>>

BeginTransition(pc, next) ==
    /\ Send(pc, "state", 0, view.version, next, NoDocument)
    /\ UNCHANGED <<ctl, hist, view, lease, stop, hb>>

(* submit_completion, which reads the version once, before its first send. *)
BeginComplete(final) ==
    /\ Send("complete", "complete", 0, view.version, final,
            [version |-> view.version, state |-> final])
    /\ UNCHANGED <<ctl, hist, view, lease, stop, hb>>

(* prepare_job succeeded: its job root exists.                             *)
Prepared ==
    /\ main.pc = "prepare" /\ Idle /\ main.root = "created"
    /\ BeginTransition("start", "Running")

(* prepare_job creates the job root first.                                 *)
CreateRoot ==
    /\ main.pc = "prepare" /\ Idle /\ main.root = "none"
    /\ main' = [main EXCEPT !.root = "created"]
    /\ UNCHANGED <<ctl, hist, wire, view, lease, stop, hb>>

(* source_failure_termination: a snapshot always fails, a git source ends  *)
(* as the cancellation word says.                                          *)
PrepareFailed ==
    /\ main.pc = "prepare" /\ Idle
    /\ \E final \in {"Failed", CancelFinal} : BeginComplete(final)

StepsSucceeded ==
    /\ main.pc = "execute" /\ Idle
    /\ BeginTransition("verify", "Verifying")

(* The steps failed, or the process was stopped for the reason in the word.*)
StepsFailed ==
    /\ main.pc = "execute" /\ Idle
    /\ \E final \in {"Failed", CancelFinal} : BeginComplete(final)

(* The process tree was not proven empty.                                  *)
ContainmentLost ==
    /\ main.pc \in {"prepare", "execute"} /\ Idle
    /\ Quarantine

Uploaded ==
    /\ main.pc = "upload" /\ Idle
    /\ BeginComplete("Succeeded")

UploadFailed ==
    /\ main.pc = "upload" /\ Idle
    /\ BeginComplete(CancelFinal)

(* What follows an acknowledged transition.                                *)
Then(pc) == IF pc = "start" THEN "execute" ELSE "upload"

(* transition: success, or a conflict that says the run is where it should *)
(* be or is being cancelled.                                               *)
TransitionDone ==
    /\ main.call.kind = "state"
    /\ \/ main.reply.kind = "ok"
       \/ /\ main.reply.kind = "conflict"
          /\ main.reply.cancel \/ main.reply.state = main.call.arg
    /\ ApplyStateVersion(main.reply.version, main.reply.state)
    /\ ObserveCancel(main.reply.cancel)
    /\ main' = [main EXCEPT !.pc = Then(@), !.call = NoCall, !.reply = NoReply]
    /\ UNCHANGED <<ctl, hist, wire, lease, hb>>

(* Any other refusal.  The code also retries a conflict that tells neither *)
(* of a cancellation nor of the wanted state; ConflictExplained says that  *)
(* there is none.                                                          *)
TransitionFailed ==
    /\ main.call.kind = "state" /\ main.reply.kind = "denied"
    /\ Quarantine

(* submit_completion: the acknowledgement.  execute_assignment returns and *)
(* process_assignment aborts the other tasks.                              *)
CompleteAcknowledged ==
    /\ main.call.kind = "complete" /\ main.reply.kind = "ok"
    /\ main.reply.state = main.pending.state
    /\ ApplyStateVersion(main.reply.version, main.reply.state)
    /\ ObserveCancel(main.reply.cancel)
    /\ main' = [main EXCEPT !.pc = "remove", !.call = NoCall, !.reply = NoReply]
    /\ hb' = NoWork
    /\ UNCHANGED <<ctl, hist, wire, lease>>

(* A conflict that tells of a cancellation turns the completion into one.  *)
Rewritten == IF main.reply.cancel THEN "Cancelled" ELSE main.pending.state

CompleteConflict ==
    /\ main.call.kind = "complete" /\ main.reply.kind = "conflict"
    /\ main.reply.state \notin Terminal /\ main.call.attempt < Attempts - 1
    /\ ApplyStateVersion(main.reply.version, main.reply.state)
    /\ ObserveCancel(main.reply.cancel)
    /\ Send("complete", "complete", main.call.attempt + 1, main.reply.version,
            Rewritten, [version |-> main.reply.version, state |-> Rewritten])
    /\ UNCHANGED <<ctl, hist, lease, hb>>

CompleteFailed ==
    /\ main.call.kind = "complete"
    /\ \/ main.reply.kind = "denied"
       \/ /\ main.reply.kind = "conflict"
          /\ main.reply.state \in Terminal \/ main.call.attempt = Attempts - 1
    /\ Quarantine

(* remove_job_root_after_terminal_ack, then the receipt.                   *)
RemoveRoot ==
    /\ main.pc = "remove" /\ Idle
    /\ LET r == [ kind |-> "cleanup", attempt |-> 0, version |-> view.version,
                  arg |-> IF main.root = "created" THEN "removed" ELSE "not_created" ]
       IN  /\ wire' = wire \cup {r}
           /\ main' = [main EXCEPT !.pc = "receipt", !.call = r, !.reply = NoReply,
                                   !.root = "none"]
    /\ UNCHANGED <<ctl, hist, view, lease, stop, hb>>

RemoveFailed == main.pc = "remove" /\ Idle /\ Quarantine

CleanupAcknowledged ==
    /\ main.call.kind = "cleanup" /\ main.reply.kind = "ok"
    /\ main' = [main EXCEPT !.pc = "done", !.call = NoCall, !.reply = NoReply]
    /\ UNCHANGED <<ctl, hist, wire, view, lease, stop, hb>>

CleanupFailed ==
    /\ main.call.kind = "cleanup" /\ main.reply.kind = "denied"
    /\ Quarantine

(* Mutant: a completion nobody answered is taken as acknowledged.          *)
MutTransportError ==
    /\ ~Idle
    /\ IF main.call.attempt = Attempts - 1
       THEN /\ main' = [main EXCEPT !.pc = IF main.call.kind = "complete" THEN "remove"
                                           ELSE "quarantined",
                                    !.call = NoCall, !.reply = NoReply]
            /\ hb' = NoWork
            /\ UNCHANGED <<ctl, hist, wire, view, lease, stop>>
       ELSE /\ Send(main.pc, main.call.kind, main.call.attempt + 1,
                    IF main.call.kind = "state" THEN view.version
                    ELSE main.call.version,
                    main.call.arg, main.pending)
            /\ UNCHANGED <<ctl, hist, view, lease, stop, hb>>

(* Timeout, broken connection or HTTP 5xx: a transition is sent again with *)
(* the version known by now, a completion or receipt byte for byte.        *)
TransportError ==
    /\ ~Idle
    /\ IF main.call.attempt = Attempts - 1
       THEN Quarantine
       ELSE /\ Send(main.pc, main.call.kind, main.call.attempt + 1,
                    IF main.call.kind = "state" THEN view.version
                    ELSE main.call.version,
                    main.call.arg, main.pending)
            /\ UNCHANGED <<ctl, hist, view, lease, stop, hb>>

(* A request that never arrives.                                           *)
Lose(r) ==
    /\ wire' = wire \ {r}
    /\ UNCHANGED <<ctl, hist, view, lease, stop, main, hb>>

(* The daemon dies with all its tasks.                                     *)
Crash ==
    /\ main.pc \notin Stopped
    /\ main' = [main EXCEPT !.pc = "crashed", !.call = NoCall, !.reply = NoReply]
    /\ hb' = NoWork
    /\ UNCHANGED <<ctl, hist, wire, view, lease, stop>>

-----------------------------------------------------------------------------
(* The heartbeat task and the watchdogs.                                   *)

(* heartbeat_loop returns once there is a reason to stop; otherwise        *)
(* heartbeat_snapshot reads the state under its lock ...                   *)
HeartbeatRead ==
    /\ hb.pc = "idle"
    /\ hb' = IF stop # "none" THEN NoWork
             ELSE [hb EXCEPT !.pc = "read", !.seen = view.state]
    /\ UNCHANGED <<ctl, hist, wire, view, lease, stop, main>>

(* ... and the version after it released the lock.                         *)
HeartbeatSend ==
    LET r == [kind |-> "heartbeat", attempt |-> 0, version |-> view.version, arg |-> hb.seen]
    IN  /\ hb.pc = "read" /\ Cardinality(wire) < MaxWire
        /\ wire' = wire \cup {r}
        /\ hb' = [hb EXCEPT !.pc = "wait", !.call = r, !.reply = NoReply]
        /\ UNCHANGED <<ctl, hist, view, lease, stop, main>>

HeartbeatIdle == [NoWork EXCEPT !.pc = "idle"]

(* Mutant: the worker counts its lease from the moment of the response.    *)
MutExtend(told) == lease' = TTL + ClockSkew

(* lease_until only grows.                                                 *)
Extend(told) == lease' = Larger(lease, told + ClockSkew)

HeartbeatOk ==
    /\ hb.reply.kind = "ok"
    /\ IF hb.reply.version < hb.call.version
       THEN UNCHANGED <<view, lease, stop>> /\ hb' = HeartbeatIdle
       ELSE /\ PublishVersion(hb.reply.version)
            /\ Extend(hb.reply.lease)
            /\ ObserveCancel(hb.reply.cancel)
            /\ hb' = IF hb.reply.cancel THEN NoWork ELSE HeartbeatIdle
    /\ UNCHANGED <<ctl, hist, wire, main>>

HeartbeatConflict ==
    /\ hb.reply.kind = "conflict"
    /\ ApplyStateVersion(hb.reply.version, hb.reply.state)
    /\ ObserveCancel(hb.reply.cancel)
    /\ hb' = IF hb.reply.cancel THEN NoWork ELSE HeartbeatIdle
    /\ UNCHANGED <<ctl, hist, wire, lease, main>>

(* Any other error, or no answer in time: try again later.                 *)
HeartbeatFailed ==
    /\ hb.pc = "wait"
    /\ hb' = HeartbeatIdle
    /\ UNCHANGED <<ctl, hist, wire, view, lease, stop, main>>

Running == main.pc \notin Stopped \cup {"remove", "receipt"}

Halt(reason) ==
    /\ Running /\ stop = "none"
    /\ stop' = reason
    /\ UNCHANGED <<ctl, hist, wire, view, lease, main, hb>>

(* Mutant: the lease is not watched.                                       *)
MutLeaseWatchdog == FALSE /\ Halt("lease_lost")

LeaseWatchdog == lease <= 0 /\ Halt("lease_lost")

TimeoutWatchdog == Halt("job_timeout")

(* The log sink fails while a process runs; ctrl-c while work is pending.  *)
LogUploadFailed ==
    /\ main.pc \in {"prepare", "execute"} /\ Idle
    /\ stop' = "transport_failure"
    /\ UNCHANGED <<ctl, hist, wire, view, lease, main, hb>>

Interrupt ==
    /\ Running /\ stop # "requested"
    /\ stop' = "requested"
    /\ UNCHANGED <<ctl, hist, wire, view, lease, main, hb>>

(* One unit of time, for every deadline.                                   *)
Down(x, floor) == IF x > floor THEN x - 1 ELSE x

Tick ==
    /\ ctl' = [ctl EXCEPT !.lease = IF Live(ctl) THEN Down(@, -ClockLag) ELSE @]
    /\ lease' = Down(lease, 0)
    /\ hb' = [hb EXCEPT !.reply.lease =
                 IF hb.reply.kind = "ok" THEN Down(@, -ClockSkew) ELSE @]
    /\ UNCHANGED <<hist, wire, view, stop, main>>

-----------------------------------------------------------------------------

(* Just after a claim at version 1.                                        *)
Init ==
    /\ ctl = [ state |-> "Preparing", version |-> 1, cancel |-> FALSE,
               lease |-> TTL, completion |-> NoDocument, receipt |-> "none" ]
    /\ hist = <<"Queued", "Preparing">>
    /\ wire = {}
    /\ view = [version |-> 1, state |-> "Preparing"]
    /\ lease = TTL + ClockSkew
    /\ stop = "none"
    /\ main = [ pc |-> "prepare", call |-> NoCall, reply |-> NoReply,
                pending |-> NoDocument, root |-> "none" ]
    /\ hb = HeartbeatIdle

Controller(d) ==
    \/ \E r \in wire : Serve(r, d)
    \/ Cancel(d)
    \/ ExpireLeases(d)

MainStep ==
    \/ CreateRoot \/ Prepared \/ PrepareFailed
    \/ StepsSucceeded \/ StepsFailed \/ ContainmentLost
    \/ Uploaded \/ UploadFailed
    \/ TransitionDone \/ TransitionFailed
    \/ CompleteAcknowledged \/ CompleteConflict \/ CompleteFailed
    \/ RemoveRoot \/ RemoveFailed
    \/ CleanupAcknowledged \/ CleanupFailed
    \/ TransportError

HeartbeatStep ==
    \/ HeartbeatRead \/ HeartbeatSend
    \/ HeartbeatOk \/ HeartbeatConflict \/ HeartbeatFailed

Network == \E r \in wire : Lose(r) \/ Refuse(r)

Environment == LogUploadFailed \/ Interrupt \/ Crash \/ Network \/ Tick

Next ==
    \/ \E d \in 0..ClockLag : Controller(d)
    \/ MainStep
    \/ HeartbeatStep
    \/ LeaseWatchdog \/ TimeoutWatchdog
    \/ Environment

Spec == Init /\ [][Next]_vars

-----------------------------------------------------------------------------
(* Properties.                                                             *)

(* Types of the variables.                                                 *)
TypeOK ==
    /\ ctl \in [ state: States, version: Nat, cancel: BOOLEAN, lease: Int,
                  completion: Document \cup {NoDocument},
                  receipt: Outcomes \cup {"none"} ]
    /\ hist \in Seq(States \cup {"Queued"})
    /\ wire \subseteq Request
    /\ view \in [version: Nat, state: States]
    /\ lease \in Int
    /\ stop \in StopReasons
    /\ main \in [ pc: {"prepare", "start", "execute", "verify", "upload",
                       "complete", "remove", "receipt"} \cup Stopped,
                  call: Request \cup {NoCall}, reply: Reply \cup {NoReply},
                  pending: Document \cup {NoDocument},
                  root: {"none", "created"} ]
    /\ hb \in [ pc: {"idle", "read", "wait", "stopped"},
                seen: States \cup {"none"},
                call: Request \cup {NoCall}, reply: Reply \cup {NoReply} ]

(* What the tasks believe is what the controller stored: the version they  *)
(* share exists and the state beside it is the run's state at that         *)
(* version, however responses overtake each other (apply_state_version,    *)
(* publish_version, heartbeat_loop).                                       *)
ViewConsistent ==
    main.pc \notin Stopped =>
        view.version < Len(hist) /\ view.state = hist[view.version + 1]

(* A refused transition is never a mystery: the conflict tells of a        *)
(* cancellation or of the transition's own earlier, unanswered attempt, so *)
(* that transition may go on after either (transition, worker_transition). *)
ConflictExplained ==
    main.call.kind = "state" /\ main.reply.kind = "conflict" =>
        main.reply.cancel \/ main.reply.state = main.call.arg

(* The worker never believes in its lease longer than the controller does, *)
(* up to the difference of the clocks and the age of clock readings        *)
(* (worker_heartbeat, heartbeat_loop, lease_watchdog).                     *)
LeaseBounded ==
    Live(ctl) => lease <= ctl.lease + ClockSkew + ClockLag

(* The job root is removed, and a cleanup receipt sent, only when the      *)
(* controller has stored this worker's completion as the outcome, whatever *)
(* responses were lost on the way (submit_completion).                     *)
AckMatchesCommit ==
    main.pc \in {"remove", "receipt", "done"} =>
        /\ ctl.completion = main.pending
        /\ ctl.state = main.pending.state

(* A run whose cancellation was requested never ends as succeeded, though  *)
(* the worker may report success before it learns of the request           *)
(* (cancel_job, worker_complete_managed).                                  *)
CancelNeverSucceeds == ctl.cancel => ctl.state # "Succeeded"

(* A stored receipt tells the truth: the run ended by a completion and     *)
(* nothing of the job root is left (record_cleanup, RemoveRoot).           *)
ReceiptTruthful ==
    ctl.receipt # "none" => main.root = "none" /\ ctl.completion # NoDocument

(* What the two sides conclude from each other's documents about the end   *)
(* of a run is true: the worker from an acknowledgement, the controller    *)
(* from a receipt (submit_completion, record_cleanup).                     *)
EndTruthful == AckMatchesCommit /\ ReceiptTruthful

(* The outcome of a run is final: no delayed, repeated or competing        *)
(* request changes state, version or completion of an ended run.           *)
OutcomeFinal ==
    [][ctl.state \in Terminal =>
          [ctl' EXCEPT !.receipt = ctl.receipt] = ctl]_vars

(* Fairness: time passes; other operations reach the store (the worker's   *)
(* own node reports do); the runtime runs every task that can; a process   *)
(* ends once it has a reason to stop, and every call has a timeout.        *)
MainProgress ==
    /\ main.pc \in {"prepare", "execute"} /\ Idle => stop # "none"
    /\ MainStep

Fairness ==
    /\ WF_vars(Tick) /\ WF_vars(ExpireLeases(0))
    /\ WF_vars(HeartbeatStep) /\ WF_vars(LeaseWatchdog)
    /\ WF_vars(MainProgress)

FairSpec == Spec /\ Fairness

Settled == main.pc \in Stopped /\ ctl.state \in Terminal

(* A cancellation takes effect even if the process would run for ever: a   *)
(* heartbeat brings the news, or no heartbeat gets through and the lease   *)
(* runs out on both sides.                                                 *)
CancelHonoured == ctl.cancel ~> Settled

(* Whatever makes the worker stop, the run ends on both sides.             *)
StopEndsRun == stop # "none" ~> Settled
=============================================================================

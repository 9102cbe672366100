------------------------------ MODULE CycStore ------------------------------
(***************************************************************************)
(* The controller's store: crates/cyc-controller/src/store.rs.             *)
(*                                                                         *)
(* Every store operation is one SQLite IMMEDIATE transaction on one shared *)
(* connection, so an operation is one step.  Nearly all of them begin with *)
(* expire_leases, which reaps cleanup reservations, expires dispatch and   *)
(* execution leases and re-dispatches waiting jobs; that prefix is part of *)
(* the action.  An operation the code rejects rolls the whole transaction  *)
(* back, its expire_leases prefix included: it is no step at all.          *)
(*                                                                         *)
(* The tables jobs, leases, worker_claims, run_completions,                *)
(* run_cleanup_obligations and run_cleanups hold at most one row per run,  *)
(* and a job has exactly one run; rows[j] joins those rows for job j.      *)
(***************************************************************************)
EXTENDS Naturals, FiniteSets, RunStates

CONSTANTS
    Jobs,          \* job ids (each has one run and one lease row)
    Nodes,         \* paired worker nodes
    PlanIds,       \* ids of plans a client creates
    CanRun,        \* [Jobs -> SUBSET Nodes]: hard requirements of the job
    CancelJobs,    \* the jobs some client cancels
    Reporters,     \* nodes whose telemetry comes and goes
    Reconfigured,  \* nodes whose inventory or configuration changes
    Revocable,     \* nodes whose pairing may be revoked
    NoNode,        \* SQL NULL in a node column
    NoJob,         \* no job: a plan id that is not in the table
    PlanTTL, DispatchTTL, ClaimTTL, CleanupTTL,   \* store.rs:29-53
    ClockLag,      \* how old a clock reading may be when the lock is taken
    MaxTime,       \* bound on the clock
    MaxVersion,    \* bound on re-explanations of a waiting job
    MaxFleet       \* MAX_SAFE_JSON_INTEGER, the limit of fleet_revision

ASSUME NullAssumption == NoNode \notin Nodes /\ NoJob \notin Jobs
ASSUME FiniteAssumption == IsFiniteSet(Jobs)
ASSUME InputAssumption ==
    /\ CancelJobs \subseteq Jobs /\ Reporters \subseteq Nodes
    /\ Reconfigured \subseteq Nodes /\ Revocable \subseteq Nodes
ASSUME CanRunAssumption == CanRun \in [Jobs -> SUBSET Nodes]
(* A dispatch lease of zero seconds would reserve nothing.                *)
ASSUME TimeAssumption ==
    /\ PlanTTL \in Nat /\ DispatchTTL \in Nat \ {0}
    /\ ClaimTTL \in Nat /\ CleanupTTL \in Nat
    /\ ClockLag \in Nat /\ MaxTime \in Nat
    /\ MaxVersion \in Nat /\ MaxFleet \in Nat

VARIABLES
    rows,      \* the joined rows of every run
    plans,     \* client-created placement plans
    nodes,     \* what the scheduler and the authenticator know of a node
    fleet,     \* controller_meta.fleet_revision
    now        \* the wall clock, in seconds

vars == <<rows, plans, nodes, fleet, now>>

-----------------------------------------------------------------------------
(* Rows.                                                                   *)

JobStates == {"absent", "Queued"} \cup Executing \cup Terminal

(* The joined row of one run.  "binding" is the node of the stored         *)
(* placement binding and "attempt" the length of its placement-attempt     *)
(* ledger; "explained" is run.placement.is_some().  leaseUntil stands for  *)
(* leases.expires_at and for the two columns every writer sets together    *)
(* with it to the same value: worker_claims.expires_at while the claim is  *)
(* active and run_cleanup_obligations.cleanup_deadline_at afterwards.      *)
Row == [ state: JobStates, created: Nat, node: Nodes \cup {NoNode},
         explained: BOOLEAN, version: Nat, cancelRequested: BOOLEAN,
         binding: Nodes \cup {NoNode}, attempt: Nat,
         phase: {"none", "dispatch", "execution", "cleanup_pending"},
         leaseNode: Nodes \cup {NoNode}, leaseUntil: Nat, held: BOOLEAN,
         claim: {"none", "active", "revoked"},
         claimNode: Nodes \cup {NoNode},
         obligation: {"none", "held", "removed_receipt", "deadline_recovery"},
         obligationVersion: Nat, obligationState: JobStates,
         cleanupFailure: BOOLEAN,
         receipt: {"none", "removed", "not_created"} ]

NoRow == [ state |-> "absent", created |-> 0, node |-> NoNode,
           explained |-> FALSE, version |-> 0, cancelRequested |-> FALSE,
           binding |-> NoNode, attempt |-> 0,
           phase |-> "none", leaseNode |-> NoNode, leaseUntil |-> 0,
           held |-> FALSE, claim |-> "none", claimNode |-> NoNode,
           obligation |-> "none", obligationVersion |-> 0,
           obligationState |-> "absent",
           cleanupFailure |-> FALSE, receipt |-> "none" ]

Plan == [ job: Jobs \cup {NoJob}, node: Nodes \cup {NoNode}, fleet: Nat,
          rev: Nat, expires: Nat, used: BOOLEAN ]

NoPlan == [ job |-> NoJob, node |-> NoNode, fleet |-> 0, rev |-> 0,
            expires |-> 0, used |-> FALSE ]

NodeRow == [ available: BOOLEAN, paired: BOOLEAN, rev: Nat ]

(* An operation reads the clock before it takes the connection lock, so    *)
(* the instant it works with may lie behind those of operations that       *)
(* committed before it.                                                    *)
ClockReads == {t \in 0..now : now - t <= ClockLag}

(* decode_job_row: a bound run without a node must be Queued.              *)
Decodes(r) == r.binding = NoNode \/ r.node # NoNode \/ r.state = "Queued"

-----------------------------------------------------------------------------
(* expire_leases.                                                          *)

ReleaseLease(r) == [r EXCEPT !.held = FALSE]

RevokeClaim(r) == [r EXCEPT !.claim = IF @ = "active" THEN "revoked" ELSE @]

(* Every binding of the terminal run is read again and compared.           *)
ProvenTerminal(r) ==
    /\ r.state \in Terminal
    /\ r.version = r.obligationVersion
    /\ r.state = r.obligationState
    /\ r.held /\ r.phase = "cleanup_pending"

(* Mutant: a passed deadline is only recorded.                             *)
MutReapCleanup(r, t) ==
    IF r.obligation = "held" /\ r.leaseUntil <= t
    THEN [r EXCEPT !.cleanupFailure = TRUE]
    ELSE r

ReapCleanup(r, t) ==
    IF r.obligation = "held" /\ r.leaseUntil <= t
    THEN IF ProvenTerminal(r)
         THEN [ReleaseLease(r) EXCEPT !.obligation = "deadline_recovery",
                                      !.cleanupFailure = TRUE]
         ELSE [r EXCEPT !.cleanupFailure = TRUE]
    ELSE r

(* Mutant: only the leases of claimed runs are looked after.               *)
MutLeaseExpired(r, t) ==
    r.held /\ r.phase = "execution" /\ r.leaseUntil <= t

LeaseExpired(r, t) ==
    r.held /\ r.phase # "cleanup_pending" /\ r.leaseUntil <= t

(* Mutant: only dispatch leases are looked after, a run whose execution    *)
(* lease expired stays as it is.                                           *)
MutExpireRun(r) ==
    IF r.phase = "dispatch" /\ r.state = "Queued"
    THEN [r EXCEPT !.node = NoNode, !.explained = FALSE, !.version = @ + 1]
    ELSE r

(* Mutant: an expired execution is queued again.                           *)
MutRequeueRun(r) ==
    IF r.state \notin Terminal
    THEN [r EXCEPT !.state = "Queued", !.node = NoNode, !.explained = FALSE,
                   !.phase = "dispatch", !.version = @ + 1]
    ELSE r

(* Mutant: the stale target is cleared without a new version.              *)
MutSilentExpireRun(r) ==
    IF r.phase = "dispatch" /\ r.state = "Queued"
    THEN [r EXCEPT !.node = NoNode, !.explained = FALSE]
    ELSE IF r.state \notin Terminal
         THEN [r EXCEPT !.state = "Failed"]
         ELSE r

(* What expiry makes of the run behind an expired lease.                   *)
ExpireRun(r) ==
    IF r.phase = "dispatch" /\ r.state = "Queued"
    THEN [r EXCEPT !.node = NoNode, !.explained = FALSE, !.version = @ + 1]
    ELSE IF r.state \notin Terminal
         THEN [r EXCEPT !.state = "Failed", !.version = @ + 1]
         ELSE r

ExpireLease(r, t) ==
    IF LeaseExpired(r, t) THEN ReleaseLease(RevokeClaim(ExpireRun(r))) ELSE r

ExpireRows(rs, t) == [j \in Jobs |-> ExpireLease(ReapCleanup(rs[j], t), t)]

(* Mutant: a completed run no longer counts against its node.              *)
MutReserves(r, n, t) ==
    r.held /\ r.leaseNode = n /\ r.leaseUntil > t /\ r.phase # "cleanup_pending"

(* active_reservations and the scheduler's slot rule: a worker build       *)
(* reports one safe slot, so one unreleased lease fills a node.            *)
Reserves(r, n, t) ==
    /\ r.held /\ r.leaseNode = n
    /\ r.leaseUntil > t \/ r.phase = "cleanup_pending"

Eligible(rs, ns, t) ==
    {n \in Nodes : /\ ns[n].available /\ ns[n].paired
                   /\ \A j \in Jobs : ~Reserves(rs[j], n, t)}

(* The rows redispatch_queued_jobs selects and decodes.                    *)
RedispatchReads(rs, t) ==
    {j \in Jobs : /\ rs[j].state # "absent" /\ ~rs[j].cancelRequested
                  /\ ~rs[j].held \/ rs[j].leaseUntil <= t}

Undispatched(rs, t) == {j \in RedispatchReads(rs, t) : rs[j].state = "Queued"}

(* The jobs are placed oldest first, each on an eligible node that no      *)
(* earlier one took; one is left without a node only if the jobs before    *)
(* it took every node that suits it.  Which eligible node wins is the      *)
(* scheduler's score; created_at has one-second resolution and run ids are *)
(* random, so jobs of one second come in any order.                        *)
Placements(rs, ns, t) ==
    LET queued == Undispatched(rs, t)
        free(j) == Eligible(rs, ns, t) \cap CanRun[j]
    IN  {f \in [queued -> Nodes \cup {NoNode}] :
            \A j \in queued :
                /\ f[j] # NoNode =>
                      /\ f[j] \in free(j)
                      /\ \A k \in queued \ {j} : f[k] # f[j]
                /\ f[j] = NoNode =>
                      \A n \in free(j) : \E k \in queued :
                          f[k] = n /\ rs[k].created <= rs[j].created}

(* Mutant: the binding is replaced without a ledger entry.                 *)
MutRearm(r, n, t) ==
    [r EXCEPT !.node = n, !.binding = n, !.explained = TRUE,
              !.version = @ + 1, !.phase = "dispatch", !.leaseNode = n,
              !.leaseUntil = t + DispatchTTL, !.held = TRUE]

Rearm(r, n, t) ==
    [r EXCEPT !.node = n, !.binding = n, !.explained = TRUE,
              !.version = @ + 1, !.attempt = @ + 1,
              !.phase = "dispatch", !.leaseNode = n,
              !.leaseUntil = t + DispatchTTL, !.held = TRUE]

(* A job that stays without a node gets the new explanation, and with it a *)
(* new version, when it has none yet or when it has changed.               *)
Explain(r, changed) ==
    IF r.node # NoNode \/ ~r.explained \/ changed
    THEN [r EXCEPT !.node = NoNode, !.explained = TRUE, !.version = @ + 1]
    ELSE r

Redispatch(rs, f, changed, t) ==
    [j \in Jobs |-> IF j \notin DOMAIN f THEN rs[j]
                    ELSE IF f[j] # NoNode THEN Rearm(rs[j], f[j], t)
                    ELSE Explain(rs[j], j \in changed)]

Reexplainable(rs, t) ==
    {j \in Undispatched(rs, t) : rs[j].version < MaxVersion}

(* All results of redispatch_queued_jobs; none when a row fails to decode. *)
RedispatchOutcomes(rs, fl, ns, t) ==
    IF \A j \in RedispatchReads(rs, t) : Decodes(rs[j])
    THEN {[rows  |-> Redispatch(rs, f, changed, t),
           fleet |-> IF \E j \in DOMAIN f : f[j] # NoNode
                     THEN fl + 1 ELSE fl] :
             f \in Placements(rs, ns, t),
             changed \in SUBSET Reexplainable(rs, t)}
    ELSE {}

Released(rs, es) == {j \in Jobs : rs[j].held /\ ~es[j].held}

(* Mutant: expire_leases leaves waiting jobs to a later report.            *)
MutAfterExpiry(t) ==
    LET es == ExpireRows(rows, t)
    IN  {[rows |-> es, fleet |-> fleet + Cardinality(Released(rows, es))]}

(* All results of expire_leases at clock reading t.                        *)
AfterExpiry(t) ==
    LET es == ExpireRows(rows, t)
    IN  RedispatchOutcomes(es, fleet + Cardinality(Released(rows, es)), nodes, t)

(* The end of a transaction: increment_meta refuses to pass the limit.     *)
Commit(rs, fl) == rows' = rs /\ fleet' = fl /\ fl <= MaxFleet

-----------------------------------------------------------------------------
(* Client operations.                                                      *)

(* get_job, list_jobs, get_cleanup_snapshot, an empty claim, a repeated    *)
(* completion: only the expire_leases prefix changes anything.             *)
ReadJobs(t) ==
    /\ \E d \in AfterExpiry(t) : Commit(d.rows, d.fleet)
    /\ UNCHANGED <<plans, nodes, now>>

CreatePlan(p, j, t) ==
    /\ plans[p].job = NoJob
    /\ \E d \in AfterExpiry(t) :
          /\ Commit(d.rows, d.fleet)
          /\ \E n \in Eligible(d.rows, nodes, t) \cap CanRun[j] :
                plans' = [plans EXCEPT ![p] =
                            [job |-> j, node |-> n, fleet |-> d.fleet,
                             rev |-> nodes[n].rev, expires |-> t + PlanTTL,
                             used |-> FALSE]]
    /\ UNCHANGED <<nodes, now>>

NewRow(n, t) ==
    [NoRow EXCEPT !.state = "Queued", !.created = t, !.node = n,
                  !.explained = TRUE, !.binding = n, !.attempt = 1,
                  !.phase = "dispatch", !.leaseNode = n,
                  !.leaseUntil = t + DispatchTTL, !.held = TRUE]

(* submit_job without a plan: the controller plans for itself.             *)
SubmitJob(j, t) ==
    /\ rows[j].state = "absent"
    /\ \E d \in AfterExpiry(t) : \E n \in Eligible(d.rows, nodes, t) \cap CanRun[j] :
          Commit([d.rows EXCEPT ![j] = NewRow(n, t)], d.fleet + 1)
    /\ UNCHANGED <<plans, nodes, now>>

PlanUsable(p, j, d, t) ==
    /\ plans[p].job = j /\ ~plans[p].used /\ plans[p].expires > t
    /\ plans[p].fleet = d.fleet
    /\ plans[p].node \in Eligible(d.rows, nodes, t) \cap CanRun[j]
    /\ plans[p].rev = nodes[plans[p].node].rev

(* submit_job with a plan: consumed in the transaction that stores the job.*)
SubmitPlanned(j, p, t) ==
    /\ rows[j].state = "absent"
    /\ \E d \in AfterExpiry(t) :
          /\ PlanUsable(p, j, d, t)
          /\ Commit([d.rows EXCEPT ![j] = NewRow(plans[p].node, t)],
                    d.fleet + 1)
    /\ plans' = [plans EXCEPT ![p].used = TRUE]
    /\ UNCHANGED <<nodes, now>>

CancelRow(r) ==
    IF r.state = "Queued"
    THEN [ReleaseLease(r) EXCEPT !.state = "Cancelled", !.version = @ + 1]
    ELSE IF r.cancelRequested THEN r
         ELSE [r EXCEPT !.cancelRequested = TRUE, !.version = @ + 1]

CancelJob(j, t) ==
    /\ \E d \in AfterExpiry(t) :
          /\ Decodes(d.rows[j])
          /\ d.rows[j].state \in {"Queued"} \cup Executing
          /\ Commit([d.rows EXCEPT ![j] = CancelRow(@)],
                    IF d.rows[j].state = "Queued" /\ d.rows[j].held
                    THEN d.fleet + 1 ELSE d.fleet)
    /\ UNCHANGED <<plans, nodes, now>>

-----------------------------------------------------------------------------
(* Worker operations.                                                      *)

Queueing(r, n, t) ==
    r.state = "Queued" /\ r.held /\ r.leaseNode = n /\ r.leaseUntil > t

ClaimRow(r, n, t) ==
    [r EXCEPT !.state = "Preparing", !.version = @ + 1,
              !.claim = "active", !.claimNode = n,
              !.phase = "execution", !.leaseUntil = t + ClaimTTL]

(* The oldest queued run leased to the authenticated node.                 *)
ClaimJob(n, t) ==
    /\ nodes[n].paired
    /\ \E d \in AfterExpiry(t) : \E j \in Jobs :
          /\ Queueing(d.rows[j], n, t)
          /\ \A k \in Jobs : Queueing(d.rows[k], n, t)
                                => d.rows[j].created <= d.rows[k].created
          /\ ~d.rows[j].cancelRequested
          /\ d.rows[j].binding = n
          /\ d.rows[j].claim = "none" /\ d.rows[j].phase = "dispatch"
          /\ Commit([d.rows EXCEPT ![j] = ClaimRow(@, n, t)], d.fleet)
    /\ UNCHANGED <<plans, nodes, now>>

(* authorize_run_tx, for the holder of the run secret.                     *)
Authorized(r, t) ==
    /\ r.claim = "active" /\ nodes[r.claimNode].paired
    /\ r.held /\ r.leaseUntil > t /\ r.phase = "execution"
    /\ Decodes(r)

(* authorize_completion_receipt_tx: the claim may be revoked.              *)
AuthorizedReceipt(r) ==
    r.claim # "none" /\ nodes[r.claimNode].paired /\ r.node = r.claimNode

HeartbeatRow(r, t) == [r EXCEPT !.leaseUntil = t + ClaimTTL]

WorkerHeartbeat(j, t) ==
    /\ \E d \in AfterExpiry(t) :
          /\ Authorized(d.rows[j], t)
          /\ d.rows[j].state \notin Terminal
          /\ Commit([d.rows EXCEPT ![j] = HeartbeatRow(@, t)], d.fleet)
    /\ UNCHANGED <<plans, nodes, now>>

TransitionRow(r, next) == [r EXCEPT !.state = next, !.version = @ + 1]

WorkerTransition(j, next, t) ==
    /\ \E d \in AfterExpiry(t) :
          /\ Authorized(d.rows[j], t)
          /\ ~d.rows[j].cancelRequested
          /\ CanTransition(d.rows[j].state, next)
          /\ Commit([d.rows EXCEPT ![j] = TransitionRow(@, next)], d.fleet)
    /\ UNCHANGED <<plans, nodes, now>>

(* The terminal transaction: claim revoked, completion and obligation      *)
(* stored, the same lease kept as the cleanup reservation.                 *)
CompleteRow(r, final, t) ==
    [RevokeClaim(r) EXCEPT
        !.state = final, !.version = @ + 1,
        !.obligation = "held", !.obligationVersion = r.version + 1,
        !.obligationState = final,
        !.phase = "cleanup_pending", !.leaseUntil = t + CleanupTTL]

WorkerComplete(j, final, t) ==
    /\ \E d \in AfterExpiry(t) :
          /\ AuthorizedReceipt(d.rows[j])
          /\ Authorized(d.rows[j], t)
          /\ d.rows[j].cancelRequested => final \in {"Cancelled", "Failed"}
          /\ CanTransition(d.rows[j].state, final)
          /\ Commit([d.rows EXCEPT ![j] = CompleteRow(@, final, t)], d.fleet)
    /\ UNCHANGED <<plans, nodes, now>>

(* Mutant: any receipt frees the reservation.                              *)
MutReceiptRow(r, outcome) ==
    [ReleaseLease(r) EXCEPT
        !.receipt = outcome,
        !.obligation = IF @ = "held" THEN "removed_receipt" ELSE @]

(* The worker's evidence about the job root; only "removed" frees the      *)
(* reservation, and a stored receipt is never replaced by another.         *)
ReceiptRow(r, outcome) ==
    IF outcome = "removed"
    THEN [ReleaseLease(r) EXCEPT
            !.receipt = outcome,
            !.obligation = IF @ = "held" THEN "removed_receipt" ELSE @]
    ELSE [r EXCEPT !.receipt = outcome]

RecordCleanup(j, outcome, t) ==
    /\ \E d \in AfterExpiry(t) :
          LET r == d.rows[j] IN
          /\ AuthorizedReceipt(r) /\ Decodes(r)
          /\ r.obligation # "none"
          /\ r.state = r.obligationState /\ r.version = r.obligationVersion
          /\ r.receipt \in {"none", outcome}
          /\ Commit([d.rows EXCEPT ![j] = ReceiptRow(@, outcome)],
                    IF outcome = "removed" /\ r.held
                    THEN d.fleet + 1 ELSE d.fleet)
    /\ UNCHANGED <<plans, nodes, now>>

-----------------------------------------------------------------------------
(* Nodes and time.                                                         *)

(* An accepted report: the expire_leases prefix sees the old node state,   *)
(* the trailing re-dispatch the new one.                                   *)
NodeReport(n, ok, changed, t) ==
    LET reported == [nodes EXCEPT ![n].available = ok,
                                  ![n].rev = IF changed THEN @ + 1 ELSE @]
    IN  /\ nodes[n].paired
        /\ \E d \in AfterExpiry(t) :
              \E e \in RedispatchOutcomes(d.rows,
                          IF changed THEN d.fleet + 1 ELSE d.fleet,
                          reported, t) :
                 Commit(e.rows, e.fleet)
        /\ nodes' = reported
        /\ UNCHANGED <<plans, now>>

(* Mutant: a new configuration leaves the fleet revision alone.            *)
MutUpdateNodeConfig(n, ok) ==
    /\ nodes' = [nodes EXCEPT ![n].available = ok, ![n].rev = @ + 1]
    /\ Commit(rows, fleet)
    /\ UNCHANGED <<plans, now>>

(* update_node_config neither expires leases nor re-dispatches.            *)
UpdateNodeConfig(n, ok) ==
    /\ nodes' = [nodes EXCEPT ![n].available = ok, ![n].rev = @ + 1]
    /\ Commit(rows, fleet + 1)
    /\ UNCHANGED <<plans, now>>

(* revoke_pairing: the node keeps its leases but loses its credential.     *)
RevokePairing(n) ==
    /\ nodes[n].paired
    /\ nodes' = [nodes EXCEPT ![n].paired = FALSE]
    /\ UNCHANGED <<rows, plans, fleet, now>>

(* Telemetry ages past the freshness window.                               *)
TelemetryStale(n) ==
    /\ nodes[n].available
    /\ nodes' = [nodes EXCEPT ![n].available = FALSE]
    /\ UNCHANGED <<rows, plans, fleet, now>>

Tick ==
    /\ now < MaxTime
    /\ now' = now + 1
    /\ UNCHANGED <<rows, plans, nodes, fleet>>

-----------------------------------------------------------------------------

Init ==
    /\ rows = [j \in Jobs |-> NoRow]
    /\ plans = [p \in PlanIds |-> NoPlan]
    /\ nodes = [n \in Nodes |-> [available |-> TRUE, paired |-> TRUE, rev |-> 0]]
    /\ fleet = 0
    /\ now = 0

ClientStep(t) ==
    \/ ReadJobs(t)
    \/ \E j \in Jobs : \/ SubmitJob(j, t)
                       \/ \E p \in PlanIds : CreatePlan(p, j, t)
                                             \/ SubmitPlanned(j, p, t)
    \/ \E j \in CancelJobs : CancelJob(j, t)

WorkerStep(t) ==
    \/ \E n \in Nodes : ClaimJob(n, t)
    \/ \E j \in Jobs :
          \/ WorkerHeartbeat(j, t)
          \/ \E next \in {"Running", "Verifying"} : WorkerTransition(j, next, t)
          \/ \E final \in Terminal : WorkerComplete(j, final, t)
          \/ \E o \in {"removed", "not_created"} : RecordCleanup(j, o, t)

NodeStep ==
    \/ \E n \in Reporters, t \in ClockReads, ok \in BOOLEAN :
          NodeReport(n, ok, FALSE, t)
    \/ \E n \in Reconfigured, t \in ClockReads, ok \in BOOLEAN :
          NodeReport(n, ok, TRUE, t) \/ UpdateNodeConfig(n, ok)
    \/ \E n \in Reporters : TelemetryStale(n)
    \/ \E n \in Revocable : RevokePairing(n)

Next ==
    \/ \E t \in ClockReads : ClientStep(t) \/ WorkerStep(t)
    \/ NodeStep
    \/ Tick

Spec == Init /\ [][Next]_vars

-----------------------------------------------------------------------------
(* Properties.                                                             *)

(* Types of the tables, and of the counters.                               *)
TypeOK ==
    /\ rows \in [Jobs -> Row]
    /\ plans \in [PlanIds -> Plan]
    /\ nodes \in [Nodes -> NodeRow]
    /\ fleet \in Nat
    /\ now \in Nat

(* A worker node never has two unreleased reservations, whatever the phase *)
(* of each and however stale the clock readings of the operations were     *)
(* (fresh_available_nodes, active_reservations, redispatch_queued_jobs).   *)
NoOversell ==
    \A j, k \in Jobs :
        rows[j].held /\ rows[k].held /\ rows[j].leaseNode = rows[k].leaseNode
            => j = k

(* A run executes exactly as long as it owns an active claim and an        *)
(* execution lease, all three on the node its placement binding names      *)
(* (claim_job, worker_complete_managed, expire_leases).                    *)
OwnsExecution(r) ==
    /\ r.state \in Executing <=> r.claim = "active"
    /\ r.state \in Executing <=> r.held /\ r.phase = "execution"
    /\ r.state \in Executing => /\ r.node = r.binding
                                /\ r.leaseNode = r.binding
                                /\ r.claimNode = r.binding
ExecutionOwned == \A j \in Jobs : OwnsExecution(rows[j])

(* A queued run was never claimed, cancelled or completed before; while it *)
(* is reserved it is dispatched to the node it is bound to, and otherwise  *)
(* it names no node (submit_job, expire_leases, redispatch_queued_jobs).   *)
FreshDispatch(r) ==
    r.state = "Queued" =>
        /\ r.claim = "none" /\ r.obligation = "none" /\ ~r.cancelRequested
        /\ r.phase = "dispatch" /\ r.binding \in Nodes
        /\ r.held => r.node = r.binding /\ r.leaseNode = r.binding
        /\ ~r.held => r.node = NoNode
DispatchFresh == \A j \in Jobs : FreshDispatch(rows[j])

(* A reservation kept for cleanup can always be re-proved by the reaper:   *)
(* nothing after the terminal transaction touches the run, so no capacity  *)
(* is held for ever (reap_expired_cleanup_reservations_tx).                *)
ProvableCleanup(r) ==
    /\ r.obligation = "held" => ProvenTerminal(r)
    /\ r.held /\ r.phase = "cleanup_pending" => r.obligation = "held"
    /\ r.cleanupFailure => r.obligation = "deadline_recovery"
CleanupProvable == \A j \in Jobs : ProvableCleanup(rows[j])

(* Run, claim, lease, binding and cleanup obligation of a job always tell  *)
(* one story, although different operations write them (submit_job,        *)
(* claim_job, expire_leases, worker_complete_managed, record_cleanup).     *)
RowsAgree == ExecutionOwned /\ DispatchFresh /\ CleanupProvable

(* Capacity held for cleanup is given back only on a stored "removed"      *)
(* receipt or after the deadline; "not_created" keeps it                   *)
(* (record_cleanup, reap_expired_cleanup_reservations_tx).                 *)
ReleaseNeedsEvidence ==
    [][\A j \in Jobs :
          rows[j].held /\ rows[j].phase = "cleanup_pending" /\ ~rows'[j].held
             => \/ rows'[j].receipt = "removed"
                \/ rows[j].leaseUntil <= now]_vars

(* Who holds which node.                                                   *)
Reservations == {<<j, rows[j].leaseNode>> : j \in {k \in Jobs : rows[k].held}}

(* No reservation appears, moves or disappears without a new fleet         *)
(* revision, so a plan made before it cannot be consumed after it.         *)
FleetTracksReservations ==
    [][Reservations' # Reservations => fleet' > fleet]_vars

(* While the fleet revision a plan recorded is still the current one, the  *)
(* planned node has its recorded revision and no reservation: the          *)
(* equality test of submit_job cannot accept a plan overtaken by a job.    *)
PlanStillFree ==
    \A p \in PlanIds :
        plans[p].job # NoJob /\ plans[p].fleet = fleet =>
            /\ nodes[plans[p].node].rev = plans[p].rev
            /\ \A j \in Jobs :
                  ~(rows[j].held /\ rows[j].leaseNode = plans[p].node)

(* A newly submitted job never takes a node a waiting job could use: the   *)
(* waiting jobs are re-dispatched first, in the same transaction.          *)
WaitingServedFirst ==
    [][\A j, k \in Jobs :
          (/\ rows[j].state = "absent" /\ rows'[j].state = "Queued"
           /\ rows'[k].state = "Queued" /\ ~rows'[k].held)
             => rows'[j].leaseNode \notin CanRun[k]]_vars

(* The authority of a run changes only by a new entry of its placement     *)
(* ledger, and never once the run was claimed.                             *)
AuthorityLedger ==
    [][\A j \in Jobs :
          /\ rows'[j].binding # rows[j].binding
                => rows'[j].attempt > rows[j].attempt
          /\ rows[j].claim # "none" =>
                /\ rows'[j].binding = rows[j].binding
                /\ rows'[j].attempt = rows[j].attempt
                /\ rows'[j].claimNode = rows[j].claimNode]_vars

(* Versions never fall, and a step that changes the visible run (state,    *)
(* node or cancellation flag) always gives it a new one (update_job_cas).  *)
VersionGuardsRun ==
    [][\A j \in Jobs :
          LET r == rows[j]  q == rows'[j] IN
          r.state # "absent" =>
             /\ q.version >= r.version
             /\ <<q.state, q.node, q.cancelRequested>>
                   # <<r.state, r.node, r.cancelRequested>>
                   => q.version > r.version]_vars

(* The store implements the abstract life of runs.                         *)
StageOf(r) ==
    LET outcome == IF r.state \in Terminal THEN r.state ELSE "none"
        kind == CASE r.state = "absent" -> "absent"
                  [] r.state \in Executing -> "executing"
                  [] r.state = "Queued" /\ r.held -> "dispatched"
                  [] r.state = "Queued" /\ ~r.held -> "waiting"
                  [] r.state \in Terminal /\ r.held -> "cleaning"
                  [] r.state \in Terminal /\ ~r.held -> "ended"
    IN  [kind |-> kind, node |-> IF r.held THEN r.leaseNode ELSE NoNode,
         outcome |-> outcome]

Lifecycle == INSTANCE RunLifecycle WITH stage <- [j \in Jobs |-> StageOf(rows[j])]

(* Refinement: every transaction is a step of RunLifecycle or changes      *)
(* nothing that it speaks of.                                              *)
ImplementsLifecycle == Lifecycle!Spec

(* docs/managed-worker-protocol.md:427: a queued run can be cancelled at   *)
(* once.  Every stored run must decode, or no later operation can read it. *)
RunsDecode == \A j \in Jobs : Decodes(rows[j])

-----------------------------------------------------------------------------
(* Liveness.  The controller has no timer of its own: leases expire inside *)
(* the next operation.  Paired workers poll for claims and send reports    *)
(* for ever, so an operation keeps coming; time passes.                    *)

Fairness == WF_vars(Tick) /\ WF_vars(\E t \in ClockReads : ReadJobs(t))

FairSpec == Spec /\ Fairness

(* A reservation kept for cleanup is released, receipt or not, unless some *)
(* stored run no longer decodes: expire_leases then fails in every         *)
(* operation, whichever job it was called for.                             *)
CleanupReleased ==
    \A j \in Jobs :
        (/\ rows[j].held /\ rows[j].phase = "cleanup_pending"
         /\ rows[j].leaseUntil <= MaxTime)
            ~> (~rows[j].held \/ ~RunsDecode)

(* A dispatch that nobody claims is withdrawn, under the same proviso: it  *)
(* is not the same dispatch for ever (expire_leases).                      *)
DispatchResolved ==
    \A j \in Jobs : \A a \in 1..MaxTime :
        (/\ rows[j].state = "Queued" /\ rows[j].held /\ rows[j].attempt = a
         /\ rows[j].leaseUntil <= MaxTime)
            ~> (\/ ~(rows[j].state = "Queued" /\ rows[j].held
                                             /\ rows[j].attempt = a)
                \/ ~RunsDecode)

-----------------------------------------------------------------------------
(* What the documentation says and the code does not do.                   *)

(* docs/managed-worker-protocol.md:297: after an unclaimed dispatch        *)
(* expires, a bound job may re-arm only on the same node.                  *)
RearmsOnBoundNode ==
    [][\A j \in Jobs : rows[j].binding # NoNode
                          => rows'[j].binding = rows[j].binding]_vars
=============================================================================

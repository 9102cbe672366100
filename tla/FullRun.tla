------------------------------- MODULE FullRun -------------------------------
(***************************************************************************)
(* The desktop's Full Run Check and the provisioning smoke run             *)
(* (full_run.rs): a workflow of layers that submits one real job through   *)
(* an isolated MCP session, follows it to its cleanup receipt and reports  *)
(* a verdict. The job moves under it (controller and worker, CycStore and  *)
(* RunSession), the Codex runtime may be replaced, somebody else may hold  *)
(* the integration lock (CodexIntegration), replies get lost and every     *)
(* wait has a deadline.                                                    *)
(***************************************************************************)
EXTENDS RunStates, Naturals

CONSTANTS
    FrMaxFaults,   \* bound: lost or failed requests, timeouts, kills
    FrMaxRuns,     \* bound: checks and smoke attempts started
    FrMaxVersion   \* bound: versions a job goes through

ASSUME FrAssumption == FrMaxFaults \in Nat /\ FrMaxRuns \in Nat /\ FrMaxVersion \in Nat

VARIABLES
    check,     \* the workflow that holds the operation lock
    layers,    \* the state of each layer of the current result
    verdict,   \* the result: none, running, passed, failed
    jobs,      \* the controller's rows of the check's job and the smoke job
    flying,    \* jobs whose submission timed out and may still arrive
    runtime,   \* the live Codex runtime: its identity, verified since the mark
    fresh,     \* whether a managed node has a heartbeat newer than the start
    elsewhere, \* whether another operation holds the integration lock
    frRuns, frFaults

frVars == << check, layers, verdict, jobs, flying, runtime, fresh, elsewhere,
             frRuns, frFaults >>

-----------------------------------------------------------------------------
Layers == {"plugin", "heartbeat", "snapshot", "selection", "execution", "logs",
           "artifact", "cleanup"}
LayerStates == {"pending", "running", "passed", "failed", "skipped"}
Pending == [l \in Layers |-> "pending"]

(* A row as JobView shows it. "intact" is whether the logs and the proof   *)
(* artifact the worker uploads verify; "removed" the cleanup receipt.      *)
Job == [state : {"Absent", "Queued"} \cup Executing \cup Terminal,
        version : 0 .. FrMaxVersion, node : BOOLEAN, placement : 1 .. 2,
        cancel : BOOLEAN, intact : BOOLEAN, removed : BOOLEAN]
NoJob == [state |-> "Absent", version |-> 0, node |-> TRUE, placement |-> 1,
          cancel |-> FALSE, intact |-> FALSE, removed |-> FALSE]
NewJob == [NoJob EXCEPT !.state = "Queued", !.version = 1]
Kinds == {"check", "smoke"}
Exists(j) == j.state # "Absent"

(* The workflow: what it remembers of the job and of the runtime. "blind"  *)
(* is how it can miss the job it submitted: the reply and the lookup both  *)
(* got lost, the request arrived after the lookup, or the reply named      *)
(* other ids.                                                              *)
NoTarget == NoJob
Idle == [kind |-> "check", pc |-> "idle", session |-> 0, target |-> NoTarget,
         prev |-> NoJob, failed |-> "plugin", fatal |-> FALSE, blind |-> "none"]
FrAt(pc) == check.pc = pc
FrGoto(pc) == check' = [check EXCEPT !.pc = pc]
ThisJob == jobs[check.kind]

FrFault == frFaults < FrMaxFaults /\ frFaults' = frFaults + 1
FrFine == UNCHANGED frFaults
outside == << jobs, flying, runtime, fresh, elsewhere, frRuns >>

(* begin_layer and pass_layer publish as they go; a failure marks its      *)
(* layer and skips what is pending, but for the cleanup layer.             *)
Begin(l) == layers' = [layers EXCEPT ![l] = "running"]
Pass(l) == layers' = [layers EXCEPT ![l] = "passed"]
PassThen(l, next) ==
    layers' = [layers EXCEPT ![l] = "passed", ![next] = "running"]
FailLayer(ls, l) ==
    [k \in Layers |-> IF k = l THEN "failed"
                      ELSE IF ls[k] = "pending" /\ k # "cleanup" THEN "skipped"
                      ELSE ls[k]]
Fail(l, fatal) ==
    /\ layers' = FailLayer(layers, l)
    /\ check' = [check EXCEPT !.pc = IF check.kind = "check" THEN "best_effort"
                                     ELSE "failed",
                              !.failed = l, !.fatal = fatal]
FailWith(ls, l, target, blind) ==
    /\ layers' = FailLayer(ls, l)
    /\ check' = [check EXCEPT !.pc = "best_effort", !.failed = l,
                              !.target = target, !.blind = blind]

-----------------------------------------------------------------------------
(* What the pipeline returned, by the first native check it would fail:    *)
(* the executor is not the live runtime, the archive holds exactly the     *)
(* fixture and the controller stored it, the JobSpec came through          *)
(* unchanged, and the plan, its explanation, the fleet read after it and   *)
(* the node's transport agree.                                             *)
PipelineDefects == {"none", "executor", "descriptor", "archive", "metadata",
                    "job", "plan", "explanation", "fleet", "transport"}
ExecutorDistinct(d) == d # "executor"
FixtureArchiveValid(d) == d # "archive"
McpSnapshotValid(d) == d # "descriptor" /\ FixtureArchiveValid(d)
SnapshotReceiptValid(d) == McpSnapshotValid(d) /\ d # "metadata"
SnapshotProven(d) == ExecutorDistinct(d) /\ SnapshotReceiptValid(d)
PortableJobExact(d) == d # "job"
PlacementExplained(d) == d # "explanation"
PlanResponseValid(d) == d # "plan" /\ PlacementExplained(d)
FleetResponseValid(d) == d # "fleet"
ManagedTransport(d) == d # "transport"
SelectionProven(d) ==
    /\ PortableJobExact(d) /\ PlanResponseValid(d)
    /\ FleetResponseValid(d) /\ ManagedTransport(d)

(* What a polled row must satisfy. validate_run_receipt and                *)
(* validate_job_identity_for_node: ours, not cancelled, on the planned node.*)
RunReceiptValid(j) == Exists(j)
JobIdentityValid(j) == RunReceiptValid(j) /\ j.node /\ ~j.cancel
SamePlacement(j, prev) == check.kind = "smoke" => j.placement = prev.placement
Rank(s) == CASE s = "Queued" -> 0 [] s = "Preparing" -> 1 [] s = "Running" -> 2
             [] s = "Verifying" -> 3 [] OTHER -> 4

(* validate_job_progress: the same row again, or a newer version in a      *)
(* later state; a new version of the same state counts as a regression.    *)
View(j) == [j EXCEPT !.removed = FALSE, !.intact = FALSE]
ProgressValid(prev, j) ==
    \/ View(j) = View(prev)
    \/ /\ j.version > prev.version
       /\ j.state # prev.state
       /\ prev.state \notin Terminal
       /\ j.state \in Terminal \/ Rank(j.state) > Rank(prev.state)
PollValid(prev, j) == JobIdentityValid(j) /\ SamePlacement(j, prev) /\ ProgressValid(prev, j)

(* cleanup_target_from_untrusted: only a row of the requested job.         *)
(* A plausible bug: the lookup's row is dropped.                           *)
MutTargetOf(j) == NoTarget
TargetOf(j) == IF Exists(j) THEN j ELSE NoTarget

(* verify_logs, verify_artifact and validate_success_cleanup.              *)
(* A plausible bug: a receipt of a run that ended counts as removal.       *)
MutCleanupRemoved(j, version) == j.state \in Terminal /\ j.version = version
LogsVerified(j) == j.intact
ArtifactVerified(j) == j.intact
CleanupRemoved(j, version) == j.removed /\ j.state = "Succeeded" /\ j.version = version
CleanupValid(j, version) == j.state = "Succeeded" /\ j.version = version
PassEvidence(ls) == \A l \in Layers : ls[l] = "passed"

-----------------------------------------------------------------------------
(* run and the smoke calls share the operation lock. Every check submits   *)
(* under an id of its own.                                                 *)
StartCheck ==
    /\ FrAt("idle") /\ frRuns < FrMaxRuns
    /\ ~Exists(jobs["check"])
    /\ frRuns' = frRuns + 1
    /\ check' = [Idle EXCEPT !.pc = "plugin"]
    /\ layers' = [Pending EXCEPT !["plugin"] = "running"]
    /\ verdict' = "running" /\ fresh' = FALSE
    /\ flying' = flying \ {"check"}
    /\ UNCHANGED << jobs, runtime, elsewhere, frFaults >>

(* active_runtime: the integration lock must be free and a runtime         *)
(* connected.                                                              *)
CheckPluginLayer ==
    /\ FrAt("plugin")
    /\ IF elsewhere \/ runtime.id = 0
       THEN Fail("plugin", FALSE)
       ELSE /\ check' = [check EXCEPT !.pc = "heartbeat", !.session = runtime.id]
            /\ PassThen("plugin", "heartbeat")
    /\ FrFine
    /\ UNCHANGED << verdict, outside >>

(* A node heard from after the check began; the poll ends at the deadline. *)
FreshManagedNode == fresh
AwaitHeartbeat ==
    /\ FrAt("heartbeat")
    /\ \/ FreshManagedNode /\ FrGoto("mcp") /\ PassThen("heartbeat", "snapshot") /\ FrFine
       \/ Fail("heartbeat", FALSE) /\ FrFault
    /\ UNCHANGED << verdict, outside >>

(* mcp_full_run_pipeline under the integration lock: fleet_info, pack and  *)
(* upload, whose failure is the snapshot layer's.                          *)
PipelineSnapshot ==
    /\ FrAt("mcp")
    /\ \/ elsewhere /\ Fail("snapshot", FALSE) /\ FrFine
       \/ ~elsewhere /\ Fail("snapshot", FALSE) /\ FrFault
       \/ ~elsewhere /\ FrGoto("submit") /\ UNCHANGED layers /\ FrFine
    /\ UNCHANGED << verdict, outside >>

(* fleet_plan_submit: accepted; refused, or timed out with the request     *)
(* still on its way; accepted with the reply lost; or accepted with a      *)
(* reply that names other ids, of which nothing is kept for cancellation.  *)
PipelineSubmit ==
    /\ FrAt("submit")
    /\ \/ /\ jobs' = [jobs EXCEPT !["check"] = NewJob]
          /\ check' = [check EXCEPT !.pc = "read_back", !.target = NewJob]
          /\ UNCHANGED flying /\ FrFine
       \/ /\ FrGoto("lookup") /\ FrFault /\ UNCHANGED jobs
          /\ flying' \in {flying, flying \cup {"check"}}
       \/ /\ jobs' = [jobs EXCEPT !["check"] = NewJob]
          /\ FrGoto("lookup") /\ UNCHANGED flying /\ FrFault
       \/ /\ jobs' = [jobs EXCEPT !["check"] = NewJob]
          /\ check' = [check EXCEPT !.pc = "read_back", !.blind = "ids"]
          /\ UNCHANGED flying /\ FrFault
    /\ UNCHANGED << layers, verdict, runtime, fresh, elsewhere, frRuns >>

(* The layers of a pipeline that failed, by the stage it failed in.        *)
Packed(ls) == [ls EXCEPT !["snapshot"] = "passed"]
Planned(ls) == [Packed(ls) EXCEPT !["selection"] = "passed"]

(* After a failed submission, or a failed read of a job whose receipt is   *)
(* of no use, the job is looked up once, to be cancelled.                  *)
PipelineLookup ==
    /\ FrAt("lookup")
    /\ LET l == IF check.blind = "ids" THEN "execution" ELSE "selection"
           ls == IF check.blind = "ids" THEN Planned(layers) ELSE Packed(layers)
       IN
       \/ FailWith(ls, l, TargetOf(jobs["check"]), "none") /\ FrFine
       \/ FailWith(ls, l, NoTarget, "lookup") /\ FrFault
    /\ UNCHANGED << verdict, outside >>

(* fleet_job reads the row back and everything the pipeline returned is    *)
(* validated: executor, archive, JobSpec, plan, a fresh selected node, the *)
(* submission and the row just read.                                       *)
PipelineReadBack ==
    /\ FrAt("read_back")
    /\ LET j == jobs["check"]
           proven == check.target # NoTarget /\ fresh /\ PollValid(check.target, j)
       IN
       \/ /\ IF check.target = NoTarget
             THEN FrGoto("lookup") /\ UNCHANGED layers
             ELSE FailWith(Planned(layers), "execution", check.target, check.blind)
          /\ FrFault
       \/ /\ \E d \in PipelineDefects :
               \/ /\ ~SnapshotProven(d)
                  /\ FailWith(layers, "snapshot", check.target, check.blind)
               \/ /\ SnapshotProven(d) /\ ~SelectionProven(d)
                  /\ FailWith(Packed(layers), "selection", check.target, check.blind)
          /\ FrFault
       \/ ~proven /\ FailWith(Packed(layers), "selection", check.target, check.blind)
            /\ FrFine
       \/ /\ proven
          /\ check' = [check EXCEPT !.pc = "poll", !.target = j, !.prev = j]
          /\ layers' = [Planned(layers) EXCEPT !["execution"] = "running"]
          /\ FrFine
    /\ UNCHANGED << verdict, outside >>

(* One poll of the execution; the deadline is looked at first. The latest  *)
(* valid row is the one a cancellation would name.                         *)
Poll ==
    /\ FrAt("poll")
    /\ LET j == ThisJob IN
       \/ Fail("execution", FALSE) /\ FrFault
       \/ ~PollValid(check.prev, j) /\ Fail("execution", TRUE) /\ FrFine
       \/ /\ PollValid(check.prev, j)
          /\ IF j.state \in Terminal /\ j.state # "Succeeded"
             THEN /\ layers' = FailLayer(layers, "execution")
                  /\ check' = [check EXCEPT !.failed = "execution", !.fatal = TRUE,
                        !.target = j, !.prev = j,
                        !.pc = IF check.kind = "check" THEN "best_effort" ELSE "failed"]
             ELSE /\ check' = [check EXCEPT !.target = j, !.prev = j,
                        !.pc = IF j.state = "Succeeded" THEN "logs" ELSE "poll"]
                  /\ IF j.state = "Succeeded" THEN PassThen("execution", "logs")
                     ELSE UNCHANGED layers
          /\ FrFine
    /\ UNCHANGED << verdict, outside >>

VerifyLogs ==
    /\ FrAt("logs")
    /\ \/ LogsVerified(ThisJob) /\ FrGoto("artifact") /\ PassThen("logs", "artifact")
            /\ FrFine
       \/ ~LogsVerified(ThisJob) /\ Fail("logs", TRUE) /\ FrFine
       \/ Fail("logs", FALSE) /\ FrFault
    /\ UNCHANGED << verdict, outside >>
VerifyArtifact ==
    /\ FrAt("artifact")
    /\ \/ ArtifactVerified(ThisJob) /\ FrGoto("cleanup")
            /\ PassThen("artifact", "cleanup") /\ FrFine
       \/ ~ArtifactVerified(ThisJob) /\ Fail("artifact", TRUE) /\ FrFine
       \/ Fail("artifact", FALSE) /\ FrFault
    /\ UNCHANGED << verdict, outside >>

(* The cleanup receipt is polled until it says the workspace is gone; a    *)
(* reservation recovered at its deadline stays pending until the timeout.  *)
AwaitCleanup ==
    /\ FrAt("cleanup")
    /\ \/ /\ CleanupRemoved(ThisJob, check.prev.version)
          /\ Pass("cleanup")
          /\ FrGoto(IF check.kind = "check" THEN "mark" ELSE "passed")
          /\ FrFine
       \/ ~CleanupValid(ThisJob, check.prev.version) /\ Fail("cleanup", TRUE) /\ FrFine
       \/ Fail("cleanup", FALSE) /\ FrFault
    /\ UNCHANGED << verdict, outside >>

(* wait_for_runtime_refresh: the same runtime must verify itself again     *)
(* after this instant; a lock held elsewhere ends the wait with an error.  *)
MarkReverify ==
    /\ FrAt("mark")
    /\ FrGoto("reverify")
    /\ runtime' = [runtime EXCEPT !.seen = FALSE]
    /\ UNCHANGED << layers, verdict, jobs, flying, fresh, elsewhere, frRuns, frFaults >>
Reverify ==
    /\ FrAt("reverify")
    /\ \/ (elsewhere \/ runtime.id # check.session)
            /\ Fail("plugin", FALSE) /\ FrFine
       \/ ~elsewhere /\ runtime.id = check.session /\ runtime.seen
            /\ FrGoto("final") /\ UNCHANGED layers /\ FrFine
       \/ Fail("plugin", FALSE) /\ FrFault
    /\ UNCHANGED << verdict, outside >>

(* The post-run fleet baseline, then validate_pass_evidence.               *)
FinalFleet ==
    /\ FrAt("final")
    /\ \/ Pass("plugin") /\ FrGoto("passed") /\ FrFine
       \/ Fail("heartbeat", FALSE) /\ FrFault
    /\ UNCHANGED << verdict, outside >>

(* best_effort_cleanup: nothing known to cancel, a terminal row whose      *)
(* receipt is read once, or a cancellation of the version last seen, which *)
(* the controller refuses when the row has moved on.                       *)
BestEffortCleanup ==
    /\ FrAt("best_effort")
    /\ FrGoto("failed")
    /\ \/ /\ layers["cleanup"] \in {"passed", "failed"}
          /\ UNCHANGED << layers, jobs >> /\ FrFine
       \/ /\ layers["cleanup"] \notin {"passed", "failed"}
          /\ IF check.target = NoTarget
             THEN layers' = [layers EXCEPT !["cleanup"] = "skipped"]
                  /\ UNCHANGED jobs /\ FrFine
             ELSE IF check.target.state \in Terminal
             THEN /\ UNCHANGED jobs
                  /\ \/ /\ layers' = [layers EXCEPT !["cleanup"] =
                             IF CleanupRemoved(jobs["check"], check.target.version)
                             THEN "passed" ELSE "failed"]
                        /\ FrFine
                     \/ layers' = [layers EXCEPT !["cleanup"] = "failed"] /\ FrFault
             ELSE /\ layers' = [layers EXCEPT !["cleanup"] = "failed"]
                  /\ \/ /\ check.target.version = jobs["check"].version
                        /\ jobs["check"].version < FrMaxVersion
                        /\ jobs' = [jobs EXCEPT !["check"].cancel = TRUE,
                                      !["check"].version = @ + 1,
                                      !["check"].state =
                                         IF @ = "Queued" THEN "Cancelled" ELSE @]
                        /\ FrFine
                     \/ check.target.version # jobs["check"].version
                          /\ UNCHANGED jobs /\ FrFine
                     \/ UNCHANGED jobs /\ FrFault
    /\ UNCHANGED << verdict, flying, runtime, fresh, elsewhere, frRuns >>

Finish ==
    /\ check.pc \in {"passed", "failed"}
    /\ verdict' = IF check.kind = "check" /\ ~PassEvidence(layers) THEN "failed"
                  ELSE check.pc
    /\ FrGoto("idle")
    /\ UNCHANGED << layers, frFaults, outside >>

-----------------------------------------------------------------------------
(* prepare_node_smoke: the job id is derived from the operation, so a      *)
(* retry first looks for the job an earlier attempt may have submitted.    *)
StartSmoke ==
    /\ FrAt("idle") /\ frRuns < FrMaxRuns
    /\ frRuns' = frRuns + 1
    /\ check' = [Idle EXCEPT !.kind = "smoke", !.pc = "find"]
    /\ layers' = Pending /\ verdict' = "running"
    /\ UNCHANGED << jobs, flying, runtime, fresh, elsewhere, frFaults >>
FindSmokeJob ==
    /\ FrAt("find")
    /\ LET j == jobs["smoke"] IN
       \/ Fail("selection", FALSE) /\ FrFault
       \/ ~Exists(j) /\ FrGoto("smoke_plan") /\ UNCHANGED layers /\ FrFine
       \/ Exists(j) /\ ~JobIdentityValid(j) /\ Fail("selection", TRUE) /\ FrFine
       \/ /\ Exists(j) /\ JobIdentityValid(j)
          /\ FrGoto("smoke_read") /\ UNCHANGED layers /\ FrFine
    /\ UNCHANGED << verdict, outside >>
PlanSmoke ==
    /\ FrAt("smoke_plan")
    /\ \/ ~fresh /\ Fail("heartbeat", FALSE) /\ FrFine
       \/ fresh /\ FrGoto("smoke_submit") /\ UNCHANGED layers /\ FrFine
       \/ Fail("snapshot", FALSE) /\ FrFault
    /\ UNCHANGED << verdict, outside >>
(* The controller refuses an id it has, whose row is then looked up.       *)
SubmitSmoke ==
    /\ FrAt("smoke_submit")
    /\ \/ /\ ~Exists(jobs["smoke"])
          /\ jobs' = [jobs EXCEPT !["smoke"] = NewJob]
          /\ \/ FrGoto("smoke_bind") /\ FrFine
             \/ FrGoto("smoke_recover") /\ FrFault
          /\ UNCHANGED flying
       \/ /\ FrGoto("smoke_recover") /\ FrFault /\ UNCHANGED jobs
          /\ flying' \in {flying, flying \cup {"smoke"}}
       \/ /\ Exists(jobs["smoke"])
          /\ FrGoto("smoke_recover") /\ FrFine /\ UNCHANGED << jobs, flying >>
    /\ UNCHANGED << layers, verdict, runtime, fresh, elsewhere, frRuns >>
RecoverSmoke ==
    /\ FrAt("smoke_recover")
    /\ \/ Exists(jobs["smoke"]) /\ FrGoto("smoke_bind") /\ UNCHANGED layers /\ FrFine
       \/ ~Exists(jobs["smoke"]) /\ Fail("selection", FALSE) /\ FrFine
       \/ Fail("selection", FALSE) /\ FrFault
    /\ UNCHANGED << verdict, outside >>

(* The binding is validated against the row; execution then reads the row  *)
(* anew, validates it again and follows it from there.                     *)
BindSmoke ==
    /\ FrAt("smoke_bind")
    /\ IF JobIdentityValid(jobs["smoke"])
       THEN FrGoto("smoke_read") /\ UNCHANGED layers
       ELSE Fail("selection", TRUE)
    /\ FrFine
    /\ UNCHANGED << verdict, outside >>
FollowSmoke ==
    /\ FrAt("smoke_read")
    /\ LET j == jobs["smoke"] IN
       \/ /\ JobIdentityValid(j)
          /\ check' = [check EXCEPT !.pc = "poll", !.prev = j, !.target = j]
          /\ UNCHANGED layers /\ FrFine
       \/ ~JobIdentityValid(j) /\ Fail("selection", TRUE) /\ FrFine
       \/ Fail("selection", FALSE) /\ FrFault
    /\ UNCHANGED << verdict, outside >>

-----------------------------------------------------------------------------
(* A submission that timed out reaches the controller after all, which     *)
(* takes an id once.                                                       *)
LateCommit(k) ==
    /\ k \in flying /\ ~Exists(jobs[k])
    /\ flying' = flying \ {k}
    /\ jobs' = [jobs EXCEPT ![k] = NewJob]
    /\ check' = IF k = "check" /\ ~FrAt("lookup")
                THEN [check EXCEPT !.blind = "late"] ELSE check
    /\ UNCHANGED << layers, verdict, runtime, fresh, elsewhere, frRuns, frFaults >>

(* The controller and the worker move the job: forward, to an end, or,     *)
(* while it waits, to another placement (a new version of the same state). *)
Advance(k) ==
    LET j == jobs[k] IN
    /\ Exists(j) /\ j.version < FrMaxVersion
    /\ \E s \in Executing \cup Terminal, intact \in BOOLEAN :
         /\ CanTransition(j.state, s)
         /\ intact => s = "Succeeded"
         /\ s = "Cancelled" => j.cancel
         /\ jobs' = [jobs EXCEPT ![k].state = s, ![k].version = @ + 1,
                                 ![k].intact = intact]
    /\ UNCHANGED << check, layers, verdict, flying, runtime, fresh, elsewhere, frRuns,
                    frFaults >>
Redispatched(k) ==
    /\ jobs[k].state = "Queued" /\ jobs[k].version < FrMaxVersion
    /\ \E n \in BOOLEAN :
         jobs' = [jobs EXCEPT ![k].version = @ + 1, ![k].placement = 2, ![k].node = n]
    /\ UNCHANGED << check, layers, verdict, flying, runtime, fresh, elsewhere, frRuns,
                    frFaults >>
CleanUp(k) ==
    /\ jobs[k].state \in Terminal /\ ~jobs[k].removed
    /\ jobs' = [jobs EXCEPT ![k].removed = TRUE]
    /\ UNCHANGED << check, layers, verdict, flying, runtime, fresh, elsewhere, frRuns,
                    frFaults >>

(* Codex restarts its runtime or the runtime verifies itself; a node       *)
(* reports; another desktop operation takes or frees the integration lock, *)
(* which the pipeline itself holds while its session runs.                 *)
RuntimeMoves ==
    /\ \/ runtime' = [runtime EXCEPT !.seen = TRUE]
       \/ FrFault /\ runtime' = [id |-> (runtime.id + 1) % 3, seen |-> FALSE]
    /\ runtime'.id = runtime.id => FrFine
    /\ UNCHANGED << check, layers, verdict, jobs, flying, fresh, elsewhere, frRuns >>
NodeReports ==
    /\ ~fresh /\ fresh' = TRUE
    /\ UNCHANGED << check, layers, verdict, jobs, flying, runtime, elsewhere, frRuns,
                    frFaults >>
OtherOperation ==
    /\ check.pc \notin {"submit", "lookup", "read_back"}
    /\ elsewhere' = ~elsewhere
    /\ IF elsewhere THEN FrFine ELSE FrFault
    /\ UNCHANGED << check, layers, verdict, jobs, flying, runtime, fresh, frRuns >>

(* The desktop is killed: its progress is not persisted, the job stays.    *)
KillCheck ==
    /\ ~FrAt("idle") /\ FrFault
    /\ check' = Idle /\ layers' = Pending /\ verdict' = "none"
    /\ UNCHANGED outside

-----------------------------------------------------------------------------
FrInit ==
    /\ check = Idle /\ layers = Pending /\ verdict = "none"
    /\ jobs = [k \in Kinds |-> NoJob] /\ flying = {}
    /\ runtime = [id |-> 1, seen |-> TRUE]
    /\ fresh = FALSE /\ elsewhere = FALSE /\ frRuns = 0 /\ frFaults = 0

CheckSteps ==
    \/ StartCheck \/ CheckPluginLayer \/ AwaitHeartbeat \/ PipelineSnapshot
    \/ PipelineSubmit \/ PipelineLookup \/ PipelineReadBack \/ MarkReverify
    \/ Reverify \/ FinalFleet \/ BestEffortCleanup
SmokeSteps ==
    \/ StartSmoke \/ FindSmokeJob \/ PlanSmoke \/ SubmitSmoke \/ RecoverSmoke
    \/ BindSmoke \/ FollowSmoke
FollowJob == Poll \/ VerifyLogs \/ VerifyArtifact \/ AwaitCleanup \/ Finish
FrEnvironment ==
    \/ \E k \in Kinds : LateCommit(k) \/ Advance(k) \/ Redispatched(k)
                        \/ CleanUp(k)
    \/ RuntimeMoves \/ NodeReports \/ OtherOperation \/ KillCheck
FrNext == CheckSteps \/ SmokeSteps \/ FollowJob \/ FrEnvironment
FrSpec == FrInit /\ [][FrNext]_frVars

-----------------------------------------------------------------------------
FrTypeOK ==
    /\ layers \in [Layers -> LayerStates]
    /\ verdict \in {"none", "running", "passed", "failed"}
    /\ jobs \in [Kinds -> Job]
    /\ check.target \in Job /\ check.prev \in Job

(* A passed check or smoke run is about a job that succeeded, whose logs   *)
(* and artifact verify and whose workspace the worker has removed, however *)
(* the job, the runtime and the lock moved meanwhile (run_workflow,        *)
(* execute_bound_node_smoke).                                              *)
PassMeansDone ==
    verdict = "passed" =>
        LET j == jobs[check.kind] IN
        j.state = "Succeeded" /\ j.intact /\ j.removed /\ ~j.cancel

(* The cleanup layer of a failed check is green only when the workspace of *)
(* the job it submitted is gone (best_effort_cleanup).                     *)
CleanupLayerHonest ==
    check.kind = "check" /\ layers["cleanup"] = "passed" => jobs["check"].removed

(* A failed check that leaves a job running without a cancellation says    *)
(* so: its cleanup layer is failed. It can miss the job in three ways only:*)
(* the submission's reply and the lookup after it were both lost, the      *)
(* timed-out submission reached the controller after the lookup, or the    *)
(* reply named other ids and nothing after it failed that is followed by a *)
(* lookup (mcp_full_run_pipeline, cleanup_target_from_untrusted,           *)
(* best_effort_cleanup).                                                   *)
OrphanReported ==
    /\ check.kind = "check" /\ verdict = "failed"
    /\ jobs["check"].state \in {"Queued"} \cup Executing /\ ~jobs["check"].cancel
    => layers["cleanup"] = "failed" \/ check.blind # "none"

(* A smoke run gives up for good only on a job that really failed, whose   *)
(* evidence is bad, or that the controller placed again while it waited;   *)
(* a timeout or a lost reply leaves the job for the next attempt           *)
(* (prepare_node_smoke, execute_bound_node_smoke).                         *)
SmokeFatalHonest ==
    check.kind = "smoke" /\ verdict = "failed" /\ check.fatal =>
        LET j == jobs["smoke"] IN
        j.state \in {"Failed", "Cancelled"} \/ j.placement = 2
            \/ (j.state = "Succeeded" /\ ~j.intact)

-----------------------------------------------------------------------------
(* What comments and documents say and the code does not do: README,       *)
(* section 5.                                                              *)

(* The message of the skipped cleanup layer (full_run.rs:2290): no job was *)
(* submitted, so no cancellation was necessary. Each of the three ways     *)
(* OrphanReported names refutes it.                                        *)
SkipTruthful ==
    check.kind = "check" /\ layers["cleanup"] = "skipped" => ~Exists(jobs["check"])
=============================================================================

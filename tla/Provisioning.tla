---------------------------- MODULE Provisioning ----------------------------
(* Adding, repairing and removing a computer over SSH: the engine that      *)
(* drives a durable record (cyc-provision/src/engine.rs), the driver that   *)
(* acts on the host, the credential vault and the controller                *)
(* (cyc-provision/src/ssh_driver.rs) and the desktop commands that feed it  *)
(* (apps/desktop/src-tauri/src/provisioning.rs).                            *)
(*                                                                          *)
(* One computer. Commands write the record by compare-and-swap without the  *)
(* driver lock and then queue for it (waiting); the lock holder runs one    *)
(* turn after another. A turn has two steps: the driver's effect on the     *)
(* world, then the write of its outcome, with other commands, the host, the *)
(* controller and a crash of the desktop in between. Every outcome carries  *)
(* the number of faults it costs.                                           *)
EXTENDS ComputerRecord, SshTransport

CONSTANTS
    PvMaxOps,    \* bound on user commands
    PvMaxFaults  \* bound on failures, crashes and changes on the host

ASSUME ProvisioningAssumption == PvMaxOps \in Nat /\ PvMaxFaults \in Nat

VARIABLES
    rec,      \* the journal's row, or NoComputer
    world,    \* host, vault, session secret, controller; demolished remembers that a
              \* teardown has begun (used by a property only)
    turn,     \* the lock holder: idle, about to run, or with an outcome to write
    waiting,  \* the newest revision a command waits with for the driver lock; an
              \* older waiter could only meet a conflict (0: no command waits)
    pvOps,
    pvFaults

pvVars == <<rec, world, turn, waiting, pvOps, pvFaults>>

Phases == {"absent", "pending", "consumed", "ready", "revoked", "expired"}
Idle == [st |-> "idle"]
Running(rev) == [st |-> "run", rev |-> rev]
Forgetting(rev) == [st |-> "forget", rev |-> rev]

\* Outcomes: what an effect leaves behind and what it reports.
Outcome(w, kind, data, n, cost) == [w |-> w, kind |-> kind, data |-> data, n |-> n, cost |-> cost]
Done(w, data, cost) == Outcome(w, "done", data, 0, cost)
Named(w, n) == Outcome(w, "done", "", n, 0)
Fail(w, code, cost) == Outcome(w, "fail", code, 0, cost)
Missing(w) == Outcome(w, "credential", "", 0, 0)
Pending(w) == Outcome(w, "pending", "", 0, 0)

\* map_ssh_error, map_worker_kit_error and status_failure: which codes may retry.
Retryable(code) == code \in AuthRejections \cup {"IO"}

-----------------------------------------------------------------------------
(* The driver: credentials and sessions.                                    *)

\* load_secret prefers the session's secret; the vault is consulted for a stored
\* credential, or for one that may have been stored before a lost checkpoint.
TriesVault(r) == r.cred = "Stored" \/ (r.remember /\ r.cred = "Pending")
LoadSecret(w, r) ==
    IF w.trans # NoSecret THEN [from |-> "session", secret |-> w.trans]
    ELSE IF TriesVault(r) /\ w.vault # NoSecret THEN [from |-> "vault", secret |-> w.vault]
    ELSE [from |-> "missing", secret |-> NoSecret]
LoadAuthentication(w, r) ==
    CASE r.method = "password" -> LoadSecret(w, r)
      [] r.method = "agent" -> [from |-> "agent", secret |-> NoSecret]
      [] r.method = "private_key" -> [from |-> "file", secret |-> w.trans]

Accepts(w, r, a) == r.method = "agent" \/ a.secret = w.host.password

\* invalidate_rejected_credential and clear_if_matches.
Invalidate(w, a) ==
    IF a.from = "vault" THEN [w EXCEPT !.vault = NoSecret] ELSE [w EXCEPT !.trans = NoSecret]

\* store_authenticated_credential: into the vault, out of the session map.
StoreCredential(w, a) ==
    [w EXCEPT !.vault = a.secret, !.trans = IF @ = a.secret THEN NoSecret ELSE @]

Failures(w, codes) == {Fail(w, c, 1) : c \in codes}

\* What opening a session changes: a secret just typed and meant to be remembered
\* replaces the stored one.
Opened(w, r) ==
    LET a == LoadAuthentication(w, r)
    IN  IF a.from = "session" /\ r.method = "password" /\ r.remember
        THEN StoreCredential(w, a) ELSE w

\* connect_loaded_authentication: the pin is checked before the secret is sent, and
\* an authentication that breaks off counts as a rejection of the secret.
Session(w, r, replaceStored) ==
    LET a == LoadAuthentication(w, r)
        Rejected(e, cost) == Fail(Invalidate(w, a), MapSshError(e), cost)
    IN  IF a.from = "missing" THEN {Missing(w)}
        ELSE Failures(w, Codes(HandshakeErrors)) \cup
             IF ~HostKeyPinned(w.host.key, r.key) THEN {Fail(w, MapSshError("HostKeyMismatch"), 0)}
             ELSE IF ~Accepts(w, r, a) THEN {Rejected(RejectionOf(r.method), 0)}
             ELSE {Rejected(BreakOf(r.method), 1),
                   Done(IF replaceStored THEN Opened(w, r) ELSE w, "", 0)}

\* One remote operation in a session: it fails before it acts, acts and answers,
\* or acts and its answer is lost or unusable.
Remotely(w, r, codes, acted, answer) ==
    UNION {IF s.kind # "done" THEN {s}
           ELSE {answer} \cup Failures(s.w, codes) \cup Failures(acted, codes) :
               s \in Session(w, r, TRUE)}

-----------------------------------------------------------------------------
(* The driver: what the host's lifecycle script does (external) and how its *)
(* receipt is read.                                                         *)

\* install and repair keep an existing worker configuration; a paired worker that
\* is not asked to stay dormant gets its service started.
Lifecycle(w, enrollment, dormant) ==
    LET cred == IF enrollment # 0 THEN enrollment ELSE w.host.cred
    IN  [w EXCEPT !.host.cred = cred,
                  !.host.worker = IF cred # 0 /\ ~dormant THEN "running" ELSE "dormant"]
Uninstall(w) == [w EXCEPT !.host.worker = "none"]

\* RemoteLayout: the staging tree is named after the record's cycle, and so is the one
\* that the cleanup script removes; an enrollment file lies in its cycle's tree.
Stage(w, r) == [w EXCEPT !.host.staging = @ \cup {r.cycle}]
CleanStaging(w, r) ==
    [w EXCEPT !.host.staging = @ \ {r.cycle}, !.host.enrollment = @ \ {r.cycle}]

\* validate_lifecycle_receipt against the expectation of the call.
ReceiptValid(w, expectation) ==
    CASE expectation = "UnpairedPreinstall" -> w.host.cred = 0 /\ w.host.worker = "dormant"
      [] expectation = "DormantInstalled" -> w.host.worker = "dormant"
      [] expectation = "PairingOnly" -> w.host.cred # 0 /\ w.host.worker = "dormant"
      [] expectation = "PairedService" -> w.host.cred # 0 /\ w.host.worker = "running"
      [] expectation = "Uninstall" -> w.host.worker = "none"
ByReceipt(w, expectation, data) ==
    IF ReceiptValid(w, expectation) THEN Done(w, data, 0) ELSE Fail(w, "TERMINAL", 0)

\* load_record_kit: no kit for the platform, a tampered one, or one that cannot
\* be read (WorkerKit details the load).
KitRefused(w) == Failures(w, {"TERMINAL", "IO"})

\* The platform decides what a failing script means; the model's host is not macOS.
Platform == "linux"

\* run_discovery uploads its script into the staging directory of the cycle.
Discover(w, r) ==
    LET v == Stage(Opened(w, r), r) IN Remotely(w, r, DiscoveryCodes, v, Done(v, "none", 0))

Authenticate(w, r) ==
    IF ~r.approved THEN {Fail(w, "TERMINAL", 0)}
    ELSE {IF s.kind # "done" THEN s
          ELSE IF r.method = "password" /\ r.remember
               THEN Done(StoreCredential(s.w, LoadAuthentication(s.w, r)), "Stored", 0)
          ELSE Done(s.w, "SessionOnly", 0) : s \in Session(w, r, FALSE)}

StageKit(w, r) ==
    LET v == Stage(Opened(w, r), r)
    IN  KitRefused(w) \cup Remotely(w, r, StagingCodes, v, Done(v, "", 0))

\* The kit is uploaded again before each call of its script but that of enable_service.
ScriptCodes ==
    StagingCodes \cup LifecycleCodes(Platform) \cup ReceiptCodes

InPlaceRepair(r) == r.cycle > 0 /\ r.pairing # 0 /\ r.paired
InstallExpectation(r) ==
    IF r.cycle = 0 THEN "UnpairedPreinstall"
    ELSE IF InPlaceRepair(r) THEN "PairedService" ELSE "DormantInstalled"
InstallWorker(w, r) ==
    LET expectation == InstallExpectation(r)
        v == Lifecycle(Stage(Opened(w, r), r), 0, expectation = "DormantInstalled")
    IN  KitRefused(w) \cup Remotely(w, r, ScriptCodes, v, ByReceipt(v, expectation, ""))

EnableService(w, r) ==
    LET v == Lifecycle(Opened(w, r), 0, FALSE)
    IN  KitRefused(w) \cup Remotely(w, r, ScriptCodes, v, ByReceipt(v, "PairedService", ""))

-----------------------------------------------------------------------------
(* The driver and the controller: enrollment.                               *)

\* The controller (external) replays one bundle per operation identity, which is
\* the cycle's, while its pairing is pending.
Issued(w, r) == w.ctl.issued[r.cycle]
NextPairing(w) == Cardinality({p \in 1..MaxPairing : w.ctl.phase[p] # "absent"}) + 1
Issue(w, r) ==
    IF Issued(w, r) = 0
    THEN [w EXCEPT !.ctl.issued[r.cycle] = NextPairing(w), !.ctl.phase[NextPairing(w)] = "pending"]
    ELSE w
IssueAllowed(w, r) ==
    IF Issued(w, r) = 0 THEN NextPairing(w) <= MaxPairing
    ELSE w.ctl.phase[Issued(w, r)] = "pending"

\* Mutant: the enrollment is applied in the turn that issues it.
MutIssueEnrollment(w, r) ==
    {[o EXCEPT !.w.host.cred = o.n, !.w.ctl.phase[o.n] = "ready"] :
        o \in {Named(Issue(w, r), Issued(Issue(w, r), r))}}

IssueEnrollment(w, r) ==
    Failures(w, HttpCodes) \cup
    IF ~IssueAllowed(w, r) THEN {Fail(w, "TERMINAL", 0)}
    ELSE LET v == Issue(w, r) IN {Named(v, Issued(v, r))} \cup Failures(v, HttpCodes)

\* pairing_observation_from_status.
Observe(w, p) ==
    IF w.ctl.phase[p] \in {"pending", "consumed", "ready"} THEN w.ctl.phase[p] ELSE "TERMINAL"

\* finish_pairing removes the enrollment file before it reports the pairing.
FinishPairing(w, r) ==
    LET v == [Opened(w, r) EXCEPT !.host.enrollment = @ \ {r.cycle}]
    IN  Remotely(w, r, Codes(RemoveErrors), v, Done(v, "", 0))

\* The answer of a poll decides: proven progress wins over the failure at hand.
Reconcile(w, r, otherwise) ==
    CASE Observe(w, r.pairing) = "ready" -> FinishPairing(w, r)
      [] Observe(w, r.pairing) = "consumed" -> {Pending(w)}
      [] OTHER -> otherwise

\* apply_enrollment_bundle: the worker pairs with the controller (external); it
\* may reach the controller and still fail on the host, whose transaction is
\* undone.
Paired(w, p, phase) == [Lifecycle(w, p, TRUE) EXCEPT !.ctl.phase[p] = phase]
ApplyBundle(w, r) ==
    LET uploaded == [Stage(w, r) EXCEPT !.host.enrollment = @ \cup {r.cycle}]
    IN  UNION {IF s.kind # "done" THEN {s}
               ELSE Failures(s.w, ScriptCodes)
                    \cup Failures([s.w EXCEPT !.ctl.phase[r.pairing] = "consumed"], ScriptCodes)
                    \cup {Done(Paired(s.w, r.pairing, q), "", 0) : q \in {"consumed", "ready"}}
                    \cup Failures(Paired(s.w, r.pairing, "ready"), ScriptCodes) :
                        s \in Session(uploaded, r, TRUE)}

\* reconcile_or_report_apply_failure: a terminal failure is reported to the
\* controller, which then ends the pairing.
ApplyFailed(f, r) ==
    Reconcile(f.w, r,
        IF f.kind # "fail" \/ Retryable(f.data) THEN {f}
        ELSE {[f EXCEPT !.w.ctl.phase[r.pairing] = "revoked"], [f EXCEPT !.cost = @ + 1]})

\* BoxedProvisioningDriver publishes the node's configuration after a pairing; a
\* pairing whose configuration could not be published is not reported as paired.
Configured(outcomes) ==
    outcomes \cup {Fail(o.w, c, o.cost + 1) : o \in {x \in outcomes : x.kind = "done"}, c \in SyncCodes}

ApplyEnrollment(w, r) ==
    Failures(w, HttpCodes) \cup
    CASE Observe(w, r.pairing) = "ready" -> FinishPairing(w, r)
      [] Observe(w, r.pairing) = "consumed" -> {Pending(w)}
      [] Observe(w, r.pairing) = "TERMINAL" -> {Fail(w, "TERMINAL", 0)}
      [] Observe(w, r.pairing) = "pending" ->
            UNION {IF a.kind = "done" THEN Reconcile(a.w, r, {Pending(a.w)})
                   ELSE ApplyFailed(a, r) :
                       a \in KitRefused(w) \cup ApplyBundle(w, r)}

-----------------------------------------------------------------------------
(* The driver: evidence and teardown.                                       *)

\* await_heartbeat: a heartbeat received after the record's last write.
AwaitHeartbeat(w, r) ==
    Failures(w, HttpCodes) \cup {IF w.ctl.beat >= r.rev THEN Done(w, "", 0) ELSE Pending(w)}

\* prepare_node_smoke and run_node_smoke, at the level FullRun details them.
PrepareSmoke(w, r) == Failures(w, HttpCodes) \cup {Named(w, SmokeJob(r.cycle))}
RunSmoke(w, r) ==
    {Pending(w)} \cup Failures(w, HttpCodes \cup {"JOB_PROGRESS_REGRESSED"})
    \cup (IF w.host.worker = "running" /\ w.host.cred # 0 /\ w.ctl.phase[w.host.cred] = "ready"
          THEN {Done(w, t, IF t = "before" THEN 1 ELSE 0) : t \in {"before", "after"}} ELSE {})

\* Mutant: the staging tree is left to the next provisioning cycle.
MutCleanupStaging(w, r) == {Done(w, "", 0)}

CleanupCodes == StagingCodes \cup Codes(ExecErrors) \cup {"IO"}
CleanupStaging(w, r) ==
    LET v == CleanStaging(Opened(w, r), r) IN Remotely(w, r, CleanupCodes, v, Done(v, "", 0))

\* teardown: uninstall from KitStaged on, remove the cycle's staging tree from
\* CredentialStored on (what a failed discovery staged stays), then revoke the
\* recorded pairing.
Revoke(w, p) == IF p = 0 THEN w ELSE [w EXCEPT !.ctl.phase[p] = "revoked"]
TeardownStages(w, r) ==
    LET removed == IF AtLeast(r.step, "KitStaged") THEN Uninstall(Stage(w, r)) ELSE w
    IN  <<w, removed, CleanStaging(removed, r), Revoke(CleanStaging(removed, r), r.pairing)>>
Teardown(w, r) ==
    LET Interrupted(v) ==
            UNION {Failures(TeardownStages(v, r)[i], ScriptCodes \cup HttpCodes) : i \in 1..4}
    IN  IF AtLeast(r.step, "CredentialStored")
        THEN (IF AtLeast(r.step, "KitStaged") THEN KitRefused(w) ELSE {}) \cup
             UNION {IF s.kind # "done" THEN {s}
                    ELSE Interrupted(s.w) \cup {Done(TeardownStages(s.w, r)[4], "", 0)} :
                        s \in Session(w, r, TRUE)}
        ELSE {Done(Revoke(w, r.pairing), "", 0)} \cup Failures(w, HttpCodes)

\* Mutant: only the session's copy of the secret is dropped.
MutDeleteCredential(w, r) == {Done([w EXCEPT !.trans = NoSecret], "", 0)}

\* delete_credential.
DeleteCredential(w, r) ==
    IF r.method = "password"
    THEN {Fail(w, "IO", 1), Done([w EXCEPT !.vault = NoSecret, !.trans = NoSecret], "", 0)}
    ELSE {Done([w EXCEPT !.trans = NoSecret], "", 0)}

-----------------------------------------------------------------------------
(* The engine.                                                              *)

ActionForStep(step) ==
    CASE step = "Draft" -> "BeginSsh"
      [] step = "SshConnecting" -> "ProbeHostKey"
      [] step = "HostKeyPending" -> "Authenticate"
      [] step = "Authenticated" -> "BeginDiscovery"
      [] step = "Discovering" -> "DiscoverAndStoreCredential"
      [] step = "CredentialStored" -> "StageKit"
      [] step = "KitStaged" -> "InstallWorker"
      [] step = "WorkerInstalled" -> "IssueEnrollment"
      [] step = "EnrollmentIssued" -> "ApplyEnrollment"
      [] step = "Paired" -> "EnableService"
      [] step = "ServiceEnabled" -> "AwaitHeartbeat"
      [] step = "HeartbeatSeen" -> "BeginSmokeCheck"
      [] step = "SmokeCheck" -> "RunSmokeCheck"
ActionForRecord(r) ==
    IF r.step = "SmokeCheck" /\ r.bound = 0 THEN "BeginSmokeCheck"
    ELSE IF r.step = "SmokeCheck" /\ r.smoke # "absent" THEN "CleanupStaging"
    ELSE ActionForStep(r.step)

\* SshProvisioningDriver::execute.
Execute(w, r, act) ==
    CASE act = "BeginSsh" -> {Done(w, "", 0)}
      [] act = "ProbeHostKey" -> {Done(w, w.host.key, 0)} \cup Failures(w, Codes(HandshakeErrors))
      [] act = "Authenticate" -> Authenticate(w, r)
      [] act = "BeginDiscovery" -> {Done(w, "", 0)}
      [] act = "DiscoverAndStoreCredential" -> Discover(w, r)
      [] act = "StageKit" -> StageKit(w, r)
      [] act = "InstallWorker" -> InstallWorker(w, r)
      [] act = "IssueEnrollment" -> IssueEnrollment(w, r)
      [] act = "ApplyEnrollment" -> Configured(ApplyEnrollment(w, r))
      [] act = "EnableService" -> EnableService(w, r)
      [] act = "AwaitHeartbeat" -> AwaitHeartbeat(w, r)
      [] act = "BeginSmokeCheck" -> PrepareSmoke(w, r)
      [] act = "RunSmokeCheck" -> RunSmoke(w, r)
      [] act = "CleanupStaging" -> CleanupStaging(w, r)

\* apply_completion. The completions that contradict the record are refused with
\* a terminal failure instead.
CompletionRefused(r, act, data, n) ==
    \/ act = "ProbeHostKey" /\ r.key \notin {NoKey, data}
    \/ act = "Authenticate" /\ ~r.approved
    \/ act = "DiscoverAndStoreCredential" /\ ~InventoryValid(data)
    \/ act = "IssueEnrollment" /\ r.pairing \notin {0, n}
    \/ act = "BeginSmokeCheck" /\ ~SmokeBindingValid(r, n)
    \/ act = "RunSmokeCheck" /\ (~SmokeBindingValid(r, r.bound) \/ data = "before")
    \/ act = "CleanupStaging" /\ r.smoke = "absent"
RefusalCode(act) == IF act = "ProbeHostKey" THEN "HOST_KEY_CHANGED" ELSE "TERMINAL"
Completed(r, act, data, n) ==
    CASE act = "BeginSsh" -> [r EXCEPT !.step = "SshConnecting"]
      [] act = "ProbeHostKey" -> [r EXCEPT !.key = data, !.step = "HostKeyPending"]
      [] act = "Authenticate" ->
            [r EXCEPT !.cred = data, !.ref = data = "Stored", !.step = "Authenticated"]
      [] act = "BeginDiscovery" -> [r EXCEPT !.step = "Discovering"]
      [] act = "DiscoverAndStoreCredential" ->
            [r EXCEPT !.inventory = data, !.step = "CredentialStored",
                      !.cred = IF r.method = "password" /\ @ = "Stored" THEN "Stored" ELSE "SessionOnly",
                      !.ref = r.method = "password" /\ r.cred = "Stored"]
      [] act = "StageKit" -> [r EXCEPT !.step = "KitStaged"]
      [] act = "InstallWorker" ->
            [r EXCEPT !.step = IF InPlaceRepair(r) THEN "ServiceEnabled" ELSE "WorkerInstalled"]
      [] act = "IssueEnrollment" -> [r EXCEPT !.pairing = n, !.step = "EnrollmentIssued"]
      [] act = "ApplyEnrollment" -> [r EXCEPT !.paired = TRUE, !.step = "Paired"]
      [] act = "EnableService" -> [r EXCEPT !.step = "ServiceEnabled"]
      [] act = "AwaitHeartbeat" -> [r EXCEPT !.beat = TRUE, !.step = "HeartbeatSeen"]
      [] act = "BeginSmokeCheck" ->
            [r EXCEPT !.legacy = FALSE, !.bound = n, !.smoke = "absent", !.step = "SmokeCheck"]
      [] act = "RunSmokeCheck" -> [r EXCEPT !.smoke = data]
      [] act = "CleanupStaging" -> [r EXCEPT !.step = "Ready"]

\* persist_driver_failure and persist_credential_required.
FailedRecord(r, code) ==
    LET rejected == code \in AuthRejections
    IN  [r EXCEPT !.code = code, !.retryable = Retryable(code), !.intent = "Continue",
                  !.cred = IF rejected THEN "Pending" ELSE @, !.ref = ~rejected /\ @]
CredentialRequired(r) == [r EXCEPT !.cred = "Pending", !.ref = FALSE]

\* reset_after_rollback: the pin and its approval survive, the identities do not.
ResetAfterRollback(r) ==
    [r EXCEPT !.cycle = @ + 1, !.step = "Draft", !.code = "", !.retryable = FALSE,
              !.intent = "Continue", !.torn = FALSE, !.inventory = "absent",
              !.cred = IF @ = "Forgotten" THEN "SessionOnly" ELSE @, !.pairing = 0,
              !.paired = FALSE, !.beat = FALSE, !.bound = 0, !.smoke = "absent", !.legacy = FALSE]

Retried(r) == [r EXCEPT !.code = "", !.retryable = FALSE, !.intent = "Continue"]

\* result(): the session secret is dropped at Ready, RolledBack and Removed.
Forgetful(w) == [w EXCEPT !.trans = NoSecret]

\* A write the journal accepts and after which the turn loop goes on.
Checkpoint(r) ==
    /\ rec' = Saved(rec, r)
    /\ turn' = IF SaveAccepted(rec, r) THEN Running(r.rev + 1) ELSE Idle
    /\ UNCHANGED <<waiting, pvOps, pvFaults>>

\* drive_once, first half: load at the expected revision, call the driver.
Load == turn.st = "run" /\ LoadExpected(rec, turn.rev)
Conflict ==
    /\ turn.st = "run" /\ ~LoadExpected(rec, turn.rev)
    /\ turn' = Idle
    /\ UNCHANGED <<rec, world, waiting, pvOps, pvFaults>>

TurnResume ==
    /\ Load /\ rec.intent = "Resume"
    /\ Checkpoint([rec EXCEPT !.intent = "Continue"])
    /\ UNCHANGED world

TurnRetry ==
    /\ Load /\ rec.intent = "Retry" /\ Failed(rec) /\ rec.retryable
    /\ Checkpoint(Retried(rec))
    /\ UNCHANGED world

\* What the turn asks of the driver, and the boundaries at which it asks nothing.
AtBoundary(r) ==
    /\ r.intent = "Continue"
    /\ Failed(r) \/ r.step = "Ready" \/ (r.step = "HostKeyPending" /\ ~r.approved)
TurnAction(r) ==
    IF r.intent = "Continue" THEN ActionForRecord(r)
    ELSE IF r.intent = "Remove" /\ r.torn THEN "ForgetCredential" ELSE r.intent
Calls(w, r, act) ==
    CASE act = "ForgetCredential" -> DeleteCredential(w, r)
      [] act \in {"Rollback", "Remove"} -> Teardown(w, r)
      [] OTHER -> Execute(w, r, act)

TurnStops ==
    /\ Load /\ AtBoundary(rec)
    /\ turn' = Idle
    /\ world' = IF rec.step = "Ready" /\ ~Failed(rec) THEN Forgetful(world) ELSE world
    /\ UNCHANGED <<rec, waiting, pvOps, pvFaults>>

TurnRolledBack ==
    /\ Load /\ rec.intent = "Rollback" /\ rec.torn
    /\ rec.cycle < MaxCycle
    /\ rec' = Saved(rec, ResetAfterRollback(rec))
    /\ world' = [Forgetful(world) EXCEPT !.demolished = FALSE]
    /\ turn' = Idle
    /\ UNCHANGED <<waiting, pvOps, pvFaults>>

TurnCalls ==
    /\ Load /\ rec.intent \notin {"Resume", "Retry"} /\ ~AtBoundary(rec)
    /\ ~(rec.intent = "Rollback" /\ rec.torn)
    /\ \E o \in Calls(world, rec, TurnAction(rec)) :
        /\ pvFaults + o.cost <= PvMaxFaults
        /\ world' = [o.w EXCEPT !.demolished = @ \/ rec.intent # "Continue"]
        /\ turn' = [st |-> "commit", rec |-> rec, act |-> TurnAction(rec), kind |-> o.kind,
                    data |-> o.data, n |-> o.n]
        /\ pvFaults' = pvFaults + o.cost
    /\ UNCHANGED <<rec, waiting, pvOps>>

\* drive_once, second half: the write of the outcome.
CommitDone ==
    /\ turn.st = "commit" /\ turn.kind = "done" /\ turn.act \notin {"ForgetCredential"}
    /\ LET r == turn.rec
           next == IF turn.act \in {"Rollback", "Remove"} THEN [r EXCEPT !.torn = TRUE]
                   ELSE IF CompletionRefused(r, turn.act, turn.data, turn.n)
                        THEN FailedRecord(r, RefusalCode(turn.act))
                   ELSE Completed(r, turn.act, turn.data, turn.n)
           going == ~Failed(next) \/ turn.act \in {"Rollback", "Remove"}
       IN  /\ rec' = Saved(rec, next)
           /\ turn' = IF SaveAccepted(rec, next) /\ going THEN Running(r.rev + 1) ELSE Idle
    /\ UNCHANGED <<world, waiting, pvOps, pvFaults>>

CommitRemoved ==
    /\ turn.st = "commit" /\ turn.kind = "done" /\ turn.act = "ForgetCredential"
    /\ rec' = IF DeleteAccepted(rec, turn.rec.rev) THEN NoComputer ELSE rec
    /\ world' = IF DeleteAccepted(rec, turn.rec.rev) THEN Forgetful(world) ELSE world
    /\ turn' = Idle
    /\ UNCHANGED <<waiting, pvOps, pvFaults>>

CommitFailure ==
    /\ turn.st = "commit" /\ turn.kind = "fail"
    /\ rec' = IF turn.act = "ForgetCredential" THEN rec
              ELSE Saved(rec, FailedRecord(turn.rec, turn.data))
    /\ turn' = Idle
    /\ UNCHANGED <<world, waiting, pvOps, pvFaults>>

CommitWaits ==
    /\ turn.st = "commit" /\ turn.kind \in {"pending", "credential"}
    /\ rec' = IF turn.kind = "credential" /\ turn.rec.cred = "Stored"
              THEN Saved(rec, CredentialRequired(turn.rec)) ELSE rec
    /\ turn' = Idle
    /\ UNCHANGED <<world, waiting, pvOps, pvFaults>>

-----------------------------------------------------------------------------
(* The desktop commands.                                                    *)

\* drive_bounded takes the driver lock with the revision its command wrote.
TakeLock ==
    /\ turn = Idle
    /\ waiting # 0
    /\ turn' = Running(waiting) /\ waiting' = 0
    /\ UNCHANGED <<rec, world, pvOps, pvFaults>>

Command == pvOps < PvMaxOps /\ pvOps' = pvOps + 1
Queue(rev) == waiting' = rev
\* inject_optional_secret: before the record is touched, and kept if that fails.
Typed(w, method) ==
    {w} \cup (IF method = "agent" THEN {} ELSE {[w EXCEPT !.trans = p] : p \in Passwords})
InjectSecret(method) == world' \in Typed(world, method)

\* StartComputerRequest: take_authentication and into_configuration.
SecretShaped(in) == in.defect # "secret"
OptionsValid(in) == in.defect # "options"
RequestAccepted(in) == SecretShaped(in) /\ OptionsValid(in)

\* A new record has identities of its own: what the controller issued to, or heard
\* from, a removed computer does not count for it, nor do the trees and files that
\* were staged under the removed computer's identity.
FreshIdentity(w) ==
    [w EXCEPT !.demolished = FALSE, !.host.staging = {}, !.host.enrollment = {},
              !.ctl.issued = [c \in 0..MaxCycle |-> 0], !.ctl.beat = 0]
StartComputer(in) ==
    /\ Command
    /\ RequestAccepted(in)
    /\ NewComputerValid(in)
    /\ rec = NoComputer
    /\ rec' = NewRecord(in)
    /\ world' \in {w \in Typed(FreshIdentity(world), in.method) :
                    in.method = "password" => w.trans # NoSecret}
    /\ Queue(1)
    /\ UNCHANGED <<turn, pvFaults>>

\* create_idempotent after a lost answer: the same input finds its record.
StartAgain ==
    /\ Command
    /\ rec # NoComputer
    /\ IF rec.step = "Ready" /\ ~Failed(rec) THEN world' = world ELSE InjectSecret(rec.method)
    /\ Queue(rec.rev)
    /\ UNCHANGED <<rec, turn, pvFaults>>

ApproveHostKey ==
    /\ Command
    /\ rec # NoComputer /\ rec.step = "HostKeyPending" /\ ~Failed(rec)
    /\ rec' = Saved(rec, [rec EXCEPT !.approved = TRUE])
    /\ Queue(rec'.rev)
    /\ UNCHANGED <<world, turn, pvFaults>>

\* request_intent. An explicit retry may recheck two terminal failures.
Recheckable(r) ==
    \/ r.code = "JOB_PROGRESS_REGRESSED" /\ r.step = "SmokeCheck" /\ r.bound # 0
    \/ r.code = "HOST_KEY_CHANGED" /\ r.approved
IntentAllowed(r, intent) ==
    /\ intent = "Resume" => ~Failed(r) /\ r.step # "Ready"
    /\ intent = "Retry" => Failed(r) /\ (r.retryable \/ Recheckable(r))
RequestIntent(intent) ==
    /\ Command
    /\ rec # NoComputer
    /\ IntentAllowed(rec, intent)
    /\ rec' = Saved(rec, [rec EXCEPT !.intent = intent,
                            !.retryable = @ \/ (intent = "Retry" /\ Recheckable(rec)),
                            !.torn = @ /\ intent \notin {"Rollback", "Remove"}])
    /\ InjectSecret(rec.method)
    /\ Queue(rec'.rev)
    /\ UNCHANGED <<turn, pvFaults>>

BeginRepair ==
    /\ Command
    /\ rec # NoComputer /\ rec.step = "Ready" /\ ~Failed(rec)
    /\ rec.pairing # 0 /\ rec.paired
    /\ rec.cycle < MaxCycle
    /\ rec' = Saved(rec, [rec EXCEPT !.cycle = @ + 1, !.step = "CredentialStored",
                            !.intent = "Continue", !.torn = FALSE, !.beat = FALSE, !.bound = 0,
                            !.smoke = "absent", !.legacy = FALSE,
                            !.cred = IF @ = "Forgotten" THEN "SessionOnly" ELSE @])
    /\ world' \in Typed([world EXCEPT !.demolished = FALSE], rec.method)
    /\ Queue(rec'.rev)
    /\ UNCHANGED <<turn, pvFaults>>

\* forget_ssh_password holds the driver lock for the whole command: the secret is
\* deleted first, and the record says so in a later write.
ForgetCredential ==
    /\ Command
    /\ turn = Idle
    /\ rec # NoComputer /\ rec.step = "Ready" /\ ~Failed(rec) /\ rec.method = "password"
    /\ \E o \in DeleteCredential(world, rec) :
        /\ pvFaults + o.cost <= PvMaxFaults
        /\ pvFaults' = pvFaults + o.cost
        /\ world' = o.w
        /\ turn' = IF o.kind = "done" THEN Forgetting(rec.rev) ELSE Idle
    /\ UNCHANGED <<rec, waiting>>
RecordForgotten ==
    /\ turn.st = "forget"
    /\ rec' = IF rec = NoComputer \/ rec.rev # turn.rev THEN rec
              ELSE Saved(rec, [rec EXCEPT !.ref = FALSE, !.remember = FALSE, !.cred = "Forgotten"])
    /\ turn' = Idle
    /\ UNCHANGED <<world, waiting, pvOps, pvFaults>>

-----------------------------------------------------------------------------
(* The surroundings (external).                                             *)

Costs == pvFaults < PvMaxFaults /\ pvFaults' = pvFaults + 1

DesktopCrashes ==
    /\ Costs
    /\ turn' = Idle /\ waiting' = 0
    /\ world' = Forgetful(world)
    /\ UNCHANGED <<rec, pvOps>>
HostChanges ==
    /\ Costs
    /\ \/ \E k \in HostKeys \ {world.host.key} : world' = [world EXCEPT !.host.key = k]
       \/ \E p \in Passwords \ {world.host.password} : world' = [world EXCEPT !.host.password = p]
    /\ UNCHANGED <<rec, turn, waiting, pvOps>>
\* The pairing command on the host completes its acknowledgement, or its bundle expires.
PairingAcknowledged ==
    /\ world.host.cred # 0 /\ world.ctl.phase[world.host.cred] = "consumed"
    /\ world' = [world EXCEPT !.ctl.phase[world.host.cred] = "ready"]
    /\ UNCHANGED <<rec, turn, waiting, pvOps, pvFaults>>
PairingExpires ==
    /\ Costs
    /\ \E p \in 1..MaxPairing : /\ world.ctl.phase[p] = "pending"
                                /\ world' = [world EXCEPT !.ctl.phase[p] = "expired"]
    /\ UNCHANGED <<rec, turn, waiting, pvOps>>
\* The worker's heartbeat, dated by the record's revision when it arrives.
Heartbeat ==
    /\ rec # NoComputer
    /\ world.host.worker = "running" /\ world.host.cred # 0
    /\ world.ctl.phase[world.host.cred] = "ready"
    /\ world.ctl.beat < rec.rev
    /\ world' = [world EXCEPT !.ctl.beat = rec.rev]
    /\ UNCHANGED <<rec, turn, waiting, pvOps, pvFaults>>

-----------------------------------------------------------------------------
BlankWorld(key, password) ==
    [host |-> [key |-> key, password |-> password, staging |-> {}, enrollment |-> {},
               worker |-> "none", cred |-> 0],
     vault |-> NoSecret, trans |-> NoSecret, demolished |-> FALSE,
     ctl |-> [issued |-> [c \in 0..MaxCycle |-> 0], phase |-> [p \in 1..MaxPairing |-> "absent"],
              beat |-> 0]]
LegacyWorld(r, password) ==
    [BlankWorld(r.key, password) EXCEPT
        !.host.worker = "running", !.host.cred = 1, !.host.staging = IF r.step = "Ready" THEN {} ELSE {0},
        !.ctl.issued[0] = 1, !.ctl.phase[1] = "ready"]

PvInit ==
    /\ \E p \in Passwords :
        \/ rec = NoComputer /\ \E k \in HostKeys : world = BlankWorld(k, p)
        \/ rec \in LegacyRecords /\ world = LegacyWorld(rec, p)
    /\ turn = Idle
    /\ waiting = 0
    /\ pvOps = 0
    /\ pvFaults = 0

PvNext ==
    \/ TakeLock \/ Conflict \/ TurnResume \/ TurnRetry \/ TurnStops \/ TurnRolledBack \/ TurnCalls
    \/ CommitDone \/ CommitRemoved \/ CommitFailure \/ CommitWaits
    \/ \E m \in Methods, rm \in BOOLEAN, d \in InputDefects \cup {"none"} :
            StartComputer([method |-> m, remember |-> rm, defect |-> d])
    \/ StartAgain \/ ApproveHostKey \/ BeginRepair \/ ForgetCredential \/ RecordForgotten
    \/ \E i \in Intents \ {"Continue"} : RequestIntent(i)
    \/ DesktopCrashes \/ HostChanges \/ PairingAcknowledged \/ PairingExpires \/ Heartbeat

PvSpec == PvInit /\ [][PvNext]_pvVars

-----------------------------------------------------------------------------
(* Properties.                                                              *)

\* Every state variable has its type, and the journal only holds records that
\* validate (store.rs refuses to read any other back).
PvTypeOK ==
    /\ rec = NoComputer \/ (rec \in Record /\ Valid(rec))
    /\ world.host.worker \in {"none", "dormant", "running"}
    /\ world.host.staging \subseteq 0..MaxCycle /\ world.host.enrollment \subseteq 0..MaxCycle
    /\ world.vault \in Passwords \cup {NoSecret} /\ world.trans \in Passwords \cup {NoSecret}
    /\ \A p \in 1..MaxPairing : world.ctl.phase[p] \in Phases
    /\ turn.st \in {"idle", "run", "commit", "forget"}

\* A worker is never paired with an identity the journal does not hold: while the
\* host carries a live controller credential, the record names that pairing, so a
\* crash between two turns cannot leave an untracked worker (engine.rs, the two
\* enrollment actions).
PairingJournaled ==
    \A p \in 1..MaxPairing :
        world.ctl.phase[p] \in {"consumed", "ready"} => rec # NoComputer /\ rec.pairing = p

\* A computer is published Ready only with its worker running under the pairing of
\* its own record, accepted by the controller, and with nothing of its present cycle
\* left staged on the host: however often a turn failed, was repeated after a lost
\* answer, or lost its compare-and-swap on the way (ReadyEarned). The exceptions: a
\* teardown has begun (see ReadyMeansManaged), and the tree of an earlier cycle may
\* remain (see NothingStaged).
Published == rec # NoComputer /\ rec.intent = "Continue" /\ rec.step = "Ready" /\ ~Failed(rec)
Managed ==
    /\ world.host.worker = "running"
    /\ world.host.cred = rec.pairing
    /\ world.ctl.phase[rec.pairing] = "ready"
    /\ rec.cycle \notin world.host.staging \cup world.host.enrollment
ReadyEarned == Published /\ ~world.demolished => Managed

\* The pinned host key never changes and its approval is never withdrawn for the
\* life of a record, across failures, retries, rollbacks and repairs.
PinKept ==
    [][ (rec # NoComputer /\ rec' # NoComputer) =>
            /\ rec.key # NoKey => rec'.key = rec.key
            /\ rec.approved => rec'.approved ]_pvVars

\* A removed computer leaves no password behind and no pairing the controller
\* would still honour.
RemovalForgets ==
    rec = NoComputer => /\ world.vault = NoSecret
                        /\ \A p \in 1..MaxPairing : world.ctl.phase[p] \notin {"consumed", "ready"}

-----------------------------------------------------------------------------
(* What comments and documents say and the code does not do: README,       *)
(* section 5.                                                              *)

\* ReadyEarned without the exception: Ready is the record of a managed worker also
\* when an earlier Rollback or Remove failed half way (engine.rs promises that a
\* failure on the host never publishes the computer Ready).
ReadyMeansManaged == Published => Managed

\* A published computer has no staging tree left on its host. The tree of a cycle
\* whose discovery failed survives the rollback of that cycle: teardown removes one
\* from CredentialStored on only, and no later cycle looks at an earlier one's.
NothingStaged == Published /\ ~world.demolished => world.host.staging = {}

\* What docs/add-windows-computer.md says of Remove: the worker is gone.
RemovalUninstalls == rec = NoComputer => world.host.worker = "none"

\* What the comment in persist_driver_failure says: a rejected authentication is
\* a durable event, written in the same compare-and-swap as the failed checkpoint.
RejectionDurable ==
    [][ (CommitFailure /\ turn.data \in AuthRejections /\ DeleteAccepted(rec, turn.rec.rev))
            => Failed(rec') /\ ~rec'.ref ]_pvVars
=============================================================================

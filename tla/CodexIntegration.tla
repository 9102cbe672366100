-------------------------- MODULE CodexIntegration --------------------------
(***************************************************************************)
(* The desktop application's integration with Codex: registering the local *)
(* marketplace and the plugin through the Codex CLI with a rollback, the   *)
(* two durable receipts (restart pending, last self-test), and the status  *)
(* derived from them and from the receipt the running MCP bridge keeps.    *)
(* One operation runs at a time (operation_lock); the Codex runtimes, the  *)
(* installer and the user act between any two of its steps, every external *)
(* command may fail before or after it took effect, and the application    *)
(* may be killed at any step.                                              *)
(***************************************************************************)
EXTENDS Naturals, Sequences, FiniteSets

CONSTANTS
    IntRoots,      \* marketplace roots registered at first
    IntDefects,    \* what may go wrong with the installed payload
    IntRuntimes,   \* MCP bridges that Codex sessions may start
    IntMaxClock,   \* bound: the last instant
    IntMaxOps,     \* bound: operations the user starts, changes the user makes
    IntMaxFaults,  \* bound: commands, renames and files that fail, and kills
    ReceiptTTL     \* ACTIVE_RECEIPT_TTL and ACTIVE_CONTROLLER_VERIFICATION_TTL

ASSUME IntAssumption ==
    /\ IntMaxClock \in Nat /\ IntMaxOps \in Nat /\ IntMaxFaults \in Nat
    /\ ReceiptTTL \in Nat
    /\ IntRoots \subseteq {"none", "foreign", "earlier", "twin", "desired"}
    /\ IntDefects \subseteq {"path", "tree", "manifest", "shape", "bootstrap"}

VARIABLES
    market,    \* the registered marketplace root
    plugin,    \* the registration Codex reports
    payload,   \* the installed payload: its catalog and the check it would fail
    agents,    \* whether the managed block of the global AGENTS.md is in place
    files,     \* the restart and health receipts with their rollback copies
    active,    \* the runtime receipt mcp-active-v1.json
    bridges,   \* the MCP bridges: alive, when started, the build they loaded
    op,        \* the operation that holds the lock
    outcome,   \* what the last operation returned
    installed, \* history: installed_at of the last install reported complete
    intClock, intOps, intFaults

intVars == << market, plugin, payload, agents, files, active, bridges, op,
              outcome, installed, intClock, intOps, intFaults >>

-----------------------------------------------------------------------------
(* Roots the Codex CLI may report: none, somebody else's, a validated      *)
(* earlier release of ours, a validated copy of this release elsewhere,    *)
(* and the root of the installed payload.                                  *)
Markets == {"none", "foreign", "earlier", "twin", "desired"}
Builds == {"none", "foreign", "earlier", "twin", "desired"}
VersionOf(b) == IF b \in {"twin", "desired"} THEN "current" ELSE b

(* validate_owned_marketplace_root: only a root of ours is put back.       *)
OwnedRoot(root) == root \in {"earlier", "twin"}
SamePath(a, b) == a = b

(* The checks of the installed payload; "defect" names the one that fails. *)
Defects == {"none", "path", "tree", "manifest", "shape", "bootstrap"}
PathChainReal(p) == p.defect # "path"
TreeMatches(p) == p.defect # "tree"
ManifestValid(p) == p.defect # "manifest" /\ TreeMatches(p)
InstallVerified(p) == PathChainReal(p) /\ ManifestValid(p)
PayloadShaped(p) == p.defect # "shape"
PayloadVerified(p) == InstallVerified(p) /\ PayloadShaped(p)
BootstrapVerified(p) == InstallVerified(p) /\ p.defect # "bootstrap"

(* locate_verified_payload fails as unavailable only on the payload's own  *)
(* shape; a bad manifest is an AGENTS integration failure.                 *)
PayloadUnavailable(p) == InstallVerified(p) /\ ~PayloadShaped(p)
DesiredVersionKnown(p) == PayloadShaped(p)

Plugin == [build : Builds, enabled : BOOLEAN, sound : BOOLEAN]
NoPlugin == [build |-> "none", enabled |-> FALSE, sound |-> FALSE]
InstalledPluginValid(g) == g.build # "none" /\ g.enabled /\ g.sound
PluginExact(m, g) ==
    /\ SamePath(m, "desired")
    /\ InstalledPluginValid(g)
    /\ VersionOf(g.build) = "current" /\ SamePath(g.build, "desired")

(* A state file: the live value, if any, and its rollback copies.          *)
Absent == 0
Values == 0 .. IntMaxClock
StateFile == [live : Values, backups : Seq(Values)]
NoFile == [live |-> Absent, backups |-> << >>]

(* Bridges and the receipt of whichever of them wrote it last; "seen" is   *)
(* the older of lastSeenAt and controllerVerifiedAt, the one that expires. *)
Bridge == [alive : BOOLEAN, started : Values, build : Builds]
NoBridge == [alive |-> FALSE, started |-> 0, build |-> "none"]
Receipt(r, b, seen) ==
    [kind |-> "receipt", by |-> r, started |-> b.started,
     version |-> VersionOf(b.build), seen |-> seen]
Receipts == [kind : {"receipt"}, by : IntRuntimes, started : Values,
             version : {"current", "earlier", "foreign"},
             seen : Values]
NoReceipt == [kind |-> "absent"]
Garbled == [kind |-> "garbled"]
IsReceipt(rc) == rc.kind = "receipt"

(* process_is_alive asks about a pid: a dead bridge's pid may be reused.   *)
ProcessIsAlive(r, reused) == bridges[r].alive \/ reused
Recent(at) == intClock - at <= ReceiptTTL
ValidActive(rc, version, reused) ==
    /\ rc.version = version
    /\ rc.started <= rc.seen
    /\ ProcessIsAlive(rc.by, reused)
    /\ Recent(rc.seen)

(* status_from_receipts: what the receipts read say, and the files that    *)
(* are then removed. "unread" is whether there was a restart receipt that  *)
(* could not be read or decoded, which counts as none.                     *)
Seen(state, drop, rc) ==
    [state |-> state, drop |-> drop, by |-> rc, enabled |-> TRUE, unread |-> FALSE]
(* A plausible bug: a runtime started in the instant of the install.       *)
MutLoadedAfterInstall(rc, restart) == restart = Absent \/ rc.started >= restart
LoadedAfterInstall(rc, restart) == restart = Absent \/ rc.started > restart
ReceiptStatus(rc, valid, restart) ==
    LET settled == IF restart = Absent THEN "installed" ELSE "restart"
        fallen(s) == IF restart = Absent THEN s ELSE "restart"
    IN CASE rc = NoReceipt -> Seen(settled, {}, rc)
         [] rc = Garbled -> Seen(fallen("broken"), {"active"}, rc)
         [] IsReceipt(rc) /\ valid /\ LoadedAfterInstall(rc, restart) ->
              Seen("connected", IF restart = Absent THEN {} ELSE {"restart"}, rc)
         [] IsReceipt(rc) /\ valid /\ ~LoadedAfterInstall(rc, restart) ->
              Seen(settled, {}, rc)
         [] OTHER -> Seen(fallen("stale"), {"active"}, rc)

(* collect_status: the registration is judged before the receipts.         *)
RegistrationStatus(p, g) ==
    CASE g.build = "none" -> "not_installed"
      [] g.build # "none" /\ ~g.enabled -> "broken"
      [] g.enabled /\ DesiredVersionKnown(p)
           /\ VersionOf(g.build) # "current" -> "version_mismatch"
      [] g.enabled /\ ~g.sound
           /\ (DesiredVersionKnown(p) => VersionOf(g.build) = "current") -> "broken"
      [] OTHER -> "receipts"
States == {"not_found", "not_installed", "broken", "version_mismatch",
           "installed", "restart", "connected", "stale"}
NoStatus == [state |-> "installed", drop |-> {}, by |-> NoReceipt,
             enabled |-> FALSE, unread |-> FALSE]

-----------------------------------------------------------------------------
(* The operation under the lock. "then" is where a status read or a file   *)
(* write continues.                                                        *)
NoOp == [kind |-> "none", pc |-> "idle", then |-> "idle", exact |-> FALSE,
         changed |-> FALSE, before |-> "none", catalog |-> 1, stage |-> "none",
         file |-> "restart", value |-> 0, status |-> NoStatus]
NoOutcome == [kind |-> "none", result |-> "none", stage |-> "none",
              before |-> "none", changed |-> FALSE, status |-> NoStatus]

At(pc) == op.pc = pc
Goto(pc) == op' = [op EXCEPT !.pc = pc]
Return(result) ==
    /\ op' = NoOp
    /\ outcome' = [kind |-> op.kind, result |-> result, stage |-> op.stage,
                   before |-> op.before, changed |-> op.changed \/ ~op.exact,
                   status |-> op.status]

(* One more thing goes wrong.                                              *)
Fault == intFaults < IntMaxFaults /\ intFaults' = intFaults + 1
Fine == UNCHANGED intFaults

(* run_process and run_codex: a command succeeds, fails without an effect, *)
(* or takes effect and is still reported failed (killed at its timeout).   *)
Command(effect, untouched, success, failure) ==
    \/ effect /\ success /\ Fine
    \/ untouched /\ failure /\ Fault
    \/ effect /\ failure /\ Fault

ops == << op, outcome >>
world == << intClock, intOps, payload, bridges, active >>

-----------------------------------------------------------------------------
(* try_operation_lock: an operation starts only when none runs; any other  *)
(* caller is refused at once and changes nothing.                          *)
StartOperation(kind, pc, then) ==
    /\ At("idle")
    /\ intOps < IntMaxOps
    /\ intOps' = intOps + 1
    /\ op' = [NoOp EXCEPT !.kind = kind, !.pc = pc, !.then = then]
    /\ outcome' = NoOutcome
    /\ UNCHANGED << market, plugin, payload, agents, files, active, bridges,
                    installed, intClock, intFaults >>
StartStatus == StartOperation("status", "status", "report")
StartInstall == StartOperation("install", "gate", "report")
StartSelfTest == StartOperation("self_test", "status", "eligible")

SelfTestEligible(s) ==
    /\ s.state \in {"installed", "restart", "connected", "stale", "broken"}
    /\ s.enabled

(* discover_codex_cli and codex_version may find nothing or a broken CLI.  *)
CliMissing ==
    /\ op.pc \in {"gate", "status", "eligible"}
    /\ Fault
    /\ \/ At("gate") /\ Return("failed")
       \/ /\ At("eligible") /\ SelfTestEligible(op.status)
          /\ op' = [op EXCEPT !.pc = "status", !.then = "report"]
          /\ UNCHANGED outcome
       \/ /\ At("status")
          /\ \E s \in {"not_found", "broken"} :
                op' = [op EXCEPT !.pc = op.then, !.status = [NoStatus EXCEPT !.state = s]]
          /\ UNCHANGED outcome
    /\ UNCHANGED << market, plugin, agents, files, installed, world >>

(* install_or_repair up to the marketplace switch: without a usable        *)
(* payload only a valid native registration may be reported; otherwise the *)
(* whole installed tree must match its manifest before any command runs.   *)
InstallGate ==
    /\ At("gate")
    /\ \/ /\ PayloadUnavailable(payload)
          /\ IF InstalledPluginValid(plugin)
             THEN /\ op' = [op EXCEPT !.pc = "status", !.exact = TRUE]
                  /\ UNCHANGED outcome
             ELSE Return("failed")
       \/ /\ ~InstallVerified(payload)
          /\ Return("failed")
       \/ /\ PayloadVerified(payload)
          /\ LET exact == PluginExact(market, plugin) IN
             op' = [op EXCEPT !.exact = exact, !.before = market,
                              !.catalog = payload.catalog,
                              !.pc = IF exact THEN "receipts" ELSE "switch",
                              !.then = IF exact THEN "switch" ELSE "report"]
          /\ UNCHANGED outcome
    /\ Fine
    /\ UNCHANGED << market, plugin, agents, files, installed, world >>

(* switch_marketplace: nothing to do, or the old registration is removed   *)
(* and the payload's root added; a failed removal returns without an undo. *)
SwitchMarketplace ==
    /\ At("switch")
    /\ op' = [op EXCEPT !.pc = CASE SamePath(market, "desired") -> "plugin"
                                 [] market = "none" -> "add"
                                 [] OTHER -> "remove",
                        !.then = "report",
                        !.changed = ~SamePath(market, "desired")]
    /\ Fine
    /\ UNCHANGED << market, plugin, agents, files, installed, outcome, world >>

RemoveMarketplace ==
    /\ At("remove")
    /\ Command(market' = "none", market' = market,
               Goto("add") /\ UNCHANGED outcome,
               op' = NoOp /\ outcome' = [NoOutcome EXCEPT !.kind = "install",
                               !.result = "failed", !.stage = "remove",
                               !.before = op.before])
    /\ UNCHANGED << plugin, agents, files, installed, world >>

(* A failed add may have written partial state, so it is undone.           *)
AddMarketplace ==
    /\ At("add")
    /\ Command(market' = "desired", market' = market,
               op' = [op EXCEPT !.pc = "plugin", !.stage = "plugin"],
               op' = [op EXCEPT !.pc = "undo", !.stage = "add"])
    /\ UNCHANGED << plugin, agents, files, installed, outcome, world >>

Undo(stage) == op' = [op EXCEPT !.pc = IF op.changed THEN "undo" ELSE "undone",
                                !.stage = stage]

AddPlugin ==
    /\ At("plugin")
    /\ IF op.exact
       THEN Goto("check") /\ UNCHANGED plugin /\ Fine
       ELSE Command(plugin' = [build |-> market, enabled |-> TRUE, sound |-> TRUE],
                    plugin' = plugin, Goto("check"), Undo("plugin"))
    /\ UNCHANGED << market, agents, files, installed, outcome, world >>

(* The registration is read again, then the payload's integrity: it must   *)
(* be the payload the operation began with.                                *)
CheckPlugin ==
    /\ At("check")
    /\ \/ /\ PluginExact("desired", plugin)
          /\ InstallVerified(payload) /\ payload.catalog = op.catalog
          /\ Goto("agents") /\ Fine
       \/ /\ ~ (PluginExact("desired", plugin)
                /\ InstallVerified(payload) /\ payload.catalog = op.catalog)
          /\ Undo("check") /\ Fine
       \/ Undo("check") /\ Fault
    /\ UNCHANGED << market, plugin, agents, files, installed, outcome, world >>

(* What the installer's script leaves behind: a receipt that parses, and a *)
(* document that decodes and holds the expected managed block, or not.     *)
ScriptResults == {"done", "receipt", "encoding", "block", "killed"}
CodexOnlyReceiptValid(r) == r \notin {"receipt", "killed"}
AgentsDecodes(r) == r # "encoding"
AgentsVerified(r) == CodexOnlyReceiptValid(r) /\ AgentsDecodes(r) /\ r # "block"

(* integrate_global_agents: the installed bootstrap is verified, the       *)
(* installer's script rewrites the managed block, and its receipt and the  *)
(* payload are verified afterwards. A payload replaced while the script    *)
(* ran is refused although the block is already written.                   *)
VerifyBootstrap ==
    /\ At("agents")
    /\ IF BootstrapVerified(payload)
       THEN op' = [op EXCEPT !.pc = "script", !.catalog = payload.catalog]
       ELSE Undo("agents")
    /\ Fine
    /\ UNCHANGED << market, plugin, agents, files, installed, outcome, world >>
IntegrateAgents ==
    /\ At("script")
    /\ \E r \in ScriptResults :
         /\ IF r = "killed" THEN agents' \in {agents, TRUE} ELSE agents' = TRUE
         /\ IF r = "done" THEN Fine ELSE Fault
         /\ IF /\ AgentsVerified(r) /\ InstallVerified(payload)
               /\ payload.catalog = op.catalog
            THEN op' = [op EXCEPT !.stage = "receipt",
                          !.pc = IF op.exact THEN "status" ELSE "drop_health",
                          !.then = "report"]
            ELSE Undo("agents")
    /\ UNCHANGED << market, plugin, files, installed, outcome, world >>

(* restore_marketplace and restore_plugin_after_failure. An undo command   *)
(* that fails turns the error into a repair requirement.                   *)
(* A plausible bug: the registration is removed and the old root forgotten.*)
MutUndoMarketplace ==
    /\ At("undo")
    /\ Command(market' = "none", market' = market,
               Goto("undone") /\ UNCHANGED outcome, Return("repair"))
    /\ UNCHANGED << plugin, agents, files, installed, world >>
UndoMarketplace ==
    /\ At("undo")
    /\ Command(market' = "none", market' = market,
               /\ Goto(IF OwnedRoot(op.before) THEN "undo_add" ELSE "undone")
               /\ UNCHANGED outcome,
               Return("repair"))
    /\ UNCHANGED << plugin, agents, files, installed, world >>
UndoAdd ==
    /\ At("undo_add")
    /\ Command(market' = op.before, market' = market,
               /\ Goto(IF op.stage = "add" THEN "undone" ELSE "undo_plugin")
               /\ UNCHANGED outcome,
               Return("repair"))
    /\ UNCHANGED << plugin, agents, files, installed, world >>
UndoPlugin ==
    /\ At("undo_plugin")
    /\ Command(plugin' = [build |-> market, enabled |-> TRUE, sound |-> TRUE],
               plugin' = plugin, Goto("undone") /\ UNCHANGED outcome,
               Return("repair"))
    /\ UNCHANGED << market, agents, files, installed, world >>
Undone ==
    /\ At("undone")
    /\ Return("failed")
    /\ Fine
    /\ UNCHANGED << market, plugin, agents, files, installed, world >>

(* The new build is recorded: the old self-test result goes, then the      *)
(* restart receipt is written with the current instant.                    *)
DropHealth ==
    /\ At("drop_health")
    /\ \/ files' = [files EXCEPT !["health"].live = Absent] /\ Fine
       \/ UNCHANGED files /\ Fault
    /\ op' = [op EXCEPT !.pc = "recover", !.file = "restart", !.value = intClock,
                        !.then = "status"]
    /\ UNCHANGED << market, plugin, agents, installed, outcome, world >>

-----------------------------------------------------------------------------
(* write_atomic_json. A missing live file with one rollback copy is first  *)
(* recovered from it; more than one is ambiguous and left for repair.      *)
File == files[op.file]
SetFile(f) == files' = [files EXCEPT ![op.file] = f]
Written == op' = [op EXCEPT !.pc = op.then, !.then = "report"]
RecoverBackup ==
    /\ At("recover")
    /\ IF File.live # Absent \/ File.backups = << >>
       THEN Goto("stage") /\ UNCHANGED << files, outcome >> /\ Fine
       ELSE IF Len(File.backups) > 1
       THEN Return("repair") /\ UNCHANGED files /\ Fine
       ELSE \/ /\ SetFile([live |-> Head(File.backups), backups |-> << >>])
               /\ Goto("stage") /\ UNCHANGED outcome /\ Fine
            \/ Return("repair") /\ UNCHANGED files /\ Fault
    /\ UNCHANGED << market, plugin, agents, installed, world >>

(* Staging the new content may fail; the rename onto the live file may     *)
(* fail, and then only an existing live file is moved aside.               *)
StageAndRename ==
    /\ At("stage")
    /\ \/ SetFile([File EXCEPT !.live = op.value]) /\ Written
            /\ UNCHANGED outcome /\ Fine
       \/ Return("failed") /\ UNCHANGED files /\ Fault
       \/ /\ UNCHANGED files /\ Fault
          /\ IF File.live = Absent
             THEN Return("failed")
             ELSE Goto("aside") /\ UNCHANGED outcome
    /\ UNCHANGED << market, plugin, agents, installed, world >>
MoveAside ==
    /\ At("aside")
    /\ \/ /\ SetFile([live |-> Absent, backups |-> Append(File.backups, File.live)])
          /\ Goto("swap") /\ UNCHANGED outcome /\ Fine
       \/ Return("failed") /\ UNCHANGED files /\ Fault
    /\ UNCHANGED << market, plugin, agents, installed, world >>

(* After the second rename the copy is removed, which may fail unnoticed;  *)
(* a failed rename puts the copy back, and failing that too is reported as *)
(* a repair requirement.                                                   *)
SwapIn ==
    /\ At("swap")
    /\ LET kept == File.backups
           rest == SubSeq(kept, 1, Len(kept) - 1)
       IN \/ SetFile([live |-> op.value, backups |-> rest]) /\ Written /\ Fine
               /\ UNCHANGED outcome
          \/ SetFile([live |-> op.value, backups |-> kept]) /\ Written /\ Fault
               /\ UNCHANGED outcome
          \/ SetFile([live |-> kept[Len(kept)], backups |-> rest])
               /\ Return("failed") /\ Fault
          \/ UNCHANGED files /\ Return("repair") /\ Fault
    /\ UNCHANGED << market, plugin, agents, installed, world >>

-----------------------------------------------------------------------------
(* collect_status: the registration and the receipts are read, and only    *)
(* then acted on. "receipts" is the bare state_from_receipts. A restart    *)
(* receipt that cannot be opened or decoded, now or at every look, reads   *)
(* as none (read_small_json).                                              *)
ReadStatus ==
    /\ op.pc \in {"status", "receipts"}
    /\ LET judged == IF At("status") THEN RegistrationStatus(payload, plugin)
                     ELSE "receipts"
       IN IF judged # "receipts"
          THEN /\ op' = [op EXCEPT !.pc = op.then,
                                   !.status = [NoStatus EXCEPT !.state = judged,
                                                        !.enabled = plugin.enabled]]
               /\ Fine
          ELSE \E reused, unread \in BOOLEAN :
               /\ reused => IsReceipt(active) /\ ~bridges[active.by].alive
               /\ unread => files["restart"].live # Absent
               /\ IF reused \/ unread THEN Fault ELSE Fine
               /\ op' = [op EXCEPT !.pc = "apply",
                    !.status = [ReceiptStatus(active,
                        IsReceipt(active)
                          /\ ValidActive(active, VersionOf(plugin.build), reused),
                        IF unread THEN Absent ELSE files["restart"].live)
                      EXCEPT !.unread = unread]]
    /\ UNCHANGED << market, plugin, agents, files, installed, outcome, world >>

(* The removals: the restart receipt of a build that is loaded, or the     *)
(* active receipt as it is NOW, which a bridge may have rewritten since.   *)
ApplyStatus ==
    /\ At("apply")
    /\ \/ /\ files' = IF "restart" \in op.status.drop
                      THEN [files EXCEPT !["restart"].live = Absent] ELSE files
          /\ active' = IF "active" \in op.status.drop THEN NoReceipt ELSE active
          /\ Fine
       \/ op.status.drop # {} /\ UNCHANGED << files, active >> /\ Fault
    /\ Goto(op.then)
    /\ UNCHANGED << market, plugin, payload, agents, bridges, outcome,
                    installed, intClock, intOps >>

(* The result goes back to the caller and the lock is released.            *)
Report ==
    /\ At("report")
    /\ Return("ok")
    /\ installed' = IF op.kind = "install" /\ ~op.exact THEN op.value ELSE installed
    /\ Fine
    /\ UNCHANGED << market, plugin, agents, files, world >>

(* The isolated session of the installed bridge: it starts and lists its   *)
(* eight tools, answers the call in time and with a strict result, and     *)
(* reports the controller's health and fleet.                              *)
ProbeResults == {"round_trip", "start", "deadline", "framing", "payload", "controller"}
SessionStarted(r) == r # "start"
ToolCalled(r) == SessionStarted(r) /\ r # "deadline"
ResultStrict(r) == r # "framing"
ToolPayloadStrict(r) == r # "payload"
ProbePassed(r) ==
    ToolCalled(r) /\ ResultStrict(r) /\ ToolPayloadStrict(r) /\ r # "controller"

(* run_self_test: only an enabled registration is probed; the installed    *)
(* plugin is validated, an isolated child (which keeps no runtime receipt) *)
(* makes the round trip, and the result is written as the health receipt.  *)
SelfTest ==
    /\ At("eligible")
    /\ IF ~SelfTestEligible(op.status)
       THEN Goto("report")
       ELSE IF ~InstalledPluginValid(plugin)
       THEN op' = [op EXCEPT !.pc = "status", !.then = "report"]
       ELSE \E r \in ProbeResults :
            op' = [op EXCEPT !.pc = "recover", !.file = "health", !.then = "status",
                             !.value = IF ProbePassed(r) THEN 1 ELSE 2]
    /\ Fine
    /\ UNCHANGED << market, plugin, agents, files, installed, outcome, world >>

-----------------------------------------------------------------------------
(* The application is killed; the lock goes with it, the files stay.       *)
KillDesktop ==
    /\ ~At("idle")
    /\ Fault
    /\ op' = NoOp /\ outcome' = NoOutcome
    /\ UNCHANGED << market, plugin, agents, files, installed, world >>

still == << market, plugin, agents, files, op, outcome, installed, intOps >>

(* McpRuntimeReceipt: a Codex session loads the registered build, and the  *)
(* bridge writes its receipt after a verified round trip and on heartbeats.*)
StartBridge(r) ==
    /\ ~bridges[r].alive
    /\ InstalledPluginValid(plugin)
    /\ bridges' = [bridges EXCEPT ![r] = [alive |-> TRUE, started |-> intClock,
                                          build |-> plugin.build]]
    /\ UNCHANGED << payload, active, intClock, intFaults, still >>
Beat(r) ==
    /\ bridges[r].alive
    /\ active' = Receipt(r, bridges[r], intClock)
    /\ active' # active
    /\ UNCHANGED << payload, bridges, intClock, intFaults, still >>
StopBridge(r) ==
    /\ bridges[r].alive
    /\ bridges' = [bridges EXCEPT ![r].alive = FALSE]
    /\ \/ /\ active' = IF IsReceipt(active) /\ active.by = r THEN NoReceipt ELSE active
          /\ Fine
       \/ UNCHANGED active /\ Fault
    /\ UNCHANGED << payload, intClock, still >>

(* The user disables or damages the plugin; the installer replaces the     *)
(* payload or a file of it goes bad; a receipt is damaged; time passes.    *)
UserChangesPlugin ==
    /\ plugin.build # "none" /\ intOps < IntMaxOps
    /\ intOps' = intOps + 1
    /\ plugin' \in {[plugin EXCEPT !.enabled = FALSE], [plugin EXCEPT !.sound = FALSE]}
    /\ plugin' # plugin
    /\ UNCHANGED << market, payload, agents, files, active, bridges, op, outcome,
                    installed, intClock, intFaults >>
PayloadChanges ==
    /\ Fault
    /\ \/ payload' = [catalog |-> 2, defect |-> "none"]
       \/ \E d \in IntDefects : payload' = [payload EXCEPT !.defect = d]
    /\ payload' # payload
    /\ UNCHANGED << active, bridges, intClock, still >>
DamageReceipt ==
    /\ IsReceipt(active) /\ Fault
    /\ active' = Garbled
    /\ UNCHANGED << payload, bridges, intClock, still >>
IntTick ==
    /\ intClock < IntMaxClock
    /\ intClock' = intClock + 1
    /\ UNCHANGED << payload, active, bridges, intFaults, still >>

-----------------------------------------------------------------------------
IntInit ==
    /\ market \in IntRoots
    /\ plugin = IF market = "none" THEN NoPlugin
                ELSE [build |-> market, enabled |-> TRUE, sound |-> TRUE]
    /\ payload = [catalog |-> 1, defect |-> "none"]
    /\ agents = FALSE
    /\ files = [f \in {"restart", "health"} |-> NoFile]
    /\ active = NoReceipt
    /\ bridges = [r \in IntRuntimes |-> NoBridge]
    /\ op = NoOp /\ outcome = NoOutcome
    /\ installed = 0 /\ intClock = 1 /\ intOps = 0 /\ intFaults = 0

Install ==
    \/ InstallGate \/ SwitchMarketplace \/ RemoveMarketplace \/ AddMarketplace
    \/ AddPlugin \/ CheckPlugin \/ VerifyBootstrap \/ IntegrateAgents \/ DropHealth
    \/ UndoMarketplace \/ UndoAdd \/ UndoPlugin \/ Undone
WriteFile == RecoverBackup \/ StageAndRename \/ MoveAside \/ SwapIn
Status == CliMissing \/ ReadStatus \/ ApplyStatus \/ SelfTest \/ Report
IntEnvironment ==
    \/ \E r \in IntRuntimes : StartBridge(r) \/ Beat(r) \/ StopBridge(r)
    \/ UserChangesPlugin \/ PayloadChanges \/ DamageReceipt \/ IntTick
IntNext ==
    \/ StartStatus \/ StartInstall \/ StartSelfTest
    \/ Install \/ WriteFile \/ Status \/ KillDesktop \/ IntEnvironment
IntSpec == IntInit /\ [][IntNext]_intVars

-----------------------------------------------------------------------------
IntTypeOK ==
    /\ market \in Markets
    /\ plugin \in Plugin
    /\ payload \in [catalog : 1 .. 2, defect : Defects]
    /\ agents \in BOOLEAN
    /\ \A f \in DOMAIN files : files[f] \in StateFile
    /\ (IsReceipt(active) => active \in Receipts)
    /\ bridges \in [IntRuntimes -> Bridge]
    /\ op.status.state \in States
    /\ installed \in Values /\ intClock \in Values

(* An install that returns an ordinary error (no repair required) after it *)
(* began to change the marketplace has put the registration back: the root *)
(* that was there if it was ours, none if it was not, and the plugin of    *)
(* that root again. The exceptions are in the code: a failed removal of    *)
(* the old root returns at once, and a receipt that cannot be written      *)
(* leaves the completed installation in place (switch_marketplace,         *)
(* finish_plugin_failure, write_atomic_json's callers).                    *)
RollbackHonest ==
    /\ outcome.kind = "install" /\ outcome.result = "failed"
    /\ outcome.stage \in {"add", "plugin", "check", "agents"}
    => /\ market = IF OwnedRoot(outcome.before) \/ outcome.before = "desired"
                   THEN outcome.before ELSE "none"
       /\ OwnedRoot(outcome.before) /\ outcome.stage # "add" => plugin.build = market

(* A status "connected" names a runtime that started after the last        *)
(* install that was reported complete. Three exceptions are in the code:   *)
(* another runtime that did so has already had the restart receipt removed *)
(* (an older session's bridge then counts as connected again), an          *)
(* interrupted write of that receipt has left its only copy in a rollback  *)
(* file, or the receipt is there and could not be read or decoded          *)
(* (status_from_receipts, read_small_json, write_atomic_json).             *)
ConnectedAfterInstall ==
    outcome.result = "ok" /\ outcome.status.state = "connected"
    => \/ outcome.status.by.started > installed
       \/ \E r \in IntRuntimes \ {outcome.status.by.by} : bridges[r].started > installed
       \/ files["restart"].backups # << >>
       \/ outcome.status.unread

(* A restart that is still due is never forgotten: until a later runtime   *)
(* has been seen, the receipt of the last complete install, or a newer     *)
(* one, is in the live file or in a rollback copy whichever write, rename  *)
(* or removal fails and whenever the application is killed.                *)
RestartKept ==
    (\A r \in IntRuntimes : bridges[r].started <= installed)
        /\ (IsReceipt(active) => active.started <= installed)
        /\ (IsReceipt(op.status.by) => op.status.by.started <= installed)
        /\ installed > 0
    => \/ files["restart"].live # Absent /\ files["restart"].live >= installed
       \/ \E i \in DOMAIN files["restart"].backups :
             files["restart"].backups[i] >= installed

(* A completed install is not reported as loaded before a restart, but for *)
(* the three cases above, and the restart it asks for is not forgotten     *)
(* (status_from_receipts and write_atomic_json, integration.rs).           *)
RestartEnforced == ConnectedAfterInstall /\ RestartKept

(* A missing live file always has at most one rollback copy, so the next   *)
(* write can recover it without asking for a manual repair (with at most   *)
(* three failures; recover_atomic_state_backup).                           *)
RecoveryUnambiguous ==
    \A f \in DOMAIN files : files[f].live = Absent => Len(files[f].backups) <= 1

-----------------------------------------------------------------------------
(* What comments and documents say and the code does not do: README,       *)
(* section 5.                                                              *)

(* What status_message says of "connected": the active Codex runtime       *)
(* loaded the plugin that is registered.                                   *)
RuntimeCurrent ==
    outcome.result = "ok" /\ outcome.status.state = "connected"
        /\ bridges[outcome.status.by.by].started = outcome.status.by.started
    => bridges[outcome.status.by.by].build = plugin.build
=============================================================================

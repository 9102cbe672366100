----------------------------- MODULE ProcessTree -----------------------------
(***************************************************************************)
(* One managed process at a time: crates/cyc-worker/src/process.rs         *)
(* (run_process, monitor_child, ProcessTree and its trackers) under the    *)
(* opt-in policy of isolation.rs.                                          *)
(*                                                                         *)
(* The worker watches a tree it does not control.  Between two looks at    *)
(* the process table the tree forks, leaves its group, orphans children    *)
(* and dies; on Linux one look is itself two reads (the list of children,  *)
(* then each child's stat record) with the tree running in between.  The   *)
(* question is what "process tree terminated" is worth when run_process    *)
(* returns it.                                                             *)
(***************************************************************************)
EXTENDS Naturals

CONSTANTS
    Root,      \* the process run_process spawns
    Kids,      \* identities its descendants may take
    Old,       \* a child the worker had before this invocation
    Stops,     \* reasons to stop the tree; the monitor treats them alike
    Quiet,     \* looks of the quiescence window after the first empty one
    MaxBoots   \* lives of the worker daemon

ASSUME ProcessTreeAssumption ==
    /\ Quiet \in Nat /\ MaxBoots \in Nat
    /\ Root # Old /\ {Root, Old} \cap Kids = {}
    /\ {"worker", "init"} \cap (Kids \cup {Root, Old}) = {}
    /\ {"none", "exited"} \cap Stops = {}

VARIABLES
    host,   \* platform, build, isolation policy and its files; fixed but for them
    proc,   \* the process table
    seen,   \* what the tracker knows: baseline, tracked, known and the look under way
    mon     \* run_process and its monitor thread

ptVars == <<host, proc, seen, mon>>

Everyone == Kids \cup {Root, Old}
Live(p) == proc[p].life = "live"
Mine == {p \in Everyone : proc[p].mine}          \* Root and all it ever started
Survivors == {p \in Mine : Live(p)}
Grouped == {p \in Everyone : Live(p) /\ proc[p].grouped}

Unborn == [life |-> "unborn", parent |-> "init", grouped |-> FALSE, deaf |-> FALSE,
           piped |-> FALSE, mine |-> FALSE, caged |-> FALSE]
Gone == [Unborn EXCEPT !.life = "gone"]
Zombie == [Unborn EXCEPT !.life = "zombie", !.parent = "worker"]

-----------------------------------------------------------------------------
(* The operating system.                                                   *)

(* Orphans go to the nearest subreaper: the worker on Linux, once          *)
(* PR_SET_CHILD_SUBREAPER is set, and init elsewhere.                      *)
Heir == IF host.os = "linux" /\ mon.at # "down" THEN "worker" ELSE "init"

(* The processes D die.  A child of the worker stays a zombie until it is  *)
(* waited for; any other is reaped by its parent, by init, or by Heir once *)
(* it is adopted.                                                          *)
Deaths(D) ==
    LET parent(p) == IF proc[p].parent \in D THEN Heir ELSE proc[p].parent IN
    [p \in Everyone |->
        IF p \notin D THEN [proc[p] EXCEPT !.parent = parent(p)]
        ELSE IF parent(p) = "worker" THEN Zombie ELSE Gone]

(* kill(2) with SIGTERM or SIGKILL on each of S: a handler or an ignored   *)
(* SIGTERM keeps a process alive.                                          *)
Signalled(S, sig) == {p \in S : Live(p) /\ (sig = "kill" \/ ~proc[p].deaf)}

(* A process forks; the child may call setsid and close the pipes at once. *)
(* What the tree does once run_process has returned is not followed.       *)
Forks(p, q) ==
    /\ Live(p) /\ q \in Kids /\ proc[q].life = "unborn" /\ mon.at # "returned"
    /\ ~(host.os = "windows" /\ mon.at = "attach")      \* still suspended
    /\ \E g, i, d \in BOOLEAN :
        /\ g => proc[p].grouped
        /\ i => proc[p].piped
        /\ proc' = [proc EXCEPT ![q] =
               [proc[p] EXCEPT !.parent = p, !.grouped = g, !.piped = i, !.deaf = d]]
    /\ UNCHANGED <<host, seen, mon>>

(* "raced" remembers a process of the job that ended between the two reads *)
(* of the look under way.                                                  *)
Exits(p) ==
    /\ Live(p) /\ ~(host.os = "windows" /\ mon.at = "attach")
    /\ proc' = Deaths({p})
    /\ seen' = IF seen.look = "listed" /\ p \in Mine THEN [seen EXCEPT !.raced = TRUE] ELSE seen
    /\ UNCHANGED <<host, mon>>

(* What a policy rests on that somebody may damage or repair: the owner    *)
(* and mode of the cgroup control files, the protection of the policy      *)
(* document, the receipt, the guard executable.                            *)
Damageable ==
    IF host.policy = "linux" THEN {"control", "config"} \cup (IF mon.at = "poll" THEN {"receipt"} ELSE {})
    ELSE IF host.policy = "none" \/ mon.at # "boot" THEN {} ELSE {"guard", "receipt"}

Tampers ==
    /\ host.tampered < 2 /\ mon.at # "returned"
    /\ \E d \in Damageable :
          host' = [host EXCEPT !.tampered = @ + 1,
                               !.bad = IF d \in @ THEN @ \ {d} ELSE @ \cup {d}]
    /\ UNCHANGED <<proc, seen, mon>>

-----------------------------------------------------------------------------
(* The hostile-workload policy.                                            *)

(* from_environment: a document of another platform, node or version, or   *)
(* an unprotected one, refuses every start; no document means trusted.     *)
PolicyReadable == host.policy = "none" \/ (host.policy = host.os /\ "config" \notin host.bad)

(* ensure_runtime_backend_available: only the Linux backend, and only in   *)
(* the native acceptance build.                                            *)
BackendAvailable ==
    \/ host.policy = "none"
    \/ host.policy = "linux" /\ host.os = "linux" /\ host.build = "native_test"

Hostile == host.policy # "none"
CgroupEmpty == \A p \in Everyone : ~(Live(p) /\ proc[p].caged)
IdentityIdle == Survivors = {}                    \* no live process with the execution uid
ControlBoundary == "control" \notin host.bad      \* every ancestor's files
ReceiptClean == host.receipt = "clean" /\ "receipt" \notin host.bad

VerifyAfterProcess ==
    BackendAvailable /\ (Hostile => CgroupEmpty /\ IdentityIdle /\ ControlBoundary)

(* verify_before_claim adds the durable receipt, of any age on Linux.      *)
VerifyBeforeClaim == VerifyAfterProcess /\ (Hostile => ReceiptClean)

(* A process of the hostile identity moves to another cgroup, which the    *)
(* ownership of the control files is there to prevent.                     *)
Migrates(p) ==
    /\ Live(p) /\ proc[p].caged /\ ~ControlBoundary
    /\ proc' = [proc EXCEPT ![p].caged = FALSE]
    /\ UNCHANGED <<host, seen, mon>>

(* prepare_linux_execution_scope checks once more, without the receipt,    *)
(* before it hands the job tree over to the identity; configure_command    *)
(* puts the child into the cgroup and switches the identity before exec.   *)
ScopeHandedOver == VerifyAfterProcess
IdentitySwitched == Hostile
LaunchAllowed == PolicyReadable /\ ScopeHandedOver

(* prepare_linux_cgroup; reconcile_linux_cgroup finds what is left in it;  *)
(* persist_receipt.                                                        *)
CgroupPrepared == ControlBoundary
Residual == {p \in Everyone : Hostile /\ Live(p) /\ proc[p].caged}
ReceiptWritten == IF Hostile THEN [host EXCEPT !.receipt = "clean"] ELSE host

(* validate_worker_boundaries: separate identities, the cgroup prepared,   *)
(* the protected files out of the identity's reach.                        *)
WorkerBoundaries == BackendAvailable /\ (Hostile => CgroupPrepared /\ "config" \notin host.bad)

(* run_forever: the boundaries are validated, the cgroup of a dead worker  *)
(* is killed and waited for, and the receipt written.  A worker that finds *)
(* the identity elsewhere, or cannot empty the cgroup, does not start.     *)
Reconciles ==
    /\ mon.at = "boot" /\ PolicyReadable /\ WorkerBoundaries
    /\ Hostile => Residual = Survivors /\ "receipt" \notin host.bad
    /\ proc' = Deaths(Residual)
    /\ host' = ReceiptWritten
    /\ mon' = [mon EXCEPT !.at = "poll"]
    /\ UNCHANGED seen

(* claim_loop checks before the request and again after the response.      *)
Claims ==
    /\ mon.at = "poll" /\ VerifyBeforeClaim
    /\ mon' = [mon EXCEPT !.at = "ready"]
    /\ UNCHANGED <<host, proc, seen>>

(* An external guard, of a Windows or macOS policy, run by a platform      *)
(* acceptance runner: the request names node, identity and containment,    *)
(* the executable must be the pinned one before the run and after it, the  *)
(* run ends within 30 s, and the receipt must be fresh and attest the      *)
(* configured identity.  It opens no gate.                                 *)
RequestValid == host.policy \in {"windows", "macos"} /\ PolicyReadable
ExecutablePinned == "guard" \notin host.bad
GuardExits == {"success", "failure", "timeout"}
Attests(receipt) == receipt = "attested"
ReceiptFresh(receipt) == receipt # "stale"
ReceiptAccepted(receipt) ==
    /\ ExecutablePinned /\ "receipt" \notin host.bad
    /\ ReceiptFresh(receipt) /\ Attests(receipt)

RunExternalGuard ==
    /\ RequestValid /\ mon.at = "boot" /\ host.external = "none"
    /\ \E exit \in GuardExits, r \in {"attested", "stale", "foreign"} :
          host' = [host EXCEPT
                      !.receipt = IF ExecutablePinned THEN r ELSE @,
                      !.external = IF exit = "success" /\ ReceiptAccepted(r)
                                   THEN "valid" ELSE "refused"]
    /\ UNCHANGED <<proc, seen, mon>>

-----------------------------------------------------------------------------
(* run_process up to the attached tree.                                    *)

Return(result) == [mon EXCEPT !.at = "returned", !.result = result, !.stage = "settle",
                              !.pass = 1, !.quiet = 0, !.exited = FALSE]

(* A failure before the spawn: ProcessRunError::confirmed_empty.           *)
RefusesToStart ==
    /\ mon.at = "ready"
    /\ mon' = Return("confirmed")
    /\ UNCHANGED <<host, proc, seen>>

(* The baseline is taken, then the child is spawned: suspended on Windows, *)
(* running elsewhere before anybody tracks it.                             *)
Spawns ==
    /\ mon.at = "ready" /\ LaunchAllowed
    /\ seen' = [seen EXCEPT !.baseline = {p \in Everyone :
                                           /\ proc[p].life \in {"live", "zombie"}
                                           /\ proc[p].parent = "worker" \/ host.os = "macos"}]
    /\ \E d \in BOOLEAN :
          proc' = [proc EXCEPT ![Root] =
                      [life |-> "live", parent |-> "worker", grouped |-> TRUE, deaf |-> d,
                       piped |-> TRUE, mine |-> TRUE, caged |-> IdentitySwitched]]
    /\ mon' = [mon EXCEPT !.at = "attach"]
    /\ UNCHANGED host

(* Nothing was started: Ok(not_started) if the policy agrees.              *)
SpawnFails ==
    /\ mon.at = "ready" /\ LaunchAllowed
    /\ mon' = Return(IF VerifyAfterProcess THEN "ok" ELSE "unconfirmed")
    /\ UNCHANGED <<host, proc, seen>>

(* ProcessTree::attach.  A Windows child is assigned to the job before its *)
(* first instruction; on macOS it must still be there.                     *)
Attaches ==
    /\ mon.at = "attach" /\ (host.os = "macos" => Live(Root))
    /\ seen' = [seen EXCEPT !.tracked = {Root}, !.known = {Root}]
    /\ mon' = [mon EXCEPT !.at = "watch"]
    /\ UNCHANGED <<host, proc>>

(* The root is killed and waited for; its children are not looked at.      *)
AttachFails ==
    /\ mon.at = "attach"
    /\ proc' = [Deaths(Signalled({Root}, "kill")) EXCEPT ![Root] = Gone]
    /\ mon' = Return("unconfirmed")
    /\ UNCHANGED <<host, seen>>

-----------------------------------------------------------------------------
(* One look at the tree.                                                   *)

LooksWanted ==
    /\ seen.look = "none"
    /\ mon.at \in {"watch", "signal"} \/ (mon.at = "wait" /\ mon.exited)

ChildrenOf(S) == {q \in Everyone : Live(q) /\ proc[q].parent \in S}

(* A set and all live processes below it: what every set that contains S   *)
(* and is closed under having children holds.                              *)
Descendants(S) ==
    {p \in Everyone : \A T \in SUBSET Everyone :
                          S \subseteq T /\ ChildrenOf(T) \subseteq T => p \in T}

(* LinuxDescendants::refresh, first read: dead identities are dropped and  *)
(* the worker's children listed.                                           *)
LinuxLists ==
    /\ host.os = "linux" /\ LooksWanted
    /\ seen' = [seen EXCEPT
                   !.look = "listed",
                   !.tracked = {p \in @ : Live(p)},
                   !.listed = {p \in Everyone : proc[p].parent = "worker"
                                                /\ proc[p].life \in {"live", "zombie"}}]
    /\ UNCHANGED <<host, proc, mon>>

(* Mutant: adopted children count whether or not they predate the spawn.   *)
MutAdopted(p) == TRUE

(* A direct child is ours unless it was there before.                      *)
Adopted(p) == p \notin seen.baseline

(* Second read: the stat records.  Adopted zombies are reaped, adopted     *)
(* children tracked, and then everything below the tracked ones.           *)
LinuxReads ==
    /\ seen.look = "listed"
    /\ LET here == {p \in seen.listed : proc[p].parent = "worker"
                                        /\ proc[p].life \in {"live", "zombie"}}
           reaped == {p \in here : p # Root /\ Adopted(p) /\ ~Live(p)}
           found == {p \in here : p = Root \/ (Adopted(p) /\ Live(p))}
       IN /\ proc' = [p \in Everyone |-> IF p \in reaped THEN Gone ELSE proc[p]]
          /\ seen' = [seen EXCEPT !.look = "done", !.listed = {},
                                  !.tracked = Descendants(@ \cup found)]
    /\ UNCHANGED <<host, mon>>

(* MacosDescendants: identities once seen below the root stay claimable    *)
(* after launchd has adopted them.                                         *)
StillKnown == seen.known \cup seen.tracked

(* One snapshot of /bin/ps.                                                *)
MacLooks ==
    /\ host.os = "macos" /\ LooksWanted
    /\ LET claimed == {p \in Descendants(StillKnown) : Live(p) /\ p \notin seen.baseline} IN
       seen' = [seen EXCEPT !.look = "done", !.tracked = claimed, !.known = @ \cup claimed]
    /\ UNCHANGED <<host, proc, mon>>

(* The job object needs no look: it accounts for every member.             *)
WindowsLooks ==
    /\ host.os = "windows" /\ LooksWanted
    /\ seen' = [seen EXCEPT !.look = "done"]
    /\ UNCHANGED <<host, proc, mon>>

TreeEmpty ==
    CASE host.os = "linux" -> seen.tracked = {}
      [] host.os = "macos" -> seen.tracked = {} /\ Grouped = {}
      [] host.os = "windows" -> Survivors = {}

Looked == seen' = [seen EXCEPT !.look = "none", !.raced = FALSE]

-----------------------------------------------------------------------------
(* monitor_child.                                                          *)

(* The root exited: the tree still has to be observed empty.               *)
RootExited ==
    /\ mon.at = "watch" /\ seen.look = "done" /\ proc[Root].life = "zombie"
    /\ proc' = [proc EXCEPT ![Root] = Gone]
    /\ mon' = [mon EXCEPT !.at = "wait", !.stage = "settle", !.quiet = 0,
                          !.raced = 0, !.exited = TRUE, !.reason = "exited"]
    /\ Looked /\ UNCHANGED host

(* The flag was set by the heartbeat, a watchdog, a failed log upload or   *)
(* ctrl-c, or the step's deadline passed.                                  *)
AskedToStop(reason) ==
    /\ mon.at = "watch" /\ seen.look = "done" /\ proc[Root].life # "zombie"
    /\ mon' = [mon EXCEPT !.at = "signal", !.stage = "term", !.pass = 1, !.reason = reason]
    /\ Looked /\ UNCHANGED <<host, proc>>

WatchesOn ==
    /\ mon.at = "watch" /\ seen.look = "done" /\ proc[Root].life # "zombie"
    /\ Looked /\ UNCHANGED <<host, proc, mon>>

(* The stage that follows a signal: settle -> soft -> hard after an exit,  *)
(* term -> kill otherwise.                                                 *)
SignalOf(stage) == IF stage \in {"settle", "term"} THEN "term" ELSE "kill"
After(stage) == CASE stage = "settle" -> "soft" [] stage = "soft" -> "hard"
                  [] stage = "term" -> "grace" [] stage = "grace" -> "kill"

(* terminate and force_kill: on Linux two passes over a fresh look, then   *)
(* the process group; on macOS the group and the tracked identities; on    *)
(* Windows the job.                                                        *)
Signals ==
    /\ mon.at = "signal" /\ seen.look = "done"
    /\ LET sig == SignalOf(mon.stage)
           last == host.os # "linux" \/ mon.pass = 2
           targets == CASE host.os = "windows" -> Survivors
                        [] last -> seen.tracked \cup Grouped
                        [] OTHER -> seen.tracked
       IN /\ proc' = Deaths(Signalled(targets, IF host.os = "windows" THEN "kill" ELSE sig))
          /\ mon' = IF last THEN [mon EXCEPT !.at = "wait", !.stage = After(@), !.quiet = 0,
                                           !.raced = 0]
                    ELSE [mon EXCEPT !.pass = 2]
    /\ Looked /\ UNCHANGED host

(* wait_after_termination polls the root before it looks at the tree.      *)
RootReaped ==
    /\ mon.at = "wait" /\ ~mon.exited /\ proc[Root].life = "zombie"
    /\ proc' = [proc EXCEPT ![Root] = Gone]
    /\ mon' = [mon EXCEPT !.exited = TRUE]
    /\ UNCHANGED <<host, seen>>

(* Mutant: an empty look after the root's exit ends the wait at once.      *)
MutLooksRequired == 0

(* wait_for_tree_empty repeats an empty look for the quiescence window;    *)
(* wait_after_termination returns on the first one.                        *)
LooksRequired == IF mon.stage \in {"settle", "soft", "hard"} THEN Quiet ELSE 0

(* How many empty looks of this window a process of the job ended in.      *)
RacedLooks == IF seen.raced THEN mon.raced + 1 ELSE mon.raced

Finished == [mon EXCEPT !.at = "drain", !.forced = mon.stage \in {"hard", "kill"},
                        !.raced = RacedLooks]

SeesEmpty ==
    /\ mon.at = "wait" /\ seen.look = "done" /\ TreeEmpty
    /\ mon' = IF mon.quiet < LooksRequired
              THEN [mon EXCEPT !.quiet = @ + 1, !.raced = RacedLooks]
              ELSE Finished
    /\ Looked /\ UNCHANGED <<host, proc>>

SeesProcesses ==
    /\ mon.at = "wait" /\ seen.look = "done" /\ ~TreeEmpty
    /\ mon' = [mon EXCEPT !.quiet = 0, !.raced = 0]
    /\ Looked /\ UNCHANGED <<host, proc>>

(* A deadline of 100 ms or 3 s passes with the tree, or the root, there.   *)
WaitExpires ==
    /\ mon.at = "wait" /\ mon.stage \notin {"hard", "kill"}
    /\ (~mon.exited /\ proc[Root].life # "zombie") \/ (seen.look = "done" /\ ~TreeEmpty)
    /\ mon' = [mon EXCEPT !.at = "signal", !.pass = 1, !.quiet = 0, !.raced = 0]
    /\ Looked /\ UNCHANGED <<host, proc>>

(* The last deadline, or an error of any read or signal.  Dropping the     *)
(* armed tree kills what it can reach and proves nothing; closing a        *)
(* Windows job kills its members.                                          *)
MonitorFails ==
    /\ mon.at \in {"watch", "signal", "wait"}
    /\ proc' = Deaths(Signalled(IF host.os = "windows" THEN Survivors
                                ELSE Grouped \cup Descendants(seen.tracked), "kill"))
    /\ mon' = Return("unconfirmed")
    /\ Looked /\ UNCHANGED host

(* Both readers reach end of file only when nobody holds the pipes.        *)
Drains ==
    /\ mon.at = "drain" /\ \A p \in Survivors : ~proc[p].piped
    /\ mon' = Return(IF VerifyAfterProcess THEN "ok" ELSE "unconfirmed")
    /\ UNCHANGED <<host, proc, seen>>

ReaderFails ==
    /\ mon.at = "drain"
    /\ mon' = Return("unconfirmed")
    /\ UNCHANGED <<host, proc, seen>>

(* The daemon dies: orphans go to init, a Windows job is closed with its   *)
(* last handle.                                                            *)
WorkerDies ==
    /\ mon.at # "down" /\ mon.boot < MaxBoots
    /\ LET killed == IF host.os = "windows" THEN Survivors ELSE {} IN
       proc' = [p \in Everyone |->
                   IF p \in killed \/ proc[p].life = "zombie" THEN Gone
                   ELSE [proc[p] EXCEPT !.parent = IF @ = "worker" \/ @ \in killed
                                                   THEN "init" ELSE @]]
    /\ mon' = [mon EXCEPT !.at = "down"]
    /\ seen' = [baseline |-> {}, tracked |-> {}, known |-> {}, listed |-> {}, look |-> "none", raced |-> FALSE]
    /\ UNCHANGED host

(* A restart.  In trusted mode the active-run marker (WorkerGuard) refuses *)
(* it when a run was under way.                                            *)
WorkerStarts ==
    /\ mon.at = "down"
    /\ Hostile \/ proc[Root].life = "unborn"
    /\ mon' = [mon EXCEPT !.at = "boot", !.boot = @ + 1, !.exited = FALSE, !.forced = FALSE,
                          !.stage = "settle", !.reason = "none", !.result = "none", !.quiet = 0,
                          !.raced = 0]
    /\ UNCHANGED <<host, proc, seen>>

-----------------------------------------------------------------------------

PtInit ==
    /\ \E os \in {"linux", "macos", "windows"}, policy \in {"none", "linux", "macos", "windows"},
          build \in {"release", "native_test"} :
          host = [os |-> os, policy |-> policy, build |-> build, bad |-> {},
                  receipt |-> "none", external |-> "none", tampered |-> 0]
    /\ proc = [p \in Everyone |-> IF p = Old THEN [Unborn EXCEPT !.life = "live", !.parent = "worker"]
                                  ELSE Unborn]
    /\ seen = [baseline |-> {}, tracked |-> {}, known |-> {}, listed |-> {}, look |-> "none", raced |-> FALSE]
    /\ mon = [at |-> "boot", boot |-> 1, stage |-> "settle", pass |-> 1, quiet |-> 0, raced |-> 0,
              exited |-> FALSE, forced |-> FALSE, reason |-> "none", result |-> "none"]

Looks == LinuxLists \/ LinuxReads \/ MacLooks \/ WindowsLooks
Monitor ==
    \/ RootExited \/ WatchesOn \/ Signals \/ RootReaped \/ SeesEmpty \/ SeesProcesses
    \/ WaitExpires \/ MonitorFails \/ Drains \/ ReaderFails
    \/ \E reason \in Stops : AskedToStop(reason)
RunProcess == RefusesToStart \/ Spawns \/ SpawnFails \/ Attaches \/ AttachFails
System ==
    \/ \E p \in Everyone : Exits(p) \/ Migrates(p) \/ \E q \in Kids : p \in Mine /\ Forks(p, q)
    \/ Tampers \/ WorkerDies
PtNext ==
    \/ System \/ Looks \/ Monitor \/ RunProcess
    \/ Reconciles \/ Claims \/ RunExternalGuard \/ WorkerStarts

PtSpec == PtInit /\ [][PtNext]_ptVars

-----------------------------------------------------------------------------
(* Properties.                                                             *)

(* What a returned "process tree terminated" is worth (process.rs 135-144, *)
(* 21-26; isolation.rs 940-966).  On Windows no descendant is left.  On    *)
(* macOS only one that left the group between two snapshots, before any of *)
(* them showed it, can be.  On Linux one can be left, however it           *)
(* daemonized, only if a process of the job ended between the two reads of *)
(* every look of the last window: all of Quiet + 1 after the root's own    *)
(* exit, one after a cancellation or a timeout.  Under the hostile policy  *)
(* nothing is ever left; and where no backend is available nothing starts, *)
(* whatever an external guard attested.                                    *)
ContainmentSound ==
    /\ mon.result = "ok" => \A p \in Survivors :
          /\ ~Hostile
          /\ \/ host.os = "macos" /\ ~proc[p].grouped /\ p \notin seen.known
             \/ host.os = "linux" /\ mon.raced > (IF mon.reason = "exited" THEN Quiet ELSE 0)
    /\ mon.result = "confirmed" => Survivors = {}
    /\ ~BackendAvailable => proc[Root].life = "unborn"

(* A child the worker had before the invocation is neither reaped nor      *)
(* signalled by the tracker: it ends by itself or with the worker's life   *)
(* (process.rs 1105-1126).                                                 *)
BaselineSpared ==
    [][proc'[Old] # proc[Old] => Exits(Old) \/ WorkerDies]_ptVars

-----------------------------------------------------------------------------
(* What comments and documents say and the code does not do: README,       *)
(* section 5.                                                              *)

(* The claim of ProcessContainment::ConfirmedEmpty for every reason, in    *)
(* particular after a cancellation or a timeout: "the complete managed     *)
(* tree was synchronously observed empty after termination" (process.rs    *)
(* 137-138), with "the same bounded quiescence check" as after the root's  *)
(* own exit (process.rs 777-778).                                          *)
TerminationProven ==
    mon.result = "ok" /\ host.os = "linux" => Survivors = {}
=============================================================================

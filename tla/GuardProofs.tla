----------------------------- MODULE GuardProofs -----------------------------
(***************************************************************************)
(* Proofs about WorkerGuard, for any number of daemons and runs, and about *)
(* ProcessTree (second half), for any set of descendants.                  *)
(*                                                                         *)
(* GuardCovers alone is not inductive: that Arm may write a marker, or     *)
(* that Clear may remove one, without uncovering a process depends on what *)
(* each place of a daemon's program says about the marker, and on no two   *)
(* daemons working on the same run.                                        *)
(***************************************************************************)
EXTENDS WorkerGuard, ProcessTree, TLAPS

Active == {"claimed", "armed", "work", "clear"}

(* What the place of a daemon says about marker, disk and its run.         *)
Located(d) ==
    /\ pc[d] \in Active => run[d] \in Runs /\ run[d] \notin queue
    /\ pc[d] \in {"armed", "work", "clear"} => marker = run[d]
    /\ pc[d] \in {"work", "clear"} => disk = run[d]
    /\ pc[d] = "clear" => run[d] \in acked /\ run[d] \notin alive

(* A claim hands a run to one daemon.                                      *)
Distinct ==
    \A d, e \in Daemons :
        pc[d] \in Active /\ pc[e] \in Active /\ run[d] = run[e] => d = e

IInv == TypeOK /\ GuardCovers /\ (\A d \in Daemons : Located(d)) /\ Distinct

(* At first no daemon runs and the workspace is empty.                     *)
LEMMA InitIInv == Init => IInv
  BY DEF Init, IInv, TypeOK, GuardCovers, Located, Distinct, Active, Places

(* Starting, polling and claiming write neither marker nor processes; a    *)
(* claim takes its run from the queue, where no working daemon's run is.   *)
LEMMA ClaimingOK ==
  ASSUME IInv, NEW d \in Daemons, Claiming(d)
  PROVE  IInv'
<1> USE DEF IInv, TypeOK, GuardCovers, Located, Distinct, Active, Places, Goto
<1>1. CASE Start(d)
  BY <1>1 DEF Start
<1>2. CASE Poll(d)
  BY <1>2 DEF Poll
<1>3. CASE ClaimNothing(d)
  BY <1>3 DEF ClaimNothing
<1>4. ASSUME NEW r \in Runs, Claim(d, r)
      PROVE  IInv'
  BY <1>4 DEF Claim
<1>5. ASSUME NEW r \in Runs, ClaimLost(d, r)
      PROVE  IInv'
  BY <1>5 DEF ClaimLost
<1> QED
  BY <1>1, <1>2, <1>3, <1>4, <1>5 DEF Claiming

(* The steps of run_guarded_assignment.                                    *)
LEMMA GuardedOK ==
  ASSUME IInv, NEW d \in Daemons, Guarded(d)
  PROVE  IInv'
<1> USE NoRunAssumption
    DEF IInv, TypeOK, GuardCovers, Located, Distinct, Active, Places, Goto
<1>1. CASE Arm(d)
  BY <1>1 DEF Arm
<1>2. CASE Armed(d)
  BY <1>2 DEF Armed
<1>3. CASE ArmFailed(d)
  BY <1>3 DEF ArmFailed
<1>4. CASE Spawn(d)
  BY <1>4 DEF Spawn
<1>5. CASE Reap(d)
  BY <1>5 DEF Reap
<1>11. CASE Overlook(d)
  BY <1>11 DEF Overlook
<1>6. CASE Succeed(d)
  BY <1>6 DEF Succeed
<1>7. CASE Fail(d)
  BY <1>7 DEF Fail
<1>8. CASE Clear(d)
  BY <1>8 DEF Clear
<1>9. CASE Cleared(d)
  BY <1>9 DEF Cleared
<1>10. CASE ClearFailed(d)
  BY <1>10 DEF ClearFailed
<1> QED
  BY <1>1, <1>2, <1>3, <1>4, <1>5, <1>6, <1>7, <1>8, <1>9, <1>10, <1>11
     DEF Guarded

(* Crashes, exits, power loss and the operator.                            *)
LEMMA HostOK ==
  ASSUME IInv,
         \/ \E d \in Daemons : Crash(d)
         \/ \E r \in Runs : Exit(r)
         \/ PowerLoss \/ Inspect
  PROVE  IInv'
<1> USE DEF IInv, TypeOK, GuardCovers, Located, Distinct, Active, Places, Goto
<1>1. ASSUME NEW d \in Daemons, Crash(d)
      PROVE  IInv'
  BY <1>1 DEF Crash
<1>2. ASSUME NEW r \in Runs, Exit(r)
      PROVE  IInv'
  BY <1>2 DEF Exit
<1>3. CASE PowerLoss
  BY <1>3 DEF PowerLoss
<1>4. CASE Inspect
  BY <1>4 DEF Inspect
<1> QED
  BY <1>1, <1>2, <1>3, <1>4

(* The inductive invariant holds in every reachable state.                 *)
THEOREM GuardInvariance == Spec => []IInv
<1>1. IInv /\ [Next]_vars => IInv'
  <2> SUFFICES ASSUME IInv, [Next]_vars
               PROVE  IInv'
    OBVIOUS
  <2>1. CASE Next
    BY <2>1, ClaimingOK, GuardedOK, HostOK DEF Next
  <2>2. CASE UNCHANGED vars
    BY <2>2 DEF vars, IInv, TypeOK, GuardCovers, Located, Distinct
  <2> QED
    BY <2>1, <2>2
<1> QED
  BY InitIInv, <1>1, PTL DEF Spec

(* No crash point uncovers a process: whenever a managed process is alive, *)
(* the marker names its run and is already on disk, so that run_forever    *)
(* and claim_loop refuse; only a process that its monitor took for gone    *)
(* may live on unmarked, after its run was acknowledged (TypeOK comes with *)
(* it).                                                                    *)
THEOREM ProcessesCovered == Spec => [](TypeOK /\ GuardCovers)
  BY GuardInvariance, PTL DEF IInv

(* However many daemons share the workspace and wherever they crash, only  *)
(* one of them works at a time, and beside it no process of another run    *)
(* lives but one that its monitor took for gone.                           *)
THEOREM WorkExclusive == Spec => []SoleWorker
<1>1. IInv => SoleWorker
  BY DEF IInv, TypeOK, GuardCovers, Located, Distinct, Active, SoleWorker
<1> QED
  BY GuardInvariance, <1>1, PTL

(* A durable marker is removed only after both receipts were acknowledged, *)
(* or by the operator on a quiet host (ActiveRunGuard::clear).             *)
THEOREM MarkerKept == Spec => MarkerRetained
<1> DEFINE Step == (marker \in Runs /\ disk = marker /\ marker' # marker) =>
                      \/ marker \in acked
                      \/ alive \cup stray = {} /\ \A d \in Daemons : pc[d] = "down"
<1>1. IInv /\ [Next]_vars => [Step]_vars
  <2> SUFFICES ASSUME IInv, Next, marker \in Runs, disk = marker,
                      marker' # marker
               PROVE  \/ marker \in acked
                      \/ alive \cup stray = {} /\ \A d \in Daemons : pc[d] = "down"
    BY DEF vars
  <2>1. (\E d \in Daemons : Arm(d) \/ Clear(d)) \/ PowerLoss \/ Inspect
    BY DEF Next, Claiming, Guarded, Start, Poll, Claim, ClaimLost,
           ClaimNothing, Armed, ArmFailed, Spawn, Reap, Overlook, Succeed,
           Fail, Cleared, ClearFailed, Crash, Exit
  <2>2. CASE \E d \in Daemons : Arm(d)
    BY <2>2, NoRunAssumption DEF Arm
  <2>3. CASE \E d \in Daemons : Clear(d)
    BY <2>3 DEF Clear, IInv, Located
  <2>4. CASE PowerLoss
    BY <2>4 DEF PowerLoss
  <2>5. CASE Inspect
    BY <2>5 DEF Inspect
  <2> QED
    BY <2>1, <2>2, <2>3, <2>4, <2>5
<1> QED
  BY GuardInvariance, <1>1, PTL DEF Spec, MarkerRetained

-----------------------------------------------------------------------------
(* The process tree.                                                       *)
(*                                                                         *)
(* ContainmentSound speaks of the moment run_process has returned.  What   *)
(* makes it true is spread over the looks before: which processes there    *)
(* can be at each place of the monitor, that the live ones form a tree     *)
(* with its top below the worker, and, on Linux, that in every empty look  *)
(* that missed a process a process of the job ended between its two reads. *)

Running == {"attach", "watch", "signal", "wait", "drain"}
Watching == {"watch", "signal", "wait"}
Lives == {"unborn", "live", "zombie", "gone"}
Process == [life : Lives, parent : Everyone \cup {"worker", "init"}, grouped : BOOLEAN,
            deaf : BOOLEAN, piped : BOOLEAN, mine : BOOLEAN, caged : BOOLEAN]
Platforms == {"linux", "macos", "windows"}

Host == [os : Platforms, policy : {"none"} \cup Platforms, build : {"release", "native_test"},
         bad : SUBSET {"control", "config", "receipt", "guard"},
         receipt : {"none", "clean", "attested", "stale", "foreign"},
         external : {"none", "valid", "refused"}, tampered : Nat]

Seen == [baseline : SUBSET Everyone, tracked : SUBSET Everyone, known : SUBSET Everyone,
         listed : SUBSET Everyone, look : {"none", "listed", "done"}, raced : BOOLEAN]

Monitors == [at : {"boot", "poll", "ready", "returned", "down"} \cup Running, boot : Nat,
             stage : {"settle", "soft", "hard", "term", "grace", "kill"}, pass : {1, 2},
             quiet : Nat, raced : Nat, exited : BOOLEAN, forced : BOOLEAN,
             reason : Stops \cup {"none", "exited"},
             result : {"none", "ok", "confirmed", "unconfirmed"}]

PtTypeOK == host \in Host /\ proc \in [Everyone -> Process] /\ seen \in Seen /\ mon \in Monitors

(* The older child is no part of the tree, and the tracker knows it.       *)
OldApart ==
    /\ proc[Old].parent \in {"worker", "init"}
    /\ ~proc[Old].mine /\ ~proc[Old].grouped /\ ~proc[Old].caged
    /\ Old \notin seen.tracked /\ Old \notin seen.known
    /\ /\ mon.at \in Watching \cup {"attach"}
       /\ proc[Old].life \in {"live", "zombie"}
       /\ proc[Old].parent = "worker" \/ host.os = "macos"
       => Old \in seen.baseline

(* Only descendants of a root that was spawned live, and they are the      *)
(* job's.                                                                  *)
Descent ==
    /\ \A p \in Everyone \ {Old} : Live(p) <=> proc[p].mine
    /\ proc[Root].life = "unborn" => \A k \in Kids : proc[k].life = "unborn"

(* Where in a daemon's life there can be processes at all.                 *)
Phases ==
    /\ mon.at \in Running => BackendAvailable /\ proc[Root].life # "unborn"
    /\ ~BackendAvailable => proc[Root].life = "unborn"
    /\ mon.at \in {"poll", "ready"} => Survivors = {}
    /\ ~Hostile /\ mon.at \in {"boot", "poll", "ready"} => proc[Root].life = "unborn"
    /\ ~Hostile /\ mon.at \in Running => seen.baseline \subseteq {Old}
    /\ seen.look # "none" => mon.at \in Watching
    /\ seen.look = "listed" => host.os = "linux"
    /\ mon.at \in {"boot", "poll", "ready", "attach", "down"} =>
          seen.known = {} /\ seen.tracked = {}
    /\ mon.result # "none" => mon.at \in {"returned", "down"}
    /\ mon.result = "confirmed" => Survivors = {}

(* Once the root has exited it is gone, and only the stages with a         *)
(* quiescence window follow; after the last stage no signal is sent.       *)
Exited ==
    /\ mon.reason = "exited" =>
          /\ mon.at \in {"signal", "wait", "drain", "returned", "down"}
          /\ mon.at \in {"signal", "wait", "drain"} =>
                /\ proc[Root].life = "gone"
                /\ mon.stage \in {"settle", "soft", "hard"}
    /\ mon.at = "signal" => mon.stage \notin {"hard", "kill"}

(* The live processes form a tree below the worker: a set of them always   *)
(* has a member whose parent is outside of it.                             *)
Rooted ==
    host.os = "linux" /\ ~Hostile /\ mon.at \in Running =>
        /\ \A p \in Survivors : proc[p].parent \in Survivors \cup {"worker"}
        /\ \A T \in SUBSET Survivors : T # {} => \E p \in T : proc[p].parent \notin T

(* How many looks of the window a race must have spoilt.                   *)
LooksMissed == IF mon.reason = "exited" THEN Quiet ELSE 0

(* A tree that hides from an empty look pays with a process that ends      *)
(* during it.                                                              *)
LooksPaid ==
    host.os = "linux" /\ ~Hostile /\ Survivors # {} =>
        /\ mon.at = "drain" => mon.raced > LooksMissed
        /\ mon.at = "wait" =>
             /\ mon.raced = mon.quiet
             /\ seen.look = "listed" =>
                   seen.raced \/ \E t \in seen.listed \ {Old} : Live(t) /\ proc[t].parent = "worker"
             /\ seen.look = "done" /\ seen.tracked = {} => seen.raced

(* On macOS what was seen stays known, and is dead when a snapshot is      *)
(* empty; only what left the group unseen escapes.                         *)
Escaped(p) == ~proc[p].grouped /\ p \notin seen.known

SnapshotsKnow ==
    host.os = "macos" /\ ~Hostile /\ mon.at \in Running =>
        /\ \A p \in seen.known : proc[p].life # "unborn"
        /\ seen.tracked \subseteq seen.known
        /\ mon.at \in Watching /\ seen.look = "done" /\ seen.tracked = {} =>
              \A p \in seen.known : ~Live(p)
        /\ mon.at = "drain" => \A p \in Survivors : Escaped(p)

(* The job object holds every process of the job.                          *)
JobCounts == host.os = "windows" /\ mon.at = "drain" => Survivors = {}

(* What the result is worth.                                               *)
Settled ==
    mon.result = "ok" =>
        \/ Survivors = {}
        \/ ~Hostile /\ host.os = "linux" /\ mon.raced > LooksMissed
        \/ ~Hostile /\ host.os = "macos" /\ \A p \in Survivors : Escaped(p)

PtInv ==
    /\ PtTypeOK /\ OldApart /\ Descent /\ Phases /\ Exited /\ Rooted
    /\ LooksPaid /\ SnapshotsKnow /\ JobCounts /\ Settled

(* Every change of the process table but a fork and the spawn lets the     *)
(* tree fade: nobody comes to life, and who lives on keeps its group and   *)
(* its owner.                                                              *)
Fades ==
    \A p \in Everyone :
        /\ proc'[p].life = "live" =>
              proc[p].life = "live" /\ proc'[p].grouped = proc[p].grouped
        /\ proc'[p].mine <=> proc[p].mine /\ proc'[p].life = "live"
        /\ proc'[p].life = "unborn" <=> proc[p].life = "unborn"
        /\ proc[p].life \in {"zombie", "gone"} => proc'[p].life \in {"zombie", "gone"}
        /\ proc[p].life = "gone" => proc'[p].life = "gone"

(* On Linux an orphan goes to the worker, and nobody else changes parents. *)
Adopts ==
    \A p \in Everyone :
        /\ proc'[p].life = "live" => proc'[p].parent \in {proc[p].parent, "worker"}
        /\ /\ proc'[p].life = "live" /\ proc[p].parent \in Everyone
           /\ proc[proc[p].parent].life = "live" /\ proc'[proc[p].parent].life # "live"
           => proc'[p].parent = "worker"

(* A step that looks at nothing notes the death of one of the job's        *)
(* processes during a look.                                                *)
Notices ==
    /\ seen'.baseline = seen.baseline /\ seen'.tracked = seen.tracked
    /\ seen'.known = seen.known /\ seen'.listed = seen.listed /\ seen'.look = seen.look
    /\ seen.raced => seen'.raced
    /\ seen.look = "listed" /\ (\E p \in Survivors : proc'[p].life # "live") => seen'.raced

(* The platform, the build and the policy of a host never change.          *)
HostSame == host'.os = host.os /\ host'.policy = host.policy /\ host'.build = host.build

(* What the worker may kill or reap is the job's.                          *)
OldSame == proc'[Old] = proc[Old]

(* A root, its descendants and the older child are different processes.    *)
LEMMA Identities ==
    /\ Everyone = Kids \cup {Root, Old} /\ Root \in Everyone /\ Old \in Everyone
    /\ Root # Old /\ Root \notin Kids /\ Old \notin Kids
    /\ "worker" \notin Everyone /\ "init" \notin Everyone
  BY ProcessTreeAssumption DEF Everyone

(* Deaths of live processes, on any platform.                              *)
LEMMA DeathsFade ==
  ASSUME PtTypeOK, Descent, OldApart, NEW D \in SUBSET Everyone,
         \A p \in D : proc[p].life = "live", proc' = Deaths(D)
  PROVE  /\ proc' \in [Everyone -> Process]
         /\ Fades
         /\ host.os = "linux" /\ mon.at # "down" => Adopts
         /\ Old \notin D => OldSame
<1> USE Identities
<1>1. proc \in [Everyone -> Process]
  BY DEF PtTypeOK
<1>h. Heir \in {"worker", "init"} /\ (host.os = "linux" /\ mon.at # "down" => Heir = "worker")
  BY DEF Heir
<1> DEFINE par(p) == IF proc[p].parent \in D THEN Heir ELSE proc[p].parent
<1>2. ASSUME NEW p \in Everyone, p \notin D
      PROVE  proc'[p] = [proc[p] EXCEPT !.parent = par(p)]
  BY <1>2 DEF Deaths
<1>3. ASSUME NEW p \in D
      PROVE  proc'[p] \in {Zombie, Gone}
  BY DEF Deaths
<1>4. /\ Zombie \in Process /\ Zombie.life = "zombie" /\ ~Zombie.mine
      /\ Gone \in Process /\ Gone.life = "gone" /\ ~Gone.mine
  BY DEF Zombie, Gone, Unborn, Process, Lives
<1>5. ASSUME NEW p \in Everyone
      PROVE  par(p) \in Everyone \cup {"worker", "init"}
  BY <1>1, <1>h DEF Process
<1> HIDE DEF par
<1>6. ASSUME NEW p \in Everyone, p \notin D
      PROVE  /\ proc'[p] \in Process /\ proc'[p].parent = par(p)
             /\ proc'[p].life = proc[p].life /\ proc'[p].mine = proc[p].mine
             /\ proc'[p].grouped = proc[p].grouped
  <2>1. proc[p] \in Process
    BY <1>1
  <2>2. par(p) \in Everyone \cup {"worker", "init"}
    BY <1>5
  <2>3. proc'[p] = [proc[p] EXCEPT !.parent = par(p)]
    BY <1>2, <1>6
  <2> QED BY <2>1, <2>2, <2>3 DEF Process
<1>7. DOMAIN proc' = Everyone /\ proc' = [p \in Everyone |-> proc'[p]]
  BY DEF Deaths
<1>8. proc' \in [Everyone -> Process]
  BY <1>3, <1>4, <1>6, <1>7
<1>9. Fades
  <2> SUFFICES ASSUME NEW p \in Everyone
               PROVE  /\ proc'[p].life = "live" =>
                            proc[p].life = "live" /\ proc'[p].grouped = proc[p].grouped
                      /\ proc'[p].mine <=> proc[p].mine /\ proc'[p].life = "live"
                      /\ proc'[p].life = "unborn" <=> proc[p].life = "unborn"
                      /\ proc[p].life \in {"zombie", "gone"} => proc'[p].life \in {"zombie", "gone"}
                      /\ proc[p].life = "gone" => proc'[p].life = "gone"
    BY DEF Fades
  <2>1. CASE p \in D
    BY <2>1, <1>3, <1>4
  <2>2. CASE p \notin D
    <3>1. proc[p].mine => proc[p].life = "live"
      BY DEF Descent, OldApart, Live
    <3> QED BY <2>2, <3>1, <1>6
  <2> QED BY <2>1, <2>2
<1>10. ASSUME host.os = "linux", mon.at # "down" PROVE Adopts
  <2> SUFFICES ASSUME NEW p \in Everyone, proc'[p].life = "live"
               PROVE  /\ proc'[p].parent \in {proc[p].parent, "worker"}
                      /\ /\ proc[p].parent \in Everyone
                         /\ proc[proc[p].parent].life = "live"
                         /\ proc'[proc[p].parent].life # "live"
                         => proc'[p].parent = "worker"
    BY DEF Adopts
  <2>1. p \notin D
    BY <1>3, <1>4
  <2>2. proc'[p].parent = par(p)
    BY <2>1, <1>6
  <2>3. par(p) \in {proc[p].parent, "worker"}
    BY <1>10, <1>h DEF par
  <2>4. ASSUME proc[p].parent \in Everyone, proc[proc[p].parent].life = "live",
               proc'[proc[p].parent].life # "live"
        PROVE  par(p) = "worker"
    <3>1. CASE proc[p].parent \in D
      BY <3>1, <1>10, <1>h DEF par
    <3>2. CASE proc[p].parent \notin D
      BY <3>2, <2>4, <1>6
    <3> QED BY <3>1, <3>2
  <2> QED BY <2>2, <2>3, <2>4
<1>11. ASSUME Old \notin D PROVE OldSame
  <2>1. proc[Old].parent \notin D
    BY DEF OldApart
  <2>2. proc[Old] \in Process
    BY <1>1
  <2> QED BY <1>2, <1>11, <2>1, <2>2 DEF par, OldSame, Process
<1> QED BY <1>8, <1>9, <1>10, <1>11

(* The survivors are the live processes but the older child.               *)
LEMMA SurvivorsAre ==
  ASSUME PtTypeOK, OldApart, Descent
  PROVE  /\ \A p : p \in Survivors <=> p \in Everyone \ {Old} /\ proc[p].life = "live"
         /\ Survivors \subseteq Everyone \ {Old}
         /\ \A p \in Everyone : proc[p].mine => proc[p].life = "live"
  BY Identities DEF Survivors, Mine, Live, OldApart, Descent

(* A step that leaves the process table alone.                             *)
LEMMA StillFades ==
  ASSUME PtTypeOK, OldApart, Descent, proc' = proc
  PROVE  proc' \in [Everyone -> Process] /\ Fades /\ Adopts /\ OldSame
<1>1. \A p \in Everyone : proc[p].mine \in BOOLEAN
  BY DEF PtTypeOK, Process
<1> QED BY <1>1, SurvivorsAre DEF PtTypeOK, Fades, Adopts, OldSame

(* Zombies are reaped.                                                     *)
LEMMA ReapsFade ==
  ASSUME PtTypeOK, OldApart, Descent, NEW R \in SUBSET (Everyone \ {Old}),
         \A p \in R : proc[p].life = "zombie",
         proc' = [p \in Everyone |-> IF p \in R THEN Gone ELSE proc[p]]
  PROVE  proc' \in [Everyone -> Process] /\ Fades /\ Adopts /\ OldSame
<1> USE Identities
<1>1. Gone \in Process /\ Gone.life = "gone" /\ ~Gone.mine
  BY DEF Gone, Unborn, Process, Lives
<1>2. \A p \in Everyone : proc[p] \in Process /\ (proc[p].mine => proc[p].life = "live")
  BY SurvivorsAre DEF PtTypeOK
<1>3. proc' \in [Everyone -> Process] /\ OldSame
  BY <1>1, <1>2 DEF OldSame
<1>4. \A p \in Everyone : proc'[p] = IF p \in R THEN Gone ELSE proc[p]
  OBVIOUS
<1>5. ASSUME NEW p \in Everyone
      PROVE  /\ proc'[p].life = "live" =>
                   proc[p].life = "live" /\ proc'[p].grouped = proc[p].grouped
             /\ proc'[p].mine <=> proc[p].mine /\ proc'[p].life = "live"
             /\ proc'[p].life = "unborn" <=> proc[p].life = "unborn"
             /\ proc[p].life \in {"zombie", "gone"} => proc'[p].life \in {"zombie", "gone"}
             /\ proc[p].life = "gone" => proc'[p].life = "gone"
  <2>1. CASE p \in R
    BY <2>1, <1>1, <1>2, <1>4
  <2>2. CASE p \notin R
    <3>1. proc[p].mine \in BOOLEAN
      BY <1>2 DEF Process
    <3> QED BY <2>2, <3>1, <1>2, <1>4
  <2> QED BY <2>1, <2>2
<1>6. \A p \in Everyone : /\ proc'[p].life = "live" => proc'[p].parent = proc[p].parent
                          /\ proc[p].life = "live" => proc'[p].life = "live"
  BY <1>1, <1>4
<1> QED BY <1>3, <1>5, <1>6 DEF Fades, Adopts

(* The survivors of a fading tree are among those before.                  *)
LEMMA FadesKeep ==
  ASSUME PtTypeOK, OldApart, Descent, Fades, proc' \in [Everyone -> Process]
  PROVE  /\ Descent'
         /\ Survivors' \subseteq Survivors
         /\ \A p \in Survivors : proc'[p].life = "live" => p \in Survivors'
         /\ \A p \in Survivors' : proc'[p].grouped = proc[p].grouped
         /\ ~proc'[Old].mine
         /\ proc'[Root].life = "unborn" <=> proc[Root].life = "unborn"
         /\ proc[Root].life = "gone" => proc'[Root].life = "gone"
<1> USE Identities
<1>1. \A p \in Everyone \ {Old} : proc'[p].life = "live" <=> proc'[p].mine
  BY DEF Fades, Descent, Live
<1>2. ~proc'[Old].mine
  BY DEF OldApart, Fades
<1>3. Descent'
  BY <1>1 DEF Descent, Live, Fades
<1>4. Survivors' = {p \in Everyone : proc'[p].mine /\ proc'[p].life = "live"}
  BY DEF Survivors, Mine, Live
<1>5. Survivors = {p \in Everyone : proc[p].mine /\ proc[p].life = "live"}
  BY DEF Survivors, Mine, Live
<1> QED BY <1>2, <1>3, <1>4, <1>5 DEF Fades

(* A fading tree stays rooted in the worker.                               *)
LEMMA FadesRooted ==
  ASSUME PtTypeOK, OldApart, Descent, Rooted, Fades, proc' \in [Everyone -> Process],
         HostSame, mon'.at \in Running => mon.at \in Running,
         host.os = "linux" /\ mon.at \in Running /\ mon'.at \in Running => Adopts
  PROVE  Rooted'
<1> USE Identities
<1>0. SUFFICES ASSUME host'.os = "linux", (~Hostile)', mon'.at \in Running
               PROVE  /\ \A p \in Survivors' : proc'[p].parent \in Survivors' \cup {"worker"}
                      /\ \A T \in SUBSET Survivors' : T # {} => \E p \in T : proc'[p].parent \notin T
  BY DEF Rooted
<1>1. host.os = "linux" /\ ~Hostile /\ mon.at \in Running /\ Adopts
  BY <1>0 DEF HostSame, Hostile
<1>2. /\ \A p \in Survivors : proc[p].parent \in Survivors \cup {"worker"}
      /\ \A T \in SUBSET Survivors : T # {} => \E p \in T : proc[p].parent \notin T
  BY <1>1 DEF Rooted
<1>3. Survivors' \subseteq Survivors /\ \A p \in Survivors : proc'[p].life = "live" => p \in Survivors'
  BY FadesKeep
<1>4. Survivors \subseteq Everyone /\ \A p \in Survivors' : proc'[p].life = "live"
  BY DEF Survivors, Mine, Live
<1>5. ASSUME NEW p \in Survivors'
      PROVE  /\ proc'[p].parent \in Survivors' \cup {"worker"}
             /\ proc'[p].parent \in {proc[p].parent, "worker"}
  <2>1. p \in Everyone /\ p \in Survivors /\ proc'[p].life = "live"
    BY <1>3, <1>4
  <2>2. proc'[p].parent \in {proc[p].parent, "worker"}
    BY <1>1, <2>1 DEF Adopts
  <2>3. CASE proc[p].parent = "worker"
    BY <2>2, <2>3
  <2>4. CASE proc[p].parent \in Survivors
    <3>1. proc[p].parent \in Everyone /\ proc[proc[p].parent].life = "live"
      BY <2>4, <1>4 DEF Survivors, Live
    <3>2. CASE proc'[proc[p].parent].life = "live"
      BY <3>2, <2>4, <2>2, <1>3
    <3>3. CASE proc'[proc[p].parent].life # "live"
      BY <3>1, <3>3, <2>1, <2>2, <1>1 DEF Adopts
    <3> QED BY <3>2, <3>3
  <2> QED BY <2>1, <2>2, <2>3, <2>4, <1>2
<1>6. ASSUME NEW T \in SUBSET Survivors', T # {}
      PROVE  \E p \in T : proc'[p].parent \notin T
  <2>1. PICK p \in T : proc[p].parent \notin T
    BY <1>6, <1>2, <1>3
  <2>2. "worker" \notin T
    BY <1>3, <1>4
  <2> QED BY <2>1, <2>2, <1>5
<1> QED BY <1>5, <1>6

(* A death during a look pays for it.                                      *)
LEMMA FadesPaid ==
  ASSUME PtTypeOK, OldApart, Descent, LooksPaid, Fades, HostSame, Notices,
         proc' \in [Everyone -> Process],
         host.os = "linux" /\ mon.at # "down" => Adopts,
         mon'.at = mon.at, mon'.reason = mon.reason, mon'.quiet = mon.quiet, mon'.raced = mon.raced
  PROVE  LooksPaid'
<1> USE Identities
<1>0. SUFFICES ASSUME host'.os = "linux", (~Hostile)', Survivors' # {}
      PROVE  /\ mon.at = "drain" => mon.raced > LooksMissed
             /\ mon.at = "wait" =>
                  /\ mon.raced = mon.quiet
                  /\ seen.look = "listed" =>
                        \/ seen'.raced
                        \/ \E t \in seen.listed \ {Old} :
                              proc'[t].life = "live" /\ proc'[t].parent = "worker"
                  /\ seen.look = "done" /\ seen.tracked = {} => seen'.raced
  BY DEF LooksPaid, LooksMissed, Live, Notices
<1>1. Survivors # {}
  BY <1>0, FadesKeep
<1>2. /\ mon.at = "drain" => mon.raced > LooksMissed
      /\ mon.at = "wait" =>
            /\ mon.raced = mon.quiet
            /\ seen.look = "listed" =>
                  \/ seen.raced
                  \/ \E t \in seen.listed \ {Old} : proc[t].life = "live" /\ proc[t].parent = "worker"
            /\ seen.look = "done" /\ seen.tracked = {} => seen.raced
  BY <1>0, <1>1 DEF LooksPaid, HostSame, Hostile, Live
<1>3. ASSUME mon.at = "wait", seen.look = "listed",
             NEW t \in seen.listed \ {Old}, proc[t].life = "live", proc[t].parent = "worker"
      PROVE  seen'.raced \/ (proc'[t].life = "live" /\ proc'[t].parent = "worker")
  <2>1. t \in Survivors
    BY <1>3, SurvivorsAre DEF PtTypeOK, Seen
  <2>2. CASE proc'[t].life = "live"
    <3>1. Adopts /\ t \in Everyone
      BY <1>0, <1>3, <2>1, SurvivorsAre DEF HostSame
    <3> QED BY <2>2, <3>1, <1>3 DEF Adopts
  <2>3. CASE proc'[t].life # "live"
    BY <2>1, <2>3, <1>3 DEF Notices
  <2> QED BY <2>2, <2>3
<1> QED BY <1>2, <1>3 DEF Notices

(* A result keeps its worth.                                               *)
LEMMA FadesSettled ==
  ASSUME PtTypeOK, OldApart, Descent, Settled, Fades, HostSame,
         proc' \in [Everyone -> Process],
         mon'.result = mon.result, mon'.reason = mon.reason, mon'.raced = mon.raced,
         seen'.known \subseteq seen.known
  PROVE  Settled'
<1>1. Survivors' \subseteq Survivors /\ \A p \in Survivors' : proc'[p].grouped = proc[p].grouped
  BY FadesKeep
<1>2. \A p \in Survivors' : Escaped(p) => Escaped(p)'
  BY <1>1 DEF Escaped
<1> QED BY <1>1, <1>2 DEF Settled, HostSame, Hostile, LooksMissed

(* What was seen stays known.                                              *)
LEMMA FadesKnow ==
  ASSUME PtTypeOK, OldApart, Descent, SnapshotsKnow, Fades, HostSame,
         proc' \in [Everyone -> Process], mon'.at = mon.at, Notices
  PROVE  SnapshotsKnow'
<1>1. Survivors' \subseteq Survivors /\ \A p \in Survivors' : proc'[p].grouped = proc[p].grouped
  BY FadesKeep
<1>2. \A p \in Survivors' : Escaped(p) => Escaped(p)'
  BY <1>1 DEF Escaped, Notices
<1>3. seen.known \subseteq Everyone
  BY DEF PtTypeOK, Seen
<1> QED BY <1>1, <1>2, <1>3 DEF SnapshotsKnow, HostSame, Hostile, Fades, Live, Running, Watching, Notices

(* Phases speaks of the tree only by how much of it is left.               *)
LEMMA FadesPhases ==
  ASSUME PtTypeOK, OldApart, Descent, Phases, Fades, HostSame,
         proc' \in [Everyone -> Process], mon'.at = mon.at, mon'.result = mon.result,
         seen'.baseline = seen.baseline, seen'.look # "none" => mon.at \in Watching,
         seen'.look = "listed" => host.os = "linux",
         mon.at \notin Watching => Notices
  PROVE  Phases'
<1>1. Survivors' \subseteq Survivors /\ (proc'[Root].life = "unborn" <=> proc[Root].life = "unborn")
  BY FadesKeep
<1> QED BY <1>1 DEF Phases, HostSame, Hostile, BackendAvailable, Watching, Notices

(* What happens to the tree while the worker does nothing.                 *)
LEMMA QuietStep ==
  ASSUME PtInv, PtTypeOK', OldApart', Fades, HostSame, Notices, mon' = mon,
         host.os = "linux" /\ mon.at # "down" => Adopts
  PROVE  PtInv'
<1> USE DEF PtInv
<1>1. proc' \in [Everyone -> Process]
  BY DEF PtTypeOK
<1>2. Descent' /\ Survivors' \subseteq Survivors /\ (proc[Root].life = "gone" => proc'[Root].life = "gone")
  BY <1>1, FadesKeep
<1>3. Phases'
  BY <1>1, FadesPhases DEF Phases, Notices
<1>4. Exited'
  BY <1>2 DEF Exited
<1>5. Rooted'
  BY <1>1, FadesRooted DEF Running
<1>6. LooksPaid'
  BY <1>1, FadesPaid
<1>7. SnapshotsKnow'
  BY <1>1, FadesKnow
<1>8. JobCounts'
  BY <1>2 DEF JobCounts, HostSame
<1>9. Settled'
  BY <1>1, FadesSettled DEF Notices
<1> QED BY <1>2, <1>3, <1>4, <1>5, <1>6, <1>7, <1>8, <1>9

(* The older child, untouched.                                             *)
LEMMA OldUntouched ==
  ASSUME OldApart, OldSame, HostSame, Notices, mon' = mon
  PROVE  OldApart'
  BY DEF OldApart, OldSame, HostSame, Notices

(* Where nobody dies there is nothing to note.                             *)
LEMMA NothingToNote ==
  ASSUME PtTypeOK, OldApart, Descent, seen' = seen,
         \A p \in Everyone : proc[p].life = "live" => proc'[p].life = "live"
  PROVE  Notices
  BY SurvivorsAre DEF Notices

(* A process exits by itself.                                              *)
LEMMA ExitsOK ==
  ASSUME PtInv, NEW p \in Everyone, Exits(p)
  PROVE  PtInv'
<1> USE Identities DEF PtInv
<1>1. /\ {p} \in SUBSET Everyone /\ \A q \in {p} : proc[q].life = "live"
      /\ proc' = Deaths({p}) /\ UNCHANGED <<host, mon>>
      /\ seen' = IF seen.look = "listed" /\ p \in Mine THEN [seen EXCEPT !.raced = TRUE] ELSE seen
  BY DEF Exits, Live
<1>2. /\ proc' \in [Everyone -> Process] /\ Fades /\ (host.os = "linux" /\ mon.at # "down" => Adopts)
      /\ (Old \notin {p} => OldSame)
  BY <1>1, DeathsFade
<1>6. seen \in Seen
  BY DEF PtTypeOK
<1>3. PtTypeOK'
  <2>1. seen' \in Seen
    BY <1>1, <1>6 DEF Seen
  <2> QED BY <1>1, <1>2, <2>1 DEF PtTypeOK
<1>4. HostSame
  BY <1>1 DEF HostSame
<1>7. Notices
  <2>1. ASSUME NEW q \in Survivors, q # p PROVE proc'[q].life = "live"
    <3>1. q \in Everyone /\ proc[q].life = "live" /\ proc[q] \in Process
      BY SurvivorsAre DEF PtTypeOK
    <3> QED BY <3>1, <2>1, <1>1 DEF Deaths, Process
  <2>2. p \in Survivors => p \in Mine
    BY DEF Survivors
  <2>3. /\ seen'.baseline = seen.baseline /\ seen'.tracked = seen.tracked
        /\ seen'.known = seen.known /\ seen'.listed = seen.listed /\ seen'.look = seen.look
        /\ seen.raced => seen'.raced
        /\ seen.look = "listed" /\ p \in Mine => seen'.raced
    BY <1>1, <1>6 DEF Seen
  <2> QED BY <2>1, <2>2, <2>3 DEF Notices
<1>5. OldApart'
  <2>1. CASE p # Old
    BY <2>1, <1>1, <1>2, <1>4, <1>7, OldUntouched
  <2>2. CASE p = Old
    <3>1. proc[Old].parent \notin {Old} /\ proc[Old].life = "live"
      BY <1>1, <2>2 DEF OldApart
    <3>2. proc'[Old] = IF proc[Old].parent = "worker" THEN Zombie ELSE Gone
      BY <1>1, <2>2, <3>1 DEF Deaths
    <3>3. /\ Zombie.parent = "worker" /\ ~Zombie.mine /\ ~Zombie.grouped /\ ~Zombie.caged
          /\ Gone.parent = "init" /\ ~Gone.mine /\ ~Gone.grouped /\ ~Gone.caged
          /\ Zombie.life = "zombie" /\ Gone.life = "gone"
      BY DEF Zombie, Gone, Unborn
    <3> QED BY <1>1, <1>7, <3>1, <3>2, <3>3 DEF OldApart, Notices
  <2> QED BY <2>1, <2>2
<1> QED BY <1>1, <1>2, <1>3, <1>4, <1>5, <1>7, QuietStep

(* A process leaves its cgroup.                                            *)
LEMMA MigratesOK ==
  ASSUME PtInv, NEW p \in Everyone, Migrates(p)
  PROVE  PtInv' /\ OldSame
<1> USE Identities DEF PtInv
<1>1. /\ proc' = [proc EXCEPT ![p].caged = FALSE] /\ UNCHANGED <<host, seen, mon>>
      /\ proc[p].caged
  BY DEF Migrates
<1>2. p # Old
  BY <1>1 DEF OldApart
<1>3. \A q \in Everyone : proc[q] \in Process /\ (proc[q].mine => proc[q].life = "live")
  BY SurvivorsAre DEF PtTypeOK
<1>4. /\ proc' \in [Everyone -> Process] /\ \A q \in Everyone \ {p} : proc'[q] = proc[q]
      /\ proc'[p] = [proc[p] EXCEPT !.caged = FALSE]
  <2>1. proc \in [Everyone -> Process]
    BY DEF PtTypeOK
  <2>2. proc' = [proc EXCEPT ![p] = [proc[p] EXCEPT !.caged = FALSE]]
    BY <1>1, <2>1
  <2>3. proc[p] \in Process
    BY <1>3
  <2>4. [proc[p] EXCEPT !.caged = FALSE] \in Process
    BY <2>3 DEF Process
  <2> QED BY <2>1, <2>2, <2>4
<1>5. \A q \in Everyone : /\ proc'[q].life = proc[q].life /\ proc'[q].mine = proc[q].mine
                          /\ proc'[q].grouped = proc[q].grouped /\ proc'[q].parent = proc[q].parent
                          /\ proc[q].mine \in BOOLEAN
  BY <1>3, <1>4 DEF Process
<1>6. Fades /\ Adopts /\ OldSame /\ HostSame
  BY <1>1, <1>2, <1>3, <1>4, <1>5 DEF Fades, Adopts, OldSame, HostSame
<1>7. PtTypeOK'
  BY <1>1, <1>4 DEF PtTypeOK
<1>8. Notices
  BY <1>1, <1>5, NothingToNote
<1> QED BY <1>1, <1>6, <1>7, <1>8, OldUntouched, QuietStep

(* Somebody damages or repairs a file; an external guard is run.           *)
LEMMA HostStepsOK ==
  ASSUME PtInv, Tampers \/ RunExternalGuard
  PROVE  PtInv' /\ OldSame
<1> USE DEF PtInv
<1>1. UNCHANGED <<proc, seen, mon>>
  BY DEF Tampers, RunExternalGuard
<1>2. HostSame /\ PtTypeOK'
  <2>1. CASE Tampers
    <3>1. PICK d \in Damageable : host' = [host EXCEPT !.tampered = @ + 1,
                                     !.bad = IF d \in @ THEN @ \ {d} ELSE @ \cup {d}]
      BY <2>1 DEF Tampers
    <3>2. host \in Host /\ d \in {"control", "config", "receipt", "guard"}
      BY DEF Damageable, PtTypeOK
    <3> DEFINE bad == IF d \in host.bad THEN host.bad \ {d} ELSE host.bad \cup {d}
    <3>3. bad \in SUBSET {"control", "config", "receipt", "guard"} /\ host.tampered + 1 \in Nat
      BY <3>2 DEF Host
    <3>4. host' = [host EXCEPT !.tampered = host.tampered + 1, !.bad = bad]
      BY <3>1, <3>2 DEF Host
    <3> HIDE DEF bad
    <3>5. host' \in Host /\ HostSame
      BY <3>2, <3>3, <3>4 DEF Host, HostSame
    <3> QED BY <1>1, <3>5 DEF PtTypeOK
  <2>2. CASE RunExternalGuard
    <3>1. PICK exit \in GuardExits, r \in {"attested", "stale", "foreign"} :
          host' = [host EXCEPT
                      !.receipt = IF ExecutablePinned THEN r ELSE @,
                      !.external = IF exit = "success" /\ ReceiptAccepted(r)
                                   THEN "valid" ELSE "refused"]
      BY <2>2 DEF RunExternalGuard
    <3> DEFINE receipt == IF ExecutablePinned THEN r ELSE host.receipt
               external == IF exit = "success" /\ ReceiptAccepted(r) THEN "valid" ELSE "refused"
    <3>2. host \in Host
      BY DEF PtTypeOK
    <3>3. /\ receipt \in {"none", "clean", "attested", "stale", "foreign"}
          /\ external \in {"none", "valid", "refused"}
      BY <3>2 DEF Host
    <3>4. host' = [host EXCEPT !.receipt = receipt, !.external = external]
      BY <3>1, <3>2 DEF Host
    <3> HIDE DEF receipt, external
    <3>5. host' \in Host /\ HostSame
      BY <3>2, <3>3, <3>4 DEF Host, HostSame
    <3> QED BY <1>1, <3>5 DEF PtTypeOK
  <2> QED BY <2>1, <2>2
<1>3. Fades /\ Adopts /\ OldSame
  BY <1>1, StillFades
<1>4. Notices
  BY <1>1, NothingToNote
<1> QED BY <1>1, <1>2, <1>3, <1>4, OldUntouched, QuietStep

(* The daemon dies; its tree goes to init, a job object with it.           *)
LEMMA WorkerDiesOK ==
  ASSUME PtInv, WorkerDies
  PROVE  PtInv'
<1> USE Identities DEF PtInv
<1> DEFINE killed == IF host.os = "windows" THEN Survivors ELSE {}
<1>1. /\ proc' = [p \in Everyone |->
                   IF p \in killed \/ proc[p].life = "zombie" THEN Gone
                   ELSE [proc[p] EXCEPT !.parent = IF @ = "worker" \/ @ \in killed
                                                   THEN "init" ELSE @]]
      /\ mon' = [mon EXCEPT !.at = "down"]
      /\ seen' = [baseline |-> {}, tracked |-> {}, known |-> {}, listed |-> {}, look |-> "none",
                  raced |-> FALSE]
      /\ host' = host
  BY DEF WorkerDies
<1>2. killed \subseteq Survivors /\ Survivors \subseteq Everyone \ {Old}
  BY SurvivorsAre
<1> HIDE DEF killed
<1>3. \A p \in Everyone : proc[p] \in Process /\ (proc[p].mine => proc[p].life = "live")
  BY SurvivorsAre DEF PtTypeOK
<1>4. Gone \in Process /\ Gone.life = "gone" /\ ~Gone.mine /\ ~Gone.grouped /\ ~Gone.caged
      /\ Gone.parent = "init"
  BY DEF Gone, Unborn, Process, Lives
<1>5. ASSUME NEW p \in Everyone
      PROVE  \/ proc'[p] = Gone /\ proc[p].life \in {"live", "zombie"}
             \/ /\ proc'[p] \in Process /\ proc'[p].life = proc[p].life /\ proc'[p].mine = proc[p].mine
                /\ proc'[p].grouped = proc[p].grouped /\ proc'[p].caged = proc[p].caged
                /\ proc'[p].parent \in {proc[p].parent, "init"}
  <2>1. CASE p \in killed \/ proc[p].life = "zombie"
    BY <2>1, <1>1, <1>2, SurvivorsAre
  <2>2. CASE ~(p \in killed \/ proc[p].life = "zombie")
    <3> DEFINE q == IF proc[p].parent = "worker" \/ proc[p].parent \in killed
                    THEN "init" ELSE proc[p].parent
    <3>1. proc[p] \in Process
      BY <1>3
    <3>2. proc'[p] = [proc[p] EXCEPT !.parent = q]
      BY <1>1, <2>2
    <3>3. q \in {proc[p].parent, "init"} /\ q \in Everyone \cup {"worker", "init"}
      BY <3>1 DEF Process
    <3> HIDE DEF q
    <3> QED BY <3>1, <3>2, <3>3 DEF Process
  <2> QED BY <2>1, <2>2
<1>6. proc' \in [Everyone -> Process]
  BY <1>1, <1>4, <1>5
<1>7. PtTypeOK'
  BY <1>1, <1>6 DEF PtTypeOK, Seen, Monitors
<1>8. Fades
  <2> SUFFICES ASSUME NEW p \in Everyone
               PROVE  /\ proc'[p].life = "live" =>
                            proc[p].life = "live" /\ proc'[p].grouped = proc[p].grouped
                      /\ proc'[p].mine <=> proc[p].mine /\ proc'[p].life = "live"
                      /\ proc'[p].life = "unborn" <=> proc[p].life = "unborn"
                      /\ proc[p].life \in {"zombie", "gone"} => proc'[p].life \in {"zombie", "gone"}
                      /\ proc[p].life = "gone" => proc'[p].life = "gone"
    BY DEF Fades
  <2>1. proc[p].mine \in BOOLEAN
    BY <1>3 DEF Process
  <2> QED BY <2>1, <1>3, <1>4, <1>5
<1>9. HostSame
  BY <1>1 DEF HostSame
<1>10. /\ mon'.at = "down" /\ mon'.reason = mon.reason /\ mon'.result = mon.result
       /\ mon'.raced = mon.raced
       /\ seen'.tracked = {} /\ seen'.known = {} /\ seen'.look = "none"
  BY <1>1 DEF PtTypeOK
<1>11. OldApart'
  <2>1. proc'[Old].parent \in {"worker", "init"}
    BY <1>4, <1>5 DEF OldApart
  <2>2. ~proc'[Old].mine /\ ~proc'[Old].grouped /\ ~proc'[Old].caged
    BY <1>4, <1>5 DEF OldApart
  <2> QED BY <2>1, <2>2, <1>10 DEF OldApart, Watching
<1>12. /\ Descent' /\ Survivors' \subseteq Survivors
       /\ (proc'[Root].life = "unborn" <=> proc[Root].life = "unborn")
  BY <1>6, <1>8, FadesKeep
<1>13. Phases'
  BY <1>9, <1>10, <1>12 DEF Phases, HostSame, Hostile, BackendAvailable, Running, Watching
<1>14. Exited' /\ Rooted' /\ SnapshotsKnow' /\ JobCounts' /\ LooksPaid'
  BY <1>10 DEF Exited, Rooted, SnapshotsKnow, JobCounts, LooksPaid, Running
<1>15. Settled'
  BY <1>6, <1>8, <1>9, <1>10, FadesSettled
<1> QED BY <1>7, <1>11, <1>12, <1>13, <1>14, <1>15

(* A process of the job forks: there was a survivor before, and the new    *)
(* one has it as parent.                                                   *)
LEMMA ForksOK ==
  ASSUME PtInv, NEW p \in Everyone, NEW q \in Kids, p \in Mine, Forks(p, q)
  PROVE  PtInv' /\ OldSame
<1> USE Identities DEF PtInv
<1>1. /\ proc[p].life = "live" /\ proc[q].life = "unborn" /\ mon.at # "returned"
      /\ UNCHANGED <<host, seen, mon>>
  BY DEF Forks, Live
<1>2. PICK g \in BOOLEAN, i \in BOOLEAN, d \in BOOLEAN :
        /\ g => proc[p].grouped
        /\ proc' = [proc EXCEPT ![q] =
               [proc[p] EXCEPT !.parent = p, !.grouped = g, !.piped = i, !.deaf = d]]
  BY DEF Forks
<1>3. proc \in [Everyone -> Process] /\ proc[p] \in Process /\ p # q /\ q \in Everyone /\ q # Old
  BY <1>1 DEF PtTypeOK
<1>4. p \in Survivors /\ p # Old /\ proc[p].mine
  BY <1>1 DEF Survivors, Live, Mine, OldApart
<1> DEFINE new == [proc[p] EXCEPT !.parent = p, !.grouped = g, !.piped = i, !.deaf = d]
<1>5. /\ new \in Process /\ new.life = "live" /\ new.mine = TRUE /\ new.parent = p /\ new.grouped = g
  BY <1>1, <1>3, <1>4 DEF Process
<1>6. proc'[q] = new /\ \A x \in Everyone \ {q} : proc'[x] = proc[x]
  BY <1>2, <1>3
<1>7. proc' \in [Everyone -> Process]
  BY <1>2, <1>3, <1>5
<1> HIDE DEF new
<1>8. PtTypeOK' /\ HostSame /\ OldSame
  BY <1>1, <1>3, <1>6, <1>7 DEF PtTypeOK, HostSame, OldSame
<1>9. OldApart'
  BY <1>1, <1>6, <1>8, OldUntouched, NothingToNote
<1>10. Root # q /\ proc'[Root] = proc[Root] /\ proc[Root].life # "unborn"
  BY <1>1, <1>3, <1>4, <1>6 DEF Descent
<1>11. Descent'
  BY <1>5, <1>6, <1>10 DEF Descent, Live
<1>12. Survivors' = Survivors \cup {q} /\ q \notin Survivors
  BY <1>1, <1>3, <1>5, <1>6 DEF Survivors, Mine, Live
<1>13. Notices
  BY <1>1, <1>6, NothingToNote
<1>14. Phases'
  BY <1>1, <1>4, <1>10 DEF Phases, Hostile, BackendAvailable
<1>15. Exited'
  BY <1>1, <1>10 DEF Exited
<1>16. Rooted'
  <2>1. SUFFICES ASSUME host.os = "linux", ~Hostile, mon.at \in Running
                 PROVE  /\ \A x \in Survivors' : proc'[x].parent \in Survivors' \cup {"worker"}
                        /\ \A T \in SUBSET Survivors' : T # {} => \E x \in T : proc'[x].parent \notin T
    BY <1>1 DEF Rooted, Hostile
  <2>2. /\ \A x \in Survivors : proc[x].parent \in Survivors \cup {"worker"}
        /\ \A T \in SUBSET Survivors : T # {} => \E x \in T : proc[x].parent \notin T
    BY <2>1 DEF Rooted
  <2>3. Survivors \subseteq Everyone
    BY DEF Survivors, Mine
  <2>4. \A x \in Survivors : proc'[x] = proc[x]
    BY <1>6, <1>12, <2>3
  <2>5. \A x \in Survivors' : proc'[x].parent \in Survivors' \cup {"worker"}
    BY <1>4, <1>5, <1>6, <1>12, <2>2, <2>4
  <2>6. ASSUME NEW T \in SUBSET Survivors', T # {}
        PROVE  \E x \in T : proc'[x].parent \notin T
    <3>1. CASE T \subseteq {q}
      BY <3>1, <2>6, <1>3, <1>5, <1>6
    <3>2. CASE ~(T \subseteq {q})
      <4>1. T \ {q} \in SUBSET Survivors /\ T \ {q} # {}
        BY <3>2, <2>6, <1>12
      <4>2. PICK x \in T \ {q} : proc[x].parent \notin T \ {q}
        BY <4>1, <2>2
      <4>3. x \in Survivors /\ proc[x].parent # q /\ proc'[x] = proc[x]
        BY <4>1, <4>2, <2>2, <2>4, <1>3, <1>12
      <4> QED BY <4>2, <4>3
    <3> QED BY <3>1, <3>2
  <2> QED BY <2>5, <2>6
<1>17. LooksPaid'
  <2>1. Survivors # {}
    BY <1>4
  <2>2. \A t \in Everyone : proc[t].life = "live" => proc'[t] = proc[t]
    BY <1>1, <1>6
  <2>3. (\E t \in seen.listed \ {Old} : Live(t) /\ proc[t].parent = "worker")
        => \E t \in seen'.listed \ {Old} : proc'[t].life = "live" /\ proc'[t].parent = "worker"
    BY <1>1, <2>2 DEF Live, PtTypeOK, Seen
  <2> QED BY <1>1, <2>1, <2>3 DEF LooksPaid, LooksMissed, Hostile, Live
<1>18. SnapshotsKnow'
  <2>1. SUFFICES ASSUME host.os = "macos", ~Hostile, mon.at \in Running
                 PROVE  /\ \A x \in seen.known : proc'[x].life # "unborn"
                        /\ seen.tracked \subseteq seen.known
                        /\ mon.at \in Watching /\ seen.look = "done" /\ seen.tracked = {} =>
                              \A x \in seen.known : proc'[x].life # "live"
                        /\ mon.at = "drain" => \A x \in Survivors' : Escaped(x)'
    BY <1>1 DEF SnapshotsKnow, Hostile, Live
  <2>2. /\ \A x \in seen.known : proc[x].life # "unborn"
        /\ seen.tracked \subseteq seen.known
        /\ mon.at \in Watching /\ seen.look = "done" /\ seen.tracked = {} =>
              \A x \in seen.known : proc[x].life # "live"
        /\ mon.at = "drain" => \A x \in Survivors : Escaped(x)
    BY <2>1 DEF SnapshotsKnow, Live
  <2>3. q \notin seen.known /\ seen.known \subseteq Everyone
    BY <2>2, <1>1 DEF PtTypeOK, Seen
  <2>4. \A x \in seen.known : proc'[x] = proc[x]
    BY <2>3, <1>6
  <2>5. ASSUME mon.at = "drain", NEW x \in Survivors' PROVE Escaped(x)'
    <3>1. Escaped(p)
      BY <2>5, <2>2, <1>4
    <3>2. CASE x = q
      <4>1. ~g /\ q \notin seen'.known
        BY <3>1, <1>1, <1>2, <2>3 DEF Escaped
      <4> QED BY <3>2, <4>1, <1>5, <1>6 DEF Escaped
    <3>3. CASE x # q
      BY <3>3, <2>5, <2>2, <1>1, <1>6, <1>12, SurvivorsAre DEF Escaped
    <3> QED BY <3>2, <3>3
  <2> QED BY <2>2, <2>4, <2>5
<1>19. JobCounts'
  BY <1>1, <1>4 DEF JobCounts
<1>20. Settled'
  <2>1. \A x \in Survivors : Escaped(x) => Escaped(x)'
    BY <1>1, <1>6, <1>12, SurvivorsAre DEF Escaped
  <2>2. SUFFICES ASSUME mon.result = "ok"
                 PROVE  \/ ~Hostile /\ host.os = "linux" /\ mon.raced > LooksMissed
                        \/ ~Hostile /\ host.os = "macos" /\ \A x \in Survivors' : Escaped(x)'
    BY <1>1 DEF Settled, Hostile, LooksMissed
  <2>3. CASE ~Hostile /\ host.os = "linux" /\ mon.raced > LooksMissed
    BY <2>3
  <2>4. CASE ~Hostile /\ host.os = "macos" /\ \A x \in Survivors : Escaped(x)
    <3>1. mon.at = "down"
      BY <2>2, <1>1 DEF Phases
    <3>2. q \notin seen.known
      BY <2>4, <3>1 DEF Phases
    <3>3. Escaped(q)'
      BY <3>2, <2>4, <1>1, <1>2, <1>4, <1>5, <1>6 DEF Escaped
    <3> QED BY <2>1, <2>4, <3>3, <1>12
  <2> QED BY <2>2, <2>3, <2>4, <1>4 DEF Settled
<1> QED BY <1>8, <1>9, <1>11, <1>14, <1>15, <1>16, <1>17, <1>18, <1>19, <1>20

(* What lies below a set of the job's processes is the job's.              *)
LEMMA DescendantsSpare ==
  ASSUME PtTypeOK, OldApart, NEW S \in SUBSET Everyone, Old \notin S
  PROVE  S \subseteq Descendants(S) /\ Descendants(S) \subseteq Everyone /\ Old \notin Descendants(S)
<1> USE Identities
<1>1. S \subseteq Descendants(S) /\ Descendants(S) \subseteq Everyone
  BY DEF Descendants
<1>2. S \subseteq Everyone \ {Old} /\ ChildrenOf(Everyone \ {Old}) \subseteq Everyone \ {Old}
  BY DEF ChildrenOf, OldApart
<1>3. Old \notin Descendants(S)
  BY <1>2 DEF Descendants
<1> QED BY <1>1, <1>3

(* A look changes what the tracker knows, and may reap.                    *)
LEMMA LookStep ==
  ASSUME PtInv, PtTypeOK', OldApart', LooksPaid', SnapshotsKnow', Fades, Adopts,
         UNCHANGED <<host, mon>>, mon.at \in Watching, seen'.baseline = seen.baseline,
         seen'.look = "listed" => host.os = "linux"
  PROVE  PtInv'
<1> USE DEF PtInv
<1>1. proc' \in [Everyone -> Process] /\ HostSame
  BY DEF PtTypeOK, HostSame
<1>2. Descent' /\ Survivors' \subseteq Survivors /\ (proc[Root].life = "gone" => proc'[Root].life = "gone")
  BY <1>1, FadesKeep
<1>3. mon.at # "down"
  BY DEF Watching
<1>4. Phases'
  BY <1>1, <1>3, FadesPhases
<1>5. Exited'
  BY <1>2 DEF Exited
<1>6. Rooted'
  BY <1>1, FadesRooted
<1>7. JobCounts'
  BY <1>2 DEF JobCounts
<1>8. mon.result = "none"
  BY DEF Phases, Watching
<1>9. Settled'
  BY <1>8 DEF Settled
<1> QED BY <1>2, <1>4, <1>5, <1>6, <1>7, <1>9

(* First read: a survivor has an ancestor below the worker, and the list   *)
(* shows it.                                                               *)
LEMMA LinuxListsOK ==
  ASSUME PtInv, LinuxLists
  PROVE  PtInv' /\ OldSame
<1> USE Identities DEF PtInv
<1> DEFINE living == {p \in seen.tracked : Live(p)}
           children == {p \in Everyone : proc[p].parent = "worker"
                                         /\ proc[p].life \in {"live", "zombie"}}
<1>1. /\ host.os = "linux" /\ UNCHANGED <<host, proc, mon>> /\ mon.at \in Watching
      /\ seen' = [seen EXCEPT !.look = "listed", !.tracked = living, !.listed = children]
  BY DEF LinuxLists, LooksWanted, Watching
<1>2. living \subseteq seen.tracked /\ seen.tracked \subseteq Everyone /\ children \subseteq Everyone
  BY DEF PtTypeOK, Seen
<1>3. \A t \in Everyone : proc[t].life = "live" /\ proc[t].parent = "worker" => t \in children
  OBVIOUS
<1> HIDE DEF living, children
<1>4. /\ seen'.look = "listed" /\ seen'.tracked = living /\ seen'.listed = children
      /\ seen'.baseline = seen.baseline /\ seen'.known = seen.known /\ PtTypeOK'
  <2>1. seen \in Seen
    BY DEF PtTypeOK
  <2>2. /\ seen'.look = "listed" /\ seen'.tracked = living /\ seen'.listed = children
        /\ seen'.baseline = seen.baseline /\ seen'.known = seen.known /\ seen' \in Seen
    BY <2>1, <1>1, <1>2 DEF Seen
  <2> QED BY <2>2, <1>1 DEF PtTypeOK
<1>5. Fades /\ Adopts /\ OldSame
  BY <1>1, StillFades
<1>6. OldApart'
  BY <1>1, <1>2, <1>4 DEF OldApart
<1>7. SnapshotsKnow'
  BY <1>1 DEF SnapshotsKnow
<1>8. LooksPaid'
  <2>1. SUFFICES ASSUME ~Hostile, Survivors # {}, mon.at = "wait"
        PROVE  \E t \in seen'.listed \ {Old} : proc'[t].life = "live" /\ proc'[t].parent = "worker"
    BY <1>1, <1>4 DEF LooksPaid, Hostile, Live, Survivors, Mine, Watching
  <2>2. PICK t \in Survivors : proc[t].parent \notin Survivors
    BY <2>1, <1>1 DEF Rooted, Running
  <2>3. proc[t].parent = "worker"
    BY <2>1, <2>2, <1>1 DEF Rooted, Running
  <2>4. t \in Everyone \ {Old} /\ proc[t].life = "live"
    BY SurvivorsAre
  <2> QED BY <2>3, <2>4, <1>1, <1>3, <1>4
<1> QED BY <1>1, <1>4, <1>5, <1>6, <1>7, <1>8, LookStep

(* Second read: a listed child of the worker that still lives is tracked;  *)
(* the end of one that does not was noted.                                 *)
LEMMA LinuxReadsOK ==
  ASSUME PtInv, LinuxReads
  PROVE  PtInv' /\ OldSame
<1> USE Identities DEF PtInv
<1> DEFINE here == {p \in seen.listed : proc[p].parent = "worker"
                                        /\ proc[p].life \in {"live", "zombie"}}
           reaped == {p \in here : p # Root /\ Adopted(p) /\ ~Live(p)}
           found == {p \in here : p = Root \/ (Adopted(p) /\ Live(p))}
           below == Descendants(seen.tracked \cup found)
<1>1. /\ UNCHANGED <<host, mon>> /\ seen.look = "listed"
      /\ proc' = [p \in Everyone |-> IF p \in reaped THEN Gone ELSE proc[p]]
      /\ seen' = [seen EXCEPT !.look = "done", !.listed = {}, !.tracked = below]
  BY DEF LinuxReads, PtTypeOK
<1>2. mon.at \in Watching
  BY <1>1 DEF Phases
<1>3. Old \in here => Old \in seen.baseline
  BY <1>2 DEF OldApart
<1>4. reaped \in SUBSET (Everyone \ {Old}) /\ \A p \in reaped : proc[p].life = "zombie"
  BY <1>3 DEF Adopted, PtTypeOK, Seen, Live
<1>5. seen.tracked \cup found \in SUBSET Everyone /\ Old \notin seen.tracked \cup found
  BY <1>3 DEF Adopted, PtTypeOK, Seen, OldApart
<1>6. seen.tracked \cup found \subseteq below /\ below \subseteq Everyone /\ Old \notin below
  BY <1>5, DescendantsSpare
<1>7. \A t \in seen.listed : proc[t].life = "live" /\ proc[t].parent = "worker"
                             /\ t \notin seen.baseline => t \in found
  BY DEF Adopted, Live
<1> HIDE DEF here, reaped, found, below
<1>8. proc' \in [Everyone -> Process] /\ Fades /\ Adopts /\ OldSame
  BY <1>1, <1>4, ReapsFade
<1>9. /\ seen'.look = "done" /\ seen'.tracked = below /\ seen'.raced = seen.raced
      /\ seen'.baseline = seen.baseline /\ seen'.known = seen.known /\ PtTypeOK'
  <2>1. seen \in Seen
    BY DEF PtTypeOK
  <2>2. /\ seen'.look = "done" /\ seen'.tracked = below
        /\ seen'.baseline = seen.baseline /\ seen'.known = seen.known /\ seen' \in Seen
        /\ seen'.raced = seen.raced
    BY <2>1, <1>1, <1>6 DEF Seen
  <2> QED BY <2>2, <1>1, <1>8 DEF PtTypeOK
<1>10. OldApart'
  BY <1>1, <1>6, <1>8, <1>9 DEF OldApart, OldSame
<1>11. host.os = "linux"
  BY <1>1 DEF Phases
<1>12. SnapshotsKnow'
  BY <1>1, <1>11 DEF SnapshotsKnow
<1>13. LooksPaid'
  <2>1. SUFFICES ASSUME ~Hostile, Survivors' # {}, mon.at = "wait"
        PROVE  mon.raced = mon.quiet /\ (below = {} => seen.raced)
    BY <1>1, <1>2, <1>9 DEF LooksPaid, Hostile, Watching
  <2>2. Survivors # {}
    BY <2>1, <1>8, FadesKeep
  <2>3. /\ mon.raced = mon.quiet
        /\ \/ seen.raced
           \/ \E t \in seen.listed \ {Old} : proc[t].life = "live" /\ proc[t].parent = "worker"
    BY <2>1, <2>2, <1>1, <1>11 DEF LooksPaid, Live
  <2>4. seen.baseline \subseteq {Old}
    BY <2>1 DEF Phases, Running
  <2>5. (\E t \in seen.listed \ {Old} : proc[t].life = "live" /\ proc[t].parent = "worker")
        => below # {}
    BY <2>4, <1>6, <1>7
  <2> QED BY <2>3, <2>5
<1> QED BY <1>1, <1>2, <1>8, <1>9, <1>10, <1>12, <1>13, LookStep

(* A snapshot claims every live process it can connect to a known one.     *)
LEMMA MacLooksOK ==
  ASSUME PtInv, MacLooks
  PROVE  PtInv' /\ OldSame
<1> USE Identities DEF PtInv
<1> DEFINE claimed == {p \in Descendants(StillKnown) : Live(p) /\ p \notin seen.baseline}
           known == seen.known \cup claimed
<1>1. /\ host.os = "macos" /\ UNCHANGED <<host, proc, mon>> /\ mon.at \in Watching
      /\ seen' = [seen EXCEPT !.look = "done", !.tracked = claimed, !.known = known]
  BY DEF MacLooks, LooksWanted, Watching, PtTypeOK
<1>2. StillKnown \in SUBSET Everyone /\ Old \notin StillKnown
  BY DEF StillKnown, PtTypeOK, Seen, OldApart
<1>3. StillKnown \subseteq Descendants(StillKnown) /\ Descendants(StillKnown) \subseteq Everyone
      /\ Old \notin Descendants(StillKnown)
  BY <1>2, DescendantsSpare
<1>4. claimed \subseteq Everyone /\ Old \notin claimed /\ \A p \in claimed : proc[p].life = "live"
  BY <1>3 DEF Live
<1>5. known \subseteq Everyone /\ Old \notin known
  BY <1>4 DEF PtTypeOK, Seen, OldApart
<1>6. \A p \in seen.known : proc[p].life = "live" /\ p \notin seen.baseline => p \in claimed
  BY <1>3 DEF StillKnown, Live
<1>7. claimed \subseteq known /\ known = seen.known \cup claimed
  OBVIOUS
<1> HIDE DEF claimed, known
<1>8. /\ seen'.look = "done" /\ seen'.tracked = claimed /\ seen'.known = known
      /\ seen'.baseline = seen.baseline /\ PtTypeOK'
  <2>1. seen \in Seen
    BY DEF PtTypeOK
  <2>2. /\ seen'.look = "done" /\ seen'.tracked = claimed /\ seen'.known = known
        /\ seen'.baseline = seen.baseline /\ seen' \in Seen
    BY <2>1, <1>1, <1>4, <1>5 DEF Seen
  <2> QED BY <2>2, <1>1 DEF PtTypeOK
<1>9. Fades /\ Adopts /\ OldSame
  BY <1>1, StillFades
<1>10. OldApart'
  BY <1>1, <1>4, <1>5, <1>8 DEF OldApart
<1>11. LooksPaid'
  BY <1>1 DEF LooksPaid
<1>12. SnapshotsKnow'
  <2>1. SUFFICES ASSUME ~Hostile
        PROVE  /\ \A p \in known : proc[p].life # "unborn"
               /\ claimed \subseteq known
               /\ claimed = {} => \A p \in known : proc[p].life # "live"
    BY <1>1, <1>8 DEF SnapshotsKnow, Hostile, Live, Watching
  <2>2. \A p \in seen.known : proc[p].life # "unborn"
    BY <2>1, <1>1 DEF SnapshotsKnow, Watching, Running
  <2>3. seen.baseline \subseteq {Old} /\ Old \notin seen.known
    BY <2>1, <1>1 DEF Phases, Watching, Running, OldApart
  <2> QED BY <2>2, <2>3, <1>4, <1>6, <1>7
<1> QED BY <1>1, <1>8, <1>9, <1>10, <1>11, <1>12, LookStep

(* The job object is not looked at.                                        *)
LEMMA WindowsLooksOK ==
  ASSUME PtInv, WindowsLooks
  PROVE  PtInv' /\ OldSame
<1> USE DEF PtInv
<1>1. /\ host.os = "windows" /\ UNCHANGED <<host, proc, mon>> /\ mon.at \in Watching
      /\ seen' = [seen EXCEPT !.look = "done"]
  BY DEF WindowsLooks, LooksWanted, Watching
<1>2. /\ seen'.tracked = seen.tracked /\ seen'.known = seen.known
      /\ seen'.baseline = seen.baseline /\ PtTypeOK'
  BY <1>1 DEF PtTypeOK, Seen
<1>3. Fades /\ Adopts /\ OldSame
  BY <1>1, StillFades
<1>4. OldApart'
  BY <1>1, <1>2 DEF OldApart
<1>5. LooksPaid' /\ SnapshotsKnow'
  BY <1>1 DEF LooksPaid, SnapshotsKnow
<1> QED BY <1>1, <1>2, <1>3, <1>4, <1>5, LookStep

(* A step of the monitor that goes on watching, signalling or waiting.     *)
LEMMA WatchStep ==
  ASSUME PtInv, PtTypeOK', Exited', LooksPaid', Fades, OldSame, host' = host,
         host.os = "linux" => Adopts, mon.at \in Watching, mon'.at \in Watching, mon'.result = mon.result,
         seen' = seen \/ Looked
  PROVE  PtInv'
<1> USE DEF PtInv
<1>1. proc' \in [Everyone -> Process] /\ HostSame
  BY DEF PtTypeOK, HostSame
<1>2. /\ Descent' /\ Survivors' \subseteq Survivors
      /\ (proc'[Root].life = "unborn" <=> proc[Root].life = "unborn")
  BY <1>1, FadesKeep
<1>3. /\ seen'.baseline = seen.baseline /\ seen'.tracked = seen.tracked /\ seen'.known = seen.known
      /\ seen'.look \in {seen.look, "none"}
  BY DEF Looked, PtTypeOK, Seen
<1>4. OldApart'
  BY <1>3 DEF OldApart, OldSame
<1>5. mon.result = "none"
  BY DEF Phases, Watching
<1>6. Phases'
  BY <1>1, <1>2, <1>3, <1>5 DEF Phases, HostSame, Hostile, BackendAvailable, Watching, Running
<1>7. Rooted'
  BY <1>1, FadesRooted DEF Watching, Running
<1>8. SnapshotsKnow'
  <2>1. seen.known \subseteq Everyone
    BY DEF PtTypeOK, Seen
  <2>2. \A p \in seen.known : /\ proc[p].life # "unborn" => proc'[p].life # "unborn"
                              /\ proc[p].life # "live" => proc'[p].life # "live"
    BY <2>1 DEF Fades
  <2> QED BY <2>2, <1>3 DEF SnapshotsKnow, Hostile, Live, Watching, Running
<1>9. JobCounts' /\ Settled'
  BY <1>5 DEF JobCounts, Settled, Watching
<1> QED BY <1>2, <1>4, <1>6, <1>7, <1>8, <1>9

(* run_process returns: what is left of the invariant is the result.       *)
LEMMA ReturnStep ==
  ASSUME PtInv, PtTypeOK', Settled', Fades, OldSame, host' = host,
         mon.at \in Running \cup {"ready"}, NEW r \in {"ok", "confirmed", "unconfirmed"},
         mon' = Return(r), r = "confirmed" => Survivors = {},
         (seen' = seen /\ mon.at \notin Watching) \/ Looked
  PROVE  PtInv'
<1> USE DEF PtInv
<1>1. proc' \in [Everyone -> Process] /\ HostSame
  BY DEF PtTypeOK, HostSame
<1>2. /\ Descent' /\ Survivors' \subseteq Survivors
      /\ (proc'[Root].life = "unborn" <=> proc[Root].life = "unborn")
  BY <1>1, FadesKeep
<1>3. mon'.at = "returned" /\ mon'.result = r /\ mon'.reason = mon.reason
  BY DEF Return, PtTypeOK, Monitors
<1>4. /\ seen'.baseline = seen.baseline /\ seen'.tracked = seen.tracked /\ seen'.known = seen.known
      /\ seen'.look = "none"
  BY DEF Looked, PtTypeOK, Seen, Phases
<1>5. OldApart'
  BY <1>3, <1>4 DEF OldApart, OldSame, Watching
<1>6. Exited' /\ Rooted' /\ LooksPaid' /\ SnapshotsKnow' /\ JobCounts'
  BY <1>3 DEF Exited, Rooted, LooksPaid, SnapshotsKnow, JobCounts, Running
<1>7. Phases'
  BY <1>2, <1>3, <1>4 DEF Phases, Hostile, BackendAvailable, Running
<1> QED BY <1>2, <1>5, <1>6, <1>7

(* The result a drained run gets: under the policy the identity is idle,   *)
(* and otherwise what was shown when the tree was last seen.               *)
LEMMA VerifiedSettles ==
  ASSUME PtInv, UNCHANGED <<host, proc, seen>>, mon.at \in {"ready", "drain"},
         mon' = Return(IF VerifyAfterProcess THEN "ok" ELSE "unconfirmed")
  PROVE  Settled'
<1> USE DEF PtInv
<1>1. /\ mon'.reason = mon.reason /\ mon'.raced = mon.raced
      /\ (mon'.result = "ok" => VerifyAfterProcess)
  BY DEF Return, PtTypeOK, Monitors
<1>2. Survivors' = Survivors /\ Hostile' = Hostile /\ LooksMissed' = LooksMissed
      /\ \A p \in Survivors : Escaped(p)' = Escaped(p)
  BY <1>1 DEF Survivors, Mine, Live, Hostile, LooksMissed, Escaped
<1>3. SUFFICES ASSUME VerifyAfterProcess
               PROVE  \/ Survivors = {}
                      \/ ~Hostile /\ host.os = "linux" /\ mon.raced > LooksMissed
                      \/ ~Hostile /\ host.os = "macos" /\ \A p \in Survivors : Escaped(p)
  BY <1>1, <1>2 DEF Settled
<1>4. CASE Hostile
  BY <1>3, <1>4 DEF VerifyAfterProcess, IdentityIdle
<1>5. CASE mon.at = "ready"
  BY <1>5 DEF Phases
<1>6. CASE ~Hostile /\ mon.at = "drain"
  <2>1. host.os \in {"linux", "macos", "windows"}
    BY DEF PtTypeOK, Host, Platforms
  <2>2. CASE host.os = "linux"
    BY <2>1, <2>2, <1>6 DEF LooksPaid
  <2>3. CASE host.os = "macos"
    BY <2>3, <1>6 DEF SnapshotsKnow, Running
  <2>4. CASE host.os = "windows"
    BY <2>4, <1>6 DEF JobCounts
  <2> QED BY <2>1, <2>2, <2>3, <2>4
<1> QED BY <1>4, <1>5, <1>6

(* The steps that return without having touched a process.                 *)
LEMMA ReturnsOK ==
  ASSUME PtInv, RefusesToStart \/ SpawnFails \/ Drains \/ ReaderFails
  PROVE  PtInv' /\ OldSame
<1> USE DEF PtInv
<1>1. UNCHANGED <<host, proc, seen>> /\ mon.at \in {"ready", "drain"}
  BY DEF RefusesToStart, SpawnFails, Drains, ReaderFails
<1>2. Fades /\ OldSame
  BY <1>1, StillFades
<1>3. ASSUME NEW r \in {"ok", "confirmed", "unconfirmed"}, mon' = Return(r)
      PROVE  PtTypeOK' /\ mon'.result = r
  <2>1. mon \in Monitors
    BY DEF PtTypeOK
  <2>2. mon' \in Monitors /\ mon'.result = r
    BY <2>1, <1>3 DEF Monitors, Return
  <2> QED BY <2>2, <1>1 DEF PtTypeOK
<1>4. mon.at \in Running \cup {"ready"} /\ mon.at \notin Watching
  BY <1>1 DEF Running, Watching
<1>5. CASE RefusesToStart
  <2>1. mon' = Return("confirmed") /\ Survivors = {}
    BY <1>5 DEF RefusesToStart, Phases
  <2>2. Settled' /\ PtTypeOK'
    BY <2>1, <1>3 DEF Settled
  <2> QED BY <2>1, <2>2, <1>1, <1>2, <1>4, ReturnStep
<1>6. CASE ReaderFails
  <2>1. mon' = Return("unconfirmed")
    BY <1>6 DEF ReaderFails
  <2>2. Settled' /\ PtTypeOK'
    BY <2>1, <1>3 DEF Settled
  <2> QED BY <2>1, <2>2, <1>1, <1>2, <1>4, ReturnStep
<1>7. CASE SpawnFails \/ Drains
  <2> DEFINE r == IF VerifyAfterProcess THEN "ok" ELSE "unconfirmed"
  <2>1. mon' = Return(r) /\ Settled'
    BY <1>1, <1>7, VerifiedSettles DEF SpawnFails, Drains
  <2>2. r \in {"ok", "confirmed", "unconfirmed"} /\ r # "confirmed"
    OBVIOUS
  <2> HIDE DEF r
  <2>3. PtTypeOK'
    BY <2>1, <2>2, <1>3
  <2> QED BY <2>1, <2>2, <2>3, <1>1, <1>2, <1>4, ReturnStep
<1> QED BY <1>5, <1>6, <1>7

(* The windows of a wait: an empty look that starts one pays nothing.      *)
LEMMA FreshWindow ==
  ASSUME mon'.at # "drain", mon'.at = "wait" => mon'.quiet = 0 /\ mon'.raced = 0,
         seen'.look = "none"
  PROVE  LooksPaid'
  BY DEF LooksPaid

(* The root is reaped.                                                     *)
LEMMA RootGone ==
  ASSUME PtTypeOK, OldApart, Descent, proc[Root].life = "zombie",
         proc' = [proc EXCEPT ![Root] = Gone]
  PROVE  proc' \in [Everyone -> Process] /\ Fades /\ Adopts /\ OldSame /\ proc'[Root].life = "gone"
<1> USE Identities
<1>1. proc \in [Everyone -> Process]
  BY DEF PtTypeOK
<1>2. proc' = [p \in Everyone |-> IF p \in {Root} THEN Gone ELSE proc[p]]
  BY <1>1
<1>3. {Root} \in SUBSET (Everyone \ {Old}) /\ \A p \in {Root} : proc[p].life = "zombie"
  OBVIOUS
<1>4. proc' \in [Everyone -> Process] /\ Fades /\ Adopts /\ OldSame
  BY <1>2, <1>3, ReapsFade
<1>5. proc'[Root].life = "gone"
  BY <1>2 DEF Gone, Unborn
<1> QED BY <1>4, <1>5

(* Looking is over.                                                        *)
LEMMA LookedType ==
  ASSUME PtTypeOK, Looked
  PROVE  /\ seen' \in Seen /\ seen'.look = "none" /\ seen'.baseline = seen.baseline
         /\ seen'.tracked = seen.tracked /\ seen'.known = seen.known
  BY DEF PtTypeOK, Looked, Seen

(* The root exited, before or after it was asked to.                       *)
LEMMA RootStepsOK ==
  ASSUME PtInv, RootExited \/ RootReaped
  PROVE  PtInv' /\ OldSame
<1> USE DEF PtInv
<1>1. proc[Root].life = "zombie" /\ proc' = [proc EXCEPT ![Root] = Gone] /\ host' = host
  BY DEF RootExited, RootReaped
<1>2. proc' \in [Everyone -> Process] /\ Fades /\ Adopts /\ OldSame /\ proc'[Root].life = "gone"
  BY <1>1, RootGone
<1>3. mon \in Monitors
  BY DEF PtTypeOK
<1>4. CASE RootExited
  <2>1. /\ mon.at = "watch" /\ Looked
        /\ mon' = [mon EXCEPT !.at = "wait", !.stage = "settle", !.quiet = 0, !.raced = 0,
                              !.exited = TRUE, !.reason = "exited"]
    BY <1>4 DEF RootExited
  <2>2. /\ mon' \in Monitors /\ mon'.at = "wait" /\ mon'.stage = "settle" /\ mon'.quiet = 0
        /\ mon'.raced = 0 /\ mon'.result = mon.result
    BY <2>1, <1>3 DEF Monitors, Running
  <2>3. PtTypeOK' /\ seen'.look = "none"
    BY <1>1, <1>2, <2>1, <2>2, LookedType DEF PtTypeOK
  <2>4. LooksPaid'
    BY <2>2, <2>3, FreshWindow
  <2>5. Exited'
    BY <2>2, <1>2 DEF Exited
  <2>6. mon.at \in Watching /\ mon'.at \in Watching
    BY <2>1, <2>2 DEF Watching
  <2> QED BY <1>1, <1>2, <2>1, <2>2, <2>3, <2>4, <2>5, <2>6, WatchStep
<1>5. CASE RootReaped
  <2>1. mon.at = "wait" /\ mon' = [mon EXCEPT !.exited = TRUE] /\ seen' = seen
    BY <1>5 DEF RootReaped
  <2>2. /\ mon' \in Monitors /\ mon'.at = "wait" /\ mon'.stage = mon.stage /\ mon'.quiet = mon.quiet
        /\ mon'.result = mon.result /\ mon'.reason = mon.reason /\ mon'.raced = mon.raced
    BY <2>1, <1>3 DEF Monitors
  <2>3. PtTypeOK' /\ HostSame
    BY <1>1, <1>2, <2>1, <2>2 DEF PtTypeOK, HostSame
  <2>7. \A p \in Everyone : proc[p].life = "live" => proc'[p].life = "live"
    BY <1>1 DEF PtTypeOK
  <2>4. LooksPaid'
    BY <1>2, <2>1, <2>2, <2>3, <2>7, NothingToNote, FadesPaid
  <2>5. Exited'
    BY <2>1, <2>2, <1>2 DEF Exited
  <2>6. mon.at \in Watching /\ mon'.at \in Watching
    BY <2>1, <2>2 DEF Watching
  <2> QED BY <1>1, <1>2, <2>1, <2>2, <2>3, <2>4, <2>5, <2>6, WatchStep
<1> QED BY <1>4, <1>5

(* A look is judged, and nothing is signalled yet.                         *)
LEMMA JudgesOK ==
  ASSUME PtInv, WatchesOn \/ SeesProcesses \/ WaitExpires \/ (\E reason \in Stops : AskedToStop(reason))
  PROVE  PtInv' /\ OldSame
<1> USE DEF PtInv
<1>1. UNCHANGED <<host, proc>> /\ Looked /\ mon.at \in Watching
  BY DEF WatchesOn, SeesProcesses, WaitExpires, AskedToStop, Watching
<1>2. Fades /\ Adopts /\ OldSame
  BY <1>1, StillFades
<1>3. mon \in Monitors
  BY DEF PtTypeOK
<1>4. /\ mon' \in Monitors /\ mon'.at \in Watching /\ mon'.result = mon.result
      /\ mon'.at = "wait" => mon'.quiet = 0 /\ mon'.raced = 0
      /\ Exited'
  <2>1. CASE WatchesOn
    BY <2>1, <1>3 DEF WatchesOn, Watching, Exited
  <2>2. CASE SeesProcesses
    <3>1. mon.at = "wait" /\ mon' = [mon EXCEPT !.quiet = 0, !.raced = 0]
      BY <2>2 DEF SeesProcesses
    <3>2. /\ mon' \in Monitors /\ mon'.at = "wait" /\ mon'.result = mon.result /\ mon'.quiet = 0
          /\ mon'.raced = 0 /\ mon'.reason = mon.reason /\ mon'.stage = mon.stage
      BY <3>1, <1>3 DEF Monitors
    <3> QED BY <3>1, <3>2, <1>1 DEF Watching, Exited
  <2>3. CASE WaitExpires
    <3>1. /\ mon.at = "wait" /\ mon.stage \notin {"hard", "kill"}
          /\ mon' = [mon EXCEPT !.at = "signal", !.pass = 1, !.quiet = 0, !.raced = 0]
      BY <2>3 DEF WaitExpires
    <3>2. /\ mon' \in Monitors /\ mon'.at = "signal" /\ mon'.result = mon.result
          /\ mon'.reason = mon.reason /\ mon'.stage = mon.stage
      BY <3>1, <1>3 DEF Monitors, Running
    <3> QED BY <3>1, <3>2, <1>1 DEF Watching, Exited
  <2>4. ASSUME NEW reason \in Stops, AskedToStop(reason)
        PROVE  /\ mon' \in Monitors /\ mon'.at \in Watching /\ mon'.result = mon.result
               /\ mon'.at = "wait" => mon'.quiet = 0 /\ mon'.raced = 0
               /\ Exited'
    <3>1. mon' = [mon EXCEPT !.at = "signal", !.stage = "term", !.pass = 1, !.reason = reason]
      BY <2>4 DEF AskedToStop
    <3>2. reason # "exited"
      BY ProcessTreeAssumption
    <3>3. /\ mon' \in Monitors /\ mon'.at = "signal" /\ mon'.result = mon.result
          /\ mon'.reason = reason /\ mon'.stage = "term"
      BY <3>1, <1>3 DEF Monitors, Running
    <3> QED BY <3>2, <3>3 DEF Watching, Exited
  <2> QED BY <2>1, <2>2, <2>3, <2>4
<1>5. PtTypeOK' /\ seen'.look = "none"
  BY <1>1, <1>4, LookedType DEF PtTypeOK
<1>6. LooksPaid'
  BY <1>4, <1>5, FreshWindow DEF Watching
<1> QED BY <1>1, <1>2, <1>4, <1>5, <1>6, WatchStep

(* Signals reach the tracked processes, the group or the job.              *)
LEMMA SignalsOK ==
  ASSUME PtInv, Signals
  PROVE  PtInv' /\ OldSame
<1> USE Identities DEF PtInv
<1> DEFINE sig == SignalOf(mon.stage)
           last == host.os # "linux" \/ mon.pass = 2
           targets == CASE host.os = "windows" -> Survivors
                        [] last -> seen.tracked \cup Grouped
                        [] OTHER -> seen.tracked
           hit == Signalled(targets, IF host.os = "windows" THEN "kill" ELSE sig)
<1>1. /\ mon.at = "signal" /\ proc' = Deaths(hit) /\ Looked /\ host' = host
      /\ mon' = IF last THEN [mon EXCEPT !.at = "wait", !.stage = After(mon.stage), !.quiet = 0,
                                       !.raced = 0]
                ELSE [mon EXCEPT !.pass = 2]
  <2>1. mon \in Monitors
    BY DEF PtTypeOK
  <2> QED BY <2>1 DEF Signals, Monitors
<1>2. targets \in {Survivors, seen.tracked \cup Grouped, seen.tracked}
  OBVIOUS
<1>3. targets \subseteq Everyone /\ Old \notin targets
  <2>1. seen.tracked \subseteq Everyone /\ Old \notin seen.tracked
    BY DEF PtTypeOK, Seen, OldApart
  <2>2. Grouped \subseteq Everyone /\ Old \notin Grouped
    BY DEF Grouped, OldApart
  <2>3. Survivors \subseteq Everyone /\ Old \notin Survivors
    BY SurvivorsAre
  <2> HIDE DEF targets
  <2> QED BY <1>2, <2>1, <2>2, <2>3
<1>4. hit \subseteq targets /\ \A p \in hit : proc[p].life = "live"
  BY DEF Signalled, Live
<1> HIDE DEF hit, targets
<1>5. /\ proc' \in [Everyone -> Process] /\ Fades /\ OldSame
      /\ (host.os = "linux" => Adopts)
  BY <1>1, <1>3, <1>4, DeathsFade
<1>6. mon \in Monitors /\ mon.stage \in {"settle", "soft", "term", "grace"}
  BY <1>1 DEF PtTypeOK, Monitors, Exited
<1>7. /\ After(mon.stage) \in {"soft", "hard", "grace", "kill"}
      /\ mon.stage \in {"settle", "soft"} => After(mon.stage) \in {"soft", "hard"}
  BY <1>6 DEF After
<1>8. /\ mon' \in Monitors /\ mon'.at \in {"wait", "signal"} /\ mon'.result = mon.result
      /\ mon'.reason = mon.reason
      /\ mon'.at = "wait" => mon'.quiet = 0 /\ mon'.raced = 0 /\ mon'.stage = After(mon.stage)
      /\ mon'.at = "signal" => mon'.stage = mon.stage
  <2>1. CASE last
    BY <2>1, <1>1, <1>6, <1>7 DEF Monitors, Running
  <2>2. CASE ~last
    BY <2>2, <1>1, <1>6 DEF Monitors
  <2> QED BY <2>1, <2>2
<1> HIDE DEF last
<1>9. PtTypeOK' /\ seen'.look = "none"
  BY <1>1, <1>5, <1>8, LookedType DEF PtTypeOK
<1>10. LooksPaid'
  BY <1>8, <1>9, FreshWindow
<1>11. proc[Root].life = "gone" => proc'[Root].life = "gone"
  BY <1>5, FadesKeep
<1>12. Exited'
  BY <1>1, <1>6, <1>7, <1>8, <1>11 DEF Exited
<1>13. mon.at \in Watching /\ mon'.at \in Watching
  BY <1>1, <1>8 DEF Watching
<1> QED
  BY <1>1, <1>5, <1>8, <1>9, <1>10, <1>12, <1>13, WatchStep

(* The last empty look of a window: a tree that is still there was raced   *)
(* in every one of them.                                                   *)
LEMMA SeesEmptyOK ==
  ASSUME PtInv, SeesEmpty
  PROVE  PtInv' /\ OldSame
<1> USE Identities DEF PtInv
<1>1. mon.at = "wait" /\ seen.look = "done" /\ TreeEmpty /\ Looked /\ UNCHANGED <<host, proc>>
  BY DEF SeesEmpty
<1>2. Fades /\ Adopts /\ OldSame /\ HostSame
  BY <1>1, StillFades DEF HostSame
<1>3. mon \in Monitors /\ mon.result = "none" /\ mon.quiet \in Nat /\ mon.raced \in Nat
  BY <1>1 DEF PtTypeOK, Phases, Monitors
<1>4. Survivors' = Survivors /\ Hostile' = Hostile
  BY <1>1 DEF Survivors, Mine, Live, Hostile
<1>5. seen' \in Seen /\ seen'.look = "none" /\ seen'.baseline = seen.baseline
      /\ seen'.tracked = seen.tracked /\ seen'.known = seen.known
  BY <1>1, LookedType
<1>6. mon.at \in Watching
  BY <1>1 DEF Watching
<1>7. host.os \in {"linux", "macos", "windows"}
  BY DEF PtTypeOK, Host, Platforms
<1>8. host.os \in {"linux", "macos"} => seen.tracked = {}
  BY <1>1 DEF TreeEmpty
<1>9. RacedLooks \in Nat /\ (host.os = "linux" /\ ~Hostile /\ Survivors # {}
                                => mon.raced = mon.quiet /\ RacedLooks = mon.quiet + 1)
  <2>1. host.os = "linux" /\ ~Hostile /\ Survivors # {} => mon.raced = mon.quiet /\ seen.raced
    BY <1>1, <1>8 DEF LooksPaid
  <2> QED BY <2>1, <1>3 DEF RacedLooks
<1>10. CASE mon.quiet < LooksRequired
  <2>1. mon' = [mon EXCEPT !.quiet = mon.quiet + 1, !.raced = RacedLooks]
    BY <1>10, <1>3 DEF SeesEmpty, Monitors
  <2>2. /\ mon' \in Monitors /\ mon'.at = "wait" /\ mon'.quiet = mon.quiet + 1
        /\ mon'.raced = RacedLooks
        /\ mon'.result = mon.result /\ mon'.reason = mon.reason /\ mon'.stage = mon.stage
    <3>1. mon.quiet + 1 \in Nat /\ RacedLooks \in Nat /\ mon \in Monitors
      BY <1>3, <1>9
    <3> QED BY <3>1, <2>1, <1>1 DEF Monitors
  <2>3. PtTypeOK' /\ Exited'
    BY <1>1, <1>5, <2>2 DEF PtTypeOK, Exited
  <2>4. LooksPaid'
    BY <1>1, <1>4, <1>5, <1>9, <2>2 DEF LooksPaid
  <2>5. mon'.at \in Watching
    BY <2>2 DEF Watching
  <2> QED BY <1>1, <1>2, <1>6, <2>2, <2>3, <2>4, <2>5, WatchStep
<1>11. CASE ~(mon.quiet < LooksRequired)
  <2>1. \E forced \in BOOLEAN : mon' = [mon EXCEPT !.at = "drain", !.forced = forced,
                                                     !.raced = RacedLooks]
    <3>1. mon' = [mon EXCEPT !.at = "drain", !.forced = mon.stage \in {"hard", "kill"},
                             !.raced = RacedLooks]
      BY <1>11 DEF SeesEmpty, Finished
    <3>2. (mon.stage \in {"hard", "kill"}) \in BOOLEAN
      OBVIOUS
    <3> QED BY <3>1, <3>2, Zenon
  <2>2. /\ mon' \in Monitors /\ mon'.at = "drain" /\ mon'.raced = RacedLooks
        /\ mon'.result = mon.result /\ mon'.reason = mon.reason /\ mon'.stage = mon.stage
    BY <2>1, <1>3, <1>9 DEF Monitors, Running
  <2>3. PtTypeOK' /\ Exited'
    BY <1>1, <1>5, <2>2 DEF PtTypeOK, Exited
  <2>4. OldApart'
    BY <1>1, <1>5, <2>2 DEF OldApart, Watching
  <2>5. proc' \in [Everyone -> Process]
    BY <2>3 DEF PtTypeOK
  <2>6. Descent'
    BY <2>5, <1>2, FadesKeep
  <2>7. Phases'
    BY <1>1, <1>3, <1>4, <1>5, <1>6, <2>2 DEF Phases, BackendAvailable, Running, Watching
  <2>8. Rooted'
    BY <1>1, <1>2, <2>2, <2>5, FadesRooted DEF Running
  <2>9. LooksPaid'
    <3>1. mon.reason = "exited" => mon.quiet >= Quiet /\ Quiet \in Nat
      <4>1. mon.reason = "exited" => mon.stage \in {"settle", "soft", "hard"}
        BY <1>1 DEF Exited
      <4> QED BY <4>1, <1>3, <1>11, ProcessTreeAssumption DEF LooksRequired
    <3>2. mon.quiet + 1 > LooksMissed
      BY <3>1, <1>3 DEF LooksMissed
    <3>3. LooksMissed' = LooksMissed
      BY <2>2 DEF LooksMissed
    <3> QED BY <3>2, <3>3, <1>1, <1>4, <1>9, <2>2 DEF LooksPaid
  <2>10. SnapshotsKnow'
    <3>1. SUFFICES ASSUME host.os = "macos", ~Hostile
          PROVE  /\ \A p \in seen.known : proc[p].life # "unborn"
                 /\ seen.tracked \subseteq seen.known
                 /\ \A p \in Survivors : ~proc[p].grouped /\ p \notin seen.known
      BY <1>1, <1>4, <1>5, <2>2 DEF SnapshotsKnow, Escaped, Watching
    <3>2. /\ \A p \in seen.known : proc[p].life # "unborn"
          /\ seen.tracked \subseteq seen.known
          /\ \A p \in seen.known : proc[p].life # "live"
      BY <3>1, <1>1, <1>6, <1>8 DEF SnapshotsKnow, Running, Live
    <3>3. Grouped = {}
      BY <3>1, <1>1 DEF TreeEmpty
    <3>4. \A p \in Survivors : p \in Everyone /\ proc[p].life = "live"
      BY SurvivorsAre
    <3>5. \A p \in Survivors : ~proc[p].grouped
      BY <3>3, <3>4 DEF Grouped, Live
    <3> QED BY <3>2, <3>4, <3>5
  <2>11. JobCounts'
    BY <1>1, <1>4 DEF JobCounts, TreeEmpty
  <2>12. Settled'
    BY <2>2, <1>3 DEF Settled
  <2> QED BY <1>2, <2>3, <2>4, <2>6, <2>7, <2>8, <2>9, <2>10, <2>11, <2>12
<1> QED BY <1>10, <1>11

(* An error ends the watch: what can be reached is killed.                 *)
LEMMA MonitorFailsOK ==
  ASSUME PtInv, MonitorFails
  PROVE  PtInv' /\ OldSame
<1> USE Identities DEF PtInv
<1> DEFINE reach == IF host.os = "windows" THEN Survivors
                    ELSE Grouped \cup Descendants(seen.tracked)
           hit == Signalled(reach, "kill")
<1>1. /\ mon.at \in Watching /\ proc' = Deaths(hit) /\ mon' = Return("unconfirmed")
      /\ Looked /\ host' = host
  BY DEF MonitorFails, Watching
<1>2. reach \subseteq Everyone /\ Old \notin reach
  <2>1. seen.tracked \in SUBSET Everyone /\ Old \notin seen.tracked
    BY DEF PtTypeOK, Seen, OldApart
  <2>2. Descendants(seen.tracked) \subseteq Everyone /\ Old \notin Descendants(seen.tracked)
    BY <2>1, DescendantsSpare
  <2>3. Grouped \subseteq Everyone /\ Old \notin Grouped
    BY DEF Grouped, OldApart
  <2>4. Survivors \subseteq Everyone /\ Old \notin Survivors
    BY SurvivorsAre
  <2> QED BY <2>2, <2>3, <2>4
<1> HIDE DEF reach
<1>3. hit \subseteq reach /\ \A p \in hit : proc[p].life = "live"
  BY DEF Signalled, Live
<1> HIDE DEF hit
<1>4. proc' \in [Everyone -> Process] /\ Fades /\ OldSame
  BY <1>1, <1>2, <1>3, DeathsFade
<1>5. mon \in Monitors
  BY DEF PtTypeOK
<1>6. mon' \in Monitors /\ mon'.result = "unconfirmed"
  BY <1>1, <1>5 DEF Monitors, Return
<1>7. PtTypeOK' /\ Settled'
  BY <1>1, <1>4, <1>6, LookedType DEF PtTypeOK, Settled
<1>8. mon.at \in Running \cup {"ready"}
  BY <1>1 DEF Watching, Running
<1> QED BY <1>1, <1>4, <1>7, <1>8, ReturnStep

(* The root is killed and waited for; an attach error proves nothing.      *)
LEMMA AttachFailsOK ==
  ASSUME PtInv, AttachFails
  PROVE  PtInv' /\ OldSame
<1> USE Identities DEF PtInv
<1> DEFINE D == Signalled({Root}, "kill")
           par(p) == IF proc[p].parent \in D THEN Heir ELSE proc[p].parent
<1>1. /\ mon.at = "attach" /\ proc' = [Deaths(D) EXCEPT ![Root] = Gone]
      /\ mon' = Return("unconfirmed") /\ UNCHANGED <<host, seen>>
  BY DEF AttachFails
<1>2. D \subseteq {Root}
  BY DEF Signalled
<1>3. Gone \in Process /\ Gone.life = "gone" /\ ~Gone.mine
  BY DEF Gone, Unborn, Process, Lives
<1>4. \A p \in Everyone : proc[p] \in Process /\ (proc[p].mine => proc[p].life = "live")
  BY SurvivorsAre DEF PtTypeOK
<1>5. ASSUME NEW p \in Everyone \ {Root}
      PROVE  proc'[p] = [proc[p] EXCEPT !.parent = par(p)] /\ par(p) \in Everyone \cup {"worker", "init"}
  <2>1. Deaths(D)[p] = [proc[p] EXCEPT !.parent = par(p)]
    BY <1>2 DEF Deaths
  <2>2. proc'[p] = Deaths(D)[p]
    BY <1>1 DEF Deaths
  <2>3. par(p) \in Everyone \cup {"worker", "init"}
    BY <1>4 DEF Process, Heir
  <2> QED BY <2>1, <2>2, <2>3
<1>6. proc'[Root] = Gone /\ proc' = [p \in Everyone |-> proc'[p]]
  BY <1>1 DEF Deaths
<1>7. OldSame
  <2>1. par(Old) = proc[Old].parent
    BY <1>2 DEF OldApart
  <2>2. proc'[Old] = [proc[Old] EXCEPT !.parent = proc[Old].parent]
    BY <1>5, <2>1
  <2> QED BY <2>2, <1>4 DEF OldSame, Process
<1> HIDE DEF D, par
<1>8. ASSUME NEW p \in Everyone \ {Root}
      PROVE  /\ proc'[p] \in Process
             /\ proc'[p].life = proc[p].life /\ proc'[p].mine = proc[p].mine
             /\ proc'[p].grouped = proc[p].grouped /\ proc[p].mine \in BOOLEAN
  <2>1. proc[p] \in Process
    BY <1>4
  <2>2. proc'[p] = [proc[p] EXCEPT !.parent = par(p)] /\ par(p) \in Everyone \cup {"worker", "init"}
    BY <1>5
  <2> QED BY <2>1, <2>2 DEF Process
<1>9. proc' \in [Everyone -> Process]
  BY <1>3, <1>6, <1>8
<1>10. proc[Root].life # "unborn"
  BY <1>1 DEF Phases, Running
<1>11. Fades
  BY <1>3, <1>4, <1>6, <1>8, <1>10 DEF Fades
<1>12. mon \in Monitors
  BY DEF PtTypeOK
<1>13. mon' \in Monitors /\ mon'.result = "unconfirmed"
  BY <1>1, <1>12 DEF Monitors, Return
<1>14. PtTypeOK' /\ Settled'
  BY <1>1, <1>9, <1>13 DEF PtTypeOK, Settled
<1>15. mon.at \in Running \cup {"ready"} /\ mon.at \notin Watching
  BY <1>1 DEF Watching, Running
<1> QED BY <1>1, <1>7, <1>11, <1>14, <1>15, ReturnStep

(* The tracker starts with the root.                                       *)
LEMMA AttachesOK ==
  ASSUME PtInv, Attaches
  PROVE  PtInv' /\ OldSame
<1> USE Identities DEF PtInv
<1>1. /\ mon.at = "attach" /\ UNCHANGED <<host, proc>>
      /\ seen' = [seen EXCEPT !.tracked = {Root}, !.known = {Root}]
      /\ mon' = [mon EXCEPT !.at = "watch"]
  BY DEF Attaches
<1>2. mon \in Monitors /\ seen \in Seen
  BY DEF PtTypeOK
<1>3. /\ mon' \in Monitors /\ mon'.at = "watch" /\ mon'.result = mon.result /\ mon'.reason = mon.reason
  BY <1>1, <1>2 DEF Monitors, Running
<1>4. /\ seen' \in Seen /\ seen'.tracked = {Root} /\ seen'.known = {Root}
      /\ seen'.baseline = seen.baseline /\ seen'.look = seen.look
  BY <1>1, <1>2 DEF Seen
<1>5. PtTypeOK'
  BY <1>1, <1>3, <1>4 DEF PtTypeOK
<1>6. proc' \in [Everyone -> Process] /\ Fades /\ Adopts /\ OldSame /\ HostSame
  BY <1>1, StillFades DEF HostSame
<1>7. seen.look = "none" /\ mon.result = "none" /\ proc[Root].life # "unborn" /\ mon.reason # "exited"
  BY <1>1 DEF Phases, Exited, Watching, Running
<1>8. OldApart'
  BY <1>1, <1>3, <1>4 DEF OldApart, Watching
<1>9. Descent' /\ Survivors' \subseteq Survivors
  BY <1>6, FadesKeep
<1>10. Phases'
  BY <1>1, <1>3, <1>4, <1>7, <1>9 DEF Phases, Hostile, BackendAvailable, Running, Watching
<1>11. Exited' /\ LooksPaid' /\ JobCounts' /\ Settled'
  BY <1>3, <1>7 DEF Exited, LooksPaid, JobCounts, Settled
<1>12. Rooted'
  BY <1>1, <1>6, FadesRooted DEF Running
<1>13. SnapshotsKnow'
  BY <1>1, <1>3, <1>4, <1>7 DEF SnapshotsKnow
<1> QED BY <1>5, <1>6, <1>8, <1>9, <1>10, <1>11, <1>12, <1>13

(* The baseline is taken and the root spawned: nothing of an earlier tree  *)
(* lives.                                                                  *)
LEMMA SpawnsOK ==
  ASSUME PtInv, Spawns
  PROVE  PtInv' /\ OldSame
<1> USE Identities DEF PtInv
<1> DEFINE before == {p \in Everyone : /\ proc[p].life \in {"live", "zombie"}
                                       /\ proc[p].parent = "worker" \/ host.os = "macos"}
<1>1. /\ mon.at = "ready" /\ LaunchAllowed /\ host' = host
      /\ seen' = [seen EXCEPT !.baseline = before] /\ mon' = [mon EXCEPT !.at = "attach"]
  BY DEF Spawns
<1>2. PICK d \in BOOLEAN : proc' = [proc EXCEPT ![Root] =
            [life |-> "live", parent |-> "worker", grouped |-> TRUE, deaf |-> d,
             piped |-> TRUE, mine |-> TRUE, caged |-> IdentitySwitched]]
  BY DEF Spawns
<1> DEFINE new == [life |-> "live", parent |-> "worker", grouped |-> TRUE, deaf |-> d,
                   piped |-> TRUE, mine |-> TRUE, caged |-> IdentitySwitched]
<1>3. new \in Process /\ new.life = "live" /\ new.mine = TRUE /\ new.parent = "worker"
  <2>1. IdentitySwitched \in BOOLEAN
    BY DEF IdentitySwitched, Hostile
  <2>2. \A c \in BOOLEAN :
          [life |-> "live", parent |-> "worker", grouped |-> TRUE, deaf |-> d,
           piped |-> TRUE, mine |-> TRUE, caged |-> c] \in Process
    BY DEF Process, Lives
  <2> QED BY <2>1, <2>2
<1>4. proc \in [Everyone -> Process] /\ mon \in Monitors /\ seen \in Seen
  BY DEF PtTypeOK
<1>5. proc' = [proc EXCEPT ![Root] = new]
  BY <1>2
<1> HIDE DEF new
<1>6. /\ proc' \in [Everyone -> Process] /\ proc'[Root] = new
      /\ \A p \in Everyone \ {Root} : proc'[p] = proc[p]
  BY <1>3, <1>4, <1>5
<1>7. /\ before \subseteq Everyone
      /\ (proc[Old].life \in {"live", "zombie"} /\ (proc[Old].parent = "worker" \/ host.os = "macos"))
         => Old \in before
  OBVIOUS
<1>8. ASSUME ~Hostile PROVE before \subseteq {Old}
  <2>1. proc[Root].life = "unborn"
    BY <1>1, <1>8 DEF Phases
  <2> QED BY <2>1 DEF Descent
<1> HIDE DEF before
<1>9. mon' \in Monitors /\ mon'.at = "attach" /\ mon'.result = mon.result /\ mon'.reason = mon.reason
  BY <1>1, <1>4 DEF Monitors, Running
<1>10. /\ seen' \in Seen /\ seen'.baseline = before /\ seen'.tracked = seen.tracked
       /\ seen'.known = seen.known /\ seen'.look = seen.look
  BY <1>1, <1>4, <1>7 DEF Seen
<1>11. PtTypeOK' /\ OldSame
  BY <1>1, <1>6, <1>9, <1>10 DEF PtTypeOK, OldSame
<1>12. OldApart'
  BY <1>1, <1>7, <1>10, <1>11 DEF OldApart, OldSame
<1>13. /\ Survivors = {} /\ seen.look = "none" /\ mon.result = "none" /\ mon.reason # "exited"
       /\ seen.known = {} /\ seen.tracked = {}
  BY <1>1 DEF Phases, Exited, Watching
<1>14. \A p \in Everyone \ {Old} : proc[p].life # "live" /\ ~proc[p].mine
  BY <1>13, SurvivorsAre
<1>15. Descent'
  BY <1>3, <1>6, <1>14 DEF Descent, Live
<1>16. Survivors' = {Root}
  BY <1>3, <1>6, <1>11, <1>12, <1>14 DEF Survivors, Mine, Live, OldApart
<1>17. BackendAvailable /\ (BackendAvailable' <=> BackendAvailable) /\ (Hostile' <=> Hostile)
  BY <1>1 DEF LaunchAllowed, ScopeHandedOver, VerifyAfterProcess, BackendAvailable, Hostile
<1>18. Phases'
  BY <1>3, <1>6, <1>8, <1>9, <1>10, <1>13, <1>17 DEF Phases, Running
<1>19. Exited' /\ LooksPaid' /\ JobCounts' /\ Settled'
  BY <1>9, <1>13 DEF Exited, LooksPaid, JobCounts, Settled
<1>20. Rooted'
  <2>1. proc'[Root].parent = "worker" /\ Root # "worker"
    BY <1>3, <1>6
  <2>2. \A T \in SUBSET {Root} : T # {} => T = {Root}
    OBVIOUS
  <2> QED BY <2>1, <2>2, <1>16 DEF Rooted
<1>21. SnapshotsKnow'
  BY <1>9, <1>10, <1>13 DEF SnapshotsKnow, Watching
<1> QED BY <1>11, <1>12, <1>15, <1>18, <1>19, <1>20, <1>21

(* A daemon between two runs.                                              *)
LEMMA IdleStep ==
  ASSUME PtInv, PtTypeOK', Fades, OldSame, HostSame, seen' = seen,
         seen.known = {}, seen.tracked = {}, seen.look = "none",
         mon'.at \in {"boot", "poll", "ready"}, mon'.result = "none", mon'.reason # "exited",
         mon'.at \in {"poll", "ready"} => Survivors' = {},
         ~Hostile => proc[Root].life = "unborn"
  PROVE  PtInv'
<1> USE DEF PtInv
<1>1. proc' \in [Everyone -> Process]
  BY DEF PtTypeOK
<1>2. Descent' /\ (proc'[Root].life = "unborn" <=> proc[Root].life = "unborn")
  BY <1>1, FadesKeep
<1>3. OldApart'
  BY DEF OldApart, OldSame, Watching
<1>4. Phases'
  BY <1>2 DEF Phases, HostSame, Hostile, BackendAvailable, Running
<1>5. Exited' /\ Rooted' /\ LooksPaid' /\ SnapshotsKnow' /\ JobCounts' /\ Settled'
  BY DEF Exited, Rooted, LooksPaid, SnapshotsKnow, JobCounts, Settled, Running
<1> QED BY <1>2, <1>3, <1>4, <1>5

(* The cgroup of a dead worker is emptied before anything is claimed.      *)
LEMMA ReconcilesOK ==
  ASSUME PtInv, Reconciles
  PROVE  PtInv' /\ OldSame
<1> USE Identities DEF PtInv
<1>1. /\ mon.at = "boot" /\ proc' = Deaths(Residual) /\ host' = ReceiptWritten
      /\ mon' = [mon EXCEPT !.at = "poll"] /\ seen' = seen /\ (Hostile => Residual = Survivors)
  BY DEF Reconciles
<1>2. Residual \in SUBSET Everyone /\ Old \notin Residual /\ \A p \in Residual : proc[p].life = "live"
  BY DEF Residual, OldApart, Live
<1>3. proc' \in [Everyone -> Process] /\ Fades /\ OldSame
  BY <1>1, <1>2, DeathsFade
<1>4. mon \in Monitors /\ host \in Host
  BY DEF PtTypeOK
<1>5. mon' \in Monitors /\ mon'.at = "poll" /\ mon'.result = mon.result /\ mon'.reason = mon.reason
  BY <1>1, <1>4 DEF Monitors
<1>6. host' \in Host /\ HostSame
  BY <1>1, <1>4 DEF Host, HostSame, ReceiptWritten
<1>7. PtTypeOK'
  BY <1>1, <1>3, <1>5, <1>6 DEF PtTypeOK
<1>8. /\ seen.known = {} /\ seen.tracked = {} /\ seen.look = "none" /\ mon.result = "none"
      /\ mon.reason # "exited" /\ (~Hostile => proc[Root].life = "unborn")
  BY <1>1 DEF Phases, Exited, Watching
<1>9. Survivors' = {}
  <2>1. Survivors' \subseteq Survivors /\ \A p \in Survivors' : proc'[p].life = "live"
    BY <1>3, FadesKeep DEF Survivors, Live
  <2>2. CASE Hostile
    <3>1. \A p \in Residual : proc'[p] \in {Zombie, Gone}
      BY <1>1, <1>2 DEF Deaths
    <3>2. Zombie.life = "zombie" /\ Gone.life = "gone"
      BY DEF Zombie, Gone, Unborn
    <3> QED BY <2>1, <2>2, <3>1, <3>2, <1>1
  <2>3. CASE ~Hostile
    <3>1. \A p \in Everyone \ {Old} : proc[p].life = "unborn"
      BY <2>3, <1>8 DEF Descent
    <3> QED BY <2>1, <3>1, SurvivorsAre
  <2> QED BY <2>2, <2>3
<1> QED BY <1>1, <1>3, <1>5, <1>6, <1>7, <1>8, <1>9, IdleStep

(* A claim, and the start of a daemon.                                     *)
LEMMA DaemonOK ==
  ASSUME PtInv, Claims \/ WorkerStarts
  PROVE  PtInv' /\ OldSame
<1> USE DEF PtInv
<1>1. UNCHANGED <<host, proc, seen>> /\ mon.at \in {"poll", "down"}
  BY DEF Claims, WorkerStarts
<1>2. Fades /\ OldSame /\ HostSame
  BY <1>1, StillFades DEF HostSame
<1>3. mon \in Monitors
  BY DEF PtTypeOK
<1>4. seen.known = {} /\ seen.tracked = {} /\ seen.look = "none"
  BY <1>1 DEF Phases, Watching
<1>5. /\ mon' \in Monitors /\ mon'.at \in {"boot", "ready"} /\ mon'.result = "none"
      /\ mon'.reason # "exited" /\ (mon'.at = "ready" => Survivors = {})
      /\ (~Hostile => proc[Root].life = "unborn")
  <2>1. CASE Claims
    <3>1. mon.at = "poll" /\ mon' = [mon EXCEPT !.at = "ready"]
      BY <2>1 DEF Claims
    <3>2. mon.result = "none" /\ mon.reason # "exited" /\ Survivors = {}
          /\ (~Hostile => proc[Root].life = "unborn")
      BY <3>1 DEF Phases, Exited
    <3> QED BY <3>1, <3>2, <1>3 DEF Monitors
  <2>2. CASE WorkerStarts
    <3>1. /\ Hostile \/ proc[Root].life = "unborn"
          /\ mon' = [mon EXCEPT !.at = "boot", !.boot = mon.boot + 1, !.exited = FALSE,
                       !.forced = FALSE, !.stage = "settle", !.reason = "none",
                       !.result = "none", !.quiet = 0, !.raced = 0]
      BY <2>2, <1>3 DEF WorkerStarts, Monitors
    <3>2. mon.boot + 1 \in Nat
      BY <1>3 DEF Monitors
    <3>3. mon' \in Monitors /\ mon'.at = "boot" /\ mon'.result = "none" /\ mon'.reason = "none"
      BY <3>1, <3>2, <1>3 DEF Monitors
    <3> QED BY <3>1, <3>3
  <2> QED BY <2>1, <2>2
<1>6. PtTypeOK' /\ Survivors' = Survivors
  BY <1>1, <1>5 DEF PtTypeOK, Survivors, Mine, Live
<1> QED BY <1>1, <1>2, <1>4, <1>5, <1>6, IdleStep

(* A worker comes up with one older child and no job.                      *)
LEMMA PtInitOK == PtInit => PtInv
<1> SUFFICES ASSUME PtInit PROVE PtInv
  OBVIOUS
<1> USE Identities
<1>1. PICK os \in {"linux", "macos", "windows"}, policy \in {"none", "linux", "macos", "windows"},
           build \in {"release", "native_test"} :
          host = [os |-> os, policy |-> policy, build |-> build, bad |-> {},
                  receipt |-> "none", external |-> "none", tampered |-> 0]
  BY DEF PtInit
<1>2. proc = [p \in Everyone |-> IF p = Old THEN [Unborn EXCEPT !.life = "live", !.parent = "worker"]
                                  ELSE Unborn]
  BY DEF PtInit
<1>3. seen = [baseline |-> {}, tracked |-> {}, known |-> {}, listed |-> {}, look |-> "none",
              raced |-> FALSE]
  BY DEF PtInit
<1>4. mon = [at |-> "boot", boot |-> 1, stage |-> "settle", pass |-> 1, quiet |-> 0, raced |-> 0,
             exited |-> FALSE, forced |-> FALSE, reason |-> "none", result |-> "none"]
  BY DEF PtInit
<1>5. host \in Host
  BY <1>1 DEF Host, Platforms
<1>6. /\ Unborn \in Process /\ [Unborn EXCEPT !.life = "live", !.parent = "worker"] \in Process
      /\ Unborn.life = "unborn" /\ ~Unborn.mine
  BY DEF Unborn, Process, Lives
<1>7. /\ proc[Old].life = "live" /\ proc[Old].parent = "worker" /\ ~proc[Old].mine
      /\ ~proc[Old].grouped /\ ~proc[Old].caged
  BY <1>2 DEF Unborn
<1>8. \A p \in Everyone \ {Old} : proc[p] = Unborn
  BY <1>2
<1>9. seen \in Seen /\ mon \in Monitors
  BY <1>3, <1>4 DEF Seen, Monitors
<1>10. PtTypeOK
  BY <1>2, <1>5, <1>6, <1>9 DEF PtTypeOK
<1>11. OldApart
  BY <1>3, <1>4, <1>7 DEF OldApart, Watching
<1>12. Descent
  BY <1>6, <1>8 DEF Descent, Live
<1>13. Survivors = {} /\ proc[Root].life = "unborn"
  BY <1>6, <1>7, <1>8 DEF Survivors, Mine
<1>14. Phases
  BY <1>3, <1>4, <1>13 DEF Phases, Running
<1>15. Exited /\ Rooted /\ LooksPaid /\ SnapshotsKnow /\ JobCounts /\ Settled
  BY <1>4 DEF Exited, Rooted, LooksPaid, SnapshotsKnow, JobCounts, Settled, Running
<1> QED BY <1>10, <1>11, <1>12, <1>14, <1>15 DEF PtInv

(* A step that does nothing.                                               *)
LEMMA PtStutters ==
  ASSUME PtInv, UNCHANGED ptVars
  PROVE  PtInv'
<1>1. UNCHANGED <<host, proc, seen, mon>> /\ PtTypeOK' /\ HostSame
  BY DEF ptVars, PtInv, PtTypeOK, HostSame
<1>2. Fades /\ Adopts /\ OldSame
  BY <1>1, StillFades DEF PtInv
<1>3. Notices
  BY <1>1, NothingToNote DEF PtInv
<1> QED BY <1>1, <1>2, <1>3, OldUntouched, QuietStep DEF PtInv

(* Every step keeps the invariant, and only an exit or the worker's death  *)
(* touches the older child.                                                *)
LEMMA PtSteps ==
  ASSUME PtInv, PtNext
  PROVE  PtInv' /\ (OldSame \/ Exits(Old) \/ WorkerDies)
<1>1. ASSUME NEW p \in Everyone, Exits(p)
      PROVE  PtInv' /\ (OldSame \/ Exits(Old))
  <2>1. PtInv'
    BY <1>1, ExitsOK
  <2>2. CASE p # Old
    <3>1. {p} \in SUBSET Everyone /\ (\A q \in {p} : proc[q].life = "live") /\ proc' = Deaths({p})
      BY <1>1 DEF Exits, Live
    <3>2. OldSame
      BY <2>2, <3>1, DeathsFade DEF PtInv
    <3> QED BY <2>1, <3>2
  <2> QED BY <1>1, <2>1, <2>2
<1>2. ASSUME System
      PROVE  PtInv' /\ (OldSame \/ Exits(Old) \/ WorkerDies)
  <2>1. ASSUME NEW p \in Everyone, Migrates(p) PROVE PtInv' /\ OldSame
    BY <2>1, MigratesOK
  <2>2. ASSUME NEW p \in Everyone, NEW q \in Kids, p \in Mine, Forks(p, q) PROVE PtInv' /\ OldSame
    BY <2>2, ForksOK
  <2>3. CASE Tampers
    BY <2>3, HostStepsOK
  <2>4. CASE WorkerDies
    BY <2>4, WorkerDiesOK
  <2> QED BY <1>1, <1>2, <2>1, <2>2, <2>3, <2>4 DEF System
<1>3. ASSUME Looks PROVE PtInv' /\ OldSame
  BY <1>3, LinuxListsOK, LinuxReadsOK, MacLooksOK, WindowsLooksOK DEF Looks
<1>4. ASSUME Monitor PROVE PtInv' /\ OldSame
  BY <1>4, RootStepsOK, JudgesOK, SignalsOK, SeesEmptyOK, MonitorFailsOK, ReturnsOK DEF Monitor
<1>5. ASSUME RunProcess PROVE PtInv' /\ OldSame
  BY <1>5, ReturnsOK, SpawnsOK, AttachesOK, AttachFailsOK DEF RunProcess
<1>6. ASSUME Reconciles \/ Claims \/ RunExternalGuard \/ WorkerStarts PROVE PtInv' /\ OldSame
  BY <1>6, ReconcilesOK, DaemonOK, HostStepsOK
<1> QED BY <1>2, <1>3, <1>4, <1>5, <1>6 DEF PtNext

(* The inductive invariant of the process tree.                            *)
THEOREM PtInvariance == PtSpec => []PtInv
<1>1. PtInv /\ [PtNext]_ptVars => PtInv'
  BY PtSteps, PtStutters
<1> QED BY PtInitOK, <1>1, PTL DEF PtSpec

(* For any number of processes and boots: what run_process returns is      *)
(* worth what ContainmentSound says.  A survivor of a trusted job on Linux *)
(* was raced in every look of the last window (process.rs 838-870), one on *)
(* macOS left the group unseen; there is none on Windows, none under the   *)
(* hostile policy, none before a start, and no start without a backend.    *)
THEOREM ContainmentHolds == PtSpec => []ContainmentSound
<1>1. PtInv => ContainmentSound
  <2> SUFFICES ASSUME PtInv PROVE ContainmentSound
    OBVIOUS
  <2>1. mon.result = "confirmed" => Survivors = {}
    BY DEF PtInv, Phases
  <2>2. ~BackendAvailable => proc[Root].life = "unborn"
    BY DEF PtInv, Phases
  <2>3. mon.result = "ok" => \A p \in Survivors :
           /\ ~Hostile
           /\ (host.os = "macos" /\ Escaped(p)) \/ (host.os = "linux" /\ mon.raced > LooksMissed)
    BY DEF PtInv, Settled
  <2> QED BY <2>1, <2>2, <2>3 DEF ContainmentSound, Escaped, LooksMissed
<1> QED BY <1>1, PtInvariance, PTL

(* A child the worker had before the invocation ends by itself or with the *)
(* worker's life (process.rs 1105-1126).                                   *)
THEOREM BaselineIsSpared == PtSpec => BaselineSpared
<1>1. PtInv /\ [PtNext]_ptVars => [proc'[Old] # proc[Old] => Exits(Old) \/ WorkerDies]_ptVars
  BY PtSteps DEF OldSame
<1> QED BY <1>1, PtInvariance, PTL DEF PtSpec, BaselineSpared
=============================================================================

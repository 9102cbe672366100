-------------------------- MODULE ProvisioningProofs --------------------------
(***************************************************************************)
(* Safety of provisioning, for every number of commands, faults, cycles    *)
(* and pairings: a computer is published Ready only when it was earned, a  *)
(* live pairing is always the one the journal names, and a removed         *)
(* computer leaves neither a password nor a live pairing behind.           *)
(*                                                                         *)
(* The argument follows the lock holder. What its driver call did to the   *)
(* world is remembered in the turn until the outcome is written, and the   *)
(* write takes effect only when the record is still the one the turn       *)
(* loaded; commands that interleave raise the revision and so void it.     *)
(***************************************************************************)
EXTENDS Provisioning, FiniteSetTheorems, TLAPS

-----------------------------------------------------------------------------
(* Shapes of the record and of the world.                                  *)

RecFields ==
    {"id", "rev", "cycle", "legacy", "step", "code", "retryable", "intent", "torn",
     "method", "remember", "pairing", "paired", "key", "approved", "inventory", "cred",
     "ref", "beat", "bound", "smoke"}

RowOK(r) ==
    /\ r = [f \in RecFields |-> r[f]]
    /\ r.id = "computer"
    /\ r.rev \in Nat
    /\ r.cycle \in 0..MaxCycle
    /\ r.step \in StepSet
    /\ r.intent \in Intents
    /\ r.pairing \in 0..MaxPairing

WorldOK(w) ==
    /\ w = [f \in {"host", "vault", "trans", "demolished", "ctl"} |-> w[f]]
    /\ w.host = [f \in {"key", "password", "staging", "enrollment", "worker", "cred"} |-> w.host[f]]
    /\ w.ctl = [f \in {"issued", "phase", "beat"} |-> w.ctl[f]]
    /\ w.ctl.issued \in [0..MaxCycle -> 0..MaxPairing]
    /\ w.ctl.phase \in [1..MaxPairing -> Phases]
    /\ w.host.cred \in 0..MaxPairing

Live(w, p) == w.ctl.phase[p] \in {"consumed", "ready"}
NoneLive(w) == \A p \in 1..MaxPairing : ~Live(w, p)
Good(w) ==
    /\ w.host.worker = "running"
    /\ w.host.cred # 0
    /\ w.ctl.phase[w.host.cred] = "ready"
Clean(w, c) == c \notin w.host.staging \cup w.host.enrollment

-----------------------------------------------------------------------------
(* The inductive invariant.                                                *)

\* The journal's row is a record that validates.
JournalOK == rec = NoComputer \/ (RowOK(rec) /\ Valid(rec))

\* A torn-down record has no live pairing left; no vault entry without a computer
\* that authenticates by password.
TornOK == rec # NoComputer /\ rec.torn => NoneLive(world)
VaultOK == rec = NoComputer \/ rec.method # "password" => world.vault = NoSecret

\* A smoke result is only held at the last two steps, and unless a teardown has begun
\* the worker it was earned on is still there; a Ready host has nothing of the cycle staged.
SmokeOK ==
    rec # NoComputer /\ rec.smoke # "absent" =>
        /\ rec.step \in {"SmokeCheck", "Ready"}
        /\ ~world.demolished => Good(world)
ReadyOK ==
    rec # NoComputer /\ rec.step = "Ready" /\ ~world.demolished => Clean(world, rec.cycle)

\* What the turn that is about to write its outcome was loaded with.
TurnLoaded ==
    turn.st = "commit" =>
        /\ rec # NoComputer
        /\ RowOK(turn.rec) /\ Valid(turn.rec)
        /\ turn.rec.rev <= rec.rev
        /\ rec.rev = turn.rec.rev => rec = turn.rec
        /\ turn.act = TurnAction(turn.rec)
        /\ turn.rec.intent \notin {"Resume", "Retry"}
        /\ ~AtBoundary(turn.rec)
        /\ ~(turn.rec.intent = "Rollback" /\ turn.rec.torn)

\* What its driver call has made true and nothing has undone since.
TurnDid ==
    turn.st = "commit" /\ turn.kind = "done" =>
        /\ turn.act \in {"Rollback", "Remove"} =>
                \A p \in 1..MaxPairing : p = turn.rec.pairing => ~Live(world, p)
        /\ turn.act = "ForgetCredential" => world.vault = NoSecret
        /\ turn.act = "IssueEnrollment" => turn.n \in 0..MaxPairing
        /\ (turn.act = "RunSmokeCheck" /\ rec.rev = turn.rec.rev /\ ~world.demolished)
                => Good(world)
        /\ (turn.act = "CleanupStaging" /\ rec.rev = turn.rec.rev /\ ~world.demolished)
                => Clean(world, turn.rec.cycle)

PvInv ==
    /\ WorldOK(world)
    /\ JournalOK
    /\ PairingJournaled
    /\ TornOK
    /\ VaultOK
    /\ SmokeOK
    /\ ReadyOK
    /\ TurnLoaded
    /\ TurnDid

-----------------------------------------------------------------------------
(* The steps and their order.                                              *)

(* The fourteen steps, each with its rank.                                 *)
LEMMA StepNames ==
    /\ StepSet = {"Draft", "SshConnecting", "HostKeyPending", "Authenticated", "Discovering",
            "CredentialStored", "KitStaged", "WorkerInstalled", "EnrollmentIssued", "Paired",
            "ServiceEnabled", "HeartbeatSeen", "SmokeCheck", "Ready"}
    /\ Rank("Draft") = 1 /\ Rank("SshConnecting") = 2 /\ Rank("HostKeyPending") = 3
    /\ Rank("Authenticated") = 4 /\ Rank("Discovering") = 5 /\ Rank("CredentialStored") = 6
    /\ Rank("KitStaged") = 7 /\ Rank("WorkerInstalled") = 8 /\ Rank("EnrollmentIssued") = 9
    /\ Rank("Paired") = 10 /\ Rank("ServiceEnabled") = 11 /\ Rank("HeartbeatSeen") = 12
    /\ Rank("SmokeCheck") = 13 /\ Rank("Ready") = 14
<1>1. Len(Steps) = 14 /\ DOMAIN Steps = 1..14
  BY DEF Steps
<1>2. /\ Steps[1] = "Draft" /\ Steps[2] = "SshConnecting" /\ Steps[3] = "HostKeyPending"
      /\ Steps[4] = "Authenticated" /\ Steps[5] = "Discovering" /\ Steps[6] = "CredentialStored"
      /\ Steps[7] = "KitStaged" /\ Steps[8] = "WorkerInstalled" /\ Steps[9] = "EnrollmentIssued"
      /\ Steps[10] = "Paired" /\ Steps[11] = "ServiceEnabled" /\ Steps[12] = "HeartbeatSeen"
      /\ Steps[13] = "SmokeCheck" /\ Steps[14] = "Ready"
  BY DEF Steps
<1>3. \A i \in 1..14 : \/ i = 1 \/ i = 2 \/ i = 3 \/ i = 4 \/ i = 5 \/ i = 6 \/ i = 7 \/ i = 8
                       \/ i = 9 \/ i = 10 \/ i = 11 \/ i = 12 \/ i = 13 \/ i = 14
  OBVIOUS
<1>4. /\ 1 \in 1..14 /\ 2 \in 1..14 /\ 3 \in 1..14 /\ 4 \in 1..14 /\ 5 \in 1..14 /\ 6 \in 1..14
      /\ 7 \in 1..14 /\ 8 \in 1..14 /\ 9 \in 1..14 /\ 10 \in 1..14 /\ 11 \in 1..14
      /\ 12 \in 1..14 /\ 13 \in 1..14 /\ 14 \in 1..14
  OBVIOUS
<1>5. \A x : x \in StepSet <=> \E i \in 1..14 : x = Steps[i]
  BY <1>1 DEF StepSet
<1>6. StepSet = {"Draft", "SshConnecting", "HostKeyPending", "Authenticated", "Discovering",
            "CredentialStored", "KitStaged", "WorkerInstalled", "EnrollmentIssued", "Paired",
            "ServiceEnabled", "HeartbeatSeen", "SmokeCheck", "Ready"}
  <2> HIDE DEF StepSet
  <2> QED BY <1>2, <1>3, <1>4, <1>5
<1>7. \A i, j \in 1..14 : Steps[i] = Steps[j] => i = j
  BY <1>2, <1>3
<1>8. ASSUME NEW i \in 1..14, NEW s, s = Steps[i]
      PROVE  Rank(s) = i
  <2>1. \E j \in 1..14 : Steps[j] = s
    BY <1>8
  <2>2. Rank(s) \in 1..14 /\ Steps[Rank(s)] = s
    BY <1>1, <2>1 DEF Rank
  <2> QED BY <1>7, <1>8, <2>2
<1>9. \A i \in 1..14 : Rank(Steps[i]) = i
  BY <1>8
<1>10. /\ Rank(Steps[1]) = 1 /\ Rank(Steps[2]) = 2 /\ Rank(Steps[3]) = 3 /\ Rank(Steps[4]) = 4
       /\ Rank(Steps[5]) = 5 /\ Rank(Steps[6]) = 6 /\ Rank(Steps[7]) = 7 /\ Rank(Steps[8]) = 8
       /\ Rank(Steps[9]) = 9 /\ Rank(Steps[10]) = 10 /\ Rank(Steps[11]) = 11
       /\ Rank(Steps[12]) = 12 /\ Rank(Steps[13]) = 13 /\ Rank(Steps[14]) = 14
  BY <1>4, <1>9
<1> QED BY <1>2, <1>6, <1>10

-----------------------------------------------------------------------------
(* What the driver's building blocks may change.                           *)

SecretsOnly(w, v) ==
    WorldOK(v) /\ v.host = w.host /\ v.ctl = w.ctl /\ v.demolished = w.demolished
HostOnly(w, v) ==
    WorldOK(v) /\ v.ctl = w.ctl /\ v.vault = w.vault /\ v.demolished = w.demolished
VaultKept(w, v, r) == r.method # "password" /\ w.vault = NoSecret => v.vault = NoSecret

\* No call makes a pairing live but the one its record names.
Reach(w, v, r) ==
    /\ WorldOK(v)
    /\ v.demolished = w.demolished
    /\ VaultKept(w, v, r)
    /\ \A p \in 1..MaxPairing : Live(v, p) => Live(w, p) \/ p = r.pairing

IsOutcome(o) == o = Outcome(o.w, o.kind, o.data, o.n, o.cost)

(* Secrets move between the session and the vault, and touch nothing else. *)
LEMMA SecretMoves ==
    ASSUME NEW w, WorldOK(w), NEW x, NEW y
    PROVE  SecretsOnly(w, [w EXCEPT !.vault = x, !.trans = y]) /\
           SecretsOnly(w, [w EXCEPT !.vault = x]) /\ SecretsOnly(w, [w EXCEPT !.trans = y])
           /\ [w EXCEPT !.vault = x, !.trans = y].vault = x
           /\ [w EXCEPT !.vault = x].vault = x /\ [w EXCEPT !.trans = y].vault = w.vault
  BY DEF SecretsOnly, WorldOK

(* Opening a session stores a secret only for a computer with a password.  *)
LEMMA OpenedSecrets ==
    ASSUME NEW w, WorldOK(w), NEW r
    PROVE  SecretsOnly(w, Opened(w, r)) /\ VaultKept(w, Opened(w, r), r)
<1>1. CASE Opened(w, r) = w
  BY <1>1 DEF SecretsOnly, VaultKept
<1>2. CASE /\ r.method = "password"
           /\ Opened(w, r) = StoreCredential(w, LoadAuthentication(w, r))
  <2> DEFINE a == LoadAuthentication(w, r)
             y == IF w.trans = a.secret THEN NoSecret ELSE w.trans
  <2>1. StoreCredential(w, a) = [w EXCEPT !.vault = a.secret, !.trans = y]
    BY DEF StoreCredential, WorldOK
  <2> HIDE DEF a, y
  <2>2. SecretsOnly(w, [w EXCEPT !.vault = a.secret, !.trans = y])
    BY SecretMoves
  <2> QED BY <1>2, <2>1, <2>2 DEF VaultKept, a
<1> QED BY <1>1, <1>2 DEF Opened

(* The four ways a call ends.                                              *)
LEMMA Endings ==
    ASSUME NEW w, NEW c, NEW n
    PROVE  /\ \A d : LET o == Done(w, c, d) IN IsOutcome(o) /\ o.w = w /\ o.kind = "done"
           /\ \A d : LET o == Fail(w, c, d) IN IsOutcome(o) /\ o.w = w /\ o.kind = "fail"
           /\ IsOutcome(Missing(w)) /\ Missing(w).w = w /\ Missing(w).kind = "credential"
           /\ IsOutcome(Pending(w)) /\ Pending(w).w = w /\ Pending(w).kind = "pending"
           /\ LET o == Named(w, n) IN IsOutcome(o) /\ o.w = w /\ o.kind = "done" /\ o.n = n
  BY DEF Done, Fail, Missing, Pending, Named, Outcome, IsOutcome

(* A failure leaves the world it names.                                    *)
LEMMA FailuresLeave ==
    ASSUME NEW w, NEW codes, NEW o \in Failures(w, codes)
    PROVE  o.w = w /\ o.kind = "fail" /\ IsOutcome(o)
  BY DEF Failures, Fail, Outcome, IsOutcome

(* A session changes secrets only, whatever it ends with.                  *)
LEMMA SessionOutcome ==
    ASSUME NEW w, WorldOK(w), NEW r, NEW b \in BOOLEAN, NEW s \in Session(w, r, b)
    PROVE  SecretsOnly(w, s.w) /\ VaultKept(w, s.w, r) /\ IsOutcome(s)
<1> DEFINE a == LoadAuthentication(w, r)
           c1 == MapSshError("HostKeyMismatch")
           c2 == MapSshError(RejectionOf(r.method))
           c3 == MapSshError(BreakOf(r.method))
<1>1. \/ s = Missing(w) \/ s \in Failures(w, Codes(HandshakeErrors))
      \/ s = Fail(w, c1, 0) \/ s = Fail(Invalidate(w, a), c2, 0)
      \/ s = Fail(Invalidate(w, a), c3, 1)
      \/ s = Done(w, "", 0) \/ s = Done(Opened(w, r), "", 0)
  <2>1. CASE a.from = "missing"
    BY <2>1 DEF Session
  <2>2. CASE a.from # "missing"
    <3>1. s \in Failures(w, Codes(HandshakeErrors)) \cup
              IF ~HostKeyPinned(w.host.key, r.key) THEN {Fail(w, c1, 0)}
              ELSE IF ~Accepts(w, r, a) THEN {Fail(Invalidate(w, a), c2, 0)}
              ELSE {Fail(Invalidate(w, a), c3, 1),
                    Done(IF b THEN Opened(w, r) ELSE w, "", 0)}
      BY <2>2, Zenon DEF Session
    <3> HIDE DEF a, c1, c2, c3
    <3>2. CASE b
      BY <3>1, <3>2
    <3>3. CASE ~b
      BY <3>1, <3>3
    <3> QED BY <3>2, <3>3
  <2> QED BY <2>1, <2>2
<1> HIDE DEF a, c1, c2, c3
<1>2. SecretsOnly(w, w) /\ VaultKept(w, w, r)
  BY DEF SecretsOnly, VaultKept
<1>3. SecretsOnly(w, Invalidate(w, a)) /\ VaultKept(w, Invalidate(w, a), r)
  BY SecretMoves DEF Invalidate, VaultKept
<1>4. /\ s.w = w \/ s.w = Invalidate(w, a) \/ s.w = Opened(w, r)
      /\ IsOutcome(s)
  <2>1. CASE s \in Failures(w, Codes(HandshakeErrors))
    BY <2>1, FailuresLeave
  <2>2. CASE s = Missing(w)
    BY <2>2, Endings
  <2>3. CASE s = Fail(w, c1, 0)
    BY <2>3, Endings
  <2>4. CASE s = Fail(Invalidate(w, a), c2, 0) \/ s = Fail(Invalidate(w, a), c3, 1)
    BY <2>4 DEF Fail, Outcome, IsOutcome
  <2>5. CASE s = Done(w, "", 0)
    BY <2>5 DEF Done, Outcome, IsOutcome
  <2>6. CASE s = Done(Opened(w, r), "", 0)
    BY <2>6 DEF Done, Outcome, IsOutcome
  <2> QED BY <1>1, <2>1, <2>2, <2>3, <2>4, <2>5, <2>6
<1> QED BY <1>2, <1>3, <1>4, OpenedSecrets

(* One remote operation: its answer, or a failure before or after it acted. *)
LEMMA RemoteOutcome ==
    ASSUME NEW w, WorldOK(w), NEW r, NEW codes, NEW acted, NEW answer,
           NEW o \in Remotely(w, r, codes, acted, answer)
    PROVE  \/ o = answer
           \/ o.kind # "done" /\ SecretsOnly(w, o.w) /\ VaultKept(w, o.w, r)
           \/ o.kind # "done" /\ o.w = acted
<1>1. PICK s \in Session(w, r, TRUE) :
          o \in (IF s.kind # "done" THEN {s}
                 ELSE {answer} \cup Failures(s.w, codes) \cup Failures(acted, codes))
  BY DEF Remotely
<1>2. SecretsOnly(w, s.w) /\ VaultKept(w, s.w, r)
  BY SessionOutcome
<1> QED BY <1>1, <1>2, FailuresLeave

(* The host's script, the staging tree and the enrollment file.            *)
LEMMA HostMoves ==
    ASSUME NEW w, WorldOK(w), NEW e \in 0..MaxPairing, NEW d, NEW r, NEW x
    PROVE  /\ HostOnly(w, Stage(w, r)) /\ HostOnly(w, Uninstall(w))
           /\ HostOnly(w, CleanStaging(w, r)) /\ HostOnly(w, Lifecycle(w, e, d))
           /\ Clean(CleanStaging(w, r), r.cycle)
           /\ CleanStaging(w, r).host.worker = w.host.worker
           /\ CleanStaging(w, r).host.cred = w.host.cred
           /\ HostOnly(w, [w EXCEPT !.host.enrollment = x])
<1> DEFINE a == w.host.staging \cup {r.cycle}
           b == w.host.staging \ {r.cycle}
           c == w.host.enrollment \ {r.cycle}
<1>1. HostOnly(w, Stage(w, r)) /\ HostOnly(w, Uninstall(w))
  <2>1. Stage(w, r) = [w EXCEPT !.host.staging = a]
    BY DEF Stage, WorldOK
  <2> HIDE DEF a
  <2> QED BY <2>1 DEF HostOnly, WorldOK, Uninstall
<1>2. /\ HostOnly(w, CleanStaging(w, r)) /\ Clean(CleanStaging(w, r), r.cycle)
      /\ CleanStaging(w, r).host.worker = w.host.worker
      /\ CleanStaging(w, r).host.cred = w.host.cred
  <2> DEFINE v == [w EXCEPT !.host.staging = b, !.host.enrollment = c]
  <2>1. CleanStaging(w, r) = v
    BY DEF CleanStaging, WorldOK
  <2>2. r.cycle \notin b \cup c
    OBVIOUS
  <2> HIDE DEF b, c
  <2>3. /\ HostOnly(w, v) /\ v.host.worker = w.host.worker /\ v.host.cred = w.host.cred
        /\ v.host.staging = b /\ v.host.enrollment = c
    BY DEF HostOnly, WorldOK
  <2> HIDE DEF v
  <2> QED BY <2>1, <2>2, <2>3 DEF Clean
<1>3. HostOnly(w, [w EXCEPT !.host.enrollment = x])
  BY DEF HostOnly, WorldOK
<1>4. HostOnly(w, Lifecycle(w, e, d))
  <2>1. ASSUME NEW u \in 0..MaxPairing, NEW y
        PROVE  HostOnly(w, [w EXCEPT !.host.cred = u, !.host.worker = y])
    BY DEF HostOnly, WorldOK
  <2>2. (IF e # 0 THEN e ELSE w.host.cred) \in 0..MaxPairing
    BY DEF WorldOK
  <2> QED BY <2>1, <2>2 DEF Lifecycle
<1> QED BY <1>1, <1>2, <1>3, <1>4

(* A pairing's phase at the controller.                                    *)
LEMMA PhaseMoves ==
    ASSUME NEW w, WorldOK(w), NEW p \in 0..MaxPairing, NEW q \in Phases
    PROVE  LET v == [w EXCEPT !.ctl.phase[p] = q]
           IN  /\ WorldOK(v) /\ v.vault = w.vault /\ v.demolished = w.demolished
               /\ v.host = w.host
               /\ v.ctl.issued = w.ctl.issued
               /\ p \in 1..MaxPairing => v.ctl.phase[p] = q
               /\ \A x \in 1..MaxPairing : x # p => v.ctl.phase[x] = w.ctl.phase[x]
<1> DEFINE v == [w EXCEPT !.ctl.phase[p] = q]
<1>1. /\ v = [f \in {"host", "vault", "trans", "demolished", "ctl"} |-> v[f]]
      /\ v.vault = w.vault /\ v.demolished = w.demolished /\ v.host = w.host
      /\ v.ctl = [w.ctl EXCEPT !.phase = [w.ctl.phase EXCEPT ![p] = q]]
  BY DEF WorldOK
<1>2. w.ctl = [f \in {"issued", "phase", "beat"} |-> w.ctl[f]]
  BY DEF WorldOK
<1>3. /\ v.ctl = [f \in {"issued", "phase", "beat"} |-> v.ctl[f]]
      /\ v.ctl.issued = w.ctl.issued
      /\ v.ctl.phase = [w.ctl.phase EXCEPT ![p] = q]
  <2> HIDE DEF v
  <2> QED BY <1>1, <1>2
<1> HIDE DEF v
<1>4. /\ v.ctl.phase \in [1..MaxPairing -> Phases]
      /\ p \in 1..MaxPairing => v.ctl.phase[p] = q
      /\ \A x \in 1..MaxPairing : x # p => v.ctl.phase[x] = w.ctl.phase[x]
  BY <1>3 DEF WorldOK
<1>5. WorldOK(v)
  BY <1>1, <1>3, <1>4 DEF WorldOK
<1> QED BY <1>1, <1>3, <1>4, <1>5 DEF v

-----------------------------------------------------------------------------
(* What each action of the driver reaches.                                 *)

(* Reach composes with a change of secrets, and with one on the host.      *)
LEMMA ReachSteps ==
    ASSUME NEW w, NEW r, WorldOK(w)
    PROVE  /\ Reach(w, w, r)
           /\ \A v : SecretsOnly(w, v) /\ VaultKept(w, v, r) => Reach(w, v, r)
           /\ \A u, v : Reach(w, u, r) /\ HostOnly(u, v) => Reach(w, v, r)
           /\ Reach(w, Opened(w, r), r)
<1>1. Reach(w, w, r)
  BY DEF Reach, VaultKept
<1>2. \A v : SecretsOnly(w, v) /\ VaultKept(w, v, r) => Reach(w, v, r)
  BY DEF Reach, SecretsOnly, Live
<1>3. \A u, v : Reach(w, u, r) /\ HostOnly(u, v) => Reach(w, v, r)
  BY DEF Reach, HostOnly, VaultKept, Live
<1> QED BY <1>1, <1>2, <1>3, OpenedSecrets

(* A remote operation that reaches its effect and its answer reaches every outcome. *)
LEMMA RemoteReach ==
    ASSUME NEW w, NEW r, WorldOK(w), NEW codes, NEW acted, NEW answer,
           Reach(w, acted, r), Reach(w, answer.w, r),
           NEW o \in Remotely(w, r, codes, acted, answer)
    PROVE  Reach(w, o.w, r)
  BY RemoteOutcome, ReachSteps

(* The calls that leave the world alone.                                   *)
LEMMA IdleCalls ==
    ASSUME NEW w, NEW r, WorldOK(w), NEW o
    PROVE  /\ o \in AwaitHeartbeat(w, r) => o.w = w
           /\ o \in PrepareSmoke(w, r) => o.w = w
           /\ o \in RunSmoke(w, r) => o.w = w /\ (o.kind = "done" => Good(w))
           /\ o \in KitRefused(w) => o.w = w /\ o.kind = "fail" /\ IsOutcome(o)
<1>1. o \in AwaitHeartbeat(w, r) => o.w = w
  <2>1. o \in Failures(w, HttpCodes) => o.w = w
    BY FailuresLeave
  <2>2. Done(w, "", 0).w = w /\ Pending(w).w = w
    BY DEF Done, Pending, Outcome
  <2> QED BY <2>1, <2>2 DEF AwaitHeartbeat
<1>2. o \in PrepareSmoke(w, r) => o.w = w
  <2>1. o \in Failures(w, HttpCodes) => o.w = w
    BY FailuresLeave
  <2> DEFINE n == SmokeJob(r.cycle)
  <2> HIDE DEF n
  <2>2. Named(w, n).w = w
    BY DEF Named, Outcome
  <2> QED BY <2>1, <2>2 DEF PrepareSmoke, n
<1>3. o \in RunSmoke(w, r) => o.w = w /\ (o.kind = "done" => Good(w))
  <2> DEFINE codes == HttpCodes \cup {"JOB_PROGRESS_REGRESSED"}
             c(t) == IF t = "before" THEN 1 ELSE 0
  <2> SUFFICES ASSUME o \in RunSmoke(w, r) PROVE o.w = w /\ (o.kind = "done" => Good(w))
    OBVIOUS
  <2>1. \/ o = Pending(w) \/ o \in Failures(w, codes)
        \/ Good(w) /\ \E t \in {"before", "after"} : o = Done(w, t, c(t))
    BY DEF RunSmoke, Good
  <2> HIDE DEF codes, c
  <2>2. CASE o = Pending(w)
    BY <2>2 DEF Pending, Outcome
  <2>3. CASE o \in Failures(w, codes)
    BY <2>3, FailuresLeave
  <2>4. CASE Good(w) /\ \E t \in {"before", "after"} : o = Done(w, t, c(t))
    BY <2>4 DEF Done, Outcome
  <2> QED BY <2>1, <2>2, <2>3, <2>4
<1>4. o \in KitRefused(w) => o.w = w /\ o.kind = "fail" /\ IsOutcome(o)
  BY FailuresLeave DEF KitRefused
<1> QED BY <1>1, <1>2, <1>3, <1>4

(* Authentication stores a secret only for a computer with a password.     *)
LEMMA AuthenticateReach ==
    ASSUME NEW w, NEW r, WorldOK(w), NEW o \in Authenticate(w, r)
    PROVE  Reach(w, o.w, r)
<1>1. CASE ~r.approved
  BY <1>1, ReachSteps DEF Authenticate, Fail, Outcome
<1>2. CASE r.approved
  <2>1. PICK s \in Session(w, r, FALSE) :
            o = IF s.kind # "done" THEN s
                ELSE IF r.method = "password" /\ r.remember
                     THEN Done(StoreCredential(s.w, LoadAuthentication(s.w, r)), "Stored", 0)
                ELSE Done(s.w, "SessionOnly", 0)
    BY <1>2 DEF Authenticate
  <2>2. SecretsOnly(w, s.w) /\ VaultKept(w, s.w, r)
    BY SessionOutcome
  <2>3. CASE o.w = s.w
    BY <2>2, <2>3, ReachSteps
  <2>4. CASE r.method = "password" /\ o.w = StoreCredential(s.w, LoadAuthentication(s.w, r))
    <3> DEFINE a == LoadAuthentication(s.w, r)
               y == IF s.w.trans = a.secret THEN NoSecret ELSE s.w.trans
    <3>1. WorldOK(s.w)
      BY <2>2 DEF SecretsOnly
    <3>2. StoreCredential(s.w, a) = [s.w EXCEPT !.vault = a.secret, !.trans = y]
      BY <3>1 DEF StoreCredential, WorldOK
    <3> HIDE DEF a, y
    <3>3. SecretsOnly(s.w, [s.w EXCEPT !.vault = a.secret, !.trans = y])
      BY <3>1, SecretMoves
    <3>4. SecretsOnly(w, o.w)
      BY <2>2, <2>4, <3>2, <3>3 DEF SecretsOnly, a
    <3> QED BY <2>4, <3>4, ReachSteps DEF VaultKept
  <2> QED BY <2>1, <2>3, <2>4 DEF Done, Outcome
<1> QED BY <1>1, <1>2

(* Discovery, staging, installation and the start of the service.          *)
LEMMA HostReach ==
    ASSUME NEW w, NEW r, WorldOK(w), NEW o
    PROVE  /\ o \in Discover(w, r) => Reach(w, o.w, r)
           /\ o \in StageKit(w, r) => Reach(w, o.w, r)
           /\ o \in InstallWorker(w, r) => Reach(w, o.w, r)
           /\ o \in EnableService(w, r) => Reach(w, o.w, r)
           /\ o \in FinishPairing(w, r) => Reach(w, o.w, r)
<1> DEFINE u == Opened(w, r)
           v == Stage(u, r)
<1>1. 0 \in 0..MaxPairing
  BY RecordAssumption
<1>2. Reach(w, u, r) /\ WorldOK(u)
  BY ReachSteps DEF Reach
<1> HIDE DEF u
<1>3. Reach(w, v, r) /\ WorldOK(v)
  BY <1>1, <1>2, ReachSteps, HostMoves DEF Reach
<1> HIDE DEF v
<1>4. ASSUME NEW d PROVE Reach(w, Lifecycle(v, 0, d), r) /\ Reach(w, Lifecycle(u, 0, d), r)
  BY <1>1, <1>2, <1>3, ReachSteps, HostMoves
<1>5. ASSUME NEW x PROVE Reach(w, [u EXCEPT !.host.enrollment = x], r)
  BY <1>1, <1>2, ReachSteps, HostMoves
<1>6. ASSUME NEW codes, NEW x, NEW data, Reach(w, x, r),
             o \in Remotely(w, r, codes, x, Done(x, data, 0))
      PROVE  Reach(w, o.w, r)
  <2>1. Done(x, data, 0).w = x
    BY DEF Done, Outcome
  <2> QED BY <1>6, <2>1, RemoteReach
<1>7. ASSUME NEW codes, NEW x, NEW e, NEW data, Reach(w, x, r),
             o \in Remotely(w, r, codes, x, ByReceipt(x, e, data))
      PROVE  Reach(w, o.w, r)
  <2>1. ByReceipt(x, e, data).w = x
    BY DEF ByReceipt, Done, Fail, Outcome
  <2> QED BY <1>7, <2>1, RemoteReach
<1>8. o \in KitRefused(w) => Reach(w, o.w, r)
  BY IdleCalls, ReachSteps
<1>9. o \in Discover(w, r) => Reach(w, o.w, r)
  <2>1. o \in Discover(w, r) => o \in Remotely(w, r, DiscoveryCodes, v, Done(v, "none", 0))
    BY DEF Discover, u, v
  <2>2. Done(v, "none", 0).w = v
    BY DEF Done, Outcome
  <2> QED BY <1>3, <2>1, <2>2, RemoteReach
<1>10. o \in StageKit(w, r) => Reach(w, o.w, r)
  <2>1. o \in StageKit(w, r) =>
            o \in KitRefused(w) \/ o \in Remotely(w, r, StagingCodes, v, Done(v, "", 0))
    BY DEF StageKit, u, v
  <2>2. Done(v, "", 0).w = v
    BY DEF Done, Outcome
  <2> QED BY <1>3, <1>8, <2>1, <2>2, RemoteReach
<1>11. o \in InstallWorker(w, r) => Reach(w, o.w, r)
  <2> DEFINE e == InstallExpectation(r)
             d == e = "DormantInstalled"
             x == Lifecycle(v, 0, d)
  <2>1. o \in InstallWorker(w, r) =>
            o \in KitRefused(w) \/ o \in Remotely(w, r, ScriptCodes, x, ByReceipt(x, e, ""))
    BY DEF InstallWorker, u, v
  <2>2. Reach(w, x, r)
    BY <1>4
  <2> HIDE DEF x, d, e
  <2>3. ByReceipt(x, e, "").w = x
    BY DEF ByReceipt, Done, Fail, Outcome
  <2> QED BY <1>8, <2>1, <2>2, <2>3, RemoteReach
<1>12. o \in EnableService(w, r) => Reach(w, o.w, r)
  <2> DEFINE x == Lifecycle(u, 0, FALSE)
  <2>1. o \in EnableService(w, r) =>
            o \in KitRefused(w)
            \/ o \in Remotely(w, r, ScriptCodes, x, ByReceipt(x, "PairedService", ""))
    BY DEF EnableService, u
  <2>2. Reach(w, x, r)
    BY <1>4
  <2> HIDE DEF x
  <2>3. ByReceipt(x, "PairedService", "").w = x
    BY DEF ByReceipt, Done, Fail, Outcome
  <2> QED BY <1>8, <2>1, <2>2, <2>3, RemoteReach
<1>13. o \in FinishPairing(w, r) => Reach(w, o.w, r)
  <2> DEFINE x == [u EXCEPT !.host.enrollment = @ \ {r.cycle}]
  <2>1. o \in FinishPairing(w, r) =>
            o \in Remotely(w, r, Codes(RemoveErrors), x, Done(x, "", 0))
    BY DEF FinishPairing, u
  <2>2. Reach(w, x, r)
    BY <1>5
  <2> HIDE DEF x
  <2>3. Done(x, "", 0).w = x
    BY DEF Done, Outcome
  <2> QED BY <2>1, <2>2, <2>3, RemoteReach
<1> QED BY <1>9, <1>10, <1>11, <1>12, <1>13

(* The end of a smoke check: the staging tree goes, the worker stays.      *)
LEMMA CleanupReach ==
    ASSUME NEW w, NEW r, WorldOK(w), NEW o \in CleanupStaging(w, r)
    PROVE  /\ Reach(w, o.w, r)
           /\ o.kind = "done" => Clean(o.w, r.cycle)
           /\ Good(w) => Good(o.w)
<1> DEFINE u == Opened(w, r)
           v == CleanStaging(u, r)
<1>1. o \in Remotely(w, r, CleanupCodes, v, Done(v, "", 0))
  BY DEF CleanupStaging
<1>2. Reach(w, u, r) /\ SecretsOnly(w, u) /\ WorldOK(u)
  BY ReachSteps, OpenedSecrets DEF Reach
<1> HIDE DEF u
<1>3. /\ HostOnly(u, v) /\ Clean(v, r.cycle)
      /\ v.host.worker = u.host.worker /\ v.host.cred = u.host.cred
  <2>1. 0 \in 0..MaxPairing
    BY RecordAssumption
  <2> QED BY <1>2, <2>1, HostMoves
<1> HIDE DEF v
<1>4. Reach(w, v, r)
  BY <1>2, <1>3, ReachSteps
<1>5. Done(v, "", 0).w = v
  BY DEF Done, Outcome
<1>6. Reach(w, o.w, r)
  BY <1>1, <1>4, <1>5, RemoteReach
<1>7. \/ o.w = v
      \/ o.kind # "done" /\ SecretsOnly(w, o.w)
  <2> DEFINE answer == Done(v, "", 0)
  <2> HIDE DEF answer
  <2>1. o \in Remotely(w, r, CleanupCodes, v, answer) /\ answer.w = v
    BY <1>1, <1>5 DEF answer
  <2>2. \/ o = answer
        \/ o.kind # "done" /\ SecretsOnly(w, o.w) /\ VaultKept(w, o.w, r)
        \/ o.kind # "done" /\ o.w = v
    BY <2>1, RemoteOutcome
  <2> QED BY <2>1, <2>2
<1>8. Good(w) => Good(o.w)
  BY <1>2, <1>3, <1>7 DEF Good, SecretsOnly, HostOnly
<1> QED BY <1>3, <1>6, <1>7, <1>8

(* Issuing an enrollment makes no pairing live and names one of the bounded ones. *)
LEMMA IssueReach ==
    ASSUME NEW w, NEW r, WorldOK(w), RowOK(r), NEW o \in IssueEnrollment(w, r)
    PROVE  Reach(w, o.w, r) /\ (o.kind = "done" => o.n \in 0..MaxPairing)
<1> DEFINE N == NextPairing(w)
           v == Issue(w, r)
<1>1. r.cycle \in 0..MaxCycle /\ w.ctl.issued \in [0..MaxCycle -> 0..MaxPairing]
  BY DEF RowOK, WorldOK
<1>2. N \in Nat \ {0}
  <2> DEFINE P == {p \in 1..MaxPairing : w.ctl.phase[p] # "absent"}
  <2>1. IsFiniteSet(1..MaxPairing)
    BY FS_Interval, RecordAssumption
  <2>2. IsFiniteSet(P) /\ Cardinality(P) \in Nat
    BY <2>1, FS_Subset, FS_CardinalityType
  <2> HIDE DEF P
  <2>3. N = Cardinality(P) + 1
    BY DEF NextPairing, P
  <2> QED BY <2>2, <2>3
<1> HIDE DEF N
<1>3. CASE Issued(w, r) # 0 /\ v = w
  <2>1. \/ o \in Failures(w, HttpCodes) \/ o = Fail(w, "TERMINAL", 0)
        \/ o = Named(v, Issued(v, r)) \/ o \in Failures(v, HttpCodes)
    BY DEF IssueEnrollment
  <2>2. Issued(w, r) \in 0..MaxPairing
    BY <1>1 DEF Issued
  <2>3. o \in Failures(w, HttpCodes) \/ o = Fail(w, "TERMINAL", 0) \/ o = Named(w, Issued(w, r))
    BY <1>3, <2>1
  <2>4. o \in Failures(w, HttpCodes) => o.w = w /\ o.kind = "fail"
    BY FailuresLeave
  <2>5. o = Fail(w, "TERMINAL", 0) => o.w = w /\ o.kind = "fail"
    BY DEF Fail, Outcome
  <2>6. o = Named(w, Issued(w, r)) => o.w = w /\ o.n = Issued(w, r)
    BY Endings
  <2>7. o.w = w /\ (o.kind = "done" => o.n = Issued(w, r))
    BY <2>3, <2>4, <2>5, <2>6
  <2> QED BY <2>2, <2>7, ReachSteps
<1>4. CASE Issued(w, r) = 0
  <2>1. CASE N <= MaxPairing
    <3> DEFINE x == [w EXCEPT !.ctl.phase[N] = "pending"]
    <3>1. N \in 1..MaxPairing
      BY <1>2, <2>1, RecordAssumption
    <3>2. v = [w EXCEPT !.ctl.issued[r.cycle] = N, !.ctl.phase[N] = "pending"]
      BY <1>4 DEF Issue, N
    <3>3. /\ v = [f \in {"host", "vault", "trans", "demolished", "ctl"} |-> v[f]]
          /\ v.vault = w.vault /\ v.demolished = w.demolished /\ v.host = w.host
          /\ v.ctl = [w.ctl EXCEPT !.issued = [w.ctl.issued EXCEPT ![r.cycle] = N],
                                   !.phase = [w.ctl.phase EXCEPT ![N] = "pending"]]
      <4> HIDE DEF v
      <4> QED BY <3>2 DEF WorldOK
    <3> HIDE DEF v
    <3>4. w.ctl = [f \in {"issued", "phase", "beat"} |-> w.ctl[f]]
      BY DEF WorldOK
    <3>5. /\ v.ctl = [f \in {"issued", "phase", "beat"} |-> v.ctl[f]]
          /\ v.ctl.issued = [w.ctl.issued EXCEPT ![r.cycle] = N]
          /\ v.ctl.phase = [w.ctl.phase EXCEPT ![N] = "pending"]
      BY <3>3, <3>4
    <3>6. "pending" \in Phases
      BY DEF Phases
    <3>7. /\ v.ctl.phase \in [1..MaxPairing -> Phases]
          /\ \A p \in 1..MaxPairing : Live(v, p) => Live(w, p)
      <4>1. w.ctl.phase \in [1..MaxPairing -> Phases]
        BY DEF WorldOK
      <4> DEFINE f == w.ctl.phase
                 g == v.ctl.phase
      <4> HIDE DEF f, g
      <4>2. g \in [1..MaxPairing -> Phases] /\ g[N] = "pending"
            /\ \A p \in 1..MaxPairing : p # N => g[p] = f[p]
        BY <3>1, <3>5, <3>6, <4>1 DEF f, g
      <4> QED BY <4>2 DEF Live, f, g
    <3>8. /\ v.ctl.issued \in [0..MaxCycle -> 0..MaxPairing]
          /\ Issued(v, r) = N
      <4>1. N \in 0..MaxPairing
        BY <3>1
      <4> DEFINE f == w.ctl.issued
                 g == v.ctl.issued
      <4> HIDE DEF f, g
      <4>2. g \in [0..MaxCycle -> 0..MaxPairing] /\ g[r.cycle] = N
        BY <1>1, <3>5, <4>1 DEF f, g
      <4> QED BY <4>2 DEF Issued, g
    <3>9. Reach(w, v, r)
      BY <3>3, <3>5, <3>7, <3>8 DEF Reach, WorldOK, VaultKept
    <3>10. \/ o \in Failures(w, HttpCodes) \/ o = Fail(w, "TERMINAL", 0)
           \/ o = Named(v, N) \/ o \in Failures(v, HttpCodes)
      BY <3>8 DEF IssueEnrollment, v
    <3>11. /\ o \in Failures(w, HttpCodes) => o.w = w /\ o.kind = "fail"
           /\ o \in Failures(v, HttpCodes) => o.w = v /\ o.kind = "fail"
      BY FailuresLeave
    <3>12. o = Fail(w, "TERMINAL", 0) => o.w = w /\ o.kind = "fail"
      BY DEF Fail, Outcome
    <3>13. o = Named(v, N) => o.w = v /\ o.n = N
      BY Endings
    <3>14. (o.w = w \/ o.w = v) /\ (o.kind = "done" => o.n = N)
      BY <3>10, <3>11, <3>12, <3>13
    <3> QED BY <3>1, <3>9, <3>14, ReachSteps
  <2>2. CASE ~(N <= MaxPairing)
    <3>1. o \in Failures(w, HttpCodes) \/ o = Fail(w, "TERMINAL", 0)
      BY <1>4, <2>2 DEF IssueEnrollment, IssueAllowed, N
    <3>2. o.w = w /\ o.kind = "fail"
      BY <3>1, FailuresLeave DEF Fail, Outcome
    <3> QED BY <3>2, ReachSteps
  <2> QED BY <2>1, <2>2
<1> QED BY <1>3, <1>4 DEF Issue

(* Moving the record's own pairing to another phase stays in reach.        *)
LEMMA ReachPhase ==
    ASSUME NEW w, NEW u, NEW r, RowOK(r), Reach(w, u, r), NEW q \in Phases
    PROVE  Reach(w, [u EXCEPT !.ctl.phase[r.pairing] = q], r)
<1> DEFINE v == [u EXCEPT !.ctl.phase[r.pairing] = q]
<1>1. r.pairing \in 0..MaxPairing /\ WorldOK(u)
  BY DEF RowOK, Reach
<1>2. /\ WorldOK(v) /\ v.vault = u.vault /\ v.demolished = u.demolished
      /\ \A x \in 1..MaxPairing : x # r.pairing => v.ctl.phase[x] = u.ctl.phase[x]
  BY <1>1, PhaseMoves
<1> HIDE DEF v
<1>3. Reach(w, v, r)
  BY <1>2 DEF Reach, VaultKept, Live
<1> QED BY <1>3 DEF v

(* What an attempt to pair the worker reaches.                             *)
LEMMA BundleReach ==
    ASSUME NEW w, NEW r, WorldOK(w), RowOK(r), NEW a \in ApplyBundle(w, r)
    PROVE  Reach(w, a.w, r) /\ IsOutcome(a)
<1> DEFINE u == [Stage(w, r) EXCEPT !.host.enrollment = @ \cup {r.cycle}]
<1>1. Reach(w, u, r) /\ WorldOK(u)
  <2>1. 0 \in 0..MaxPairing
    BY RecordAssumption
  <2>2. HostOnly(w, Stage(w, r)) /\ WorldOK(Stage(w, r))
    BY <2>1, HostMoves DEF HostOnly
  <2>3. HostOnly(Stage(w, r), u)
    BY <2>1, <2>2, HostMoves
  <2> HIDE DEF u
  <2> QED BY <2>2, <2>3, ReachSteps DEF HostOnly
<1>2. PICK s \in Session(u, r, TRUE) :
        a \in (IF s.kind # "done" THEN {s}
               ELSE Failures(s.w, ScriptCodes)
                    \cup Failures([s.w EXCEPT !.ctl.phase[r.pairing] = "consumed"], ScriptCodes)
                    \cup {Done(Paired(s.w, r.pairing, q), "", 0) : q \in {"consumed", "ready"}}
                    \cup Failures(Paired(s.w, r.pairing, "ready"), ScriptCodes))
  BY DEF ApplyBundle
<1> HIDE DEF u
<1>3. SecretsOnly(u, s.w) /\ VaultKept(u, s.w, r) /\ IsOutcome(s)
  BY <1>1, SessionOutcome
<1>4. Reach(w, s.w, r) /\ WorldOK(s.w)
  BY <1>1, <1>3 DEF Reach, SecretsOnly, VaultKept, Live
<1>5. "consumed" \in Phases /\ "ready" \in Phases
  BY DEF Phases
<1>6. Reach(w, [s.w EXCEPT !.ctl.phase[r.pairing] = "consumed"], r)
  BY <1>4, <1>5, ReachPhase
<1>7. ASSUME NEW q \in {"consumed", "ready"}
      PROVE  Reach(w, Paired(s.w, r.pairing, q), r)
  <2>1. r.pairing \in 0..MaxPairing
    BY DEF RowOK
  <2>2. HostOnly(s.w, Lifecycle(s.w, r.pairing, TRUE))
    BY <1>4, <2>1, HostMoves
  <2>3. Reach(w, Lifecycle(s.w, r.pairing, TRUE), r)
    BY <1>4, <2>2, ReachSteps
  <2>4. q \in Phases
    BY <1>5
  <2> QED BY <2>3, <2>4, ReachPhase DEF Paired
<1>8. CASE a = s
  BY <1>3, <1>4, <1>8
<1>9. CASE a \in Failures(s.w, ScriptCodes)
  BY <1>4, <1>9, FailuresLeave
<1>10. CASE a \in Failures([s.w EXCEPT !.ctl.phase[r.pairing] = "consumed"], ScriptCodes)
  <2> DEFINE v == [s.w EXCEPT !.ctl.phase[r.pairing] = "consumed"]
  <2> HIDE DEF v
  <2>1. a \in Failures(v, ScriptCodes) /\ Reach(w, v, r)
    BY <1>6, <1>10 DEF v
  <2> QED BY <2>1, FailuresLeave
<1>11. CASE a \in Failures(Paired(s.w, r.pairing, "ready"), ScriptCodes)
  <2> DEFINE v == Paired(s.w, r.pairing, "ready")
  <2>1. Reach(w, v, r)
    BY <1>7
  <2> HIDE DEF v
  <2>2. a \in Failures(v, ScriptCodes)
    BY <1>11 DEF v
  <2> QED BY <2>1, <2>2, FailuresLeave
<1>12. CASE \E q \in {"consumed", "ready"} : a = Done(Paired(s.w, r.pairing, q), "", 0)
  <2>1. PICK q \in {"consumed", "ready"} : a = Done(Paired(s.w, r.pairing, q), "", 0)
    BY <1>12
  <2> DEFINE v == Paired(s.w, r.pairing, q)
  <2>2. Reach(w, v, r)
    BY <1>7
  <2> HIDE DEF v
  <2>3. a = Done(v, "", 0)
    BY <2>1 DEF v
  <2>4. a.w = v /\ IsOutcome(a)
    BY <2>3 DEF Done, Outcome, IsOutcome
  <2> QED BY <2>2, <2>4
<1> QED BY <1>2, <1>8, <1>9, <1>10, <1>11, <1>12

(* A poll that decides: every way it ends is in reach of where the call began. *)
LEMMA ReconcileReach ==
    ASSUME NEW w, NEW u, NEW r, Reach(w, u, r), NEW others,
           \A x \in others : Reach(w, x.w, r), NEW o \in Reconcile(u, r, others)
    PROVE  Reach(w, o.w, r)
<1>1. o \in FinishPairing(u, r) \/ o = Pending(u) \/ o \in others
  BY DEF Reconcile
<1>2. CASE o \in FinishPairing(u, r)
  <2>1. WorldOK(u)
    BY DEF Reach
  <2>2. Reach(u, o.w, r)
    BY <1>2, <2>1, HostReach
  <2> QED BY <2>2 DEF Reach, VaultKept
<1>3. CASE o = Pending(u)
  BY <1>3, Endings
<1> QED BY <1>1, <1>2, <1>3

(* The enrollment: only the record's own pairing can become live.          *)
LEMMA EnrollmentReach ==
    ASSUME NEW w, NEW r, WorldOK(w), RowOK(r), NEW o \in Configured(ApplyEnrollment(w, r))
    PROVE  Reach(w, o.w, r)
<1>1. ASSUME NEW a, Reach(w, a.w, r), IsOutcome(a), NEW x \in ApplyFailed(a, r)
      PROVE  Reach(w, x.w, r)
  <2> DEFINE b == [a EXCEPT !.w.ctl.phase[r.pairing] = "revoked"]
             c == [a EXCEPT !.cost = @ + 1]
             u == a.w
  <2>1. b.w = [u EXCEPT !.ctl.phase[r.pairing] = "revoked"]
    BY <1>1 DEF IsOutcome, Outcome
  <2>2. c.w = u
    BY <1>1 DEF IsOutcome, Outcome
  <2>3. "revoked" \in Phases
    BY DEF Phases
  <2> HIDE DEF u
  <2>4. Reach(w, u, r)
    BY <1>1 DEF u
  <2>5. Reach(w, b.w, r)
    <3>1. Reach(w, [u EXCEPT !.ctl.phase[r.pairing] = "revoked"], r)
      BY <2>3, <2>4, ReachPhase
    <3> QED BY <2>1, <3>1
  <2> DEFINE others == IF a.kind # "fail" \/ Retryable(a.data) THEN {a} ELSE {b, c}
  <2>6. x \in Reconcile(u, r, others)
    BY <1>1 DEF ApplyFailed, u
  <2> HIDE DEF b, c
  <2>7. \A y \in others : y = a \/ y = b \/ y = c
    OBVIOUS
  <2> HIDE DEF others
  <2>8. \A y \in others : Reach(w, y.w, r)
    BY <2>2, <2>4, <2>5, <2>7 DEF u
  <2> QED BY <2>4, <2>6, <2>8, ReconcileReach
<1>2. ASSUME NEW a \in KitRefused(w) \cup ApplyBundle(w, r),
             NEW x \in (IF a.kind = "done" THEN Reconcile(a.w, r, {Pending(a.w)})
                        ELSE ApplyFailed(a, r))
      PROVE  Reach(w, x.w, r)
  <2>1. Reach(w, a.w, r) /\ IsOutcome(a)
    BY BundleReach, IdleCalls, ReachSteps
  <2>2. CASE a.kind = "done"
    <3> DEFINE u == a.w
               others == {Pending(u)}
    <3>1. x \in Reconcile(u, r, others)
      BY <1>2, <2>2
    <3>2. \A y \in others : y.w = u
      BY Endings
    <3> HIDE DEF u, others
    <3>3. Reach(w, u, r)
      BY <2>1 DEF u
    <3> QED BY <3>1, <3>2, <3>3, ReconcileReach
  <2>3. CASE a.kind # "done"
    BY <1>1, <1>2, <2>1, <2>3
  <2> QED BY <2>2, <2>3
<1>3. ASSUME NEW x \in ApplyEnrollment(w, r)
      PROVE  Reach(w, x.w, r)
  <2>1. Observe(w, r.pairing) \in {"ready", "consumed", "pending", "TERMINAL"}
    BY DEF Observe
  <2> DEFINE S == UNION {IF a.kind = "done" THEN Reconcile(a.w, r, {Pending(a.w)})
                         ELSE ApplyFailed(a, r) : a \in KitRefused(w) \cup ApplyBundle(w, r)}
  <2>2. x \in Failures(w, HttpCodes) \cup
             CASE Observe(w, r.pairing) = "ready" -> FinishPairing(w, r)
               [] Observe(w, r.pairing) = "consumed" -> {Pending(w)}
               [] Observe(w, r.pairing) = "TERMINAL" -> {Fail(w, "TERMINAL", 0)}
               [] Observe(w, r.pairing) = "pending" -> S
    BY Zenon DEF ApplyEnrollment
  <2>3. x \in S => Reach(w, x.w, r)
    <3>1. x \in S => \E a \in KitRefused(w) \cup ApplyBundle(w, r) :
              x \in (IF a.kind = "done" THEN Reconcile(a.w, r, {Pending(a.w)})
                     ELSE ApplyFailed(a, r))
      BY Zenon
    <3> QED BY <1>2, <3>1
  <2> HIDE DEF S
  <2>4. x \in Failures(w, HttpCodes) => Reach(w, x.w, r)
    BY FailuresLeave, ReachSteps
  <2>5. x \in FinishPairing(w, r) => Reach(w, x.w, r)
    BY HostReach
  <2>6. x = Pending(w) => Reach(w, x.w, r)
    BY Endings, ReachSteps
  <2>7. x = Fail(w, "TERMINAL", 0) => Reach(w, x.w, r)
    BY ReachSteps DEF Fail, Outcome
  <2>8. \/ x \in Failures(w, HttpCodes) \/ x \in FinishPairing(w, r) \/ x = Pending(w)
        \/ x = Fail(w, "TERMINAL", 0) \/ x \in S
    BY <2>1, <2>2
  <2> QED BY <2>3, <2>4, <2>5, <2>6, <2>7, <2>8
<1>4. \/ o \in ApplyEnrollment(w, r)
      \/ \E x \in ApplyEnrollment(w, r), c \in SyncCodes : o = Fail(x.w, c, x.cost + 1)
  BY DEF Configured
<1>5. ASSUME NEW x, NEW c, o = Fail(x.w, c, x.cost + 1)
      PROVE  o.w = x.w
  BY <1>5 DEF Fail, Outcome
<1> QED BY <1>3, <1>4, <1>5

(* Teardown makes nothing live, and revokes the record's pairing before it reports success. *)
LEMMA TeardownReach ==
    ASSUME NEW w, NEW r, WorldOK(w), RowOK(r), NEW o \in Teardown(w, r)
    PROVE  /\ Reach(w, o.w, r)
           /\ o.kind = "done" => \A p \in 1..MaxPairing : p = r.pairing => ~Live(o.w, p)
<1>1. 0 \in 0..MaxPairing /\ r.pairing \in 0..MaxPairing /\ "revoked" \in Phases
  BY RecordAssumption DEF RowOK, Phases
<1>2. ASSUME NEW v, Reach(w, v, r)
      PROVE  /\ Reach(w, Revoke(v, r.pairing), r)
             /\ \A p \in 1..MaxPairing : p = r.pairing => ~Live(Revoke(v, r.pairing), p)
  <2>1. CASE r.pairing = 0
    BY <1>2, <2>1 DEF Revoke
  <2>2. CASE r.pairing # 0
    <3>1. Revoke(v, r.pairing) = [v EXCEPT !.ctl.phase[r.pairing] = "revoked"]
      BY <2>2 DEF Revoke
    <3>2. WorldOK(v)
      BY <1>2 DEF Reach
    <3>3. r.pairing \in 1..MaxPairing => Revoke(v, r.pairing).ctl.phase[r.pairing] = "revoked"
      BY <1>1, <3>1, <3>2, PhaseMoves
    <3>4. Reach(w, Revoke(v, r.pairing), r)
      BY <1>1, <1>2, <3>1, ReachPhase
    <3> QED BY <3>3, <3>4 DEF Live
  <2> QED BY <2>1, <2>2
<1>3. ASSUME NEW v, Reach(w, v, r)
      PROVE  /\ \A i \in 1..4 : Reach(w, TeardownStages(v, r)[i], r)
             /\ \A p \in 1..MaxPairing : p = r.pairing => ~Live(TeardownStages(v, r)[4], p)
  <2> DEFINE removed == IF AtLeast(r.step, "KitStaged") THEN Uninstall(Stage(v, r)) ELSE v
             t == TeardownStages(v, r)
  <2>1. Reach(w, removed, r) /\ WorldOK(removed)
    <3>1. WorldOK(v)
      BY <1>3 DEF Reach
    <3>2. HostOnly(v, Stage(v, r))
      BY <1>1, <3>1, HostMoves
    <3>3. WorldOK(Stage(v, r)) /\ Reach(w, Stage(v, r), r)
      BY <1>3, <3>2, ReachSteps DEF HostOnly
    <3>4. HostOnly(Stage(v, r), Uninstall(Stage(v, r)))
      BY <1>1, <3>3, HostMoves
    <3>5. Reach(w, Uninstall(Stage(v, r)), r)
      BY <3>3, <3>4, ReachSteps
    <3>6. Reach(w, removed, r)
      BY <1>3, <3>5
    <3> HIDE DEF removed
    <3> QED BY <3>6 DEF Reach
  <2>2. /\ t[1] = v /\ t[2] = removed /\ t[3] = CleanStaging(removed, r)
        /\ t[4] = Revoke(CleanStaging(removed, r), r.pairing)
    <3>1. t = <<v, removed, CleanStaging(removed, r), Revoke(CleanStaging(removed, r), r.pairing)>>
      BY Zenon DEF TeardownStages
    <3> HIDE DEF t, removed
    <3> QED BY <3>1
  <2> HIDE DEF t, removed
  <2>3. Reach(w, CleanStaging(removed, r), r)
    BY <1>1, <2>1, HostMoves, ReachSteps
  <2>4. /\ Reach(w, Revoke(CleanStaging(removed, r), r.pairing), r)
        /\ \A p \in 1..MaxPairing :
              p = r.pairing => ~Live(Revoke(CleanStaging(removed, r), r.pairing), p)
    BY <1>2, <2>3
  <2>5. \A i \in 1..4 : i = 1 \/ i = 2 \/ i = 3 \/ i = 4
    OBVIOUS
  <2>6. Reach(w, t[1], r) /\ Reach(w, t[2], r) /\ Reach(w, t[3], r) /\ Reach(w, t[4], r)
    BY <1>3, <2>1, <2>2, <2>3, <2>4
  <2>7. \A i \in 1..4 : Reach(w, t[i], r)
    BY <2>5, <2>6
  <2>8. \A p \in 1..MaxPairing : p = r.pairing => ~Live(t[4], p)
    BY <2>2, <2>4
  <2> QED BY <2>7, <2>8 DEF t
<1>4. CASE ~AtLeast(r.step, "CredentialStored")
  <2>1. o = Done(Revoke(w, r.pairing), "", 0) \/ o \in Failures(w, HttpCodes)
    BY <1>4 DEF Teardown
  <2> DEFINE v == Revoke(w, r.pairing)
  <2>2. Reach(w, v, r) /\ \A p \in 1..MaxPairing : p = r.pairing => ~Live(v, p)
    BY <1>2, ReachSteps
  <2> HIDE DEF v
  <2>3. Done(v, "", 0).w = v
    BY DEF Done, Outcome
  <2>4. o \in Failures(w, HttpCodes) => o.w = w /\ o.kind = "fail"
    BY FailuresLeave
  <2>5. o = Done(v, "", 0) \/ o \in Failures(w, HttpCodes)
    BY <2>1 DEF v
  <2> QED BY <2>2, <2>3, <2>4, <2>5, ReachSteps
<1>5. CASE AtLeast(r.step, "CredentialStored")
  <2> DEFINE C == ScriptCodes \cup HttpCodes
             I(v) == UNION {Failures(TeardownStages(v, r)[i], C) : i \in 1..4}
             D(v) == Done(TeardownStages(v, r)[4], "", 0)
  <2>1. \/ o \in KitRefused(w)
        \/ \E s \in Session(w, r, TRUE) :
              o \in (IF s.kind # "done" THEN {s} ELSE I(s.w) \cup {D(s.w)})
    <3>1. o \in (IF AtLeast(r.step, "KitStaged") THEN KitRefused(w) ELSE {}) \cup
                UNION {IF s.kind # "done" THEN {s} ELSE I(s.w) \cup {D(s.w)} :
                        s \in Session(w, r, TRUE)}
      BY <1>5, Zenon DEF Teardown
    <3> HIDE DEF I, D
    <3> QED BY <3>1
  <2>2. CASE o \in KitRefused(w)
    BY <2>2, IdleCalls, ReachSteps
  <2>3. ASSUME NEW s \in Session(w, r, TRUE),
               o \in (IF s.kind # "done" THEN {s} ELSE I(s.w) \cup {D(s.w)})
        PROVE  /\ Reach(w, o.w, r)
               /\ o.kind = "done" => \A p \in 1..MaxPairing : p = r.pairing => ~Live(o.w, p)
    <3> DEFINE v == s.w
               t == TeardownStages(v, r)
    <3>1. Reach(w, v, r)
      BY SessionOutcome, ReachSteps
    <3>2. /\ \A i \in 1..4 : Reach(w, t[i], r)
          /\ \A p \in 1..MaxPairing : p = r.pairing => ~Live(t[4], p)
      BY <1>3, <3>1
    <3>3. \/ o = s /\ s.kind # "done"
          \/ \E i \in 1..4 : o \in Failures(t[i], C)
          \/ o = Done(t[4], "", 0)
      <4> HIDE DEF C
      <4>1. o \in I(s.w) <=> \E i \in 1..4 : o \in Failures(t[i], C)
        BY Zenon
      <4> HIDE DEF I
      <4> QED BY <2>3, <4>1, Zenon DEF t, v
    <3> HIDE DEF v, t, C
    <3>4. CASE o = s /\ s.kind # "done"
      BY <3>1, <3>4 DEF v
    <3>5. CASE \E i \in 1..4 : o \in Failures(t[i], C)
      <4>1. PICK i \in 1..4 : o \in Failures(t[i], C)
        BY <3>5
      <4>2. o.w = t[i] /\ o.kind = "fail"
        BY <4>1, FailuresLeave
      <4> QED BY <3>2, <4>2
    <3>6. CASE o = Done(t[4], "", 0)
      <4>1. o.w = t[4]
        BY <3>6 DEF Done, Outcome
      <4> QED BY <3>2, <4>1
    <3> QED BY <3>3, <3>4, <3>5, <3>6
  <2> QED BY <2>1, <2>2, <2>3
<1> QED BY <1>4, <1>5

(* Forgetting a credential: the vault is empty when it reports success.    *)
LEMMA DeleteReach ==
    ASSUME NEW w, NEW r, WorldOK(w), NEW o \in DeleteCredential(w, r)
    PROVE  /\ SecretsOnly(w, o.w)
           /\ w.vault = NoSecret => o.w.vault = NoSecret
           /\ (o.kind = "done" /\ (r.method # "password" => w.vault = NoSecret))
                => o.w.vault = NoSecret
<1> DEFINE u == [w EXCEPT !.vault = NoSecret, !.trans = NoSecret]
           v == [w EXCEPT !.trans = NoSecret]
<1>1. SecretsOnly(w, w) /\ SecretsOnly(w, u) /\ SecretsOnly(w, v)
      /\ u.vault = NoSecret /\ v.vault = w.vault
  <2>1. SecretsOnly(w, w)
    BY DEF SecretsOnly
  <2>2. SecretsOnly(w, u) /\ u.vault = NoSecret
    BY DEF SecretsOnly, WorldOK
  <2>3. SecretsOnly(w, v) /\ v.vault = w.vault
    BY DEF SecretsOnly, WorldOK
  <2> QED BY <2>1, <2>2, <2>3
<1>2. \/ o = Fail(w, "IO", 1) /\ r.method = "password"
      \/ o = Done(u, "", 0) /\ r.method = "password"
      \/ o = Done(v, "", 0) /\ r.method # "password"
  BY DEF DeleteCredential
<1> HIDE DEF u, v
<1>3. /\ Fail(w, "IO", 1).w = w /\ Fail(w, "IO", 1).kind = "fail"
      /\ Done(u, "", 0).w = u
      /\ Done(v, "", 0).w = v
  BY DEF Fail, Done, Outcome
<1> QED BY <1>1, <1>2, <1>3

(* The action of every step, by name.                                      *)
LEMMA ActionNames ==
    ASSUME NEW r, RowOK(r), r.step # "Ready"
    PROVE  /\ ActionForRecord(r) \in
                {"BeginSsh", "ProbeHostKey", "Authenticate", "BeginDiscovery",
                 "DiscoverAndStoreCredential", "StageKit", "InstallWorker", "IssueEnrollment",
                 "ApplyEnrollment", "EnableService", "AwaitHeartbeat", "BeginSmokeCheck",
                 "RunSmokeCheck", "CleanupStaging"}
           /\ r.step = "SmokeCheck" =>
                ActionForRecord(r) \in {"BeginSmokeCheck", "RunSmokeCheck", "CleanupStaging"}
           /\ r.step # "SmokeCheck" =>
                ActionForRecord(r) \notin {"RunSmokeCheck", "CleanupStaging"}
<1>1. StepSet = {"Draft", "SshConnecting", "HostKeyPending", "Authenticated", "Discovering",
            "CredentialStored", "KitStaged", "WorkerInstalled", "EnrollmentIssued", "Paired",
            "ServiceEnabled", "HeartbeatSeen", "SmokeCheck", "Ready"}
  BY StepNames
<1>2. r.step \in StepSet
  BY DEF RowOK
<1> QED BY <1>1, <1>2 DEF ActionForRecord, ActionForStep

(* All calls at once: what the turn may rely on when it writes the outcome. *)
LEMMA CallsReach ==
    ASSUME NEW w, NEW r, WorldOK(w), RowOK(r), Valid(r),
           r.intent \notin {"Resume", "Retry"}, ~AtBoundary(r),
           ~(r.intent = "Rollback" /\ r.torn),
           r.method # "password" => w.vault = NoSecret,
           NEW act, act = TurnAction(r), NEW o \in Calls(w, r, act)
    PROVE  /\ Reach(w, o.w, r)
           /\ r.torn => o.w.ctl = w.ctl
           /\ o.kind = "done" =>
                /\ act \in {"Rollback", "Remove"} =>
                        \A p \in 1..MaxPairing : p = r.pairing => ~Live(o.w, p)
                /\ act = "ForgetCredential" => o.w.vault = NoSecret
                /\ act = "IssueEnrollment" => o.n \in 0..MaxPairing
                /\ act = "RunSmokeCheck" => Good(o.w)
                /\ act = "CleanupStaging" => Clean(o.w, r.cycle)
           /\ (r.intent = "Continue" /\ r.step = "SmokeCheck" /\ Good(w)) => Good(o.w)
<1>1. r.torn => r.intent \in {"Rollback", "Remove"}
  BY DEF Valid, TeardownConsistent
<1>2. r.intent \in {"Continue", "Rollback", "Remove"}
  BY DEF RowOK, Intents
<1>3. CASE r.intent = "Remove" /\ r.torn
  <2>1. act = "ForgetCredential"
    BY <1>3 DEF TurnAction
  <2>2. o \in DeleteCredential(w, r)
    BY <2>1 DEF Calls
  <2>3. /\ SecretsOnly(w, o.w) /\ (w.vault = NoSecret => o.w.vault = NoSecret)
        /\ o.kind = "done" => o.w.vault = NoSecret
    BY <2>2, DeleteReach
  <2>4. Reach(w, o.w, r) /\ o.w.ctl = w.ctl
    BY <2>3, ReachSteps DEF VaultKept, SecretsOnly
  <2> QED BY <1>3, <2>1, <2>3, <2>4
<1>4. CASE r.intent \in {"Rollback", "Remove"} /\ ~r.torn
  <2>1. act = r.intent
    BY <1>4 DEF TurnAction
  <2>2. o \in Teardown(w, r)
    BY <1>4, <2>1 DEF Calls
  <2>3. /\ Reach(w, o.w, r)
        /\ o.kind = "done" => \A p \in 1..MaxPairing : p = r.pairing => ~Live(o.w, p)
    BY <2>2, TeardownReach
  <2> QED BY <1>4, <2>1, <2>3
<1>5. CASE r.intent = "Continue"
  <2>1. r.step # "Ready" /\ ~r.torn
    BY <1>1, <1>5 DEF AtBoundary
  <2>2. act = ActionForRecord(r)
    BY <1>5 DEF TurnAction
  <2>3. /\ act \in {"BeginSsh", "ProbeHostKey", "Authenticate", "BeginDiscovery",
                 "DiscoverAndStoreCredential", "StageKit", "InstallWorker", "IssueEnrollment",
                 "ApplyEnrollment", "EnableService", "AwaitHeartbeat", "BeginSmokeCheck",
                 "RunSmokeCheck", "CleanupStaging"}
        /\ r.step = "SmokeCheck" =>
                act \in {"BeginSmokeCheck", "RunSmokeCheck", "CleanupStaging"}
    BY <2>1, <2>2, ActionNames
  <2>4. o \in Execute(w, r, act)
    BY <2>3 DEF Calls
  <2>5. CASE act \in {"BeginSsh", "BeginDiscovery", "ProbeHostKey"}
    <3> DEFINE k == w.host.key
    <3> HIDE DEF k
    <3>1. o = Done(w, "", 0) \/ o = Done(w, k, 0) \/ o \in Failures(w, Codes(HandshakeErrors))
      BY <2>4, <2>5 DEF Execute, k
    <3>2. Done(w, "", 0).w = w /\ Done(w, k, 0).w = w
      BY DEF Done, Outcome
    <3>3. o.w = w
      BY <3>1, <3>2, FailuresLeave
    <3> QED BY <2>1, <2>3, <2>5, <3>3, ReachSteps
  <2>6. CASE act = "Authenticate"
    <3>1. o \in Authenticate(w, r)
      BY <2>4, <2>6 DEF Execute
    <3> QED BY <2>1, <2>3, <2>6, <3>1, AuthenticateReach
  <2>7. CASE act \in {"DiscoverAndStoreCredential", "StageKit", "InstallWorker", "EnableService"}
    <3>1. o \in Discover(w, r) \/ o \in StageKit(w, r) \/ o \in InstallWorker(w, r)
          \/ o \in EnableService(w, r)
      BY <2>4, <2>7 DEF Execute
    <3> QED BY <2>1, <2>3, <2>7, <3>1, HostReach
  <2>8. CASE act = "IssueEnrollment"
    <3>1. o \in IssueEnrollment(w, r)
      BY <2>4, <2>8 DEF Execute
    <3> QED BY <2>1, <2>3, <2>8, <3>1, IssueReach
  <2>9. CASE act = "ApplyEnrollment"
    <3>1. o \in Configured(ApplyEnrollment(w, r))
      BY <2>4, <2>9 DEF Execute
    <3> QED BY <2>1, <2>3, <2>9, <3>1, EnrollmentReach
  <2>10. CASE act = "AwaitHeartbeat"
    <3>1. o \in AwaitHeartbeat(w, r)
      BY <2>4, <2>10 DEF Execute
    <3> QED BY <2>1, <2>3, <2>10, <3>1, IdleCalls, ReachSteps
  <2>11. CASE act = "BeginSmokeCheck"
    <3>1. o \in PrepareSmoke(w, r)
      BY <2>4, <2>11 DEF Execute
    <3> QED BY <2>1, <2>11, <3>1, IdleCalls, ReachSteps
  <2>12. CASE act = "RunSmokeCheck"
    <3>1. o \in RunSmoke(w, r)
      BY <2>4, <2>12 DEF Execute
    <3> QED BY <2>1, <2>12, <3>1, IdleCalls, ReachSteps
  <2>13. CASE act = "CleanupStaging"
    <3>1. o \in CleanupStaging(w, r)
      BY <2>4, <2>13 DEF Execute
    <3> QED BY <2>1, <2>13, <3>1, CleanupReach
  <2> QED BY <2>3, <2>5, <2>6, <2>7, <2>8, <2>9, <2>10, <2>11, <2>12, <2>13
<1> QED BY <1>2, <1>3, <1>4, <1>5

-----------------------------------------------------------------------------
(* Writes of the record.                                                   *)

\* The fields the invariant looks at, kept by most writes.
Keeps(r, s) ==
    /\ s.step = r.step /\ s.smoke = r.smoke /\ s.cycle = r.cycle /\ s.pairing = r.pairing /\ s.method = r.method
    /\ s.torn => r.torn

\* A world in which nothing the invariant looks at got worse.
NoWorse(w, v) ==
    /\ WorldOK(v)
    /\ v.demolished = w.demolished
    /\ w.vault = NoSecret => v.vault = NoSecret
    /\ \A p \in 1..MaxPairing : Live(v, p) => Live(w, p)
    /\ Good(w) => Good(v)
    /\ \A c : Clean(w, c) => Clean(v, c)

(* A bumped revision changes nothing else.                                 *)
LEMMA Bumped ==
    ASSUME NEW r, RowOK(r)
    PROVE  LET b == [r EXCEPT !.rev = @ + 1]
           IN  /\ RowOK(b) /\ b.rev = r.rev + 1 /\ b.step = r.step /\ b.smoke = r.smoke
               /\ b.cycle = r.cycle
               /\ b.pairing = r.pairing /\ b.method = r.method /\ b.torn = r.torn
               /\ b.key = r.key /\ b.approved = r.approved
  BY DEF RowOK, RecFields

(* What an attempt to save does to the journal and to the turn's claim on it. *)
LEMMA Written ==
    ASSUME PvInv, rec # NoComputer, NEW next, RowOK(next), rec' = Saved(rec, next),
           turn' = turn \/ turn'.st # "commit"
    PROVE  /\ rec' # NoComputer /\ JournalOK' /\ TurnLoaded'
           /\ \/ rec' = rec
              \/ /\ SaveAccepted(rec, next)
                 /\ rec.rev = next.rev /\ rec'.rev = rec.rev + 1 /\ rec.rev \in Nat
                 /\ rec'.step = next.step /\ rec'.smoke = next.smoke /\ rec'.cycle = next.cycle
                 /\ rec'.pairing = next.pairing /\ rec'.method = next.method
                 /\ rec'.torn = next.torn /\ Valid(rec')
<1>1. RowOK(rec) /\ Valid(rec)
  BY DEF PvInv, JournalOK
<1>2. CASE ~SaveAccepted(rec, next)
  <2>1. rec' = rec
    BY <1>2 DEF Saved
  <2>2. JournalOK'
    BY <2>1 DEF PvInv, JournalOK
  <2>3. TurnLoaded'
    BY <2>1 DEF PvInv, TurnLoaded
  <2> QED BY <2>1, <2>2, <2>3
<1>3. CASE SaveAccepted(rec, next)
  <2> DEFINE b == [next EXCEPT !.rev = @ + 1]
  <2>1. rec' = b
    BY <1>3 DEF Saved
  <2>2. Valid(b) /\ rec.rev = next.rev
    BY <1>3 DEF SaveAccepted
  <2>3. /\ RowOK(b) /\ b.rev = next.rev + 1 /\ b.step = next.step /\ b.smoke = next.smoke
        /\ b.cycle = next.cycle
        /\ b.pairing = next.pairing /\ b.method = next.method /\ b.torn = next.torn
    BY Bumped
  <2> HIDE DEF b
  <2>4. rec.rev \in Nat /\ b.id = "computer"
    BY <1>1, <2>3 DEF RowOK
  <2>5. b # NoComputer
    BY <2>4 DEF NoComputer
  <2>6. JournalOK'
    BY <2>1, <2>2, <2>3 DEF JournalOK
  <2>7. TurnLoaded'
    <3> SUFFICES ASSUME turn'.st = "commit" PROVE TurnLoaded'
      BY DEF TurnLoaded
    <3>1. turn' = turn
      OBVIOUS
    <3>2. turn.rec.rev \in Nat /\ turn.rec.rev <= rec.rev
      BY <3>1 DEF PvInv, TurnLoaded, RowOK
    <3>3. turn.rec.rev <= rec'.rev /\ rec'.rev # turn.rec.rev
      BY <2>1, <2>2, <2>3, <2>4, <3>2
    <3> QED BY <2>1, <2>5, <3>1, <3>3 DEF PvInv, TurnLoaded
  <2> QED BY <1>3, <2>1, <2>2, <2>3, <2>4, <2>5, <2>6, <2>7
<1> QED BY <1>2, <1>3

(* What the turn did survives a step of anyone else that makes nothing worse. *)
LEMMA DidKept ==
    ASSUME PvInv, NoWorse(world, world'), turn' = turn \/ turn'.st # "commit",
           rec' = rec \/ (rec # NoComputer /\ rec.rev \in Nat /\ rec'.rev = rec.rev + 1)
    PROVE  TurnDid'
<1> SUFFICES ASSUME turn'.st = "commit", turn'.kind = "done" PROVE TurnDid'
  BY DEF TurnDid
<1>1. turn' = turn
  OBVIOUS
<1>2. turn.st = "commit" /\ turn.kind = "done"
  BY <1>1
<1>3. turn.rec.rev \in Nat /\ turn.rec.rev <= rec.rev
  BY <1>2 DEF PvInv, TurnLoaded, RowOK
<1>4. rec'.rev = turn.rec.rev => rec'.rev = rec.rev
  BY <1>3
<1>5. /\ turn.act \in {"Rollback", "Remove"} =>
                \A p \in 1..MaxPairing : p = turn.rec.pairing => ~Live(world, p)
      /\ turn.act = "ForgetCredential" => world.vault = NoSecret
      /\ turn.act = "IssueEnrollment" => turn.n \in 0..MaxPairing
      /\ (turn.act = "RunSmokeCheck" /\ rec.rev = turn.rec.rev /\ ~world.demolished)
                => Good(world)
      /\ (turn.act = "CleanupStaging" /\ rec.rev = turn.rec.rev /\ ~world.demolished)
                => Clean(world, turn.rec.cycle)
  BY <1>2 DEF PvInv, TurnDid
<1>6. /\ turn.act \in {"Rollback", "Remove"} =>
                \A p \in 1..MaxPairing : p = turn.rec.pairing => ~Live(world', p)
      /\ turn.act = "ForgetCredential" => world'.vault = NoSecret
      /\ (turn.act = "RunSmokeCheck" /\ rec'.rev = turn.rec.rev /\ ~world'.demolished)
                => Good(world')
      /\ (turn.act = "CleanupStaging" /\ rec'.rev = turn.rec.rev /\ ~world'.demolished)
                => Clean(world', turn.rec.cycle)
  BY <1>4, <1>5 DEF NoWorse
<1> QED BY <1>1, <1>5, <1>6 DEF TurnDid

(* The record stays, or is rewritten in fields the invariant does not see. *)
LEMMA KeepStep ==
    ASSUME PvInv, NoWorse(world, world'), turn' = turn \/ turn'.st # "commit",
           \/ rec' = rec
           \/ \E next : /\ rec # NoComputer /\ RowOK(next) /\ rec' = Saved(rec, next)
                        /\ SaveAccepted(rec, next) => Keeps(rec, next)
    PROVE  PvInv'
<1>1. CASE rec' = rec
  <2>1. WorldOK(world')
    BY DEF NoWorse
  <2>2. JournalOK' /\ TurnLoaded'
    BY <1>1 DEF PvInv, JournalOK, TurnLoaded
  <2>3. PairingJournaled' /\ TornOK'
    BY <1>1 DEF PvInv, PairingJournaled, TornOK, NoneLive, NoWorse, Live
  <2>4. VaultOK' /\ SmokeOK' /\ ReadyOK'
    BY <1>1 DEF PvInv, VaultOK, SmokeOK, ReadyOK, NoWorse
  <2>5. TurnDid'
    BY <1>1, DidKept
  <2> QED BY <2>1, <2>2, <2>3, <2>4, <2>5 DEF PvInv
<1>2. CASE \E next : /\ rec # NoComputer /\ RowOK(next) /\ rec' = Saved(rec, next)
                     /\ SaveAccepted(rec, next) => Keeps(rec, next)
  <2>1. PICK next : /\ rec # NoComputer /\ RowOK(next) /\ rec' = Saved(rec, next)
                    /\ SaveAccepted(rec, next) => Keeps(rec, next)
    BY <1>2
  <2>2. /\ rec' # NoComputer /\ JournalOK' /\ TurnLoaded'
        /\ \/ rec' = rec
           \/ /\ SaveAccepted(rec, next)
              /\ rec.rev = next.rev /\ rec'.rev = rec.rev + 1 /\ rec.rev \in Nat
              /\ rec'.step = next.step /\ rec'.smoke = next.smoke /\ rec'.cycle = next.cycle
              /\ rec'.pairing = next.pairing /\ rec'.method = next.method
              /\ rec'.torn = next.torn /\ Valid(rec')
    BY <2>1, Written
  <2>3. /\ rec'.step = rec.step /\ rec'.smoke = rec.smoke /\ rec'.cycle = rec.cycle
        /\ rec'.pairing = rec.pairing /\ rec'.method = rec.method
        /\ rec'.torn => rec.torn
    BY <2>1, <2>2 DEF Keeps
  <2>4. PairingJournaled' /\ TornOK'
    BY <2>1, <2>2, <2>3 DEF PvInv, PairingJournaled, TornOK, NoneLive, NoWorse, Live
  <2>5. VaultOK' /\ SmokeOK' /\ ReadyOK'
    BY <2>1, <2>2, <2>3 DEF PvInv, VaultOK, SmokeOK, ReadyOK, NoWorse
  <2>6. TurnDid'
    BY <2>1, <2>2, DidKept
  <2>7. WorldOK(world')
    BY DEF NoWorse
  <2> QED BY <2>2, <2>4, <2>5, <2>6, <2>7 DEF PvInv
<1> QED BY <1>1, <1>2

-----------------------------------------------------------------------------
(* The records the engine and the commands write.                          *)

\* The pin survives, and so does its approval.
PinSurvives(r, s) ==
    /\ r.key # NoKey => s.key = r.key
    /\ r.approved => s.approved

(* Failures, waits, retries, approvals and requests leave the checkpoint alone. *)
LEMMA QuietWrites ==
    ASSUME NEW r, RowOK(r), NEW code
    PROVE  /\ RowOK(FailedRecord(r, code)) /\ Keeps(r, FailedRecord(r, code))
           /\ PinSurvives(r, FailedRecord(r, code)) /\ FailedRecord(r, code).rev = r.rev
           /\ RowOK(CredentialRequired(r)) /\ Keeps(r, CredentialRequired(r))
           /\ PinSurvives(r, CredentialRequired(r)) /\ CredentialRequired(r).rev = r.rev
           /\ RowOK(Retried(r)) /\ Keeps(r, Retried(r)) /\ PinSurvives(r, Retried(r))
<1>1. /\ RowOK(FailedRecord(r, code)) /\ Keeps(r, FailedRecord(r, code))
      /\ PinSurvives(r, FailedRecord(r, code)) /\ FailedRecord(r, code).rev = r.rev
  <2> DEFINE rejected == code \in AuthRejections
             a == Retryable(code)
             b == IF rejected THEN "Pending" ELSE r.cred
             c == ~rejected /\ r.ref
             v == [r EXCEPT !.code = code, !.retryable = a, !.intent = "Continue",
                            !.cred = b, !.ref = c]
  <2>1. FailedRecord(r, code) = v
    BY DEF FailedRecord, RowOK, RecFields
  <2> HIDE DEF rejected, a, b, c
  <2>2. RowOK(v) /\ Keeps(r, v) /\ PinSurvives(r, v) /\ v.rev = r.rev
    BY DEF RowOK, RecFields, Keeps, PinSurvives, Intents
  <2> QED BY <2>1, <2>2
<1>2. /\ RowOK(CredentialRequired(r)) /\ Keeps(r, CredentialRequired(r))
      /\ PinSurvives(r, CredentialRequired(r)) /\ CredentialRequired(r).rev = r.rev
  BY DEF CredentialRequired, RowOK, RecFields, Keeps, PinSurvives
<1>3. RowOK(Retried(r)) /\ Keeps(r, Retried(r)) /\ PinSurvives(r, Retried(r))
  BY DEF Retried, RowOK, RecFields, Keeps, PinSurvives, Intents
<1> QED BY <1>1, <1>2, <1>3

(* A completed action, field by field.                                     *)
LEMMA CompletedFields ==
    ASSUME NEW r, RowOK(r), r.step # "Ready", NEW act, act = ActionForRecord(r),
           NEW data, NEW n, act = "IssueEnrollment" => n \in 0..MaxPairing,
           ~CompletionRefused(r, act, data, n)
    PROVE  LET c == Completed(r, act, data, n)
           IN  /\ RowOK(c) /\ c.rev = r.rev /\ c.method = r.method /\ c.torn = r.torn
               /\ c.cycle = r.cycle
               /\ PinSurvives(r, c)
               /\ c.pairing = r.pairing \/ r.pairing = 0
               /\ c.step = "Ready" => act = "CleanupStaging" /\ r.step = "SmokeCheck"
               /\ c.smoke # "absent" =>
                    \/ c.smoke = r.smoke
                    \/ act = "RunSmokeCheck" /\ c.step = "SmokeCheck"
               /\ r.step = "SmokeCheck" => c.step \in {"SmokeCheck", "Ready"}
<1> DEFINE c == Completed(r, act, data, n)
           Goal(v) == /\ RowOK(v) /\ v.rev = r.rev /\ v.method = r.method /\ v.torn = r.torn
                      /\ v.cycle = r.cycle
                      /\ PinSurvives(r, v)
                      /\ v.pairing = r.pairing \/ r.pairing = 0
                      /\ v.step = "Ready" => act = "CleanupStaging" /\ r.step = "SmokeCheck"
                      /\ v.smoke # "absent" =>
                            \/ v.smoke = r.smoke
                            \/ act = "RunSmokeCheck" /\ v.step = "SmokeCheck"
                      /\ r.step = "SmokeCheck" => v.step \in {"SmokeCheck", "Ready"}
<1>1. /\ act \in {"BeginSsh", "ProbeHostKey", "Authenticate", "BeginDiscovery",
                 "DiscoverAndStoreCredential", "StageKit", "InstallWorker", "IssueEnrollment",
                 "ApplyEnrollment", "EnableService", "AwaitHeartbeat", "BeginSmokeCheck",
                 "RunSmokeCheck", "CleanupStaging"}
      /\ r.step = "SmokeCheck" => act \in {"BeginSmokeCheck", "RunSmokeCheck", "CleanupStaging"}
      /\ r.step # "SmokeCheck" => act \notin {"RunSmokeCheck", "CleanupStaging"}
  BY ActionNames
<1>2. /\ "SshConnecting" \in StepSet /\ "HostKeyPending" \in StepSet
      /\ "Authenticated" \in StepSet /\ "Discovering" \in StepSet
      /\ "CredentialStored" \in StepSet /\ "KitStaged" \in StepSet
      /\ "WorkerInstalled" \in StepSet /\ "EnrollmentIssued" \in StepSet
      /\ "Paired" \in StepSet /\ "ServiceEnabled" \in StepSet
      /\ "HeartbeatSeen" \in StepSet /\ "SmokeCheck" \in StepSet /\ "Ready" \in StepSet
  BY StepNames
<1>3. /\ act = "ProbeHostKey" => r.key = NoKey \/ r.key = data
      /\ act = "IssueEnrollment" => r.pairing = 0 \/ r.pairing = n
  BY DEF CompletionRefused
<1>4. ASSUME NEW s \in StepSet, s # "Ready", r.step # "SmokeCheck"
      PROVE  Goal([r EXCEPT !.step = s])
  BY <1>4 DEF RowOK, RecFields, PinSurvives
<1>5. CASE act \in {"BeginSsh", "BeginDiscovery", "StageKit", "InstallWorker", "EnableService"}
  <2>1. PICK s \in StepSet : s # "Ready" /\ c = [r EXCEPT !.step = s]
    <3> DEFINE t == IF InPlaceRepair(r) THEN "ServiceEnabled" ELSE "WorkerInstalled"
    <3>1. t \in StepSet /\ t # "Ready"
      BY <1>2
    <3> HIDE DEF t
    <3>2. CASE act = "BeginSsh"
      BY <1>2, <3>2 DEF Completed
    <3>3. CASE act = "BeginDiscovery"
      BY <1>2, <3>3 DEF Completed
    <3>4. CASE act = "StageKit"
      BY <1>2, <3>4 DEF Completed
    <3>5. CASE act = "InstallWorker"
      BY <3>1, <3>5 DEF Completed, t
    <3>6. CASE act = "EnableService"
      BY <1>2, <3>6 DEF Completed
    <3> QED BY <1>5, <3>2, <3>3, <3>4, <3>5, <3>6
  <2>2. r.step # "SmokeCheck"
    BY <1>1, <1>5
  <2> HIDE DEF c, Goal
  <2>3. Goal([r EXCEPT !.step = s])
    BY <1>4, <2>1, <2>2
  <2>4. Goal(c)
    BY <2>1, <2>3
  <2> QED BY <2>4 DEF Goal, c
<1>6. CASE act = "ProbeHostKey"
  <2>1. c = [r EXCEPT !.key = data, !.step = "HostKeyPending"]
    BY <1>6 DEF Completed
  <2> HIDE DEF c
  <2>2. Goal(c)
    BY <1>1, <1>2, <1>3, <1>6, <2>1 DEF RowOK, RecFields, PinSurvives
  <2> QED BY <2>2 DEF c
<1>7. CASE act = "Authenticate"
  <2> DEFINE b == data = "Stored"
  <2>1. c = [r EXCEPT !.cred = data, !.ref = b, !.step = "Authenticated"]
    BY <1>7 DEF Completed
  <2> HIDE DEF b, c
  <2>2. Goal(c)
    BY <1>1, <1>2, <1>7, <2>1 DEF RowOK, RecFields, PinSurvives
  <2> QED BY <2>2 DEF c
<1>8. CASE act = "DiscoverAndStoreCredential"
  <2> DEFINE a == IF r.method = "password" /\ r.cred = "Stored" THEN "Stored" ELSE "SessionOnly"
             b == r.method = "password" /\ r.cred = "Stored"
  <2>1. c = [r EXCEPT !.inventory = data, !.step = "CredentialStored", !.cred = a, !.ref = b]
    BY <1>8 DEF Completed, RowOK, RecFields
  <2> HIDE DEF a, b, c
  <2>2. Goal(c)
    BY <1>1, <1>2, <1>8, <2>1 DEF RowOK, RecFields, PinSurvives
  <2> QED BY <2>2 DEF c
<1>9. CASE act = "IssueEnrollment"
  <2>1. c = [r EXCEPT !.pairing = n, !.step = "EnrollmentIssued"]
    BY <1>9 DEF Completed
  <2> HIDE DEF c
  <2>2. Goal(c)
    BY <1>1, <1>2, <1>3, <1>9, <2>1 DEF RowOK, RecFields, PinSurvives
  <2> QED BY <2>2 DEF c
<1>10. CASE act = "ApplyEnrollment"
  <2>1. c = [r EXCEPT !.paired = TRUE, !.step = "Paired"]
    BY <1>10 DEF Completed
  <2> HIDE DEF c
  <2>2. Goal(c)
    BY <1>1, <1>2, <1>10, <2>1 DEF RowOK, RecFields, PinSurvives
  <2> QED BY <2>2 DEF c
<1>11. CASE act = "AwaitHeartbeat"
  <2>1. c = [r EXCEPT !.beat = TRUE, !.step = "HeartbeatSeen"]
    BY <1>11 DEF Completed
  <2> HIDE DEF c
  <2>2. Goal(c)
    BY <1>1, <1>2, <1>11, <2>1 DEF RowOK, RecFields, PinSurvives
  <2> QED BY <2>2 DEF c
<1>12. CASE act = "BeginSmokeCheck"
  <2>1. c = [r EXCEPT !.legacy = FALSE, !.bound = n, !.smoke = "absent", !.step = "SmokeCheck"]
    BY <1>12 DEF Completed
  <2> HIDE DEF c
  <2>2. Goal(c)
    BY <1>1, <1>2, <1>12, <2>1 DEF RowOK, RecFields, PinSurvives
  <2> QED BY <2>2 DEF c
<1>13. CASE act = "RunSmokeCheck"
  <2>1. c = [r EXCEPT !.smoke = data]
    BY <1>13 DEF Completed
  <2> HIDE DEF c
  <2>2. Goal(c)
    BY <1>1, <1>2, <1>13, <2>1 DEF RowOK, RecFields, PinSurvives
  <2> QED BY <2>2 DEF c
<1>14. CASE act = "CleanupStaging"
  <2>1. c = [r EXCEPT !.step = "Ready"]
    BY <1>14 DEF Completed
  <2> HIDE DEF c
  <2>2. Goal(c)
    BY <1>1, <1>2, <1>14, <2>1 DEF RowOK, RecFields, PinSurvives
  <2> QED BY <2>2 DEF c
<1> QED BY <1>1, <1>5, <1>6, <1>7, <1>8, <1>9, <1>10, <1>11, <1>12, <1>13, <1>14

(* Which checkpoints a step lies before or after.                          *)
LEMMA StepOrder ==
    /\ ~AtLeast("Draft", "HostKeyPending") /\ ~AtLeast("Draft", "Authenticated")
    /\ ~AtLeast("Draft", "CredentialStored") /\ ~AtLeast("Draft", "EnrollmentIssued")
    /\ ~AtLeast("Draft", "Paired") /\ ~AtLeast("Draft", "HeartbeatSeen")
    /\ ~AtLeast("Draft", "SmokeCheck")
    /\ ~AtLeast("CredentialStored", "EnrollmentIssued")
    /\ ~AtLeast("CredentialStored", "Paired") /\ ~AtLeast("CredentialStored", "HeartbeatSeen")
    /\ ~AtLeast("CredentialStored", "SmokeCheck")
    /\ AtLeast("Ready", "HostKeyPending") /\ AtLeast("Ready", "Authenticated")
    /\ AtLeast("Ready", "CredentialStored") /\ AtLeast("Ready", "EnrollmentIssued")
    /\ AtLeast("Ready", "Paired") /\ AtLeast("Ready", "HeartbeatSeen")
    /\ AtLeast("SmokeCheck", "HostKeyPending") /\ AtLeast("SmokeCheck", "Authenticated")
    /\ AtLeast("SmokeCheck", "CredentialStored") /\ AtLeast("SmokeCheck", "EnrollmentIssued")
    /\ AtLeast("SmokeCheck", "Paired") /\ AtLeast("SmokeCheck", "HeartbeatSeen")
  BY StepNames DEF AtLeast

\* The record BeginRepair writes.
RepairRecord(r) ==
    [r EXCEPT !.cycle = @ + 1, !.step = "CredentialStored",
              !.intent = "Continue", !.torn = FALSE, !.beat = FALSE, !.bound = 0,
              !.smoke = "absent", !.legacy = FALSE,
              !.cred = IF @ = "Forgotten" THEN "SessionOnly" ELSE @]

(* The reset after a rollback is always accepted by the journal.           *)
LEMMA ResetAccepted ==
    ASSUME NEW r, RowOK(r), Valid(r), r.cycle < MaxCycle
    PROVE  LET v == ResetAfterRollback(r)
           IN  /\ RowOK(v) /\ v.rev = r.rev /\ v.method = r.method /\ PinSurvives(r, v)
               /\ v.step = "Draft" /\ v.smoke = "absent" /\ v.pairing = 0 /\ v.torn = FALSE
               /\ Valid([v EXCEPT !.rev = @ + 1])
<1> DEFINE k == IF r.cred = "Forgotten" THEN "SessionOnly" ELSE r.cred
           c == r.cycle + 1
           v == [r EXCEPT !.cycle = c, !.step = "Draft", !.code = "", !.retryable = FALSE,
                          !.intent = "Continue", !.torn = FALSE, !.inventory = "absent",
                          !.cred = k, !.pairing = 0, !.paired = FALSE, !.beat = FALSE,
                          !.bound = 0, !.smoke = "absent", !.legacy = FALSE]
           b == [v EXCEPT !.rev = @ + 1]
<1>1. ResetAfterRollback(r) = v
  BY DEF ResetAfterRollback, RowOK, RecFields
<1>2. c \in 0..MaxCycle /\ "Draft" \in StepSet /\ 0 \in 0..MaxPairing /\ "Continue" \in Intents
  BY RecordAssumption, StepNames DEF RowOK, Intents
<1>3. k # "Forgotten" /\ (k = "Stored" <=> r.cred = "Stored")
  OBVIOUS
<1> HIDE DEF k, c
<1>4. /\ RowOK(v) /\ v.rev = r.rev /\ v.method = r.method /\ PinSurvives(r, v)
      /\ v.step = "Draft" /\ v.smoke = "absent" /\ v.pairing = 0 /\ v.torn = FALSE
  BY <1>2 DEF RowOK, RecFields, PinSurvives
<1>5. /\ b.step = "Draft" /\ b.smoke = "absent" /\ b.torn = FALSE /\ b.method = r.method
      /\ b.remember = r.remember /\ b.ref = r.ref /\ b.cred = k /\ b.legacy = FALSE
      /\ b.bound = 0 /\ b.intent = "Continue"
  BY DEF RowOK, RecFields
<1> HIDE DEF b, v
<1>6. /\ r.method # "password" => ~r.remember /\ ~r.ref /\ r.cred # "Stored"
      /\ r.ref <=> r.cred = "Stored"
  BY DEF Valid, AuthenticationConsistent, ReferenceConsistent
<1>7. /\ AuthenticationConsistent(b) /\ TimestampsOrdered(b) /\ TeardownConsistent(b)
      /\ ReferenceConsistent(b) /\ ReadyCheckpoint(b) /\ IntentValid(b)
  BY <1>3, <1>5, <1>6 DEF AuthenticationConsistent, TimestampsOrdered, TeardownConsistent,
        ReferenceConsistent, ReadyCheckpoint, IntentValid
<1>8. /\ HostKeyCheckpoint(b) /\ CredentialCheckpoint(b) /\ PairingCheckpoint(b)
      /\ SmokeCheckpoint(b)
  BY <1>3, <1>5, StepOrder DEF HostKeyCheckpoint, CredentialCheckpoint, PairingCheckpoint,
        SmokeCheckpoint
<1>9. Valid(b)
  BY <1>7, <1>8 DEF Valid
<1> QED BY <1>1, <1>4, <1>9 DEF b

(* And so is the start of a repair.                                        *)
LEMMA RepairAccepted ==
    ASSUME NEW r, RowOK(r), Valid(r), r.cycle < MaxCycle, r.step = "Ready", ~Failed(r)
    PROVE  LET v == RepairRecord(r)
           IN  /\ RowOK(v) /\ v.rev = r.rev /\ v.method = r.method /\ PinSurvives(r, v)
               /\ v.step = "CredentialStored" /\ v.smoke = "absent"
               /\ v.pairing = r.pairing /\ v.torn = FALSE
               /\ Valid([v EXCEPT !.rev = @ + 1])
<1> DEFINE k == IF r.cred = "Forgotten" THEN "SessionOnly" ELSE r.cred
           c == r.cycle + 1
           v == [r EXCEPT !.cycle = c, !.step = "CredentialStored",
                          !.intent = "Continue", !.torn = FALSE, !.beat = FALSE, !.bound = 0,
                          !.smoke = "absent", !.legacy = FALSE, !.cred = k]
           b == [v EXCEPT !.rev = @ + 1]
<1>1. RepairRecord(r) = v
  BY DEF RepairRecord, RowOK, RecFields
<1>2. c \in 0..MaxCycle /\ "CredentialStored" \in StepSet /\ "Continue" \in Intents
  BY RecordAssumption, StepNames DEF RowOK, Intents
<1>3. k # "Forgotten" /\ (k = "Stored" <=> r.cred = "Stored")
  OBVIOUS
<1>4. /\ r.method # "password" => ~r.remember /\ ~r.ref /\ r.cred # "Stored"
      /\ r.ref <=> r.cred = "Stored"
      /\ r.key # NoKey /\ r.approved
      /\ InventoryValid(r.inventory) /\ k \in {"Stored", "SessionOnly"}
  BY StepOrder DEF Valid, AuthenticationConsistent, ReferenceConsistent, HostKeyCheckpoint,
        CredentialCheckpoint
<1> HIDE DEF k, c
<1>5. /\ RowOK(v) /\ v.rev = r.rev /\ v.method = r.method /\ PinSurvives(r, v)
      /\ v.step = "CredentialStored" /\ v.smoke = "absent"
      /\ v.pairing = r.pairing /\ v.torn = FALSE
  BY <1>2 DEF RowOK, RecFields, PinSurvives
<1>6. /\ b.step = "CredentialStored" /\ b.smoke = "absent" /\ b.torn = FALSE
      /\ b.method = r.method /\ b.key = r.key /\ b.approved = r.approved
      /\ b.inventory = r.inventory
      /\ b.remember = r.remember /\ b.ref = r.ref /\ b.cred = k /\ b.legacy = FALSE
      /\ b.bound = 0 /\ b.intent = "Continue"
  BY DEF RowOK, RecFields
<1> HIDE DEF b, v
<1>7. /\ AuthenticationConsistent(b) /\ TimestampsOrdered(b) /\ TeardownConsistent(b)
      /\ ReferenceConsistent(b) /\ ReadyCheckpoint(b) /\ IntentValid(b)
  BY <1>3, <1>4, <1>6 DEF AuthenticationConsistent, TimestampsOrdered, TeardownConsistent,
        ReferenceConsistent, ReadyCheckpoint, IntentValid
<1>8. /\ HostKeyCheckpoint(b) /\ CredentialCheckpoint(b) /\ PairingCheckpoint(b)
      /\ SmokeCheckpoint(b)
  BY <1>3, <1>4, <1>6, StepOrder DEF HostKeyCheckpoint, CredentialCheckpoint,
        PairingCheckpoint, SmokeCheckpoint
<1>9. Valid(b)
  BY <1>7, <1>8 DEF Valid
<1> QED BY <1>1, <1>5, <1>9 DEF b

(* A new record validates.                                                 *)
LEMMA NewRecordValid ==
    ASSUME NEW in, in.remember => in.method = "password"
    PROVE  LET v == NewRecord(in)
           IN  /\ RowOK(v) /\ Valid(v) /\ v # NoComputer /\ v.rev = 1 /\ v.torn = FALSE
               /\ v.smoke = "absent" /\ v.step = "Draft" /\ v.pairing = 0
               /\ v.method = in.method
<1> DEFINE v == NewRecord(in)
<1>1. "Draft" \in StepSet /\ 0 \in 0..MaxPairing /\ "Continue" \in Intents /\ 0 \in 0..MaxCycle
  BY RecordAssumption, StepNames DEF Intents
<1>2. /\ v = [f \in RecFields |-> v[f]] /\ v.id = "computer" /\ v.rev = 1 /\ v.cycle = 0
      /\ v.step = "Draft" /\ v.intent = "Continue" /\ v.pairing = 0 /\ v.torn = FALSE
      /\ v.smoke = "absent" /\ v.method = in.method /\ v.remember = in.remember
      /\ v.ref = FALSE /\ v.cred = "Pending" /\ v.legacy = FALSE /\ v.bound = 0
  BY DEF NewRecord, RecFields
<1> HIDE DEF v
<1>3. RowOK(v)
  BY <1>1, <1>2 DEF RowOK
<1>4. v # NoComputer
  BY <1>2 DEF NoComputer
<1>5. /\ AuthenticationConsistent(v) /\ TimestampsOrdered(v) /\ TeardownConsistent(v)
      /\ ReferenceConsistent(v) /\ ReadyCheckpoint(v) /\ IntentValid(v)
  BY <1>2 DEF AuthenticationConsistent, TimestampsOrdered, TeardownConsistent,
        ReferenceConsistent, ReadyCheckpoint, IntentValid
<1>6. /\ HostKeyCheckpoint(v) /\ CredentialCheckpoint(v) /\ PairingCheckpoint(v)
      /\ SmokeCheckpoint(v)
  BY <1>2, StepOrder DEF HostKeyCheckpoint, CredentialCheckpoint, PairingCheckpoint,
        SmokeCheckpoint
<1> QED BY <1>2, <1>3, <1>4, <1>5, <1>6 DEF Valid, v

(* So do the records of an older release.                                  *)
LEMMA LegacyValid ==
    ASSUME NEW r \in LegacyRecords
    PROVE  /\ RowOK(r) /\ Valid(r) /\ r # NoComputer /\ r.pairing = 1 /\ r.torn = FALSE
           /\ r.step \in {"SmokeCheck", "Ready"} /\ r.method = "password"
<1>0. PICK s \in {"SmokeCheck", "Ready"}, k \in HostKeys : r = LegacyRecord(s, k)
  BY DEF LegacyRecords
<1> DEFINE m == IF s = "Ready" THEN "after" ELSE "absent"
           n == NewRecord([method |-> "password", remember |-> FALSE])
<1>1. /\ n = [f \in RecFields |-> n[f]] /\ n.id = "computer" /\ n.rev = 1 /\ n.cycle = 0
      /\ n.intent = "Continue" /\ n.torn = FALSE /\ n.code = ""
      /\ n.method = "password" /\ n.ref = FALSE /\ n.bound = 0
  BY DEF NewRecord, RecFields
<1>2. m # "before" /\ (s = "Ready" => m # "absent")
  OBVIOUS
<1> HIDE DEF m, n
<1>3. r = [n EXCEPT !.legacy = TRUE, !.step = s, !.pairing = 1, !.paired = TRUE, !.key = k,
              !.approved = TRUE, !.inventory = "none", !.cred = "SessionOnly", !.beat = TRUE,
              !.smoke = m]
  BY <1>0 DEF LegacyRecord, m, n
<1>4. r = [f \in RecFields |-> r[f]] /\ r.id = "computer"
  BY <1>1, <1>3 DEF RecFields
<1>5. r.rev = 1 /\ r.cycle = 0 /\ r.pairing = 1 /\ r.bound = 0
  BY <1>1, <1>3 DEF RecFields
<1>6. /\ r.intent = "Continue" /\ r.code = "" /\ r.method = "password"
      /\ r.inventory = "none" /\ r.cred = "SessionOnly"
  BY <1>1, <1>3 DEF RecFields
<1>7. r.step = s /\ r.key = k /\ r.smoke = m
  BY <1>1, <1>3 DEF RecFields
<1>8. /\ r.torn = FALSE /\ r.ref = FALSE /\ r.legacy = TRUE /\ r.paired = TRUE
      /\ r.approved = TRUE /\ r.beat = TRUE
  BY <1>1, <1>3 DEF RecFields
<1>9. r.rev \in Nat /\ r.cycle \in 0..MaxCycle /\ r.pairing \in 0..MaxPairing
  BY <1>5, RecordAssumption
<1>10. r.step \in StepSet /\ r.intent \in Intents
  BY <1>6, <1>7, StepNames DEF Intents
<1>11. RowOK(r)
  BY <1>4, <1>9, <1>10, Zenon DEF RowOK
<1>12. r # NoComputer
  BY <1>4 DEF NoComputer
<1>13. r.key # NoKey
  BY <1>7, RecordAssumption
<1>14. AuthenticationConsistent(r) /\ ReferenceConsistent(r) /\ IntentValid(r)
  BY <1>6, <1>8 DEF AuthenticationConsistent, ReferenceConsistent, IntentValid
<1>15. TimestampsOrdered(r) /\ TeardownConsistent(r) /\ ReadyCheckpoint(r)
  BY <1>2, <1>7, <1>8 DEF TimestampsOrdered, TeardownConsistent, ReadyCheckpoint
<1>16. HostKeyCheckpoint(r) /\ PairingCheckpoint(r) /\ SmokeCheckpoint(r)
  BY <1>5, <1>8, <1>13 DEF HostKeyCheckpoint, PairingCheckpoint, SmokeCheckpoint
<1>17. CredentialCheckpoint(r)
  BY <1>6 DEF CredentialCheckpoint, InventoryValid
<1>18. Valid(r)
  BY <1>14, <1>15, <1>16, <1>17 DEF Valid
<1> QED BY <1>5, <1>6, <1>7, <1>8, <1>11, <1>12, <1>18

-----------------------------------------------------------------------------
(* The initial states.                                                     *)

(* A world without a computer.                                             *)
LEMMA FirstWorlds ==
    ASSUME NEW k, NEW p
    PROVE  LET w == BlankWorld(k, p)
           IN  /\ WorldOK(w) /\ w.vault = NoSecret /\ ~w.demolished /\ NoneLive(w)
               /\ w.host.staging = {} /\ w.host.enrollment = {}
<1> DEFINE w == BlankWorld(k, p)
           i == [c \in 0..MaxCycle |-> 0]
           f == [x \in 1..MaxPairing |-> "absent"]
<1>1. /\ i \in [0..MaxCycle -> 0..MaxPairing] /\ f \in [1..MaxPairing -> Phases]
      /\ 0 \in 0..MaxPairing /\ \A x \in 1..MaxPairing : f[x] = "absent"
  BY RecordAssumption DEF Phases
<1>2. w.ctl.issued = i /\ w.ctl.phase = f
  BY DEF BlankWorld
<1>3. /\ w.host.cred = 0 /\ w.vault = NoSecret /\ w.demolished = FALSE
      /\ w.host.staging = {} /\ w.host.enrollment = {}
  BY DEF BlankWorld
<1>4. /\ w = [g \in {"host", "vault", "trans", "demolished", "ctl"} |-> w[g]]
      /\ w.host = [g \in {"key", "password", "staging", "enrollment", "worker", "cred"} |-> w.host[g]]
      /\ w.ctl = [g \in {"issued", "phase", "beat"} |-> w.ctl[g]]
  <2> HIDE DEF i, f
  <2> QED BY DEF BlankWorld
<1> HIDE DEF w, i, f
<1>5. WorldOK(w)
  BY <1>1, <1>2, <1>3, <1>4 DEF WorldOK
<1>6. NoneLive(w)
  BY <1>1, <1>2 DEF NoneLive, Live
<1> QED BY <1>3, <1>5, <1>6 DEF w

(* The host of a record written by an older release.                       *)
LEMMA LegacyWorlds ==
    ASSUME NEW r, NEW p
    PROVE  LET w == LegacyWorld(r, p)
           IN  /\ WorldOK(w) /\ w.vault = NoSecret /\ Good(w)
               /\ \A x \in 1..MaxPairing : Live(w, x) => x = 1
               /\ r.step = "Ready" => \A c : Clean(w, c)
<1> DEFINE b == BlankWorld(r.key, p)
           s == IF r.step = "Ready" THEN {} ELSE {0}
           w == [b EXCEPT !.host.worker = "running", !.host.cred = 1, !.host.staging = s,
                          !.ctl.issued[0] = 1, !.ctl.phase[1] = "ready"]
<1>1. LegacyWorld(r, p) = w
  BY DEF LegacyWorld
<1>2. WorldOK(b) /\ b.vault = NoSecret /\ NoneLive(b) /\ b.host.enrollment = {}
  BY FirstWorlds
<1>3. r.step = "Ready" => s = {}
  OBVIOUS
<1> HIDE DEF b, s
<1>4. /\ w = [g \in {"host", "vault", "trans", "demolished", "ctl"} |-> w[g]]
      /\ w.vault = NoSecret
      /\ w.host = [b.host EXCEPT !.worker = "running", !.cred = 1, !.staging = s]
      /\ w.ctl = [b.ctl EXCEPT !.issued = [b.ctl.issued EXCEPT ![0] = 1],
                               !.phase = [b.ctl.phase EXCEPT ![1] = "ready"]]
  BY <1>2 DEF WorldOK
<1> HIDE DEF w
<1>5. /\ b.host = [g \in {"key", "password", "staging", "enrollment", "worker", "cred"} |-> b.host[g]]
      /\ b.ctl = [g \in {"issued", "phase", "beat"} |-> b.ctl[g]]
      /\ b.ctl.issued \in [0..MaxCycle -> 0..MaxPairing]
      /\ b.ctl.phase \in [1..MaxPairing -> Phases]
  BY <1>2 DEF WorldOK
<1>6. /\ w.host = [g \in {"key", "password", "staging", "enrollment", "worker", "cred"} |-> w.host[g]]
      /\ w.host.worker = "running" /\ w.host.cred = 1 /\ w.host.staging = s
      /\ w.host.enrollment = {}
  BY <1>2, <1>4, <1>5
<1>7. /\ w.ctl = [g \in {"issued", "phase", "beat"} |-> w.ctl[g]]
      /\ w.ctl.issued = [b.ctl.issued EXCEPT ![0] = 1]
      /\ w.ctl.phase = [b.ctl.phase EXCEPT ![1] = "ready"]
  BY <1>4, <1>5
<1>8. 1 \in 1..MaxPairing /\ 1 \in 0..MaxPairing /\ 0 \in 0..MaxCycle /\ "ready" \in Phases
  BY RecordAssumption DEF Phases
<1>9. /\ w.ctl.issued \in [0..MaxCycle -> 0..MaxPairing]
      /\ w.ctl.phase \in [1..MaxPairing -> Phases] /\ w.ctl.phase[1] = "ready"
      /\ \A x \in 1..MaxPairing : x # 1 => w.ctl.phase[x] = b.ctl.phase[x]
  <2> DEFINE f == b.ctl.phase
             i == b.ctl.issued
             g == w.ctl.phase
             j == w.ctl.issued
  <2> HIDE DEF f, g, i, j
  <2>1. /\ f \in [1..MaxPairing -> Phases] /\ i \in [0..MaxCycle -> 0..MaxPairing]
        /\ g = [f EXCEPT ![1] = "ready"] /\ j = [i EXCEPT ![0] = 1]
    BY <1>5, <1>7 DEF f, g, i, j
  <2>2. g \in [1..MaxPairing -> Phases] /\ g[1] = "ready"
        /\ \A x \in 1..MaxPairing : x # 1 => g[x] = f[x]
    BY <1>8, <2>1
  <2>3. j \in [0..MaxCycle -> 0..MaxPairing]
    BY <1>8, <2>1
  <2> QED BY <2>2, <2>3 DEF f, g, j
<1>10. WorldOK(w)
  BY <1>4, <1>6, <1>7, <1>8, <1>9 DEF WorldOK
<1>11. Good(w)
  <2>1. w.host.worker = "running" /\ w.host.cred = 1
    BY <1>6
  <2>2. w.ctl.phase[w.host.cred] = "ready"
    BY <1>9, <2>1
  <2>3. w.host.cred # 0
    BY <2>1
  <2> QED BY <2>1, <2>2, <2>3, Zenon DEF Good
<1>12. \A x \in 1..MaxPairing : Live(w, x) => x = 1
  BY <1>2, <1>9 DEF Live, NoneLive
<1>13. r.step = "Ready" => \A c : Clean(w, c)
  BY <1>3, <1>6 DEF Clean
<1> QED BY <1>1, <1>4, <1>10, <1>11, <1>12, <1>13

(* The invariant holds initially.                                          *)
LEMMA PvInitial == PvInit => PvInv
<1> SUFFICES ASSUME PvInit PROVE PvInv
  OBVIOUS
<1>1. turn.st = "idle" /\ turn.st # "commit"
  BY DEF PvInit, Idle
<1>2. TurnLoaded /\ TurnDid
  BY <1>1 DEF TurnLoaded, TurnDid
<1>3. PICK p \in Passwords : \/ rec = NoComputer /\ \E k \in HostKeys : world = BlankWorld(k, p)
                             \/ rec \in LegacyRecords /\ world = LegacyWorld(rec, p)
  BY DEF PvInit
<1>4. CASE rec = NoComputer /\ \E k \in HostKeys : world = BlankWorld(k, p)
  <2>1. PICK k \in HostKeys : world = BlankWorld(k, p)
    BY <1>4
  <2>2. WorldOK(world) /\ world.vault = NoSecret /\ NoneLive(world)
    BY <2>1, FirstWorlds
  <2>3. JournalOK /\ TornOK /\ VaultOK /\ SmokeOK /\ ReadyOK
    BY <1>4, <2>2 DEF JournalOK, TornOK, VaultOK, SmokeOK, ReadyOK
  <2>4. PairingJournaled
    BY <2>2 DEF PairingJournaled, NoneLive, Live
  <2> QED BY <1>2, <2>2, <2>3, <2>4 DEF PvInv
<1>5. CASE rec \in LegacyRecords /\ world = LegacyWorld(rec, p)
  <2>1. rec \in LegacyRecords
    BY <1>5
  <2>2. /\ RowOK(rec) /\ Valid(rec) /\ rec # NoComputer /\ rec.pairing = 1 /\ rec.torn = FALSE
        /\ rec.step \in {"SmokeCheck", "Ready"} /\ rec.method = "password"
    BY <2>1, LegacyValid
  <2>3. /\ WorldOK(world) /\ world.vault = NoSecret /\ Good(world)
        /\ \A x \in 1..MaxPairing : Live(world, x) => x = 1
        /\ rec.step = "Ready" => Clean(world, rec.cycle)
    BY <1>5, LegacyWorlds
  <2>4. JournalOK /\ TornOK /\ VaultOK
    BY <2>2, <2>3 DEF JournalOK, TornOK, VaultOK
  <2>5. SmokeOK /\ ReadyOK
    BY <2>2, <2>3 DEF SmokeOK, ReadyOK
  <2>6. PairingJournaled
    BY <2>2, <2>3 DEF PairingJournaled, Live
  <2> QED BY <1>2, <2>3, <2>4, <2>5, <2>6 DEF PvInv
<1> QED BY <1>3, <1>4, <1>5

-----------------------------------------------------------------------------
(* The turns.                                                              *)

(* Changing secrets without filling an empty vault makes nothing worse.    *)
LEMMA QuietSecrets ==
    ASSUME NEW w, WorldOK(w)
    PROVE  /\ NoWorse(w, w)
           /\ \A v : (SecretsOnly(w, v) /\ (w.vault = NoSecret => v.vault = NoSecret))
                        => NoWorse(w, v)
           /\ NoWorse(w, Forgetful(w))
           /\ \A m : \A v \in Typed(w, m) : NoWorse(w, v) /\ v.vault = w.vault
<1>1. NoWorse(w, w)
  BY DEF NoWorse
<1>2. ASSUME NEW v, SecretsOnly(w, v), w.vault = NoSecret => v.vault = NoSecret
      PROVE  NoWorse(w, v)
  BY <1>2 DEF SecretsOnly, NoWorse, Live, Good, Clean
<1>3. ASSUME NEW y
      PROVE  SecretsOnly(w, [w EXCEPT !.trans = y]) /\ [w EXCEPT !.trans = y].vault = w.vault
  BY DEF SecretsOnly, WorldOK
<1>4. NoWorse(w, Forgetful(w))
  <2>1. SecretsOnly(w, Forgetful(w)) /\ Forgetful(w).vault = w.vault
    BY <1>3 DEF Forgetful
  <2> QED BY <1>2, <2>1
<1>5. ASSUME NEW m, NEW v \in Typed(w, m)
      PROVE  NoWorse(w, v) /\ v.vault = w.vault
  <2>1. v = w \/ \E p \in Passwords : v = [w EXCEPT !.trans = p]
    BY DEF Typed
  <2>2. CASE v = w
    BY <1>1, <2>2
  <2>3. CASE \E p \in Passwords : v = [w EXCEPT !.trans = p]
    <3>1. PICK p \in Passwords : v = [w EXCEPT !.trans = p]
      BY <2>3
    <3>2. SecretsOnly(w, [w EXCEPT !.trans = p]) /\ [w EXCEPT !.trans = p].vault = w.vault
      BY <1>3
    <3>3. SecretsOnly(w, v) /\ v.vault = w.vault
      BY <3>1, <3>2
    <3> QED BY <1>2, <3>3
  <2> QED BY <2>1, <2>2, <2>3
<1> QED BY <1>1, <1>2, <1>4, <1>5

(* Taking the lock, a conflict, a stop, and the two checkpoints that only change the intent. *)
LEMMA QuietTurns ==
    ASSUME PvInv, TakeLock \/ Conflict \/ TurnStops \/ TurnResume \/ TurnRetry
    PROVE  PvInv'
<1>1. WorldOK(world)
  BY DEF PvInv
<1>2. NoWorse(world, world) /\ NoWorse(world, Forgetful(world))
  BY <1>1, QuietSecrets
<1>3. Idle.st # "commit" /\ \A n : Running(n).st # "commit"
  BY DEF Idle, Running
<1>4. CASE TakeLock \/ Conflict \/ TurnStops
  <2>1. rec' = rec /\ (world' = world \/ world' = Forgetful(world)) /\ turn'.st # "commit"
    BY <1>3, <1>4 DEF TakeLock, Conflict, TurnStops
  <2>2. NoWorse(world, world')
    BY <1>2, <2>1
  <2> QED BY <2>1, <2>2, KeepStep
<1>5. CASE TurnResume \/ TurnRetry
  <2> DEFINE next == IF TurnResume THEN [rec EXCEPT !.intent = "Continue"] ELSE Retried(rec)
  <2>1. rec # NoComputer /\ RowOK(rec)
    BY <1>5 DEF TurnResume, TurnRetry, Load, LoadExpected, PvInv, JournalOK
  <2>2. "Continue" \in Intents
    BY DEF Intents
  <2>3. RowOK(next) /\ Keeps(rec, next)
    <3>1. RowOK([rec EXCEPT !.intent = "Continue"]) /\ Keeps(rec, [rec EXCEPT !.intent = "Continue"])
      BY <2>1, <2>2 DEF RowOK, RecFields, Keeps
    <3>2. RowOK(Retried(rec)) /\ Keeps(rec, Retried(rec))
      BY <2>1, QuietWrites
    <3> QED BY <3>1, <3>2
  <2>4. rec' = Saved(rec, next) /\ turn'.st # "commit" /\ world' = world
    <3>1. CASE TurnResume
      BY <1>3, <3>1 DEF TurnResume, Checkpoint
    <3>2. CASE ~TurnResume
      BY <1>3, <1>5, <3>2 DEF TurnRetry, Checkpoint
    <3> QED BY <3>1, <3>2
  <2> HIDE DEF next
  <2> QED BY <1>2, <2>1, <2>3, <2>4, KeepStep
<1> QED BY <1>4, <1>5

(* A rollback that finished: its reset drops the identities of a record without live pairing. *)
LEMMA RolledBackStep ==
    ASSUME PvInv, TurnRolledBack
    PROVE  PvInv'
<1> DEFINE v == ResetAfterRollback(rec)
           u == Forgetful(world)
<1>1. rec # NoComputer /\ RowOK(rec) /\ Valid(rec) /\ rec.torn /\ rec.cycle < MaxCycle
  BY DEF TurnRolledBack, Load, LoadExpected, PvInv, JournalOK
<1>2. /\ RowOK(v) /\ v.rev = rec.rev /\ v.method = rec.method
      /\ v.step = "Draft" /\ v.smoke = "absent" /\ v.pairing = 0 /\ v.torn = FALSE
      /\ Valid([v EXCEPT !.rev = @ + 1])
  BY <1>1, ResetAccepted
<1>3. rec' = Saved(rec, v) /\ turn' = Idle /\ world' = [u EXCEPT !.demolished = FALSE]
  BY DEF TurnRolledBack
<1>4. turn'.st # "commit"
  BY <1>3 DEF Idle
<1>5. SaveAccepted(rec, v)
  BY <1>1, <1>2 DEF SaveAccepted
<1> HIDE DEF v
<1>6. rec' = [v EXCEPT !.rev = @ + 1]
  BY <1>3, <1>5 DEF Saved
<1>7. rec' # NoComputer /\ JournalOK' /\ TurnLoaded'
  BY <1>1, <1>2, <1>3, <1>4, Written
<1>8. /\ rec'.method = rec.method /\ rec'.step = "Draft" /\ rec'.smoke = "absent"
      /\ rec'.torn = FALSE
  BY <1>2, <1>6, Bumped
<1>9. WorldOK(u) /\ u.vault = world.vault /\ u.ctl = world.ctl
  BY DEF PvInv, WorldOK, Forgetful
<1> HIDE DEF u
<1>10. WorldOK(world') /\ world'.vault = world.vault /\ world'.ctl = world.ctl
  BY <1>3, <1>9 DEF WorldOK
<1>11. NoneLive(world)
  BY <1>1 DEF PvInv, TornOK
<1>12. NoneLive(world')
  BY <1>10, <1>11 DEF NoneLive, Live
<1>13. PairingJournaled'
  BY <1>12 DEF PairingJournaled, NoneLive, Live
<1>14. TornOK' /\ SmokeOK' /\ ReadyOK'
  BY <1>8 DEF TornOK, SmokeOK, ReadyOK
<1>15. VaultOK'
  BY <1>1, <1>7, <1>8, <1>10 DEF PvInv, VaultOK
<1>16. TurnDid'
  BY <1>4 DEF TurnDid
<1> QED BY <1>7, <1>10, <1>13, <1>14, <1>15, <1>16 DEF PvInv

(* The driver call: its effect is on the world before anything is written. *)
LEMMA CallsStep ==
    ASSUME PvInv, TurnCalls
    PROVE  PvInv'
<1>1. PICK o \in Calls(world, rec, TurnAction(rec)) :
        /\ world' = [o.w EXCEPT !.demolished = @ \/ rec.intent # "Continue"]
        /\ turn' = [st |-> "commit", rec |-> rec, act |-> TurnAction(rec), kind |-> o.kind,
                    data |-> o.data, n |-> o.n]
  BY DEF TurnCalls
<1>2. /\ rec # NoComputer /\ RowOK(rec) /\ Valid(rec) /\ rec' = rec
      /\ rec.intent \notin {"Resume", "Retry"} /\ ~AtBoundary(rec)
      /\ ~(rec.intent = "Rollback" /\ rec.torn)
  BY DEF TurnCalls, Load, LoadExpected, PvInv, JournalOK
<1>3. WorldOK(world) /\ (rec.method # "password" => world.vault = NoSecret)
  BY DEF PvInv, VaultOK
<1> DEFINE act == TurnAction(rec)
           v == o.w
<1>4. /\ Reach(world, v, rec)
      /\ rec.torn => v.ctl = world.ctl
      /\ o.kind = "done" =>
            /\ act \in {"Rollback", "Remove"} =>
                        \A p \in 1..MaxPairing : p = rec.pairing => ~Live(v, p)
            /\ act = "ForgetCredential" => v.vault = NoSecret
            /\ act = "IssueEnrollment" => o.n \in 0..MaxPairing
            /\ act = "RunSmokeCheck" => Good(v)
            /\ act = "CleanupStaging" => Clean(v, rec.cycle)
      /\ (rec.intent = "Continue" /\ rec.step = "SmokeCheck" /\ Good(world)) => Good(v)
  BY <1>2, <1>3, CallsReach
<1>5. /\ turn'.rec = rec /\ turn'.act = act /\ turn'.kind = o.kind /\ turn'.n = o.n
      /\ turn'.st = "commit"
  BY <1>1
<1> HIDE DEF act, v
<1>6. WorldOK(v) /\ v.demolished = world.demolished
  BY <1>4 DEF Reach
<1>7. /\ WorldOK(world') /\ world'.vault = v.vault /\ world'.ctl = v.ctl
      /\ world'.host = v.host
      /\ world'.demolished <=> (v.demolished \/ rec.intent # "Continue")
  BY <1>1, <1>6 DEF WorldOK, v
<1>8. /\ \A p \in 1..MaxPairing : Live(world', p) <=> Live(v, p)
      /\ Good(v) => Good(world')
      /\ \A c : Clean(v, c) => Clean(world', c)
  BY <1>7 DEF Live, Good, Clean
<1>9. ~world'.demolished => ~world.demolished /\ rec.intent = "Continue"
  BY <1>6, <1>7
<1>10. JournalOK' /\ PairingJournaled'
  <2>1. JournalOK'
    BY <1>2 DEF JournalOK
  <2>2. \A p \in 1..MaxPairing : Live(v, p) => rec.pairing = p
    BY <1>4 DEF Reach, PvInv, PairingJournaled, Live
  <2>3. PairingJournaled'
    BY <1>2, <1>8, <2>2 DEF PairingJournaled, Live
  <2> QED BY <2>1, <2>3
<1>11. TornOK'
  BY <1>2, <1>4, <1>8 DEF PvInv, TornOK, NoneLive, Live
<1>12. VaultOK'
  BY <1>2, <1>3, <1>4, <1>7 DEF VaultOK, Reach, VaultKept
<1>13. rec.intent = "Continue" => rec.step # "Ready"
  BY <1>2 DEF AtBoundary
<1>14. SmokeOK'
  <2> SUFFICES ASSUME rec'.smoke # "absent"
               PROVE  /\ rec'.step \in {"SmokeCheck", "Ready"}
                      /\ ~world'.demolished => Good(world')
    BY DEF SmokeOK
  <2>1. rec.step \in {"SmokeCheck", "Ready"} /\ (~world.demolished => Good(world))
    BY <1>2 DEF PvInv, SmokeOK
  <2> QED BY <1>2, <1>4, <1>8, <1>9, <1>13, <2>1
<1>15. ReadyOK'
  BY <1>2, <1>9, <1>13 DEF ReadyOK
<1>16. TurnLoaded'
  <2>1. rec.rev \in Nat
    BY <1>2 DEF RowOK
  <2>2. turn'.rec.rev <= rec'.rev
    BY <1>2, <1>5, <2>1
  <2> QED BY <1>2, <1>5, <2>2 DEF TurnLoaded, act
<1>17. TurnDid'
  <2> SUFFICES ASSUME turn'.kind = "done" PROVE TurnDid'
    BY DEF TurnDid
  <2>1. /\ act \in {"Rollback", "Remove"} =>
                        \A p \in 1..MaxPairing : p = rec.pairing => ~Live(world', p)
        /\ act = "ForgetCredential" => world'.vault = NoSecret
        /\ act = "IssueEnrollment" => o.n \in 0..MaxPairing
        /\ act = "RunSmokeCheck" => Good(world')
        /\ act = "CleanupStaging" => Clean(world', rec.cycle)
    BY <1>4, <1>5, <1>7, <1>8
  <2> QED BY <1>5, <2>1 DEF TurnDid
<1> QED BY <1>7, <1>10, <1>11, <1>12, <1>14, <1>15, <1>16, <1>17 DEF PvInv

(* Which intent an action other than a teardown was run for.               *)
LEMMA ActionIntent ==
    ASSUME PvInv, turn.st = "commit"
    PROVE  /\ turn.act = "ForgetCredential" => turn.rec.torn
           /\ turn.act \notin {"ForgetCredential", "Rollback", "Remove"} =>
                /\ turn.act = ActionForRecord(turn.rec) /\ turn.rec.step # "Ready"
                /\ ~turn.rec.torn
<1> DEFINE r == turn.rec
           a == turn.act
<1>1. /\ RowOK(r) /\ Valid(r) /\ a = TurnAction(r) /\ ~AtBoundary(r)
      /\ r.intent \notin {"Resume", "Retry"}
  BY DEF PvInv, TurnLoaded
<1> HIDE DEF r, a
<1>2. r.intent \in {"Continue", "Rollback", "Remove"}
  BY <1>1 DEF RowOK, Intents
<1>3. CASE r.intent = "Continue"
  <2>1. r.step # "Ready" /\ a = ActionForRecord(r)
    BY <1>1, <1>3 DEF AtBoundary, TurnAction
  <2>2. a # "ForgetCredential"
    BY <1>1, <2>1, ActionNames
  <2>3. ~r.torn
    BY <1>1, <1>3 DEF Valid, TeardownConsistent
  <2> QED BY <2>1, <2>2, <2>3 DEF r, a
<1>4. CASE r.intent \in {"Rollback", "Remove"}
  <2>1. (a = "ForgetCredential" /\ r.torn) \/ a \in {"Rollback", "Remove"}
    BY <1>1, <1>4 DEF TurnAction
  <2> QED BY <2>1 DEF r, a
<1> QED BY <1>2, <1>3, <1>4

(* Writing a completed action, a refused one, or the end of a teardown.    *)
LEMMA DoneStep ==
    ASSUME PvInv, CommitDone
    PROVE  PvInv'
<1> DEFINE r == turn.rec
           next == IF turn.act \in {"Rollback", "Remove"} THEN [r EXCEPT !.torn = TRUE]
                   ELSE IF CompletionRefused(r, turn.act, turn.data, turn.n)
                        THEN FailedRecord(r, RefusalCode(turn.act))
                   ELSE Completed(r, turn.act, turn.data, turn.n)
<1>1. /\ turn.st = "commit" /\ turn.kind = "done" /\ turn.act # "ForgetCredential"
      /\ rec' = Saved(rec, next) /\ world' = world
  BY Zenon DEF CommitDone
<1>2. turn'.st # "commit"
  <2>1. turn' = Idle \/ turn' = Running(r.rev + 1)
    BY DEF CommitDone
  <2> QED BY <2>1 DEF Idle, Running
<1>3. /\ rec # NoComputer /\ RowOK(r) /\ (rec.rev = r.rev => rec = r)
  BY <1>1 DEF PvInv, TurnLoaded
<1>4. /\ turn.act \in {"Rollback", "Remove"} =>
                \A p \in 1..MaxPairing : p = r.pairing => ~Live(world, p)
      /\ turn.act = "IssueEnrollment" => turn.n \in 0..MaxPairing
      /\ (turn.act = "RunSmokeCheck" /\ rec = r /\ ~world.demolished) => Good(world)
      /\ (turn.act = "CleanupStaging" /\ rec = r /\ ~world.demolished) => Clean(world, r.cycle)
  BY <1>1 DEF PvInv, TurnDid
<1>5. /\ WorldOK(world) /\ NoWorse(world, world') /\ JournalOK
  BY <1>1, QuietSecrets DEF PvInv
<1> HIDE DEF r
<1>6. CASE turn.act \in {"Rollback", "Remove"}
  <2>1. next = [r EXCEPT !.torn = TRUE]
    BY <1>6
  <2> HIDE DEF next
  <2>2. /\ RowOK(next) /\ next.step = r.step /\ next.smoke = r.smoke /\ next.rev = r.rev
        /\ next.cycle = r.cycle
        /\ next.pairing = r.pairing /\ next.method = r.method
    BY <1>3, <2>1 DEF RowOK, RecFields
  <2>3. /\ rec' # NoComputer /\ JournalOK' /\ TurnLoaded'
        /\ \/ rec' = rec
           \/ /\ rec.rev = next.rev
              /\ rec'.step = next.step /\ rec'.smoke = next.smoke /\ rec'.cycle = next.cycle
              /\ rec'.pairing = next.pairing /\ rec'.method = next.method
    BY <1>1, <1>2, <1>3, <2>2, Written
  <2>4. CASE rec' = rec
    BY <1>2, <1>5, <2>4, KeepStep
  <2>5. CASE rec' # rec
    <3>1. /\ rec = r /\ rec'.step = rec.step /\ rec'.smoke = rec.smoke /\ rec'.cycle = rec.cycle
          /\ rec'.pairing = rec.pairing /\ rec'.method = rec.method
      BY <1>3, <2>2, <2>3, <2>5
    <3>2. PairingJournaled'
      BY <1>1, <2>3, <3>1 DEF PvInv, PairingJournaled
    <3>3. NoneLive(world)
      BY <1>4, <1>6, <3>1 DEF PvInv, PairingJournaled, NoneLive, Live
    <3>4. TornOK'
      BY <1>1, <3>3 DEF TornOK
    <3>5. VaultOK' /\ SmokeOK' /\ ReadyOK'
      BY <1>1, <1>3, <2>3, <3>1 DEF PvInv, VaultOK, SmokeOK, ReadyOK
    <3>6. TurnDid'
      BY <1>2 DEF TurnDid
    <3> QED BY <1>1, <1>5, <2>3, <3>2, <3>4, <3>5, <3>6 DEF PvInv
  <2> QED BY <2>4, <2>5
<1>7. CASE turn.act \notin {"Rollback", "Remove"} /\ CompletionRefused(r, turn.act, turn.data, turn.n)
  <2> DEFINE code == RefusalCode(turn.act)
  <2>1. next = FailedRecord(r, code)
    BY <1>7
  <2> HIDE DEF next, code
  <2>2. RowOK(next) /\ Keeps(r, next) /\ next.rev = r.rev
    BY <1>3, <2>1, QuietWrites
  <2>3. SaveAccepted(rec, next) => Keeps(rec, next)
    BY <1>3, <2>2 DEF SaveAccepted
  <2> QED BY <1>1, <1>2, <1>3, <1>5, <2>2, <2>3, KeepStep
<1>8. CASE turn.act \notin {"Rollback", "Remove"} /\ ~CompletionRefused(r, turn.act, turn.data, turn.n)
  <2>1. next = Completed(r, turn.act, turn.data, turn.n)
    BY <1>8
  <2> HIDE DEF next
  <2>2. turn.act = ActionForRecord(r) /\ r.step # "Ready" /\ ~r.torn
    BY <1>1, <1>8, ActionIntent DEF r
  <2>3. /\ RowOK(next) /\ next.rev = r.rev /\ next.method = r.method /\ next.torn = r.torn
        /\ next.cycle = r.cycle
        /\ next.pairing = r.pairing \/ r.pairing = 0
        /\ next.step = "Ready" => turn.act = "CleanupStaging" /\ r.step = "SmokeCheck"
        /\ next.smoke # "absent" =>
                    \/ next.smoke = r.smoke
                    \/ turn.act = "RunSmokeCheck" /\ next.step = "SmokeCheck"
        /\ r.step = "SmokeCheck" => next.step \in {"SmokeCheck", "Ready"}
    BY <1>3, <1>4, <1>8, <2>1, <2>2, CompletedFields
  <2>4. /\ rec' # NoComputer /\ JournalOK' /\ TurnLoaded'
        /\ \/ rec' = rec
           \/ /\ rec.rev = next.rev
              /\ rec'.step = next.step /\ rec'.smoke = next.smoke /\ rec'.cycle = next.cycle
              /\ rec'.pairing = next.pairing /\ rec'.method = next.method
              /\ rec'.torn = next.torn
    BY <1>1, <1>2, <1>3, <2>3, Written
  <2>5. CASE rec' = rec
    BY <1>2, <1>5, <2>5, KeepStep
  <2>6. CASE rec' # rec
    <3>1. /\ rec = r /\ rec'.step = next.step /\ rec'.smoke = next.smoke /\ rec'.cycle = next.cycle
          /\ rec'.pairing = next.pairing /\ rec'.method = rec.method /\ rec'.torn = rec.torn
      BY <1>3, <2>3, <2>4, <2>6
    <3>2. PairingJournaled'
      <4> SUFFICES ASSUME NEW p \in 1..MaxPairing, Live(world, p)
                   PROVE  rec'.pairing = p
        BY <1>1, <2>4 DEF PairingJournaled, Live
      <4>1. rec.pairing = p /\ rec.pairing # 0
        BY DEF PvInv, PairingJournaled, Live
      <4> QED BY <2>3, <3>1, <4>1
    <3>3. TornOK'
      BY <2>2, <3>1 DEF TornOK
    <3>4. VaultOK'
      BY <1>1, <1>3, <2>4, <3>1 DEF PvInv, VaultOK
    <3>5. SmokeOK'
      <4> SUFFICES ASSUME next.smoke # "absent"
                   PROVE  /\ next.step \in {"SmokeCheck", "Ready"}
                          /\ ~world.demolished => Good(world)
        BY <1>1, <3>1 DEF SmokeOK
      <4>1. CASE next.smoke = r.smoke
        <5>1. r.step \in {"SmokeCheck", "Ready"} /\ (~world.demolished => Good(world))
          BY <1>3, <3>1, <4>1 DEF PvInv, SmokeOK
        <5> QED BY <2>2, <2>3, <5>1
      <4>2. CASE turn.act = "RunSmokeCheck" /\ next.step = "SmokeCheck"
        BY <1>4, <3>1, <4>2
      <4> QED BY <2>3, <4>1, <4>2
    <3>6. ReadyOK'
      BY <1>1, <1>4, <2>3, <3>1 DEF ReadyOK
    <3>7. TurnDid'
      BY <1>2 DEF TurnDid
    <3> QED BY <1>1, <1>5, <2>4, <3>2, <3>3, <3>4, <3>5, <3>6, <3>7 DEF PvInv
  <2> QED BY <2>5, <2>6
<1> QED BY <1>6, <1>7, <1>8

(* Deleting the record: only after its teardown, and with the secret gone. *)
LEMMA RemovedStep ==
    ASSUME PvInv, CommitRemoved
    PROVE  PvInv'
<1>1. turn.st = "commit" /\ turn.kind = "done" /\ turn.act = "ForgetCredential" /\ turn' = Idle
  BY DEF CommitRemoved
<1>2. turn'.st # "commit"
  BY <1>1 DEF Idle
<1>3. WorldOK(world) /\ NoWorse(world, world) /\ NoWorse(world, Forgetful(world))
  BY QuietSecrets DEF PvInv
<1>4. CASE ~DeleteAccepted(rec, turn.rec.rev)
  <2>1. rec' = rec /\ world' = world
    BY <1>4 DEF CommitRemoved
  <2> QED BY <1>2, <1>3, <2>1, KeepStep
<1>5. CASE DeleteAccepted(rec, turn.rec.rev)
  <2>1. rec' = NoComputer /\ world' = Forgetful(world)
    BY <1>5 DEF CommitRemoved
  <2>2. rec = turn.rec /\ rec # NoComputer /\ rec.torn
    BY <1>1, <1>5, ActionIntent DEF DeleteAccepted, PvInv, TurnLoaded
  <2>3. NoneLive(world) /\ world.vault = NoSecret
    BY <1>1, <2>2 DEF PvInv, TornOK, TurnDid
  <2>4. WorldOK(world') /\ NoneLive(world') /\ world'.vault = NoSecret
    BY <1>3, <2>1, <2>3 DEF NoWorse, NoneLive
  <2>5. JournalOK' /\ TornOK' /\ VaultOK' /\ SmokeOK' /\ ReadyOK'
    BY <2>1, <2>4 DEF JournalOK, TornOK, VaultOK, SmokeOK, ReadyOK
  <2>6. PairingJournaled'
    BY <2>4 DEF PairingJournaled, NoneLive, Live
  <2>7. TurnLoaded' /\ TurnDid'
    BY <1>2 DEF TurnLoaded, TurnDid
  <2> QED BY <2>4, <2>5, <2>6, <2>7 DEF PvInv
<1> QED BY <1>4, <1>5

(* Writing a failure, or a missing credential.                             *)
LEMMA FailureStep ==
    ASSUME PvInv, CommitFailure \/ CommitWaits
    PROVE  PvInv'
<1> DEFINE r == turn.rec
           code == turn.data
<1>1. turn.st = "commit" /\ turn' = Idle /\ world' = world
  BY DEF CommitFailure, CommitWaits
<1>2. \/ rec' = rec \/ rec' = Saved(rec, FailedRecord(r, code))
      \/ rec' = Saved(rec, CredentialRequired(r))
  BY DEF CommitFailure, CommitWaits
<1>3. turn'.st # "commit"
  BY <1>1 DEF Idle
<1>4. rec # NoComputer /\ RowOK(r) /\ (rec.rev = r.rev => rec = r)
  BY <1>1 DEF PvInv, TurnLoaded
<1>5. NoWorse(world, world')
  BY <1>1, QuietSecrets DEF PvInv
<1> HIDE DEF r, code
<1>6. /\ RowOK(FailedRecord(r, code)) /\ Keeps(r, FailedRecord(r, code))
      /\ FailedRecord(r, code).rev = r.rev
      /\ RowOK(CredentialRequired(r)) /\ Keeps(r, CredentialRequired(r))
      /\ CredentialRequired(r).rev = r.rev
  BY <1>4, QuietWrites
<1>7. /\ SaveAccepted(rec, FailedRecord(r, code)) => Keeps(rec, FailedRecord(r, code))
      /\ SaveAccepted(rec, CredentialRequired(r)) => Keeps(rec, CredentialRequired(r))
  BY <1>4, <1>6 DEF SaveAccepted
<1>8. CASE rec' = rec
  BY <1>3, <1>5, <1>8, KeepStep
<1>9. CASE rec' = Saved(rec, FailedRecord(r, code))
  BY <1>3, <1>4, <1>5, <1>6, <1>7, <1>9, KeepStep
<1>10. CASE rec' = Saved(rec, CredentialRequired(r))
  BY <1>3, <1>4, <1>5, <1>6, <1>7, <1>10, KeepStep
<1> QED BY <1>2, <1>8, <1>9, <1>10

-----------------------------------------------------------------------------
(* The commands.                                                           *)

(* A new computer starts where a removed one left neither secret nor live pairing. *)
LEMMA StartStep ==
    ASSUME PvInv, NEW in, StartComputer(in)
    PROVE  PvInv'
<1> DEFINE v == NewRecord(in)
           u == FreshIdentity(world)
<1>1. /\ rec = NoComputer /\ rec' = v /\ turn' = turn
      /\ world' \in Typed(u, in.method)
      /\ in.remember => in.method = "password"
  BY DEF StartComputer, NewComputerValid
<1>2. /\ RowOK(v) /\ Valid(v) /\ v # NoComputer /\ v.torn = FALSE
      /\ v.smoke = "absent" /\ v.step = "Draft"
  BY <1>1, NewRecordValid
<1>3. turn'.st # "commit"
  BY <1>1 DEF PvInv, TurnLoaded
<1>4. world.vault = NoSecret /\ NoneLive(world)
  BY <1>1 DEF PvInv, VaultOK, PairingJournaled, NoneLive, Live
<1>5. WorldOK(u) /\ u.vault = world.vault /\ u.ctl.phase = world.ctl.phase
  <2> DEFINE i == [c \in 0..MaxCycle |-> 0]
  <2>1. i \in [0..MaxCycle -> 0..MaxPairing]
    BY RecordAssumption
  <2> HIDE DEF i
  <2>2. u = [world EXCEPT !.demolished = FALSE, !.host.staging = {}, !.host.enrollment = {},
                          !.ctl.issued = i, !.ctl.beat = 0]
    BY DEF FreshIdentity, i
  <2> HIDE DEF u
  <2>3. /\ u = [f \in {"host", "vault", "trans", "demolished", "ctl"} |-> u[f]]
        /\ u.vault = world.vault
        /\ u.host = [world.host EXCEPT !.staging = {}, !.enrollment = {}]
        /\ u.ctl = [world.ctl EXCEPT !.issued = i, !.beat = 0]
    BY <2>2 DEF PvInv, WorldOK
  <2>4. world.ctl = [f \in {"issued", "phase", "beat"} |-> world.ctl[f]]
    BY DEF PvInv, WorldOK
  <2>5. /\ u.ctl = [f \in {"issued", "phase", "beat"} |-> u.ctl[f]]
        /\ u.ctl.issued = i /\ u.ctl.phase = world.ctl.phase
    BY <2>3, <2>4
  <2>6. /\ u.host = [f \in {"key", "password", "staging", "enrollment", "worker", "cred"} |-> u.host[f]]
        /\ u.host.cred \in 0..MaxPairing
    BY <2>3 DEF PvInv, WorldOK
  <2> QED BY <2>1, <2>3, <2>5, <2>6 DEF PvInv, WorldOK
<1> HIDE DEF u, v
<1>6. NoWorse(u, world') /\ world'.vault = u.vault
  BY <1>1, <1>5, QuietSecrets
<1>7. NoneLive(u)
  BY <1>4, <1>5 DEF NoneLive, Live
<1>8. WorldOK(world') /\ world'.vault = NoSecret /\ NoneLive(world')
  BY <1>4, <1>5, <1>6, <1>7 DEF NoWorse, NoneLive
<1>9. JournalOK' /\ TornOK' /\ VaultOK' /\ SmokeOK' /\ ReadyOK'
  BY <1>1, <1>2, <1>8 DEF JournalOK, TornOK, VaultOK, SmokeOK, ReadyOK
<1>10. PairingJournaled'
  BY <1>8 DEF PairingJournaled, NoneLive, Live
<1>11. TurnLoaded' /\ TurnDid'
  BY <1>3 DEF TurnLoaded, TurnDid
<1> QED BY <1>8, <1>9, <1>10, <1>11 DEF PvInv

(* The commands that leave the checkpoint alone.                           *)
LEMMA QuietCommands ==
    ASSUME PvInv,
           StartAgain \/ ApproveHostKey \/ ForgetCredential \/ RecordForgotten
           \/ \E i \in Intents \ {"Continue"} : RequestIntent(i)
    PROVE  PvInv'
<1>1. WorldOK(world) /\ NoWorse(world, world)
  BY QuietSecrets DEF PvInv
<1>2. ASSUME NEW m, world' \in Typed(world, m) PROVE NoWorse(world, world')
  BY <1>1, <1>2, QuietSecrets
<1>3. turn' = turn \/ turn'.st # "commit"
  <2>1. turn' = turn \/ turn' = Idle \/ \E x : turn' = Forgetting(x)
    BY DEF StartAgain, ApproveHostKey, ForgetCredential, RecordForgotten, RequestIntent
  <2>2. Idle.st # "commit" /\ \A x : Forgetting(x).st # "commit"
    BY DEF Idle, Forgetting
  <2> QED BY <2>1, <2>2
<1>4. rec # NoComputer => RowOK(rec)
  BY DEF PvInv, JournalOK
<1>5. CASE StartAgain
  <2>1. rec' = rec /\ (world' = world \/ world' \in Typed(world, rec.method))
    BY <1>5 DEF StartAgain, InjectSecret
  <2>2. NoWorse(world, world')
    BY <1>1, <1>2, <2>1
  <2> QED BY <1>3, <2>1, <2>2, KeepStep
<1>6. CASE ApproveHostKey
  <2> DEFINE v == [rec EXCEPT !.approved = TRUE]
  <2>1. rec' = Saved(rec, v) /\ world' = world
    BY <1>6 DEF ApproveHostKey
  <2>2. rec # NoComputer /\ RowOK(v) /\ Keeps(rec, v)
    BY <1>4, <1>6 DEF ApproveHostKey, RowOK, RecFields, Keeps
  <2> HIDE DEF v
  <2> QED BY <1>1, <1>3, <2>1, <2>2, KeepStep
<1>7. CASE \E i \in Intents \ {"Continue"} : RequestIntent(i)
  <2>1. PICK i \in Intents \ {"Continue"} : RequestIntent(i)
    BY <1>7
  <2> DEFINE x == i = "Retry" /\ Recheckable(rec)
             a == rec.retryable \/ x
             b == rec.torn /\ i \notin {"Rollback", "Remove"}
             v == [rec EXCEPT !.intent = i, !.retryable = a, !.torn = b]
  <2>2. world' \in Typed(world, rec.method)
    BY <2>1 DEF RequestIntent, InjectSecret
  <2>3. rec # NoComputer /\ rec' = Saved(rec, v)
    BY <1>4, <2>1 DEF RequestIntent, RowOK, RecFields
  <2>4. b => rec.torn
    OBVIOUS
  <2> HIDE DEF a, b
  <2>5. RowOK(v) /\ Keeps(rec, v)
    BY <1>4, <2>3, <2>4 DEF RowOK, RecFields, Keeps
  <2> HIDE DEF v
  <2>6. NoWorse(world, world')
    BY <1>2, <2>2
  <2> QED BY <1>3, <2>3, <2>5, <2>6, KeepStep
<1>8. CASE ForgetCredential
  <2>1. PICK o \in DeleteCredential(world, rec) : world' = o.w /\ rec' = rec
    BY <1>8 DEF ForgetCredential
  <2>2. SecretsOnly(world, world') /\ (world.vault = NoSecret => world'.vault = NoSecret)
    BY <1>1, <2>1, DeleteReach
  <2>3. NoWorse(world, world')
    BY <1>1, <2>2, QuietSecrets
  <2> QED BY <1>3, <2>1, <2>3, KeepStep
<1>9. CASE RecordForgotten
  <2> DEFINE v == [rec EXCEPT !.ref = FALSE, !.remember = FALSE, !.cred = "Forgotten"]
  <2>1. world' = world /\ (rec' = rec \/ (rec # NoComputer /\ rec' = Saved(rec, v)))
    BY <1>9 DEF RecordForgotten
  <2>2. rec # NoComputer => RowOK(v) /\ Keeps(rec, v)
    BY <1>4 DEF RowOK, RecFields, Keeps
  <2> HIDE DEF v
  <2> QED BY <1>1, <1>3, <2>1, <2>2, KeepStep
<1> QED BY <1>5, <1>6, <1>7, <1>8, <1>9

(* A repair starts over from the stored credential; its smoke result is gone with it. *)
LEMMA RepairStep ==
    ASSUME PvInv, BeginRepair
    PROVE  PvInv'
<1> DEFINE v == RepairRecord(rec)
           u == [world EXCEPT !.demolished = FALSE]
<1>1. /\ rec # NoComputer /\ rec.step = "Ready" /\ ~Failed(rec) /\ rec.cycle < MaxCycle
      /\ rec' = Saved(rec, v) /\ world' \in Typed(u, rec.method) /\ turn' = turn
  BY DEF BeginRepair, RepairRecord
<1>2. RowOK(rec) /\ Valid(rec)
  BY <1>1 DEF PvInv, JournalOK
<1>3. /\ RowOK(v) /\ v.rev = rec.rev /\ v.method = rec.method
      /\ v.step = "CredentialStored" /\ v.smoke = "absent"
      /\ v.pairing = rec.pairing /\ v.torn = FALSE
      /\ Valid([v EXCEPT !.rev = @ + 1])
  BY <1>1, <1>2, RepairAccepted
<1>4. SaveAccepted(rec, v)
  BY <1>1, <1>3 DEF SaveAccepted
<1> HIDE DEF v
<1>5. rec' = [v EXCEPT !.rev = @ + 1]
  BY <1>1, <1>4 DEF Saved
<1>6. rec' # NoComputer /\ JournalOK' /\ TurnLoaded'
  BY <1>1, <1>3, Written
<1>7. /\ rec'.method = rec.method /\ rec'.step = "CredentialStored" /\ rec'.smoke = "absent"
      /\ rec'.torn = FALSE /\ rec'.pairing = rec.pairing /\ rec'.rev = rec.rev + 1
  BY <1>3, <1>5, Bumped
<1>8. WorldOK(u) /\ u.vault = world.vault /\ u.ctl = world.ctl
  BY DEF PvInv, WorldOK
<1> HIDE DEF u
<1>9. NoWorse(u, world') /\ world'.vault = u.vault
  BY <1>1, <1>8, QuietSecrets
<1>10. /\ WorldOK(world') /\ world'.vault = world.vault
       /\ \A p \in 1..MaxPairing : Live(world', p) => Live(world, p)
  BY <1>8, <1>9 DEF NoWorse, Live
<1>11. PairingJournaled'
  BY <1>6, <1>7, <1>10 DEF PvInv, PairingJournaled, Live
<1>12. TornOK' /\ SmokeOK' /\ ReadyOK'
  BY <1>7 DEF TornOK, SmokeOK, ReadyOK
<1>13. VaultOK'
  BY <1>1, <1>6, <1>7, <1>10 DEF PvInv, VaultOK
<1>14. TurnDid'
  <2> SUFFICES ASSUME turn.st = "commit", turn.kind = "done" PROVE TurnDid'
    BY <1>1 DEF TurnDid
  <2>1. turn.rec.rev \in Nat /\ turn.rec.rev <= rec.rev /\ rec.rev \in Nat
    BY <1>2 DEF PvInv, TurnLoaded, RowOK
  <2>2. rec'.rev # turn.rec.rev
    BY <1>7, <2>1
  <2>3. /\ turn.act \in {"Rollback", "Remove"} =>
                \A p \in 1..MaxPairing : p = turn.rec.pairing => ~Live(world', p)
        /\ turn.act = "ForgetCredential" => world'.vault = NoSecret
        /\ turn.act = "IssueEnrollment" => turn.n \in 0..MaxPairing
    BY <1>10 DEF PvInv, TurnDid
  <2> QED BY <1>1, <2>2, <2>3 DEF TurnDid
<1> QED BY <1>6, <1>10, <1>11, <1>12, <1>13, <1>14 DEF PvInv

-----------------------------------------------------------------------------
(* The surroundings.                                                       *)

(* A crash, a changed host, and what the worker and the controller do by themselves. *)
LEMMA SurroundStep ==
    ASSUME PvInv,
           DesktopCrashes \/ HostChanges \/ PairingAcknowledged \/ PairingExpires \/ Heartbeat
    PROVE  PvInv'
<1>1. WorldOK(world)
  BY DEF PvInv
<1>2. rec' = rec /\ (turn' = turn \/ turn' = Idle)
  BY DEF DesktopCrashes, HostChanges, PairingAcknowledged, PairingExpires, Heartbeat
<1>3. turn' = turn \/ turn'.st # "commit"
  BY <1>2 DEF Idle
<1>4. CASE DesktopCrashes
  <2>1. NoWorse(world, world')
    BY <1>1, <1>4, QuietSecrets DEF DesktopCrashes
  <2> QED BY <1>2, <1>3, <2>1, KeepStep
<1>5. CASE HostChanges
  <2>1. ASSUME NEW k, world' = [world EXCEPT !.host.key = k]
        PROVE  NoWorse(world, world')
    BY <1>1, <2>1 DEF NoWorse, WorldOK, Live, Good, Clean
  <2>2. ASSUME NEW p, world' = [world EXCEPT !.host.password = p]
        PROVE  NoWorse(world, world')
    BY <1>1, <2>2 DEF NoWorse, WorldOK, Live, Good, Clean
  <2>3. NoWorse(world, world')
    BY <1>5, <2>1, <2>2 DEF HostChanges
  <2> QED BY <1>2, <1>3, <2>3, KeepStep
<1>6. CASE PairingAcknowledged
  <2> DEFINE c == world.host.cred
  <2>1. c \in 0..MaxPairing /\ c # 0 /\ world.ctl.phase[c] = "consumed" /\ "ready" \in Phases
    BY <1>1, <1>6 DEF PairingAcknowledged, WorldOK, Phases
  <2>2. world' = [world EXCEPT !.ctl.phase[c] = "ready"]
    BY <1>6 DEF PairingAcknowledged
  <2> HIDE DEF c
  <2>3. /\ WorldOK(world') /\ world'.vault = world.vault
        /\ world'.demolished = world.demolished /\ world'.host = world.host
        /\ \A x \in 1..MaxPairing : x # c => world'.ctl.phase[x] = world.ctl.phase[x]
        /\ c \in 1..MaxPairing => world'.ctl.phase[c] = "ready"
    BY <1>1, <2>1, <2>2, PhaseMoves
  <2>4. c \in 1..MaxPairing
    BY <2>1
  <2>5. \A p \in 1..MaxPairing : Live(world', p) => Live(world, p)
    BY <2>1, <2>3, <2>4 DEF Live
  <2>6. Good(world) => Good(world')
    <3>1. Good(world) => world.ctl.phase[c] = "ready"
      BY DEF Good, c
    <3> QED BY <2>1, <3>1
  <2>7. NoWorse(world, world')
    BY <2>3, <2>5, <2>6 DEF NoWorse, Clean
  <2> QED BY <1>2, <1>3, <2>7, KeepStep
<1>7. CASE PairingExpires
  <2>1. PICK p \in 1..MaxPairing : /\ world.ctl.phase[p] = "pending"
                                   /\ world' = [world EXCEPT !.ctl.phase[p] = "expired"]
    BY <1>7 DEF PairingExpires
  <2>2. p \in 0..MaxPairing /\ "expired" \in Phases
    BY DEF Phases
  <2>3. /\ WorldOK(world') /\ world'.vault = world.vault
        /\ world'.demolished = world.demolished /\ world'.host = world.host
        /\ \A x \in 1..MaxPairing : x # p => world'.ctl.phase[x] = world.ctl.phase[x]
        /\ world'.ctl.phase[p] = "expired"
    BY <1>1, <2>1, <2>2, PhaseMoves
  <2>4. \A x \in 1..MaxPairing : Live(world', x) => Live(world, x)
    BY <2>3 DEF Live
  <2>5. Good(world) => Good(world')
    <3> SUFFICES ASSUME Good(world) PROVE Good(world')
      OBVIOUS
    <3>1. world.host.cred \in 1..MaxPairing /\ world.ctl.phase[world.host.cred] = "ready"
      BY <1>1 DEF Good, WorldOK
    <3>2. world.host.cred # p
      BY <2>1, <3>1
    <3>3. world'.ctl.phase[world'.host.cred] = "ready"
      BY <2>3, <3>1, <3>2
    <3> QED BY <2>3, <3>3 DEF Good
  <2>6. NoWorse(world, world')
    BY <2>3, <2>4, <2>5 DEF NoWorse, Clean
  <2> QED BY <1>2, <1>3, <2>6, KeepStep
<1>8. CASE Heartbeat
  <2> DEFINE n == rec.rev
  <2> HIDE DEF n
  <2>1. world' = [world EXCEPT !.ctl.beat = n]
    BY <1>8 DEF Heartbeat, n
  <2>2. NoWorse(world, world')
    BY <1>1, <2>1 DEF NoWorse, WorldOK, Live, Good, Clean
  <2> QED BY <1>2, <1>3, <2>2, KeepStep
<1> QED BY <1>4, <1>5, <1>6, <1>7, <1>8

-----------------------------------------------------------------------------
(* The theorems.                                                           *)

(* Every step preserves the invariant.                                     *)
LEMMA PvStep == PvInv /\ [PvNext]_pvVars => PvInv'
<1> SUFFICES ASSUME PvInv, [PvNext]_pvVars PROVE PvInv'
  OBVIOUS
<1>1. CASE UNCHANGED pvVars
  <2>1. rec' = rec /\ world' = world /\ turn' = turn
    BY <1>1 DEF pvVars
  <2>2. NoWorse(world, world')
    BY <2>1, QuietSecrets DEF PvInv
  <2> QED BY <2>1, <2>2, KeepStep
<1>2. CASE TakeLock \/ Conflict \/ TurnResume \/ TurnRetry \/ TurnStops
  BY <1>2, QuietTurns
<1>3. CASE TurnRolledBack
  BY <1>3, RolledBackStep
<1>4. CASE TurnCalls
  BY <1>4, CallsStep
<1>5. CASE CommitDone
  BY <1>5, DoneStep
<1>6. CASE CommitRemoved
  BY <1>6, RemovedStep
<1>7. CASE CommitFailure \/ CommitWaits
  BY <1>7, FailureStep
<1>8. CASE \E m \in Methods, rm \in BOOLEAN, d \in InputDefects \cup {"none"} :
              StartComputer([method |-> m, remember |-> rm, defect |-> d])
  <2>1. \E in : StartComputer(in)
    BY <1>8
  <2> QED BY <2>1, StartStep
<1>9. CASE StartAgain \/ ApproveHostKey \/ ForgetCredential \/ RecordForgotten
           \/ \E i \in Intents \ {"Continue"} : RequestIntent(i)
  BY <1>9, QuietCommands
<1>10. CASE BeginRepair
  BY <1>10, RepairStep
<1>11. CASE DesktopCrashes \/ HostChanges \/ PairingAcknowledged \/ PairingExpires \/ Heartbeat
  BY <1>11, SurroundStep
<1> QED BY <1>1, <1>2, <1>3, <1>4, <1>5, <1>6, <1>7, <1>8, <1>9, <1>10, <1>11, Zenon DEF PvNext

(* The inductive invariant holds throughout: in particular the journal never holds  *)
(* a record that does not validate (store.rs would refuse to read it back).         *)
THEOREM PvInvariance == PvSpec => []PvInv
  BY PvInitial, PvStep, PTL DEF PvSpec

(* A live controller credential is always the pairing the journal names, across     *)
(* crashes between a driver call and its write, lost answers and interleaved        *)
(* commands.                                                                        *)
THEOREM PairingsJournaled == PvSpec => []PairingJournaled
<1>1. PvInv => PairingJournaled
  BY DEF PvInv
<1> QED BY <1>1, PvInvariance, PTL

(* A removed computer leaves no password in the vault and no pairing the controller *)
(* would still honour.                                                              *)
THEOREM RemovalsForget == PvSpec => []RemovalForgets
<1>1. PvInv => RemovalForgets
  BY DEF PvInv, RemovalForgets, VaultOK, PairingJournaled
<1> QED BY <1>1, PvInvariance, PTL

(* A computer is published Ready only with its worker running under the accepted    *)
(* pairing of its own record and nothing of its cycle left staged, unless a teardown *)
(* has begun since.                                                                 *)
THEOREM ReadysEarned == PvSpec => []ReadyEarned
<1>1. PvInv => ReadyEarned
  <2> SUFFICES ASSUME PvInv, Published, ~world.demolished PROVE Managed
    BY DEF ReadyEarned
  <2>1. rec # NoComputer /\ rec.step = "Ready" /\ Valid(rec)
    BY DEF Published, PvInv, JournalOK
  <2>2. rec.smoke # "absent"
    BY <2>1 DEF Valid, ReadyCheckpoint
  <2>3. Good(world) /\ Clean(world, rec.cycle)
    BY <2>1, <2>2 DEF PvInv, SmokeOK, ReadyOK
  <2>4. world.host.cred \in 1..MaxPairing
    BY <2>3 DEF PvInv, WorldOK, Good
  <2>5. world.ctl.phase[world.host.cred] \in {"consumed", "ready"}
    BY <2>3 DEF Good
  <2>6. rec.pairing = world.host.cred
    BY <2>4, <2>5 DEF PvInv, PairingJournaled
  <2> QED BY <2>3, <2>6 DEF Managed, Good, Clean
<1> QED BY <1>1, PvInvariance, PTL

(* No step of the engine or of a command replaces a pinned key or withdraws its approval. *)
LEMMA PinStep ==
    ASSUME PvInv, PvNext, rec # NoComputer, rec' # NoComputer
    PROVE  PinSurvives(rec, rec')
<1>1. RowOK(rec) /\ Valid(rec)
  BY DEF PvInv, JournalOK
<1>2. ASSUME rec' = rec PROVE PinSurvives(rec, rec')
  BY <1>2 DEF PinSurvives
<1>3. ASSUME NEW next, RowOK(next), rec' = Saved(rec, next),
             SaveAccepted(rec, next) => PinSurvives(rec, next)
      PROVE  PinSurvives(rec, rec')
  <2>1. CASE ~SaveAccepted(rec, next)
    BY <1>2, <1>3, <2>1 DEF Saved
  <2>2. CASE SaveAccepted(rec, next)
    <3> DEFINE b == [next EXCEPT !.rev = @ + 1]
    <3>1. rec' = b
      BY <1>3, <2>2 DEF Saved
    <3>2. b.key = next.key /\ b.approved = next.approved
      BY <1>3, Bumped
    <3> HIDE DEF b
    <3> QED BY <1>3, <2>2, <3>1, <3>2 DEF PinSurvives
  <2> QED BY <2>1, <2>2
<1>4. ASSUME turn.st = "commit"
      PROVE  RowOK(turn.rec) /\ (rec.rev = turn.rec.rev => rec = turn.rec)
  BY <1>4 DEF PvInv, TurnLoaded
<1>5. CASE \/ TakeLock \/ Conflict \/ TurnStops \/ TurnCalls \/ StartAgain \/ DesktopCrashes
           \/ HostChanges \/ PairingAcknowledged \/ PairingExpires \/ Heartbeat
  <2>1. rec' = rec
    BY <1>5 DEF TakeLock, Conflict, TurnStops, TurnCalls, StartAgain, DesktopCrashes,
        HostChanges, PairingAcknowledged, PairingExpires, Heartbeat
  <2> QED BY <1>2, <2>1
<1>6. CASE TurnResume
  <2> DEFINE v == [rec EXCEPT !.intent = "Continue"]
  <2>1. rec' = Saved(rec, v)
    BY <1>6 DEF TurnResume, Checkpoint
  <2>2. RowOK(v) /\ PinSurvives(rec, v)
    BY <1>1 DEF RowOK, RecFields, PinSurvives, Intents
  <2> HIDE DEF v
  <2> QED BY <1>3, <2>1, <2>2
<1>7. CASE TurnRetry
  <2>1. rec' = Saved(rec, Retried(rec))
    BY <1>7 DEF TurnRetry, Checkpoint
  <2>2. RowOK(Retried(rec)) /\ PinSurvives(rec, Retried(rec))
    BY <1>1, QuietWrites
  <2> QED BY <1>3, <2>1, <2>2
<1>8. CASE TurnRolledBack
  <2>1. rec' = Saved(rec, ResetAfterRollback(rec)) /\ rec.cycle < MaxCycle
    BY <1>8 DEF TurnRolledBack
  <2>2. RowOK(ResetAfterRollback(rec)) /\ PinSurvives(rec, ResetAfterRollback(rec))
    BY <1>1, <2>1, ResetAccepted
  <2> QED BY <1>3, <2>1, <2>2
<1>9. CASE CommitDone
  <2> DEFINE r == turn.rec
             next == IF turn.act \in {"Rollback", "Remove"} THEN [r EXCEPT !.torn = TRUE]
                     ELSE IF CompletionRefused(r, turn.act, turn.data, turn.n)
                          THEN FailedRecord(r, RefusalCode(turn.act))
                     ELSE Completed(r, turn.act, turn.data, turn.n)
  <2>1. /\ turn.st = "commit" /\ turn.kind = "done" /\ turn.act # "ForgetCredential"
        /\ rec' = Saved(rec, next)
    BY <1>9, Zenon DEF CommitDone
  <2>2. RowOK(r) /\ (rec.rev = r.rev => rec = r)
    BY <1>4, <2>1
  <2>3. turn.act = "IssueEnrollment" => turn.n \in 0..MaxPairing
    BY <2>1 DEF PvInv, TurnDid
  <2>4. turn.act \notin {"Rollback", "Remove"} =>
            turn.act = ActionForRecord(r) /\ r.step # "Ready"
    BY <2>1, ActionIntent
  <2> HIDE DEF r
  <2>5. RowOK(next) /\ PinSurvives(r, next) /\ next.rev = r.rev
    <3>1. CASE turn.act \in {"Rollback", "Remove"}
      <4>1. next = [r EXCEPT !.torn = TRUE]
        BY <3>1
      <4> HIDE DEF next
      <4> QED BY <2>2, <4>1 DEF RowOK, RecFields, PinSurvives
    <3>2. CASE /\ turn.act \notin {"Rollback", "Remove"}
               /\ CompletionRefused(r, turn.act, turn.data, turn.n)
      <4> DEFINE code == RefusalCode(turn.act)
      <4>1. next = FailedRecord(r, code)
        BY <3>2
      <4> HIDE DEF next, code
      <4> QED BY <2>2, <4>1, QuietWrites
    <3>3. CASE /\ turn.act \notin {"Rollback", "Remove"}
               /\ ~CompletionRefused(r, turn.act, turn.data, turn.n)
      <4>1. next = Completed(r, turn.act, turn.data, turn.n)
        BY <3>3
      <4> HIDE DEF next
      <4> QED BY <2>2, <2>3, <2>4, <3>3, <4>1, CompletedFields
    <3> QED BY <3>1, <3>2, <3>3
  <2> HIDE DEF next
  <2>6. SaveAccepted(rec, next) => PinSurvives(rec, next)
    BY <2>2, <2>5 DEF SaveAccepted
  <2> QED BY <1>3, <2>1, <2>5, <2>6
<1>10. CASE CommitRemoved
  <2>1. rec' = rec
    BY <1>10 DEF CommitRemoved
  <2> QED BY <1>2, <2>1
<1>11. CASE CommitFailure \/ CommitWaits
  <2> DEFINE r == turn.rec
             code == turn.data
  <2>1. /\ turn.st = "commit"
        /\ \/ rec' = rec \/ rec' = Saved(rec, FailedRecord(r, code))
           \/ rec' = Saved(rec, CredentialRequired(r))
    BY <1>11 DEF CommitFailure, CommitWaits
  <2>2. RowOK(r) /\ (rec.rev = r.rev => rec = r)
    BY <1>4, <2>1
  <2> HIDE DEF r, code
  <2>3. /\ RowOK(FailedRecord(r, code)) /\ PinSurvives(r, FailedRecord(r, code))
        /\ FailedRecord(r, code).rev = r.rev
        /\ RowOK(CredentialRequired(r)) /\ PinSurvives(r, CredentialRequired(r))
        /\ CredentialRequired(r).rev = r.rev
    BY <2>2, QuietWrites
  <2>4. /\ SaveAccepted(rec, FailedRecord(r, code)) => PinSurvives(rec, FailedRecord(r, code))
        /\ SaveAccepted(rec, CredentialRequired(r)) => PinSurvives(rec, CredentialRequired(r))
    BY <2>2, <2>3 DEF SaveAccepted
  <2> QED BY <1>2, <1>3, <2>1, <2>3, <2>4
<1>12. CASE \E m \in Methods, rm \in BOOLEAN, d \in InputDefects \cup {"none"} :
              StartComputer([method |-> m, remember |-> rm, defect |-> d])
  BY <1>12 DEF StartComputer
<1>13. CASE ApproveHostKey
  <2> DEFINE v == [rec EXCEPT !.approved = TRUE]
  <2>1. rec' = Saved(rec, v)
    BY <1>13 DEF ApproveHostKey
  <2>2. RowOK(v) /\ PinSurvives(rec, v)
    BY <1>1 DEF RowOK, RecFields, PinSurvives
  <2> HIDE DEF v
  <2> QED BY <1>3, <2>1, <2>2
<1>14. CASE ForgetCredential \/ RecordForgotten
  <2> DEFINE v == [rec EXCEPT !.ref = FALSE, !.remember = FALSE, !.cred = "Forgotten"]
  <2>1. rec' = rec \/ rec' = Saved(rec, v)
    BY <1>14 DEF ForgetCredential, RecordForgotten
  <2>2. RowOK(v) /\ PinSurvives(rec, v)
    BY <1>1 DEF RowOK, RecFields, PinSurvives
  <2> HIDE DEF v
  <2> QED BY <1>2, <1>3, <2>1, <2>2
<1>15. CASE BeginRepair
  <2>1. /\ rec' = Saved(rec, RepairRecord(rec)) /\ rec.cycle < MaxCycle
        /\ rec.step = "Ready" /\ ~Failed(rec)
    BY <1>15 DEF BeginRepair, RepairRecord
  <2>2. RowOK(RepairRecord(rec)) /\ PinSurvives(rec, RepairRecord(rec))
    BY <1>1, <2>1, RepairAccepted
  <2> QED BY <1>3, <2>1, <2>2
<1>16. CASE \E i \in Intents \ {"Continue"} : RequestIntent(i)
  <2>1. PICK i \in Intents \ {"Continue"} : RequestIntent(i)
    BY <1>16
  <2> DEFINE a == rec.retryable \/ (i = "Retry" /\ Recheckable(rec))
             b == rec.torn /\ i \notin {"Rollback", "Remove"}
             v == [rec EXCEPT !.intent = i, !.retryable = a, !.torn = b]
  <2>2. rec' = Saved(rec, v)
    BY <1>1, <2>1 DEF RequestIntent, RowOK, RecFields
  <2> HIDE DEF a, b
  <2>3. RowOK(v) /\ PinSurvives(rec, v)
    BY <1>1 DEF RowOK, RecFields, PinSurvives
  <2> HIDE DEF v
  <2> QED BY <1>3, <2>2, <2>3
<1> QED BY <1>5, <1>6, <1>7, <1>8, <1>9, <1>10, <1>11, <1>12, <1>13, <1>14, <1>15, <1>16,
           Zenon DEF PvNext

(* The pinned host key and its approval outlive failures, retries, rollbacks and    *)
(* repairs: a host that presents another key is never trusted by a later step.      *)
THEOREM PinsKept == PvSpec => PinKept
<1>1. PvInv /\ [PvNext]_pvVars =>
        [ (rec # NoComputer /\ rec' # NoComputer) =>
            /\ rec.key # NoKey => rec'.key = rec.key
            /\ rec.approved => rec'.approved ]_pvVars
  BY PinStep DEF PinSurvives
<1> QED BY <1>1, PvInvariance, PTL DEF PvSpec, PinKept

====

---------------------------- MODULE PairingProofs ----------------------------
(***************************************************************************)
(* Enrollment for any number of pairings, nodes, retries and requests that *)
(* arrive late or repeatedly: one identity per node at the controller,     *)
(* and on the host no credential file without an owner and no open request *)
(* without its credential.                                                 *)
(*                                                                         *)
(* The worker reaches the controller's tables only through transactions    *)
(* (StoreStep), so the controller's half of the invariant is proved about  *)
(* those alone; all it takes from the host is that requests carry a        *)
(* digest, which is part of the host's half.                               *)
(*                                                                         *)
(* What the halves say of each other is a third invariant, LinkInv: which  *)
(* credentials the controller authenticates or may come to (Engaged), and  *)
(* that those are on the host, recorded and no newer than the config.  It  *)
(* carries the theorems that compare the two sides.                        *)
(***************************************************************************)
EXTENDS PairWorker, FiniteSetTheorems, TLAPS

(* What a transaction may do to the tables.                                *)
StoreStep ==
    \/ \E p \in Pairings :
          \/ CreatePairing(p) \/ RevokePairing(p) \/ Lapse(p)
          \/ \E code \in FailureCodes : FailPairing(p, code)
    \/ \E m \in Request, inTime \in BOOLEAN :
          ConsumePairing(m.pairing, m.digest, inTime)
    \/ \E m \in Request : AcknowledgePairing(m.pairing, m.digest)
    \/ UNCHANGED storeVars

(* The requests that exist are well formed.                                *)
RequestsOK == req \in Request \cup {NoRequest} /\ stray \subseteq Request

(* A credential belongs to the node its consumed pairing was made for.     *)
CredentialsBound ==
    \A c \in creds :
        /\ c.pairing \in Pairings /\ c.node = Intended[c.pairing]
        /\ pairings[c.pairing].used

(* A pairing has one credential at most.                                   *)
CredentialUnique == \A c, d \in creds : c.pairing = d.pairing => c = d

(* A node has one live credential at most.                                 *)
Live(c) == c.active /\ ~c.revoked
LiveUnique == \A c, d \in creds : Live(c) /\ Live(d) /\ c.node = d.node => c = d

StoreInv ==
    /\ StoreTypeOK /\ CredentialsBound /\ CredentialUnique /\ LiveUnique

-----------------------------------------------------------------------------
(* The host's half.                                                        *)

Working == {"staged", "requesting", "pairing", "accepted", "configured",
            "committed", "acking", "settling"}

(* Where the invocation is determines what the ledger says of it.          *)
PlaceOK ==
    /\ pc # "idle" => /\ inv \in Pairings
                      /\ config # NoPairing => SameBinding(config, inv)
    /\ pc = "write" => /\ ledger[inv].state = "Staged" /\ ~Present(inv)
                       /\ secret # 0 /\ ledger[inv].digest = secret
                       /\ config # inv
    /\ pc \in Working => Present(inv)
    /\ pc = "staged" => IF config = inv
          THEN ledger[inv].state \in {"ConfigCommitted", "Acknowledged"}
          ELSE ledger[inv].state \in {"Staged"} \cup Uncertain
    /\ pc \in {"requesting", "pairing", "accepted"} => config # inv
    /\ pc \in {"requesting", "pairing", "accepted", "configured"} =>
          ledger[inv].state \in Uncertain
    /\ pc \in {"configured", "committed", "acking", "settling"} => config = inv
    /\ pc \in {"committed", "acking"} =>
          ledger[inv].state \in Uncertain \cup {"Acknowledged"}
    /\ pc = "settling" => ledger[inv].state = "Acknowledged"

(* Credentials are generated in order.                                     *)
DigestsOrdered ==
    /\ secret <= minted
    /\ \A p \in Pairings :
          /\ ledger[p].digest <= minted
          /\ ledger[p].state # "Absent" => ledger[p].digest # 0
          /\ ledger[p].previous # NoPairing =>
                /\ ledger[p].previous # p /\ SameBinding(p, ledger[p].previous)
                /\ ledger[p].previousDigest < ledger[p].digest

(* The config's credential exists and is newer than any that was           *)
(* acknowledged before it.                                                 *)
ConfigNewest ==
    /\ config # NoPairing => Present(config)
    /\ \A p \in Pairings :
          ledger[p].state = "Acknowledged" =>
             /\ config # NoPairing
             /\ p = config \/ ledger[p].digest < ledger[config].digest

(* An enrollment on its way to the config replaces the present one.        *)
ReplacesConfig ==
    pc \in {"write", "staged", "requesting", "pairing", "accepted"}
    /\ config \notin {inv, NoPairing} =>
        /\ ledger[inv].previous = config
        /\ ledger[inv].previousDigest = files[config]

(* The obligation to remove a predecessor is never about a credential      *)
(* whose fate is open.                                                     *)
CleanupJustified ==
    /\ \A p \in Pairings :
          /\ ledger[p].previousCleanup =>
                ledger[p].state \in {"Acknowledged", "Superseded",
                                     "TerminalUnavailable"}
          /\ ledger[p].state \in Deletes /\ Present(p) => ledger[p].cleanup
    /\ \A p, q \in Pairings :
          /\ ledger[p].previousCleanup
          /\ ledger[p].state \in {"Acknowledged", "Superseded"}
          /\ ledger[p].previous = q /\ ledger[q].state # "Absent"
          /\ ledger[q].digest = ledger[p].previousDigest
          => ledger[q].state \in Deletes \cup {"Acknowledged"}

HostTypeOK ==
    /\ files \in [Pairings -> Nat] /\ ledger \in [Pairings -> Record]
    /\ config \in Pairings \cup {NoPairing}
    /\ pc \in Places /\ inv \in Pairings \cup {NoPairing}
    /\ secret \in Nat /\ minted \in Nat /\ interrupts \in Nat
    /\ reply \in {"none", "ok", "unavailable", "mismatch"}
    /\ RequestsOK

HostInv ==
    /\ HostTypeOK /\ PlaceOK /\ FilesOwned /\ UncertainKept
    /\ DigestsOrdered /\ ConfigNewest /\ ReplacesConfig /\ CleanupJustified

(* A temporary is left behind only by an interruption, which counts.       *)
TempsInv ==
    /\ temps \in [own : Nat, left : SUBSET Nat]
    /\ IsFiniteSet(temps.left) /\ LeftoversFew

IInv == /\ StoreInv /\ HostInv /\ TempsInv
        /\ handed \subseteq Pairings /\ closed \subseteq Pairings

-----------------------------------------------------------------------------
(* Consuming adds a staged credential to a pairing that had none.          *)
LEMMA ConsumeKeeps ==
    ASSUME StoreInv, NEW p \in Pairings, NEW digest \in Digests,
           NEW inTime \in BOOLEAN, ConsumePairing(p, digest, inTime)
    PROVE  StoreInv'
<1>1. CASE ConsumeOutcome(p, digest, inTime) = "consumed"
  <2> DEFINE new == [ pairing |-> p, node |-> Intended[p], digest |-> digest,
                      active |-> FALSE, revoked |-> FALSE ]
  <2>1. /\ pairings' = [pairings EXCEPT ![p].used = TRUE,
                                        ![p].node = Intended[p]]
        /\ known' = known \cup {Intended[p]}
        /\ creds' = creds \cup {new} /\ lapsed' = lapsed
    BY <1>1 DEF ConsumePairing
  <2>2. CleanRow(p) /\ ~pairings[p].used
    BY <1>1 DEF ConsumeOutcome, CleanRow
  <2>3. \A c \in creds : c.pairing # p
    BY <2>2 DEF CleanRow, CredsOf
  <2>4. Intended[p] \in Nodes
    BY PairingAssumption
  <2>5. new \in Credential
    BY <2>4 DEF Credential
  <2>11. new.pairing = p /\ new.node = Intended[p] /\ new.active = FALSE
    OBVIOUS
  <2> HIDE DEF new
  <2>6. StoreTypeOK'
    <3>1. pairings' \in [Pairings -> PairingRow]
      <4>1. [pairings[p] EXCEPT !.used = TRUE, !.node = Intended[p]]
              \in PairingRow
        BY <2>4 DEF StoreInv, StoreTypeOK, PairingRow
      <4>2. pairings' = [pairings EXCEPT ![p] =
                [pairings[p] EXCEPT !.used = TRUE, !.node = Intended[p]]]
        BY <2>1 DEF StoreInv, StoreTypeOK, PairingRow
      <4> QED BY <4>1, <4>2 DEF StoreInv, StoreTypeOK
    <3> QED BY <2>1, <2>4, <2>5, <3>1 DEF StoreInv, StoreTypeOK
  <2>7. CredentialsBound'
    BY <2>1, <2>11 DEF StoreInv, CredentialsBound, StoreTypeOK, PairingRow
  <2>8. CredentialUnique'
    BY <2>1, <2>3, <2>11 DEF StoreInv, CredentialUnique
  <2>9. LiveUnique'
    BY <2>1, <2>11 DEF StoreInv, LiveUnique, Live
  <2> QED BY <2>6, <2>7, <2>8, <2>9 DEF StoreInv
<1>2. CASE ConsumeOutcome(p, digest, inTime) # "consumed"
  <2>1. UNCHANGED storeVars
    BY <1>2 DEF ConsumePairing
  <2> QED BY <2>1 DEF storeVars, StoreInv, StoreTypeOK, CredentialsBound,
                      CredentialUnique, LiveUnique
<1> QED BY <1>1, <1>2

(* Rotation keeps a credential's pairing and node, activates only that of  *)
(* the acknowledged pairing, and leaves no other of the node alive.        *)
LEMMA RotationKeeps ==
    ASSUME NEW c \in Credential, NEW p \in Pairings
    PROVE  /\ RotateCredential(c, p) \in Credential
           /\ RotateCredential(c, p).pairing = c.pairing
           /\ RotateCredential(c, p).node = c.node
           /\ c.pairing # p /\ c.node = Intended[p] =>
                 ~Live(RotateCredential(c, p))
           /\ c.pairing # p /\ Live(RotateCredential(c, p)) => Live(c)
  BY DEF RotateCredential, Revoked, Credential, Live

(* acknowledge_pairing rotates the identity of one node.                   *)
LEMMA AcknowledgeKeeps ==
    ASSUME StoreInv, NEW p \in Pairings, NEW digest \in Digests,
           AcknowledgePairing(p, digest)
    PROVE  StoreInv'
<1>1. CASE AckAccepted(p, digest) /\ ~pairings[p].acked
  <2> DEFINE row(q) ==
        IF q = p THEN [pairings[q] EXCEPT !.acked = TRUE]
        ELSE IF pairings[q].issued /\ Intended[q] = Intended[p]
        THEN [pairings[q] EXCEPT !.revoked = TRUE] ELSE pairings[q]
  <2>1. /\ creds' = {RotateCredential(c, p) : c \in creds}
        /\ pairings' = [q \in Pairings |-> row(q)]
        /\ known' = known /\ lapsed' = lapsed
    BY <1>1 DEF AcknowledgePairing
  <2>2. creds \subseteq Credential
    BY DEF StoreInv, StoreTypeOK
  <2>3. \A q \in Pairings : row(q) \in PairingRow /\ row(q).used = pairings[q].used
    BY DEF StoreInv, StoreTypeOK, PairingRow
  <2> HIDE DEF row
  <2>4. StoreTypeOK'
    <3>1. creds' \subseteq Credential
      BY <2>1, <2>2, RotationKeeps
    <3>2. pairings' \in [Pairings -> PairingRow]
      BY <2>1, <2>3
    <3> QED BY <2>1, <3>1, <3>2 DEF StoreInv, StoreTypeOK
  <2>5. CredentialsBound'
    BY <2>1, <2>2, <2>3, RotationKeeps DEF StoreInv, CredentialsBound
  <2>6. CredentialUnique'
    BY <2>1, <2>2, RotationKeeps DEF StoreInv, CredentialUnique
  <2>7. LiveUnique'
    <3> SUFFICES ASSUME NEW x \in creds', NEW y \in creds',
                        Live(x), Live(y), x.node = y.node
                 PROVE  x = y
      BY DEF LiveUnique, Live
    <3> PICK c \in creds : x = RotateCredential(c, p)
      BY <2>1
    <3> PICK d \in creds : y = RotateCredential(d, p)
      BY <2>1
    <3> SUFFICES c = d
      OBVIOUS
    <3>1. /\ c.node = d.node /\ c.node = Intended[c.pairing]
          /\ d.node = Intended[d.pairing]
      BY <2>2, RotationKeeps DEF StoreInv, CredentialsBound
    <3>2. CASE c.pairing = p \/ d.pairing = p
      <4>1. c.pairing = p /\ d.pairing = p
        BY <3>1, <3>2, <2>2, RotationKeeps
      <4> QED BY <4>1 DEF StoreInv, CredentialUnique
    <3>3. CASE c.pairing # p /\ d.pairing # p
      <4>1. Live(c) /\ Live(d)
        BY <3>3, <2>2, RotationKeeps
      <4> QED BY <4>1, <3>1 DEF StoreInv, LiveUnique
    <3> QED BY <3>2, <3>3
  <2> QED BY <2>4, <2>5, <2>6, <2>7 DEF StoreInv
<1>2. CASE ~(AckAccepted(p, digest) /\ ~pairings[p].acked)
  <2>1. UNCHANGED storeVars
    BY <1>2 DEF AcknowledgePairing
  <2> QED BY <2>1 DEF storeVars, StoreInv, StoreTypeOK, CredentialsBound,
                      CredentialUnique, LiveUnique
<1> QED BY <1>1, <1>2

(* A revoked credential is the same credential, not alive.                 *)
LEMMA RevokeKeeps ==
    ASSUME StoreInv, NEW p \in Pairings, RevokePairing(p)
    PROVE  StoreInv'
<1> DEFINE image(c) == IF c.pairing = p THEN Revoked(c) ELSE c
<1>1. /\ creds' = {image(c) : c \in creds}
      /\ pairings' = [pairings EXCEPT ![p].revoked = TRUE]
      /\ known' = known /\ lapsed' = lapsed
  BY DEF RevokePairing
<1>2. \A c \in Credential :
         /\ image(c) \in Credential /\ image(c).pairing = c.pairing
         /\ image(c).node = c.node /\ (Live(image(c)) => Live(c))
  BY DEF Revoked, Credential, Live
<1>3. creds \subseteq Credential
  BY DEF StoreInv, StoreTypeOK
<1> HIDE DEF image
<1>4. \A q \in Pairings : pairings'[q].used = pairings[q].used
  BY <1>1 DEF StoreInv, StoreTypeOK, PairingRow
<1>5. StoreTypeOK'
  <2>1. pairings' \in [Pairings -> PairingRow]
    BY <1>1 DEF StoreInv, StoreTypeOK, PairingRow
  <2> QED BY <1>1, <1>2, <1>3, <2>1 DEF StoreInv, StoreTypeOK
<1>6. CredentialsBound'
  BY <1>1, <1>2, <1>3, <1>4 DEF StoreInv, CredentialsBound
<1>7. CredentialUnique'
  BY <1>1, <1>2, <1>3 DEF StoreInv, CredentialUnique
<1>8. LiveUnique'
  <2> SUFFICES ASSUME NEW x \in creds', NEW y \in creds',
                      Live(x), Live(y), x.node = y.node
               PROVE  x = y
    BY DEF LiveUnique, Live
  <2> PICK c \in creds : x = image(c)
    BY <1>1
  <2> PICK d \in creds : y = image(d)
    BY <1>1
  <2> QED BY <1>2, <1>3 DEF StoreInv, LiveUnique
<1> QED BY <1>5, <1>6, <1>7, <1>8 DEF StoreInv

(* Every transaction preserves the invariant.                              *)
LEMMA StoreStepKeeps ==
    ASSUME StoreInv, StoreStep
    PROVE  StoreInv'
<1>1. CASE \E m \in Request, inTime \in BOOLEAN :
              ConsumePairing(m.pairing, m.digest, inTime)
  BY <1>1, ConsumeKeeps DEF Request
<1>2. CASE \E m \in Request : AcknowledgePairing(m.pairing, m.digest)
  BY <1>2, AcknowledgeKeeps DEF Request
<1>3. ASSUME NEW p \in Pairings, RevokePairing(p)
      PROVE  StoreInv'
  BY <1>3, RevokeKeeps
<1>4. ASSUME NEW p \in Pairings,
             \/ CreatePairing(p)
             \/ \E code \in FailureCodes : FailPairing(p, code)
      PROVE  StoreInv'
  <2>1. creds' = creds /\ known' = known /\ lapsed' = lapsed
    BY <1>4 DEF CreatePairing, FailPairing
  <2>2. pairings' \in [Pairings -> PairingRow]
    <3>1. CASE CreatePairing(p)
      BY <3>1 DEF CreatePairing, StoreInv, StoreTypeOK, PairingRow
    <3>2. ASSUME NEW code \in FailureCodes, FailPairing(p, code)
          PROVE  pairings' \in [Pairings -> PairingRow]
      BY <3>2 DEF FailPairing, StoreInv, StoreTypeOK, PairingRow
    <3> QED BY <1>4, <3>1, <3>2
  <2>3. \A q \in Pairings : pairings'[q].used = pairings[q].used
    BY <1>4 DEF CreatePairing, FailPairing, StoreInv, StoreTypeOK, PairingRow
  <2> QED BY <2>1, <2>2, <2>3 DEF StoreInv, StoreTypeOK, CredentialsBound,
                                  CredentialUnique, LiveUnique
<1>5. ASSUME NEW p \in Pairings, Lapse(p)
      PROVE  StoreInv'
  BY <1>5 DEF Lapse, StoreInv, StoreTypeOK, CredentialsBound,
              CredentialUnique, LiveUnique
<1>6. CASE UNCHANGED storeVars
  BY <1>6 DEF storeVars, StoreInv, StoreTypeOK, CredentialsBound,
              CredentialUnique, LiveUnique
<1> QED BY <1>1, <1>2, <1>3, <1>4, <1>5, <1>6 DEF StoreStep

-----------------------------------------------------------------------------
(* Whatever the host, the operator, the clocks and late requests do, the   *)
(* tables change by one transaction at a time.                             *)
LEMMA NextIsStoreStep ==
    ASSUME RequestsOK, [Next]_vars
    PROVE  StoreStep
<1>1. CASE UNCHANGED vars
  BY <1>1 DEF vars, StoreStep
<1>2. CASE Operator
  BY <1>2 DEF Operator, Issue, Reissue, Withdraw, StoreStep
<1>3. CASE Clocks
  BY <1>3 DEF Clocks, ControllerLapse, WorkerLapse, StoreStep
<1>4. CASE Invocation
  BY <1>4 DEF Invocation, RefuseForeign, PrepareInvocation, Collect,
              AbandonCollection, FinishCollection, RemoveFile, RefuseStage,
              ReuseCredential, StageCredential, WriteTemporary,
              WriteCredential, RemoveTemporary,
              ResumeCommitted, MarkRequest, RefuseExpired, SendPair,
              PairRefused, PairAccepted, CommitConfig, MarkCommitted, SendAck, AckRefused,
              AckConfirmed, StoreStep
<1>5. CASE HandlePair
  <2>1. req \in Request
    BY <1>5 DEF HandlePair, RequestsOK
  <2>2. PICK inTime \in ClockReadings(req) :
            ConsumePairing(req.pairing, req.digest, inTime)
    BY <1>5 DEF HandlePair
  <2>3. inTime \in BOOLEAN
    BY DEF ClockReadings
  <2> QED BY <2>1, <2>2, <2>3 DEF StoreStep
<1>6. CASE HandleAck
  BY <1>6 DEF HandleAck, RequestsOK, StoreStep
<1>7. ASSUME NEW m \in stray, HandleStray(m)
      PROVE  StoreStep
  <2>1. m \in Request
    BY DEF RequestsOK
  <2>2. CASE AcknowledgePairing(m.pairing, m.digest)
    BY <2>1, <2>2 DEF StoreStep
  <2>3. ASSUME NEW inTime \in ClockReadings(m),
               ConsumePairing(m.pairing, m.digest, inTime)
        PROVE  StoreStep
    <3>1. inTime \in BOOLEAN
      BY DEF ClockReadings
    <3> QED BY <2>1, <2>3, <3>1 DEF StoreStep
  <2> QED BY <1>7, <2>2, <2>3 DEF HandleStray
<1>8. CASE Interrupt \/ \E p \in Pairings : Start(p)
  BY <1>8 DEF Interrupt, Start, StoreStep
<1> QED BY <1>1, <1>2, <1>3, <1>4, <1>5, <1>6, <1>7, <1>8
        DEF Next, Controller

-----------------------------------------------------------------------------
(* The host's steps that leave its files, ledger and config alone.         *)
LEMMA QuietKeeps ==
    ASSUME HostInv,
           UNCHANGED <<files, ledger, config, minted>>,
           HostTypeOK', PlaceOK', secret' <= minted,
           ReplacesConfig'
    PROVE  HostInv'
  BY DEF HostInv, FilesOwned, UncertainKept, DigestsOrdered, ConfigNewest,
         CleanupJustified, Present, Recorded

(* An invocation begins with nothing in memory.                            *)
LEMMA StartKeeps ==
    ASSUME HostInv, NEW p \in Pairings, Start(p)
    PROVE  HostInv'
<1>1. HostTypeOK'
  BY DEF HostInv, HostTypeOK, Start, RequestsOK, Places
<1>2. PlaceOK' /\ ReplacesConfig'
  BY DEF Start, PlaceOK, ReplacesConfig, Working
<1> QED BY <1>1, <1>2, QuietKeeps DEF Start, HostInv, DigestsOrdered

(* An invocation that ends early leaves nothing behind it.                 *)
LEMMA LeaveKeeps ==
    ASSUME HostInv, Leave, UNCHANGED <<files, ledger, config, minted>>,
           interrupts' \in Nat, stray' \subseteq Request
    PROVE  HostInv'
<1>1. HostTypeOK'
  BY DEF HostInv, HostTypeOK, Leave, RequestsOK, Places
<1>2. PlaceOK' /\ ReplacesConfig'
  BY DEF Leave, PlaceOK, ReplacesConfig, Working
<1>3. secret' <= minted
  BY DEF Leave, HostInv, HostTypeOK
<1> QED BY <1>1, <1>2, <1>3, QuietKeeps

(* A crash, a timeout or a failed file operation.                          *)
LEMMA InterruptKeeps ==
    ASSUME HostInv, Interrupt
    PROVE  HostInv'
<1>1. interrupts' \in Nat /\ stray' \subseteq Request
  BY DEF Interrupt, HostInv, HostTypeOK, RequestsOK
<1> QED BY <1>1, LeaveKeeps DEF Interrupt

(* An invocation that is refused changes nothing on disk.                  *)
LEMMA RefusalKeeps ==
    ASSUME HostInv, \/ RefuseForeign \/ AbandonCollection \/ RefuseStage
                    \/ RefuseExpired
    PROVE  HostInv'
<1>1. Leave /\ UNCHANGED <<files, ledger, config, minted, stray, interrupts>>
  BY DEF RefuseForeign, AbandonCollection, RefuseStage, RefuseExpired
<1> QED BY <1>1, LeaveKeeps DEF HostInv, HostTypeOK, RequestsOK

(* A committed config goes straight to its acknowledgement.                *)
LEMMA ResumeKeeps ==
    ASSUME HostInv, ResumeCommitted
    PROVE  HostInv'
<1>1. HostTypeOK'
  BY DEF HostInv, HostTypeOK, ResumeCommitted, RequestsOK, Places
<1>2. PlaceOK' /\ ReplacesConfig'
  BY DEF HostInv, HostTypeOK, ResumeCommitted, PlaceOK, ReplacesConfig,
         Working, Present, Uncertain
<1> QED BY <1>1, <1>2, QuietKeeps DEF ResumeCommitted, HostInv, DigestsOrdered

(* What is sent carries the digest of a credential file that exists.       *)
LEMMA SendKeeps ==
    ASSUME HostInv, SendPair \/ SendAck
    PROVE  HostInv'
<1>1. /\ inv \in Pairings /\ files[inv] \in Digests
  BY DEF SendPair, SendAck, HostInv, HostTypeOK, PlaceOK, Working, Present,
         Digests
<1>2. req' \in Request
  <2> DEFINE early == inv \notin lapsed
  <2>1. PICK kind \in {"pair", "ack"} :
           req' = [ kind |-> kind, pairing |-> inv, digest |-> files[inv],
                    early |-> early ]
    BY Zenon DEF SendPair, SendAck, Send
  <2>2. early \in BOOLEAN
    BY Zenon
  <2> HIDE DEF early
  <2> QED BY <1>1, <2>1, <2>2 DEF Request
<1>3. HostTypeOK'
  BY <1>2 DEF HostInv, HostTypeOK, SendPair, SendAck, RequestsOK, Places
<1>4. PlaceOK' /\ ReplacesConfig'
  BY DEF HostInv, HostTypeOK, SendPair, SendAck, PlaceOK, ReplacesConfig,
         Working, Present, Uncertain
<1> QED BY <1>3, <1>4, QuietKeeps DEF SendPair, SendAck, HostInv, DigestsOrdered

(* The controller's answer is all that a handler brings to the host.       *)
LEMMA HandlerKeeps ==
    ASSUME HostInv, HandlePair \/ HandleAck
    PROVE  HostInv'
<1>1. reply' \in {"none", "ok", "unavailable", "mismatch"}
  BY DEF HandlePair, HandleAck, PairAnswer, ConsumeOutcome
<1>2. HostTypeOK'
  BY <1>1 DEF HostInv, HostTypeOK, HandlePair, HandleAck, RequestsOK
<1>3. PlaceOK' /\ ReplacesConfig'
  BY DEF HostInv, HandlePair, HandleAck, PlaceOK, ReplacesConfig, Present
<1> QED BY <1>2, <1>3, QuietKeeps DEF HandlePair, HandleAck, HostInv,
                                      DigestsOrdered

(* The operator, the clocks and late requests do not touch the host, and   *)
(* a temporary concerns no one but the invocation that writes it.          *)
LEMMA OthersKeep ==
    ASSUME HostInv,
           UNCHANGED <<files, ledger, config, pc, inv, secret, minted, req,
                       reply, stray, interrupts>>
    PROVE  HostInv'
<1>1. HostTypeOK' /\ PlaceOK' /\ ReplacesConfig'
  BY DEF HostInv, HostTypeOK, RequestsOK, PlaceOK, ReplacesConfig, Present
<1> QED BY <1>1, QuietKeeps DEF HostInv, DigestsOrdered

-----------------------------------------------------------------------------
(* The config now names the invocation's credential, which is newer than   *)
(* the one it replaces.                                                    *)
LEMMA CommitKeeps ==
    ASSUME HostInv, CommitConfig
    PROVE  HostInv'
<1>1. /\ inv \in Pairings /\ Present(inv) /\ config # inv
      /\ config' = inv /\ pc' = "configured" /\ ledger[inv].state \in Uncertain
      /\ UNCHANGED <<files, ledger, inv, secret, minted, req, reply, stray,
                     interrupts>>
  BY DEF CommitConfig, HostInv, PlaceOK, Working
<1>2. HostTypeOK' /\ PlaceOK' /\ ReplacesConfig'
  BY <1>1 DEF HostInv, HostTypeOK, RequestsOK, PlaceOK, ReplacesConfig,
              Working, Places, Present, SameBinding
<1>3. ConfigNewest'
  <2>1. ASSUME config # NoPairing
        PROVE  ledger[config].digest < ledger[inv].digest
    <3>1. ledger[inv].previous = config /\ ledger[inv].previousDigest = files[config]
      BY <1>1, <2>1 DEF HostInv, ReplacesConfig, CommitConfig
    <3>2. files[config] = ledger[config].digest
      BY <2>1 DEF HostInv, HostTypeOK, ConfigNewest, FilesOwned
    <3> QED BY <1>1, <2>1, <3>1, <3>2 DEF HostInv, DigestsOrdered
  <2>2. \A p \in Pairings : ledger[p].digest \in Nat
    BY DEF HostInv, HostTypeOK, Record
  <2>3. ASSUME NEW p \in Pairings, ledger[p].state = "Acknowledged"
        PROVE  p = inv \/ ledger[p].digest < ledger[inv].digest
    <3>1. config \in Pairings
      BY <2>3 DEF HostInv, HostTypeOK, ConfigNewest
    <3>2. p = config \/ ledger[p].digest < ledger[config].digest
      BY <2>3 DEF HostInv, ConfigNewest
    <3>3. ledger[config].digest < ledger[inv].digest
      BY <2>1, <3>1, WorkerAssumption
    <3> QED BY <1>1, <2>2, <3>1, <3>2, <3>3
  <2>4. inv # NoPairing
    BY <1>1, WorkerAssumption
  <2> QED BY <1>1, <2>3, <2>4 DEF ConfigNewest, Present
<1>4. FilesOwned' /\ UncertainKept' /\ DigestsOrdered' /\ CleanupJustified'
  BY <1>1 DEF HostInv, FilesOwned, UncertainKept, DigestsOrdered,
              CleanupJustified, Present, Recorded
<1> QED BY <1>2, <1>3, <1>4 DEF HostInv

-----------------------------------------------------------------------------
(* A change of the invocation's record that keeps its digest and           *)
(* predecessor and does not acknowledge it.                                *)
LEMMA RecordKeeps ==
    ASSUME HostInv, inv \in Pairings, NEW r \in Record,
           ledger' = [ledger EXCEPT ![inv] = r],
           UNCHANGED <<files, config, minted>>,
           r.digest = ledger[inv].digest, r.previous = ledger[inv].previous,
           r.previousDigest = ledger[inv].previousDigest,
           r.state \notin {"Absent", "Acknowledged"},
           ledger[inv].state # "Absent",
           r.state \in Uncertain => Present(inv),
           r.state \in Deletes => r.cleanup,
           r.previousCleanup => r.state = "TerminalUnavailable",
           r.state \in Deletes
              \/ ledger[inv].state \notin Deletes \cup {"Acknowledged"},
           secret' <= minted, HostTypeOK', PlaceOK', ReplacesConfig'
    PROVE  HostInv'
<1>1. \A p \in Pairings : ledger'[p] = IF p = inv THEN r ELSE ledger[p]
  BY DEF HostInv, HostTypeOK
<1>2. FilesOwned' /\ UncertainKept'
  BY <1>1 DEF HostInv, FilesOwned, UncertainKept, Present, Recorded
<1>3. DigestsOrdered'
  BY <1>1 DEF HostInv, DigestsOrdered
<1>4. ConfigNewest'
  BY <1>1 DEF HostInv, HostTypeOK, ConfigNewest, Present
<1>5. CleanupJustified'
  <2>1. \A p \in Pairings :
          /\ ledger'[p].previousCleanup =>
                ledger'[p].state \in {"Acknowledged", "Superseded",
                                      "TerminalUnavailable"}
          /\ ledger'[p].state \in Deletes /\ files'[p] # 0 => ledger'[p].cleanup
    BY <1>1 DEF HostInv, CleanupJustified, Present
  <2>2. ASSUME NEW p \in Pairings, NEW q \in Pairings,
               ledger'[p].previousCleanup,
               ledger'[p].state \in {"Acknowledged", "Superseded"},
               ledger'[p].previous = q, ledger'[q].state # "Absent",
               ledger'[q].digest = ledger'[p].previousDigest
        PROVE  ledger'[q].state \in Deletes \cup {"Acknowledged"}
    <3>1. p # inv /\ ledger'[p] = ledger[p]
      BY <1>1, <2>2
    <3>2. ledger[q].digest = ledger[p].previousDigest /\ ledger[q].state # "Absent"
      BY <1>1, <2>2, <3>1
    <3>3. ledger[q].state \in Deletes \cup {"Acknowledged"}
      BY <2>2, <3>1, <3>2 DEF HostInv, CleanupJustified
    <3> QED BY <1>1, <3>3
  <2> QED BY <2>1, <2>2 DEF CleanupJustified, Present
<1> QED BY <1>2, <1>3, <1>4, <1>5 DEF HostInv

(* PairingCredentialLedger::transition in terms of whole records.          *)
LEMMA TransitionRecord ==
    ASSUME HostInv, inv \in Pairings, NEW state \in States, Transition(state)
    PROVE  \E r \in Record :
              /\ ledger' = [ledger EXCEPT ![inv] = r]
              /\ r.digest = ledger[inv].digest
              /\ r.previous = ledger[inv].previous
              /\ r.previousDigest = ledger[inv].previousDigest
              /\ r.previousCleanup = ledger[inv].previousCleanup
              /\ r.state = state
              /\ (state \in Deletes => r.cleanup)
<1> DEFINE flag == ledger[inv].cleanup \/ state \in Deletes
<1> DEFINE r == [ledger[inv] EXCEPT !.state = state, !.cleanup = flag]
<1>1. ledger' = [ledger EXCEPT ![inv] = r]
  BY DEF Transition, HostInv, HostTypeOK
<1>2. flag \in BOOLEAN /\ (state \in Deletes => flag)
  BY Zenon
<1> HIDE DEF flag
<1>3. ledger[inv] \in Record
  BY DEF HostInv, HostTypeOK
<1>4. r \in Record
  BY <1>2, <1>3 DEF Record
<1>5. /\ r.digest = ledger[inv].digest /\ r.previous = ledger[inv].previous
      /\ r.previousDigest = ledger[inv].previousDigest
      /\ r.previousCleanup = ledger[inv].previousCleanup
      /\ r.state = state /\ r.cleanup = flag
  BY <1>3 DEF Record
<1> HIDE DEF r
<1> QED BY <1>1, <1>2, <1>4, <1>5

(* The ledger is marked before the request leaves.                         *)
LEMMA MarkRequestKeeps ==
    ASSUME HostInv, MarkRequest
    PROVE  HostInv'
<1>1. /\ inv \in Pairings /\ Present(inv)
      /\ ledger[inv].state \in {"Staged"} \cup Uncertain
  BY DEF MarkRequest, HostInv, PlaceOK, Working
<1>2. PICK r \in Record :
         /\ ledger' = [ledger EXCEPT ![inv] = r]
         /\ r.digest = ledger[inv].digest /\ r.previous = ledger[inv].previous
         /\ r.previousDigest = ledger[inv].previousDigest
         /\ r.previousCleanup = ledger[inv].previousCleanup
         /\ r.state = "PairRequestUnknown"
  BY <1>1, TransitionRecord DEF MarkRequest, States
<1>3. ledger'[inv] = r /\ ~r.previousCleanup
  BY <1>1, <1>2 DEF HostInv, HostTypeOK, CleanupJustified, Uncertain
<1>4. HostTypeOK'
  BY <1>2 DEF MarkRequest, HostInv, HostTypeOK, RequestsOK, Places
<1>5. PlaceOK' /\ ReplacesConfig'
  BY <1>1, <1>2, <1>3
     DEF MarkRequest, HostInv, PlaceOK, ReplacesConfig, Working, Present,
         Uncertain, SameBinding
<1> QED BY <1>1, <1>2, <1>3, <1>4, <1>5, RecordKeeps
        DEF MarkRequest, Uncertain, Deletes, HostInv, DigestsOrdered

(* A refused enrollment gives up its credential, not the config's.         *)
LEMMA PairRefusedKeeps ==
    ASSUME HostInv, PairRefused
    PROVE  HostInv'
<1> DEFINE final == IF reply = "mismatch" THEN "Superseded"
                    ELSE "TerminalUnavailable"
<1>1. inv \in Pairings /\ ledger[inv].state \in Uncertain
  BY DEF PairRefused, HostInv, PlaceOK
<1>2. PICK r \in Record :
         /\ ledger' = [ledger EXCEPT ![inv] = r]
         /\ r.digest = ledger[inv].digest /\ r.previous = ledger[inv].previous
         /\ r.previousDigest = ledger[inv].previousDigest
         /\ r.previousCleanup = ledger[inv].previousCleanup
         /\ r.state = final /\ (final \in Deletes => r.cleanup)
  <2>1. Transition(final) /\ final \in States
    BY DEF PairRefused, States
  <2> HIDE DEF final
  <2> QED BY <1>1, <2>1, TransitionRecord
<1>3. ~r.previousCleanup
  BY <1>1, <1>2 DEF HostInv, HostTypeOK, CleanupJustified, Uncertain
<1>4. HostTypeOK'
  BY <1>2 DEF PairRefused, Leave, HostInv, HostTypeOK, RequestsOK, Places
<1>5. PlaceOK' /\ ReplacesConfig' /\ secret' <= minted
  BY DEF PairRefused, Leave, PlaceOK, ReplacesConfig, Working, HostInv,
         HostTypeOK
<1> QED BY <1>1, <1>2, <1>3, <1>4, <1>5, RecordKeeps
        DEF PairRefused, Uncertain, Deletes

(* The controller has consumed the pairing.                                *)
LEMMA PairAcceptedKeeps ==
    ASSUME HostInv, PairAccepted
    PROVE  HostInv'
<1>1. inv \in Pairings /\ Present(inv) /\ ledger[inv].state \in Uncertain
  BY DEF PairAccepted, HostInv, PlaceOK, Working
<1>2. PICK r \in Record :
         /\ ledger' = [ledger EXCEPT ![inv] = r]
         /\ r.digest = ledger[inv].digest /\ r.previous = ledger[inv].previous
         /\ r.previousDigest = ledger[inv].previousDigest
         /\ r.previousCleanup = ledger[inv].previousCleanup
         /\ r.state = "PairAccepted"
  BY <1>1, TransitionRecord DEF PairAccepted, States
<1>3. ledger'[inv] = r /\ ~r.previousCleanup
  BY <1>1, <1>2 DEF HostInv, HostTypeOK, CleanupJustified, Uncertain
<1>4. HostTypeOK'
  BY <1>2 DEF PairAccepted, HostInv, HostTypeOK, RequestsOK, Places
<1>5. PlaceOK' /\ ReplacesConfig'
  BY <1>1, <1>2, <1>3
     DEF PairAccepted, HostInv, PlaceOK, ReplacesConfig, Working, Present,
         Uncertain, SameBinding
<1> QED BY <1>1, <1>2, <1>3, <1>4, <1>5, RecordKeeps
        DEF PairAccepted, Uncertain, Deletes, HostInv, DigestsOrdered

(* The ledger follows the config.                                          *)
LEMMA MarkCommittedKeeps ==
    ASSUME HostInv, MarkCommitted
    PROVE  HostInv'
<1>1. inv \in Pairings /\ Present(inv) /\ ledger[inv].state \in Uncertain
  BY DEF MarkCommitted, HostInv, PlaceOK, Working
<1>2. PICK r \in Record :
         /\ ledger' = [ledger EXCEPT ![inv] = r]
         /\ r.digest = ledger[inv].digest /\ r.previous = ledger[inv].previous
         /\ r.previousDigest = ledger[inv].previousDigest
         /\ r.previousCleanup = ledger[inv].previousCleanup
         /\ r.state = "ConfigCommitted"
  BY <1>1, TransitionRecord DEF MarkCommitted, States
<1>3. ledger'[inv] = r /\ ~r.previousCleanup
  BY <1>1, <1>2 DEF HostInv, HostTypeOK, CleanupJustified, Uncertain
<1>4. HostTypeOK'
  BY <1>2 DEF MarkCommitted, HostInv, HostTypeOK, RequestsOK, Places
<1>5. PlaceOK' /\ ReplacesConfig'
  BY <1>1, <1>2, <1>3
     DEF MarkCommitted, HostInv, PlaceOK, ReplacesConfig, Working, Present,
         Uncertain, SameBinding
<1> QED BY <1>1, <1>2, <1>3, <1>4, <1>5, RecordKeeps
        DEF MarkCommitted, Uncertain, Deletes, HostInv, DigestsOrdered

(* A refused acknowledgement ends the enrollment; its file goes when       *)
(* another config takes its place.                                         *)
LEMMA AckRefusedKeeps ==
    ASSUME HostInv, AckRefused
    PROVE  HostInv'
<1> DEFINE flag == ledger[inv].previous # NoPairing
<1> DEFINE r == [ledger[inv] EXCEPT !.state = "TerminalUnavailable",
                    !.cleanup = TRUE, !.previousCleanup = flag]
<1>1. /\ inv \in Pairings
      /\ ledger[inv].state \in Uncertain \cup {"Acknowledged"}
  BY DEF AckRefused, HostInv, PlaceOK
<1>2. ledger' = [ledger EXCEPT ![inv] = r]
  BY DEF AckRefused, HostInv, HostTypeOK
<1>3. flag \in BOOLEAN
  BY Zenon
<1> HIDE DEF flag
<1>4. ledger[inv] \in Record
  BY <1>1 DEF HostInv, HostTypeOK
<1>5. r \in Record
  BY <1>3, <1>4 DEF Record, States
<1>6. /\ r.digest = ledger[inv].digest /\ r.previous = ledger[inv].previous
      /\ r.previousDigest = ledger[inv].previousDigest
      /\ r.state = "TerminalUnavailable" /\ r.cleanup
  BY <1>4 DEF Record
<1> HIDE DEF r
<1>7. HostTypeOK'
  BY <1>2, <1>5 DEF AckRefused, Leave, HostInv, HostTypeOK, RequestsOK, Places
<1>8. PlaceOK' /\ ReplacesConfig' /\ secret' <= minted
  BY DEF AckRefused, Leave, PlaceOK, ReplacesConfig, Working, HostInv,
         HostTypeOK
<1> QED BY <1>1, <1>2, <1>5, <1>6, <1>7, <1>8, RecordKeeps
        DEF AckRefused, Uncertain, Deletes

-----------------------------------------------------------------------------
(* Credentials given up were never sent.                                   *)
LEMMA PrepareKeeps ==
    ASSUME HostInv, PrepareInvocation
    PROVE  HostInv'
<1>1. ledger' = [q \in Pairings |->
           IF GivenUp(q)
           THEN [ledger[q] EXCEPT !.state = GivenUpAs(q), !.cleanup = TRUE]
           ELSE ledger[q]]
  BY DEF PrepareInvocation
<1>2. /\ inv \in Pairings /\ pc = "prepare" /\ pc' = "gc"
      /\ UNCHANGED <<files, config, inv, secret, minted, req, reply, stray,
                     interrupts>>
  BY DEF PrepareInvocation, HostInv, PlaceOK
<1>3. \A q \in Pairings :
        /\ ledger'[q] \in Record
        /\ ledger'[q].digest = ledger[q].digest
        /\ ledger'[q].previous = ledger[q].previous
        /\ ledger'[q].previousDigest = ledger[q].previousDigest
        /\ ledger'[q].previousCleanup = ledger[q].previousCleanup
        /\ \/ ledger'[q] = ledger[q]
           \/ /\ ledger[q].state = "Staged"
              /\ ledger'[q].state \in {"Expired", "Superseded"}
              /\ ledger'[q].cleanup
  <2> SUFFICES ASSUME NEW q \in Pairings
               PROVE  /\ ledger'[q] \in Record
                      /\ ledger'[q].digest = ledger[q].digest
                      /\ ledger'[q].previous = ledger[q].previous
                      /\ ledger'[q].previousDigest = ledger[q].previousDigest
                      /\ ledger'[q].previousCleanup = ledger[q].previousCleanup
                      /\ \/ ledger'[q] = ledger[q]
                         \/ /\ ledger[q].state = "Staged"
                            /\ ledger'[q].state \in {"Expired", "Superseded"}
                            /\ ledger'[q].cleanup
    OBVIOUS
  <2>1. ledger[q] \in Record
    BY DEF HostInv, HostTypeOK
  <2>2. CASE ~GivenUp(q)
    BY <1>1, <2>1, <2>2
  <2>3. CASE GivenUp(q)
    <3>1. /\ ledger'[q] = [ledger[q] EXCEPT !.state = GivenUpAs(q), !.cleanup = TRUE]
          /\ ledger[q].state = "Staged"
      BY <1>1, <2>3 DEF GivenUp
    <3>2. GivenUpAs(q) \in {"Expired", "Superseded"}
      BY DEF GivenUpAs
    <3> QED BY <2>1, <3>1, <3>2 DEF Record, States
  <2> QED BY <2>2, <2>3
<1>5. HostTypeOK'
  <2>1. ledger' \in [Pairings -> Record]
    BY <1>1, <1>3
  <2> QED BY <1>2, <2>1 DEF HostInv, HostTypeOK, RequestsOK, Places
<1>6. PlaceOK' /\ ReplacesConfig'
  BY <1>2 DEF HostInv, PlaceOK, ReplacesConfig, Working, SameBinding
<1>7. FilesOwned' /\ UncertainKept'
  BY <1>2, <1>3 DEF HostInv, FilesOwned, UncertainKept, Present, Recorded,
                    Uncertain
<1>8. DigestsOrdered'
  BY <1>2, <1>3 DEF HostInv, DigestsOrdered, SameBinding
<1>9. ConfigNewest'
  BY <1>2, <1>3 DEF HostInv, HostTypeOK, ConfigNewest, Present
<1>10. CleanupJustified'
  BY <1>2, <1>3 DEF HostInv, CleanupJustified, Present, Deletes
<1> QED BY <1>5, <1>6, <1>7, <1>8, <1>9, <1>10 DEF HostInv

(* A removed file is one whose fate is known and not the config's.         *)
LEMMA RemoveKeeps ==
    ASSUME HostInv, NEW q \in Pairings, RemoveFile(q)
    PROVE  HostInv'
<1>1. /\ pc \in {"gc", "settling"} /\ files' = [files EXCEPT ![q] = 0]
      /\ UNCHANGED <<ledger, config, pc, inv, secret, minted, req, reply,
                     stray, interrupts>>
  BY DEF RemoveFile, Collecting
<1>2. PICK c \in Candidates : c[1] = q
  BY DEF RemoveFile
<1>3. files[q] = c[2] /\ Present(q)
  BY <1>2 DEF RemoveFile, UnverifiedFile
<1>4. /\ q # config
      /\ ledger[q].state \in Deletes \cup {"Acknowledged"}
  <2>1. ASSUME NEW x \in Pairings, StagedTarget(x),
               c = <<x, ledger[x].digest>>
        PROVE  q # config /\ ledger[q].state \in Deletes
    BY <1>2, <2>1 DEF StagedTarget
  <2>2. ASSUME NEW x \in Pairings, PreviousTarget(x),
               c = <<ledger[x].previous, ledger[x].previousDigest>>
        PROVE  q # config /\ ledger[q].state \in Deletes \cup {"Acknowledged"}
    <3>1. /\ ledger[x].previous = q /\ q # config /\ ledger[x].previousCleanup
          /\ ledger[x].state \in {"Acknowledged", "Superseded"}
      BY <1>2, <2>2 DEF PreviousTarget
    <3>2. ledger[q].state # "Absent" /\ ledger[q].digest = ledger[x].previousDigest
      BY <1>2, <1>3, <2>2 DEF HostInv, FilesOwned, Recorded
    <3> QED BY <3>1, <3>2 DEF HostInv, CleanupJustified
  <2> QED BY <2>1, <2>2 DEF Candidates
<1>5. \A p \in Pairings : files'[p] = IF p = q THEN 0 ELSE files[p]
  BY <1>1 DEF HostInv, HostTypeOK
<1>6. HostTypeOK'
  BY <1>1 DEF HostInv, HostTypeOK, RequestsOK
<1>7. PlaceOK' /\ ReplacesConfig'
  BY <1>1, <1>4, <1>5 DEF HostInv, PlaceOK, ReplacesConfig, Working, Present,
                          SameBinding
<1>8. FilesOwned' /\ UncertainKept'
  BY <1>1, <1>4, <1>5 DEF HostInv, FilesOwned, UncertainKept, Present,
                          Recorded, Deletes, Uncertain
<1>9. DigestsOrdered' /\ CleanupJustified'
  BY <1>1, <1>5 DEF HostInv, DigestsOrdered, CleanupJustified, Present,
                    SameBinding
<1>10. ConfigNewest'
  BY <1>1, <1>4, <1>5 DEF HostInv, HostTypeOK, ConfigNewest, Present
<1> QED BY <1>6, <1>7, <1>8, <1>9, <1>10 DEF HostInv

(* Writing the credential makes the file what its record says.             *)
LEMMA WriteKeeps ==
    ASSUME HostInv, WriteCredential
    PROVE  HostInv'
<1>1. /\ inv \in Pairings /\ files' = [files EXCEPT ![inv] = secret]
      /\ ledger[inv].state = "Staged" /\ secret # 0 /\ secret \in Nat
      /\ ledger[inv].digest = secret /\ config # inv
      /\ pc = "write" /\ pc' = "staged" /\ secret' = 0
      /\ UNCHANGED <<ledger, config, inv, minted, req, reply, stray, interrupts>>
  BY DEF WriteCredential, HostInv, HostTypeOK, PlaceOK
<1>2. \A p \in Pairings : files'[p] = IF p = inv THEN secret ELSE files[p]
  BY <1>1 DEF HostInv, HostTypeOK
<1>3. HostTypeOK'
  BY <1>1 DEF HostInv, HostTypeOK, RequestsOK, Places
<1>4. PlaceOK' /\ ReplacesConfig'
  BY <1>1, <1>2 DEF HostInv, HostTypeOK, PlaceOK, ReplacesConfig, Working,
                    Present, SameBinding
<1>5. FilesOwned' /\ UncertainKept'
  BY <1>1, <1>2 DEF HostInv, FilesOwned, UncertainKept, Present, Recorded,
                    Uncertain
<1>6. DigestsOrdered'
  BY <1>1 DEF HostInv, HostTypeOK, DigestsOrdered, SameBinding
<1>7. ConfigNewest'
  BY <1>1, <1>2 DEF HostInv, HostTypeOK, ConfigNewest, Present
<1>8. CleanupJustified'
  BY <1>1, <1>2 DEF HostInv, CleanupJustified, Present, Deletes
<1> QED BY <1>3, <1>4, <1>5, <1>6, <1>7, <1>8 DEF HostInv

(* Clearing touches only the two flags, and clears cleanup only of a file  *)
(* that is gone.                                                           *)
LEMMA ClearedRecord ==
    ASSUME HostInv, NEW q \in Pairings, FinishCollection
    PROVE  /\ Cleared(q) \in Record
           /\ Cleared(q).state = ledger[q].state
           /\ Cleared(q).digest = ledger[q].digest
           /\ Cleared(q).previous = ledger[q].previous
           /\ Cleared(q).previousDigest = ledger[q].previousDigest
           /\ Cleared(q).previousCleanup => ledger[q].previousCleanup
           /\ ledger[q].cleanup /\ Present(q) => Cleared(q).cleanup
<1> DEFINE staged == ledger[q].cleanup /\ ~StagedTarget(q)
           previous == ledger[q].previousCleanup /\ ~PreviousTarget(q)
<1>1. ledger[q] \in Record
  BY DEF HostInv, HostTypeOK
<1>2. staged \in BOOLEAN /\ previous \in BOOLEAN
  BY Zenon
<1>3. Cleared(q) = [ledger[q] EXCEPT !.cleanup = staged,
                                     !.previousCleanup = previous]
  BY <1>1 DEF Cleared, Record
<1>4. ledger[q].cleanup /\ Present(q) => staged
  <2>1. StagedTarget(q) => <<q, ledger[q].digest>> \in Candidates
    BY DEF Candidates
  <2>2. <<q, ledger[q].digest>>[1] = q
    OBVIOUS
  <2> QED BY <2>1, <2>2, Zenon DEF FinishCollection
<1>5. previous => ledger[q].previousCleanup
  BY Zenon
<1> HIDE DEF staged, previous
<1>6. Cleared(q) \in Record
  BY <1>1, <1>2, <1>3, ZenonT(90) DEF Record
<1> QED BY <1>1, <1>3, <1>4, <1>5, <1>6 DEF Record

(* A dropped record owns no file any more.                                 *)
LEMMA FinishKeeps ==
    ASSUME HostInv, FinishCollection
    PROVE  HostInv'
<1>1. /\ ledger' = [q \in Pairings |->
                      IF Retained(q) THEN Cleared(q) ELSE NoRecord]
      /\ pc' \in {"stage", "idle"}
      /\ UNCHANGED <<files, config, minted, stray, interrupts>>
  BY DEF FinishCollection, Leave
<1>2. \/ pc' = "stage" /\ pc # "idle" /\ UNCHANGED <<inv, secret, req, reply>>
      \/ pc' = "idle" /\ Leave
  BY DEF FinishCollection, Collecting, Leave
<1>3. NoRecord \in Record
  BY DEF NoRecord, Record, States
<1>4. \A q \in Pairings :
        \/ ledger'[q] = Cleared(q)
        \/ /\ ledger'[q] = NoRecord /\ q # config /\ ~Present(q)
           /\ ledger[q].state \in Deletes
  <2> SUFFICES ASSUME NEW q \in Pairings, ~Retained(q)
               PROVE  /\ q # config /\ ~Present(q)
                      /\ ledger[q].state \in Deletes
    BY <1>1
  <2>1. q # config /\ ~Cleared(q).cleanup /\ ledger[q].state \in Deletes
    BY DEF Retained
  <2>2. Present(q) => ledger[q].cleanup
    BY <2>1 DEF HostInv, CleanupJustified
  <2> QED BY <2>1, <2>2, ClearedRecord
<1>5. \A q \in Pairings :
        /\ ledger'[q] \in Record
        /\ \/ /\ ledger'[q].state = ledger[q].state
              /\ ledger'[q].digest = ledger[q].digest
              /\ ledger'[q].previous = ledger[q].previous
              /\ ledger'[q].previousDigest = ledger[q].previousDigest
              /\ ledger'[q].previousCleanup => ledger[q].previousCleanup
              /\ ledger[q].cleanup /\ Present(q) => ledger'[q].cleanup
           \/ /\ ledger'[q].state = "Absent" /\ ledger'[q].digest = 0
              /\ ledger'[q].previous = NoPairing
              /\ ~ledger'[q].previousCleanup
              /\ q # config /\ ~Present(q)
              /\ ledger[q].state \in Deletes
  <2>1. /\ NoRecord.state = "Absent" /\ NoRecord.digest = 0
        /\ NoRecord.previous = NoPairing /\ NoRecord.previousCleanup = FALSE
    BY DEF NoRecord
  <2> QED BY <1>3, <1>4, <2>1, ClearedRecord
<1>6. HostTypeOK'
  <2>1. ledger' \in [Pairings -> Record]
    BY <1>1, <1>5
  <2> QED BY <1>1, <1>2, <2>1 DEF HostInv, HostTypeOK, RequestsOK, Places,
                                  Leave
<1>7. PlaceOK' /\ ReplacesConfig'
  BY <1>1, <1>2 DEF HostInv, PlaceOK, ReplacesConfig, Working, SameBinding
<1>8. FilesOwned' /\ UncertainKept'
  BY <1>1, <1>5 DEF HostInv, FilesOwned, UncertainKept, Present, Recorded,
                    Uncertain
<1>9. DigestsOrdered'
  <2>1. secret' <= minted'
    BY <1>1, <1>2 DEF HostInv, HostTypeOK, DigestsOrdered, Leave
  <2> QED BY <1>1, <1>5, <2>1 DEF HostInv, HostTypeOK, DigestsOrdered,
                                  SameBinding
<1>10. ConfigNewest'
  BY <1>1, <1>5 DEF HostInv, HostTypeOK, ConfigNewest, Present
<1>11. CleanupJustified'
  BY <1>1, <1>5 DEF HostInv, CleanupJustified, Present, Deletes
<1> QED BY <1>6, <1>7, <1>8, <1>9, <1>10, <1>11 DEF HostInv

-----------------------------------------------------------------------------
(* A record that staging accepts replaces the present config, so it cannot *)
(* be an older enrollment that was acknowledged.                           *)
LEMMA AcceptedRecord ==
    ASSUME HostInv, pc = "stage", ~Refused, inv \in Recorded, config # inv
    PROVE  /\ ledger[inv].state \in {"Staged"} \cup Uncertain
           /\ ledger[inv].previous = config
           /\ config # NoPairing => ledger[inv].previousDigest = files[config]
<1>1. /\ inv \in Pairings /\ ledger[inv] \in Record
      /\ config # NoPairing => config \in Pairings
  BY DEF HostInv, HostTypeOK, PlaceOK
<1>2. /\ ledger[inv].state \notin Deletes /\ ledger[inv].previous = config
      /\ config # NoPairing => ledger[inv].previousDigest = files[config]
  BY DEF Refused, LayoutPrevious, LayoutPreviousDigest
<1>3. ledger[inv].state # "Acknowledged"
  <2> SUFFICES ASSUME ledger[inv].state = "Acknowledged"
               PROVE  FALSE
    OBVIOUS
  <2>1. config \in Pairings /\ ledger[inv].digest < ledger[config].digest
    BY <1>1 DEF HostInv, ConfigNewest
  <2>2. files[config] = ledger[config].digest
    BY <2>1, WorkerAssumption DEF HostInv, ConfigNewest, FilesOwned
  <2>3. ledger[inv].previousDigest < ledger[inv].digest
    BY <1>1, <1>2, <2>1, WorkerAssumption DEF HostInv, DigestsOrdered
  <2>4. /\ ledger[inv].previousDigest = ledger[config].digest
        /\ ledger[inv].digest \in Nat /\ ledger[config].digest \in Nat
    BY <1>1, <1>2, <2>1, <2>2, WorkerAssumption DEF HostInv, HostTypeOK, Record
  <2> QED BY <2>1, <2>3, <2>4
<1> QED BY <1>1, <1>2, <1>3 DEF Record, States, Deletes, Uncertain, Recorded

(* The file of an earlier attempt is used again.                           *)
LEMMA ReuseKeeps ==
    ASSUME HostInv, ReuseCredential
    PROVE  HostInv'
<1>1. /\ pc = "stage" /\ ~Refused /\ inv \in Pairings /\ Present(inv)
      /\ inv \in Recorded /\ ledger[inv].digest = files[inv]
      /\ ledger' = [ledger EXCEPT ![inv] = StagedRecord(files[inv])]
      /\ pc' = "staged"
      /\ UNCHANGED <<files, config, inv, secret, minted, req, reply, stray,
                     interrupts>>
  BY DEF ReuseCredential, HostInv, PlaceOK, FilesOwned
<1>2. ledger[inv] \in Record /\ ledger \in [Pairings -> Record]
  BY <1>1 DEF HostInv, HostTypeOK
<1>3. CASE config = inv /\ ledger[inv].state # "Acknowledged"
  <2> DEFINE r == [ledger[inv] EXCEPT !.state = "ConfigCommitted"]
  <2>1. r \in Record /\ StagedRecord(files[inv]) = r
    BY <1>1, <1>2, <1>3 DEF StagedRecord, Record, States
  <2>2. /\ r.digest = ledger[inv].digest /\ r.previous = ledger[inv].previous
        /\ r.previousDigest = ledger[inv].previousDigest
        /\ r.previousCleanup = ledger[inv].previousCleanup
        /\ r.state = "ConfigCommitted"
    BY <1>2 DEF Record
  <2> HIDE DEF r
  <2>3. /\ ledger[inv].state \notin Deletes \cup {"Acknowledged", "Absent"}
        /\ ~r.previousCleanup
    BY <1>1, <1>3, <2>2 DEF Refused, Recorded, HostInv, CleanupJustified,
                            Deletes
  <2>4. ledger' = [ledger EXCEPT ![inv] = r] /\ ledger'[inv] = r
    BY <1>1, <1>2, <2>1
  <2>5. HostTypeOK'
    BY <1>1, <2>1, <2>4 DEF HostInv, HostTypeOK, RequestsOK, Places
  <2>6. PlaceOK' /\ ReplacesConfig'
    BY <1>1, <1>3, <2>2, <2>4 DEF HostInv, PlaceOK, ReplacesConfig, Working,
                                  Present, SameBinding
  <2> QED BY <1>1, <2>1, <2>2, <2>3, <2>4, <2>5, <2>6, RecordKeeps
          DEF HostInv, DigestsOrdered, Uncertain, Deletes
<1>4. CASE ~(config = inv /\ ledger[inv].state # "Acknowledged")
  <2>1. StagedRecord(files[inv]) = ledger[inv]
    BY <1>1, <1>2, <1>4 DEF StagedRecord, Record
  <2>2. ledger' = ledger
    BY <1>1, <1>2, <2>1
  <2>3. HostTypeOK'
    BY <1>1, <2>2 DEF HostInv, HostTypeOK, RequestsOK, Places
  <2>4. PlaceOK' /\ ReplacesConfig'
    BY <1>1, <1>4, <2>2, AcceptedRecord
       DEF HostInv, PlaceOK, ReplacesConfig, Working, Present, SameBinding
  <2> QED BY <1>1, <2>2, <2>3, <2>4, QuietKeeps DEF HostInv, DigestsOrdered
<1> QED BY <1>3, <1>4

(* A new credential is the newest, and only for an enrollment of which     *)
(* nothing was sent.                                                       *)
LEMMA StageKeeps ==
    ASSUME HostInv, StageCredential
    PROVE  HostInv'
<1> DEFINE r == StagedRecord(minted + 1)
<1>1. /\ pc = "stage" /\ ~Refused /\ inv \in Pairings /\ ~Present(inv)
      /\ Regenerable /\ minted' = minted + 1 /\ secret' = minted + 1
      /\ ledger' = [ledger EXCEPT ![inv] = r] /\ pc' = "write"
      /\ UNCHANGED <<files, config, inv, req, reply, stray, interrupts>>
  BY DEF StageCredential, HostInv, PlaceOK
<1>2. config # inv
  BY <1>1, WorkerAssumption DEF HostInv, ConfigNewest
<1>3. /\ ledger[inv] \in Record /\ minted \in Nat /\ config \in Pairings \cup {NoPairing}
      /\ files \in [Pairings -> Nat] /\ secret \in Nat
  BY <1>1 DEF HostInv, HostTypeOK
<1>4. /\ r \in Record /\ r.state = "Staged" /\ r.digest = minted + 1
      /\ r.previous = config /\ ~r.previousCleanup
      /\ config # NoPairing => r.previousDigest = files[config]
  <2>1. CASE inv \in Recorded
    <3>1. ledger[inv].state = "Staged"
      BY <1>1, <2>1 DEF Regenerable
    <3>2. r = [ledger[inv] EXCEPT !.digest = minted + 1, !.state = "Staged"]
      BY <1>2, <1>3, <2>1, <3>1 DEF StagedRecord, Record
    <3>3. ~ledger[inv].previousCleanup
      BY <1>1, <3>1 DEF HostInv, CleanupJustified
    <3>4. /\ ledger[inv].previous = config
          /\ config # NoPairing => ledger[inv].previousDigest = files[config]
      BY <1>1, <1>2, <2>1, AcceptedRecord
    <3>5. minted + 1 \in Nat /\ "Staged" \in States
      BY <1>3 DEF States
    <3> HIDE DEF r
    <3>6. r \in Record
      BY <1>3, <3>2, <3>5, ZenonT(90) DEF Record
    <3>7. /\ r.state = "Staged" /\ r.digest = minted + 1
          /\ r.previous = ledger[inv].previous
          /\ r.previousCleanup = ledger[inv].previousCleanup
          /\ r.previousDigest = ledger[inv].previousDigest
      BY <1>3, <3>2 DEF Record
    <3> QED BY <3>3, <3>4, <3>6, <3>7
  <2>2. CASE inv \notin Recorded
    <3>1. r = [ state |-> "Staged", digest |-> minted + 1, previous |-> config,
                previousDigest |-> IF config = NoPairing THEN 0 ELSE files[config],
                previousCleanup |-> FALSE, cleanup |-> FALSE ]
      BY <1>2, <2>2 DEF StagedRecord, NoRecord, LayoutPrevious,
                        LayoutPreviousDigest
    <3> HIDE DEF r
    <3> QED BY <1>3, <3>1 DEF Record, States
  <2> QED BY <2>1, <2>2
<1> HIDE DEF r
<1>5. \A p \in Pairings : ledger'[p] = IF p = inv THEN r ELSE ledger[p]
  BY <1>1 DEF HostInv, HostTypeOK
<1>6. HostTypeOK'
  BY <1>1, <1>3, <1>4 DEF HostInv, HostTypeOK, RequestsOK, Places
<1>7. PlaceOK' /\ ReplacesConfig'
  BY <1>1, <1>2, <1>3, <1>4, <1>5
     DEF HostInv, PlaceOK, ReplacesConfig, Working, Present, SameBinding
<1>8. FilesOwned' /\ UncertainKept'
  BY <1>1, <1>4, <1>5 DEF HostInv, FilesOwned, UncertainKept, Present,
                          Recorded, Uncertain
<1>9. DigestsOrdered'
  <2>1. config # NoPairing => files[config] < minted + 1
    BY <1>3 DEF HostInv, HostTypeOK, ConfigNewest, FilesOwned,
                DigestsOrdered, Record
  <2>2. config # NoPairing => SameBinding(inv, config)
    BY <1>1 DEF HostInv, PlaceOK, SameBinding
  <2>3. \A p \in Pairings : ledger[p].digest \in Nat
    BY DEF HostInv, HostTypeOK, Record
  <2> QED BY <1>1, <1>2, <1>3, <1>4, <1>5, <2>1, <2>2, <2>3
          DEF HostInv, DigestsOrdered, SameBinding
<1>10. ConfigNewest'
  BY <1>1, <1>2, <1>3, <1>4, <1>5 DEF HostInv, ConfigNewest, Present
<1>11. CleanupJustified'
  <2>1. \A p \in Pairings :
          /\ ledger'[p].previousCleanup =>
                ledger'[p].state \in {"Acknowledged", "Superseded",
                                      "TerminalUnavailable"}
          /\ ledger'[p].state \in Deletes /\ files'[p] # 0 => ledger'[p].cleanup
    BY <1>1, <1>4, <1>5 DEF HostInv, CleanupJustified, Present, Deletes
  <2>2. ASSUME NEW p \in Pairings, NEW q \in Pairings,
               ledger'[p].previousCleanup,
               ledger'[p].state \in {"Acknowledged", "Superseded"},
               ledger'[p].previous = q, ledger'[q].state # "Absent",
               ledger'[q].digest = ledger'[p].previousDigest
        PROVE  ledger'[q].state \in Deletes \cup {"Acknowledged"}
    <3>1. p # inv /\ ledger'[p] = ledger[p] /\ q # NoPairing
      BY <1>4, <1>5, <2>2, WorkerAssumption
    <3>2. ledger[p].previousDigest < ledger[p].digest /\ ledger[p].digest <= minted
      BY <2>2, <3>1 DEF HostInv, DigestsOrdered
    <3>3. ledger[p].previousDigest \in Nat /\ ledger[p].digest \in Nat
      BY DEF HostInv, HostTypeOK, Record
    <3>4. q # inv
      BY <1>3, <1>4, <1>5, <2>2, <3>1, <3>2, <3>3
    <3> QED BY <1>5, <2>2, <3>1, <3>4 DEF HostInv, CleanupJustified
  <2> QED BY <2>1, <2>2 DEF CleanupJustified, Present
<1> QED BY <1>6, <1>7, <1>8, <1>9, <1>10, <1>11 DEF HostInv

-----------------------------------------------------------------------------
(* After the acknowledgement every other record of the node is superseded, *)
(* so every predecessor that may be removed is one whose fate is known.    *)
LEMMA AckConfirmedKeeps ==
    ASSUME HostInv, AckConfirmed
    PROVE  HostInv'
<1>1. /\ inv \in Pairings /\ Present(inv) /\ config = inv
      /\ ledger[inv].state # "Absent" /\ pc' = "settling"
      /\ ledger' = [q \in Pairings |-> Supersede(q)]
      /\ req' = NoRequest /\ reply' = "none"
      /\ UNCHANGED <<files, config, inv, secret, minted, stray, interrupts>>
  BY DEF AckConfirmed, HostInv, PlaceOK, Working, Uncertain
<1>2. \A q \in Pairings :
        /\ ledger'[q] \in Record
        /\ ledger'[q].digest = ledger[q].digest
        /\ ledger'[q].previous = ledger[q].previous
        /\ ledger'[q].previousDigest = ledger[q].previousDigest
  <2> SUFFICES ASSUME NEW q \in Pairings
               PROVE  /\ ledger'[q] \in Record
                      /\ ledger'[q].digest = ledger[q].digest
                      /\ ledger'[q].previous = ledger[q].previous
                      /\ ledger'[q].previousDigest = ledger[q].previousDigest
    OBVIOUS
  <2>1. ledger[q] \in Record /\ ledger'[q] = Supersede(q)
    BY <1>1 DEF HostInv, HostTypeOK
  <2>2. CASE q = inv
    <3> DEFINE flag == ledger[q].previous # NoPairing
    <3>1. ledger'[q] = [ledger[q] EXCEPT !.state = "Acknowledged",
                          !.cleanup = FALSE, !.previousCleanup = flag]
      BY <2>1, <2>2 DEF Supersede
    <3>2. flag \in BOOLEAN
      BY Zenon
    <3> HIDE DEF flag
    <3> QED BY <2>1, <3>1, <3>2 DEF Record, States
  <2>3. CASE q # inv
    BY <2>1, <2>3 DEF Supersede, Record, States
  <2> QED BY <2>2, <2>3
<1>3. ledger'[inv].state = "Acknowledged"
  BY <1>1 DEF Supersede, HostInv, HostTypeOK, Record
<1>4. \A q \in Pairings :
        q # inv /\ ledger[q].state # "Absent" /\ SameBinding(q, inv) =>
           /\ ledger'[q].state = "Superseded" /\ ledger'[q].cleanup
           /\ ledger'[q].previousCleanup = ledger[q].previousCleanup
  BY <1>1 DEF Supersede, HostInv, HostTypeOK, Record, Recorded
<1>5. \A q \in Pairings :
        q # inv /\ ~(ledger[q].state # "Absent" /\ SameBinding(q, inv)) =>
           ledger'[q] = ledger[q]
  BY <1>1 DEF Supersede, Recorded
<1>6. HostTypeOK'
  <2>1. ledger' \in [Pairings -> Record]
    BY <1>1, <1>2
  <2> QED BY <1>1, <2>1 DEF HostInv, HostTypeOK, RequestsOK, Places
<1>7. PlaceOK' /\ ReplacesConfig'
  BY <1>1, <1>3 DEF PlaceOK, ReplacesConfig, Working, Present, SameBinding
<1>8. FilesOwned' /\ UncertainKept'
  BY <1>1, <1>2, <1>3, <1>4, <1>5
     DEF HostInv, FilesOwned, UncertainKept, Present, Recorded, Uncertain
<1>9. DigestsOrdered'
  BY <1>1, <1>2, <1>3, <1>4, <1>5 DEF HostInv, DigestsOrdered, SameBinding
<1>10. ConfigNewest'
  BY <1>1, <1>2, <1>3, <1>4, <1>5, WorkerAssumption
     DEF HostInv, ConfigNewest, Present
<1>11. CleanupJustified'
  <2>1. \A p \in Pairings :
          /\ ledger'[p].previousCleanup =>
                ledger'[p].state \in {"Acknowledged", "Superseded",
                                      "TerminalUnavailable"}
          /\ ledger'[p].state \in Deletes /\ files'[p] # 0 => ledger'[p].cleanup
    BY <1>1, <1>3, <1>4, <1>5 DEF HostInv, CleanupJustified, Present, Deletes
  <2>2. ASSUME NEW p \in Pairings, NEW q \in Pairings,
               ledger'[p].previousCleanup,
               ledger'[p].state \in {"Acknowledged", "Superseded"},
               ledger'[p].previous = q, ledger'[q].state # "Absent",
               ledger'[q].digest = ledger'[p].previousDigest
        PROVE  ledger'[q].state \in Deletes \cup {"Acknowledged"}
    <3>1. ledger[p].previous = q /\ q # NoPairing /\ SameBinding(p, q)
      BY <1>2, <2>2, WorkerAssumption DEF HostInv, DigestsOrdered
    <3>2. ledger[q].state # "Absent"
      BY <1>1, <1>5, <2>2
    <3>3. CASE SameBinding(q, inv)
      BY <1>3, <1>4, <3>2, <3>3 DEF Deletes
    <3>4. CASE ~SameBinding(q, inv)
      <4>1. ~SameBinding(p, inv) /\ p # inv /\ q # inv
        BY <3>1, <3>4 DEF SameBinding
      <4>2. ledger'[p] = ledger[p] /\ ledger'[q] = ledger[q]
        BY <1>5, <3>4, <4>1
      <4> QED BY <2>2, <4>2 DEF HostInv, CleanupJustified
    <3> QED BY <3>3, <3>4
  <2> QED BY <2>1, <2>2 DEF CleanupJustified, Present
<1> QED BY <1>6, <1>7, <1>8, <1>9, <1>10, <1>11 DEF HostInv

-----------------------------------------------------------------------------
(* Every step keeps the host's half.                                       *)
LEMMA HostStepKeeps ==
    ASSUME HostInv, [Next]_vars
    PROVE  HostInv'
<1>1. CASE UNCHANGED vars
  BY <1>1, OthersKeep DEF vars, workerVars
<1>2. CASE Operator \/ Clocks
  BY <1>2, OthersKeep DEF Operator, Clocks, Issue, Reissue, Withdraw,
                          ControllerLapse, WorkerLapse, workerVars
<1>3. CASE Invocation
  <2>1. CASE WriteTemporary \/ RemoveTemporary
    BY <2>1, OthersKeep DEF WriteTemporary, RemoveTemporary
  <2> QED BY <1>3, <2>1, RefusalKeeps, PrepareKeeps, RemoveKeeps, FinishKeeps,
             ReuseKeeps, StageKeeps, WriteKeeps, ResumeKeeps, MarkRequestKeeps,
             SendKeeps, PairRefusedKeeps, PairAcceptedKeeps, CommitKeeps,
             MarkCommittedKeeps, AckRefusedKeeps, AckConfirmedKeeps
          DEF Invocation, Collect
<1>4. CASE Controller
  BY <1>4, HandlerKeeps, OthersKeep DEF Controller, HandleStray, workerVars
<1>5. CASE Interrupt
  BY <1>5, InterruptKeeps
<1>6. CASE \E p \in Pairings : Start(p)
  BY <1>6, StartKeeps
<1> QED BY <1>1, <1>2, <1>3, <1>4, <1>5, <1>6 DEF Next

(* Only an interruption leaves a temporary, and one at most.               *)
LEMMA TempsKeep ==
    ASSUME HostInv, TempsInv, [Next]_vars
    PROVE  TempsInv'
<1>1. CASE Interrupt
  <2>1. /\ temps.own \in Nat /\ temps.left \subseteq Nat
        /\ interrupts \in Nat /\ interrupts' = interrupts + 1
    BY <1>1 DEF TempsInv, Interrupt, HostInv, HostTypeOK
  <2>2. PICK swept \in BOOLEAN :
          temps' = [own |-> 0, left |-> IF swept THEN temps.left ELSE Abandoned]
    BY <1>1 DEF Interrupt
  <2>3. temps'.left \in {temps.left, temps.left \cup {temps.own}}
        /\ temps' \in [own : Nat, left : SUBSET Nat]
    BY <2>1, <2>2 DEF Abandoned
  <2>4. /\ IsFiniteSet(temps.left \cup {temps.own})
        /\ Cardinality(temps.left \cup {temps.own}) <= Cardinality(temps.left) + 1
        /\ Cardinality(temps.left) \in Nat
    <3>1. Cardinality(temps.left) \in Nat
      BY FS_CardinalityType DEF TempsInv
    <3>2. /\ IsFiniteSet(temps.left \cup {temps.own})
          /\ \/ Cardinality(temps.left \cup {temps.own}) = Cardinality(temps.left)
             \/ Cardinality(temps.left \cup {temps.own}) = Cardinality(temps.left) + 1
      <4>1. IsFiniteSet(temps.left)
        BY DEF TempsInv
      <4> DEFINE S == temps.left
                 x == temps.own
      <4> HIDE DEF S, x
      <4>2. IsFiniteSet(S) => /\ IsFiniteSet(S \cup {x})
                              /\ Cardinality(S \cup {x}) = IF x \in S THEN Cardinality(S)
                                                           ELSE Cardinality(S) + 1
        BY FS_AddElement
      <4> QED BY <4>1, <4>2 DEF S, x
    <3> QED BY <3>1, <3>2
  <2>5. IsFiniteSet(temps'.left) /\ Cardinality(temps'.left) <= interrupts'
    <3>1. CASE temps'.left = temps.left
      BY <2>1, <2>4, <3>1 DEF TempsInv, LeftoversFew
    <3>2. CASE temps'.left = temps.left \cup {temps.own}
      <4>1. Cardinality(temps.left \cup {temps.own}) \in Nat
        BY <2>4, FS_CardinalityType
      <4> QED BY <2>1, <2>4, <3>2, <4>1 DEF TempsInv, LeftoversFew
    <3> QED BY <2>3, <3>1, <3>2
  <2> QED BY <2>3, <2>5 DEF TempsInv, LeftoversFew
<1>2. CASE WriteTemporary \/ RemoveTemporary
  <2>1. \E d \in Nat : temps' = [temps EXCEPT !.own = d]
    BY <1>2 DEF WriteTemporary, RemoveTemporary, HostInv, HostTypeOK
  <2>2. temps' \in [own : Nat, left : SUBSET Nat] /\ temps'.left = temps.left
    BY <2>1 DEF TempsInv
  <2>3. interrupts' = interrupts
    BY <1>2 DEF WriteTemporary, RemoveTemporary
  <2> QED BY <2>2, <2>3 DEF TempsInv, LeftoversFew
<1>3. CASE UNCHANGED <<temps, interrupts>>
  BY <1>3 DEF TempsInv, LeftoversFew
<1>4. CASE Invocation
  <2>1. WriteTemporary \/ RemoveTemporary \/ UNCHANGED <<temps, interrupts>>
    BY <1>4 DEF Invocation, RefuseForeign, PrepareInvocation, Collect,
                AbandonCollection, FinishCollection, RemoveFile, RefuseStage,
                ReuseCredential, StageCredential, WriteCredential,
                ResumeCommitted, MarkRequest, RefuseExpired, SendPair,
                PairRefused, PairAccepted, CommitConfig, MarkCommitted, SendAck,
                AckRefused, AckConfirmed
  <2> QED BY <1>2, <1>3, <2>1
<1>5. CASE Operator \/ Clocks \/ Controller
           \/ (\E p \in Pairings : Start(p)) \/ UNCHANGED vars
  <2>1. UNCHANGED <<temps, interrupts>>
    BY <1>5 DEF Operator, Clocks, Issue, Reissue, Withdraw, ControllerLapse,
                WorkerLapse, Controller, HandlePair, HandleAck, HandleStray,
                Start, vars, workerVars
  <2> QED BY <1>3, <2>1
<1> QED BY <1>1, <1>4, <1>5 DEF Next

-----------------------------------------------------------------------------
(* What the two halves know of each other.                                 *)

(* A row and its credential fit together: classify_pairing_phase.          *)
RowsShaped ==
    \A p \in Pairings :
       IF pairings[p].used
       THEN /\ pairings[p].issued /\ pairings[p].failure = "none"
            /\ pairings[p].node = Intended[p] /\ Intended[p] \in known
            /\ \E c \in creds : c.pairing = p
            /\ \A c \in creds : c.pairing = p =>
                  (c.active <=> pairings[p].acked) /\ (c.revoked <=> pairings[p].revoked)
       ELSE ~pairings[p].acked /\ pairings[p].node = NoNode

(* The invocation waits on the request it sent, and on no other.           *)
RequestOK ==
    /\ pc \notin {"pairing", "acking"} => req = NoRequest /\ reply = "none"
    /\ pc = "pairing" => req.kind = "pair"
    /\ pc = "acking" => req.kind = "ack"
    /\ pc \in {"pairing", "acking"} => req.pairing = inv /\ req.digest = files[inv]

(* The controller holds the credential in the pairing's file.              *)
Bound(p) == \E c \in CredsOf(p) : c.digest = files[p]

(* An answer was true when it was given and still is.                      *)
AnswerOK ==
    /\ (pc = "pairing" /\ reply = "ok") \/ pc = "accepted" => Bound(inv)
    /\ pc = "acking" /\ reply = "ok" => \E c \in CredsOf(inv) : c.active
    /\ pc = "acking" /\ reply = "unavailable" => pairings[inv].revoked

(* An acknowledgement is on the way, or may arrive again.                  *)
AckSent(p) ==
    \/ req.kind = "ack" /\ req.pairing = p
    \/ \E m \in stray : m.kind = "ack" /\ m.pairing = p

(* The controller authenticates the credential, or may come to.            *)
Engaged(c) == c.active \/ AckSent(c.pairing)

AcksBound == \A p \in Pairings : AckSent(p) => CredsOf(p) # {}

(* The config moves forward only: what was acknowledged before is older.   *)
EngagedOlder ==
    \A c \in creds : Engaged(c) =>
        /\ config # NoPairing
        /\ c.pairing = config \/ c.digest < files[config]

(* What may authenticate keeps its file, and a record that keeps it.       *)
EngagedKept ==
    \A c \in creds : Engaged(c) /\ ~c.revoked =>
        /\ files[c.pairing] = c.digest
        /\ ledger[c.pairing].state \in Uncertain \cup {"Acknowledged"}

(* An activation has ended whatever the host had acknowledged before.      *)
ActivationEnds ==
    \A c, d \in creds :
        c.active /\ Engaged(d) /\ c.node = d.node /\ d.digest < c.digest
        => d.revoked

(* A predecessor to be removed is one the controller has ended.            *)
PredecessorEnded ==
    \A x \in Pairings : ledger[x].previousCleanup =>
        /\ config # NoPairing
        /\ x = config \/ ledger[x].digest < files[config]
        /\ ledger[x].state \in {"Acknowledged", "Superseded"} =>
              \A c \in CredsOf(ledger[x].previous) :
                 Engaged(c) /\ files[c.pairing] = ledger[x].previousDigest
                 => c.revoked

LinkInv ==
    /\ RowsShaped /\ RequestOK /\ AnswerOK /\ AcksBound /\ ConfigUsable
    /\ EngagedOlder /\ EngagedKept /\ ActivationEnds /\ PredecessorEnded


(* A transaction keeps every credential, adds staged ones only, and what   *)
(* it activates ends every other credential of the node.                   *)
Follows(c, d) ==
    /\ d.pairing = c.pairing /\ d.node = c.node /\ d.digest = c.digest
    /\ c.active => d.active
    /\ c.revoked => d.revoked

CredsMove(activated) ==
    /\ \A c \in creds : \E d \in creds' : Follows(c, d)
    /\ \A d \in creds' : \/ \E c \in creds : Follows(c, d)
                         \/ ~d.active /\ \A c \in creds : c.pairing # d.pairing
    /\ \A p \in Pairings : pairings[p].revoked => pairings'[p].revoked
    /\ \A c \in creds, d \in creds' :
          Follows(c, d) /\ d.active /\ ~c.active =>
             /\ c.pairing \in activated
             /\ \A e \in creds' : e.node = d.node /\ e.pairing # d.pairing => e.revoked

(* Transactions that leave the credentials alone.                          *)
LEMMA RowsOnlyMove ==
    ASSUME StoreInv, RowsShaped, UNCHANGED <<creds, known>>,
           \A p \in Pairings :
              /\ pairings'[p].used = pairings[p].used
              /\ pairings'[p].acked = pairings[p].acked
              /\ pairings'[p].node = pairings[p].node
              /\ pairings'[p].revoked = pairings[p].revoked
              /\ pairings[p].issued => pairings'[p].issued
              /\ pairings[p].used => pairings'[p].failure = pairings[p].failure
    PROVE  RowsShaped' /\ CredsMove({})
<1>1. RowsShaped'
  BY DEF RowsShaped
<1>2. \A c \in creds : Follows(c, c)
  BY DEF Follows
<1>3. ASSUME NEW c \in creds, NEW d \in creds', Follows(c, d), d.active, ~c.active
      PROVE  FALSE
  BY <1>3 DEF Follows, StoreInv, CredentialUnique
<1> QED BY <1>1, <1>2, <1>3 DEF CredsMove

(* Creating, expiring and failing a pairing move no credential.            *)
LEMMA PlainMoves ==
    ASSUME StoreInv, RowsShaped,
           \/ UNCHANGED storeVars
           \/ \E p \in Pairings :
                 \/ CreatePairing(p) \/ Lapse(p)
                 \/ \E code \in FailureCodes : FailPairing(p, code)
    PROVE  RowsShaped' /\ CredsMove({})
<1>0. pairings \in [Pairings -> PairingRow]
  BY DEF StoreInv, StoreTypeOK
<1>1. CASE UNCHANGED pairings /\ UNCHANGED <<creds, known>>
  BY <1>1, RowsOnlyMove
<1>2. ASSUME NEW p \in Pairings, CreatePairing(p)
      PROVE  RowsShaped' /\ CredsMove({})
  <2>1. UNCHANGED <<creds, known>> /\ pairings' = [pairings EXCEPT ![p].issued = TRUE]
    BY <1>2 DEF CreatePairing
  <2>2. \A q \in Pairings :
              /\ pairings'[q].used = pairings[q].used
              /\ pairings'[q].acked = pairings[q].acked
              /\ pairings'[q].node = pairings[q].node
              /\ pairings'[q].revoked = pairings[q].revoked
              /\ pairings[q].issued => pairings'[q].issued
              /\ pairings[q].used => pairings'[q].failure = pairings[q].failure
    BY <1>0, <2>1 DEF PairingRow
  <2> QED BY <2>1, <2>2, RowsOnlyMove
<1>3. ASSUME NEW p \in Pairings, NEW code \in FailureCodes, FailPairing(p, code)
      PROVE  RowsShaped' /\ CredsMove({})
  <2>1. /\ UNCHANGED <<creds, known>> /\ pairings' = [pairings EXCEPT ![p].failure = code]
        /\ Phase(p) = "Pending"
    BY <1>3 DEF FailPairing
  <2>2. ~pairings[p].used
    BY <2>1 DEF Phase, CleanRow, ExactBinding
  <2>3. \A q \in Pairings :
              /\ pairings'[q].used = pairings[q].used
              /\ pairings'[q].acked = pairings[q].acked
              /\ pairings'[q].node = pairings[q].node
              /\ pairings'[q].revoked = pairings[q].revoked
              /\ pairings[q].issued => pairings'[q].issued
              /\ pairings[q].used => pairings'[q].failure = pairings[q].failure
    BY <1>0, <2>1, <2>2 DEF PairingRow
  <2> QED BY <2>1, <2>3, RowsOnlyMove
<1> QED BY <1>1, <1>2, <1>3 DEF storeVars, Lapse

(* revoke_pairing ends the pairing's credential and activates none.        *)
LEMMA RevokeMoves ==
    ASSUME StoreInv, RowsShaped, NEW p \in Pairings, RevokePairing(p)
    PROVE  RowsShaped' /\ CredsMove({})
<1> DEFINE image(c) == IF c.pairing = p THEN Revoked(c) ELSE c
<1>0. /\ pairings \in [Pairings -> PairingRow] /\ creds \subseteq Credential
      /\ creds' = {image(c) : c \in creds} /\ known' = known
      /\ pairings' = [pairings EXCEPT ![p].revoked = TRUE]
  BY DEF StoreInv, StoreTypeOK, RevokePairing
<1>1. \A c \in Credential :
         /\ Follows(c, image(c)) /\ (image(c).active <=> c.active)
         /\ image(c).pairing = c.pairing
         /\ image(c).revoked <=> c.pairing = p \/ c.revoked
  BY DEF Revoked, Credential, Follows
<1> HIDE DEF image
<1>2. \A q \in Pairings :
        /\ pairings'[q].used = pairings[q].used
        /\ pairings'[q].issued = pairings[q].issued
        /\ pairings'[q].acked = pairings[q].acked
        /\ pairings'[q].node = pairings[q].node
        /\ pairings'[q].failure = pairings[q].failure
        /\ pairings'[q].revoked <=> q = p \/ pairings[q].revoked
  BY <1>0 DEF PairingRow
<1>3. RowsShaped'
  <2> SUFFICES ASSUME NEW q \in Pairings, pairings[q].used
               PROVE  /\ \E d \in creds' : d.pairing = q
                      /\ \A d \in creds' : d.pairing = q =>
                            /\ d.active <=> pairings'[q].acked
                            /\ d.revoked <=> pairings'[q].revoked
    BY <1>0, <1>2 DEF RowsShaped
  <2>1. PICK c \in creds : c.pairing = q
    BY DEF RowsShaped
  <2>2. \E d \in creds' : d.pairing = q
    BY <1>0, <1>1, <2>1
  <2>3. ASSUME NEW d \in creds', d.pairing = q
        PROVE  (d.active <=> pairings'[q].acked) /\ (d.revoked <=> pairings'[q].revoked)
    <3>1. PICK e \in creds : d = image(e)
      BY <1>0
    <3>2. /\ e.pairing = q
          /\ (e.active <=> pairings[q].acked) /\ (e.revoked <=> pairings[q].revoked)
      BY <1>0, <1>1, <2>3, <3>1 DEF RowsShaped
    <3> QED BY <1>0, <1>1, <1>2, <3>1, <3>2
  <2> QED BY <2>2, <2>3
<1>4. ASSUME NEW c \in creds, NEW d \in creds', Follows(c, d), d.active, ~c.active
      PROVE  FALSE
  <2>1. PICK e \in creds : d = image(e)
    BY <1>0
  <2>2. e.pairing = c.pairing /\ e.active
    BY <1>0, <1>1, <1>4, <2>1 DEF Follows
  <2> QED BY <1>4, <2>2 DEF StoreInv, CredentialUnique
<1>5. CredsMove({})
  <2>1. \A c \in creds : \E d \in creds' : Follows(c, d)
    BY <1>0, <1>1
  <2>2. \A d \in creds' : \E c \in creds : Follows(c, d)
    BY <1>0, <1>1
  <2> QED BY <1>2, <1>4, <2>1, <2>2 DEF CredsMove
<1> QED BY <1>3, <1>5

(* consume_pairing adds a staged credential at most.                       *)
LEMMA ConsumeMoves ==
    ASSUME StoreInv, RowsShaped, NEW p \in Pairings, NEW digest \in Digests,
           NEW inTime \in BOOLEAN, ConsumePairing(p, digest, inTime)
    PROVE  RowsShaped' /\ CredsMove({})
<1>1. CASE ConsumeOutcome(p, digest, inTime) = "consumed"
  <2> DEFINE new == [ pairing |-> p, node |-> Intended[p], digest |-> digest,
                      active |-> FALSE, revoked |-> FALSE ]
  <2>0. /\ pairings \in [Pairings -> PairingRow]
        /\ pairings' = [pairings EXCEPT ![p].used = TRUE, ![p].node = Intended[p]]
        /\ known' = known \cup {Intended[p]} /\ creds' = creds \cup {new}
    BY <1>1 DEF ConsumePairing, StoreInv, StoreTypeOK
  <2>1. /\ CleanRow(p) /\ ~pairings[p].used /\ Usable(p, inTime)
    BY <1>1 DEF ConsumeOutcome, CleanRow
  <2>2. /\ \A c \in creds : c.pairing # p
        /\ ~pairings[p].acked /\ pairings[p].issued /\ ~pairings[p].revoked
        /\ pairings[p].failure = "none"
    BY <2>1 DEF CleanRow, CredsOf, Usable
  <2>3. new.pairing = p /\ new.active = FALSE /\ new.revoked = FALSE
    OBVIOUS
  <2> HIDE DEF new
  <2>4. \A q \in Pairings :
          /\ pairings'[q].issued = pairings[q].issued
          /\ pairings'[q].acked = pairings[q].acked
          /\ pairings'[q].failure = pairings[q].failure
          /\ pairings'[q].revoked = pairings[q].revoked
          /\ pairings'[q].used <=> q = p \/ pairings[q].used
          /\ pairings'[q].node = IF q = p THEN Intended[p] ELSE pairings[q].node
    BY <2>0 DEF PairingRow
  <2>6. RowsShaped'
    BY <2>0, <2>2, <2>3, <2>4 DEF RowsShaped
  <2>7. \A c \in creds : Follows(c, c)
    BY DEF Follows
  <2>8. ASSUME NEW c \in creds, NEW d \in creds', Follows(c, d), d.active, ~c.active
        PROVE  FALSE
    BY <2>0, <2>3, <2>8 DEF Follows, StoreInv, CredentialUnique
  <2> QED BY <2>0, <2>2, <2>3, <2>4, <2>6, <2>7, <2>8 DEF CredsMove
<1>2. CASE ConsumeOutcome(p, digest, inTime) # "consumed"
  BY <1>2, PlainMoves DEF ConsumePairing
<1> QED BY <1>1, <1>2

(* acknowledge_pairing activates the credential of its pairing and ends    *)
(* every other of the node.                                                *)
LEMMA AcknowledgeMoves ==
    ASSUME StoreInv, RowsShaped, NEW p \in Pairings, NEW digest \in Digests,
           AcknowledgePairing(p, digest)
    PROVE  RowsShaped' /\ CredsMove({p})
<1>1. CASE AckAccepted(p, digest) /\ ~pairings[p].acked
  <2> DEFINE row(q) ==
        IF q = p THEN [pairings[q] EXCEPT !.acked = TRUE]
        ELSE IF pairings[q].issued /\ Intended[q] = Intended[p]
        THEN [pairings[q] EXCEPT !.revoked = TRUE] ELSE pairings[q]
  <2>0. /\ creds' = {RotateCredential(c, p) : c \in creds}
        /\ pairings' = [q \in Pairings |-> row(q)] /\ known' = known
        /\ pairings \in [Pairings -> PairingRow] /\ creds \subseteq Credential
    BY <1>1 DEF AcknowledgePairing, StoreInv, StoreTypeOK
  <2>1. \A c \in Credential :
          LET d == RotateCredential(c, p) IN
          /\ Follows(c, d) /\ d.pairing = c.pairing /\ d.node = c.node
          /\ d.active <=> c.pairing = p \/ c.active
          /\ d.revoked <=> (c.pairing # p /\ c.node = Intended[p]) \/ c.revoked
    BY DEF RotateCredential, Revoked, Credential, Follows
  <2>2. \A q \in Pairings :
          /\ row(q).used = pairings[q].used /\ row(q).issued = pairings[q].issued
          /\ row(q).failure = pairings[q].failure /\ row(q).node = pairings[q].node
          /\ row(q).acked <=> q = p \/ pairings[q].acked
          /\ row(q).revoked <=> \/ q # p /\ pairings[q].issued /\ Intended[q] = Intended[p]
                                \/ pairings[q].revoked
    BY <2>0 DEF PairingRow
  <2> HIDE DEF row
  <2>3. \A q \in Pairings : pairings'[q] = row(q)
    BY <2>0
  <2>4. pairings[p].used
    BY <1>1 DEF AckAccepted, Acknowledgeable, CredsOf
  <2>5. ASSUME NEW d \in creds'
        PROVE  \E c \in creds : d = RotateCredential(c, p)
    BY <2>0
  <2>6. RowsShaped'
    <3>1. ASSUME NEW q \in Pairings, pairings[q].used
          PROVE  /\ \E d \in creds' : d.pairing = q
                 /\ \A d \in creds' : d.pairing = q =>
                       /\ d.active <=> pairings'[q].acked
                       /\ d.revoked <=> pairings'[q].revoked
      <4>1. PICK c \in creds : c.pairing = q
        BY <3>1 DEF RowsShaped
      <4>2. RotateCredential(c, p) \in creds' /\ RotateCredential(c, p).pairing = q
        BY <2>0, <2>1, <4>1
      <4>3. ASSUME NEW d \in creds', d.pairing = q
            PROVE  (d.active <=> pairings'[q].acked) /\ (d.revoked <=> pairings'[q].revoked)
        <5>1. PICK e \in creds : d = RotateCredential(e, p)
          BY <2>5
        <5>2. /\ e.pairing = q /\ (e.active <=> pairings[q].acked)
              /\ (e.revoked <=> pairings[q].revoked) /\ pairings[q].issued
          BY <2>0, <2>1, <3>1, <4>3, <5>1 DEF RowsShaped
        <5>3. e.node = Intended[q] /\ e \in Credential
          BY <2>0, <5>2 DEF StoreInv, CredentialsBound
        <5> QED BY <2>1, <2>2, <2>3, <5>1, <5>2, <5>3
      <4> QED BY <4>2, <4>3
    <3>2. ASSUME NEW q \in Pairings
          PROVE  /\ pairings'[q].used = pairings[q].used
                 /\ pairings'[q].issued = pairings[q].issued
                 /\ pairings'[q].failure = pairings[q].failure
                 /\ pairings'[q].node = pairings[q].node
                 /\ ~pairings[q].used => (pairings'[q].acked <=> pairings[q].acked)
      BY <2>2, <2>3, <2>4
    <3> QED BY <2>0, <3>1, <3>2 DEF RowsShaped
  <2>7. ASSUME NEW c \in creds, NEW d \in creds', Follows(c, d), d.active, ~c.active
        PROVE  /\ c.pairing = p
               /\ \A e \in creds' : e.node = d.node /\ e.pairing # d.pairing => e.revoked
    <3>1. PICK x \in creds : d = RotateCredential(x, p)
      BY <2>5
    <3>2. x.pairing = c.pairing
      BY <2>0, <2>1, <2>7, <3>1 DEF Follows
    <3>3. x = c
      BY <3>2 DEF StoreInv, CredentialUnique
    <3>4. c.pairing = p
      BY <2>0, <2>1, <2>7, <3>1, <3>3
    <3>5. d.node = Intended[p] /\ d.pairing = p
      BY <2>0, <2>1, <3>1, <3>3, <3>4 DEF StoreInv, CredentialsBound
    <3>6. ASSUME NEW e \in creds', e.node = d.node, e.pairing # d.pairing
          PROVE  e.revoked
      <4>1. PICK y \in creds : e = RotateCredential(y, p)
        BY <2>5
      <4> QED BY <2>0, <2>1, <3>5, <3>6, <4>1
    <3> QED BY <3>4, <3>6
  <2>8. CredsMove({p})
    <3>1. \A c \in creds : \E d \in creds' : Follows(c, d)
      BY <2>0, <2>1
    <3>2. \A d \in creds' : \E c \in creds : Follows(c, d)
      BY <2>0, <2>1, <2>5
    <3>3. \A q \in Pairings : pairings[q].revoked => pairings'[q].revoked
      BY <2>2, <2>3
    <3> QED BY <2>7, <3>1, <3>2, <3>3 DEF CredsMove
  <2> QED BY <2>6, <2>8
<1>2. CASE ~(AckAccepted(p, digest) /\ ~pairings[p].acked)
  <2>1. RowsShaped' /\ CredsMove({})
    BY <1>2, PlainMoves DEF AcknowledgePairing
  <2> QED BY <2>1 DEF CredsMove
<1> QED BY <1>1, <1>2


-----------------------------------------------------------------------------
(* The tables move under the host.                                         *)

(* What is engaged after a transaction was engaged before it.              *)
LEMMA EngagedOrigin ==
    ASSUME StoreInv, NEW activated, CredsMove(activated), AcksBound, StoreInv',
           \A p \in activated : AckSent(p), UNCHANGED <<req, stray>>,
           NEW d \in creds', Engaged(d)'
    PROVE  \E c \in creds : Follows(c, d) /\ Engaged(c)
<1>1. \A p : AckSent(p)' <=> AckSent(p)
  BY DEF AckSent
<1>2. d.active \/ AckSent(d.pairing)
  BY <1>1 DEF Engaged
<1>3. CASE \E c \in creds : Follows(c, d)
  <2>1. PICK c \in creds : Follows(c, d)
    BY <1>3
  <2>2. c.pairing = d.pairing
    BY <2>1 DEF Follows
  <2>3. CASE AckSent(d.pairing)
    BY <2>1, <2>2, <2>3 DEF Engaged
  <2>4. CASE d.active
    BY <2>1, <2>4 DEF CredsMove, Engaged
  <2> QED BY <1>2, <2>3, <2>4
<1>4. CASE ~\E c \in creds : Follows(c, d)
  <2>1. ~d.active /\ \A c \in creds : c.pairing # d.pairing
    BY <1>4 DEF CredsMove
  <2>2. AckSent(d.pairing) /\ d.pairing \in Pairings
    BY <1>2, <2>1 DEF StoreInv, CredentialsBound
  <2> QED BY <2>1, <2>2 DEF AcksBound, CredsOf
<1> QED BY <1>3, <1>4

(* A transaction keeps the links, provided that what it activates was      *)
(* acknowledged by the host.                                               *)
LEMMA TablesMove ==
    ASSUME IInv, LinkInv, StoreInv', NEW activated, CredsMove(activated), RowsShaped',
           \A p \in activated : AckSent(p),
           UNCHANGED <<files, ledger, config, pc, inv, req, stray>>,
           RequestOK', AnswerOK'
    PROVE  LinkInv'
<1>0. StoreInv /\ AcksBound
  BY DEF IInv, LinkInv
<1>1. \A p : AckSent(p)' <=> AckSent(p)
  BY DEF AckSent
<1>2. \A d \in creds' : Engaged(d)' => \E c \in creds : Follows(c, d) /\ Engaged(c)
  BY <1>0, EngagedOrigin
<1>3. \A c \in creds : \E d \in creds' : Follows(c, d)
  BY DEF CredsMove
<1>4. AcksBound'
  BY <1>0, <1>1, <1>3 DEF AcksBound, CredsOf, Follows
<1>5. ConfigUsable'
  BY <1>3 DEF LinkInv, ConfigUsable, CredsOf, Follows, Present
<1>6. EngagedOlder'
  BY <1>2 DEF LinkInv, EngagedOlder, Follows
<1>7. EngagedKept'
  BY <1>2 DEF LinkInv, EngagedKept, Follows
<1>8. ActivationEnds'
  <2> SUFFICES ASSUME NEW c \in creds', NEW d \in creds', c.active, Engaged(d)',
                      c.node = d.node, d.digest < c.digest
               PROVE  d.revoked
    BY DEF ActivationEnds
  <2>1. PICK y \in creds : Follows(y, d) /\ Engaged(y)
    BY <1>2
  <2>2. Engaged(c)'
    BY DEF Engaged
  <2>3. PICK x \in creds : Follows(x, c)
    BY <1>2, <2>2
  <2>4. CASE x.active
    BY <2>1, <2>3, <2>4 DEF LinkInv, ActivationEnds, Follows
  <2>5. CASE ~x.active
    <3>1. \A e \in creds' : e.node = c.node /\ e.pairing # c.pairing => e.revoked
      BY <2>3, <2>5 DEF CredsMove
    <3>2. c.pairing # d.pairing
      <4>1. c.digest \in Nat /\ d.digest \in Nat
        BY DEF StoreInv, StoreTypeOK, Credential, Digests
      <4>2. c # d
        BY <4>1
      <4> QED BY <4>2 DEF StoreInv, CredentialUnique
    <3> QED BY <3>1, <3>2
  <2> QED BY <2>4, <2>5
<1>9. PredecessorEnded'
  <2> SUFFICES ASSUME NEW x \in Pairings, ledger[x].previousCleanup
               PROVE  /\ config # NoPairing
                      /\ x = config \/ ledger[x].digest < files[config]
                      /\ ledger[x].state \in {"Acknowledged", "Superseded"} =>
                            \A c \in CredsOf(ledger[x].previous)' :
                               Engaged(c)' /\ files[c.pairing] = ledger[x].previousDigest
                               => c.revoked
    BY DEF PredecessorEnded
  <2>1. /\ config # NoPairing
        /\ x = config \/ ledger[x].digest < files[config]
        /\ ledger[x].state \in {"Acknowledged", "Superseded"} =>
              \A c \in CredsOf(ledger[x].previous) :
                 Engaged(c) /\ files[c.pairing] = ledger[x].previousDigest => c.revoked
    BY DEF LinkInv, PredecessorEnded
  <2> QED BY <1>2, <2>1 DEF CredsOf, Follows
<1> QED BY <1>4, <1>5, <1>6, <1>7, <1>8, <1>9 DEF LinkInv

(* Operator and clocks, and a request nobody waits for.                    *)
LEMMA AnswersStay ==
    ASSUME LinkInv, NEW activated, CredsMove(activated), inv \in Pairings \cup {NoPairing},
           pc # "idle" => inv \in Pairings,
           UNCHANGED <<files, pc, inv, req, reply>>
    PROVE  RequestOK' /\ AnswerOK'
<1>1. RequestOK'
  BY DEF LinkInv, RequestOK
<1>2. /\ Bound(inv) => Bound(inv)'
      /\ (\E c \in CredsOf(inv) : c.active) => \E c \in CredsOf(inv)' : c.active
  BY DEF CredsMove, Follows, Bound, CredsOf
<1>3. pc = "acking" /\ pairings[inv].revoked => pairings'[inv].revoked
  BY DEF CredsMove
<1>4. AnswerOK'
  BY <1>2, <1>3 DEF LinkInv, AnswerOK
<1> QED BY <1>1, <1>4

(* The operator and the clocks.                                            *)
LEMMA OutsideLinks ==
    ASSUME IInv, LinkInv, StoreInv', Operator \/ Clocks
    PROVE  LinkInv'
<1>0. /\ UNCHANGED workerVars
      /\ StoreInv /\ RowsShaped /\ inv \in Pairings \cup {NoPairing}
      /\ pc # "idle" => inv \in Pairings
  BY DEF Operator, Clocks, Issue, Reissue, Withdraw, ControllerLapse, WorkerLapse,
         IInv, LinkInv, HostInv, HostTypeOK, PlaceOK
<1>1. UNCHANGED <<files, ledger, config, pc, inv, req, reply, stray>>
  BY <1>0 DEF workerVars
<1>2. RowsShaped' /\ CredsMove({})
  <2>1. \/ UNCHANGED storeVars
        \/ \E p \in Pairings :
              \/ CreatePairing(p) \/ Lapse(p) \/ RevokePairing(p)
              \/ \E code \in FailureCodes : FailPairing(p, code)
    BY DEF Operator, Clocks, Issue, Reissue, Withdraw, ControllerLapse, WorkerLapse
  <2> QED BY <1>0, <2>1, PlainMoves, RevokeMoves
<1>3. RequestOK' /\ AnswerOK'
  BY <1>0, <1>1, <1>2, AnswersStay
<1> QED BY <1>1, <1>2, <1>3, TablesMove

(* A request that arrives late, or again.                                  *)
LEMMA StrayLinks ==
    ASSUME IInv, LinkInv, StoreInv', NEW m \in stray, HandleStray(m)
    PROVE  LinkInv'
<1>0. /\ UNCHANGED workerVars
      /\ StoreInv /\ RowsShaped /\ inv \in Pairings \cup {NoPairing}
      /\ pc # "idle" => inv \in Pairings
      /\ m \in Request /\ m.pairing \in Pairings /\ m.digest \in Digests
  BY DEF HandleStray, IInv, LinkInv, HostInv, HostTypeOK, PlaceOK, RequestsOK, Request
<1>1. UNCHANGED <<files, ledger, config, pc, inv, req, reply, stray>>
  BY <1>0 DEF workerVars
<1>2. CASE m.kind = "ack" /\ AcknowledgePairing(m.pairing, m.digest)
  <2>1. RowsShaped' /\ CredsMove({m.pairing})
    BY <1>0, <1>2, AcknowledgeMoves
  <2>2. \A p \in {m.pairing} : AckSent(p)
    BY <1>2 DEF AckSent
  <2>3. RequestOK' /\ AnswerOK'
    BY <1>0, <1>1, <2>1, AnswersStay
  <2> QED BY <1>1, <2>1, <2>2, <2>3, TablesMove
<1>3. ASSUME NEW t \in ClockReadings(m), ConsumePairing(m.pairing, m.digest, t)
      PROVE  LinkInv'
  <2>0. t \in BOOLEAN
    BY DEF ClockReadings
  <2>1. RowsShaped' /\ CredsMove({})
    BY <1>0, <1>3, <2>0, ConsumeMoves
  <2>3. RequestOK' /\ AnswerOK'
    BY <1>0, <1>1, <2>1, AnswersStay
  <2> QED BY <1>1, <2>1, <2>3, TablesMove
<1> QED BY <1>2, <1>3 DEF HandleStray

(* The answers.                                                            *)
LEMMA PairAnswered ==
    ASSUME IInv, LinkInv, StoreInv', HandlePair
    PROVE  LinkInv'
<1>0. /\ StoreInv /\ RowsShaped /\ req \in Request /\ req.kind = "pair" /\ reply = "none"
      /\ UNCHANGED <<files, ledger, config, pc, inv, req, stray>>
  BY DEF HandlePair, IInv, LinkInv, HostInv, HostTypeOK, RequestsOK
<1>1. /\ pc = "pairing" /\ inv \in Pairings /\ req.pairing = inv /\ req.digest = files[inv]
      /\ files[inv] \in Digests
  <2>1. pc \in {"pairing", "acking"}
    BY <1>0 DEF LinkInv, RequestOK, NoRequest
  <2>2. pc = "pairing"
    BY <1>0, <2>1 DEF LinkInv, RequestOK
  <2> QED BY <1>0, <2>2 DEF LinkInv, RequestOK, Request
<1>2. PICK t \in ClockReadings(req) :
        /\ ConsumePairing(req.pairing, req.digest, t)
        /\ reply' = PairAnswer(ConsumeOutcome(req.pairing, req.digest, t))
  BY DEF HandlePair
<1>3. t \in BOOLEAN
  BY DEF ClockReadings
<1>4. RowsShaped' /\ CredsMove({})
  BY <1>0, <1>1, <1>2, <1>3, ConsumeMoves
<1>5. RequestOK'
  BY <1>0, <1>1 DEF LinkInv, RequestOK
<1>6. reply' = "ok" => Bound(inv)'
  <2>1. CASE ConsumeOutcome(inv, files[inv], t) = "consumed"
    <3> DEFINE new == [ pairing |-> inv, node |-> Intended[inv], digest |-> files[inv],
                        active |-> FALSE, revoked |-> FALSE ]
    <3>1. new \in creds'
      BY <1>1, <1>2, <2>1 DEF ConsumePairing
    <3> QED BY <1>0, <3>1 DEF Bound, CredsOf
  <2>2. CASE ConsumeOutcome(inv, files[inv], t) = "replayed"
    <3>1. \E c \in CredsOf(inv) : c.digest = files[inv]
      BY <2>2 DEF ConsumeOutcome
    <3>2. creds' = creds
      BY <1>1, <1>2, <2>2 DEF ConsumePairing, storeVars
    <3> QED BY <1>0, <3>1, <3>2 DEF Bound, CredsOf
  <2>3. ConsumeOutcome(inv, files[inv], t) # "ok"
    BY DEF ConsumeOutcome
  <2>4. reply' = PairAnswer(ConsumeOutcome(inv, files[inv], t))
    BY <1>1, <1>2
  <2> QED BY <2>1, <2>2, <2>3, <2>4 DEF PairAnswer
<1>7. AnswerOK'
  BY <1>0, <1>1, <1>6 DEF AnswerOK
<1> QED BY <1>0, <1>4, <1>5, <1>7, TablesMove

(* A refused acknowledgement of the config's own credential means that the *)
(* pairing was revoked: nothing else is wrong with it.                     *)
LEMMA OnlyRevoked ==
    ASSUME StoreInv, RowsShaped, NEW c \in creds, ~pairings[c.pairing].revoked
    PROVE  Acknowledgeable(c)
<1>1. /\ c.pairing \in Pairings /\ c.node = Intended[c.pairing]
      /\ pairings[c.pairing].used
  BY DEF StoreInv, CredentialsBound
<1>2. /\ pairings[c.pairing].failure = "none" /\ pairings[c.pairing].node = c.node
      /\ c.node \in known /\ (c.active <=> pairings[c.pairing].acked) /\ ~c.revoked
  BY <1>1 DEF RowsShaped
<1>3. pairings[c.pairing].acked = c.active
  BY <1>1, <1>2 DEF StoreInv, StoreTypeOK, PairingRow, Credential
<1>4. CredsOf(c.pairing) = {c}
  BY DEF CredsOf, StoreInv, CredentialUnique
<1> QED BY <1>1, <1>2, <1>3, <1>4 DEF Acknowledgeable

(* The answer to an acknowledgement the host waits for.                    *)
LEMMA AckAnswered ==
    ASSUME IInv, LinkInv, StoreInv', HandleAck
    PROVE  LinkInv'
<1>0. /\ StoreInv /\ RowsShaped /\ req \in Request /\ req.kind = "ack" /\ reply = "none"
      /\ UNCHANGED <<files, ledger, config, pc, inv, req, stray>>
  BY DEF HandleAck, IInv, LinkInv, HostInv, HostTypeOK, RequestsOK
<1>1. /\ pc = "acking" /\ inv \in Pairings /\ req.pairing = inv /\ req.digest = files[inv]
      /\ files[inv] \in Digests /\ config = inv /\ inv # NoPairing
  <2>1. pc \in {"pairing", "acking"}
    BY <1>0 DEF LinkInv, RequestOK, NoRequest
  <2>2. pc = "acking"
    BY <1>0, <2>1 DEF LinkInv, RequestOK
  <2>3. inv \in Pairings /\ config = inv
    BY <2>2 DEF IInv, HostInv, PlaceOK
  <2> QED BY <1>0, <2>2, <2>3, WorkerAssumption DEF LinkInv, RequestOK, Request
<1>2. /\ AcknowledgePairing(inv, files[inv])
      /\ reply' = IF AckAccepted(inv, files[inv]) THEN "ok" ELSE "unavailable"
  BY <1>1 DEF HandleAck
<1>3. RowsShaped' /\ CredsMove({inv})
  BY <1>0, <1>1, <1>2, AcknowledgeMoves
<1>4. \A p \in {inv} : AckSent(p)
  BY <1>0, <1>1 DEF AckSent
<1>5. RequestOK'
  BY <1>0, <1>1 DEF LinkInv, RequestOK
<1>6. ASSUME AckAccepted(inv, files[inv])
      PROVE  \E d \in CredsOf(inv)' : d.active
  <2>1. PICK c \in CredsOf(inv) : c.digest = files[inv] /\ Acknowledgeable(c)
    BY <1>6 DEF AckAccepted
  <2>2. c \in creds /\ c \in Credential /\ c.pairing = inv /\ pairings[inv].acked = c.active
    BY <1>0, <2>1 DEF CredsOf, Acknowledgeable, StoreInv, StoreTypeOK
  <2>3. CASE pairings[inv].acked
    <3>1. creds' = creds
      BY <1>2, <2>3 DEF AcknowledgePairing, storeVars
    <3> QED BY <1>0, <2>2, <2>3, <3>1 DEF CredsOf
  <2>4. CASE ~pairings[inv].acked
    <3>1. RotateCredential(c, inv) \in creds'
      BY <1>2, <1>6, <2>2, <2>4 DEF AcknowledgePairing
    <3>2. RotateCredential(c, inv).pairing = inv /\ RotateCredential(c, inv).active
      BY <2>2 DEF RotateCredential, Credential
    <3> QED BY <1>0, <3>1, <3>2 DEF CredsOf
  <2> QED BY <2>3, <2>4
<1>7. ASSUME ~AckAccepted(inv, files[inv])
      PROVE  pairings'[inv].revoked
  <2>1. PICK c \in CredsOf(inv) : c.digest = files[inv]
    BY <1>1 DEF LinkInv, ConfigUsable
  <2>2. c \in creds /\ c.pairing = inv
    BY <2>1 DEF CredsOf
  <2>3. ~Acknowledgeable(c)
    BY <1>7, <2>1 DEF AckAccepted
  <2>4. pairings[inv].revoked
    BY <1>0, <2>2, <2>3, OnlyRevoked
  <2> QED BY <1>1, <1>3, <2>4 DEF CredsMove
<1>8. AnswerOK'
  BY <1>0, <1>1, <1>2, <1>6, <1>7 DEF AnswerOK
<1> QED BY <1>0, <1>3, <1>4, <1>5, <1>8, TablesMove


-----------------------------------------------------------------------------
(* The host moves and the tables stay.                                     *)

(* An enrollment on its way to the config is not engaged, unless it was    *)
(* revoked: it replaces a config that is newer than whatever was.          *)
LEMMA NotEngaged ==
    ASSUME IInv, LinkInv, config # inv, inv \in Pairings,
           config # NoPairing =>
               /\ ledger[inv].previous = config
               /\ ledger[inv].previousDigest = files[config],
           NEW c \in creds, c.pairing = inv, Engaged(c)
    PROVE  c.revoked
<1> SUFFICES ASSUME ~c.revoked PROVE FALSE
  OBVIOUS
<1>1. c.digest \in Nat /\ c.digest # 0 /\ files[inv] = c.digest
  BY DEF IInv, StoreInv, StoreTypeOK, Credential, Digests, LinkInv, EngagedKept
<1>2. config # NoPairing /\ c.digest < files[config]
  BY DEF LinkInv, EngagedOlder
<1>3. ledger[inv].digest = c.digest
  BY <1>1 DEF IInv, HostInv, FilesOwned, Present
<1>4. files[config] < ledger[inv].digest /\ files[config] \in Nat
  BY <1>2 DEF IInv, HostInv, HostTypeOK, DigestsOrdered
<1> QED BY <1>1, <1>2, <1>3, <1>4

(* A step that adds no acknowledgement and keeps files and config.         *)
LEMMA LedgerMoves ==
    ASSUME IInv, LinkInv, UNCHANGED <<storeVars, files, config>>,
           \A p \in Pairings : AckSent(p)' => AckSent(p),
           RequestOK', AnswerOK',
           \A c \in creds : Engaged(c) /\ ~c.revoked =>
               ledger'[c.pairing].state \in Uncertain \cup {"Acknowledged"},
           PredecessorEnded'
    PROVE  LinkInv'
<1>1. creds' = creds /\ pairings' = pairings /\ known' = known
  BY DEF storeVars
<1>2. \A c \in creds : c.pairing \in Pairings
  BY DEF IInv, StoreInv, CredentialsBound
<1>3. \A c \in creds : Engaged(c)' => Engaged(c)
  BY <1>1, <1>2 DEF Engaged
<1>4. RowsShaped' /\ ConfigUsable' /\ AcksBound'
  BY <1>1 DEF LinkInv, RowsShaped, ConfigUsable, AcksBound, CredsOf, Present
<1>5. EngagedOlder' /\ ActivationEnds'
  BY <1>1, <1>3 DEF LinkInv, EngagedOlder, ActivationEnds
<1>6. EngagedKept'
  BY <1>1, <1>3 DEF LinkInv, EngagedKept
<1> QED BY <1>4, <1>5, <1>6 DEF LinkInv

(* The obligations stay what they were, or go.                             *)
LEMMA ObligationsStay ==
    ASSUME IInv, LinkInv, UNCHANGED <<storeVars, files, config>>,
           \A p \in Pairings : AckSent(p)' => AckSent(p),
           \A x \in Pairings : ledger'[x].previousCleanup =>
               /\ ledger[x].previousCleanup /\ ledger'[x].digest = ledger[x].digest
               /\ ledger'[x].previous = ledger[x].previous
               /\ ledger'[x].previousDigest = ledger[x].previousDigest
               /\ ledger'[x].state \in {"Acknowledged", "Superseded"} =>
                     ledger[x].state \in {"Acknowledged", "Superseded"}
    PROVE  PredecessorEnded'
<1>1. creds' = creds
  BY DEF storeVars
<1>2. \A c \in creds : Engaged(c)' => Engaged(c)
  BY <1>1 DEF Engaged, IInv, StoreInv, CredentialsBound
<1>3. ASSUME NEW x \in Pairings, ledger'[x].previousCleanup
      PROVE  /\ config # NoPairing
             /\ x = config \/ ledger'[x].digest < files[config]
  BY <1>3 DEF LinkInv, PredecessorEnded
<1>4. ASSUME NEW x \in Pairings, ledger'[x].previousCleanup,
             ledger'[x].state \in {"Acknowledged", "Superseded"},
             NEW c \in creds, c.pairing = ledger'[x].previous, Engaged(c)',
             files[c.pairing] = ledger'[x].previousDigest
      PROVE  c.revoked
  BY <1>2, <1>4 DEF LinkInv, PredecessorEnded, CredsOf
<1> QED BY <1>1, <1>3, <1>4 DEF PredecessorEnded, CredsOf

(* Steps that keep the ledger too.                                         *)
LEMMA StillLinks ==
    ASSUME IInv, LinkInv, UNCHANGED <<storeVars, files, ledger, config>>,
           \A p \in Pairings : AckSent(p)' => AckSent(p),
           RequestOK', AnswerOK'
    PROVE  LinkInv'
<1>1. PredecessorEnded'
  BY ObligationsStay
<1>2. \A c \in creds : Engaged(c) /\ ~c.revoked =>
         ledger'[c.pairing].state \in Uncertain \cup {"Acknowledged"}
  BY DEF LinkInv, EngagedKept
<1> QED BY <1>1, <1>2, LedgerMoves

(* An invocation that ends leaves no request but what it had sent.         *)
LEMMA LeavingLinks ==
    ASSUME LinkInv, Leave, stray' = stray
    PROVE  /\ RequestOK' /\ AnswerOK'
           /\ \A p \in Pairings : AckSent(p)' => AckSent(p)
  BY DEF Leave, RequestOK, AnswerOK, AckSent, NoRequest

(* A request cut off is still on its way.                                  *)
LEMMA InterruptLinks ==
    ASSUME IInv, LinkInv, Interrupt
    PROVE  LinkInv'
<1>1. RequestOK' /\ AnswerOK'
  BY DEF Interrupt, Leave, RequestOK, AnswerOK
<1>2. \A p \in Pairings : AckSent(p)' => AckSent(p)
  BY DEF Interrupt, Leave, AckSent, NoRequest
<1> QED BY <1>1, <1>2, StillLinks DEF Interrupt

(* Nothing is waited for before or after.                                  *)
LEMMA QuietLinks ==
    ASSUME LinkInv, UNCHANGED <<req, reply, stray>>,
           pc \notin {"pairing", "acking"}, pc' \notin {"pairing", "acking", "accepted"}
    PROVE  /\ RequestOK' /\ AnswerOK'
           /\ \A p \in Pairings : AckSent(p)' => AckSent(p)
  BY DEF LinkInv, RequestOK, AnswerOK, AckSent

(* Steps that change neither files, ledger nor config.                     *)
LEMMA SimpleLinks ==
    ASSUME IInv, LinkInv,
           \/ RefuseForeign \/ AbandonCollection \/ RefuseStage \/ ResumeCommitted
           \/ WriteTemporary \/ RemoveTemporary \/ RefuseExpired
           \/ \E p \in Pairings : Start(p)
    PROVE  LinkInv'
<1>1. CASE RefuseForeign \/ AbandonCollection \/ RefuseStage \/ RefuseExpired
  <2>1. Leave /\ UNCHANGED <<storeVars, files, ledger, config, stray>>
    BY <1>1 DEF RefuseForeign, AbandonCollection, RefuseStage, RefuseExpired
  <2>2. /\ RequestOK' /\ AnswerOK'
        /\ \A p \in Pairings : AckSent(p)' => AckSent(p)
    BY <2>1, LeavingLinks
  <2> QED BY <2>1, <2>2, StillLinks
<1>2. CASE \/ ResumeCommitted \/ WriteTemporary \/ RemoveTemporary
           \/ \E p \in Pairings : Start(p)
  <2>1. /\ UNCHANGED <<storeVars, files, ledger, config, req, reply, stray>>
        /\ pc \notin {"pairing", "acking"} /\ pc' \notin {"pairing", "acking", "accepted"}
    BY <1>2 DEF ResumeCommitted, WriteTemporary, RemoveTemporary, Start
  <2>2. /\ RequestOK' /\ AnswerOK'
        /\ \A p \in Pairings : AckSent(p)' => AckSent(p)
    BY <2>1, QuietLinks
  <2> QED BY <2>1, <2>2, StillLinks
<1> QED BY <1>1, <1>2

(* The enrollment request leaves.                                          *)
LEMMA SendPairLinks ==
    ASSUME IInv, LinkInv, SendPair
    PROVE  LinkInv'
<1>0. /\ pc = "requesting" /\ reply = "none" /\ pc' = "pairing"
      /\ UNCHANGED <<storeVars, files, ledger, config, inv, reply, stray>>
  BY DEF SendPair, LinkInv, RequestOK
<1>1. req'.kind = "pair" /\ req'.pairing = inv /\ req'.digest = files[inv]
  BY DEF SendPair, Send
<1>2. RequestOK' /\ AnswerOK'
  BY <1>0, <1>1 DEF RequestOK, AnswerOK
<1>3. \A p \in Pairings : AckSent(p)' => AckSent(p)
  BY <1>0, <1>1 DEF AckSent
<1> QED BY <1>0, <1>2, <1>3, StillLinks

(* The acknowledgement is sent for the config, the newest there is.        *)
LEMMA SendAckLinks ==
    ASSUME IInv, LinkInv, SendAck
    PROVE  LinkInv'
<1>0. /\ pc = "committed" /\ reply = "none" /\ req = NoRequest /\ pc' = "acking"
      /\ inv \in Pairings /\ config = inv /\ config # NoPairing
      /\ ledger[inv].state \in Uncertain \cup {"Acknowledged"}
      /\ UNCHANGED <<storeVars, files, ledger, config, inv, reply, stray>>
  BY WorkerAssumption DEF SendAck, LinkInv, RequestOK, IInv, HostInv, PlaceOK
<1>1. req'.kind = "ack" /\ req'.pairing = inv /\ req'.digest = files[inv]
  BY DEF SendAck, Send
<1>2. RequestOK' /\ AnswerOK'
  BY <1>0, <1>1 DEF RequestOK, AnswerOK
<1>3. creds' = creds /\ pairings' = pairings /\ known' = known
  BY <1>0 DEF storeVars
<1>4. \A p \in Pairings : AckSent(p)' => AckSent(p) \/ p = inv
  BY <1>0, <1>1 DEF AckSent
<1>5. \A c \in creds : Engaged(c)' => Engaged(c) \/ c.pairing = config
  BY <1>0, <1>3, <1>4 DEF Engaged, IInv, StoreInv, CredentialsBound
<1>6. PICK own \in CredsOf(config) : own.digest = files[config]
  BY <1>0 DEF LinkInv, ConfigUsable
<1>7. \A c \in creds : c.pairing = config => c.digest = files[config]
  BY <1>6 DEF CredsOf, IInv, StoreInv, CredentialUnique
<1>8. RowsShaped' /\ ConfigUsable' /\ AcksBound'
  BY <1>0, <1>3, <1>4, <1>6 DEF LinkInv, RowsShaped, ConfigUsable, AcksBound, CredsOf,
                                Present
<1>9. EngagedOlder' /\ EngagedKept'
  BY <1>0, <1>3, <1>5, <1>7 DEF LinkInv, EngagedOlder, EngagedKept
<1>10. ActivationEnds'
  <2> SUFFICES ASSUME NEW c \in creds, NEW d \in creds, c.active, Engaged(d)',
                      c.node = d.node, d.digest < c.digest, ~d.revoked
               PROVE  FALSE
    BY <1>3 DEF ActivationEnds
  <2>1. c.digest \in Nat /\ d.digest \in Nat
    BY DEF IInv, StoreInv, StoreTypeOK, Credential, Digests
  <2>2. d.pairing = config /\ d.digest = files[config]
    BY <1>5, <1>7 DEF LinkInv, ActivationEnds
  <2>3. c.pairing = config \/ c.digest < files[config]
    BY DEF LinkInv, EngagedOlder, Engaged
  <2> QED BY <1>7, <2>1, <2>2, <2>3
<1>11. PredecessorEnded'
  <2> SUFFICES ASSUME NEW x \in Pairings, ledger[x].previousCleanup,
                      ledger[x].state \in {"Acknowledged", "Superseded"},
                      NEW c \in creds, c.pairing = ledger[x].previous, Engaged(c)',
                      files[c.pairing] = ledger[x].previousDigest, ~c.revoked
               PROVE  FALSE
    BY <1>0, <1>3 DEF PredecessorEnded, LinkInv, CredsOf
  <2>1. /\ x = config \/ ledger[x].digest < files[config]
        /\ Engaged(c) => c.revoked
    BY DEF LinkInv, PredecessorEnded, CredsOf
  <2>2. c.pairing = config /\ ledger[x].previous = config
    BY <1>5, <2>1
  <2>3. x # config /\ ledger[x].previousDigest < ledger[x].digest
    BY <1>0, <2>2 DEF IInv, HostInv, DigestsOrdered
  <2>4. files[config] \in Nat /\ ledger[x].digest \in Nat
    BY <1>0 DEF IInv, HostInv, HostTypeOK, Record
  <2> QED BY <2>1, <2>2, <2>3, <2>4
<1> QED BY <1>2, <1>8, <1>9, <1>10, <1>11 DEF LinkInv


(* A change of the invocation's record alone.                              *)
LEMMA OwnRecordLinks ==
    ASSUME IInv, LinkInv, inv \in Pairings, NEW r,
           ledger' = [ledger EXCEPT ![inv] = r],
           UNCHANGED <<storeVars, files, config>>,
           \A p \in Pairings : AckSent(p)' => AckSent(p),
           RequestOK', AnswerOK',
           ~r.previousCleanup,
           \/ r.state \in Uncertain \cup {"Acknowledged"}
           \/ \A c \in creds : c.pairing = inv /\ Engaged(c) => c.revoked
    PROVE  LinkInv'
<1>1. \A p \in Pairings : ledger'[p] = IF p = inv THEN r ELSE ledger[p]
  BY DEF IInv, HostInv, HostTypeOK
<1>2. \A c \in creds : c.pairing \in Pairings
  BY DEF IInv, StoreInv, CredentialsBound
<1>3. \A c \in creds : Engaged(c) /\ ~c.revoked =>
         ledger'[c.pairing].state \in Uncertain \cup {"Acknowledged"}
  BY <1>1, <1>2 DEF LinkInv, EngagedKept
<1>4. PredecessorEnded'
  BY <1>1, ObligationsStay
<1> QED BY <1>3, <1>4, LedgerMoves

(* A record in these places owes no removal of a predecessor.              *)
LEMMA NothingOwed ==
    ASSUME HostInv, inv \in Pairings, ledger[inv].state \in {"Staged"} \cup Uncertain
    PROVE  ~ledger[inv].previousCleanup
  BY DEF HostInv, CleanupJustified, Uncertain

(* The record of a request about to leave.                                 *)
LEMMA MarkRequestLinks ==
    ASSUME IInv, LinkInv, MarkRequest
    PROVE  LinkInv'
<1>0. /\ pc = "staged" /\ config # inv /\ inv \in Pairings /\ pc' = "requesting"
      /\ UNCHANGED <<storeVars, files, config, inv, req, reply, stray>>
      /\ ledger[inv].state \in {"Staged"} \cup Uncertain /\ HostInv
      /\ ledger[inv] \in Record /\ ledger \in [Pairings -> Record]
      /\ Transition("PairRequestUnknown")
  BY DEF MarkRequest, IInv, HostInv, HostTypeOK, PlaceOK
<1>1. PICK r \in Record :
        /\ ledger' = [ledger EXCEPT ![inv] = r] /\ r.state = "PairRequestUnknown"
        /\ r.previousCleanup = ledger[inv].previousCleanup
  BY <1>0, TransitionRecord DEF States
<1>2. /\ RequestOK' /\ AnswerOK'
      /\ \A p \in Pairings : AckSent(p)' => AckSent(p)
  BY <1>0, QuietLinks
<1>3. ~r.previousCleanup
  BY <1>0, <1>1, NothingOwed
<1>4. r.state \in Uncertain
  BY <1>1 DEF Uncertain
<1> QED BY <1>0, <1>1, <1>2, <1>3, <1>4, OwnRecordLinks

(* A refused enrollment was never acknowledged, so its credential may go.  *)
LEMMA PairRefusedLinks ==
    ASSUME IInv, LinkInv, PairRefused
    PROVE  LinkInv'
<1> DEFINE final == IF reply = "mismatch" THEN "Superseded" ELSE "TerminalUnavailable"
<1>0. /\ pc = "pairing" /\ config # inv /\ inv \in Pairings
      /\ UNCHANGED <<storeVars, files, config, stray>> /\ Leave
      /\ ledger[inv].state \in {"Staged"} \cup Uncertain /\ HostInv
      /\ final \in States /\ Transition(final)
      /\ config \notin {inv, NoPairing} =>
            ledger[inv].previous = config /\ ledger[inv].previousDigest = files[config]
  BY DEF PairRefused, IInv, HostInv, HostTypeOK, PlaceOK, ReplacesConfig, States
<1> HIDE DEF final
<1>1. PICK r \in Record :
        /\ ledger' = [ledger EXCEPT ![inv] = r]
        /\ r.previousCleanup = ledger[inv].previousCleanup
  BY <1>0, TransitionRecord
<1>2. /\ RequestOK' /\ AnswerOK'
      /\ \A p \in Pairings : AckSent(p)' => AckSent(p)
  BY <1>0, LeavingLinks
<1>3. ~r.previousCleanup
  BY <1>0, <1>1, NothingOwed
<1>4. \A c \in creds : c.pairing = inv /\ Engaged(c) => c.revoked
  BY <1>0, NotEngaged
<1> QED BY <1>0, <1>1, <1>2, <1>3, <1>4, OwnRecordLinks

(* The record of an accepted enrollment.                                   *)
LEMMA PairAcceptedLinks ==
    ASSUME IInv, LinkInv, PairAccepted
    PROVE  LinkInv'
<1>0. /\ pc = "pairing" /\ reply = "ok" /\ inv \in Pairings /\ pc' = "accepted"
      /\ UNCHANGED <<storeVars, files, config, inv, stray>>
      /\ req' = NoRequest /\ reply' = "none"
      /\ ledger[inv].state \in {"Staged"} \cup Uncertain /\ HostInv
      /\ Transition("PairAccepted")
  BY DEF PairAccepted, IInv, HostInv, PlaceOK
<1>1. PICK r \in Record :
        /\ ledger' = [ledger EXCEPT ![inv] = r] /\ r.state = "PairAccepted"
        /\ r.previousCleanup = ledger[inv].previousCleanup
  BY <1>0, TransitionRecord DEF States
<1>2. RequestOK' /\ \A p \in Pairings : AckSent(p)' => AckSent(p)
  BY <1>0 DEF RequestOK, AckSent, NoRequest
<1>3. Bound(inv)
  BY <1>0 DEF LinkInv, AnswerOK
<1>4. AnswerOK'
  BY <1>0, <1>3 DEF AnswerOK, Bound, CredsOf, storeVars
<1>5. ~r.previousCleanup
  BY <1>0, <1>1, NothingOwed
<1>6. r.state \in Uncertain
  BY <1>1 DEF Uncertain
<1> QED BY <1>0, <1>1, <1>2, <1>4, <1>5, <1>6, OwnRecordLinks

(* The record of a committed config.                                       *)
LEMMA MarkCommittedLinks ==
    ASSUME IInv, LinkInv, MarkCommitted
    PROVE  LinkInv'
<1>0. /\ pc = "configured" /\ inv \in Pairings /\ pc' = "committed"
      /\ UNCHANGED <<storeVars, files, config, inv, req, reply, stray>>
      /\ ledger[inv].state \in {"Staged"} \cup Uncertain /\ HostInv
      /\ Transition("ConfigCommitted")
  BY DEF MarkCommitted, IInv, HostInv, PlaceOK
<1>1. PICK r \in Record :
        /\ ledger' = [ledger EXCEPT ![inv] = r] /\ r.state = "ConfigCommitted"
        /\ r.previousCleanup = ledger[inv].previousCleanup
  BY <1>0, TransitionRecord DEF States
<1>2. /\ RequestOK' /\ AnswerOK'
      /\ \A p \in Pairings : AckSent(p)' => AckSent(p)
  BY <1>0, QuietLinks
<1>3. ~r.previousCleanup
  BY <1>0, <1>1, NothingOwed
<1>4. r.state \in Uncertain
  BY <1>1 DEF Uncertain
<1> QED BY <1>0, <1>1, <1>2, <1>3, <1>4, OwnRecordLinks

(* The config is committed: it is newer than the one before it.            *)
LEMMA CommitLinks ==
    ASSUME IInv, LinkInv, CommitConfig
    PROVE  LinkInv'
<1>0. /\ pc = "accepted" /\ pc' = "configured" /\ inv \in Pairings /\ config # inv
      /\ UNCHANGED <<storeVars, files, ledger, inv, req, reply, stray>>
      /\ config' = inv /\ Present(inv) /\ inv # NoPairing
      /\ config \in Pairings \cup {NoPairing} /\ files \in [Pairings -> Nat]
  BY WorkerAssumption DEF CommitConfig, IInv, HostInv, HostTypeOK, PlaceOK, Working
<1>1. creds' = creds /\ pairings' = pairings /\ known' = known
  BY <1>0 DEF storeVars
<1>2. /\ RequestOK' /\ AnswerOK'
      /\ \A p \in Pairings : AckSent(p)' => AckSent(p)
  BY <1>0, QuietLinks
<1>3. \A c \in creds : Engaged(c)' => Engaged(c)
  BY <1>1, <1>2 DEF Engaged, IInv, StoreInv, CredentialsBound
<1>4. config # NoPairing => files[config] < files[inv]
  <2> SUFFICES ASSUME config # NoPairing PROVE files[config] < files[inv]
    OBVIOUS
  <2>1. ledger[inv].previous = config /\ ledger[inv].previousDigest = files[config]
    BY <1>0 DEF IInv, HostInv, ReplacesConfig
  <2>2. files[inv] = ledger[inv].digest
    BY <1>0 DEF IInv, HostInv, FilesOwned
  <2> QED BY <1>0, <2>1, <2>2 DEF IInv, HostInv, DigestsOrdered
<1>5. \A c \in creds : c.pairing = config => c.digest = files[config] \/ config = NoPairing
  BY DEF LinkInv, ConfigUsable, CredsOf, IInv, StoreInv, CredentialUnique
<1>6. \A c \in creds : c.digest \in Nat
  BY DEF IInv, StoreInv, StoreTypeOK, Credential, Digests
<1>7. EngagedOlder'
  <2> SUFFICES ASSUME NEW c \in creds, Engaged(c)
               PROVE  c.digest < files[inv]
    BY <1>0, <1>1, <1>3 DEF EngagedOlder
  <2>1. config # NoPairing /\ (c.pairing = config \/ c.digest < files[config])
    BY DEF LinkInv, EngagedOlder
  <2>2. c.digest <= files[config] /\ files[config] \in Nat /\ files[inv] \in Nat
    BY <1>0, <1>5, <1>6, <2>1
  <2> QED BY <1>4, <1>6, <2>1, <2>2
<1>8. ConfigUsable'
  BY <1>0, <1>1 DEF ConfigUsable, LinkInv, AnswerOK, Bound, CredsOf, Present
<1>9. RowsShaped' /\ AcksBound' /\ EngagedKept' /\ ActivationEnds'
  BY <1>0, <1>1, <1>2, <1>3 DEF LinkInv, RowsShaped, AcksBound, CredsOf, EngagedKept,
                                ActivationEnds
<1>10. PredecessorEnded'
  <2>1. ASSUME NEW x \in Pairings, ledger[x].previousCleanup
        PROVE  ledger[x].digest < files[inv]
    <3>1. config # NoPairing /\ (x = config \/ ledger[x].digest < files[config])
      BY <2>1 DEF LinkInv, PredecessorEnded
    <3>2. files[config] = ledger[config].digest
      BY <1>0, <3>1 DEF IInv, HostInv, ConfigNewest, FilesOwned
    <3>3. files[config] \in Nat /\ files[inv] \in Nat /\ ledger[x].digest \in Nat
      BY <1>0, <3>1 DEF IInv, HostInv, HostTypeOK, Record
    <3> QED BY <1>4, <3>1, <3>2, <3>3
  <2>2. ASSUME NEW x \in Pairings, ledger[x].previousCleanup,
               ledger[x].state \in {"Acknowledged", "Superseded"},
               NEW c \in creds, c.pairing = ledger[x].previous, Engaged(c)',
               files[c.pairing] = ledger[x].previousDigest
        PROVE  c.revoked
    BY <1>3, <2>2 DEF LinkInv, PredecessorEnded, CredsOf
  <2> QED BY <1>0, <1>1, <2>1, <2>2 DEF PredecessorEnded, CredsOf
<1> QED BY <1>2, <1>7, <1>8, <1>9, <1>10 DEF LinkInv

(* A refused acknowledgement: the config's pairing was revoked.            *)
LEMMA AckRefusedLinks ==
    ASSUME IInv, LinkInv, AckRefused
    PROVE  LinkInv'
<1>0. /\ pc = "acking" /\ reply = "unavailable" /\ inv \in Pairings /\ config = inv
      /\ config # NoPairing /\ UNCHANGED <<storeVars, files, config, stray>> /\ Leave
      /\ ledger \in [Pairings -> Record]
  BY WorkerAssumption DEF AckRefused, IInv, HostInv, HostTypeOK, PlaceOK
<1>1. /\ RequestOK' /\ AnswerOK'
      /\ \A p \in Pairings : AckSent(p)' => AckSent(p)
  BY <1>0, LeavingLinks
<1>2. \A p \in Pairings : p # inv => ledger'[p] = ledger[p]
  BY <1>0 DEF AckRefused
<1>3. ledger'[inv].state = "TerminalUnavailable"
  BY <1>0 DEF AckRefused, Record
<1>4. \A c \in creds : c.pairing = inv => c.revoked
  BY <1>0 DEF LinkInv, AnswerOK, RowsShaped, IInv, StoreInv, CredentialsBound
<1>5. \A c \in creds : Engaged(c) /\ ~c.revoked =>
         ledger'[c.pairing].state \in Uncertain \cup {"Acknowledged"}
  BY <1>2, <1>4 DEF LinkInv, EngagedKept, IInv, StoreInv, CredentialsBound
<1>6. creds' = creds
  BY <1>0 DEF storeVars
<1>7. \A c \in creds : Engaged(c)' => Engaged(c)
  BY <1>1, <1>6 DEF Engaged, IInv, StoreInv, CredentialsBound
<1>8. PredecessorEnded'
  <2>1. ASSUME NEW x \in Pairings, ledger'[x].previousCleanup
        PROVE  x = config \/ ledger'[x].digest < files[config]
    BY <1>0, <1>2, <2>1 DEF LinkInv, PredecessorEnded
  <2>2. ASSUME NEW x \in Pairings, ledger'[x].previousCleanup,
               ledger'[x].state \in {"Acknowledged", "Superseded"},
               NEW c \in creds, c.pairing = ledger'[x].previous, Engaged(c)',
               files[c.pairing] = ledger'[x].previousDigest
        PROVE  c.revoked
    <3>1. x # inv /\ ledger'[x] = ledger[x]
      BY <1>2, <1>3, <2>2
    <3> QED BY <1>7, <2>2, <3>1 DEF LinkInv, PredecessorEnded, CredsOf
  <2> QED BY <1>0, <1>6, <2>1, <2>2 DEF PredecessorEnded, CredsOf
<1> QED BY <1>0, <1>1, <1>5, <1>8, LedgerMoves


(* Giving up staged records touches nothing that was sent.                 *)
LEMMA PrepareLinks ==
    ASSUME IInv, LinkInv, PrepareInvocation
    PROVE  LinkInv'
<1>0. /\ pc = "prepare" /\ pc' = "gc" /\ ledger \in [Pairings -> Record]
      /\ UNCHANGED <<storeVars, files, config, req, reply, stray>>
  BY DEF PrepareInvocation, IInv, HostInv, HostTypeOK
<1>1. ledger' = [q \in Pairings |->
           IF GivenUp(q)
           THEN [ledger[q] EXCEPT !.state = GivenUpAs(q), !.cleanup = TRUE]
           ELSE ledger[q]]
  BY DEF PrepareInvocation
<1>2. ASSUME NEW q \in Pairings
      PROVE  \/ ledger'[q] = ledger[q]
             \/ /\ ledger[q].state = "Staged"
                /\ ledger'[q].previousCleanup = ledger[q].previousCleanup
  <2>1. ledger[q] \in Record
    BY <1>0
  <2> QED BY <1>1, <2>1 DEF GivenUp, Record
<1>3. \A q \in Pairings : ledger[q].state = "Staged" => ~ledger[q].previousCleanup
  BY DEF IInv, HostInv, CleanupJustified
<1>4. \A q \in Pairings :
        ledger[q].state \in Uncertain \cup {"Acknowledged"} => ledger'[q] = ledger[q]
  BY <1>2 DEF Uncertain
<1>5. /\ RequestOK' /\ AnswerOK'
      /\ \A p \in Pairings : AckSent(p)' => AckSent(p)
  BY <1>0, QuietLinks
<1>6. \A c \in creds : Engaged(c) /\ ~c.revoked =>
         ledger'[c.pairing].state \in Uncertain \cup {"Acknowledged"}
  BY <1>4 DEF LinkInv, EngagedKept, IInv, StoreInv, CredentialsBound
<1>7. \A x \in Pairings : ledger'[x].previousCleanup => ledger'[x] = ledger[x]
  BY <1>2, <1>3
<1>8. PredecessorEnded'
  BY <1>0, <1>5, <1>7, ObligationsStay
<1> QED BY <1>0, <1>5, <1>6, <1>8, LedgerMoves

(* Dropped records are terminal ones.                                      *)
LEMMA FinishLinks ==
    ASSUME IInv, LinkInv, FinishCollection
    PROVE  LinkInv'
<1>0. /\ pc \in {"gc", "settling"} /\ UNCHANGED <<storeVars, files, config, stray>>
      /\ ledger' = [q \in Pairings |-> IF Retained(q) THEN Cleared(q) ELSE NoRecord]
      /\ \/ pc' = "stage" /\ UNCHANGED <<req, reply>>
         \/ Leave
      /\ HostInv
  BY DEF FinishCollection, Collecting, IInv
<1>1. /\ RequestOK' /\ AnswerOK'
      /\ \A p \in Pairings : AckSent(p)' => AckSent(p)
  BY <1>0, QuietLinks, LeavingLinks
<1>2. ~NoRecord.previousCleanup
  BY DEF NoRecord
<1>3. \A q \in Pairings :
        \/ ledger'[q] = Cleared(q)
        \/ ledger'[q] = NoRecord /\ ledger[q].state \in Deletes
  BY <1>0 DEF Retained
<1>4. \A q \in Pairings :
        /\ Cleared(q).state = ledger[q].state
        /\ Cleared(q).digest = ledger[q].digest
        /\ Cleared(q).previous = ledger[q].previous
        /\ Cleared(q).previousDigest = ledger[q].previousDigest
        /\ Cleared(q).previousCleanup => ledger[q].previousCleanup
  BY <1>0, ClearedRecord
<1>5. \A c \in creds : Engaged(c) /\ ~c.revoked =>
         ledger'[c.pairing].state \in Uncertain \cup {"Acknowledged"}
  <2>1. \A q \in Pairings : ledger[q].state \in Uncertain \cup {"Acknowledged"} =>
          ledger'[q].state = ledger[q].state
    BY <1>3, <1>4 DEF Uncertain, Deletes
  <2> QED BY <2>1 DEF LinkInv, EngagedKept, IInv, StoreInv, CredentialsBound
<1>6. \A x \in Pairings : ledger'[x].previousCleanup =>
               /\ ledger[x].previousCleanup /\ ledger'[x].digest = ledger[x].digest
               /\ ledger'[x].previous = ledger[x].previous
               /\ ledger'[x].previousDigest = ledger[x].previousDigest
               /\ ledger'[x].state = ledger[x].state
  BY <1>2, <1>3, <1>4
<1>7. PredecessorEnded'
  BY <1>0, <1>1, <1>6, ObligationsStay
<1> QED BY <1>0, <1>1, <1>5, <1>7, LedgerMoves

(* Staging: the file of the config, or of an enrollment that was never     *)
(* engaged.                                                                *)
LEMMA ReuseLinks ==
    ASSUME IInv, LinkInv, ReuseCredential
    PROVE  LinkInv'
<1>0. /\ pc = "stage" /\ pc' = "staged" /\ inv \in Pairings /\ Present(inv)
      /\ UNCHANGED <<storeVars, files, config, req, reply, stray>>
      /\ ledger' = [ledger EXCEPT ![inv] = StagedRecord(files[inv])]
      /\ inv \in Recorded /\ ledger[inv].digest = files[inv]
      /\ ledger \in [Pairings -> Record] /\ ledger[inv] \in Record
      /\ ~Refused
  BY DEF ReuseCredential, IInv, HostInv, HostTypeOK, PlaceOK, FilesOwned
<1>1. /\ RequestOK' /\ AnswerOK'
      /\ \A p \in Pairings : AckSent(p)' => AckSent(p)
  BY <1>0, QuietLinks
<1>2. CASE config = inv /\ ledger[inv].state # "Acknowledged"
  <2> DEFINE r == [ledger[inv] EXCEPT !.state = "ConfigCommitted"]
  <2>1. StagedRecord(files[inv]) = r
    BY <1>0, <1>2 DEF StagedRecord, Record
  <2>2. r.state \in Uncertain /\ r.previousCleanup = ledger[inv].previousCleanup
    BY <1>0 DEF Record, Uncertain
  <2>3. ledger[inv].state \notin Deletes \cup {"Acknowledged", "Absent"}
    BY <1>0, <1>2 DEF Refused, Recorded
  <2>4. ~ledger[inv].previousCleanup
    BY <1>0, <2>3 DEF IInv, HostInv, CleanupJustified, Deletes
  <2> HIDE DEF r
  <2> QED BY <1>0, <1>1, <2>1, <2>2, <2>4, OwnRecordLinks
<1>3. CASE ~(config = inv /\ ledger[inv].state # "Acknowledged")
  <2>1. StagedRecord(files[inv]) = ledger[inv]
    BY <1>0, <1>3 DEF StagedRecord, Record
  <2>2. ledger' = ledger
    BY <1>0, <2>1
  <2> QED BY <1>0, <1>1, <2>2, StillLinks
<1> QED BY <1>2, <1>3

(* A new credential is staged where none was engaged.                      *)
LEMMA StageLinks ==
    ASSUME IInv, LinkInv, StageCredential
    PROVE  LinkInv'
<1> DEFINE r == StagedRecord(minted + 1)
<1>0. /\ pc = "stage" /\ pc' = "write" /\ inv \in Pairings /\ ~Present(inv) /\ Regenerable
      /\ UNCHANGED <<storeVars, files, config, req, reply, stray>>
      /\ ledger' = [ledger EXCEPT ![inv] = r]
      /\ ledger[inv] \in Record
  BY DEF StageCredential, IInv, HostInv, HostTypeOK, PlaceOK
<1>1. /\ RequestOK' /\ AnswerOK'
      /\ \A p \in Pairings : AckSent(p)' => AckSent(p)
  BY <1>0, QuietLinks
<1>2. ~r.previousCleanup
  <2>1. CASE inv \in Recorded
    <3>1. ~ledger[inv].previousCleanup
      BY <1>0, <2>1 DEF Regenerable, IInv, HostInv, CleanupJustified
    <3>2. r.previousCleanup = ledger[inv].previousCleanup
      BY <1>0, <2>1 DEF StagedRecord, Record
    <3> QED BY <3>1, <3>2
  <2>2. CASE inv \notin Recorded
    BY <2>2 DEF StagedRecord, NoRecord
  <2> QED BY <2>1, <2>2
<1>3. \A c \in creds : c.pairing = inv /\ Engaged(c) => c.revoked
  <2>1. \A c \in creds : c.digest # 0
    BY DEF IInv, StoreInv, StoreTypeOK, Credential, Digests
  <2> QED BY <1>0, <2>1 DEF LinkInv, EngagedKept, Present
<1> HIDE DEF r
<1> QED BY <1>0, <1>1, <1>2, <1>3, OwnRecordLinks

(* A file appears where there was none.                                    *)
LEMMA WriteLinks ==
    ASSUME IInv, LinkInv, WriteCredential
    PROVE  LinkInv'
<1>0. /\ pc = "write" /\ pc' = "staged" /\ inv \in Pairings /\ ~Present(inv)
      /\ config # inv
      /\ UNCHANGED <<storeVars, ledger, config, req, reply, stray>>
      /\ files' = [files EXCEPT ![inv] = secret] /\ files \in [Pairings -> Nat]
      /\ config \in Pairings \cup {NoPairing}
  BY DEF WriteCredential, IInv, HostInv, HostTypeOK, PlaceOK
<1>1. /\ RequestOK' /\ AnswerOK'
      /\ \A p \in Pairings : AckSent(p)' => AckSent(p)
  BY <1>0, QuietLinks
<1>2. creds' = creds /\ pairings' = pairings /\ known' = known
  BY <1>0 DEF storeVars
<1>3. \A c \in creds : c.pairing \in Pairings /\ c.digest # 0
  BY DEF IInv, StoreInv, StoreTypeOK, Credential, Digests, CredentialsBound
<1>4. \A c \in creds : Engaged(c)' => Engaged(c)
  BY <1>1, <1>2, <1>3 DEF Engaged
<1>5. \A c \in creds : Engaged(c) /\ ~c.revoked => c.pairing # inv
  BY <1>0, <1>3 DEF LinkInv, EngagedKept, Present
<1>6. \A p \in Pairings : p # inv => files'[p] = files[p]
  BY <1>0
<1>7. config # NoPairing => files'[config] = files[config]
  BY <1>0, <1>6
<1>8. RowsShaped' /\ ConfigUsable' /\ AcksBound'
  BY <1>0, <1>1, <1>2, <1>7 DEF LinkInv, RowsShaped, ConfigUsable, AcksBound, CredsOf,
                                Present
<1>9. EngagedOlder' /\ EngagedKept' /\ ActivationEnds'
  BY <1>0, <1>2, <1>3, <1>4, <1>5, <1>6, <1>7
     DEF LinkInv, EngagedOlder, EngagedKept, ActivationEnds
<1>10. PredecessorEnded'
  BY <1>0, <1>2, <1>3, <1>4, <1>5, <1>6, <1>7 DEF LinkInv, PredecessorEnded, CredsOf
<1> QED BY <1>1, <1>8, <1>9, <1>10 DEF LinkInv

(* What is removed is not engaged, or revoked.                             *)
LEMMA RemoveLinks ==
    ASSUME IInv, LinkInv, NEW q \in Pairings, RemoveFile(q)
    PROVE  LinkInv'
<1>0. /\ pc \in {"gc", "settling"} /\ Present(q)
      /\ UNCHANGED <<storeVars, ledger, config, pc, inv, req, reply, stray>>
      /\ files' = [files EXCEPT ![q] = 0] /\ files \in [Pairings -> Nat]
      /\ config \in Pairings \cup {NoPairing}
  BY DEF RemoveFile, Collecting, IInv, HostInv, HostTypeOK
<1>1. /\ RequestOK' /\ AnswerOK'
      /\ \A p \in Pairings : AckSent(p)' => AckSent(p)
  BY <1>0, QuietLinks
<1>2. creds' = creds /\ pairings' = pairings /\ known' = known
  BY <1>0 DEF storeVars
<1>3. \A c \in creds : c.pairing \in Pairings /\ c.digest # 0
  BY DEF IInv, StoreInv, StoreTypeOK, Credential, Digests, CredentialsBound
<1>4. \A c \in creds : Engaged(c)' => Engaged(c)
  BY <1>1, <1>2, <1>3 DEF Engaged
<1>5. PICK cand \in Candidates : cand[1] = q
  BY DEF RemoveFile
<1>6. files[q] = cand[2]
  BY <1>0, <1>5 DEF RemoveFile, UnverifiedFile
<1>7. q # config /\ \A c \in creds : c.pairing = q /\ Engaged(c) => c.revoked
  <2>1. ASSUME NEW x \in Pairings, StagedTarget(x), cand = <<x, ledger[x].digest>>
        PROVE  q # config /\ \A c \in creds : c.pairing = q /\ Engaged(c) => c.revoked
    <3>1. x = q /\ q # config /\ ledger[q].state \in Deletes
      BY <1>5, <2>1 DEF StagedTarget
    <3> QED BY <3>1 DEF LinkInv, EngagedKept, Deletes, Uncertain
  <2>2. ASSUME NEW x \in Pairings, PreviousTarget(x),
               cand = <<ledger[x].previous, ledger[x].previousDigest>>
        PROVE  q # config /\ \A c \in creds : c.pairing = q /\ Engaged(c) => c.revoked
    <3>1. /\ ledger[x].previous = q /\ q # config /\ ledger[x].previousCleanup
          /\ ledger[x].state \in {"Acknowledged", "Superseded"}
          /\ files[q] = ledger[x].previousDigest
      BY <1>5, <1>6, <2>2 DEF PreviousTarget
    <3> QED BY <3>1 DEF LinkInv, PredecessorEnded, CredsOf
  <2> QED BY <2>1, <2>2 DEF Candidates
<1>8. \A p \in Pairings : p # q => files'[p] = files[p]
  BY <1>0
<1>9. config # NoPairing => files'[config] = files[config]
  BY <1>0, <1>7, <1>8
<1>10. RowsShaped' /\ ConfigUsable' /\ AcksBound'
  BY <1>0, <1>1, <1>2, <1>9 DEF LinkInv, RowsShaped, ConfigUsable, AcksBound, CredsOf,
                                Present
<1>11. EngagedOlder' /\ EngagedKept' /\ ActivationEnds'
  BY <1>0, <1>2, <1>3, <1>4, <1>7, <1>8, <1>9
     DEF LinkInv, EngagedOlder, EngagedKept, ActivationEnds
<1>12. PredecessorEnded'
  BY <1>0, <1>2, <1>3, <1>4, <1>7, <1>8, <1>9 DEF LinkInv, PredecessorEnded, CredsOf
<1> QED BY <1>1, <1>10, <1>11, <1>12 DEF LinkInv

(* A confirmed acknowledgement: the controller has ended whatever the host *)
(* supersedes.                                                             *)
LEMMA AckConfirmedLinks ==
    ASSUME IInv, LinkInv, AckConfirmed
    PROVE  LinkInv'
<1>0. /\ pc = "acking" /\ reply = "ok" /\ inv \in Pairings /\ config = inv
      /\ config # NoPairing /\ pc' = "settling"
      /\ UNCHANGED <<storeVars, files, config, inv, stray>>
      /\ req' = NoRequest /\ reply' = "none"
      /\ ledger' = [q \in Pairings |-> Supersede(q)]
      /\ ledger \in [Pairings -> Record] /\ files[inv] \in Nat
  BY WorkerAssumption DEF AckConfirmed, IInv, HostInv, HostTypeOK, PlaceOK
<1>1. /\ RequestOK' /\ AnswerOK'
      /\ \A p \in Pairings : AckSent(p)' => AckSent(p)
  BY <1>0 DEF RequestOK, AnswerOK, AckSent, NoRequest
<1>2. creds' = creds
  BY <1>0 DEF storeVars
<1>3. \A c \in creds : Engaged(c)' => Engaged(c)
  BY <1>1, <1>2 DEF Engaged, IInv, StoreInv, CredentialsBound
<1>4. PICK own \in creds : own.pairing = inv /\ own.active
  BY <1>0 DEF LinkInv, AnswerOK, CredsOf
<1>5. own.digest = files[inv]
  BY <1>0, <1>4 DEF LinkInv, ConfigUsable, CredsOf, IInv, StoreInv, CredentialUnique
<1>6. ASSUME NEW d \in creds, Engaged(d), d.pairing # inv,
             Intended[d.pairing] = Intended[inv]
      PROVE  d.revoked
  <2>1. d.digest < own.digest
    BY <1>0, <1>5, <1>6 DEF LinkInv, EngagedOlder
  <2>2. d.node = own.node
    BY <1>4, <1>6 DEF IInv, StoreInv, CredentialsBound
  <2> QED BY <1>4, <1>6, <2>1, <2>2 DEF LinkInv, ActivationEnds
<1>7. \A q \in Pairings :
        /\ ledger'[q].digest = ledger[q].digest
        /\ ledger'[q].previous = ledger[q].previous
        /\ ledger'[q].previousDigest = ledger[q].previousDigest
        /\ q = inv => ledger'[q].state = "Acknowledged"
        /\ q # inv => ledger'[q].previousCleanup = ledger[q].previousCleanup
        /\ ~SameBinding(q, inv) => ledger'[q] = ledger[q]
  <2> SUFFICES ASSUME NEW q \in Pairings
               PROVE  /\ ledger'[q].digest = ledger[q].digest
                      /\ ledger'[q].previous = ledger[q].previous
                      /\ ledger'[q].previousDigest = ledger[q].previousDigest
                      /\ q = inv => ledger'[q].state = "Acknowledged"
                      /\ q # inv => ledger'[q].previousCleanup = ledger[q].previousCleanup
                      /\ ~SameBinding(q, inv) => ledger'[q] = ledger[q]
    OBVIOUS
  <2>1. ledger[q] \in Record /\ ledger'[q] = Supersede(q)
    BY <1>0
  <2>2. CASE q = inv
    <3>1. SameBinding(q, inv)
      BY <2>2 DEF SameBinding
    <3> QED BY <2>1, <2>2, <3>1 DEF Supersede, Record
  <2>3. CASE q # inv
    BY <2>1, <2>3 DEF Supersede, Record
  <2> QED BY <2>2, <2>3
<1>8. \A c \in creds : Engaged(c) /\ ~c.revoked =>
         ledger'[c.pairing].state \in Uncertain \cup {"Acknowledged"}
  <2> SUFFICES ASSUME NEW c \in creds, Engaged(c), ~c.revoked
               PROVE  ledger'[c.pairing].state \in Uncertain \cup {"Acknowledged"}
    OBVIOUS
  <2>1. c.pairing \in Pairings
    BY DEF IInv, StoreInv, CredentialsBound
  <2>2. c.pairing = inv \/ ~SameBinding(c.pairing, inv)
    BY <1>6 DEF SameBinding
  <2> QED BY <1>7, <2>1, <2>2 DEF LinkInv, EngagedKept
<1>9. PredecessorEnded'
  <2>1. ASSUME NEW x \in Pairings, ledger'[x].previousCleanup
        PROVE  x = config \/ ledger'[x].digest < files[config]
    BY <1>0, <1>7, <2>1 DEF LinkInv, PredecessorEnded
  <2>2. ASSUME NEW x \in Pairings, ledger'[x].previousCleanup,
               ledger'[x].state \in {"Acknowledged", "Superseded"},
               NEW c \in creds, c.pairing = ledger'[x].previous, Engaged(c),
               files[c.pairing] = ledger'[x].previousDigest
        PROVE  c.revoked
    <3>0. /\ c.pairing \in Pairings /\ c.pairing # NoPairing
          /\ c.pairing = ledger[x].previous
      BY <1>7, <2>2, WorkerAssumption DEF IInv, StoreInv, CredentialsBound
    <3>1. /\ c.pairing # x /\ SameBinding(x, c.pairing)
          /\ ledger[x].previousDigest < ledger[x].digest
      BY <3>0 DEF IInv, HostInv, DigestsOrdered
    <3>2. CASE ~SameBinding(x, inv)
      <4>1. ledger'[x] = ledger[x]
        BY <1>7, <3>2
      <4> QED BY <2>2, <4>1 DEF LinkInv, PredecessorEnded, CredsOf
    <3>3. CASE SameBinding(x, inv) /\ c.pairing # inv
      BY <1>6, <2>2, <3>1, <3>3 DEF SameBinding
    <3>4. CASE c.pairing = inv
      <4>1. ledger[x].previousCleanup /\ x # config
        BY <1>0, <1>7, <2>2, <3>1, <3>4
      <4>2. ledger[x].digest < files[config]
        BY <4>1 DEF LinkInv, PredecessorEnded
      <4>3. files[config] = ledger[x].previousDigest
        BY <1>0, <1>7, <2>2, <3>4
      <4>4. ledger[x].digest \in Nat /\ files[config] \in Nat
        BY <1>0 DEF Record
      <4> QED BY <3>1, <4>2, <4>3, <4>4
    <3> QED BY <3>2, <3>3, <3>4
  <2> QED BY <1>0, <1>2, <1>3, <2>1, <2>2 DEF PredecessorEnded, CredsOf
<1> QED BY <1>0, <1>1, <1>8, <1>9, LedgerMoves

-----------------------------------------------------------------------------
(* The initial state: no pairing, no file, no record.                      *)
LEMMA InitIInv == Init => IInv
<1> SUFFICES ASSUME Init
             PROVE  IInv
  OBVIOUS
<1>1. StoreInv
  BY DEF Init, StoreInit, StoreInv, StoreTypeOK, PairingRow, CredentialsBound,
         CredentialUnique, LiveUnique
<1>2. NoRecord \in Record
  BY DEF NoRecord, Record, States
<1>3. /\ NoRecord.state = "Absent" /\ NoRecord.digest = 0
      /\ NoRecord.previous = NoPairing /\ NoRecord.previousCleanup = FALSE
  BY DEF NoRecord
<1>4. HostTypeOK /\ PlaceOK /\ ReplacesConfig
  BY <1>2 DEF Init, HostTypeOK, RequestsOK, Places, PlaceOK, ReplacesConfig,
              Working
<1>5. FilesOwned /\ UncertainKept /\ DigestsOrdered /\ ConfigNewest
      /\ CleanupJustified
  BY <1>3 DEF Init, FilesOwned, UncertainKept, DigestsOrdered, ConfigNewest,
              CleanupJustified, Present, Uncertain, Deletes
<1>6. TempsInv
  BY FS_EmptySet DEF Init, TempsInv, LeftoversFew
<1> QED BY <1>1, <1>4, <1>5, <1>6 DEF IInv, HostInv, Init

(* Every step keeps both halves.                                           *)
LEMMA NextIInv == IInv /\ [Next]_vars => IInv'
<1> SUFFICES ASSUME IInv, [Next]_vars
             PROVE  IInv'
  OBVIOUS
<1>1. StoreInv'
  BY NextIsStoreStep, StoreStepKeeps DEF IInv, HostInv, HostTypeOK
<1>2. HostInv'
  BY HostStepKeeps DEF IInv
<1>3. handed' \subseteq Pairings /\ closed' \subseteq Pairings
  <2>1. CASE UNCHANGED <<handed, closed>>
    BY <2>1 DEF IInv
  <2>2. CASE Operator \/ Clocks
    BY <2>2 DEF IInv, Operator, Clocks, Issue, Reissue, Withdraw,
                ControllerLapse, WorkerLapse
  <2>3. CASE Invocation \/ Controller \/ Interrupt \/ \E p \in Pairings : Start(p)
    <3>1. UNCHANGED <<handed, closed>>
      BY <2>3 DEF Invocation, RefuseForeign, PrepareInvocation, Collect,
              AbandonCollection, FinishCollection, RemoveFile, RefuseStage,
              ReuseCredential, StageCredential, WriteTemporary,
              WriteCredential, RemoveTemporary,
              ResumeCommitted, MarkRequest, RefuseExpired, SendPair,
              PairRefused, PairAccepted, CommitConfig, MarkCommitted, SendAck, AckRefused,
              AckConfirmed, Controller, HandlePair, HandleAck, HandleStray,
              Interrupt, Start
    <3> QED BY <3>1, <2>1
  <2> QED BY <2>1, <2>2, <2>3 DEF Next, vars
<1>4. TempsInv'
  BY TempsKeep DEF IInv
<1> QED BY <1>1, <1>2, <1>3, <1>4 DEF IInv

(* For any pairings, nodes and retries: the controller's tables and the    *)
(* host's files stay within their types.                                   *)
THEOREM PairingTypeCorrect == Spec => []TypeOK
<1>1. IInv => TypeOK
  BY DEF IInv, StoreInv, HostInv, HostTypeOK, TempsInv, RequestsOK, TypeOK
<1> QED BY <1>1, InitIInv, NextIInv, PTL DEF Spec

(* authenticate_worker_tx accepts at most one credential of a node, however *)
(* many pairings are consumed, acknowledged, replayed or revoked, in        *)
(* whatever order late requests arrive.                                     *)
THEOREM PairingOneIdentity == Spec => []OneIdentity
<1>1. IInv => OneIdentity
  BY DEF IInv, StoreInv, LiveUnique, Live, OneIdentity, Authenticates,
         Acknowledgeable
<1> QED BY <1>1, InitIInv, NextIInv, PTL DEF Spec

(* stage_pairing_credential, garbage collection and retries never leave a  *)
(* credential file that no ledger record owns; the temporaries that nobody *)
(* owns are no more than the invocations cut off.                          *)
THEOREM PairingSecretsOwned == Spec => []SecretsOwned
<1>1. IInv => SecretsOwned
  BY DEF IInv, HostInv, TempsInv, SecretsOwned
<1> QED BY <1>1, InitIInv, NextIInv, PTL DEF Spec

(* No interruption, repair or collection loses the credential of a request *)
(* the controller may have accepted.                                       *)
THEOREM PairingUncertainKept == Spec => []UncertainKept
<1>1. IInv => UncertainKept
  BY DEF IInv, HostInv
<1> QED BY <1>1, InitIInv, NextIInv, PTL DEF Spec

-----------------------------------------------------------------------------
(* The initial state: nothing is engaged.                                  *)
LEMMA InitLinks == Init => LinkInv
<1> SUFFICES ASSUME Init
             PROVE  LinkInv
  OBVIOUS
<1>1. RowsShaped
  BY DEF Init, StoreInit, RowsShaped
<1>2. RequestOK /\ AnswerOK /\ AcksBound /\ ConfigUsable
  BY DEF Init, RequestOK, AnswerOK, AcksBound, AckSent, NoRequest, ConfigUsable
<1>3. EngagedOlder /\ EngagedKept /\ ActivationEnds
  BY DEF Init, StoreInit, EngagedOlder, EngagedKept, ActivationEnds
<1>4. PredecessorEnded
  BY DEF Init, NoRecord, PredecessorEnded
<1> QED BY <1>1, <1>2, <1>3, <1>4 DEF LinkInv

(* Every step keeps the links between the two halves.                      *)
LEMMA NextLinks == IInv /\ LinkInv /\ [Next]_vars => LinkInv'
<1> SUFFICES ASSUME IInv, LinkInv, [Next]_vars
             PROVE  LinkInv'
  OBVIOUS
<1>0. StoreInv'
  BY NextIInv DEF IInv
<1>1. CASE UNCHANGED vars
  <2>1. /\ UNCHANGED <<storeVars, files, ledger, config>>
        /\ UNCHANGED <<pc, inv, req, reply, stray>>
    BY <1>1 DEF vars, workerVars
  <2>2. RequestOK' /\ AnswerOK'
    BY <2>1 DEF LinkInv, RequestOK, AnswerOK, Bound, CredsOf, storeVars
  <2>3. \A p \in Pairings : AckSent(p)' => AckSent(p)
    BY <2>1 DEF AckSent
  <2> QED BY <2>1, <2>2, <2>3, StillLinks
<1>2. CASE Operator \/ Clocks
  BY <1>0, <1>2, OutsideLinks
<1>3. CASE Controller
  BY <1>0, <1>3, PairAnswered, AckAnswered, StrayLinks DEF Controller
<1>4. CASE Interrupt \/ \E p \in Pairings : Start(p)
  BY <1>4, InterruptLinks, SimpleLinks
<1>5. CASE Invocation
  <2>1. CASE \/ RefuseForeign \/ RefuseStage \/ ResumeCommitted \/ RefuseExpired
             \/ WriteTemporary \/ RemoveTemporary
    BY <2>1, SimpleLinks
  <2>2. CASE Collect
    BY <2>2, SimpleLinks, FinishLinks, RemoveLinks DEF Collect
  <2>3. CASE PrepareInvocation \/ ReuseCredential \/ StageCredential
             \/ WriteCredential
    BY <2>3, PrepareLinks, ReuseLinks, StageLinks, WriteLinks
  <2>4. CASE MarkRequest \/ SendPair \/ PairRefused \/ PairAccepted
    BY <2>4, MarkRequestLinks, SendPairLinks, PairRefusedLinks,
       PairAcceptedLinks
  <2>5. CASE CommitConfig \/ MarkCommitted \/ SendAck \/ AckRefused
             \/ AckConfirmed
    BY <2>5, CommitLinks, MarkCommittedLinks, SendAckLinks, AckRefusedLinks,
       AckConfirmedLinks
  <2> QED BY <1>5, <2>1, <2>2, <2>3, <2>4, <2>5 DEF Invocation
<1> QED BY <1>1, <1>2, <1>3, <1>4, <1>5 DEF Next

(* The two sides together, for any number of pairings, nodes, retries,     *)
(* late and repeated requests: everything this module rests on.            *)
THEOREM PairingInvariance == Spec => [](IInv /\ LinkInv)
<1>1. Init => IInv /\ LinkInv
  BY InitIInv, InitLinks
<1>2. IInv /\ LinkInv /\ [Next]_vars => (IInv /\ LinkInv)'
  BY NextIInv, NextLinks
<1> QED BY <1>1, <1>2, PTL DEF Spec

(* The credential the config names exists and is the one the controller    *)
(* bound, and whatever authenticate_worker_tx accepts is still on the      *)
(* host, whichever acknowledgement arrives late and whatever was collected *)
(* or superseded before it.                                                *)
THEOREM PairingCredentialsKept == Spec => []CredentialsKept
<1>1. IInv /\ LinkInv => CredentialsKept
  <2> SUFFICES ASSUME IInv, LinkInv
               PROVE  CredentialsKept
    OBVIOUS
  <2>1. SecretsOwned /\ ConfigUsable
    BY DEF IInv, HostInv, TempsInv, SecretsOwned, LinkInv
  <2>2. IdentityKept
    BY DEF IdentityKept, Authenticates, Acknowledgeable, LinkInv, EngagedKept,
           Engaged
  <2> QED BY <2>1, <2>2 DEF CredentialsKept
<1> QED BY <1>1, PairingInvariance, PTL

-----------------------------------------------------------------------------
(* The phase of a pairing, read off its row: while rows and credentials    *)
(* fit together, classify_pairing_phase answers this and never finds a     *)
(* corrupt database.                                                       *)
PhaseOfRow(p) ==
    IF pairings[p].revoked THEN "Revoked"
    ELSE IF pairings[p].acked THEN "Ready"
    ELSE IF pairings[p].used THEN "Consumed"
    ELSE IF pairings[p].failure # "none" THEN "Failed"
    ELSE IF p \in lapsed THEN "Expired" ELSE "Pending"

(* The phase by its shapes is the phase read off the row.                  *)
LEMMA PhaseIs ==
    StoreInv /\ RowsShaped =>
        \A p \in Pairings : Phase(p) = PhaseOfRow(p)
<1> SUFFICES ASSUME StoreInv, RowsShaped, NEW p \in Pairings
             PROVE  Phase(p) = PhaseOfRow(p)
  OBVIOUS
<1>0. /\ pairings[p] \in PairingRow /\ creds \subseteq Credential
      /\ NoNode \notin Nodes /\ Intended[p] \in Nodes
  BY PairingAssumption DEF StoreInv, StoreTypeOK
<1>1. CASE ~pairings[p].used
  <2>1. CleanRow(p)
    BY <1>1 DEF CleanRow, CredsOf, RowsShaped, StoreInv, CredentialsBound
  <2>2. ~ExactBinding(p, TRUE) /\ ~ExactBinding(p, FALSE)
    BY <1>1 DEF ExactBinding
  <2> QED BY <1>1, <2>1, <2>2 DEF Phase, PhaseOfRow, CleanRow
<1>2. CASE pairings[p].used
  <2>1. PICK c \in creds : c.pairing = p
    BY <1>2 DEF RowsShaped
  <2>2. CredsOf(p) = {c}
    BY <2>1 DEF CredsOf, StoreInv, CredentialUnique
  <2>3. /\ pairings[p].failure = "none" /\ pairings[p].node = Intended[p]
        /\ Intended[p] \in known /\ c.node = Intended[p]
        /\ c.active <=> pairings[p].acked
        /\ c.revoked <=> pairings[p].revoked
    BY <1>2, <2>1 DEF RowsShaped, StoreInv, CredentialsBound
  <2>4. /\ c.active = pairings[p].acked /\ c.revoked = pairings[p].revoked
        /\ pairings[p].acked \in BOOLEAN
    BY <1>0, <2>3 DEF PairingRow, Credential
  <2>5. Cardinality({c}) = 1
    BY FS_Singleton
  <2>6. {e \in CredsOf(p) : /\ e.node = pairings[p].node
                            /\ e.active = pairings[p].acked
                            /\ e.revoked = pairings[p].revoked} = {c}
    BY <2>2, <2>3, <2>4
  <2>7. CountOf(p, pairings[p].acked, pairings[p].revoked) = 1
    BY <2>5, <2>6 DEF CountOf
  <2>8. ExactBinding(p, pairings[p].acked)
    BY <1>2, <2>2, <2>3, <2>5, <2>7 DEF ExactBinding
  <2>9. ~CleanRow(p)
    BY <1>2 DEF CleanRow
  <2>10. CASE pairings[p].acked
    <3>1. pairings[p].acked = TRUE
      BY <2>4, <2>10
    <3>2. ExactBinding(p, TRUE) /\ ~ExactBinding(p, FALSE)
      BY <2>8, <3>1 DEF ExactBinding
    <3> QED BY <2>9, <2>10, <3>2 DEF Phase, PhaseOfRow
  <2>11. CASE ~pairings[p].acked
    <3>1. pairings[p].acked = FALSE
      BY <2>4, <2>11
    <3>2. ExactBinding(p, FALSE) /\ ~ExactBinding(p, TRUE)
      BY <2>8, <3>1 DEF ExactBinding
    <3> QED BY <1>2, <2>9, <2>11, <3>2 DEF Phase, PhaseOfRow
  <2> QED BY <2>10, <2>11
<1> QED BY <1>1, <1>2

(* What a transaction does to the phase of every pairing.                  *)
LEMMA RowPhaseMoves ==
    ASSUME StoreInv, RowsShaped, StoreStep, NEW p \in Pairings
    PROVE  PhaseOfRow(p)' = PhaseOfRow(p) \/ PhaseOfRow(p)' \in After(PhaseOfRow(p))
<1>0. pairings \in [Pairings -> PairingRow]
  BY DEF StoreInv, StoreTypeOK
<1> DEFINE same == /\ pairings'[p].used = pairings[p].used
                   /\ pairings'[p].acked = pairings[p].acked
                   /\ pairings'[p].failure = pairings[p].failure
<1>1. CASE same /\ lapsed' = lapsed /\ pairings'[p].revoked = pairings[p].revoked
  BY <1>1 DEF PhaseOfRow
<1>2. ASSUME pairings'[p].revoked
      PROVE  PhaseOfRow(p)' = PhaseOfRow(p) \/ PhaseOfRow(p)' \in After(PhaseOfRow(p))
  BY <1>2 DEF PhaseOfRow, After
<1>3. ASSUME NEW q \in Pairings, CreatePairing(q)
      PROVE  same /\ lapsed' = lapsed /\ pairings'[p].revoked = pairings[p].revoked
  BY <1>0, <1>3 DEF CreatePairing, PairingRow
<1>4. ASSUME NEW q \in Pairings, RevokePairing(q)
      PROVE  \/ pairings'[p].revoked
             \/ same /\ lapsed' = lapsed /\ pairings'[p].revoked = pairings[p].revoked
  BY <1>0, <1>4 DEF RevokePairing, PairingRow
<1>5. ASSUME NEW q \in Pairings, Lapse(q)
      PROVE  PhaseOfRow(p)' = PhaseOfRow(p) \/ PhaseOfRow(p)' \in After(PhaseOfRow(p))
  BY <1>5 DEF Lapse, PhaseOfRow, After
<1>6. ASSUME NEW q \in Pairings, NEW code \in FailureCodes, FailPairing(q, code)
      PROVE  PhaseOfRow(p)' = PhaseOfRow(p) \/ PhaseOfRow(p)' \in After(PhaseOfRow(p))
  <2>1. CASE p = q
    <3>1. PhaseOfRow(p) = "Pending"
      BY <1>6, <2>1, PhaseIs DEF FailPairing
    <3>2. ~pairings[p].revoked /\ ~pairings[p].acked /\ ~pairings[p].used
      BY <3>1 DEF PhaseOfRow
    <3>3. ~pairings'[p].revoked /\ ~pairings'[p].acked /\ ~pairings'[p].used
          /\ lapsed' = lapsed
      BY <1>0, <1>6, <2>1, <3>2 DEF FailPairing, PairingRow
    <3> QED BY <3>1, <3>3 DEF PhaseOfRow, After
  <2>2. CASE p # q
    <3>1. pairings'[p] = pairings[p] /\ lapsed' = lapsed
      BY <1>0, <1>6, <2>2 DEF FailPairing
    <3> QED BY <3>1, <1>1
  <2> QED BY <2>1, <2>2
<1>7. ASSUME NEW q \in Pairings, NEW digest \in Digests, NEW t \in BOOLEAN,
             ConsumePairing(q, digest, t)
      PROVE  PhaseOfRow(p)' = PhaseOfRow(p) \/ PhaseOfRow(p)' \in After(PhaseOfRow(p))
  <2>1. CASE ConsumeOutcome(q, digest, t) # "consumed"
    BY <1>1, <1>7, <2>1 DEF ConsumePairing, storeVars
  <2>2. CASE ConsumeOutcome(q, digest, t) = "consumed"
    <3>1. /\ lapsed' = lapsed
          /\ pairings' = [pairings EXCEPT ![q].used = TRUE, ![q].node = Intended[q]]
      BY <1>7, <2>2 DEF ConsumePairing
    <3>2. CASE p # q
      <4>1. pairings'[p] = pairings[p]
        BY <1>0, <3>1, <3>2
      <4> QED BY <1>1, <3>1, <4>1
    <3>3. CASE p = q
      <4>1. Usable(p, t) /\ CleanRow(p)
        BY <2>2, <3>3 DEF ConsumeOutcome
      <4>2. /\ ~pairings[p].revoked /\ ~pairings[p].acked /\ ~pairings[p].used
            /\ pairings[p].failure = "none"
        BY <4>1 DEF Usable, CleanRow
      <4>3. ~pairings'[p].revoked /\ ~pairings'[p].acked /\ pairings'[p].used
        BY <1>0, <3>1, <3>3, <4>2 DEF PairingRow
      <4> QED BY <4>2, <4>3 DEF PhaseOfRow, After
    <3> QED BY <3>2, <3>3
  <2> QED BY <2>1, <2>2
<1>8. ASSUME NEW q \in Pairings, NEW digest \in Digests,
             AcknowledgePairing(q, digest)
      PROVE  PhaseOfRow(p)' = PhaseOfRow(p) \/ PhaseOfRow(p)' \in After(PhaseOfRow(p))
  <2>1. CASE ~(AckAccepted(q, digest) /\ ~pairings[q].acked)
    BY <1>1, <1>8, <2>1 DEF AcknowledgePairing, storeVars
  <2>2. CASE AckAccepted(q, digest) /\ ~pairings[q].acked
    <3>1. /\ lapsed' = lapsed
          /\ pairings'[p] = IF p = q THEN [pairings[p] EXCEPT !.acked = TRUE]
                 ELSE IF pairings[p].issued /\ Intended[p] = Intended[q]
                 THEN [pairings[p] EXCEPT !.revoked = TRUE] ELSE pairings[p]
      BY <1>8, <2>2 DEF AcknowledgePairing
    <3>2. CASE p = q
      <4>1. /\ ~pairings[p].revoked /\ pairings[p].used /\ ~pairings[p].acked
        BY <2>2, <3>2 DEF AckAccepted, Acknowledgeable, CredsOf
      <4>2. pairings'[p].acked /\ ~pairings'[p].revoked
        BY <1>0, <3>1, <3>2, <4>1 DEF PairingRow
      <4> QED BY <4>1, <4>2 DEF PhaseOfRow, After
    <3>3. CASE p # q
      <4>1. pairings'[p] = pairings[p] \/ pairings'[p].revoked
        BY <1>0, <3>1, <3>3 DEF PairingRow
      <4> QED BY <1>1, <1>2, <3>1, <4>1
    <3> QED BY <3>2, <3>3
  <2> QED BY <2>1, <2>2
<1>9. CASE UNCHANGED storeVars
  BY <1>1, <1>9 DEF storeVars
<1>10. \A m \in Request : m.pairing \in Pairings /\ m.digest \in Digests
  BY DEF Request
<1> HIDE DEF same
<1> QED BY <1>1, <1>2, <1>3, <1>4, <1>5, <1>6, <1>7, <1>8, <1>9, <1>10
        DEF StoreStep

(* The status route never finds a row it must call corrupt, however the    *)
(* pairings of a node are consumed, acknowledged, revoked and failed.      *)
THEOREM PairingPhaseDefined == Spec => []PhaseDefined
<1>1. IInv /\ LinkInv => PhaseDefined
  BY PhaseIs DEF IInv, LinkInv, PhaseDefined, PhaseOfRow
<1> QED BY <1>1, PairingInvariance, PTL

(* Phases only move forward, whatever order requests and revocations come  *)
(* in: a failed, revoked or superseded pairing never becomes usable.       *)
THEOREM PairingPhaseOrder == Spec => PhaseOrder
<1>0. (StoreInv /\ RowsShaped => \A p \in Pairings : Phase(p) = PhaseOfRow(p))'
  BY PhaseIs, PTL
<1>1. IInv /\ LinkInv /\ (IInv /\ LinkInv)' /\ [Next]_vars =>
        [storeVars' # storeVars =>
          \A p \in Pairings : \/ Phase(p)' = Phase(p)
                              \/ Phase(p)' \in After(Phase(p))]_vars
  <2> SUFFICES ASSUME IInv, LinkInv, IInv', LinkInv', [Next]_vars, NEW p \in Pairings
               PROVE  Phase(p)' = Phase(p) \/ Phase(p)' \in After(Phase(p))
    OBVIOUS
  <2>1. StoreInv /\ RowsShaped /\ RequestsOK
    BY DEF IInv, LinkInv, HostInv, HostTypeOK
  <2>2. StoreStep
    BY <2>1, NextIsStoreStep
  <2>3. Phase(p) = PhaseOfRow(p)
    BY <2>1, PhaseIs
  <2>4. Phase(p)' = PhaseOfRow(p)'
    BY <1>0 DEF IInv, LinkInv
  <2> QED BY <2>1, <2>2, <2>3, <2>4, RowPhaseMoves
<1> QED BY <1>1, PairingInvariance, PTL DEF Spec, PhaseOrder

-----------------------------------------------------------------------------
(* prepare_invocation refuses a host with files of another node; what it   *)
(* has let through finds none later.                                       *)
ForeignGone == pc \notin {"idle", "prepare"} => ~ForeignFiles

(* An invocation only ever adds to its own record and its own file.        *)
LEMMA ForeignStays ==
    ASSUME HostInv, inv \in Pairings, inv' = inv, ~ForeignFiles,
           \A q \in Pairings : q # inv =>
              /\ ledger'[q].state # "Absent" =>
                    /\ ledger[q].state # "Absent"
                    /\ ledger'[q].previous = ledger[q].previous
              /\ files'[q] # 0 => files[q] # 0
    PROVE  ForeignGone'
<1> SUFFICES ASSUME NEW q \in Pairings, ledger'[q].state # "Absent",
                    ~SameBinding(q, inv),
                    \/ files'[q] # 0
                    \/ /\ ledger'[q].previous # NoPairing
                       /\ files'[ledger'[q].previous] # 0
             PROVE  FALSE
  BY DEF ForeignGone, ForeignFiles, Recorded, Present, SameBinding
<1>1. q # inv
  BY DEF SameBinding
<1>2. q \in Recorded /\ ledger'[q].previous = ledger[q].previous
  BY <1>1 DEF Recorded
<1>3. CASE files'[q] # 0
  BY <1>1, <1>2, <1>3 DEF ForeignFiles, Present
<1>4. CASE ledger'[q].previous # NoPairing /\ files'[ledger'[q].previous] # 0
  <2>1. ledger[q].previous \in Pairings /\ SameBinding(q, ledger[q].previous)
    BY <1>2, <1>4 DEF HostInv, HostTypeOK, Record, DigestsOrdered
  <2>2. ledger[q].previous # inv
    BY <2>1
  <2>3. files[ledger[q].previous] # 0
    BY <1>2, <1>4, <2>1, <2>2
  <2> QED BY <1>2, <1>4, <2>3 DEF ForeignFiles, Present
<1> QED BY <1>3, <1>4

(* No step brings back a file of another node.                             *)
LEMMA NextForeign == IInv /\ ForeignGone /\ [Next]_vars => ForeignGone'
<1> SUFFICES ASSUME IInv, ForeignGone, [Next]_vars, pc' \notin {"idle", "prepare"}
             PROVE  ForeignGone'
  BY DEF ForeignGone
<1>0. /\ HostInv /\ ledger \in [Pairings -> Record] /\ files \in [Pairings -> Nat]
      /\ pc # "idle" => inv \in Pairings
  BY DEF IInv, HostInv, HostTypeOK, PlaceOK
<1>1. CASE UNCHANGED <<files, ledger, pc, inv>>
  BY <1>1 DEF ForeignGone, ForeignFiles, Recorded, Present
<1>2. CASE Operator \/ Clocks \/ Controller
  <2>1. UNCHANGED <<files, ledger, pc, inv>>
    BY <1>2 DEF Operator, Clocks, Issue, Reissue, Withdraw, ControllerLapse,
           WorkerLapse, Controller, HandlePair, HandleAck, HandleStray, workerVars
  <2> QED BY <1>1, <2>1
<1>3. CASE Interrupt \/ \E p \in Pairings : Start(p)
  BY <1>3 DEF Interrupt, Leave, Start
<1>4. CASE Invocation
  <2>1. CASE RefuseForeign \/ AbandonCollection \/ RefuseStage \/ PairRefused
             \/ AckRefused \/ RefuseExpired
    BY <2>1 DEF RefuseForeign, AbandonCollection, RefuseStage, PairRefused,
           AckRefused, RefuseExpired, Leave
  <2>2. CASE \/ ResumeCommitted \/ SendPair \/ CommitConfig \/ SendAck
             \/ WriteTemporary \/ RemoveTemporary
    <3>1. UNCHANGED <<files, ledger, inv>> /\ pc \notin {"idle", "prepare"}
      BY <2>2 DEF ResumeCommitted, SendPair, CommitConfig, SendAck,
                  WriteTemporary, RemoveTemporary
    <3> QED BY <3>1 DEF ForeignGone, ForeignFiles, Recorded, Present
  <2>3. CASE MarkRequest \/ PairAccepted \/ MarkCommitted \/ ReuseCredential
             \/ StageCredential
    <3>1. UNCHANGED <<files, inv>> /\ pc \notin {"idle", "prepare"}
      BY <2>3 DEF MarkRequest, PairAccepted, MarkCommitted, ReuseCredential,
             StageCredential
    <3>2. \A q \in Pairings : q # inv => ledger'[q] = ledger[q]
      BY <1>0, <2>3 DEF MarkRequest, PairAccepted, MarkCommitted, ReuseCredential,
             StageCredential, Transition
    <3> QED BY <1>0, <3>1, <3>2, ForeignStays DEF ForeignGone
  <2>4. CASE WriteCredential
    <3>1. UNCHANGED <<ledger, inv>> /\ pc = "write"
          /\ \A q \in Pairings : q # inv => files'[q] = files[q]
      BY <1>0, <2>4 DEF WriteCredential
    <3> QED BY <1>0, <3>1, ForeignStays DEF ForeignGone
  <2>5. ASSUME NEW x \in Pairings, RemoveFile(x)
        PROVE  ForeignGone'
    <3>1. /\ UNCHANGED <<ledger, inv>> /\ pc \in {"gc", "settling"}
          /\ \A q \in Pairings : files'[q] # 0 => files[q] # 0
      BY <1>0, <2>5 DEF RemoveFile, Collecting
    <3> QED BY <1>0, <3>1, ForeignStays DEF ForeignGone
  <2>6. CASE PrepareInvocation
    <3>1. /\ UNCHANGED <<files, inv>> /\ pc = "prepare" /\ ~ForeignFiles
      BY <2>6 DEF PrepareInvocation
    <3>2. ledger' = [q \in Pairings |->
               IF GivenUp(q)
               THEN [ledger[q] EXCEPT !.state = GivenUpAs(q), !.cleanup = TRUE]
               ELSE ledger[q]]
      BY <2>6 DEF PrepareInvocation
    <3>3. \A q \in Pairings :
             /\ ledger'[q].previous = ledger[q].previous
             /\ ledger'[q].state # "Absent" => ledger[q].state # "Absent"
      BY <1>0, <3>2 DEF GivenUp, Record
    <3> QED BY <1>0, <3>1, <3>3, ForeignStays
  <2>7. CASE FinishCollection
    <3>1. /\ files' = files /\ inv' = inv /\ pc \in {"gc", "settling"}
          /\ ledger' = [q \in Pairings |->
                           IF Retained(q) THEN Cleared(q) ELSE NoRecord]
      BY <2>7 DEF FinishCollection, Collecting, Leave
    <3>2. \A q \in Pairings :
             /\ Cleared(q).previous = ledger[q].previous
             /\ Cleared(q).state = ledger[q].state
      BY <1>0 DEF Cleared, Record
    <3>3. \A q \in Pairings : ledger'[q].state # "Absent" =>
             /\ ledger'[q].previous = ledger[q].previous
             /\ ledger[q].state # "Absent"
      BY <3>1, <3>2 DEF NoRecord
    <3> QED BY <1>0, <3>1, <3>3, ForeignStays DEF ForeignGone
  <2>8. CASE AckConfirmed
    <3>1. /\ files' = files /\ inv' = inv /\ pc = "acking"
          /\ ledger' = [q \in Pairings |-> Supersede(q)]
      BY <2>8 DEF AckConfirmed
    <3>2. \A q \in Pairings : q # inv =>
             /\ Supersede(q).previous = ledger[q].previous
             /\ Supersede(q).state # "Absent" => ledger[q].state # "Absent"
      BY <1>0 DEF Supersede, Record, Recorded
    <3> QED BY <1>0, <3>1, <3>2, ForeignStays DEF ForeignGone
  <2> QED BY <1>4, <2>1, <2>2, <2>3, <2>4, <2>5, <2>6, <2>7, <2>8
          DEF Invocation, Collect
<1> QED BY <1>1, <1>2, <1>3, <1>4 DEF Next, vars, workerVars

(* A transaction writes the rows and the credentials of one node.          *)
LEMMA OneNodeWritten ==
    ASSUME StoreInv, StoreStep
    PROVE  \A p \in Pairings : pairings'[p] # pairings[p] =>
             \A q \in Pairings :
                pairings'[q] # pairings[q] \/ CredsOf(q)' # CredsOf(q)
                => SameBinding(p, q)
<1>0. pairings \in [Pairings -> PairingRow] /\ creds \subseteq Credential
  BY DEF StoreInv, StoreTypeOK
<1> SUFFICES \/ pairings' = pairings
             \/ \E x \in Pairings : \A q \in Pairings : Intended[q] # Intended[x] =>
                   pairings'[q] = pairings[q] /\ CredsOf(q)' = CredsOf(q)
  BY DEF SameBinding
<1>1. ASSUME NEW x \in Pairings,
             \/ CreatePairing(x) \/ Lapse(x)
             \/ \E code \in FailureCodes : FailPairing(x, code)
      PROVE  \A q \in Pairings : Intended[q] # Intended[x] =>
                pairings'[q] = pairings[q] /\ CredsOf(q)' = CredsOf(q)
  BY <1>0, <1>1 DEF CreatePairing, Lapse, FailPairing, CredsOf
<1>2. ASSUME NEW x \in Pairings, RevokePairing(x)
      PROVE  \A q \in Pairings : Intended[q] # Intended[x] =>
                pairings'[q] = pairings[q] /\ CredsOf(q)' = CredsOf(q)
  <2> DEFINE image(c) == IF c.pairing = x THEN Revoked(c) ELSE c
  <2>1. creds' = {image(c) : c \in creds}
        /\ pairings' = [pairings EXCEPT ![x].revoked = TRUE]
    BY <1>2 DEF RevokePairing
  <2>2. \A c \in creds : /\ image(c).pairing = c.pairing
                         /\ c.pairing # x => image(c) = c
    BY <1>0 DEF Revoked, Credential
  <2> HIDE DEF image
  <2>3. \A q \in Pairings : q # x =>
           pairings'[q] = pairings[q] /\ CredsOf(q)' = CredsOf(q)
    BY <1>0, <2>1, <2>2 DEF CredsOf
  <2> QED BY <2>3
<1>3. ASSUME NEW x \in Pairings, NEW digest \in Digests, NEW t \in BOOLEAN,
             ConsumePairing(x, digest, t)
      PROVE  \A q \in Pairings : Intended[q] # Intended[x] =>
                pairings'[q] = pairings[q] /\ CredsOf(q)' = CredsOf(q)
  <2>1. CASE UNCHANGED storeVars
    BY <2>1 DEF storeVars, CredsOf
  <2>2. CASE ConsumeOutcome(x, digest, t) = "consumed"
    <3> DEFINE new == [ pairing |-> x, node |-> Intended[x], digest |-> digest,
                        active |-> FALSE, revoked |-> FALSE ]
    <3>1. creds' = creds \cup {new} /\ new.pairing = x
          /\ pairings' = [pairings EXCEPT ![x].used = TRUE,
                                          ![x].node = Intended[x]]
      BY <1>3, <2>2 DEF ConsumePairing
    <3> HIDE DEF new
    <3> QED BY <1>0, <3>1 DEF CredsOf
  <2> QED BY <1>3, <2>1, <2>2 DEF ConsumePairing
<1>4. ASSUME NEW x \in Pairings, NEW digest \in Digests,
             AcknowledgePairing(x, digest)
      PROVE  \A q \in Pairings : Intended[q] # Intended[x] =>
                pairings'[q] = pairings[q] /\ CredsOf(q)' = CredsOf(q)
  <2>1. CASE UNCHANGED storeVars
    BY <2>1 DEF storeVars, CredsOf
  <2>2. CASE AckAccepted(x, digest) /\ ~pairings[x].acked
    <3>1. /\ creds' = {RotateCredential(c, x) : c \in creds}
          /\ \A q \in Pairings : Intended[q] # Intended[x] => pairings'[q] = pairings[q]
      BY <1>4, <2>2 DEF AcknowledgePairing
    <3>2. \A c \in creds : RotateCredential(c, x).pairing = c.pairing
      BY <1>0, RotationKeeps
    <3>3. \A c \in creds : Intended[c.pairing] # Intended[x] =>
             RotateCredential(c, x) = c
      BY DEF RotateCredential, StoreInv, CredentialsBound
    <3>4. \A q \in Pairings : Intended[q] # Intended[x] => CredsOf(q)' = CredsOf(q)
      BY <3>1, <3>2, <3>3 DEF CredsOf
    <3> QED BY <3>1, <3>4
  <2> QED BY <1>4, <2>1, <2>2 DEF AcknowledgePairing
<1>5. \A m \in Request : m.pairing \in Pairings /\ m.digest \in Digests
  BY DEF Request
<1>6. CASE UNCHANGED storeVars
  BY <1>6 DEF storeVars
<1> QED BY <1>1, <1>2, <1>3, <1>4, <1>5, <1>6 DEF StoreStep

(* An invocation removes files of its own node only: a file it collects    *)
(* belongs to a record of the node, or is the predecessor of one.          *)
LEMMA ForeignFilesStay ==
    ASSUME IInv, ForeignGone, [Next]_vars, NEW q \in Pairings,
           inv # NoPairing, ~SameBinding(q, inv)
    PROVE  files'[q] = files[q]
<1>0. /\ HostInv /\ files \in [Pairings -> Nat] /\ ledger \in [Pairings -> Record]
  BY DEF IInv, HostInv, HostTypeOK
<1>1. ASSUME NEW x \in Pairings, RemoveFile(x)
      PROVE  x # q
  <2> SUFFICES ASSUME x = q PROVE FALSE
    OBVIOUS
  <2>1. Present(q) /\ pc \in {"gc", "settling"} /\ ~ForeignFiles
    BY <1>1 DEF RemoveFile, Collecting, ForeignGone
  <2>2. PICK c \in Candidates : c[1] = q
    BY <1>1 DEF RemoveFile
  <2>3. ASSUME NEW r \in Pairings, StagedTarget(r), c = <<r, ledger[r].digest>>
        PROVE  FALSE
    <3>1. r = q /\ q \in Recorded
      BY <2>2, <2>3 DEF StagedTarget, Recorded, Deletes
    <3> QED BY <2>1, <3>1 DEF ForeignFiles
  <2>4. ASSUME NEW r \in Pairings, PreviousTarget(r),
               c = <<ledger[r].previous, ledger[r].previousDigest>>
        PROVE  FALSE
    <3>1. ledger[r].previous = q /\ r \in Recorded /\ ledger[r].previous # NoPairing
      BY <2>2, <2>4 DEF PreviousTarget, Recorded
    <3>2. SameBinding(r, q)
      BY <1>0, <3>1 DEF HostInv, DigestsOrdered
    <3>3. ~SameBinding(r, inv)
      BY <3>2 DEF SameBinding
    <3> QED BY <2>1, <3>1, <3>3 DEF ForeignFiles
  <2> QED BY <2>3, <2>4 DEF Candidates
<1>2. CASE WriteCredential
  <2>1. q # inv
    BY DEF SameBinding
  <2> QED BY <1>0, <1>2, <2>1 DEF WriteCredential
<1>3. ASSUME NEW x \in Pairings, RemoveFile(x)
      PROVE  files'[q] = files[q]
  <2>1. x # q
    BY <1>1, <1>3
  <2> QED BY <1>0, <1>3, <2>1 DEF RemoveFile
<1>4. CASE files' = files
  BY <1>4
<1>5. CASE Invocation
  <2>1. \/ files' = files \/ WriteCredential \/ \E x \in Pairings : RemoveFile(x)
    BY <1>5 DEF Invocation, RefuseForeign, PrepareInvocation, Collect,
              AbandonCollection, FinishCollection, RefuseStage,
              ReuseCredential, StageCredential, WriteTemporary,
              RemoveTemporary, ResumeCommitted, MarkRequest, RefuseExpired,
              SendPair, PairRefused, PairAccepted, CommitConfig, MarkCommitted, SendAck,
              AckRefused, AckConfirmed
  <2> QED BY <1>2, <1>3, <1>4, <2>1
<1>6. CASE Operator \/ Clocks \/ Controller \/ Interrupt
           \/ (\E p \in Pairings : Start(p)) \/ UNCHANGED vars
  <2>1. files' = files
    BY <1>6 DEF Operator, Clocks, Issue, Reissue, Withdraw, ControllerLapse,
           WorkerLapse, Controller, HandlePair, HandleAck, HandleStray, workerVars,
           Interrupt, Start, vars
  <2> QED BY <2>1
<1> QED BY <1>5, <1>6 DEF Next

(* No invocation removes or rewrites a credential of another node, and no  *)
(* transaction writes the rows of two nodes.                               *)
THEOREM PairingNodesIndependent == Spec => NodesIndependent
<1>1. Init => ForeignGone
  BY DEF Init, ForeignGone
<1>2. IInv /\ ForeignGone /\ [Next]_vars =>
       [/\ \A q \in Pairings :
             inv # NoPairing /\ ~SameBinding(q, inv) => files'[q] = files[q]
        /\ \A p \in Pairings : pairings'[p] # pairings[p] =>
             \A q \in Pairings :
                pairings'[q] # pairings[q] \/ CredsOf(q)' # CredsOf(q)
                => SameBinding(p, q)]_vars
  <2> SUFFICES ASSUME IInv, ForeignGone, [Next]_vars
               PROVE  /\ \A q \in Pairings :
                            inv # NoPairing /\ ~SameBinding(q, inv) =>
                               files'[q] = files[q]
                      /\ \A p \in Pairings : pairings'[p] # pairings[p] =>
                           \A q \in Pairings :
                             pairings'[q] # pairings[q] \/ CredsOf(q)' # CredsOf(q)
                             => SameBinding(p, q)
    OBVIOUS
  <2>1. StoreInv /\ RequestsOK
    BY DEF IInv, HostInv, HostTypeOK
  <2>2. StoreStep
    BY <2>1, NextIsStoreStep
  <2> QED BY <2>1, <2>2, OneNodeWritten, ForeignFilesStay
<1> QED BY <1>1, <1>2, InitIInv, NextIInv, NextForeign, PTL
        DEF Spec, NodesIndependent
=============================================================================

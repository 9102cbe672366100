----------------------------- MODULE PairWorker -----------------------------
(***************************************************************************)
(* Enrollment of one worker host against the controller of PairingStore:   *)
(* `cyc-worker pair`, pair_with_transport of                               *)
(* crates/cyc-worker/src/runtime.rs, with the credential files, the        *)
(* pairing ledger and the config it keeps on disk.                         *)
(*                                                                         *)
(* A credential file is named after its pairing, so the config names a     *)
(* pairing.  A write of the ledger or the config is one atomic step; a     *)
(* credential is written to a temporary, linked under its name, and the    *)
(* temporary removed.  The pairing lock admits one invocation at a time; a *)
(* crash, a timeout, a server error or a failed file operation ends it at  *)
(* any point and leaves its request on the way: it may still be handled,   *)
(* once, repeatedly or never.                                              *)
(***************************************************************************)
EXTENDS PairingStore

CONSTANTS
    NoPairing,      \* no config, no predecessor, no invocation
    MaxRecords,     \* MAX_PAIRING_LEDGER_RECORDS
    MaxDigests,     \* bound on the credentials the host generates
    MaxInterrupts,  \* bound on the invocations cut short
    Withdrawable,   \* bound: the pairings the operator may revoke or fail
    Lapsing         \* bound: the pairings whose time may run out

ASSUME WorkerAssumption ==
    /\ NoPairing \notin Pairings
    /\ MaxRecords \in Nat /\ MaxDigests \in Nat /\ MaxInterrupts \in Nat
    /\ Withdrawable \subseteq Pairings /\ Lapsing \subseteq Pairings

VARIABLES
    handed,      \* enrollment bundles the operator holds
    closed,      \* bundles that have expired by the worker's clock
    files,       \* credential files: the digest of their content, 0 if absent
    temps,       \* temporaries: the invocation's own (0: none), and leftovers
    ledger,      \* the pairing ledger on disk
    config,      \* the pairing whose credential file the config names
    pc,          \* where the invocation is
    inv,         \* its enrollment
    secret,      \* a credential generated and not yet written
    minted,      \* credentials generated so far
    req,         \* the request the invocation waits on
    reply,       \* its answer
    stray,       \* requests of invocations that ended without an answer
    interrupts   \* invocations cut short

workerVars == <<files, temps, ledger, config, pc, inv, secret, minted, req,
                reply, stray, interrupts>>
vars == <<storeVars, handed, closed, workerVars>>

States == {"Absent", "Staged", "PairRequestUnknown", "PairAccepted",
           "ConfigCommitted", "Acknowledged", "TerminalUnavailable",
           "Superseded", "Expired"}

(* deletes_staged_credential and has_uncertain_remote_state.               *)
Deletes == {"TerminalUnavailable", "Superseded", "Expired"}
Uncertain == {"PairRequestUnknown", "PairAccepted", "ConfigCommitted"}

Record == [ state: States, digest: Nat, previous: Pairings \cup {NoPairing},
            previousDigest: Nat, previousCleanup: BOOLEAN, cleanup: BOOLEAN ]

NoRecord == [ state |-> "Absent", digest |-> 0, previous |-> NoPairing,
              previousDigest |-> 0, previousCleanup |-> FALSE,
              cleanup |-> FALSE ]

Places == {"idle", "prepare", "gc", "stage", "write", "staged", "requesting",
           "pairing", "accepted", "configured", "committed", "acking",
           "settling"}

Request == [ kind: {"pair", "ack"}, pairing: Pairings, digest: Digests,
             early: BOOLEAN ]
NoRequest == [ kind |-> "none" ]

TypeOK ==
    /\ StoreTypeOK
    /\ handed \subseteq Pairings /\ closed \subseteq Pairings
    /\ files \in [Pairings -> Nat]
    /\ temps \in [own : Nat, left : SUBSET Nat]
    /\ ledger \in [Pairings -> Record]
    /\ config \in Pairings \cup {NoPairing}
    /\ pc \in Places /\ inv \in Pairings \cup {NoPairing}
    /\ secret \in Nat /\ minted \in Nat /\ interrupts \in Nat
    /\ req \in Request \cup {NoRequest}
    /\ reply \in {"none", "ok", "unavailable", "mismatch"}
    /\ stray \subseteq Request

Init ==
    /\ StoreInit
    /\ handed = {} /\ closed = {}
    /\ files = [p \in Pairings |-> 0]
    /\ temps = [own |-> 0, left |-> {}]
    /\ ledger = [p \in Pairings |-> NoRecord]
    /\ config = NoPairing /\ pc = "idle" /\ inv = NoPairing
    /\ secret = 0 /\ minted = 0 /\ interrupts = 0
    /\ req = NoRequest /\ reply = "none" /\ stray = {}

Present(p) == files[p] # 0
Recorded == {p \in Pairings : ledger[p].state # "Absent"}

-----------------------------------------------------------------------------
(* The operator and the clocks.                                            *)

(* A new pairing; the response with its bundle may be lost.                *)
Issue(p) ==
    /\ CreatePairing(p)
    /\ handed' \in {handed, handed \cup {p}}
    /\ UNCHANGED <<closed, workerVars>>

(* Repeating a keyed request recovers the bundle of a pending pairing.     *)
Reissue(p) ==
    /\ CanReplay(p)
    /\ handed' = handed \cup {p}
    /\ UNCHANGED <<storeVars, closed, workerVars>>

Withdraw(p) ==
    /\ p \in Withdrawable
    /\ RevokePairing(p) \/ \E code \in FailureCodes : FailPairing(p, code)
    /\ UNCHANGED <<handed, closed, workerVars>>

(* The two clocks pass expires_at independently.                           *)
ControllerLapse(p) ==
    /\ p \in Lapsing /\ Lapse(p)
    /\ UNCHANGED <<handed, closed, workerVars>>

WorkerLapse(p) ==
    /\ p \in Lapsing \cap handed
    /\ closed' = closed \cup {p}
    /\ UNCHANGED <<storeVars, handed, workerVars>>

-----------------------------------------------------------------------------
(* Starting: the lock, the bundle, prepare_pairing_layout and the ledger.  *)

SameBinding(p, q) == Intended[p] = Intended[q]

(* The bundle must not be expired and an existing config must be for the   *)
(* same node.  Replacing the config needs --repair, which the operator     *)
(* passes or not.                                                          *)
Start(p) ==
    /\ pc = "idle"
    /\ p \in handed \ closed
    /\ config # NoPairing => SameBinding(config, p)
    /\ pc' = "prepare" /\ inv' = p
    /\ UNCHANGED <<storeVars, handed, closed, files, ledger, config, secret,
                   minted, req, reply, stray, interrupts, temps>>

(* The invocation gives up or ends: nothing of it is left in memory.       *)
Leave ==
    /\ pc' = "idle" /\ inv' = NoPairing /\ secret' = 0
    /\ req' = NoRequest /\ reply' = "none"

(* Files owned by a record of another node are never touched: the whole    *)
(* invocation is refused.                                                  *)
ForeignFiles ==
    \E q \in Recorded : /\ ~SameBinding(q, inv)
                        /\ \/ Present(q)
                           \/ /\ ledger[q].previous # NoPairing
                              /\ Present(ledger[q].previous)

RefuseForeign ==
    /\ pc = "prepare" /\ ForeignFiles
    /\ Leave
    /\ UNCHANGED <<storeVars, handed, closed, files, ledger, config, minted,
                   stray, interrupts, temps>>

(* prepare_invocation: a staged credential whose request was never sent is *)
(* given up when another enrollment of the node comes along.               *)
GivenUp(q) ==
    /\ SameBinding(q, inv) /\ q # inv /\ q # config
    /\ ledger[q].state = "Staged"

GivenUpAs(q) == IF q \in closed THEN "Expired" ELSE "Superseded"

PrepareInvocation ==
    /\ pc = "prepare" /\ ~ForeignFiles
    /\ ledger' = [q \in Pairings |->
          IF GivenUp(q)
          THEN [ledger[q] EXCEPT !.state = GivenUpAs(q), !.cleanup = TRUE]
          ELSE ledger[q]]
    /\ pc' = "gc"
    /\ UNCHANGED <<storeVars, handed, closed, files, config, inv, secret,
                   minted, req, reply, stray, interrupts, temps>>

-----------------------------------------------------------------------------
(* garbage_collect_pairing_credentials, before staging and after the       *)
(* acknowledgement.                                                        *)

Collecting == pc \in {"gc", "settling"}

(* The invocation's own staged credential is protected the first time.     *)
Guarded == IF pc = "gc" THEN inv ELSE NoPairing

MutStagedTarget(q) ==
    ledger[q].cleanup /\ ledger[q].state \in Deletes /\ q # Guarded

StagedTarget(q) ==
    /\ ledger[q].cleanup /\ ledger[q].state \in Deletes
    /\ q # Guarded /\ q # config

PreviousTarget(q) ==
    /\ ledger[q].previousCleanup
    /\ ledger[q].state \in {"Acknowledged", "Superseded"}
    /\ ledger[q].previous \notin {NoPairing, config}

(* The files to remove, each with the digest its record expects.           *)
Candidates ==
    {<<q, ledger[q].digest>> : q \in {x \in Pairings : StagedTarget(x)}}
    \cup {<<ledger[q].previous, ledger[q].previousDigest>> :
              q \in {x \in Pairings : PreviousTarget(x)}}

(* Every file is verified before the first is removed: two records that    *)
(* expect different content of one file, or content that is not what the   *)
(* record expects, abandon the invocation.                                 *)
ConflictingDigests ==
    \E c, d \in Candidates : c[1] = d[1] /\ c[2] # d[2]

UnverifiedFile == \E c \in Candidates : Present(c[1]) /\ files[c[1]] # c[2]

AbandonCollection ==
    /\ Collecting /\ (ConflictingDigests \/ UnverifiedFile)
    /\ Leave
    /\ UNCHANGED <<storeVars, handed, closed, files, ledger, config, minted,
                   stray, interrupts, temps>>

(* Files are removed one by one.                                           *)
RemoveFile(q) ==
    /\ Collecting /\ ~ConflictingDigests /\ ~UnverifiedFile
    /\ Present(q)
    /\ \E c \in Candidates : c[1] = q
    /\ files' = [files EXCEPT ![q] = 0]
    /\ UNCHANGED <<storeVars, handed, closed, ledger, config, pc, inv,
                   secret, minted, req, reply, stray, interrupts, temps>>

(* Only then are the obligations cleared, and settled records dropped, in  *)
(* one write of the ledger.                                                *)
Cleared(q) ==
    [ledger[q] EXCEPT !.cleanup = @ /\ ~StagedTarget(q),
                      !.previousCleanup = @ /\ ~PreviousTarget(q)]

Retained(q) ==
    \/ q \in {Guarded, config}
    \/ Cleared(q).cleanup \/ Cleared(q).previousCleanup
    \/ ledger[q].state \notin Deletes

FinishCollection ==
    /\ Collecting /\ ~ConflictingDigests
    /\ \A c \in Candidates : ~Present(c[1])
    /\ ledger' = [q \in Pairings |->
                    IF Retained(q) THEN Cleared(q) ELSE NoRecord]
    /\ IF pc = "gc"
       THEN pc' = "stage" /\ UNCHANGED <<inv, secret, req, reply>>
       ELSE Leave
    /\ UNCHANGED <<storeVars, handed, closed, files, config, minted, stray,
                   interrupts, temps>>

-----------------------------------------------------------------------------
(* stage_pairing_credential.                                               *)

LayoutPrevious == IF config = inv THEN NoPairing ELSE config
LayoutPreviousDigest ==
    IF LayoutPrevious = NoPairing THEN 0 ELSE files[LayoutPrevious]

(* A terminal record, a predecessor that changed since the record was      *)
(* made, or a full ledger refuse the enrollment.                           *)
Refused ==
    IF inv \in Recorded
    THEN \/ ledger[inv].state \in Deletes
         \/ /\ config # inv
            /\ \/ ledger[inv].previous # LayoutPrevious
               \/ ledger[inv].previousDigest # LayoutPreviousDigest
    ELSE Cardinality(Recorded) >= MaxRecords

RefuseStage ==
    /\ pc = "stage" /\ Refused
    /\ Leave
    /\ UNCHANGED <<storeVars, handed, closed, files, ledger, config, minted,
                   stray, interrupts, temps>>

(* A credential is generated only for a record nothing was sent for.       *)
Regenerable == inv \notin Recorded \/ ledger[inv].state = "Staged"

StagedRecord(digest) ==
    IF inv \in Recorded
    THEN [ledger[inv] EXCEPT
            !.digest = digest,
            !.state = IF config = inv /\ @ # "Acknowledged"
                      THEN "ConfigCommitted" ELSE @]
    ELSE [ NoRecord EXCEPT
            !.state = IF config = inv THEN "ConfigCommitted" ELSE "Staged",
            !.digest = digest, !.previous = LayoutPrevious,
            !.previousDigest = LayoutPreviousDigest ]

(* The file of an earlier attempt is used again.                           *)
ReuseCredential ==
    /\ pc = "stage" /\ ~Refused /\ Present(inv)
    /\ inv \in Recorded => ledger[inv].digest = files[inv]
    /\ ledger' = [ledger EXCEPT ![inv] = StagedRecord(files[inv])]
    /\ pc' = "staged"
    /\ UNCHANGED <<storeVars, handed, closed, files, config, inv, secret,
                   minted, req, reply, stray, interrupts, temps>>

(* Mutant: sending before the credential is written.                       *)
Mut2StageCredential ==
    /\ pc = "stage" /\ ~Refused /\ ~Present(inv)
    /\ Regenerable
    /\ minted < MaxDigests
    /\ minted' = minted + 1 /\ secret' = minted + 1
    /\ ledger' = [ledger EXCEPT ![inv] = StagedRecord(minted + 1)]
    /\ pc' = "staged"
    /\ UNCHANGED <<storeVars, handed, closed, files, config, inv, req, reply,
                   stray, interrupts, temps>>

(* A new one: its digest reaches the ledger before the file appears.       *)
StageCredential ==
    /\ pc = "stage" /\ ~Refused /\ ~Present(inv)
    /\ Regenerable
    /\ minted < MaxDigests
    /\ minted' = minted + 1 /\ secret' = minted + 1
    /\ ledger' = [ledger EXCEPT ![inv] = StagedRecord(minted + 1)]
    /\ pc' = "write"
    /\ UNCHANGED <<storeVars, handed, closed, files, config, inv, req, reply,
                   stray, interrupts, temps>>

(* persist_protected_file: the secret goes to a temporary of a random name, *)
(* ...                                                                     *)
WriteTemporary ==
    /\ pc = "write" /\ temps.own = 0
    /\ temps' = [temps EXCEPT !.own = secret]
    /\ UNCHANGED <<storeVars, handed, closed, files, ledger, config, pc, inv,
                   secret, minted, req, reply, stray, interrupts>>

(* ... is linked under the name of the credential, ...                     *)
WriteCredential ==
    /\ pc = "write" /\ temps.own # 0
    /\ files' = [files EXCEPT ![inv] = secret]
    /\ secret' = 0
    /\ pc' = "staged"
    /\ UNCHANGED <<storeVars, handed, closed, ledger, config, inv, minted,
                   req, reply, stray, interrupts, temps>>

(* ... and the temporary is removed.                                       *)
RemoveTemporary ==
    /\ pc = "staged" /\ temps.own # 0
    /\ temps' = [temps EXCEPT !.own = 0]
    /\ UNCHANGED <<storeVars, handed, closed, files, ledger, config, pc, inv,
                   secret, minted, req, reply, stray, interrupts>>

-----------------------------------------------------------------------------
(* pair_with_transport after staging.                                      *)

(* PairingCredentialLedger::transition of the invocation's record.         *)
Transition(state) ==
    ledger' = [ledger EXCEPT
        ![inv].state = state,
        ![inv].cleanup = @ \/ state \in Deletes]

(* A committed config only needs its acknowledgement.                      *)
ResumeCommitted ==
    /\ pc = "staged" /\ temps.own = 0 /\ config = inv
    /\ pc' = "committed"
    /\ UNCHANGED <<storeVars, handed, closed, files, ledger, config, inv,
                   secret, minted, req, reply, stray, interrupts, temps>>

(* The ledger says a request may be out before it is.                      *)
MarkRequest ==
    /\ pc = "staged" /\ temps.own = 0 /\ config # inv
    /\ Transition("PairRequestUnknown")
    /\ pc' = "requesting"
    /\ UNCHANGED <<storeVars, handed, closed, files, config, inv, secret,
                   minted, req, reply, stray, interrupts, temps>>

Send(kind) ==
    req' = [ kind |-> kind, pairing |-> inv, digest |-> files[inv],
             early |-> inv \notin lapsed ]

(* WorkerClient::pair refuses an expired bundle once more: nothing is sent *)
(* and the record keeps saying that something may have been.               *)
RefuseExpired ==
    /\ pc = "requesting" /\ inv \in closed
    /\ Leave
    /\ UNCHANGED <<storeVars, handed, closed, files, ledger, config, minted,
                   stray, interrupts, temps>>

SendPair ==
    /\ pc = "requesting" /\ inv \notin closed
    /\ Send("pair")
    /\ pc' = "pairing"
    /\ UNCHANGED <<storeVars, handed, closed, files, ledger, config, inv,
                   secret, minted, reply, stray, interrupts, temps>>

(* Codes of pairing_terminal_code end the enrollment on this host.         *)
PairRefused ==
    /\ pc = "pairing" /\ reply \in {"unavailable", "mismatch"}
    /\ Transition(IF reply = "mismatch" THEN "Superseded"
                  ELSE "TerminalUnavailable")
    /\ Leave
    /\ UNCHANGED <<storeVars, handed, closed, files, config, minted, stray,
                   interrupts, temps>>

PairAccepted ==
    /\ pc = "pairing" /\ reply = "ok"
    /\ Transition("PairAccepted")
    /\ pc' = "accepted" /\ req' = NoRequest /\ reply' = "none"
    /\ UNCHANGED <<storeVars, handed, closed, files, config, inv, secret,
                   minted, stray, interrupts, temps>>

CommitConfig ==
    /\ pc = "accepted"
    /\ config' = inv
    /\ pc' = "configured"
    /\ UNCHANGED <<storeVars, handed, closed, files, ledger, inv, secret,
                   minted, req, reply, stray, interrupts, temps>>

MarkCommitted ==
    /\ pc = "configured"
    /\ Transition("ConfigCommitted")
    /\ pc' = "committed"
    /\ UNCHANGED <<storeVars, handed, closed, files, config, inv, secret,
                   minted, req, reply, stray, interrupts, temps>>

SendAck ==
    /\ pc = "committed"
    /\ Send("ack")
    /\ pc' = "acking"
    /\ UNCHANGED <<storeVars, handed, closed, files, ledger, config, inv,
                   secret, minted, reply, stray, interrupts, temps>>

(* mark_terminal_ack.                                                      *)
AckRefused ==
    /\ pc = "acking" /\ reply = "unavailable"
    /\ ledger' = [ledger EXCEPT
          ![inv].state = "TerminalUnavailable", ![inv].cleanup = TRUE,
          ![inv].previousCleanup = ledger[inv].previous # NoPairing]
    /\ Leave
    /\ UNCHANGED <<storeVars, handed, closed, files, config, minted, stray,
                   interrupts, temps>>

(* acknowledge_and_supersede: every other record of the node gives way.    *)
Supersede(q) ==
    IF q = inv
    THEN [ledger[q] EXCEPT
            !.state = "Acknowledged", !.cleanup = FALSE,
            !.previousCleanup = ledger[q].previous # NoPairing]
    ELSE IF q \in Recorded /\ SameBinding(q, inv)
    THEN [ledger[q] EXCEPT !.state = "Superseded", !.cleanup = TRUE]
    ELSE ledger[q]

AckConfirmed ==
    /\ pc = "acking" /\ reply = "ok"
    /\ ledger' = [q \in Pairings |-> Supersede(q)]
    /\ pc' = "settling" /\ req' = NoRequest /\ reply' = "none"
    /\ UNCHANGED <<storeVars, handed, closed, files, config, inv, secret,
                   minted, stray, interrupts, temps>>

(* The temporaries when the invocation is cut off within the write.        *)
Abandoned == temps.left \cup ({temps.own} \ {0})

(* The process dies, a request times out, the server errs or a file        *)
(* operation fails.  A write that fails removes its temporary if it can; a *)
(* process that dies leaves it, and nothing looks for it again.            *)
Interrupt ==
    /\ pc # "idle" /\ interrupts < MaxInterrupts
    /\ interrupts' = interrupts + 1
    /\ stray' = IF req # NoRequest /\ reply = "none"
                THEN stray \cup {req} ELSE stray
    /\ \E swept \in BOOLEAN :
          temps' = [own |-> 0, left |-> IF swept THEN temps.left
                                        ELSE Abandoned]
    /\ Leave
    /\ UNCHANGED <<storeVars, handed, closed, files, ledger, config, minted>>

-----------------------------------------------------------------------------
(* The controller's handlers, pair and pair_ack.  The check of the request *)
(* head refuses nothing that the transaction would accept.                 *)

(* The clock may have been read before the pairing lapsed.                 *)
ClockReadings(m) ==
    IF m.pairing \notin lapsed THEN {TRUE}
    ELSE IF m.early THEN {TRUE, FALSE} ELSE {FALSE}

PairAnswer(outcome) ==
    IF outcome \in {"consumed", "replayed"} THEN "ok" ELSE outcome

HandlePair ==
    /\ req # NoRequest /\ req.kind = "pair" /\ reply = "none"
    /\ \E inTime \in ClockReadings(req) :
          /\ ConsumePairing(req.pairing, req.digest, inTime)
          /\ reply' = PairAnswer(ConsumeOutcome(req.pairing, req.digest,
                                                inTime))
    /\ UNCHANGED <<handed, closed, files, ledger, config, pc, inv, secret,
                   minted, req, stray, interrupts, temps>>

HandleAck ==
    /\ req # NoRequest /\ req.kind = "ack" /\ reply = "none"
    /\ AcknowledgePairing(req.pairing, req.digest)
    /\ reply' = IF AckAccepted(req.pairing, req.digest)
                THEN "ok" ELSE "unavailable"
    /\ UNCHANGED <<handed, closed, files, ledger, config, pc, inv, secret,
                   minted, req, stray, interrupts, temps>>

(* A request nobody waits for any more.                                    *)
HandleStray(m) ==
    /\ \/ /\ m.kind = "pair"
          /\ \E inTime \in ClockReadings(m) :
                ConsumePairing(m.pairing, m.digest, inTime)
       \/ m.kind = "ack" /\ AcknowledgePairing(m.pairing, m.digest)
    /\ UNCHANGED <<handed, closed, workerVars>>

-----------------------------------------------------------------------------
Operator == \E p \in Pairings : Issue(p) \/ Reissue(p) \/ Withdraw(p)

Clocks == \E p \in Pairings : ControllerLapse(p) \/ WorkerLapse(p)

Collect ==
    AbandonCollection \/ FinishCollection \/ \E q \in Pairings : RemoveFile(q)

Invocation ==
    \/ RefuseForeign \/ PrepareInvocation \/ Collect
    \/ RefuseStage \/ ReuseCredential \/ StageCredential \/ WriteTemporary
    \/ WriteCredential \/ RemoveTemporary
    \/ ResumeCommitted \/ MarkRequest \/ RefuseExpired \/ SendPair \/ PairRefused
    \/ PairAccepted \/ CommitConfig \/ MarkCommitted \/ SendAck \/ AckRefused
    \/ AckConfirmed

Controller == HandlePair \/ HandleAck \/ \E m \in stray : HandleStray(m)

Next ==
    \/ Operator \/ Clocks \/ Invocation \/ Controller \/ Interrupt
    \/ \E p \in Pairings : Start(p)

Spec == Init /\ [][Next]_vars

(* An invocation that is not cut short proceeds, the controller answers,   *)
(* and the operator repeats the command.                                   *)
Fairness ==
    /\ WF_vars(Invocation)
    /\ WF_vars(HandlePair \/ HandleAck)
    /\ \A p \in Pairings : SF_vars(Start(p))

FairSpec == Spec /\ Fairness

-----------------------------------------------------------------------------
(* Properties of the controller's tables.                                  *)

(* However pairings of one node are consumed, acknowledged, revoked and    *)
(* failed, every row stays in one of the shapes classify_pairing_phase     *)
(* accepts: the status route never answers InvalidPairingFailureState.     *)
PhaseDefined == \A p \in Pairings : Phase(p) # "Invalid"

(* authenticate_worker_tx accepts at most one credential per node: "readers *)
(* observe either the old identity or the new one".                        *)
OneIdentity ==
    \A c, d \in creds :
        Authenticates(c) /\ Authenticates(d) /\ c.node = d.node => c = d

(* Phases only move forward; a failed, revoked or superseded pairing never *)
(* becomes usable.  Expired is the exception: a request whose clock was    *)
(* read in time may still consume.                                         *)
After(phase) ==
    CASE phase = "Pending" -> {"Consumed", "Failed", "Expired", "Revoked"}
      [] phase = "Expired" -> {"Consumed", "Revoked"}
      [] phase = "Consumed" -> {"Ready", "Revoked"}
      [] phase \in {"Ready", "Failed"} -> {"Revoked"}
      [] phase \in {"Revoked", "Invalid"} -> {}

PhaseOrder ==
    [][storeVars' # storeVars =>
          \A p \in Pairings : \/ Phase(p)' = Phase(p)
                              \/ Phase(p)' \in After(Phase(p))]_vars

-----------------------------------------------------------------------------
(* Properties of the worker's files.                                       *)

(* A credential file has a ledger record with its digest, through garbage  *)
(* collection, repairs and retries (stage_pairing_credential).             *)
FilesOwned ==
    \A p \in Pairings : Present(p) =>
        /\ p \in Recorded
        /\ ledger[p].digest = files[p]

(* The one secret no record owns is in the temporary of an invocation that *)
(* was cut off while it wrote (persist_protected_file): one for each.      *)
LeftoversFew == Cardinality(temps.left) <= interrupts

SecretsOwned == FilesOwned /\ LeftoversFew

(* The credential the config names is never collected and is the very      *)
(* credential the controller bound to that pairing.                        *)
ConfigUsable ==
    config # NoPairing =>
        /\ Present(config)
        /\ \E c \in CredsOf(config) : c.digest = files[config]

(* A credential the controller would authenticate is still on the host,    *)
(* even when a late acknowledgement activated one the host moved past.     *)
IdentityKept ==
    \A c \in creds : Authenticates(c) => files[c.pairing] = c.digest

(* The host and the controller keep each other's credentials: no file of a *)
(* credential without a ledger record, none the config or the controller   *)
(* uses without its file, no secret elsewhere but in the temporary of a    *)
(* write that was cut off (persist_protected_file in security.rs;          *)
(* stage_pairing_credential, garbage_collect_pairing_credentials and       *)
(* acknowledge_and_supersede in runtime.rs; acknowledge_pairing in         *)
(* store.rs).                                                              *)
CredentialsKept == SecretsOwned /\ ConfigUsable /\ IdentityKept

(* "Unknown or possibly accepted requests ... remain protected"            *)
(* (docs/managed-worker-protocol.md): while the ledger holds a request of  *)
(* unknown fate, the credential it carried is on disk, unchanged, so a     *)
(* retry sends the same digest.                                            *)
UncertainKept ==
    \A p \in Pairings :
        ledger[p].state \in Uncertain =>
            files[p] # 0 /\ files[p] = ledger[p].digest

(* "A different controller/node namespace is never garbage collected as a  *)
(* side effect of the current invocation" (prepare_invocation), and no     *)
(* transaction of the controller writes the rows of two nodes.             *)
NodesIndependent ==
    [][/\ \A q \in Pairings :
             inv # NoPairing /\ ~SameBinding(q, inv) => files'[q] = files[q]
       /\ \A p \in Pairings : pairings'[p] # pairings[p] =>
             \A q \in Pairings :
                pairings'[q] # pairings[q] \/ CredsOf(q)' # CredsOf(q)
                => SameBinding(p, q)]_vars

(* The config moved to a pairing other than the one this enrollment was to *)
(* replace.                                                                *)
Overtaken(p) ==
    p \in Recorded /\ config \notin {NoPairing, p, ledger[p].previous}

(* The host gave it up for another enrollment of the node: before the      *)
(* controller knew of it (prepare_invocation), or when the one the config  *)
(* names was acknowledged again (acknowledge_and_supersede).               *)
Displaced(p) ==
    /\ ledger[p].state = "Superseded"
    /\ pairings[p].used => config \notin {NoPairing, p}

(* The bound of the instance: an enrollment the controller refuses may be  *)
(* repeated for ever, with a new credential each time.                     *)
Exhausted == minted = MaxDigests

(* Repeating an enrollment completes it, whatever was lost and wherever    *)
(* the earlier attempts were cut short: both sides agree, unless the       *)
(* pairing was withdrawn, its time ran out, or another enrollment of the   *)
(* node came in between: it moved the config, after which                  *)
(* stage_pairing_credential refuses this one (runtime.rs 954-962), or the  *)
(* host gave this one up for it.                                           *)
Enrolled(p) ==
    config = p /\ ledger[p].state = "Acknowledged" /\ Phase(p) = "Ready"

RetryCompletes ==
    \A p \in Pairings :
        p \in handed ~> \/ Enrolled(p) \/ p \in closed \cup lapsed
                        \/ Phase(p) \in {"Failed", "Revoked"}
                        \/ Overtaken(p) \/ Displaced(p) \/ Exhausted

-----------------------------------------------------------------------------
(* What comments and documents say and the code does not do: README,       *)
(* section 5.                                                              *)

(* "A crash can leave a ledger entry without a file, never an unowned      *)
(* secret file without a ledger entry" (stage_pairing_credential).         *)
NoSecretUnowned == temps.left = {}

(* "A verification/removal failure leaves durable cleanupPending state for *)
(* retry" (docs/managed-worker-protocol.md): so what the ledger expects of *)
(* a file it wants removed must come true, or no retry gets past it.       *)
CleanupPossible == Collecting => ~ConflictingDigests /\ ~UnverifiedFile

(* "A successful controller ACK transaction revokes every other            *)
(* credential/pending enrollment for this stable node"                     *)
(* (acknowledge_and_supersede): whatever the host then supersedes and      *)
(* deletes is revoked at the controller.                                   *)
SupersededRevoked ==
    pc = "settling" =>
        \A q \in Recorded \ {inv} :
            SameBinding(q, inv) => pairings[q].revoked
=============================================================================

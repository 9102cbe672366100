---------------------------- MODULE PairingStore ----------------------------
(***************************************************************************)
(* The controller's half of worker enrollment: the pairings and            *)
(* worker_credentials tables of crates/cyc-controller/src/store.rs and the *)
(* transactions on them.  A pairing is an invitation for one node; a       *)
(* worker consumes it with the digest of a credential it generated, which  *)
(* stays staged until the worker acknowledges that it installed it.        *)
(*                                                                         *)
(* A pairing stands for its id and its code: only the holder of the        *)
(* enrollment bundle presents either.  A credential stands for its digest. *)
(* The transactions are immediate SQLite transactions, one step each.      *)
(***************************************************************************)
EXTENDS Naturals, FiniteSets

CONSTANTS
    Pairings,       \* pairings the operator may create
    Nodes,          \* stable node identities
    Intended,       \* the node each pairing is created for (immutable)
    Keyed,          \* pairings created under an operation key
    FailureCodes,   \* PairingFailureCodeV1
    NoNode          \* node_id IS NULL

ASSUME PairingAssumption ==
    /\ Intended \in [Pairings -> Nodes]
    /\ Keyed \subseteq Pairings
    /\ NoNode \notin Nodes
    /\ "none" \notin FailureCodes

VARIABLES
    pairings,   \* the pairings table
    creds,      \* the worker_credentials table
    known,      \* nodes that have a row
    lapsed      \* pairings whose expires_at the controller's clock has passed

storeVars == <<pairings, creds, known, lapsed>>

Digests == Nat \ {0}

PairingRow ==
    [ issued: BOOLEAN, used: BOOLEAN, node: Nodes \cup {NoNode},
      acked: BOOLEAN, revoked: BOOLEAN, failure: FailureCodes \cup {"none"} ]

Credential ==
    [ pairing: Pairings, node: Nodes, digest: Digests,
      active: BOOLEAN, revoked: BOOLEAN ]

StoreTypeOK ==
    /\ pairings \in [Pairings -> PairingRow]
    /\ creds \subseteq Credential
    /\ known \subseteq Nodes
    /\ lapsed \subseteq Pairings

StoreInit ==
    /\ pairings = [p \in Pairings |->
          [ issued |-> FALSE, used |-> FALSE, node |-> NoNode,
            acked |-> FALSE, revoked |-> FALSE, failure |-> "none" ]]
    /\ creds = {}
    /\ known = {}
    /\ lapsed = {}

CredsOf(p) == {c \in creds : c.pairing = p}

-----------------------------------------------------------------------------
(* classify_pairing_phase: the row and its credentials must fit together   *)
(* in one of four shapes; anything else is a corrupt database.             *)

CountOf(p, active, revoked) ==
    Cardinality({c \in CredsOf(p) : /\ c.node = pairings[p].node
                                    /\ c.active = active
                                    /\ c.revoked = revoked})

(* Exactly one credential, bound to the intended node.                     *)
ExactBinding(p, active) ==
    /\ pairings[p].failure = "none" /\ pairings[p].used
    /\ pairings[p].acked = active
    /\ pairings[p].node = Intended[p] /\ Intended[p] \in known
    /\ Cardinality(CredsOf(p)) = 1
    /\ CountOf(p, active, pairings[p].revoked) = 1

CleanRow(p) ==
    /\ ~pairings[p].used /\ ~pairings[p].acked
    /\ pairings[p].node = NoNode /\ CredsOf(p) = {}

Phase(p) ==
    LET r == pairings[p]
        shaped == CleanRow(p) \/ ExactBinding(p, FALSE) \/ ExactBinding(p, TRUE)
    IN  CASE ~shaped                 -> "Invalid"
          [] shaped /\ r.revoked     -> "Revoked"
          [] ExactBinding(p, TRUE) /\ ~r.revoked  -> "Ready"
          [] ExactBinding(p, FALSE) /\ ~r.revoked -> "Consumed"
          [] CleanRow(p) /\ ~r.revoked ->
                IF r.failure # "none" THEN "Failed"
                ELSE IF p \in lapsed THEN "Expired" ELSE "Pending"

-----------------------------------------------------------------------------
(* Operator requests.                                                      *)

(* create_pairing_for, and create_pairing_idempotent with a new key.       *)
CreatePairing(p) ==
    /\ ~pairings[p].issued
    /\ pairings' = [pairings EXCEPT ![p].issued = TRUE]
    /\ UNCHANGED <<creds, known, lapsed>>

(* create_pairing_idempotent with a known key: the same bundle again, but  *)
(* only while nothing else happened to the pairing.                        *)
CanReplay(p) == p \in Keyed /\ pairings[p].issued /\ Phase(p) = "Pending"

(* Recording a failure of an expired pairing too.                          *)
MutFailPairing(p, code) ==
    /\ pairings[p].issued /\ Phase(p) \in {"Pending", "Expired"}
    /\ pairings' = [pairings EXCEPT ![p].failure = code]
    /\ UNCHANGED <<creds, known, lapsed>>

(* fail_pairing ends a pending pairing.  A replay with the stored code     *)
(* succeeds and writes nothing; every other phase is refused.              *)
FailPairing(p, code) ==
    /\ pairings[p].issued /\ Phase(p) = "Pending"
    /\ pairings' = [pairings EXCEPT ![p].failure = code]
    /\ UNCHANGED <<creds, known, lapsed>>

Revoked(c) == [c EXCEPT !.revoked = TRUE]

(* revoke_pairing ends the pairing and its credentials whatever its phase. *)
RevokePairing(p) ==
    /\ pairings[p].issued
    /\ pairings' = [pairings EXCEPT ![p].revoked = TRUE]
    /\ creds' = {IF c.pairing = p THEN Revoked(c) ELSE c : c \in creds}
    /\ UNCHANGED <<known, lapsed>>

(* The controller's clock passes expires_at.                               *)
Lapse(p) ==
    /\ pairings[p].issued
    /\ lapsed' = lapsed \cup {p}
    /\ UNCHANGED <<pairings, creds, known>>

-----------------------------------------------------------------------------
(* consume_pairing.  The clock is read before the transaction starts, so   *)
(* inTime may still hold for a pairing that has lapsed since.              *)

Usable(p, inTime) ==
    /\ pairings[p].issued /\ ~pairings[p].revoked
    /\ inTime /\ pairings[p].failure = "none"

(* A second request for a consumed pairing is refused outright.            *)
MutConsumeOutcome(p, digest, inTime) ==
    IF ~Usable(p, inTime) \/ ~CleanRow(p) THEN "unavailable"
    ELSE IF \E c \in creds : c.digest = digest THEN "mismatch"
    ELSE "consumed"

ConsumeOutcome(p, digest, inTime) ==
    LET r == pairings[p]
        bound == /\ ~r.acked /\ r.node = Intended[p] /\ r.node \in known
                 /\ Cardinality(CredsOf(p)) = 1
        exact == \E c \in CredsOf(p) : /\ c.node = Intended[p]
                                       /\ c.digest = digest
                                       /\ ~c.active /\ ~c.revoked
    IN  CASE ~Usable(p, inTime)                             -> "unavailable"
          [] Usable(p, inTime) /\ r.used /\ ~bound          -> "unavailable"
          [] Usable(p, inTime) /\ r.used /\ bound /\ exact  -> "replayed"
          [] Usable(p, inTime) /\ r.used /\ bound /\ ~exact -> "mismatch"
          [] Usable(p, inTime) /\ ~r.used ->
                IF ~CleanRow(p) THEN "unavailable"
                ELSE IF \E c \in creds : c.digest = digest THEN "mismatch"
                ELSE "consumed"

ConsumePairing(p, digest, inTime) ==
    IF ConsumeOutcome(p, digest, inTime) = "consumed"
    THEN /\ pairings' = [pairings EXCEPT ![p].used = TRUE,
                                         ![p].node = Intended[p]]
         /\ known' = known \cup {Intended[p]}
         /\ creds' = creds \cup
               {[ pairing |-> p, node |-> Intended[p], digest |-> digest,
                  active |-> FALSE, revoked |-> FALSE ]}
         /\ UNCHANGED lapsed
    ELSE UNCHANGED storeVars

-----------------------------------------------------------------------------
(* acknowledge_pairing.                                                    *)

(* The one credential of a consumed, unrevoked pairing, staged before the  *)
(* acknowledgement and active after it.  Expiry no longer matters.         *)
Acknowledgeable(c) ==
    LET r == pairings[c.pairing] IN
    /\ ~c.revoked /\ ~r.revoked /\ r.used /\ r.failure = "none"
    /\ r.node = c.node /\ Intended[c.pairing] = c.node /\ c.node \in known
    /\ r.acked = c.active
    /\ CredsOf(c.pairing) = {c}

AckAccepted(p, digest) ==
    \E c \in CredsOf(p) : c.digest = digest /\ Acknowledgeable(c)

(* One transaction: every other credential of the node is revoked, this    *)
(* one activated, and every other pairing for the node revoked.            *)
RotateCredential(c, p) ==
    IF c.pairing = p THEN [c EXCEPT !.active = TRUE]
    ELSE IF c.node = Intended[p] THEN Revoked(c) ELSE c

(* Activation that leaves the older identity of the node alone.            *)
MutAcknowledgePairing(p, digest) ==
    IF AckAccepted(p, digest) /\ ~pairings[p].acked
    THEN /\ creds' = {IF c.pairing = p THEN [c EXCEPT !.active = TRUE] ELSE c :
                         c \in creds}
         /\ pairings' = [pairings EXCEPT ![p].acked = TRUE]
         /\ UNCHANGED <<known, lapsed>>
    ELSE UNCHANGED storeVars

AcknowledgePairing(p, digest) ==
    IF AckAccepted(p, digest) /\ ~pairings[p].acked
    THEN /\ creds' = {RotateCredential(c, p) : c \in creds}
         /\ pairings' = [q \in Pairings |->
               IF q = p THEN [pairings[q] EXCEPT !.acked = TRUE]
               ELSE IF pairings[q].issued /\ Intended[q] = Intended[p]
               THEN [pairings[q] EXCEPT !.revoked = TRUE]
               ELSE pairings[q]]
         /\ UNCHANGED <<known, lapsed>>
    ELSE UNCHANGED storeVars

-----------------------------------------------------------------------------
(* authenticate_worker_tx: what the rest of the API accepts as a worker.   *)
Authenticates(c) == c.active /\ Acknowledgeable(c)
=============================================================================

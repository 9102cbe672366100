--------------------------- MODULE ComputerRecord ---------------------------
(* The durable record of one computer being provisioned, and what the      *)
(* journal accepts: cyc-provision/src/model.rs and store.rs.               *)
(*                                                                         *)
(* Text, endpoints, configurations and inventories matter to the journal   *)
(* only through the check they fail, so an input carries the name of its   *)
(* defect ("none" for a sound one). Identities are small numbers, 0 for    *)
(* None; a timestamp is kept only where the order of two of them is        *)
(* checked.                                                                *)
EXTENDS Naturals, Sequences, FiniteSets

CONSTANTS
    Passwords,    \* SSH secrets a user can type
    HostKeys,     \* public keys a host can present
    Methods,      \* SSH authentication methods in use
    InputDefects, \* what can be wrong with a request or an inventory
    MaxCycle,     \* bound on provisioning cycles
    MaxPairing    \* bound on pairing identities

\* No key pinned yet, and no secret held: values no host or user can produce.
NoKey == "no-key"
NoSecret == "no-secret"

ASSUME RecordAssumption ==
    /\ Methods \subseteq {"password", "agent", "private_key"}
    /\ "none" \notin InputDefects
    /\ MaxCycle \in Nat /\ MaxPairing \in Nat \ {0}
    /\ NoKey \notin HostKeys /\ NoSecret \notin Passwords

NoComputer == [id |-> "none"]

Steps == << "Draft", "SshConnecting", "HostKeyPending", "Authenticated", "Discovering",
            "CredentialStored", "KitStaged", "WorkerInstalled", "EnrollmentIssued", "Paired",
            "ServiceEnabled", "HeartbeatSeen", "SmokeCheck", "Ready" >>
StepSet == {Steps[i] : i \in DOMAIN Steps}
Rank(step) == CHOOSE i \in DOMAIN Steps : Steps[i] = step
AtLeast(step, checkpoint) == Rank(step) >= Rank(checkpoint)

Intents == {"Continue", "Resume", "Retry", "Rollback", "Remove"}
CredentialStates == {"Pending", "SessionOnly", "Stored", "Forgotten"}

\* A failure keeps the step it stopped at; "" is no failure.
AuthRejections == {"SSH_AUTH_REJECTED", "SSH_PRIVATE_KEY_REJECTED"}
FailureCodes == AuthRejections
    \cup {"HOST_KEY_CHANGED", "IO", "TERMINAL", "JOB_PROGRESS_REGRESSED"}

Record ==
    [id : {"computer"}, rev : Nat \ {0}, cycle : 0..MaxCycle, legacy : BOOLEAN,
     step : StepSet, code : FailureCodes \cup {""}, retryable : BOOLEAN,
     intent : Intents, torn : BOOLEAN, method : Methods, remember : BOOLEAN,
     pairing : 0..MaxPairing, paired : BOOLEAN, key : HostKeys \cup {NoKey},
     approved : BOOLEAN, inventory : {"absent", "none"} \cup InputDefects,
     cred : CredentialStates, ref : BOOLEAN, beat : BOOLEAN,
     bound : 0..(MaxCycle + 1), smoke : {"absent", "before", "after"}]

Failed(r) == r.code # ""

\* validate_text, the endpoint, the authentication policy and the configuration
\* of a new computer: each refuses the input whose defect it looks for.
TextValid(in) == in.defect # "text"
EndpointValid(in) == TextValid(in) /\ in.defect # "endpoint"
DurableKeyPath(in) == in.method = "private_key" => in.defect # "key_path"
PrivateKeyUsable(in) == in.method = "private_key" => in.defect # "key_file"
PolicyValid(in) == DurableKeyPath(in) /\ PrivateKeyUsable(in)
ResourcesValid(in) == in.defect # "resources"
WorkspaceValid(in) == in.defect # "workspace"
ConfigurationValid(in) ==
    in.defect # "instance" /\ WorkspaceValid(in) /\ ResourcesValid(in)
NewComputerValid(in) ==
    /\ EndpointValid(in)
    /\ PolicyValid(in)
    /\ in.remember => in.method = "password"
    /\ ConfigurationValid(in)

\* What a discovery may return: inventory bounds, GPU entries.
InventoryValid(inv) == inv \notin {"absent", "inventory"}

\* ComputerRecord::new_with_identity.
NewRecord(in) ==
    [id |-> "computer", rev |-> 1, cycle |-> 0, legacy |-> FALSE, step |-> "Draft",
     code |-> "", retryable |-> FALSE, intent |-> "Continue", torn |-> FALSE,
     method |-> in.method, remember |-> in.remember, pairing |-> 0, paired |-> FALSE,
     key |-> NoKey, approved |-> FALSE, inventory |-> "absent", cred |-> "Pending",
     ref |-> FALSE, beat |-> FALSE, bound |-> 0, smoke |-> "absent"]

\* The deterministic smoke job of a cycle: 0 is no binding.
SmokeJob(cycle) == cycle + 1

\* validate_smoke_binding: this cycle's job, on this computer's own node.
SmokeBindingValid(r, bound) == bound = SmokeJob(r.cycle) /\ r.paired

\* ComputerRecord::validate, part by part.
AuthenticationConsistent(r) ==
    r.method # "password" => ~r.remember /\ ~r.ref /\ r.cred # "Stored"
TimestampsOrdered(r) == r.smoke # "before"
TeardownConsistent(r) == r.torn => r.intent \in {"Rollback", "Remove"}
ReferenceConsistent(r) == r.ref <=> r.cred = "Stored"
HostKeyCheckpoint(r) ==
    /\ AtLeast(r.step, "HostKeyPending") => r.key # NoKey
    /\ AtLeast(r.step, "Authenticated") => r.approved
CredentialCheckpoint(r) ==
    /\ AtLeast(r.step, "CredentialStored") =>
            InventoryValid(r.inventory) /\ r.cred \in {"Stored", "SessionOnly", "Forgotten"}
    /\ r.cred = "Forgotten" => r.step = "Ready" /\ ~Failed(r)
PairingCheckpoint(r) ==
    /\ AtLeast(r.step, "EnrollmentIssued") => r.pairing # 0
    /\ AtLeast(r.step, "Paired") => r.paired
    /\ AtLeast(r.step, "HeartbeatSeen") => r.beat
SmokeCheckpoint(r) ==
    IF r.legacy THEN r.bound = 0
    ELSE /\ r.bound # 0 <=> AtLeast(r.step, "SmokeCheck")
         /\ r.bound # 0 => SmokeBindingValid(r, r.bound)
         /\ r.smoke # "absent" => AtLeast(r.step, "SmokeCheck")
ReadyCheckpoint(r) == r.step = "Ready" => r.smoke # "absent"
IntentValid(r) ==
    /\ r.intent = "Retry" => Failed(r) /\ r.retryable
    /\ r.intent = "Resume" => ~Failed(r) /\ r.step # "Ready"

Valid(r) ==
    /\ AuthenticationConsistent(r) /\ TimestampsOrdered(r) /\ TeardownConsistent(r)
    /\ ReferenceConsistent(r) /\ HostKeyCheckpoint(r) /\ CredentialCheckpoint(r)
    /\ PairingCheckpoint(r) /\ SmokeCheckpoint(r) /\ ReadyCheckpoint(r) /\ IntentValid(r)

\* ProvisioningStore::save_cas: the stored row must still carry the revision the
\* caller read, and the successor must validate; otherwise nothing is written.
SaveAccepted(stored, r) ==
    /\ stored # NoComputer
    /\ stored.rev = r.rev
    /\ Valid([r EXCEPT !.rev = @ + 1])
Saved(stored, r) == IF SaveAccepted(stored, r) THEN [r EXCEPT !.rev = @ + 1] ELSE stored
\* delete_cas: a delete conditional on the revision alone.
DeleteAccepted(stored, rev) == stored # NoComputer /\ stored.rev = rev
\* load_record and parse_record, behind load_expected: the row is returned only
\* at the revision the caller names.
LoadExpected(stored, rev) == stored # NoComputer /\ stored.rev = rev /\ Valid(stored)

\* The journal's records written by a release without smoke bindings.
LegacyRecord(step, key) ==
    [NewRecord([method |-> "password", remember |-> FALSE]) EXCEPT
        !.legacy = TRUE, !.step = step, !.pairing = 1, !.paired = TRUE, !.key = key,
        !.approved = TRUE, !.inventory = "none", !.cred = "SessionOnly", !.beat = TRUE,
        !.smoke = IF step = "Ready" THEN "after" ELSE "absent"]
LegacyRecords == {LegacyRecord(s, k) : s \in {"SmokeCheck", "Ready"}, k \in HostKeys}
=============================================================================

---------------------------- MODULE SshTransport ----------------------------
(* The SSH boundary of the provisioning driver: which errors each operation *)
(* of cyc-ssh/src/lib.rs can end with, and what ssh_driver.rs and           *)
(* discovery.rs make of them. "IO" stands for the codes a retry may repair, *)
(* "TERMINAL" for those it may not; the codes the engine tells apart keep   *)
(* their names.                                                             *)
EXTENDS Naturals

\* connect_tcp, and the handshake that reads the host key.
TcpErrors == {"NoResolvedAddress", "Io"}
HostKeyErrors == {"HostKeyUnavailable", "UnsupportedHostKeyAlgorithm"}
HandshakeErrors == TcpErrors \cup HostKeyErrors \cup {"Protocol"}

\* authenticate_after_host_key: the whole pinned key is compared before any
\* authentication runs.
HostKeyPinned(actual, pinned) == actual = pinned

\* connect_password, connect_agent, connect_private_key: what a server that
\* rejects the credential, or the local side of it, is reported as.
PasswordRejection == "AuthenticationRejected"
AgentErrors == {"AgentUnavailable", "AgentAuthenticationFailed", "AgentAuthenticationRejected"}
PrivateKeyRejection == "PrivateKeyAuthenticationRejected"
RejectionOf(method) ==
    CASE method = "password" -> PasswordRejection
      [] method = "agent" -> "AgentAuthenticationRejected"
      [] method = "private_key" -> PrivateKeyRejection
\* What an authentication that the server never decided is reported as.
BreakOf(method) ==
    CASE method = "password" -> "Authentication"
      [] method = "agent" -> "AgentAuthenticationFailed"
      [] method = "private_key" -> "PrivateKeyAuthenticationFailed"

\* exec_fixed: both streams are drained in turn (read_channel_output_interleaved)
\* under one output bound and one inactivity timeout.
OutputErrors == {"OutputLimitExceeded", "CommandOutputTimedOut"}
ExecErrors == OutputErrors \cup {"Io", "Protocol"}
\* create_dir accepts a directory that is already there and nothing else.
CreateDirErrors == {"RemotePathNotDirectory", "Protocol"}
UploadErrors == {"Io", "Protocol"}
DownloadErrors == {"OutputLimitExceeded", "Io", "Protocol"}
RemoveErrors == {"Protocol"}

\* map_ssh_error.
MapSshError(e) ==
    CASE e \in {"Authentication", "AuthenticationRejected"} -> "SSH_AUTH_REJECTED"
      [] e \in {"PrivateKeyAuthenticationFailed", "PrivateKeyAuthenticationRejected"}
            -> "SSH_PRIVATE_KEY_REJECTED"
      [] e = "HostKeyMismatch" -> "HOST_KEY_CHANGED"
      [] e \in {"Io", "Protocol", "CommandOutputTimedOut", "HostKeyUnavailable"} \cup AgentErrors
            -> "IO"
      [] e \in {"NoResolvedAddress", "UnsupportedHostKeyAlgorithm", "OutputLimitExceeded",
                "RemotePathNotDirectory"} -> "TERMINAL"
Codes(errors) == {MapSshError(e) : e \in errors}

\* upload_and_verify reads the file back; a difference may be retried.
VerifiedUploadCodes == Codes(UploadErrors \cup DownloadErrors) \cup {"IO"}
\* A kit or a discovery script goes into the operation's own directories.
StagingCodes == Codes(CreateDirErrors) \cup VerifiedUploadCodes

\* run_lifecycle: a non-zero exit may be retried, except for the containment that
\* macOS lacks.
ExitCodes(platform) == IF platform = "macos" THEN {"IO", "TERMINAL"} ELSE {"IO"}
LifecycleCodes(platform) == Codes(ExecErrors) \cup ExitCodes(platform)
\* validate_lifecycle_receipt: the last JSON object of the output, known keys only,
\* naming the action and its success.
ReceiptDefects == {"empty", "not_utf8", "no_object", "unknown_key", "other_action", "not_succeeded"}
ReceiptCodes == {"TERMINAL" : d \in ReceiptDefects}

\* parse_discovery.
DiscoveryDefects ==
    {"size", "encoding", "header", "duplicate", "gpu", "tool", "missing", "number",
     "other_platform", "architecture", "inventory"}
DiscoveryEnvelope(d) == d \notin {"size", "encoding", "header"}
DiscoveryGpu(d) == d # "gpu"
DiscoveryTool(d) == d # "tool"
DiscoveryFields(d) == d \notin {"duplicate", "missing", "number"}
DiscoveryPlatform(d) == d \notin {"other_platform", "architecture"}
DiscoveryParses(d) ==
    /\ DiscoveryEnvelope(d) /\ DiscoveryGpu(d) /\ DiscoveryTool(d)
    /\ DiscoveryFields(d) /\ DiscoveryPlatform(d) /\ d # "inventory"
DiscoveryCodes ==
    StagingCodes \cup Codes(ExecErrors) \cup {"IO"}
    \cup {"TERMINAL" : d \in {x \in DiscoveryDefects : ~DiscoveryParses(x)}}

\* The kinds of failure an HTTP exchange with the controller ends in: no answer
\* or a server error may be retried, a refusal or an unexpected answer may not.
HttpStatuses == {"unavailable", "unauthorized", "not_found", "conflict", "limited", "server",
                 "rejected", "undecodable"}
StatusCode(s) == IF s \in {"unavailable", "conflict", "limited", "server"} THEN "IO" ELSE "TERMINAL"
HttpCodes == {StatusCode(s) : s \in HttpStatuses}

\* sync_node_config: three attempts at a compare-and-swap on the node's
\* configuration; a node without one yet may be retried, a receipt that does not
\* show the written configuration may not.
SyncOutcomes == {"synced", "conflict", "not_ready", "receipt"}
SyncCode(s) == IF s \in {"conflict", "not_ready"} THEN "IO" ELSE "TERMINAL"
SyncCodes == {SyncCode(s) : s \in SyncOutcomes \ {"synced"}} \cup HttpCodes
=============================================================================

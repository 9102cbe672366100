----------------------------- MODULE RunObjects -----------------------------
(***************************************************************************)
(* What a run leaves at the controller: its source, its output and its     *)
(* artifacts.                                                              *)
(*                                                                         *)
(* On the worker one child process at a time writes stdout and stderr.     *)
(* Two reader threads drain the pipes, take their share of one log budget  *)
(* by compare-and-swap, and pass the retained bytes through a bounded      *)
(* channel to the main task, which uploads them chunk by chunk: three      *)
(* attempts each, over a network that loses requests and answers and       *)
(* delivers a request after its sender has given up on it.  The artifacts  *)
(* follow the same way, and at the end the main task submits a completion  *)
(* whose evidence the controller compares with what it has stored.         *)
(*                                                                         *)
(* A byte of output is its position in its stream, a chunk the interval    *)
(* [from, from + len) of positions, and a digest the interval it is the    *)
(* digest of; a file's content is a version number.  The state versions,   *)
(* the heartbeat and the retries of the completion itself are RunSession.  *)
(***************************************************************************)
EXTENDS Naturals, Sequences, FiniteSets

CONSTANTS
    Budget,      \* limits.max_log_bytes, shared by the two streams
    ChunkQuota,  \* MAX_RUN_LOG_CHUNKS
    Channel,     \* capacity of the channel between readers and main task
    MaxOutput,   \* bound: bytes the processes write to one stream
    Steps,       \* number of steps of the job
    Files,       \* files the artifact patterns match
    Attempts,    \* tries of one upload; three in the code
    Cancels,     \* what the heartbeat and the watchdogs may ask for
    Sources      \* the kinds of source a job may have

ASSUME RunObjectsAssumption ==
    /\ {Budget, ChunkQuota, Channel, MaxOutput, Steps, Attempts}
         \subseteq Nat
    /\ Channel > 0 /\ Attempts > 0
    /\ IsFiniteSet(Files)
    /\ Sources \subseteq {"git", "snapshot"}
    /\ Cancels \subseteq {"cancel_requested", "lease_lost", "timed_out"}

VARIABLES
    log,   \* the worker's output path: pipes, readers, budget, channel
    sink,  \* HttpLogSink: bytes and chunks acknowledged, per stream
    call,  \* the upload the main task is waiting for
    net,   \* upload requests on the wire
    ctl,   \* the controller: rows, object files, snapshot, lease, verdict
    job    \* the main task: execute_assignment

obVars == <<log, sink, call, net, ctl, job>>

Stream == {"stdout", "stderr"}
NoView == Budget + 1
NoCall == [kind |-> "none"]

\* The bytes a sequence of chunks holds.
Bytes(chunks) == LET total[i \in 0 .. Len(chunks)] ==
                       IF i = 0 THEN 0 ELSE total[i - 1] + chunks[i].len
                 IN  total[Len(chunks)]

Smaller(a, b) == IF a < b THEN a ELSE b

ObInit ==
    /\ log = [budget |-> Budget, queue |-> <<>>,
              wrote |-> [s \in Stream |-> 0], read |-> [s \in Stream |-> 0],
              size |-> [s \in Stream |-> 0],
              view |-> [s \in Stream |-> NoView],
              held |-> [s \in Stream |-> <<>>],
              cut |-> [s \in Stream |-> FALSE],
              open |-> [s \in Stream |-> FALSE]]
    /\ sink = [s \in Stream |-> [bytes |-> 0, chunks |-> 0]]
    /\ call = NoCall
    /\ net = {}
    /\ ctl = [rows |-> [s \in Stream |-> <<>>], objects |-> {},
              arts |-> [f \in Files |-> 0], snapshot |-> "absent",
              lease |-> TRUE, verdict |-> [state |-> "none"]]
    /\ \E source \in Sources :
         job = [source |-> source, pc |-> "assigned", verified |-> FALSE,
                left |-> Steps, child |-> "none", reason |-> "none",
                cancel |-> "none", uploadError |-> FALSE,
                file |-> [f \in Files |-> 1], found |-> {}, sent |-> {},
                state |-> "none", why |-> "none", ordered |-> TRUE]

-----------------------------------------------------------------------------
(* The child process and the two readers.                                  *)

Alive == job.child = "running"

Writes(s) ==
    /\ Alive
    /\ log.wrote[s] < MaxOutput
    /\ log' = [log EXCEPT !.wrote[s] = @ + 1]
    /\ UNCHANGED <<sink, call, net, ctl, job>>

\* The monitor sees the root's exit, with status zero or another, ...
ChildExits(status) ==
    /\ Alive
    /\ job' = [job EXCEPT !.child = status, !.reason = "exited"]
    /\ UNCHANGED <<log, sink, call, net, ctl>>

\* ... or it sees the cancellation flag or the deadline and ends the tree.
Terminates ==
    /\ Alive
    /\ \/ /\ job.cancel /= "none"
          /\ job' = [job EXCEPT !.child = "killed", !.reason = job.cancel]
       \/ /\ job.cancel = "none"
          /\ job' = [job EXCEPT !.child = "killed", !.reason = "timed_out"]
    /\ UNCHANGED <<log, sink, call, net, ctl>>

\* The monitor cannot prove the tree empty: the assignment ends at once with
\* no completion, and the worker keeps its guard.
Unproven ==
    /\ Alive
    /\ call = NoCall
    /\ job' = [job EXCEPT !.child = "unproven", !.pc = "parked"]
    /\ UNCHANGED <<log, sink, call, net, ctl>>

\* A reader takes what the pipe holds and loads the budget ...
Reads(s) ==
    /\ log.open[s]
    /\ log.view[s] = NoView /\ log.held[s] = <<>>
    /\ \E n \in 1 .. (log.wrote[s] - log.read[s]) :
         log' = [log EXCEPT !.size[s] = n, !.view[s] = log.budget]
    /\ UNCHANGED <<sink, call, net, ctl, job>>

\* ... and takes its share if the budget is still the one it loaded;
\* otherwise it tries again with the new value.
Retained(s) == Smaller(log.view[s], log.size[s])

\* What the budget could not take is lost, and the stream marked.
MutCutAfter(s) == log.cut[s] \/ Retained(s) = 0

CutAfter(s) == log.cut[s] \/ Retained(s) < log.size[s]

SwapFits(s) == log.budget = log.view[s]

Takes(s) ==
    /\ log.view[s] /= NoView
    /\ IF SwapFits(s)
       THEN log' = [log EXCEPT
              !.budget = log.view[s] - Retained(s),
              !.cut[s] = CutAfter(s),
              !.held[s] = IF Retained(s) = 0 THEN <<>>
                          ELSE <<[stream |-> s, from |-> log.read[s],
                                  len |-> Retained(s)]>>,
              !.read[s] = @ + log.size[s],
              !.size[s] = 0, !.view[s] = NoView]
       ELSE log' = [log EXCEPT !.view[s] = log.budget]
    /\ UNCHANGED <<sink, call, net, ctl, job>>

\* The retained bytes go to the local file and into the channel, which makes
\* the reader wait while it is full.
Enqueues(s) ==
    /\ log.held[s] /= <<>>
    /\ Len(log.queue) < Channel
    /\ log' = [log EXCEPT !.queue = @ \o log.held[s], !.held[s] = <<>>]
    /\ UNCHANGED <<sink, call, net, ctl, job>>

Ends(s) ==
    /\ log.open[s] /\ ~Alive
    /\ log.read[s] = log.wrote[s]
    /\ log.view[s] = NoView /\ log.held[s] = <<>>
    /\ log' = [log EXCEPT !.open[s] = FALSE]
    /\ UNCHANGED <<sink, call, net, ctl, job>>

Output == \E s \in Stream : Writes(s) \/ Reads(s) \/ Takes(s)
                              \/ Enqueues(s) \/ Ends(s)

-----------------------------------------------------------------------------
(* Uploads: at most three attempts of the same request.                    *)

Waiting == call.kind /= "none" /\ call.reply = "none"

\* The request of the current attempt.
Wire(c, attempt) == [what |-> c.what, attempt |-> attempt]

StartCall(kind, what) ==
    /\ call' = [kind |-> kind, what |-> what, attempt |-> 1, reply |-> "none"]
    /\ net' = net \cup {[what |-> what, attempt |-> 1]}

\* The main task takes the next chunk: at the offset acknowledged so far, or
\* not at all once an upload has failed.
MutDiscards == FALSE

Discards == job.uploadError

Receives ==
    /\ log.queue /= <<>> /\ call = NoCall
    /\ job.pc \in {"source", "step"}
    /\ log' = [log EXCEPT !.queue = Tail(@)]
    /\ IF Discards
       THEN UNCHANGED <<call, net>>
       ELSE LET c == Head(log.queue)
            IN  StartCall("log", [stream |-> c.stream, from |-> c.from,
                                  len |-> c.len, offset |-> sink[c.stream].bytes])
    /\ UNCHANGED <<sink, ctl, job>>

\* A timeout, a connection error or a server error: the next attempt, while
\* the request of this one may be lost or may arrive later.
Retries ==
    /\ Waiting /\ call.attempt < Attempts
    /\ call' = [call EXCEPT !.attempt = @ + 1]
    /\ \E late \in BOOLEAN :
         net' = (IF late THEN net ELSE net \ {Wire(call, call.attempt)})
                  \cup {Wire(call, call.attempt + 1)}
    /\ UNCHANGED <<log, sink, ctl, job>>

StateFor(reason) == IF reason \in {"cancel_requested", "lease_lost"}
                    THEN "cancelled" ELSE "failed"

\* The reason of a collection that failed: the flag, or its own.
CollectionReason == IF job.cancel = "none"
                    THEN "artifact_verification_failed" ELSE job.cancel

\* The collection or an upload of an artifact fails: the reason is taken from
\* the flag here, and the state, by Settles, from a second look at the flag.
CollectionFails == job' = [job EXCEPT !.pc = "failing",
                                      !.why = CollectionReason]

\* What failing the call means: for a chunk the flag that stops the child,
\* for an artifact the end of the collection.
CallFails ==
    IF call.kind = "log"
    THEN job' = [job EXCEPT !.cancel = "transport_failure",
                            !.uploadError = TRUE]
    ELSE CollectionFails

GivesUp ==
    /\ Waiting /\ call.attempt = Attempts
    /\ call' = NoCall
    /\ \E late \in BOOLEAN :
         net' = IF late THEN net ELSE net \ {Wire(call, call.attempt)}
    /\ CallFails
    /\ UNCHANGED <<log, sink, ctl>>

Refused ==
    /\ call.kind /= "none" /\ call.reply = "refused"
    /\ call' = NoCall
    /\ CallFails
    /\ UNCHANGED <<log, sink, net, ctl>>

\* The receipt names the chunk that was sent: the sink moves on.
MutAdvanced(s, len) == [bytes |-> sink[s].bytes + len,
                        chunks |-> sink[s].chunks]

Advanced(s, len) == [bytes |-> sink[s].bytes + len,
                     chunks |-> sink[s].chunks + 1]

LogAcknowledged ==
    /\ call.kind = "log" /\ call.reply = "stored"
    /\ sink' = [sink EXCEPT ![call.what.stream] =
                  Advanced(call.what.stream, call.what.len)]
    /\ call' = NoCall
    /\ UNCHANGED <<log, net, ctl, job>>

ArtifactAcknowledged ==
    /\ call.kind = "artifact" /\ call.reply = "stored"
    /\ job' = [job EXCEPT !.sent = @ \cup {call.what}]
    /\ call' = NoCall
    /\ UNCHANGED <<log, sink, net, ctl>>

-----------------------------------------------------------------------------
(* The controller.                                                         *)

\* expire_leases and authorize_run_tx: the lease lives and the run is not
\* terminal.
Admits == ctl.lease /\ ctl.verdict.state = "none"

RowAt(s, offset) ==
    {i \in 1 .. Len(ctl.rows[s]) :
        Bytes(SubSeq(ctl.rows[s], 1, i - 1)) = offset}

Same(row, what) == row.from = what.from /\ row.len = what.len

LogQuotaLeft(what) ==
    /\ Bytes(ctl.rows["stdout"]) + Bytes(ctl.rows["stderr"]) + what.len
         <= Budget
    /\ Len(ctl.rows["stdout"]) + Len(ctl.rows["stderr"]) < ChunkQuota

\* The chunk continues the stream where it ends.
Contiguous(what) == what.offset = Bytes(ctl.rows[what.stream])

\* put_log_chunk: the same chunk again is acknowledged, another one at the
\* same offset refused; a new one is written to its object, then to its row.
LogVerdict(what) ==
    LET at == RowAt(what.stream, what.offset)
    IN  CASE ~Admits -> "refused"
          [] Admits /\ at /= {} ->
               IF \E i \in at : Same(ctl.rows[what.stream][i], what)
               THEN "known" ELSE "refused"
          [] Admits /\ at = {} ->
               IF LogQuotaLeft(what) /\ Contiguous(what)
               THEN "new" ELSE "refused"

PutLogChunk(what) ==
    [ctl EXCEPT !.objects = @ \cup {what},
                !.rows[what.stream] = Append(@, [from |-> what.from,
                                                 len |-> what.len])]

\* put_artifact, likewise under the artifact's id.
ArtifactVerdict(what) ==
    CASE ~Admits -> "refused"
      [] Admits /\ ctl.arts[what.file] = what.version -> "known"
      [] Admits /\ ctl.arts[what.file] \notin {0, what.version} -> "refused"
      [] Admits /\ ctl.arts[what.file] = 0 -> "new"

PutArtifact(what) ==
    [ctl EXCEPT !.objects = @ \cup {what}, !.arts[what.file] = what.version]

Verdict(what) == IF "stream" \in DOMAIN what THEN LogVerdict(what)
                 ELSE ArtifactVerdict(what)

Put(what) == IF "stream" \in DOMAIN what THEN PutLogChunk(what)
             ELSE PutArtifact(what)

\* A request reaches the controller; its answer reaches the worker or is
\* lost.  A request whose sender has moved on has nobody to answer.
Serves(request) ==
    /\ request \in net
    /\ net' = net \ {request}
    /\ LET verdict == Verdict(request.what)
           waits == Waiting /\ Wire(call, call.attempt) = request
       IN  /\ ctl' = IF verdict = "new" THEN Put(request.what) ELSE ctl
           /\ \/ UNCHANGED call
              \/ /\ waits
                 /\ call' = [call EXCEPT !.reply =
                      IF verdict = "refused" THEN "refused" ELSE "stored"]
    /\ UNCHANGED <<log, sink, job>>

\* The controller stops after the object file is written and before the row
\* is committed.
StopsMidway(request) ==
    /\ request \in net
    /\ Verdict(request.what) = "new"
    /\ net' = net \ {request}
    /\ ctl' = [ctl EXCEPT !.objects = @ \cup {request.what}]
    /\ UNCHANGED <<log, sink, call, job>>

LeaseEnds ==
    /\ Admits
    /\ ctl' = [ctl EXCEPT !.lease = FALSE]
    /\ UNCHANGED <<log, sink, call, net, job>>

\* put_snapshot: the archive is verified, linked into place as a whole, then
\* entered in the table; a stop between the two leaves the object alone, and
\* the next upload finds it.  After the download nothing looks at it again.
PutSnapshot ==
    /\ job.source = "snapshot" /\ job.pc = "assigned"
    /\ \/ /\ ctl.snapshot = "absent"
          /\ ctl' = [ctl EXCEPT !.snapshot = "object"]
       \/ /\ ctl.snapshot = "object"
          /\ ctl' = [ctl EXCEPT !.snapshot = "stored"]
    /\ UNCHANGED <<log, sink, call, net, job>>

\* The stored archive decays; verify_snapshot_object finds out.
SnapshotDamaged ==
    /\ ctl.snapshot = "stored" /\ job.pc = "assigned"
    /\ ctl' = [ctl EXCEPT !.snapshot = "damaged"]
    /\ UNCHANGED <<log, sink, call, net, job>>

-----------------------------------------------------------------------------
(* The main task.                                                          *)

Move(to) == job' = [job EXCEPT !.pc = to]

\* The completion is made out: its state, the reason of the termination, the
\* steps that have evidence, all but the last left, and the times, which a
\* wall clock that was set back meanwhile leaves out of order.
FinishAs(state, why, left) ==
    \E ordered \in BOOLEAN :
      job' = [job EXCEPT !.pc = "complete", !.state = state, !.why = why,
                         !.left = left, !.ordered = ordered]

Launches(phase) ==
    /\ job' = [job EXCEPT !.pc = phase, !.child = "running",
                          !.reason = "none", !.uploadError = FALSE]
    /\ log' = [log EXCEPT !.open = [s \in Stream |-> TRUE]]

\* A git source runs git; a snapshot is downloaded first, and the download is
\* answered with the archive only while the stored object is intact.
StartsSource ==
    /\ job.pc = "assigned"
    /\ \/ job.source = "git" /\ Launches("source")
       \/ /\ job.source = "snapshot"
          /\ Admits /\ ctl.snapshot = "stored"
          /\ Move("extract")
          /\ UNCHANGED log
    /\ UNCHANGED <<sink, call, net, ctl>>

\* A snapshot that cannot be prepared is a failure whatever was asked for; a
\* git source that ends early reports the flag first, then how git ended.
SourceReason(reason) ==
    CASE job.source = "snapshot" -> "source_preparation_failed"
      [] job.source = "git" /\ job.cancel /= "none" -> job.cancel
      [] job.source = "git" /\ job.cancel = "none" ->
           IF reason \in {"none", "exited"} THEN "source_preparation_failed"
           ELSE reason

SourceFailure(reason) == FinishAs(StateFor(SourceReason(reason)),
                                  SourceReason(reason), job.left)

SourceFails ==
    /\ job.pc \in {"assigned", "extract"}
    /\ SourceFailure("none")
    /\ UNCHANGED <<log, sink, call, net, ctl>>

\* The archive has the assigned digest, every entry is a plain file or
\* directory, and the tree is moved into place as a whole.
Extracts ==
    /\ job.pc = "extract"
    /\ job' = [job EXCEPT !.pc = "steps", !.verified = TRUE]
    /\ UNCHANGED <<log, sink, call, net, ctl>>

\* run_process returns: the monitor has a result, both readers have reached
\* the end, and the channel is drained.
Drained ==
    /\ job.child \in {"zero", "nonzero", "killed"}
    /\ call = NoCall
    /\ log.queue = <<>>
    /\ \A s \in Stream : ~log.open[s]

Reason == IF job.uploadError THEN "transport_failure" ELSE job.reason

Succeeded == Reason = "exited" /\ job.child = "zero"

\* The revision git resolved is read from the log git wrote, so it is known
\* only while stdout is not truncated; it must be the requested one.
SourceEnds ==
    /\ job.pc = "source" /\ Drained
    /\ \/ /\ Succeeded /\ ~log.cut["stdout"]
          /\ job' = [job EXCEPT !.pc = "steps", !.verified = TRUE]
       \/ SourceFailure(Reason)
    /\ UNCHANGED <<log, sink, call, net, ctl>>

\* The flag is looked at before each step.
NextStep ==
    /\ job.pc = "steps"
    /\ \/ /\ job.cancel /= "none"
          /\ FinishAs(StateFor(job.cancel), job.cancel, job.left)
          /\ UNCHANGED log
       \/ /\ job.cancel = "none" /\ job.left > 0
          /\ Launches("step")
       \/ /\ job.cancel = "none" /\ job.left = 0
          /\ Move("collect") /\ UNCHANGED log
    /\ UNCHANGED <<sink, call, net, ctl>>

\* The deadline of the job has passed, or the script or the working directory
\* of the step cannot be used; only then has the step evidence of its own.
StepRefused ==
    /\ job.pc = "steps" /\ job.left > 0 /\ job.cancel = "none"
    /\ \/ FinishAs("failed", "timed_out", job.left)
       \/ FinishAs("failed", "execution_failed", job.left - 1)
    /\ UNCHANGED <<log, sink, call, net, ctl>>

StepReason == IF Reason = "exited" THEN "execution_failed" ELSE Reason

\* A step has evidence however it ends.
StepEnds ==
    /\ job.pc = "step" /\ Drained
    /\ IF Succeeded
       THEN job' = [job EXCEPT !.pc = "steps", !.left = @ - 1]
       ELSE FinishAs(StateFor(StepReason), StepReason, job.left - 1)
    /\ UNCHANGED <<log, sink, call, net, ctl>>

\* The matching files are listed with their digests.
Collects ==
    /\ job.pc = "collect"
    /\ job' = [job EXCEPT !.pc = "artifact",
                 !.found = {[file |-> f, version |-> job.file[f]] :
                               f \in Files}]
    /\ UNCHANGED <<log, sink, call, net, ctl>>

CollectFails ==
    /\ job.pc = "collect"
    /\ CollectionFails
    /\ UNCHANGED <<log, sink, call, net, ctl>>

\* Something on the host rewrites a file after its digest was taken.
FileChanges(f) ==
    /\ job.pc = "artifact" /\ job.file[f] = 1
    /\ job' = [job EXCEPT !.file[f] = 2]
    /\ UNCHANGED <<log, sink, call, net, ctl>>

\* The file is read again and must still have the listed digest.
StillSame(a) == job.file[a.file] = a.version

UploadsArtifact ==
    /\ job.pc = "artifact" /\ call = NoCall
    /\ \E a \in job.found \ job.sent :
         IF job.cancel = "none" /\ StillSame(a)
         THEN StartCall("artifact", a) /\ UNCHANGED job
         ELSE CollectionFails /\ UNCHANGED <<call, net>>
    /\ UNCHANGED <<log, sink, ctl>>

\* The state of a failed collection, from the flag as it is now.
Settles ==
    /\ job.pc = "failing"
    /\ FinishAs(StateFor(job.cancel), job.why, job.left)
    /\ UNCHANGED <<log, sink, call, net, ctl>>

ArtifactsDone ==
    /\ job.pc = "artifact" /\ call = NoCall
    /\ job.found = job.sent
    /\ FinishAs("succeeded", "exited", job.left)
    /\ UNCHANGED <<log, sink, call, net, ctl>>

\* The flag is set by the heartbeat and the watchdogs; these set it only once,
\* an answer that asks for cancellation replaces what is there.
Cancelled(reason) ==
    /\ job.pc \notin {"complete", "done", "parked"}
    /\ job.cancel = "none" \/ reason = "cancel_requested"
    /\ job' = [job EXCEPT !.cancel = reason]
    /\ UNCHANGED <<log, sink, call, net, ctl>>

-----------------------------------------------------------------------------
(* The completion and what the controller compares it with.                *)

Evidence == [state |-> job.state, why |-> job.why, verified |-> job.verified,
             steps |-> Steps - job.left, streams |-> sink,
             cut |-> log.cut, arts |-> job.sent]

StreamMatches(s) ==
    /\ Bytes(ctl.rows[s]) = sink[s].bytes
    /\ Len(ctl.rows[s]) = sink[s].chunks
    /\ \A i \in 1 .. Len(ctl.rows[s]) :
         \E o \in ctl.objects :
           /\ "stream" \in DOMAIN o /\ o.stream = s
           /\ o.offset = Bytes(SubSeq(ctl.rows[s], 1, i - 1))
           /\ Same(ctl.rows[s][i], o)

ManifestMatches ==
    LET rows == {a \in [file : Files, version : 1 .. 2] :
                    ctl.arts[a.file] = a.version}
    IN  rows = job.sent /\ rows \subseteq ctl.objects

\* A source that was not resolved goes only with some reasons, and not with
\* success.
SourceMatches ==
    job.verified \/ /\ job.state /= "succeeded"
                    /\ job.why \in {"source_preparation_failed",
                                    "cancel_requested", "lease_lost",
                                    "timed_out", "transport_failure"}

\* Success means every step and an ordinary exit, no step goes without its
\* source, the times follow one another, and a cancelled run says who ended it.
StepsMatch ==
    /\ job.state = "succeeded" => job.left = 0 /\ job.why = "exited"
    /\ ~job.verified => job.left = Steps
    /\ job.ordered
    /\ job.state = "cancelled" =>
         job.why \in {"cancel_requested", "timed_out", "lease_lost"}

EvidenceHolds ==
    /\ SourceMatches
    /\ StepsMatch
    /\ \A s \in Stream : StreamMatches(s)
    /\ ManifestMatches

Completes ==
    /\ job.pc = "complete"
    /\ IF Admits /\ EvidenceHolds
       THEN /\ ctl' = [ctl EXCEPT !.verdict = Evidence]
            /\ Move("done")
       ELSE UNCHANGED ctl /\ Move("parked")
    /\ UNCHANGED <<log, sink, call, net>>

-----------------------------------------------------------------------------
Child == \E status \in {"zero", "nonzero"} : ChildExits(status)

Uploads == Receives \/ Retries \/ GivesUp \/ Refused
             \/ LogAcknowledged \/ ArtifactAcknowledged

Store == \/ \E request \in net : Serves(request) \/ StopsMidway(request)
         \/ LeaseEnds \/ PutSnapshot \/ SnapshotDamaged

MainTask == \/ StartsSource \/ SourceFails \/ Extracts \/ SourceEnds
            \/ NextStep \/ StepRefused \/ StepEnds
            \/ Collects \/ CollectFails \/ UploadsArtifact \/ ArtifactsDone
            \/ Settles
            \/ Completes

CancelRequests == \E reason \in Cancels : Cancelled(reason)

ObNext == \/ Output \/ Child \/ Terminates \/ Unproven \/ Uploads \/ Store
          \/ MainTask \/ CancelRequests
          \/ \E f \in Files : FileChanges(f)

ObSpec == ObInit /\ [][ObNext]_obVars

-----------------------------------------------------------------------------
(* Properties.                                                             *)

\* The log the controller holds for a stream is, whatever was lost, retried
\* or delivered late, the beginning of what the processes wrote: each chunk
\* starts where the one before it ended, in the stream as in the store
\* (put_log_chunk, store.rs 3281-3378, and HttpLogSink, http.rs 725-823);
\* the readers together keep no more than the run's budget (LogBudget,
\* process.rs 260-310).
LogFaithful ==
    /\ \A s \in Stream : \A i \in 1 .. Len(ctl.rows[s]) :
         ctl.rows[s][i].from = Bytes(SubSeq(ctl.rows[s], 1, i - 1))
    /\ \A s \in Stream : Bytes(ctl.rows[s]) <= log.read[s]
    /\ Bytes(ctl.rows["stdout"]) + Bytes(ctl.rows["stderr"])
         + Bytes(log.queue) + Bytes(log.held["stdout"])
         + Bytes(log.held["stderr"]) + log.budget <= Budget

\* A run the controller records as succeeded has all of its output there,
\* except on a stream its evidence calls truncated, and every artifact that
\* was found, with the content it was found with (execute_assignment,
\* runtime.rs 1613-1846; validate_managed_completion, store.rs 4324-4374).
SuccessComplete ==
    ctl.verdict.state = "succeeded" =>
      /\ \A s \in Stream :
           Bytes(ctl.rows[s]) = log.wrote[s] \/ ctl.verdict.cut[s]
      /\ \A a \in job.found : ctl.arts[a.file] = a.version
      /\ ctl.verdict.verified

\* An upload that is stored and not acknowledged.
Unacknowledged ==
    \/ \E s \in Stream : Bytes(ctl.rows[s]) > sink[s].bytes
    \/ \E f \in Files : ctl.arts[f] /= 0 /\ \A a \in job.sent : a.file /= f

\* The collection failed by itself and the cancellation fell between the two
\* looks at the flag: a cancelled run with the reason of a failed one.
CancelledMeanwhile ==
    job.state = "cancelled" /\ job.why = "artifact_verification_failed"

\* While the lease lives, the controller refuses the evidence of a worker
\* that proved its processes gone only for one of three reasons: it holds an
\* upload none of whose answers reached the worker, the cancellation fell
\* between the two looks at the flag (runtime.rs 1795-1797), or a clock was
\* set back (submit_completion, runtime.rs 2081-2149; RunCompletion::validate,
\* worker.rs 1007-1080; validate_managed_completion, store.rs 4324-4607).
RefusalExplained ==
    job.pc = "complete" /\ Admits /\ ~EvidenceHolds =>
      Unacknowledged \/ CancelledMeanwhile \/ ~job.ordered

\* Stronger than the code (README, section 5): a worker that proved its
\* processes gone can report its outcome whatever happened to its uploads.
OutcomeReportable == job.pc = "complete" /\ Admits => EvidenceHolds
=============================================================================

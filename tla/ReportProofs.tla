---------------------------- MODULE ReportProofs ----------------------------
(* What a worker reports and what it leaves at the controller.                *)
(*                                                                            *)
(* The reports: InventoryAgrees for any inventories and any number of boots,  *)
(* reports and pairings.  The objects of a run: LogFaithful, SuccessComplete  *)
(* and RefusalExplained for any budget, quota, channel, output, steps, files  *)
(* and attempts.                                                              *)
EXTENDS ReportStream, RunObjects, Integers, WellFoundedInduction, TLAPS

-----------------------------------------------------------------------------
(* The inductive invariant.                                                   *)

\* Boot generations only grow: the running daemon has the newest one, and no
\* report claims a later one.
GenerationsBounded ==
    /\ daemon.up => daemon.generation = counter
    /\ \A r \in wire : r.generation <= counter

\* A boot has one inventory: it is all that its reports and its publication
\* state can hold.
OneInventory ==
    daemon.up =>
      /\ daemon.accepted \in {NoInventory, daemon.inventory}
      /\ \A r \in wire : r.generation = daemon.generation =>
           r.inventory \in {NoInventory, daemon.inventory}

\* The daemon was told, or its reports say by their silence, that the
\* controller holds its inventory.
Relies ==
    \/ daemon.accepted /= NoInventory
    \/ daemon.reply = "accepted"
    \/ \E r \in wire : r.generation = daemon.generation
                         /\ r.inventory = NoInventory

\* Then it does, and it does so under this boot's generation: that is what
\* makes a report of an earlier boot, arriving now, out of order.
Justified ==
    daemon.up /\ ~daemon.disturbed /\ Relies =>
      /\ node.generation = daemon.generation
      /\ node.inventory = daemon.inventory

ReportInv == RsTypeOK /\ GenerationsBounded /\ OneInventory /\ Justified

-----------------------------------------------------------------------------
\* The first boot finds nothing on the wire and nobody relying on anything.
LEMMA ReportInitial == RsInit => ReportInv
  BY ReportStreamAssumption
  DEF RsInit, ReportInv, RsTypeOK, GenerationsBounded, OneInventory, Justified,
      Down, NodeRow

\* run_forever: a new boot has a generation that no report carries yet.
LEMMA StartsKeeps == ReportInv /\ Starts => ReportInv'
<1> SUFFICES ASSUME ReportInv, Starts PROVE ReportInv'
  OBVIOUS
<1> USE ReportStreamAssumption DEF ReportInv
<1>1. CASE UNCHANGED daemon
  <2>1. RsTypeOK'
    BY <1>1 DEF Starts, RsTypeOK
  <2>2. GenerationsBounded'
    BY <1>1 DEF Starts, RsTypeOK, GenerationsBounded, Report
  <2>3. OneInventory' /\ Justified'
    BY <1>1 DEF Starts, OneInventory, Justified, Relies
  <2>4. QED
    BY <2>1, <2>2, <2>3
<1>2. ASSUME NEW i \in Inventories,
             daemon' = [up |-> TRUE, credential |-> config,
                        generation |-> counter + 1, sequence |-> 0,
                        inventory |-> i, accepted |-> NoInventory,
                        active |-> FALSE, reply |-> "none",
                        waits |-> FALSE, disturbed |-> FALSE]
      PROVE  ReportInv'
  <2>1. RsTypeOK'
    BY <1>2 DEF Starts, RsTypeOK, UpDaemon
  <2>2. \A r \in wire : r.generation < counter + 1
    BY DEF RsTypeOK, GenerationsBounded, Report
  <2>3. GenerationsBounded' /\ OneInventory' /\ Justified'
    BY <1>2, <2>2 DEF Starts, RsTypeOK, GenerationsBounded, OneInventory, Justified,
         Relies, Report
  <2>4. QED
    BY <2>1, <2>3
<1>3. QED
  BY <1>1, <1>2 DEF Starts

\* The daemon's own steps: it stops, works, reports, hears an answer or none.
LEMMA WorkerKeeps ==
  ReportInv /\ (DaemonStops \/ Activity \/ Reports \/ Answered \/ Unanswered) => ReportInv'
<1> SUFFICES ASSUME ReportInv,
                    DaemonStops \/ Activity \/ Reports \/ Answered \/ Unanswered
             PROVE  ReportInv'
  OBVIOUS
<1> USE ReportStreamAssumption DEF ReportInv
<1>1. CASE DaemonStops
  BY <1>1 DEF DaemonStops, Down, RsTypeOK, GenerationsBounded, OneInventory, Justified
<1>2. CASE Activity
  <2>1. daemon \in UpDaemon
    BY <1>2 DEF Activity, RsTypeOK, Down
  <2>2. RsTypeOK'
    BY <1>2, <2>1 DEF Activity, RsTypeOK, UpDaemon
  <2>3. QED
    BY <1>2, <2>1, <2>2 DEF Activity, GenerationsBounded, OneInventory, Justified,
         Relies, UpDaemon
<1>3. CASE Reports
  <2>1. daemon \in UpDaemon
    BY <1>3 DEF Reports, RsTypeOK, Down
  <2>2. PICK r : /\ r = [credential |-> daemon.credential,
                         generation |-> daemon.generation,
                         sequence |-> daemon.sequence + 1,
                         inventory |-> Prepared(daemon), busy |-> daemon.active]
                 /\ wire' = wire \cup {r}
    BY <1>3 DEF Reports
  <2>3. r \in Report /\ r.generation = daemon.generation /\ r.inventory = Prepared(daemon)
    BY <2>1, <2>2 DEF Report, UpDaemon, Prepared
  <2>4. RsTypeOK'
    <3>1. daemon.sequence + 1 \in Nat
      BY <2>1 DEF UpDaemon
    <3>2. daemon' = [daemon EXCEPT !.sequence = daemon.sequence + 1, !.waits = TRUE]
      BY <1>3 DEF Reports
    <3>3. daemon' \in UpDaemon
      BY <2>1, <3>1, <3>2 DEF UpDaemon
    <3>4. QED
      BY <1>3, <2>2, <2>3, <3>3 DEF Reports, RsTypeOK
  <2>5. GenerationsBounded' /\ OneInventory'
    BY <1>3, <2>1, <2>2, <2>3 DEF Reports, RsTypeOK, GenerationsBounded, OneInventory,
         UpDaemon, Prepared
  <2>6. Relies' => Relies
    BY <1>3, <2>1, <2>2, <2>3 DEF Reports, Relies, UpDaemon, Prepared
  <2>7. Justified'
    BY <1>3, <2>1, <2>6 DEF Reports, Justified, UpDaemon
  <2>8. QED
    BY <2>4, <2>5, <2>7
<1>4. CASE Answered
  <2>1. daemon \in UpDaemon
    BY <1>4 DEF Answered, RsTypeOK, Down
  <2>2. /\ daemon' \in UpDaemon
        /\ daemon'.generation = daemon.generation
        /\ daemon'.inventory = daemon.inventory
        /\ daemon'.disturbed = daemon.disturbed
        /\ daemon'.reply = "none"
        /\ daemon'.accepted \in {NoInventory, daemon.inventory}
        /\ daemon'.accepted = NoInventory \/ Relies
    BY <1>4, <2>1 DEF Answered, Acknowledged, Invalidated, Prepared, OneInventory,
         Relies, UpDaemon
  <2>3. UNCHANGED <<counter, config, wire, node>>
    BY <1>4 DEF Answered
  <2>4. QED
    BY <2>1, <2>2, <2>3 DEF RsTypeOK, GenerationsBounded, OneInventory, Justified,
         Relies, UpDaemon
<1>5. CASE Unanswered
  <2>1. daemon \in UpDaemon
    BY <1>5 DEF Unanswered, RsTypeOK, Down
  <2>2. /\ daemon' \in UpDaemon
        /\ daemon'.generation = daemon.generation
        /\ daemon'.inventory = daemon.inventory
        /\ daemon'.disturbed = daemon.disturbed
        /\ daemon'.reply = "none"
        /\ daemon'.accepted = NoInventory
    BY <1>5, <2>1 DEF Unanswered, Invalidated, UpDaemon
  <2>3. wire' \subseteq wire /\ UNCHANGED <<counter, config, node>>
    BY <1>5 DEF Unanswered
  <2>4. QED
    BY <2>1, <2>2, <2>3 DEF RsTypeOK, GenerationsBounded, OneInventory, Justified,
         Relies, UpDaemon
<1>6. QED
  BY <1>1, <1>2, <1>3, <1>4, <1>5

\* record_node_report: a report of this boot writes this boot's inventory or
\* leaves the one that is there; a report of an earlier boot is out of order
\* once the controller has recorded one of this boot.
LEMMA RecordKeeps ==
  ASSUME NEW r \in wire, ReportInv, RecordNodeReport(r)
  PROVE  ReportInv'
<1> USE ReportStreamAssumption DEF ReportInv
<1>1. r \in Report /\ r.generation <= counter
  BY DEF RsTypeOK, GenerationsBounded
<1>2. wire' \subseteq wire /\ UNCHANGED <<counter, config>>
  BY DEF RecordNodeReport
<1>3. node' \in NodeRow
  BY <1>1 DEF RecordNodeReport, Recorded, RsTypeOK, NodeRow, Report
<1>4. CASE ~daemon.up
  <2>1. daemon = Down
    BY <1>4 DEF RsTypeOK, UpDaemon
  <2>2. daemon' = Down
    BY <1>4, <2>1 DEF RecordNodeReport, Answer, Waits, Restored
  <2>3. QED
    BY <1>2, <1>3, <2>2 DEF RsTypeOK, GenerationsBounded, OneInventory, Justified, Down
<1>5. CASE daemon.up
  <2>1. daemon \in UpDaemon
    BY <1>5 DEF RsTypeOK, Down
  <2>2. /\ daemon' \in UpDaemon
        /\ daemon'.generation = daemon.generation
        /\ daemon'.inventory = daemon.inventory
        /\ daemon'.accepted = daemon.accepted
    BY <2>1 DEF RecordNodeReport, Answer, Restored, UpDaemon
  <2>3. RsTypeOK' /\ GenerationsBounded' /\ OneInventory'
    BY <1>2, <1>3, <1>5, <2>1, <2>2 DEF RsTypeOK, GenerationsBounded, OneInventory, UpDaemon
  <2>4. CASE ~(r.credential \in node.valid /\ ~OutOfOrder(r))
    <3>1. node' = node /\ daemon'.disturbed = daemon.disturbed
            /\ daemon'.reply \in {daemon.reply, "rejected"}
      BY <2>1, <2>4 DEF RecordNodeReport, Answer, UpDaemon
    <3>2. Justified'
      BY <1>2, <1>5, <2>2, <3>1 DEF Justified, Relies
    <3>3. QED
      BY <2>3, <3>2
  <2>5. CASE r.credential \in node.valid /\ ~OutOfOrder(r)
    <3>1. /\ node'.generation = r.generation
          /\ node'.inventory = IF r.inventory = NoInventory THEN node.inventory
                                                            ELSE r.inventory
      BY <2>5 DEF RecordNodeReport, Recorded, RsTypeOK, NodeRow
    <3>2. CASE r.generation = daemon.generation /\ r.inventory /= NoInventory
      <4>1. r.inventory = daemon.inventory
        BY <1>5, <3>2 DEF OneInventory
      <4>2. QED
        BY <2>2, <2>3, <3>1, <3>2, <4>1 DEF Justified
    <3>3. CASE r.generation = daemon.generation /\ r.inventory = NoInventory
      <4>1. daemon'.disturbed = daemon.disturbed /\ Relies
        BY <2>1, <2>5, <3>3 DEF RecordNodeReport, Answer, Restored, UpDaemon, Relies
      <4>2. QED
        BY <1>5, <2>2, <2>3, <3>1, <3>3, <4>1 DEF Justified
    <3>4. CASE r.generation /= daemon.generation
      <4>1. daemon' = daemon
        BY <2>5, <3>4 DEF RecordNodeReport, Answer, Restored, Waits
      <4>2. r.generation < daemon.generation
        BY <1>1, <1>5, <3>4, <2>1 DEF GenerationsBounded, RsTypeOK, Report, UpDaemon
      <4>3. node.generation /= daemon.generation
        BY <2>5, <4>2 DEF OutOfOrder
      <4>4. QED
        BY <1>2, <1>5, <2>3, <4>1, <4>3 DEF Justified, Relies
    <3>5. QED
      BY <3>2, <3>3, <3>4
  <2>6. QED
    BY <2>4, <2>5
<1>6. QED
  BY <1>4, <1>5

\* Pairing and the probe of a claim replace the inventory and say so to the
\* history variable; settling a pairing touches credentials only.
LEMMA PairingKeeps == ReportInv /\ (Pairs \/ PairingSettles \/ ClaimProbes) => ReportInv'
<1> SUFFICES ASSUME ReportInv, Pairs \/ PairingSettles \/ ClaimProbes PROVE ReportInv'
  OBVIOUS
<1> USE ReportStreamAssumption DEF ReportInv
<1>1. CASE PairingSettles
  <2>1. node' \in NodeRow /\ node'.generation = node.generation
          /\ node'.inventory = node.inventory
    BY <1>1 DEF PairingSettles, RsTypeOK, NodeRow
  <2>2. UNCHANGED <<counter, config, daemon, wire>>
    BY <1>1 DEF PairingSettles
  <2>3. QED
    BY <2>1, <2>2 DEF RsTypeOK, GenerationsBounded, OneInventory, Justified, Relies
<1>2. CASE Pairs \/ ClaimProbes
  <2>1. node' \in NodeRow /\ config' \in Nat
    <3>1. CASE Pairs
      <4>1. PICK i \in Inventories :
              node' = [Probed(i) EXCEPT !.pairings = @ + 1,
                                        !.valid = @ \cup {node.pairings + 1}]
        BY <3>1 DEF Pairs
      <4>2. node \in NodeRow /\ node.pairings + 1 \in Nat /\ 0 \in Nat
        BY DEF RsTypeOK, NodeRow
      <4>3. node' \in NodeRow
        <5>1. Probed(i) \in NodeRow /\ Probed(i).pairings = node.pairings
                /\ Probed(i).valid = node.valid
          BY <4>2 DEF Probed, NodeRow
        <5>2. node.valid \cup {node.pairings + 1} \in SUBSET Nat
          BY <4>2 DEF NodeRow
        <5>3. node' = [Probed(i) EXCEPT !.pairings = node.pairings + 1,
                                        !.valid = node.valid \cup {node.pairings + 1}]
          BY <4>1, <5>1
        <5>4. QED
          BY <4>2, <5>1, <5>2, <5>3 DEF NodeRow
      <4>4. config' \in Nat
        BY <3>1, <4>2 DEF Pairs, RsTypeOK
      <4>5. QED
        BY <4>3, <4>4
    <3>2. CASE ClaimProbes
      BY <3>2 DEF ClaimProbes, Probed, RsTypeOK, NodeRow
    <3>3. QED
      BY <1>2, <3>1, <3>2
  <2>2. UNCHANGED <<counter, wire>> /\ daemon' = Disturbed
    BY <1>2 DEF Pairs, ClaimProbes
  <2>3. CASE daemon = Down
    BY <2>1, <2>2, <2>3 DEF Disturbed, Down, RsTypeOK, GenerationsBounded, OneInventory,
         Justified
  <2>4. CASE daemon \in UpDaemon
    <3>1. /\ daemon' \in UpDaemon
          /\ daemon'.generation = daemon.generation
          /\ daemon'.inventory = daemon.inventory
          /\ daemon'.accepted = daemon.accepted
          /\ daemon'.disturbed
      BY <2>2, <2>4 DEF Disturbed, UpDaemon
    <3>2. QED
      BY <2>1, <2>2, <2>4, <3>1 DEF RsTypeOK, GenerationsBounded, OneInventory,
           Justified, UpDaemon
  <2>5. QED
    BY <2>3, <2>4 DEF RsTypeOK
<1>3. QED
  BY <1>1, <1>2

-----------------------------------------------------------------------------
\* The inductive invariant holds in every reachable state.
THEOREM ReportInvariant == RsSpec => []ReportInv
<1>1. ReportInv /\ [RsNext]_rsVars => ReportInv'
  <2> SUFFICES ASSUME ReportInv, [RsNext]_rsVars PROVE ReportInv'
    OBVIOUS
  <2>1. CASE UNCHANGED rsVars
    BY <2>1 DEF rsVars, ReportInv, RsTypeOK, GenerationsBounded, OneInventory, Justified,
         Relies
  <2>2. CASE RsNext
    BY <2>2, StartsKeeps, WorkerKeeps, RecordKeeps, PairingKeeps DEF RsNext
  <2>3. QED
    BY <2>1, <2>2
<1>2. QED
  BY <1>1, ReportInitial, PTL DEF RsSpec

\* A daemon that leaves its inventory out relies on the controller holding
\* exactly that inventory, and it does: whichever reports were lost, delayed
\* or repeated, for any number of boots (InventoryPublicationState and
\* record_node_report).
THEOREM InventoryStays == RsSpec => []InventoryAgrees
<1>1. ReportInv => InventoryAgrees
  BY ReportStreamAssumption
  DEF ReportInv, OneInventory, Justified, Relies, InventoryAgrees
<1>2. QED
  BY <1>1, ReportInvariant, PTL

-----------------------------------------------------------------------------
(* The objects of a run.                                                   *)
(*                                                                         *)
(* A chunk passes from a reader through the channel and one request to a   *)
(* row.  At every place its position is counted from the bytes ahead of    *)
(* it, and of all the requests still on the wire at most one chunk is not  *)
(* stored yet: the one the main task is waiting for, or the one it gave up *)
(* on, after which it sends no more.                                       *)

(* The values the variables take.                                          *)
Chunk == [stream : Stream, from : Nat, len : Nat \ {0}]
Row == [from : Nat, len : Nat \ {0}]
LogWhat == [stream : Stream, from : Nat, len : Nat \ {0}, offset : Nat]
Artifact == [file : Files, version : {1, 2}]
Replies == {"none", "refused", "stored"}
LogCall == [kind : {"log"}, what : LogWhat, attempt : Nat, reply : Replies]
ArtifactCall == [kind : {"artifact"}, what : Artifact, attempt : Nat, reply : Replies]
Outcomes == {"none", "succeeded", "failed", "cancelled"}
Stops == {"cancel_requested", "lease_lost", "timed_out"}
SourceWhys == Stops \cup {"source_preparation_failed", "transport_failure"}
Whys == SourceWhys \cup {"none", "exited", "execution_failed", "artifact_verification_failed"}

LogType == [budget : Nat, queue : Seq(Chunk), wrote : [Stream -> Nat], read : [Stream -> Nat],
            size : [Stream -> Nat], view : [Stream -> Nat], held : [Stream -> Seq(Chunk)],
            cut : [Stream -> BOOLEAN], open : [Stream -> BOOLEAN]]
Verdicts == {[state |-> "none"]}
              \cup [state : Outcomes, why : Whys, verified : BOOLEAN, steps : Int,
                    streams : [Stream -> [bytes : Nat, chunks : Nat]],
                    cut : [Stream -> BOOLEAN], arts : SUBSET Artifact]
Objects == SUBSET (LogWhat \cup Artifact)
CtlType == [rows : [Stream -> Seq(Row)], objects : Objects,
            arts : [Files -> 0 .. 2], snapshot : {"absent", "object", "stored", "damaged"},
            lease : BOOLEAN, verdict : Verdicts]
JobType == [source : Sources, pc : {"assigned", "extract", "source", "steps", "step", "collect",
                                    "artifact", "failing", "complete", "done", "parked"},
            verified : BOOLEAN, left : Nat,
            child : {"none", "running", "zero", "nonzero", "killed", "unproven"},
            reason : Cancels \cup {"none", "exited", "timed_out", "transport_failure"},
            cancel : Cancels \cup {"none", "transport_failure"}, uploadError : BOOLEAN,
            file : [Files -> {1, 2}], found : SUBSET Artifact, sent : SUBSET Artifact,
            state : Outcomes, why : Whys, ordered : BOOLEAN]

ObTypeOK ==
    /\ log \in LogType
    /\ sink \in [Stream -> [bytes : Nat, chunks : Nat]]
    /\ call \in {NoCall} \cup LogCall \cup ArtifactCall
    /\ net \subseteq [what : LogWhat \cup Artifact, attempt : Nat]
    /\ ctl \in CtlType
    /\ job \in JobType

(* The share of one stream in a sequence of chunks.                        *)
Part(s, c) == [i \in 1 .. Len(c) |-> [len |-> IF c[i].stream = s THEN c[i].len ELSE 0]]
Before(c, i) == Bytes(SubSeq(c, 1, i - 1))

(* Where the part of a stream that was handed to the sink ends.            *)
Given(s) == sink[s].bytes + IF call.kind = "log" /\ call.what.stream = s THEN call.what.len ELSE 0

(* The readers: an open pipe, one chunk in hand, a budget that is spent    *)
(* once something was cut.                                                 *)
ReaderOK(s) ==
    /\ log.read[s] <= log.wrote[s]
    /\ log.view[s] # NoView =>
          /\ log.open[s] /\ log.held[s] = <<>> /\ log.view[s] <= Budget
          /\ log.size[s] \in 1 .. (log.wrote[s] - log.read[s])
    /\ log.held[s] # <<>> =>
          log.open[s] /\ Len(log.held[s]) = 1 /\ log.held[s][1].stream = s
    /\ log.cut[s] => log.budget = 0
    /\ ~log.open[s] => ~Alive /\ log.read[s] = log.wrote[s]

(* Nothing is lost or repeated between a reader and the sink.              *)
Chained(s) ==
    /\ \A i \in 1 .. Len(log.queue) : log.queue[i].stream = s =>
          log.queue[i].from = Given(s) + Before(Part(s, log.queue), i)
    /\ log.held[s] # <<>> => log.held[s][1].from = Given(s) + Bytes(Part(s, log.queue))
    /\ Given(s) + Bytes(Part(s, log.queue)) + Bytes(log.held[s]) <= log.read[s]
    /\ ~log.cut[s] => Given(s) + Bytes(Part(s, log.queue)) + Bytes(log.held[s]) = log.read[s]

(* A chunk that was sent: stored in its place, or next, if there is budget *)
(* left for it.                                                            *)
LogWhats == ({r.what : r \in net} \cap LogWhat)
              \cup (IF call.kind = "log" THEN {call.what} ELSE {})
Kept == Bytes(ctl.rows["stdout"]) + Bytes(ctl.rows["stderr"]) + Bytes(log.queue)
          + Bytes(log.held["stdout"]) + Bytes(log.held["stderr"]) + log.budget

Entered(w) ==
    \E i \in 1 .. Len(ctl.rows[w.stream]) :
        ctl.rows[w.stream][i] = [from |-> w.from, len |-> w.len]

NextUp(w) ==
    /\ Bytes(ctl.rows[w.stream]) = w.from /\ sink[w.stream].bytes = w.from
    /\ Kept + w.len <= Budget
    /\ w.from + w.len <= log.read[w.stream]
    /\ ~job.uploadError => call.kind = "log" /\ call.what = w

SentOK ==
    /\ \A w \in LogWhats : w.from = w.offset /\ (Entered(w) \/ NextUp(w))
    /\ \A v, w \in LogWhats : Entered(v) \/ Entered(w) \/ v = w

(* The rows of a stream and what the sink knows of them.                   *)
StreamOK(s) ==
    /\ \A i \in 1 .. Len(ctl.rows[s]) : ctl.rows[s][i].from = Before(ctl.rows[s], i)
    /\ \A i \in 1 .. Len(ctl.rows[s]) :
          [stream |-> s, from |-> ctl.rows[s][i].from, len |-> ctl.rows[s][i].len,
           offset |-> ctl.rows[s][i].from] \in ctl.objects
    /\ Bytes(ctl.rows[s]) <= log.read[s]
    /\ \/ Bytes(ctl.rows[s]) = sink[s].bytes /\ Len(ctl.rows[s]) = sink[s].chunks
       \/ /\ Bytes(ctl.rows[s]) > sink[s].bytes /\ Len(ctl.rows[s]) = sink[s].chunks + 1
          /\ ~job.uploadError => /\ call.kind = "log" /\ call.what.stream = s
                                 /\ Bytes(ctl.rows[s]) = sink[s].bytes + call.what.len
    /\ call.kind = "log" /\ call.what.stream = s =>
          /\ call.what.from = sink[s].bytes
          /\ call.reply = "stored" => Bytes(ctl.rows[s]) > sink[s].bytes

(* What is listed as sent is stored, object and row.                       *)
ArtifactsOK ==
    /\ \A f \in Files : ctl.arts[f] # 0 => [file |-> f, version |-> ctl.arts[f]] \in ctl.objects
    /\ \A a \in job.sent : ctl.arts[a.file] = a.version
    /\ call.kind = "artifact" /\ call.reply = "stored" => ctl.arts[call.what.file] = call.what.version

(* Where the main task is.                                                 *)
Placed ==
    /\ call.kind = "log" => job.pc \in {"source", "step"} /\ ~job.uploadError
    /\ call.kind = "artifact" => job.pc = "artifact"
    /\ Alive => job.pc \in {"source", "step"}
    /\ job.pc \notin {"source", "step", "parked"} =>
          log.queue = <<>> /\ \A s \in Stream : ~log.open[s]
    /\ job.cancel = "transport_failure" => job.uploadError
    /\ job.uploadError => job.pc \in {"source", "step", "complete", "done", "parked"}
    /\ job.pc \in {"steps", "step", "collect", "artifact", "failing"} => job.verified
    /\ ~job.verified => job.left = Steps
    /\ job.pc = "step" => job.left > 0
    /\ job.pc \in {"collect", "artifact"} => job.left = 0
    /\ job.pc = "failing" => job.why \in Stops \cup {"artifact_verification_failed"}
    /\ job.pc = "complete" /\ ~job.verified => job.why \in SourceWhys
    /\ job.pc = "complete" /\ job.state = "cancelled" =>
          job.why \in Stops \cup {"artifact_verification_failed"}
    /\ job.state = "succeeded" => /\ job.verified /\ job.left = 0 /\ ~job.uploadError
                                  /\ job.found = job.sent /\ job.why = "exited"
                                  /\ job.pc \in {"complete", "done", "parked"}
    /\ ctl.verdict.state # "none" => job.pc = "done"
    /\ job.pc = "complete" => job.state # "none"

(* The budget is spent once.                                               *)
LimitOK == log.budget <= Budget /\ Kept <= Budget

(* The inductive invariant.  It speaks of the chunks under way only while  *)
(* no upload has failed: after that the main task discards them.           *)
ObInv ==
    /\ ObTypeOK /\ LimitOK
    /\ \A s \in Stream : ReaderOK(s) /\ StreamOK(s) /\ (~job.uploadError => Chained(s))
    /\ SentOK /\ ArtifactsOK /\ Placed /\ SuccessComplete
-----------------------------------------------------------------------------
(* Sums over sequences of chunks.                                          *)

(* A sequence of things that have a length in bytes, and its running       *)
(* totals.                                                                 *)
Sized(c) == Len(c) \in Nat /\ \A i \in 1 .. Len(c) : c[i].len \in Nat

Totals(c) == CHOOSE f : f = [i \in 0 .. Len(c) |-> IF i = 0 THEN 0 ELSE f[i - 1] + c[i].len]

(* A set of numbers has a least member.                                    *)
LEMMA LeastNat ==
  ASSUME NEW T \in SUBSET Nat, T # {}
  PROVE  \E n \in T : \A m \in T : n <= m
<1>1. PICK n \in T : \A m \in T : <<m, n>> \notin OpToRel(<, Nat)
  BY NatLessThanWellFounded, WFMin
<1>2. \A m \in T : ~(m < n)
  BY <1>1 DEF OpToRel
<1> QED BY <1>2

(* Induction up to n, for a set of numbers.                                *)
LEMMA CountingUp ==
  ASSUME NEW n \in Nat, NEW T, 0 \in T, \A m \in 0 .. n : m # n /\ m \in T => m + 1 \in T
  PROVE  \A m \in 0 .. n : m \in T
<1> DEFINE Bad == {m \in 0 .. n : m \notin T}
<1>1. SUFFICES ASSUME Bad # {} PROVE FALSE
  OBVIOUS
<1>2. PICK m \in Bad : \A k \in Bad : m <= k
  <2>1. Bad \in SUBSET Nat
    OBVIOUS
  <2> HIDE DEF Bad
  <2> QED BY <1>1, <2>1, LeastNat
<1>3. m \in 0 .. n /\ m \notin T /\ m # 0
  BY <1>2
<1>4. m - 1 \in 0 .. n /\ m - 1 # n /\ m - 1 \notin Bad
  BY <1>2, <1>3
<1>5. m - 1 \in T /\ (m - 1) + 1 = m
  BY <1>3, <1>4
<1> QED BY <1>3, <1>4, <1>5

(* What Bytes adds up.                                                     *)
LEMMA BytesTotal == ASSUME NEW c PROVE Bytes(c) = Totals(c)[Len(c)]
  BY DEF Bytes, Totals

(* The running totals of a sequence of chunks exist.                       *)
LEMMA TotalsExist ==
  ASSUME NEW c, Sized(c)
  PROVE  \E f : f = [i \in 0 .. Len(c) |-> IF i = 0 THEN 0 ELSE f[i - 1] + c[i].len]
<1> DEFINE Sums(n, f) == f = [i \in 0 .. n |-> IF i = 0 THEN 0 ELSE f[i - 1] + c[i].len]
           Good == {n \in 0 .. Len(c) : \E f : Sums(n, f)}
<1>1. Len(c) \in Nat
  BY DEF Sized
<1>2. 0 \in Good
  <2> DEFINE z == [i \in 0 .. 0 |-> 0]
  <2>1. z = [i \in 0 .. 0 |-> IF i = 0 THEN 0 ELSE z[i - 1] + c[i].len]
    OBVIOUS
  <2>2. \E f : Sums(0, f)
    BY <2>1
  <2>3. 0 \in 0 .. Len(c)
    BY <1>1
  <2> HIDE DEF Sums
  <2> QED BY <2>2, <2>3
<1>3. ASSUME NEW m \in 0 .. Len(c), m # Len(c), m \in Good
      PROVE  m + 1 \in Good
  <2>1. PICK f : Sums(m, f)
    BY <1>3
  <2> DEFINE n == m + 1
             g == [i \in 0 .. n |-> IF i = n THEN f[m] + c[n].len ELSE f[i]]
  <2>2. n \in 0 .. Len(c) /\ n \in Nat /\ m \in Nat /\ n # 0 /\ n - 1 = m /\ m # n
    BY <1>1, <1>3
  <2>3. \A i \in 0 .. m : i \in 0 .. n /\ i # n
    BY <2>2
  <2>4. \A i \in 0 .. m : g[i] = f[i]
    BY <2>3
  <2>5. g[n] = f[m] + c[n].len /\ g[m] = f[m]
    BY <2>2, <2>4
  <2>6. \A i \in 0 .. m : f[i] = IF i = 0 THEN 0 ELSE f[i - 1] + c[i].len
    BY <2>1
  <2> HIDE DEF n
  <2>7. \A i \in 0 .. n : g[i] = IF i = 0 THEN 0 ELSE g[i - 1] + c[i].len
    <3> HIDE DEF g
    <3> TAKE i \in 0 .. n
    <3>1. CASE i = n
      BY <3>1, <2>2, <2>5
    <3>2. CASE i # n
      <4>1. i \in 0 .. m /\ (i # 0 => i - 1 \in 0 .. m)
        BY <3>2, <2>2
      <4> QED BY <2>4, <2>6, <4>1
    <3> QED BY <3>1, <3>2
  <2>8. g = [i \in 0 .. n |-> g[i]]
    OBVIOUS
  <2>9. g = [i \in 0 .. n |-> IF i = 0 THEN 0 ELSE g[i - 1] + c[i].len]
    <3> HIDE DEF g
    <3> QED BY <2>7, <2>8
  <2>10. Sums(n, g)
    BY <2>9
  <2>11. n \in Good
    BY <2>2, <2>10
  <2> QED BY <2>11 DEF n
<1>4. \A m \in 0 .. Len(c) : m \in Good
  <2> HIDE DEF Good
  <2> QED BY <1>1, <1>2, <1>3, CountingUp
<1>5. Len(c) \in Good
  BY <1>1, <1>4
<1> QED BY <1>5

(* The recursion they obey.                                                *)
LEMMA TotalsRecursion ==
  ASSUME NEW c, Sized(c)
  PROVE  /\ Totals(c)[0] = 0
         /\ \A i \in 1 .. Len(c) : Totals(c)[i] = Totals(c)[i - 1] + c[i].len
<1> DEFINE F == Totals(c)
<1>1. F = [i \in 0 .. Len(c) |-> IF i = 0 THEN 0 ELSE F[i - 1] + c[i].len]
  BY TotalsExist, Zenon DEF Totals
<1> HIDE DEF F
<1>2. \A i \in 0 .. Len(c) : F[i] = IF i = 0 THEN 0 ELSE F[i - 1] + c[i].len
  BY <1>1
<1>3. F[0] = 0 /\ \A i \in 1 .. Len(c) : F[i] = F[i - 1] + c[i].len
  BY <1>2 DEF Sized
<1> QED BY <1>3 DEF F

(* Totals are numbers that grow.                                           *)
LEMMA TotalsNat ==
  ASSUME NEW c, Sized(c)
  PROVE  \A i \in 0 .. Len(c) : Totals(c)[i] \in Nat /\ Totals(c)[i] <= Totals(c)[Len(c)]
<1> DEFINE F == Totals(c)
           n == Len(c)
           Up == {m \in 0 .. n : F[m] \in Nat}
           Below == {m \in 0 .. n : F[n - m] <= F[n]}
<1>1. n \in Nat /\ \A i \in 1 .. n : c[i].len \in Nat
  BY DEF Sized
<1>2. F[0] = 0 /\ \A i \in 1 .. n : F[i] = F[i - 1] + c[i].len
  BY TotalsRecursion
<1> HIDE DEF F, n
<1>3. \A m \in 0 .. n : m \in Up
  <2>1. 0 \in Up
    BY <1>1, <1>2
  <2>2. ASSUME NEW m \in 0 .. n, m # n, m \in Up PROVE m + 1 \in Up
    <3>1. m + 1 \in 1 .. n /\ (m + 1) - 1 = m /\ m + 1 \in 0 .. n
      BY <1>1, <2>2
    <3>2. F[m + 1] = F[m] + c[m + 1].len /\ c[m + 1].len \in Nat
      BY <3>1, <1>1, <1>2
    <3> QED BY <3>1, <3>2, <2>2
  <2> HIDE DEF Up
  <2> QED BY <1>1, <2>1, <2>2, CountingUp
<1>4. \A m \in 0 .. n : m \in Below
  <2>1. 0 \in Below
    <3>1. n - 0 = n /\ n \in 0 .. n /\ 0 \in 0 .. n
      BY <1>1
    <3>2. F[n] \in Nat
      BY <3>1, <1>3
    <3> QED BY <3>1, <3>2
  <2>2. ASSUME NEW m \in 0 .. n, m # n, m \in Below PROVE m + 1 \in Below
    <3> DEFINE k == n - m
    <3>1. k \in 1 .. n /\ k - 1 = n - (m + 1) /\ m + 1 \in 0 .. n
          /\ k \in 0 .. n /\ k - 1 \in 0 .. n /\ n \in 0 .. n
      BY <1>1, <2>2
    <3>2. F[k] = F[k - 1] + c[k].len /\ c[k].len \in Nat
      BY <3>1, <1>1, <1>2
    <3>3. F[k] \in Nat /\ F[k - 1] \in Nat /\ F[n] \in Nat
      BY <3>1, <1>3
    <3>4. F[k] <= F[n]
      BY <2>2
    <3>5. F[k - 1] <= F[n]
      <4> HIDE DEF k
      <4> QED BY <3>2, <3>3, <3>4
    <3>6. F[n - (m + 1)] <= F[n]
      BY <3>1, <3>5
    <3> QED BY <3>1, <3>6
  <2> HIDE DEF Below
  <2> QED BY <1>1, <2>1, <2>2, CountingUp
<1>5. ASSUME NEW i \in 0 .. n PROVE F[i] \in Nat /\ F[i] <= F[n]
  <2>1. n - i \in 0 .. n /\ n - (n - i) = i
    BY <1>1
  <2> QED BY <2>1, <1>3, <1>4
<1> QED BY <1>5 DEF F, n

(* Two sequences that agree up to n have the same total there.             *)
LEMMA TotalsAgree ==
  ASSUME NEW c, NEW d, Sized(c), Sized(d), NEW n \in Nat, n <= Len(c), n <= Len(d),
         \A i \in 1 .. n : c[i].len = d[i].len
  PROVE  Totals(c)[n] = Totals(d)[n]
<1> DEFINE Good == {m \in 0 .. n : Totals(c)[m] = Totals(d)[m]}
<1>1. 0 \in Good
  BY TotalsRecursion
<1>2. ASSUME NEW m \in 0 .. n, m # n, m \in Good PROVE m + 1 \in Good
  <2>1. /\ m + 1 \in 0 .. n /\ m + 1 \in 1 .. n /\ (m + 1) - 1 = m
        /\ m + 1 \in 1 .. Len(c) /\ m + 1 \in 1 .. Len(d)
    BY <1>2 DEF Sized
  <2>2. Totals(c)[m + 1] = Totals(c)[m] + c[m + 1].len
    BY <2>1, TotalsRecursion
  <2>3. Totals(d)[m + 1] = Totals(d)[m] + d[m + 1].len
    BY <2>1, TotalsRecursion
  <2> QED BY <1>2, <2>1, <2>2, <2>3
<1>3. \A m \in 0 .. n : m \in Good
  <2> HIDE DEF Good
  <2> QED BY <1>1, <1>2, CountingUp
<1> QED BY <1>3

(* If they agree after a shift by one, they differ by the first chunk.     *)
LEMMA TotalsShift ==
  ASSUME NEW c, NEW d, Sized(c), Sized(d), NEW n \in Nat, n + 1 <= Len(c), n <= Len(d),
         \A i \in 1 .. n : c[i + 1].len = d[i].len
  PROVE  Totals(c)[n + 1] = c[1].len + Totals(d)[n]
<1> DEFINE Good == {m \in 0 .. n : Totals(c)[m + 1] = c[1].len + Totals(d)[m]}
<1>1. 0 \in Good
  <2>1. 1 \in 1 .. Len(c) /\ 1 - 1 = 0 /\ 0 + 1 = 1
    BY DEF Sized
  <2>2. Totals(c)[1] = Totals(c)[0] + c[1].len /\ c[1].len \in Nat
    BY <2>1, TotalsRecursion DEF Sized
  <2>3. Totals(c)[0] = 0 /\ Totals(d)[0] = 0
    BY TotalsRecursion
  <2> QED BY <2>1, <2>2, <2>3
<1>2. ASSUME NEW m \in 0 .. n, m # n, m \in Good PROVE m + 1 \in Good
  <2> DEFINE k == m + 1
  <2>1. /\ k \in 0 .. n /\ k \in 1 .. n /\ k - 1 = m /\ (k + 1) - 1 = k
        /\ k + 1 \in 1 .. Len(c) /\ k \in 1 .. Len(d) /\ m \in 0 .. Len(d)
        /\ 1 \in 1 .. Len(c)
    <3>1. Len(c) \in Nat /\ Len(d) \in Nat
      BY DEF Sized
    <3>2. m \in Nat /\ m < n
      BY <1>2
    <3>3. k \in 0 .. n /\ k \in 1 .. n /\ k - 1 = m /\ (k + 1) - 1 = k
      BY <3>2
    <3>4. k + 1 \in 1 .. Len(c) /\ 1 \in 1 .. Len(c)
      BY <3>1, <3>2
    <3>5. k \in 1 .. Len(d) /\ m \in 0 .. Len(d)
      BY <3>1, <3>2
    <3> QED BY <3>3, <3>4, <3>5
  <2>2. Totals(c)[k + 1] = Totals(c)[k] + c[k + 1].len
    BY <2>1, TotalsRecursion
  <2>3. Totals(d)[k] = Totals(d)[m] + d[k].len
    BY <2>1, TotalsRecursion
  <2>4. Totals(c)[k] = c[1].len + Totals(d)[m] /\ c[k + 1].len = d[k].len
    BY <1>2, <2>1
  <2>5. Totals(d)[m] \in Nat /\ c[1].len \in Nat /\ d[k].len \in Nat
    BY <2>1, TotalsNat DEF Sized
  <2>6. Totals(c)[k + 1] = c[1].len + Totals(d)[k]
    <3> HIDE DEF k
    <3> QED BY <2>2, <2>3, <2>4, <2>5
  <2> QED BY <2>1, <2>6
<1>3. \A m \in 0 .. n : m \in Good
  <2> HIDE DEF Good
  <2> QED BY <1>1, <1>2, CountingUp
<1> QED BY <1>3

-----------------------------------------------------------------------------
(* What the store and the worker do with such sequences.                   *)

(* Nothing holds no bytes.                                                 *)
LEMMA BytesEmpty == Bytes(<<>>) = 0
<1>1. Sized(<<>>) /\ Len(<<>>) = 0
  BY DEF Sized
<1> QED BY <1>1, BytesTotal, TotalsRecursion

(* Bytes of a sequence are a number.                                       *)
LEMMA BytesNat == ASSUME NEW c, Sized(c) PROVE Bytes(c) \in Nat
<1>1. Len(c) \in 0 .. Len(c)
  BY DEF Sized
<1> QED BY <1>1, BytesTotal, TotalsNat

(* One more chunk at the end: d is c and one more.                         *)
LEMMA BytesGrow ==
  ASSUME NEW c, NEW d, Sized(c), Sized(d), Len(d) = Len(c) + 1,
         \A i \in 1 .. Len(c) : d[i].len = c[i].len
  PROVE  Bytes(d) = Bytes(c) + d[Len(c) + 1].len
<1>1. /\ Len(c) \in Nat /\ Len(c) <= Len(c) /\ Len(c) <= Len(d)
      /\ Len(d) \in 1 .. Len(d) /\ Len(d) - 1 = Len(c)
  BY DEF Sized
<1>2. Totals(d)[Len(c)] = Totals(c)[Len(c)]
  BY <1>1, TotalsAgree
<1>3. Totals(d)[Len(d)] = Totals(d)[Len(d) - 1] + d[Len(d)].len
  BY <1>1, TotalsRecursion
<1> QED BY <1>1, <1>2, <1>3, BytesTotal

(* One less at the front: c is one chunk and d.                            *)
LEMMA BytesShift ==
  ASSUME NEW c, NEW d, Sized(c), Sized(d), Len(c) = Len(d) + 1,
         \A i \in 1 .. Len(d) : c[i + 1].len = d[i].len
  PROVE  Bytes(c) = c[1].len + Bytes(d)
<1>1. Len(d) \in Nat /\ Len(d) + 1 <= Len(c) /\ Len(d) <= Len(d)
  BY DEF Sized
<1>2. Totals(c)[Len(d) + 1] = c[1].len + Totals(d)[Len(d)]
  BY <1>1, TotalsShift
<1> QED BY <1>2, BytesTotal

(* The bytes ahead of the i-th chunk.                                      *)
LEMMA BeforeTotal ==
  ASSUME NEW S, NEW c \in Seq(S), Sized(c), NEW i \in 1 .. Len(c) + 1
  PROVE  Before(c, i) = Totals(c)[i - 1]
<1> DEFINE d == SubSeq(c, 1, i - 1)
<1>1. Len(c) \in Nat /\ i \in Nat /\ i - 1 \in Nat /\ i - 1 <= Len(c)
  BY DEF Sized
<1>2. Len(d) = i - 1 /\ \A k \in 1 .. Len(d) : d[k] = c[k]
  BY <1>1
<1> HIDE DEF d
<1>3. Sized(d)
  BY <1>1, <1>2 DEF Sized
<1>4. Totals(d)[i - 1] = Totals(c)[i - 1]
  BY <1>1, <1>2, <1>3, TotalsAgree
<1>5. Bytes(d) = Totals(d)[i - 1]
  BY <1>2, BytesTotal
<1> QED BY <1>4, <1>5 DEF Before, d

(* A chunk lies within its sequence, behind the ones before it.            *)
LEMMA BeforeWithin ==
  ASSUME NEW S, NEW c \in Seq(S), Sized(c), NEW i \in 1 .. Len(c)
  PROVE  Before(c, i) \in Nat /\ Before(c, i) + c[i].len <= Bytes(c)
<1>1. i \in 1 .. Len(c) + 1 /\ i \in 0 .. Len(c) /\ i - 1 \in 0 .. Len(c)
  BY DEF Sized
<1>2. Before(c, i) = Totals(c)[i - 1]
  BY <1>1, BeforeTotal
<1>3. Totals(c)[i] = Totals(c)[i - 1] + c[i].len
  BY TotalsRecursion
<1>4. Totals(c)[i - 1] \in Nat /\ Totals(c)[i] <= Totals(c)[Len(c)]
  BY <1>1, TotalsNat
<1> QED BY <1>2, <1>3, <1>4, BytesTotal

(* Everything with a length per element adds up.                           *)
LEMMA ChunksSized ==
  ASSUME NEW c \in Seq(Chunk), NEW s
  PROVE  /\ Sized(c)
         /\ Sized(Part(s, c)) /\ Part(s, c) \in Seq([len : Nat]) /\ Len(Part(s, c)) = Len(c)
         /\ \A i \in 1 .. Len(c) :
              Part(s, c)[i].len = IF c[i].stream = s THEN c[i].len ELSE 0
<1>1. Len(c) \in Nat /\ \A i \in 1 .. Len(c) : c[i] \in Chunk
  OBVIOUS
<1>2. \A i \in 1 .. Len(c) : c[i].len \in Nat
  BY <1>1 DEF Chunk
<1>3. \A i \in 1 .. Len(c) : [len |-> IF c[i].stream = s THEN c[i].len ELSE 0] \in [len : Nat]
  BY <1>2
<1>4. Part(s, c) \in Seq([len : Nat]) /\ Len(Part(s, c)) = Len(c)
  BY <1>1, <1>3 DEF Part
<1>5. \A i \in 1 .. Len(c) : Part(s, c)[i].len = IF c[i].stream = s THEN c[i].len ELSE 0
  BY <1>1 DEF Part
<1>6. \A i \in 1 .. Len(c) : Part(s, c)[i].len \in Nat
  BY <1>2, <1>5
<1> QED BY <1>1, <1>2, <1>4, <1>5, <1>6 DEF Sized

(* Rows have sizes.                                                        *)
LEMMA RowsSized == ASSUME NEW c \in Seq(Row) PROVE Sized(c)
<1>1. Len(c) \in Nat /\ \A i \in 1 .. Len(c) : c[i] \in Row
  OBVIOUS
<1> QED BY <1>1 DEF Sized, Row

(* What is ahead of a chunk does not change when one is added behind.      *)
LEMMA BeforeAgree ==
  ASSUME NEW S, NEW c \in Seq(S), NEW T, NEW d \in Seq(T), Sized(c), Sized(d),
         Len(d) = Len(c) + 1, \A i \in 1 .. Len(c) : d[i].len = c[i].len
  PROVE  /\ \A i \in 1 .. Len(c) : Before(d, i) = Before(c, i)
         /\ Before(d, Len(c) + 1) = Bytes(c)
<1>1. ASSUME NEW i \in 1 .. Len(c) + 1 PROVE Before(d, i) = Totals(c)[i - 1]
  <2>1. i \in 1 .. Len(d) + 1 /\ i - 1 \in Nat /\ i - 1 <= Len(c) /\ i - 1 <= Len(d)
    BY <1>1 DEF Sized
  <2>2. \A k \in 1 .. i - 1 : d[k].len = c[k].len
    BY <2>1 DEF Sized
  <2>3. Before(d, i) = Totals(d)[i - 1]
    BY <2>1, BeforeTotal
  <2>4. Totals(d)[i - 1] = Totals(c)[i - 1]
    BY <2>1, <2>2, TotalsAgree
  <2> QED BY <2>3, <2>4
<1>2. ASSUME NEW i \in 1 .. Len(c) PROVE Before(d, i) = Before(c, i)
  <2>1. i \in 1 .. Len(c) + 1
    BY DEF Sized
  <2> QED BY <2>1, <1>1, BeforeTotal
<1>3. Before(d, Len(c) + 1) = Bytes(c)
  <2>1. Len(c) + 1 \in 1 .. Len(c) + 1 /\ (Len(c) + 1) - 1 = Len(c)
    BY DEF Sized
  <2> QED BY <2>1, <1>1, BytesTotal
<1> QED BY <1>2, <1>3

(* It shrinks by the first chunk when that one is taken away.              *)
LEMMA BeforeShift ==
  ASSUME NEW S, NEW c \in Seq(S), NEW T, NEW d \in Seq(T), Sized(c), Sized(d),
         Len(c) = Len(d) + 1, \A i \in 1 .. Len(d) : c[i + 1].len = d[i].len
  PROVE  /\ \A i \in 1 .. Len(d) : Before(c, i + 1) = c[1].len + Before(d, i)
         /\ Before(c, 1) = 0
<1>1. ASSUME NEW i \in 1 .. Len(d) PROVE Before(c, i + 1) = c[1].len + Before(d, i)
  <2> DEFINE n == i - 1
  <2>1. /\ i \in 1 .. Len(d) + 1 /\ i + 1 \in 1 .. Len(c) + 1 /\ (i + 1) - 1 = i
        /\ n \in Nat /\ n + 1 = i /\ n + 1 <= Len(c) /\ n <= Len(d)
    BY DEF Sized
  <2>2. \A k \in 1 .. n : c[k + 1].len = d[k].len
    BY <2>1 DEF Sized
  <2>3. Totals(c)[n + 1] = c[1].len + Totals(d)[n]
    <3> HIDE DEF n
    <3> QED BY <2>1, <2>2, TotalsShift
  <2>4. Before(c, i + 1) = Totals(c)[i] /\ Before(d, i) = Totals(d)[n]
    BY <2>1, BeforeTotal
  <2> QED BY <2>1, <2>3, <2>4
<1>2. Before(c, 1) = 0
  <2>1. 1 \in 1 .. Len(c) + 1 /\ 1 - 1 = 0
    BY DEF Sized
  <2> QED BY <2>1, BeforeTotal, TotalsRecursion
<1> QED BY <1>1, <1>2

(* A chunk's share in the bytes of stream s.                               *)
Share(s, x) == IF x.stream = s THEN x.len ELSE 0

(* A chunk joins the queue.                                                *)
LEMMA QueueJoins ==
  ASSUME NEW c \in Seq(Chunk), NEW x \in Chunk, NEW s
  PROVE  /\ Append(c, x) \in Seq(Chunk) /\ Len(Append(c, x)) = Len(c) + 1
         /\ Bytes(Append(c, x)) = Bytes(c) + x.len
         /\ Bytes(Part(s, Append(c, x))) = Bytes(Part(s, c)) + Share(s, x)
         /\ \A i \in 1 .. Len(c) : Before(Part(s, Append(c, x)), i) = Before(Part(s, c), i)
         /\ Before(Part(s, Append(c, x)), Len(c) + 1) = Bytes(Part(s, c))
<1> DEFINE d == Append(c, x)
<1>1. /\ d \in Seq(Chunk) /\ Len(d) = Len(c) + 1 /\ Len(c) \in Nat
      /\ \A i \in 1 .. Len(c) : d[i] = c[i]
      /\ d[Len(c) + 1] = x
  OBVIOUS
<1> HIDE DEF d
<1>2. Len(c) + 1 \in 1 .. Len(d) /\ \A i \in 1 .. Len(c) : i \in 1 .. Len(d)
  BY <1>1
<1>3. Sized(c) /\ Sized(d)
  BY <1>1, ChunksSized
<1>4. Bytes(d) = Bytes(c) + x.len
  BY <1>1, <1>3, BytesGrow
<1> DEFINE p == Part(s, c)
           q == Part(s, d)
<1>5. /\ Sized(p) /\ Sized(q) /\ p \in Seq([len : Nat]) /\ q \in Seq([len : Nat])
      /\ Len(p) = Len(c) /\ Len(q) = Len(c) + 1
  BY <1>1, ChunksSized
<1>6. \A i \in 1 .. Len(c) : p[i].len = Share(s, c[i])
  BY ChunksSized DEF Share
<1>7. \A i \in 1 .. Len(d) : q[i].len = Share(s, d[i])
  BY <1>1, ChunksSized DEF Share
<1> HIDE DEF p, q
<1>8. \A i \in 1 .. Len(p) : q[i].len = p[i].len
  BY <1>1, <1>2, <1>5, <1>6, <1>7
<1>9. q[Len(p) + 1].len = Share(s, x)
  BY <1>1, <1>2, <1>5, <1>7
<1>10. Bytes(q) = Bytes(p) + Share(s, x)
  BY <1>5, <1>8, <1>9, BytesGrow
<1>11. /\ \A i \in 1 .. Len(p) : Before(q, i) = Before(p, i)
       /\ Before(q, Len(p) + 1) = Bytes(p)
  BY <1>5, <1>8, BeforeAgree
<1> QED BY <1>1, <1>4, <1>5, <1>10, <1>11 DEF d, p, q

(* The first chunk leaves the queue.                                       *)
LEMMA QueueLeaves ==
  ASSUME NEW c \in Seq(Chunk), c # <<>>, NEW s
  PROVE  /\ Tail(c) \in Seq(Chunk) /\ Len(c) = Len(Tail(c)) + 1 /\ Head(c) \in Chunk
         /\ Head(c) = c[1] /\ \A i \in 1 .. Len(Tail(c)) : Tail(c)[i] = c[i + 1]
         /\ Bytes(c) = Head(c).len + Bytes(Tail(c))
         /\ Bytes(Part(s, c)) = Share(s, Head(c)) + Bytes(Part(s, Tail(c)))
         /\ \A i \in 1 .. Len(Tail(c)) :
              Before(Part(s, c), i + 1) = Share(s, Head(c)) + Before(Part(s, Tail(c)), i)
         /\ Before(Part(s, c), 1) = 0
<1> DEFINE d == Tail(c)
           x == Head(c)
<1>1. /\ d \in Seq(Chunk) /\ Len(c) = Len(d) + 1 /\ Len(d) \in Nat
      /\ \A i \in 1 .. Len(d) : d[i] = c[i + 1]
      /\ c[1] = x /\ x \in Chunk
  OBVIOUS
<1> HIDE DEF d, x
<1>2. 1 \in 1 .. Len(c) /\ \A i \in 1 .. Len(d) : i + 1 \in 1 .. Len(c)
  BY <1>1
<1>3. Sized(c) /\ Sized(d)
  BY <1>1, ChunksSized
<1>4. Bytes(c) = x.len + Bytes(d)
  BY <1>1, <1>3, BytesShift
<1> DEFINE p == Part(s, c)
           q == Part(s, d)
<1>5. /\ Sized(p) /\ Sized(q) /\ p \in Seq([len : Nat]) /\ q \in Seq([len : Nat])
      /\ Len(p) = Len(d) + 1 /\ Len(q) = Len(d)
  BY <1>1, ChunksSized
<1>6. \A i \in 1 .. Len(c) : p[i].len = Share(s, c[i])
  BY ChunksSized DEF Share
<1>7. \A i \in 1 .. Len(d) : q[i].len = Share(s, d[i])
  BY <1>1, ChunksSized DEF Share
<1> HIDE DEF p, q
<1>8. \A i \in 1 .. Len(q) : p[i + 1].len = q[i].len
  BY <1>1, <1>2, <1>5, <1>6, <1>7
<1>9. p[1].len = Share(s, x)
  BY <1>1, <1>2, <1>6
<1>10. Bytes(p) = Share(s, x) + Bytes(q)
  BY <1>5, <1>8, <1>9, BytesShift
<1>11. /\ \A i \in 1 .. Len(q) : Before(p, i + 1) = Share(s, x) + Before(q, i)
       /\ Before(p, 1) = 0
  <2>1. Len(p) = Len(q) + 1
    BY <1>5
  <2>2. /\ \A i \in 1 .. Len(q) : Before(p, i + 1) = p[1].len + Before(q, i)
        /\ Before(p, 1) = 0
    BY <1>5, <1>8, <2>1, BeforeShift
  <2> QED BY <1>9, <2>2
<1> QED BY <1>1, <1>4, <1>5, <1>10, <1>11 DEF d, x, p, q

(* A row is added.                                                         *)
LEMMA RowAdded ==
  ASSUME NEW c \in Seq(Row), NEW x \in Row
  PROVE  /\ Append(c, x) \in Seq(Row) /\ Len(Append(c, x)) = Len(c) + 1
         /\ \A i \in 1 .. Len(c) : Append(c, x)[i] = c[i]
         /\ Append(c, x)[Len(c) + 1] = x
         /\ Bytes(Append(c, x)) = Bytes(c) + x.len
         /\ \A i \in 1 .. Len(c) : Before(Append(c, x), i) = Before(c, i)
         /\ Before(Append(c, x), Len(c) + 1) = Bytes(c)
<1> DEFINE d == Append(c, x)
<1>1. /\ d \in Seq(Row) /\ Len(d) = Len(c) + 1 /\ Len(c) \in Nat
      /\ \A i \in 1 .. Len(c) : d[i] = c[i]
      /\ d[Len(c) + 1] = x
  OBVIOUS
<1> HIDE DEF d
<1>2. Sized(c) /\ Sized(d)
  BY <1>1, RowsSized
<1>3. Bytes(d) = Bytes(c) + x.len
  BY <1>1, <1>2, BytesGrow
<1>4. /\ \A i \in 1 .. Len(c) : Before(d, i) = Before(c, i)
      /\ Before(d, Len(c) + 1) = Bytes(c)
  BY <1>1, <1>2, BeforeAgree
<1> QED BY <1>1, <1>3, <1>4 DEF d

(* One chunk in hand.                                                      *)
LEMMA BytesOne == ASSUME NEW x \in Chunk PROVE Bytes(<<x>>) = x.len
<1> DEFINE c == <<x>>
<1>1. Len(c) = 1 /\ c[1] = x /\ c \in Seq(Chunk)
  OBVIOUS
<1> HIDE DEF c
<1>2. Sized(c) /\ Sized(<<>>) /\ Len(<<>>) = 0 /\ Len(<<>>) + 1 = 1
  BY <1>1, ChunksSized DEF Sized
<1>3. \A i \in 1 .. Len(<<>>) : c[i].len = (<<>>)[i].len
  BY <1>2
<1>4. Bytes(c) = Bytes(<<>>) + c[1].len
  BY <1>1, <1>2, <1>3, BytesGrow
<1>5. x.len \in Nat
  BY DEF Chunk
<1> QED BY <1>1, <1>4, <1>5, BytesEmpty DEF c

-----------------------------------------------------------------------------
(* The types, field by field.                                              *)

(* The worker's output path.                                               *)
LEMMA LogFields ==
  ASSUME log \in LogType
  PROVE  /\ log.queue \in Seq(Chunk) /\ log.budget \in Nat /\ Bytes(log.queue) \in Nat
         /\ \A s \in Stream :
              /\ log.wrote[s] \in Nat /\ log.read[s] \in Nat /\ log.size[s] \in Nat
              /\ log.view[s] \in Nat /\ log.held[s] \in Seq(Chunk)
              /\ log.cut[s] \in BOOLEAN /\ log.open[s] \in BOOLEAN
              /\ Bytes(log.held[s]) \in Nat /\ Bytes(Part(s, log.queue)) \in Nat
<1>1. /\ log.queue \in Seq(Chunk) /\ log.budget \in Nat
      /\ \A s \in Stream :
              /\ log.wrote[s] \in Nat /\ log.read[s] \in Nat /\ log.size[s] \in Nat
              /\ log.view[s] \in Nat /\ log.held[s] \in Seq(Chunk)
              /\ log.cut[s] \in BOOLEAN /\ log.open[s] \in BOOLEAN
  BY DEF LogType
<1> QED BY <1>1, ChunksSized, BytesNat

(* The rows of the controller.                                             *)
LEMMA CtlFields ==
  ASSUME ctl \in CtlType
  PROVE  \A s \in Stream : /\ ctl.rows[s] \in Seq(Row) /\ Sized(ctl.rows[s])
                           /\ Bytes(ctl.rows[s]) \in Nat /\ Len(ctl.rows[s]) \in Nat
<1>1. \A s \in Stream : ctl.rows[s] \in Seq(Row)
  BY DEF CtlType
<1> QED BY <1>1, RowsSized, BytesNat DEF Sized

(* The counters of the sink.                                               *)
LEMMA SinkFields ==
  ASSUME sink \in [Stream -> [bytes : Nat, chunks : Nat]]
  PROVE  \A s \in Stream : sink[s].bytes \in Nat /\ sink[s].chunks \in Nat
  OBVIOUS

(* A call is for a chunk or for an artifact, or there is none.             *)
LEMMA CallFields ==
  ASSUME call \in {NoCall} \cup LogCall \cup ArtifactCall
  PROVE  /\ call.kind = "log" => call \in LogCall /\ call.what \in LogWhat
         /\ call.kind = "artifact" => call \in ArtifactCall /\ call.what \in Artifact
         /\ call.kind \in {"none", "log", "artifact"}
         /\ call.kind = "none" <=> call = NoCall
  BY DEF LogCall, ArtifactCall, NoCall

(* The chunks that were sent.                                              *)
LEMMA SentWhats ==
  ASSUME ObTypeOK
  PROVE  /\ LogWhats \subseteq LogWhat
         /\ \A r \in net : r.what \in LogWhat => r.what \in LogWhats
         /\ call.kind = "log" => call.what \in LogWhats
<1>1. call.kind = "log" => call.what \in LogWhat
  BY CallFields DEF ObTypeOK
<1> QED BY <1>1 DEF LogWhats

(* The fields of a chunk that was sent.                                    *)
LEMMA WhatFields ==
  ASSUME NEW w \in LogWhat
  PROVE  /\ w.stream \in Stream /\ w.from \in Nat /\ w.len \in Nat \ {0} /\ w.offset \in Nat
  BY DEF LogWhat

-----------------------------------------------------------------------------
(* What stays as it is when a step does not touch it.                      *)

(* A stream, when no row is added and the sink does not move.              *)
LEMMA StreamStays ==
  ASSUME NEW s \in Stream, StreamOK(s), log \in LogType, log' \in LogType, ctl \in CtlType,
         ctl'.rows = ctl.rows, ctl.objects \subseteq ctl'.objects, sink' = sink,
         log.read[s] <= log'.read[s],
         ~job'.uploadError =>
            ~job.uploadError /\ (call.kind = "log" => call'.kind = "log" /\ call'.what = call.what),
         call'.kind = "log" => call.kind = "log" /\ call'.what = call.what /\ call'.reply = call.reply
  PROVE  StreamOK(s)'
<1>1. Bytes(ctl.rows[s]) \in Nat /\ log.read[s] \in Nat /\ log'.read[s] \in Nat
  <2>1. log'.read[s] \in Nat
    BY DEF LogType
  <2> QED BY <2>1, CtlFields, LogFields
<1>2. Bytes(ctl.rows[s]) <= log'.read[s]
  BY <1>1 DEF StreamOK
<1> QED BY <1>2 DEF StreamOK

(* The chunks on the wire, when no row is added and none is sent.          *)
LEMMA SentStays ==
  ASSUME SentOK, ObTypeOK, log' \in LogType, LogWhats' \subseteq LogWhats,
         ctl'.rows = ctl.rows, sink' = sink, Kept' \in Nat, Kept \in Nat, Kept' <= Kept,
         \A s \in Stream : log.read[s] <= log'.read[s],
         ~job'.uploadError =>
            ~job.uploadError /\ (call.kind = "log" => call'.kind = "log" /\ call'.what = call.what)
  PROVE  SentOK'
<1>1. ASSUME NEW w \in LogWhats
      PROVE  w.from = w.offset /\ (Entered(w)' \/ NextUp(w)')
  <2>1. w \in LogWhat /\ w.stream \in Stream /\ w.from \in Nat /\ w.len \in Nat
    BY SentWhats, WhatFields
  <2>2. w.from = w.offset /\ (Entered(w) \/ NextUp(w))
    BY DEF SentOK
  <2>3. Entered(w) => Entered(w)'
    BY DEF Entered
  <2>4. NextUp(w) => NextUp(w)'
    <3> SUFFICES ASSUME NextUp(w) PROVE NextUp(w)'
      OBVIOUS
    <3>1. log.read[w.stream] \in Nat /\ log'.read[w.stream] \in Nat /\ Budget \in Nat
      <4>1. log'.read[w.stream] \in Nat
        BY <2>1 DEF LogType
      <4> QED BY <2>1, <4>1, LogFields, RunObjectsAssumption DEF ObTypeOK
    <3>2. w.from + w.len <= log'.read[w.stream]
      BY <2>1, <3>1 DEF NextUp
    <3>3. Kept' + w.len <= Budget
      BY <2>1, <3>1 DEF NextUp
    <3>4. ~job'.uploadError => call'.kind = "log" /\ call'.what = w
      BY DEF NextUp
    <3> QED BY <3>2, <3>3, <3>4 DEF NextUp
  <2> QED BY <2>2, <2>3, <2>4
<1>2. ASSUME NEW v \in LogWhats, NEW w \in LogWhats PROVE Entered(v)' \/ Entered(w)' \/ v = w
  <2>1. Entered(v) \/ Entered(w) \/ v = w
    BY DEF SentOK
  <2>2. Entered(v) => Entered(v)'
    BY DEF Entered
  <2>3. Entered(w) => Entered(w)'
    BY DEF Entered
  <2> QED BY <2>1, <2>2, <2>3
<1> QED BY <1>1, <1>2 DEF SentOK

(* What is kept is a number of bytes.                                      *)
LEMMA KeptNat == ObTypeOK => Kept \in Nat
<1> SUFFICES ASSUME ObTypeOK PROVE Kept \in Nat
  OBVIOUS
<1>1. "stdout" \in Stream /\ "stderr" \in Stream
  BY DEF Stream
<1>2. log \in LogType /\ ctl \in CtlType
  BY DEF ObTypeOK
<1>3. /\ Bytes(log.queue) \in Nat /\ log.budget \in Nat
      /\ Bytes(log.held["stdout"]) \in Nat /\ Bytes(log.held["stderr"]) \in Nat
  BY <1>1, <1>2, LogFields
<1>4. Bytes(ctl.rows["stdout"]) \in Nat /\ Bytes(ctl.rows["stderr"]) \in Nat
  BY <1>1, <1>2, CtlFields
<1> QED BY <1>3, <1>4 DEF Kept

(* Everything but the place of the tasks and the pipes' ends.              *)
LogSame ==
    /\ log'.queue = log.queue /\ log'.budget = log.budget /\ log'.wrote = log.wrote
    /\ log'.read = log.read /\ log'.size = log.size /\ log'.view = log.view
    /\ log'.held = log.held /\ log'.cut = log.cut

(* A step of the main task or the child that touches nothing else.         *)
LEMMA JobMoves ==
  ASSUME ObInv, UNCHANGED <<sink, call, net, ctl>>, job' \in JobType, log' \in LogType,
         LogSame, job'.uploadError = job.uploadError, job'.sent = job.sent,
         \A s \in Stream : ReaderOK(s)', Placed',
         ctl.verdict.state = "succeeded" => job'.found = job.found
  PROVE  ObInv'
<1>1. ObTypeOK'
  BY DEF ObInv, ObTypeOK
<1>2. Kept' = Kept /\ Kept \in Nat
  BY KeptNat DEF Kept, LogSame, ObInv
<1>3. LimitOK'
  BY <1>2 DEF LimitOK, LogSame, ObInv
<1>4. \A s \in Stream : log.read[s] <= log'.read[s]
  BY LogFields DEF LogSame, ObInv, ObTypeOK
<1>5. \A s \in Stream : StreamOK(s)'
  BY <1>1, <1>4, StreamStays DEF ObInv, ObTypeOK
<1>6. \A s \in Stream : ~job'.uploadError => Chained(s)'
  BY DEF ObInv, Chained, Given, LogSame
<1>7. SentOK'
  <2>1. LogWhats' = LogWhats
    BY DEF LogWhats
  <2>2. Kept' <= Kept
    BY <1>2
  <2> QED BY <1>1, <1>2, <1>4, <2>1, <2>2, SentStays DEF ObInv, ObTypeOK
<1>8. ArtifactsOK'
  BY DEF ObInv, ArtifactsOK
<1>9. SuccessComplete'
  BY DEF ObInv, SuccessComplete, LogSame
<1> QED BY <1>1, <1>3, <1>5, <1>6, <1>7, <1>8, <1>9 DEF ObInv

(* The readers, when no byte moves and no process starts.                  *)
LEMMA ReaderStays ==
  ASSUME ObInv, LogSame, log'.open = log.open, Alive' => Alive
  PROVE  \A s \in Stream : ReaderOK(s)'
  BY DEF ObInv, ReaderOK, LogSame

(* The monitor sees the exit, ends the tree, or gives up on it.            *)
LEMMA ChildKeeps == ObInv /\ (Child \/ Terminates \/ Unproven) => ObInv'
<1> SUFFICES ASSUME ObInv, Child \/ Terminates \/ Unproven PROVE ObInv'
  OBVIOUS
<1>1. job \in JobType /\ log \in LogType /\ Placed
  BY DEF ObInv, ObTypeOK
<1>2. Alive /\ UNCHANGED <<sink, call, net, ctl, log>>
  BY DEF Child, ChildExits, Terminates, Unproven
<1>3. \E c \in {"zero", "nonzero", "killed", "unproven"} :
      \E r \in Cancels \cup {"none", "exited", "timed_out", "transport_failure"} :
      \E p \in {job.pc, "parked"} :
         /\ job' = [job EXCEPT !.child = c, !.reason = r, !.pc = p]
         /\ p = "parked" => call = NoCall
  <2>1. CASE Child
    <3>1. PICK c \in {"zero", "nonzero"} : ChildExits(c)
      BY <2>1 DEF Child
    <3>2. job' = [job EXCEPT !.child = c, !.reason = "exited", !.pc = job.pc]
      BY <3>1, <1>1 DEF ChildExits, JobType
    <3>3. job.pc # "parked"
      BY <1>1, <1>2 DEF Placed
    <3> QED BY <3>2, <3>3
  <2>2. CASE Terminates
    <3>1. PICK r \in {job.cancel, "timed_out"} :
             job' = [job EXCEPT !.child = "killed", !.reason = r]
      BY <2>2 DEF Terminates
    <3>2. job' = [job EXCEPT !.child = "killed", !.reason = r, !.pc = job.pc]
      BY <3>1, <1>1 DEF JobType
    <3>3. job.pc # "parked"
      BY <1>1, <1>2 DEF Placed
    <3>4. r \in Cancels \cup {"none", "exited", "timed_out", "transport_failure"}
      BY <3>1, <1>1 DEF JobType
    <3> QED BY <3>2, <3>3, <3>4
  <2>3. CASE Unproven
    <3>1. job' = [job EXCEPT !.child = "unproven", !.reason = job.reason, !.pc = "parked"]
      BY <2>3, <1>1 DEF Unproven, JobType
    <3>2. call = NoCall /\ job.reason \in Cancels \cup {"none", "exited", "timed_out", "transport_failure"}
      BY <2>3, <1>1 DEF Unproven, JobType
    <3> QED BY <3>1, <3>2
  <2> QED BY <2>1, <2>2, <2>3
<1>4. PICK c \in {"zero", "nonzero", "killed", "unproven"},
           r \in Cancels \cup {"none", "exited", "timed_out", "transport_failure"},
           p \in {job.pc, "parked"} :
         /\ job' = [job EXCEPT !.child = c, !.reason = r, !.pc = p]
         /\ p = "parked" => call = NoCall
  BY <1>3
<1>5. job.pc \in {"source", "step"}
  BY <1>1, <1>2 DEF Placed
<1>6. /\ job' \in JobType /\ job'.uploadError = job.uploadError /\ job'.sent = job.sent
      /\ job'.found = job.found /\ job'.child = c /\ job'.pc = p /\ job'.cancel = job.cancel
      /\ job'.verified = job.verified /\ job'.left = job.left /\ job'.state = job.state /\ job'.why = job.why
  BY <1>1, <1>4 DEF JobType
<1>7. ~Alive'
  BY <1>6 DEF Alive
<1>8. LogSame /\ log' \in LogType
  BY <1>1, <1>2 DEF LogSame
<1>9. \A s \in Stream : ReaderOK(s)'
  BY <1>2, <1>7, <1>8, ReaderStays
<1>10. Placed'
  BY <1>1, <1>2, <1>4, <1>5, <1>6, <1>7 DEF Placed, NoCall
<1> QED BY <1>2, <1>6, <1>8, <1>9, <1>10, JobMoves

(* Somebody asks the job to stop.                                          *)
LEMMA CancelKeeps == ObInv /\ CancelRequests => ObInv'
<1> SUFFICES ASSUME ObInv, NEW reason \in Cancels, Cancelled(reason) PROVE ObInv'
  BY DEF CancelRequests
<1>1. job \in JobType /\ log \in LogType /\ Placed
  BY DEF ObInv, ObTypeOK
<1>2. UNCHANGED <<log, sink, call, net, ctl>> /\ job' = [job EXCEPT !.cancel = reason]
      /\ reason # "transport_failure"
  BY RunObjectsAssumption DEF Cancelled
<1>3. /\ job' \in JobType /\ job'.uploadError = job.uploadError /\ job'.sent = job.sent
      /\ job'.found = job.found /\ job'.child = job.child /\ job'.pc = job.pc
      /\ job'.cancel = reason /\ job'.verified = job.verified /\ job'.left = job.left
      /\ job'.state = job.state /\ job'.why = job.why
  BY <1>1, <1>2 DEF JobType
<1>4. LogSame /\ log' \in LogType /\ (Alive' => Alive)
  BY <1>1, <1>2, <1>3 DEF LogSame, Alive
<1>5. \A s \in Stream : ReaderOK(s)'
  BY <1>2, <1>4, ReaderStays
<1>6. Placed'
  BY <1>1, <1>2, <1>3 DEF Placed, Alive
<1> QED BY <1>2, <1>3, <1>4, <1>5, <1>6, JobMoves

(* A file changes under the collection.                                    *)
LEMMA FileKeeps == ObInv /\ (\E f \in Files : FileChanges(f)) => ObInv'
<1> SUFFICES ASSUME ObInv, NEW f \in Files, FileChanges(f) PROVE ObInv'
  OBVIOUS
<1>1. job \in JobType /\ log \in LogType /\ Placed
  BY DEF ObInv, ObTypeOK
<1>2. UNCHANGED <<log, sink, call, net, ctl>> /\ job' = [job EXCEPT !.file[f] = 2]
  BY DEF FileChanges
<1>3. /\ job' \in JobType /\ job'.uploadError = job.uploadError /\ job'.sent = job.sent
      /\ job'.found = job.found /\ job'.child = job.child /\ job'.pc = job.pc
      /\ job'.cancel = job.cancel /\ job'.verified = job.verified /\ job'.left = job.left
      /\ job'.state = job.state /\ job'.why = job.why
  BY <1>1, <1>2 DEF JobType
<1>4. LogSame /\ log' \in LogType /\ (Alive' => Alive)
  BY <1>1, <1>2, <1>3 DEF LogSame, Alive
<1>5. \A s \in Stream : ReaderOK(s)'
  BY <1>2, <1>4, ReaderStays
<1>6. Placed'
  BY <1>1, <1>2, <1>3 DEF Placed, Alive
<1> QED BY <1>2, <1>3, <1>4, <1>5, <1>6, JobMoves

(* Where a finished task may be, and with what.                            *)
LEMMA StatesFor ==
  \A r : StateFor(r) \in {"failed", "cancelled"} /\ (StateFor(r) = "cancelled" => r \in Stops)
  BY DEF StateFor, Stops

(* What a flag, a process or a source gives as its reason.                 *)
LEMMA ReasonsGiven ==
  ASSUME job \in JobType
  PROVE  /\ job.cancel # "none" => job.cancel \in Whys
         /\ Reason \in Stops \cup {"none", "exited", "transport_failure"} /\ StepReason \in Whys
         /\ \A r \in {"none", Reason} : SourceReason(r) \in SourceWhys
<1>1. Cancels \subseteq Stops
  BY RunObjectsAssumption DEF Stops
<1>2. /\ job.cancel \in Stops \cup {"none", "transport_failure"}
      /\ job.reason \in Stops \cup {"none", "exited", "transport_failure"}
  BY <1>1 DEF JobType, Stops
<1>3. Reason \in Stops \cup {"none", "exited", "transport_failure"}
  BY <1>2 DEF Reason
<1>4. job.source \in {"git", "snapshot"}
  BY RunObjectsAssumption DEF JobType
<1>5. \A r \in {"none", Reason} : SourceReason(r) \in SourceWhys
  BY <1>2, <1>3, <1>4 DEF SourceReason, SourceWhys
<1> QED BY <1>2, <1>3, <1>5 DEF StepReason, Whys, SourceWhys

(* The main task ends with a failure or a cancellation.                    *)
LEMMA FinishKeeps ==
  ASSUME ObInv, UNCHANGED <<log, sink, call, net, ctl>>, NEW state \in {"failed", "cancelled"},
         NEW why \in Whys, NEW left \in Nat, FinishAs(state, why, left),
         ~job.verified => left = job.left /\ why \in SourceWhys,
         state = "cancelled" => why \in Stops \cup {"artifact_verification_failed"},
         job.pc \notin {"complete", "done", "parked"}, ~Alive, call = NoCall,
         log.queue = <<>>, \A s \in Stream : ~log.open[s]
  PROVE  ObInv'
<1>1. job \in JobType /\ log \in LogType /\ Placed
  BY DEF ObInv, ObTypeOK
<1>2. /\ job' \in JobType /\ job'.uploadError = job.uploadError /\ job'.sent = job.sent
      /\ job'.found = job.found /\ job'.child = job.child /\ job'.pc = "complete"
      /\ job'.cancel = job.cancel /\ job'.state = state /\ job'.why = why
      /\ job'.left = left /\ job'.verified = job.verified
  <2>1. PICK ordered \in BOOLEAN :
           job' = [job EXCEPT !.pc = "complete", !.state = state, !.why = why,
                              !.left = left, !.ordered = ordered]
    BY DEF FinishAs
  <2> QED BY <1>1, <2>1 DEF JobType, Outcomes
<1>3. LogSame /\ log' \in LogType /\ ~Alive'
  BY <1>1, <1>2 DEF LogSame, Alive
<1>4. \A s \in Stream : ReaderOK(s)'
  BY <1>3, ReaderStays
<1>5. Placed'
  BY <1>1, <1>2, <1>3 DEF Placed, NoCall
<1> QED BY <1>2, <1>3, <1>4, <1>5, JobMoves

(* A process starts: nothing of an earlier one is left in the pipes.       *)
LEMMA LaunchKeeps ==
  ASSUME ObInv, UNCHANGED <<sink, call, net, ctl>>, call = NoCall, NEW phase \in {"source", "step"},
         Launches(phase),
         \/ job.pc = "assigned" /\ phase = "source"
         \/ job.pc = "steps" /\ phase = "step" /\ job.left > 0
  PROVE  ObInv'
<1>1. job \in JobType /\ log \in LogType /\ Placed
  BY DEF ObInv, ObTypeOK
<1>2. /\ job' = [job EXCEPT !.pc = phase, !.child = "running", !.reason = "none", !.uploadError = FALSE]
      /\ log' = [log EXCEPT !.open = [s \in Stream |-> TRUE]]
  BY DEF Launches
<1>3. ~job.uploadError
  BY <1>1 DEF Placed
<1>4. /\ job' \in JobType /\ job'.uploadError = FALSE /\ job'.sent = job.sent
      /\ job'.found = job.found /\ job'.child = "running" /\ job'.pc = phase
      /\ job'.cancel = job.cancel /\ job'.state = job.state /\ job'.why = job.why
      /\ job'.verified = job.verified /\ job'.left = job.left
  BY <1>1, <1>2 DEF JobType
<1>5. LogSame /\ log' \in LogType /\ \A s \in Stream : log'.open[s]
  BY <1>1, <1>2 DEF LogSame, LogType
<1>6. \A s \in Stream : ReaderOK(s)'
  BY <1>5 DEF ObInv, ReaderOK, LogSame
<1>7. Placed'
  BY <1>1, <1>3, <1>4 DEF Placed, NoCall, Alive
<1> QED
  <2>1. job'.uploadError = job.uploadError
    BY <1>1, <1>3, <1>4 DEF JobType
  <2> QED BY <1>4, <1>5, <1>6, <1>7, <2>1, JobMoves

(* The main task moves on, with nothing running.                           *)
LEMMA MoveKeeps ==
  ASSUME ObInv, UNCHANGED <<log, sink, call, net, ctl>>, job' \in JobType,
         job'.uploadError = job.uploadError, job'.sent = job.sent, job'.child = job.child,
         ctl.verdict.state = "succeeded" => job'.found = job.found, Placed'
  PROVE  ObInv'
<1>1. LogSame /\ log' \in LogType /\ (Alive' => Alive)
  BY DEF ObInv, ObTypeOK, LogSame, Alive
<1>2. \A s \in Stream : ReaderOK(s)'
  BY <1>1, ReaderStays
<1> QED BY <1>1, <1>2, JobMoves

(* When no process runs, nothing is on its way to the sink.                *)
LEMMA Quiescent ==
  ASSUME ObInv, job.pc \notin {"source", "step", "artifact", "parked"}
  PROVE  call = NoCall /\ ~Alive /\ log.queue = <<>> /\ \A s \in Stream : ~log.open[s]
<1>1. Placed /\ call \in {NoCall} \cup LogCall \cup ArtifactCall
  BY DEF ObInv, ObTypeOK
<1> QED BY <1>1, CallFields DEF Placed

(* The source is fetched and verified, or it is not.                       *)
LEMMA SourceKeeps ==
  ObInv /\ (StartsSource \/ SourceFails \/ Extracts \/ SourceEnds) => ObInv'
<1> SUFFICES ASSUME ObInv, StartsSource \/ SourceFails \/ Extracts \/ SourceEnds PROVE ObInv'
  OBVIOUS
<1>1. job \in JobType /\ log \in LogType /\ Placed
  BY DEF ObInv, ObTypeOK
<1>2. CASE StartsSource
  <2>1. job.pc = "assigned" /\ UNCHANGED <<sink, call, net, ctl>> /\ call = NoCall
    BY <1>2, Quiescent DEF StartsSource
  <2>2. CASE Launches("source")
    BY <2>1, <2>2, LaunchKeeps
  <2>3. CASE Move("extract") /\ UNCHANGED log
    <3>1. job' = [job EXCEPT !.pc = "extract"]
      BY <2>3 DEF Move
    <3>2. /\ job' \in JobType /\ job'.uploadError = job.uploadError /\ job'.sent = job.sent
          /\ job'.found = job.found /\ job'.child = job.child /\ job'.pc = "extract"
          /\ job'.cancel = job.cancel /\ job'.state = job.state /\ job'.why = job.why
          /\ job'.verified = job.verified /\ job'.left = job.left
      BY <1>1, <3>1 DEF JobType
    <3>3. Placed'
      BY <1>1, <2>1, <2>3, <3>2 DEF Placed, NoCall, Alive
    <3> QED BY <2>1, <2>3, <3>2, <3>3, MoveKeeps
  <2> QED BY <1>2, <2>2, <2>3 DEF StartsSource
<1>3. CASE SourceFails
  <2>1. PICK why : why = SourceReason("none")
    OBVIOUS
  <2>2. /\ job.pc \in {"assigned", "extract"} /\ UNCHANGED <<log, sink, call, net, ctl>>
        /\ FinishAs(StateFor(why), why, job.left)
    BY <1>3, <2>1 DEF SourceFails, SourceFailure
  <2>3. call = NoCall /\ ~Alive /\ log.queue = <<>> /\ \A s \in Stream : ~log.open[s]
    BY <2>2, Quiescent
  <2>4. why \in SourceWhys /\ why \in Whys /\ job.left \in Nat
    BY <1>1, <2>1, ReasonsGiven DEF Whys, JobType
  <2> QED BY <2>2, <2>3, <2>4, StatesFor, FinishKeeps
<1>4. CASE Extracts
  <2>1. /\ job.pc = "extract" /\ UNCHANGED <<log, sink, call, net, ctl>>
        /\ job' = [job EXCEPT !.pc = "steps", !.verified = TRUE]
    BY <1>4 DEF Extracts
  <2>2. /\ job' \in JobType /\ job'.uploadError = job.uploadError /\ job'.sent = job.sent
        /\ job'.found = job.found /\ job'.child = job.child /\ job'.pc = "steps"
        /\ job'.cancel = job.cancel /\ job'.state = job.state /\ job'.why = job.why /\ job'.verified
    BY <1>1, <2>1 DEF JobType
  <2>3. Placed'
    BY <1>1, <2>1, <2>2, Quiescent DEF Placed, NoCall, Alive
  <2> QED BY <2>1, <2>2, <2>3, MoveKeeps
<1>5. CASE SourceEnds
  <2>1. /\ job.pc = "source" /\ UNCHANGED <<log, sink, call, net, ctl>> /\ call = NoCall
        /\ log.queue = <<>> /\ ~Alive /\ \A s \in Stream : ~log.open[s]
    BY <1>5 DEF SourceEnds, Drained, Alive
  <2>2. CASE Succeeded /\ job' = [job EXCEPT !.pc = "steps", !.verified = TRUE]
    <3>1. ~job.uploadError
      BY <2>2 DEF Succeeded, Reason
    <3>2. /\ job' \in JobType /\ job'.uploadError = job.uploadError /\ job'.sent = job.sent
          /\ job'.found = job.found /\ job'.child = job.child /\ job'.pc = "steps"
          /\ job'.cancel = job.cancel /\ job'.state = job.state /\ job'.why = job.why /\ job'.verified
      BY <1>1, <2>2 DEF JobType
    <3>3. Placed'
      BY <1>1, <2>1, <3>1, <3>2 DEF Placed, NoCall, Alive
    <3> QED BY <2>1, <3>2, <3>3, MoveKeeps
  <2>3. CASE SourceFailure(Reason)
    <3>1. PICK why : why = SourceReason(Reason)
      OBVIOUS
    <3>2. FinishAs(StateFor(why), why, job.left)
      BY <2>3, <3>1 DEF SourceFailure
    <3>3. why \in SourceWhys /\ why \in Whys /\ job.left \in Nat
      BY <1>1, <3>1, ReasonsGiven DEF Whys, JobType
    <3> QED BY <2>1, <3>2, <3>3, StatesFor, FinishKeeps
  <2> QED BY <1>5, <2>2, <2>3 DEF SourceEnds
<1> QED BY <1>2, <1>3, <1>4, <1>5

(* The steps run one after the other.                                      *)
LEMMA StepsKeep == ObInv /\ (NextStep \/ StepRefused \/ StepEnds) => ObInv'
<1> SUFFICES ASSUME ObInv, NextStep \/ StepRefused \/ StepEnds PROVE ObInv'
  OBVIOUS
<1>1. job \in JobType /\ log \in LogType /\ Placed
  BY DEF ObInv, ObTypeOK
<1>2. CASE NextStep
  <2>1. /\ job.pc = "steps" /\ UNCHANGED <<sink, call, net, ctl>> /\ call = NoCall
        /\ ~Alive /\ log.queue = <<>> /\ \A s \in Stream : ~log.open[s]
    BY <1>2, Quiescent DEF NextStep
  <2>2. CASE /\ job.cancel # "none" /\ FinishAs(StateFor(job.cancel), job.cancel, job.left)
             /\ UNCHANGED log
    <3>1. job.cancel \in Whys /\ job.left \in Nat /\ job.verified
      BY <1>1, <2>1, <2>2, ReasonsGiven DEF JobType, Placed
    <3> QED BY <2>1, <2>2, <3>1, StatesFor, FinishKeeps
  <2>3. CASE job.left > 0 /\ Launches("step")
    BY <2>1, <2>3, LaunchKeeps
  <2>4. CASE job.left = 0 /\ Move("collect") /\ UNCHANGED log
    <3>1. job' = [job EXCEPT !.pc = "collect"]
      BY <2>4 DEF Move
    <3>2. /\ job' \in JobType /\ job'.uploadError = job.uploadError /\ job'.sent = job.sent
          /\ job'.found = job.found /\ job'.child = job.child /\ job'.pc = "collect"
          /\ job'.cancel = job.cancel /\ job'.state = job.state /\ job'.why = job.why
          /\ job'.verified = job.verified /\ job'.left = 0
      BY <1>1, <2>4, <3>1 DEF JobType
    <3>3. Placed'
      BY <1>1, <2>1, <2>4, <3>2 DEF Placed, NoCall, Alive
    <3> QED BY <2>1, <2>4, <3>2, <3>3, MoveKeeps
  <2> QED BY <1>2, <2>2, <2>3, <2>4 DEF NextStep
<1>3. CASE StepRefused
  <2>1. /\ job.pc = "steps" /\ UNCHANGED <<log, sink, call, net, ctl>> /\ call = NoCall
        /\ ~Alive /\ log.queue = <<>> /\ \A s \in Stream : ~log.open[s]
        /\ job.left > 0
        /\ \/ FinishAs("failed", "timed_out", job.left)
           \/ FinishAs("failed", "execution_failed", job.left - 1)
    BY <1>3, Quiescent DEF StepRefused
  <2>2. /\ job.left \in Nat /\ job.left - 1 \in Nat /\ job.verified
        /\ "timed_out" \in Whys /\ "execution_failed" \in Whys
    BY <1>1, <2>1 DEF JobType, Placed, Whys, SourceWhys, Stops
  <2> QED BY <2>1, <2>2, FinishKeeps
<1>4. CASE StepEnds
  <2>1. /\ job.pc = "step" /\ UNCHANGED <<log, sink, call, net, ctl>> /\ call = NoCall
        /\ log.queue = <<>> /\ ~Alive /\ \A s \in Stream : ~log.open[s]
    BY <1>4 DEF StepEnds, Drained, Alive
  <2>2. CASE Succeeded
    <3>1. ~job.uploadError
      BY <2>2 DEF Succeeded, Reason
    <3> DEFINE n == job.left - 1
    <3>2. job' = [job EXCEPT !.pc = "steps", !.left = n]
      BY <1>4, <2>2 DEF StepEnds
    <3>3. n \in Nat
      BY <1>1, <2>1 DEF Placed, JobType
    <3> HIDE DEF n
    <3>4. /\ job' \in JobType /\ job'.uploadError = job.uploadError /\ job'.sent = job.sent
          /\ job'.found = job.found /\ job'.child = job.child /\ job'.pc = "steps"
          /\ job'.cancel = job.cancel /\ job'.state = job.state /\ job'.why = job.why
          /\ job'.verified = job.verified
      BY <1>1, <3>2, <3>3 DEF JobType
    <3>5. Placed'
      BY <1>1, <2>1, <3>1, <3>4 DEF Placed, NoCall, Alive
    <3> QED BY <2>1, <3>4, <3>5, MoveKeeps
  <2>3. CASE ~Succeeded
    <3>1. FinishAs(StateFor(StepReason), StepReason, job.left - 1)
      BY <1>4, <2>3 DEF StepEnds
    <3>2. StepReason \in Whys /\ job.left - 1 \in Nat /\ job.verified
      BY <1>1, <2>1, ReasonsGiven DEF JobType, Placed
    <3> QED BY <2>1, <3>1, <3>2, StatesFor, FinishKeeps
  <2> QED BY <2>2, <2>3
<1> QED BY <1>2, <1>3, <1>4

(* The collection fails: the flag is looked at for the reason.             *)
LEMMA CollectionJob ==
  ASSUME ObInv, CollectionFails, job.pc \in {"collect", "artifact"}
  PROVE  /\ job' \in JobType /\ job'.uploadError = job.uploadError /\ job'.sent = job.sent
         /\ job'.child = job.child /\ job'.pc = "failing" /\ job'.found = job.found
         /\ job'.cancel = job.cancel /\ job'.state = job.state
         /\ job'.verified = job.verified /\ job'.left = job.left
         /\ job'.why \in Stops \cup {"artifact_verification_failed"}
<1>1. job \in JobType /\ Placed
  BY DEF ObInv, ObTypeOK
<1>2. job.cancel \in Stops \cup {"none"}
  BY <1>1, RunObjectsAssumption DEF Placed, JobType, Stops
<1>3. /\ CollectionReason \in Stops \cup {"artifact_verification_failed"}
      /\ CollectionReason \in Whys
  BY <1>2 DEF CollectionReason, Whys, SourceWhys
<1>4. job' = [job EXCEPT !.pc = "failing", !.why = CollectionReason]
  BY DEF CollectionFails
<1> QED BY <1>1, <1>3, <1>4 DEF JobType

(* The artifacts are listed, and all of them are sent.                     *)
LEMMA CollectsKeep == ObInv /\ (Collects \/ CollectFails \/ ArtifactsDone \/ Settles) => ObInv'
<1> SUFFICES ASSUME ObInv, Collects \/ CollectFails \/ ArtifactsDone \/ Settles PROVE ObInv'
  OBVIOUS
<1>1. job \in JobType /\ log \in LogType /\ Placed
  BY DEF ObInv, ObTypeOK
<1>2. CASE Collects
  <2> DEFINE all == {[file |-> f, version |-> job.file[f]] : f \in Files}
  <2>1. /\ job.pc = "collect" /\ UNCHANGED <<log, sink, call, net, ctl>>
        /\ job' = [job EXCEPT !.pc = "artifact", !.found = all]
    BY <1>2 DEF Collects
  <2>2. all \in SUBSET Artifact
    BY <1>1 DEF JobType, Artifact
  <2> HIDE DEF all
  <2>3. /\ job' \in JobType /\ job'.uploadError = job.uploadError /\ job'.sent = job.sent
        /\ job'.child = job.child /\ job'.pc = "artifact"
        /\ job'.cancel = job.cancel /\ job'.state = job.state /\ job'.why = job.why
        /\ job'.verified = job.verified /\ job'.left = job.left
    BY <1>1, <2>1, <2>2 DEF JobType
  <2>4. call = NoCall /\ ~Alive /\ log.queue = <<>> /\ \A s \in Stream : ~log.open[s]
    BY <2>1, Quiescent
  <2>5. Placed'
    BY <1>1, <2>1, <2>3, <2>4 DEF Placed, NoCall, Alive
  <2>6. ctl.verdict.state = "none"
    BY <1>1, <2>1 DEF Placed
  <2> QED BY <2>1, <2>3, <2>5, <2>6, MoveKeeps
<1>3. CASE CollectFails
  <2>1. /\ job.pc = "collect" /\ UNCHANGED <<log, sink, call, net, ctl>> /\ call = NoCall
        /\ ~Alive /\ log.queue = <<>> /\ \A s \in Stream : ~log.open[s]
        /\ CollectionFails
    BY <1>3, Quiescent DEF CollectFails
  <2>2. Placed'
    BY <1>1, <2>1, CollectionJob DEF Placed, NoCall, Alive
  <2> QED BY <2>1, <2>2, CollectionJob, MoveKeeps
<1>4. CASE ArtifactsDone
  <2>1. /\ job.pc = "artifact" /\ UNCHANGED <<log, sink, call, net, ctl>> /\ call = NoCall
        /\ FinishAs("succeeded", "exited", job.left)
        /\ job.found = job.sent
    BY <1>4 DEF ArtifactsDone
  <2>2. /\ job' \in JobType /\ job'.uploadError = job.uploadError /\ job'.sent = job.sent
        /\ job'.child = job.child /\ job'.pc = "complete" /\ job'.found = job.found
        /\ job'.cancel = job.cancel /\ job'.state = "succeeded" /\ job'.why = "exited"
        /\ job'.verified = job.verified /\ job'.left = job.left
    <3>1. PICK ordered \in BOOLEAN :
             job' = [job EXCEPT !.pc = "complete", !.state = "succeeded", !.why = "exited",
                                !.left = job.left, !.ordered = ordered]
      BY <2>1 DEF FinishAs
    <3>2. "exited" \in Whys
      BY DEF Whys
    <3> QED BY <1>1, <3>1, <3>2 DEF JobType, Outcomes
  <2>3. Placed'
    BY <1>1, <2>1, <2>2 DEF Placed, NoCall, Alive
  <2> QED BY <2>1, <2>2, <2>3, MoveKeeps
<1>5. CASE Settles
  <2>1. /\ job.pc = "failing" /\ UNCHANGED <<log, sink, call, net, ctl>> /\ call = NoCall
        /\ ~Alive /\ log.queue = <<>> /\ \A s \in Stream : ~log.open[s]
        /\ FinishAs(StateFor(job.cancel), job.why, job.left)
    BY <1>5, Quiescent DEF Settles
  <2>2. /\ job.why \in Whys /\ job.left \in Nat /\ job.verified
        /\ job.why \in Stops \cup {"artifact_verification_failed"}
    BY <1>1, <2>1 DEF JobType, Placed
  <2> QED BY <2>1, <2>2, StatesFor, FinishKeeps
<1> QED BY <1>2, <1>3, <1>4, <1>5

(* The completion is compared with the rows; a success that passes is      *)
(* about a log that holds everything up to a mark of truncation.           *)
LEMMA CompletesKeeps == ObInv /\ Completes => ObInv'
<1> SUFFICES ASSUME ObInv, Completes PROVE ObInv'
  OBVIOUS
<1>1. job \in JobType /\ log \in LogType /\ ctl \in CtlType /\ Placed
      /\ sink \in [Stream -> [bytes : Nat, chunks : Nat]]
  BY DEF ObInv, ObTypeOK
<1>2. job.pc = "complete" /\ UNCHANGED <<log, sink, call, net>>
  BY DEF Completes
<1>3. call = NoCall /\ ~Alive /\ log.queue = <<>> /\ \A s \in Stream : ~log.open[s]
  BY <1>2, Quiescent
<1>4. CASE ctl' = ctl /\ job' = [job EXCEPT !.pc = "parked"]
  <2>1. /\ job' \in JobType /\ job'.uploadError = job.uploadError /\ job'.sent = job.sent
        /\ job'.child = job.child /\ job'.pc = "parked" /\ job'.found = job.found
        /\ job'.cancel = job.cancel /\ job'.state = job.state /\ job'.why = job.why
        /\ job'.verified = job.verified /\ job'.left = job.left
    BY <1>1, <1>4 DEF JobType
  <2>2. Placed'
    BY <1>1, <1>2, <1>3, <1>4, <2>1 DEF Placed, NoCall, Alive
  <2> QED BY <1>2, <1>4, <2>1, <2>2, MoveKeeps
<1>5. CASE /\ Admits /\ EvidenceHolds
           /\ ctl' = [ctl EXCEPT !.verdict = Evidence] /\ job' = [job EXCEPT !.pc = "done"]
  <2>1. /\ job' \in JobType /\ job'.uploadError = job.uploadError /\ job'.sent = job.sent
        /\ job'.child = job.child /\ job'.pc = "done" /\ job'.found = job.found
        /\ job'.cancel = job.cancel /\ job'.state = job.state /\ job'.why = job.why
        /\ job'.verified = job.verified /\ job'.left = job.left
    BY <1>1, <1>5 DEF JobType
  <2>2. Evidence \in [state : Outcomes, why : Whys, verified : BOOLEAN, steps : Int,
                      streams : [Stream -> [bytes : Nat, chunks : Nat]],
                      cut : [Stream -> BOOLEAN], arts : SUBSET Artifact]
    <3>1. Steps - job.left \in Int
      BY <1>1, RunObjectsAssumption DEF JobType
    <3>2. log.cut \in [Stream -> BOOLEAN] /\ job.sent \in SUBSET Artifact
          /\ job.state \in Outcomes /\ job.verified \in BOOLEAN /\ job.why \in Whys
      BY <1>1 DEF JobType, LogType
    <3> QED BY <1>1, <3>1, <3>2 DEF Evidence
  <2>3. /\ Evidence.state = job.state /\ Evidence.cut = log.cut
        /\ Evidence.verified = job.verified
    BY DEF Evidence
  <2>4. /\ ctl' \in CtlType /\ ctl'.rows = ctl.rows /\ ctl'.objects = ctl.objects
        /\ ctl'.arts = ctl.arts /\ ctl'.verdict = Evidence
    BY <1>1, <1>5, <2>2 DEF CtlType, Verdicts
  <2>5. ObTypeOK'
    BY <1>2, <2>1, <2>4 DEF ObInv, ObTypeOK
  <2>6. Kept' = Kept /\ Kept \in Nat
    BY <1>2, <2>4, KeptNat DEF Kept, ObInv
  <2>7. LimitOK'
    BY <1>2, <2>6 DEF LimitOK, ObInv
  <2>8. LogSame /\ log'.open = log.open /\ ~Alive'
    BY <1>2, <1>3, <2>1 DEF LogSame, Alive
  <2>9. \A s \in Stream : ReaderOK(s)'
    BY <2>8, ReaderStays
  <2>10. \A s \in Stream : log.read[s] <= log'.read[s]
    BY <1>1, <1>2, LogFields
  <2>11. \A s \in Stream : StreamOK(s)'
    BY <1>1, <1>2, <2>1, <2>4, <2>10, StreamStays DEF ObInv
  <2>12. \A s \in Stream : ~job'.uploadError => Chained(s)'
    BY <1>2, <2>1 DEF ObInv, Chained, Given
  <2>13. SentOK'
    <3>1. LogWhats' = LogWhats
      BY <1>2 DEF LogWhats
    <3>2. Kept' <= Kept
      BY <2>6
    <3> QED BY <1>1, <1>2, <2>1, <2>4, <2>6, <2>10, <3>1, <3>2, SentStays DEF ObInv
  <2>14. ArtifactsOK'
    BY <1>2, <2>1, <2>4 DEF ObInv, ArtifactsOK
  <2>15. Placed'
    BY <1>1, <1>2, <1>3, <2>1, <2>8 DEF Placed, NoCall
  <2>16. SuccessComplete'
    <3> SUFFICES ASSUME job.state = "succeeded"
                 PROVE  /\ \A s \in Stream : Bytes(ctl.rows[s]) = log.wrote[s] \/ log.cut[s]
                        /\ \A a \in job.found : ctl.arts[a.file] = a.version
                        /\ job.verified
      BY <1>2, <2>1, <2>3, <2>4 DEF SuccessComplete
    <3>1. job.verified /\ ~job.uploadError /\ job.found = job.sent
      BY <1>1 DEF Placed
    <3>2. \A a \in job.found : ctl.arts[a.file] = a.version
      BY <3>1 DEF ObInv, ArtifactsOK
    <3>3. ASSUME NEW s \in Stream, ~log.cut[s] PROVE Bytes(ctl.rows[s]) = log.wrote[s]
      <4>1. Bytes(ctl.rows[s]) = sink[s].bytes
        BY <1>5 DEF EvidenceHolds, StreamMatches
      <4>2. log.read[s] = log.wrote[s] /\ log.held[s] = <<>>
        BY <1>3 DEF ObInv, ReaderOK
      <4>3. Given(s) + Bytes(Part(s, log.queue)) + Bytes(log.held[s]) = log.read[s]
        BY <3>1, <3>3 DEF ObInv, Chained
      <4>4. Given(s) = sink[s].bytes
        BY <1>1, <1>3 DEF Given, NoCall
      <4>5. Bytes(Part(s, log.queue)) = 0 /\ Bytes(log.held[s]) = 0
        <5>1. Part(s, <<>>) = <<>>
          BY DEF Part
        <5> QED BY <1>3, <4>2, <5>1, BytesEmpty
      <4> QED BY <1>1, <4>1, <4>2, <4>3, <4>4, <4>5
    <3> QED BY <3>1, <3>2, <3>3
  <2> QED BY <2>5, <2>7, <2>9, <2>11, <2>12, <2>13, <2>14, <2>15, <2>16 DEF ObInv
<1> QED BY <1>4, <1>5 DEF Completes, Move

-----------------------------------------------------------------------------
(* Uploads.                                                                *)

(* A call ends, is tried again, or begins with an artifact: no new chunk   *)
(* is sent and none is stored.                                             *)
LEMMA CallMoves ==
  ASSUME ObInv, ObTypeOK', UNCHANGED <<log, sink, ctl>>, LogWhats' \subseteq LogWhats,
         job'.child = job.child, job'.found = job.found,
         ~job'.uploadError =>
            ~job.uploadError /\ (call.kind = "log" => call'.kind = "log" /\ call'.what = call.what),
         call'.kind = "log" =>
            call.kind = "log" /\ call'.what = call.what /\ call'.reply = call.reply,
         ArtifactsOK', Placed'
  PROVE  ObInv'
<1>1. log \in LogType /\ ctl \in CtlType /\ log' \in LogType
  BY DEF ObInv, ObTypeOK
<1>2. Kept' = Kept /\ Kept \in Nat /\ Kept' <= Kept
  BY KeptNat DEF Kept, ObInv
<1>3. LimitOK'
  BY <1>2 DEF LimitOK, ObInv
<1>4. \A s \in Stream : log.read[s] <= log'.read[s]
  BY <1>1, LogFields
<1>5. \A s \in Stream : ReaderOK(s)'
  BY DEF ObInv, ReaderOK, Alive
<1>6. \A s \in Stream : StreamOK(s)'
  BY <1>1, <1>4, StreamStays DEF ObInv
<1>7. \A s \in Stream : ~job'.uploadError => Chained(s)'
  <2> SUFFICES ASSUME NEW s \in Stream, ~job'.uploadError PROVE Chained(s)'
    OBVIOUS
  <2>1. Given(s)' = Given(s)
    BY DEF Given
  <2>2. Chained(s)
    BY DEF ObInv
  <2> QED BY <2>1, <2>2 DEF Chained
<1>8. SentOK'
  BY <1>1, <1>2, <1>4, SentStays DEF ObInv
<1>9. SuccessComplete'
  BY DEF ObInv, SuccessComplete
<1> QED BY <1>3, <1>5, <1>6, <1>7, <1>8, <1>9 DEF ObInv

(* Another attempt sends the same chunk.                                   *)
LEMMA RetriesKeep == ObInv /\ Retries => ObInv'
<1> SUFFICES ASSUME ObInv, Retries PROVE ObInv'
  OBVIOUS
<1>1. ObTypeOK /\ call \in {NoCall} \cup LogCall \cup ArtifactCall /\ Placed
  BY DEF ObInv, ObTypeOK
<1>2. /\ call.kind # "none" /\ UNCHANGED <<log, sink, ctl, job>>
      /\ call' = [call EXCEPT !.attempt = @ + 1]
  BY DEF Retries, Waiting
<1>3. call \in LogCall \cup ArtifactCall
  BY <1>1, <1>2 DEF NoCall
<1>4. /\ call' \in LogCall \cup ArtifactCall /\ call'.kind = call.kind /\ call'.what = call.what
      /\ call'.reply = call.reply
  BY <1>2, <1>3 DEF LogCall, ArtifactCall
<1>5. PICK late \in BOOLEAN :
         net' = (IF late THEN net ELSE net \ {Wire(call, call.attempt)})
                  \cup {Wire(call, call.attempt + 1)}
  BY DEF Retries
<1> DEFINE new == Wire(call, call.attempt + 1)
<1>6. new \in [what : LogWhat \cup Artifact, attempt : Nat] /\ new.what = call.what
  BY <1>3 DEF LogCall, ArtifactCall, Wire
<1> HIDE DEF new
<1>7. net' \subseteq net \cup {new}
  BY <1>5 DEF new
<1>8. ObTypeOK'
  BY <1>1, <1>2, <1>4, <1>6, <1>7 DEF ObTypeOK
<1>9. LogWhats' \subseteq LogWhats
  <2>1. ASSUME NEW w \in LogWhats' PROVE w \in LogWhats
    <3>1. CASE \E r \in net : r.what = w /\ w \in LogWhat
      BY <3>1 DEF LogWhats
    <3>2. CASE w = call.what /\ w \in LogWhat
      <4>1. call.kind = "log"
        BY <1>3, <3>2 DEF LogCall, ArtifactCall, LogWhat, Artifact
      <4> QED BY <3>2, <4>1 DEF LogWhats
    <3>3. CASE call.kind = "log" /\ w = call.what
      BY <3>3 DEF LogWhats
    <3> QED BY <1>4, <1>6, <1>7, <2>1, <3>1, <3>2, <3>3 DEF LogWhats
  <2> QED BY <2>1
<1>10. ArtifactsOK' /\ Placed'
  BY <1>1, <1>2, <1>4 DEF ObInv, ArtifactsOK, Placed, Alive
<1> QED BY <1>2, <1>4, <1>8, <1>9, <1>10, CallMoves

(* A call that is over leaves what is on the wire.                         *)
LEMMA WhatsShrink ==
  ASSUME net' \subseteq net, call' = NoCall
  PROVE  LogWhats' \subseteq LogWhats
<1>1. call'.kind # "log"
  BY DEF NoCall
<1> QED BY <1>1 DEF LogWhats

(* A failed chunk stops the child; a failed artifact ends the collection.  *)
LEMMA FailureKeeps ==
  ASSUME ObInv, call.kind # "none", call' = NoCall, net' \subseteq net, CallFails,
         UNCHANGED <<log, sink, ctl>>
  PROVE  ObInv'
<1>1. ObTypeOK /\ call \in {NoCall} \cup LogCall \cup ArtifactCall /\ Placed /\ job \in JobType
  BY DEF ObInv, ObTypeOK
<1>2. LogWhats' \subseteq LogWhats /\ call'.kind = "none"
  BY WhatsShrink DEF NoCall
<1>3. ArtifactsOK' \/ job'.sent # job.sent
  BY <1>2 DEF ObInv, ArtifactsOK
<1>4. CASE call.kind = "log"
  <2>1. job' = [job EXCEPT !.cancel = "transport_failure", !.uploadError = TRUE]
    BY <1>4 DEF CallFails
  <2>2. /\ job' \in JobType /\ job'.uploadError = TRUE /\ job'.sent = job.sent
        /\ job'.child = job.child /\ job'.pc = job.pc /\ job'.found = job.found
        /\ job'.cancel = "transport_failure" /\ job'.state = job.state /\ job'.why = job.why
        /\ job'.verified = job.verified /\ job'.left = job.left
    BY <1>1, <2>1 DEF JobType
  <2>3. Placed'
    BY <1>1, <1>2, <1>4, <2>2 DEF Placed, Alive
  <2>4. ObTypeOK'
    BY <1>1, <2>2 DEF ObTypeOK
  <2> QED BY <1>2, <1>3, <2>2, <2>3, <2>4, CallMoves
<1>5. CASE call.kind = "artifact"
  <2>1. CollectionFails /\ job.pc = "artifact"
    BY <1>1, <1>5 DEF CallFails, Placed
  <2>2. /\ job' \in JobType /\ job'.uploadError = job.uploadError /\ job'.sent = job.sent
        /\ job'.child = job.child /\ job'.pc = "failing" /\ job'.found = job.found
        /\ job'.cancel = job.cancel /\ job'.state = job.state
        /\ job'.verified = job.verified /\ job'.left = job.left
        /\ job'.why \in Stops \cup {"artifact_verification_failed"}
    BY <2>1, CollectionJob
  <2>3. Placed'
    BY <1>1, <1>2, <1>5, <2>1, <2>2 DEF Placed, Alive
  <2>4. ObTypeOK'
    BY <1>1, <2>2 DEF ObTypeOK
  <2> QED BY <1>2, <1>3, <1>5, <2>2, <2>3, <2>4, CallMoves
<1> QED BY <1>1, <1>4, <1>5, CallFields

(* The last attempt failed, or the controller refused.                     *)
LEMMA GivesUpKeeps == ObInv /\ (GivesUp \/ Refused) => ObInv'
<1> SUFFICES ASSUME ObInv, GivesUp \/ Refused PROVE ObInv'
  OBVIOUS
<1>1. /\ call.kind # "none" /\ call' = NoCall /\ CallFails /\ UNCHANGED <<log, sink, ctl>>
      /\ net' \subseteq net
  BY DEF GivesUp, Refused, Waiting
<1> QED BY <1>1, FailureKeeps

(* An artifact is acknowledged; the next one is sent, or nothing more.     *)
LEMMA ArtifactAckKeeps == ObInv /\ ArtifactAcknowledged => ObInv'
<1> SUFFICES ASSUME ObInv, ArtifactAcknowledged PROVE ObInv'
  OBVIOUS
<1>1. ObTypeOK /\ call \in {NoCall} \cup LogCall \cup ArtifactCall /\ Placed /\ job \in JobType
  BY DEF ObInv, ObTypeOK
<1>2. /\ call.kind = "artifact" /\ call.reply = "stored" /\ call' = NoCall
      /\ UNCHANGED <<log, sink, net, ctl>>
      /\ job' = [job EXCEPT !.sent = @ \cup {call.what}]
  BY DEF ArtifactAcknowledged
<1>3. call.what \in Artifact
  BY <1>1, <1>2, CallFields
<1>4. /\ job' \in JobType /\ job'.uploadError = job.uploadError
      /\ job'.sent = job.sent \cup {call.what}
      /\ job'.child = job.child /\ job'.pc = job.pc /\ job'.found = job.found
      /\ job'.cancel = job.cancel /\ job'.state = job.state /\ job'.why = job.why
      /\ job'.verified = job.verified /\ job'.left = job.left
  BY <1>1, <1>2, <1>3 DEF JobType
<1>5. LogWhats' \subseteq LogWhats /\ call'.kind = "none"
  BY <1>2, WhatsShrink DEF NoCall
<1>6. ArtifactsOK'
  BY <1>2, <1>4, <1>5 DEF ObInv, ArtifactsOK
<1>7. job.pc = "artifact" /\ job.state # "succeeded"
  BY <1>1, <1>2 DEF Placed
<1>8. Placed'
  BY <1>1, <1>2, <1>4, <1>5, <1>7 DEF Placed, Alive
<1>9. ObTypeOK'
  BY <1>1, <1>2, <1>4 DEF ObTypeOK
<1> QED BY <1>2, <1>4, <1>5, <1>6, <1>8, <1>9, CallMoves

(* The next artifact is sent, or the collection ends.                      *)
LEMMA UploadsArtifactKeeps == ObInv /\ UploadsArtifact => ObInv'
<1> SUFFICES ASSUME ObInv, UploadsArtifact PROVE ObInv'
  OBVIOUS
<1>1. ObTypeOK /\ Placed /\ job \in JobType
  BY DEF ObInv, ObTypeOK
<1>2. job.pc = "artifact" /\ call = NoCall /\ UNCHANGED <<log, sink, ctl>>
  BY DEF UploadsArtifact
<1>3. PICK a \in job.found :
         \/ StartCall("artifact", a) /\ UNCHANGED job
         \/ CollectionFails /\ UNCHANGED <<call, net>>
  BY DEF UploadsArtifact
<1>4. CASE StartCall("artifact", a) /\ UNCHANGED job
  <2>1. a \in Artifact
    BY <1>1 DEF JobType
  <2>2. /\ call' = [kind |-> "artifact", what |-> a, attempt |-> 1, reply |-> "none"]
        /\ net' = net \cup {[what |-> a, attempt |-> 1]}
    BY <1>4 DEF StartCall
  <2>3. call' \in ArtifactCall /\ call'.kind = "artifact" /\ call'.reply = "none"
    BY <2>1, <2>2 DEF ArtifactCall, Replies
  <2>4. [what |-> a, attempt |-> 1] \in [what : LogWhat \cup Artifact, attempt : Nat]
    BY <2>1
  <2>5. ObTypeOK'
    BY <1>1, <1>2, <1>4, <2>2, <2>3, <2>4 DEF ObTypeOK
  <2>6. a \notin LogWhat
    BY <2>1 DEF Artifact, LogWhat
  <2>7. LogWhats' \subseteq LogWhats
    BY <2>2, <2>3, <2>6 DEF LogWhats
  <2>8. ArtifactsOK'
    BY <1>2, <1>4, <2>3 DEF ObInv, ArtifactsOK
  <2>9. Placed'
    BY <1>1, <1>2, <1>4, <2>3 DEF Placed, Alive
  <2>10. call.kind = "none"
    BY <1>2 DEF NoCall
  <2> QED BY <1>2, <1>4, <2>3, <2>5, <2>7, <2>8, <2>9, <2>10, CallMoves
<1>5. CASE CollectionFails /\ UNCHANGED <<call, net>>
  <2>1. ~Alive /\ log.queue = <<>> /\ \A s \in Stream : ~log.open[s]
    BY <1>1, <1>2 DEF Placed
  <2>2. Placed'
    BY <1>1, <1>2, <1>5, <2>1, CollectionJob DEF Placed, NoCall, Alive
  <2> QED BY <1>2, <1>5, <2>2, CollectionJob, MoveKeeps
<1> QED BY <1>3, <1>4, <1>5

(* An acknowledged chunk: the sink now says what the rows say.             *)
LEMMA LogAckKeeps == ObInv /\ LogAcknowledged => ObInv'
<1> SUFFICES ASSUME ObInv, LogAcknowledged PROVE ObInv'
  OBVIOUS
<1>1. /\ ObTypeOK /\ call \in {NoCall} \cup LogCall \cup ArtifactCall /\ Placed
      /\ log \in LogType /\ ctl \in CtlType
      /\ sink \in [Stream -> [bytes : Nat, chunks : Nat]]
  BY DEF ObInv, ObTypeOK
<1> DEFINE w == call.what
           t == call.what.stream
<1>2. /\ call.kind = "log" /\ call.reply = "stored" /\ call' = NoCall
      /\ UNCHANGED <<log, net, ctl, job>>
      /\ sink' = [sink EXCEPT ![t] = Advanced(t, w.len)]
  BY DEF LogAcknowledged
<1>3. w \in LogWhat /\ t \in Stream /\ w.from \in Nat /\ w.len \in Nat \ {0}
  BY <1>1, <1>2, CallFields, WhatFields
<1>4. ~job.uploadError
  BY <1>1, <1>2 DEF Placed
<1>5. /\ sink' \in [Stream -> [bytes : Nat, chunks : Nat]]
      /\ sink'[t].bytes = sink[t].bytes + w.len /\ sink'[t].chunks = sink[t].chunks + 1
      /\ \A s \in Stream : s # t => sink'[s] = sink[s]
  <2>1. sink[t].bytes \in Nat /\ sink[t].chunks \in Nat
    BY <1>1, <1>3
  <2>2. Advanced(t, w.len) \in [bytes : Nat, chunks : Nat]
    BY <1>3, <2>1 DEF Advanced
  <2> QED BY <1>1, <1>2, <1>3, <2>2 DEF Advanced
<1>6. /\ Bytes(ctl.rows[t]) = sink[t].bytes + w.len /\ Len(ctl.rows[t]) = sink[t].chunks + 1
      /\ w.from = sink[t].bytes /\ Bytes(ctl.rows[t]) # w.from
  <2>1. StreamOK(t) /\ Bytes(ctl.rows[t]) \in Nat /\ sink[t].bytes \in Nat
    BY <1>1, <1>3, CtlFields, SinkFields DEF ObInv
  <2> QED BY <1>2, <1>4, <2>1 DEF StreamOK
<1>7. ObTypeOK'
  BY <1>1, <1>2, <1>5 DEF ObTypeOK
<1>8. Kept' = Kept
  BY <1>2 DEF Kept
<1>9. LimitOK'
  BY <1>2, <1>8 DEF LimitOK, ObInv
<1>10. \A s \in Stream : ReaderOK(s)'
  BY <1>2 DEF ObInv, ReaderOK, Alive
<1>11. \A s \in Stream : Given(s)' = Given(s) /\ Chained(s)'
  <2> SUFFICES ASSUME NEW s \in Stream PROVE Given(s)' = Given(s) /\ Chained(s)'
    OBVIOUS
  <2>1. Given(s)' = sink'[s].bytes
    <3>1. call'.kind = "none" /\ sink'[s].bytes \in Nat
      BY <1>2, <1>5 DEF NoCall
    <3> QED BY <3>1 DEF Given
  <2>2. Given(s) = sink[s].bytes + IF t = s THEN w.len ELSE 0
    BY <1>2 DEF Given
  <2>3. Given(s)' = Given(s)
    BY <1>1, <1>5, <2>1, <2>2
  <2>4. Chained(s)
    BY <1>4 DEF ObInv
  <2> QED BY <1>2, <2>3, <2>4 DEF Chained
<1>12. \A s \in Stream : StreamOK(s)'
  <2> SUFFICES ASSUME NEW s \in Stream PROVE StreamOK(s)'
    OBVIOUS
  <2>1. StreamOK(s) /\ call'.kind = "none"
    BY <1>2 DEF ObInv, NoCall
  <2>2. Bytes(ctl.rows[s]) = sink'[s].bytes /\ Len(ctl.rows[s]) = sink'[s].chunks
    <3>1. CASE s = t
      BY <1>5, <1>6, <3>1
    <3>2. CASE s # t
      BY <1>2, <1>4, <1>5, <2>1, <3>2 DEF StreamOK
    <3> QED BY <3>1, <3>2
  <2> QED BY <1>2, <2>1, <2>2 DEF StreamOK
<1>13. SentOK'
  <2>1. LogWhats' \subseteq LogWhats
    BY <1>2, WhatsShrink
  <2>2. ASSUME NEW v \in LogWhats PROVE v.from = v.offset /\ Entered(v)
    <3>1. v.from = v.offset /\ (Entered(v) \/ NextUp(v))
      BY DEF ObInv, SentOK
    <3>2. ~NextUp(v)
      BY <1>4, <1>6 DEF NextUp
    <3> QED BY <3>1, <3>2
  <2>3. \A v \in LogWhats : Entered(v)'
    BY <1>2, <2>2 DEF Entered
  <2> QED BY <2>1, <2>2, <2>3 DEF SentOK
<1>14. ArtifactsOK' /\ Placed' /\ SuccessComplete'
  BY <1>1, <1>2 DEF ObInv, ArtifactsOK, Placed, SuccessComplete, NoCall, Alive
<1> QED BY <1>7, <1>9, <1>10, <1>11, <1>12, <1>13, <1>14 DEF ObInv

(* The main task takes the next chunk and sends it at the offset the sink  *)
(* has reached; after a failure it takes chunks and sends nothing.         *)
LEMMA ReceivesKeeps == ObInv /\ Receives => ObInv'
<1> SUFFICES ASSUME ObInv, Receives PROVE ObInv'
  OBVIOUS
<1>1. /\ ObTypeOK /\ Placed /\ log \in LogType /\ ctl \in CtlType
      /\ sink \in [Stream -> [bytes : Nat, chunks : Nat]]
  BY DEF ObInv, ObTypeOK
<1> DEFINE q == log.queue
           x == Head(log.queue)
<1>2. /\ q # <<>> /\ call = NoCall /\ call.kind = "none" /\ job.pc \in {"source", "step"}
      /\ log' = [log EXCEPT !.queue = Tail(q)] /\ UNCHANGED <<sink, ctl, job>>
  BY DEF Receives, NoCall
<1>3. q \in Seq(Chunk)
  BY <1>1, LogFields
<1>4. /\ Tail(q) \in Seq(Chunk) /\ x \in Chunk /\ Bytes(q) = x.len + Bytes(Tail(q))
      /\ x = q[1] /\ Len(q) = Len(Tail(q)) + 1
      /\ \A i \in 1 .. Len(Tail(q)) : Tail(q)[i] = q[i + 1]
  BY <1>2, <1>3, QueueLeaves
<1>5. x.stream \in Stream /\ x.from \in Nat /\ x.len \in Nat \ {0}
  BY <1>4 DEF Chunk
<1>6. /\ log' \in LogType /\ log'.queue = Tail(q) /\ log'.budget = log.budget
      /\ log'.wrote = log.wrote /\ log'.read = log.read /\ log'.size = log.size
      /\ log'.view = log.view /\ log'.held = log.held /\ log'.cut = log.cut
      /\ log'.open = log.open
  BY <1>1, <1>2, <1>4 DEF LogType
<1>7. Kept' + x.len = Kept /\ Kept' \in Nat /\ Kept \in Nat
  <2>1. "stdout" \in Stream /\ "stderr" \in Stream
    BY DEF Stream
  <2>2. /\ Bytes(log.held["stdout"]) \in Nat /\ Bytes(log.held["stderr"]) \in Nat
        /\ log.budget \in Nat
    BY <1>1, <2>1, LogFields
  <2>3. Bytes(ctl.rows["stdout"]) \in Nat /\ Bytes(ctl.rows["stderr"]) \in Nat
    BY <1>1, <2>1, CtlFields
  <2>4. Bytes(Tail(q)) \in Nat
    BY <1>4, ChunksSized, BytesNat
  <2>5. Kept' = Bytes(ctl.rows["stdout"]) + Bytes(ctl.rows["stderr"]) + Bytes(Tail(q))
                 + Bytes(log.held["stdout"]) + Bytes(log.held["stderr"]) + log.budget
    BY <1>2, <1>6 DEF Kept
  <2>6. Kept = Bytes(ctl.rows["stdout"]) + Bytes(ctl.rows["stderr"]) + Bytes(q)
                 + Bytes(log.held["stdout"]) + Bytes(log.held["stderr"]) + log.budget
    BY DEF Kept
  <2>7. Bytes(q) = x.len + Bytes(Tail(q)) /\ x.len \in Nat
    BY <1>4, <1>5
  <2> HIDE DEF q, x
  <2> QED BY <2>2, <2>3, <2>4, <2>5, <2>6, <2>7
<1>8. LimitOK'
  BY <1>5, <1>6, <1>7, RunObjectsAssumption DEF LimitOK, ObInv
<1>9. \A s \in Stream : ReaderOK(s)'
  BY <1>2, <1>6 DEF ObInv, ReaderOK, Alive
<1>10. \A s \in Stream : log.read[s] <= log'.read[s]
  BY <1>1, <1>6, LogFields
<1>11. SuccessComplete'
  BY <1>2, <1>6 DEF ObInv, SuccessComplete
<1>12. CASE job.uploadError
  <2>1. UNCHANGED <<call, net>>
    BY <1>12 DEF Receives, Discards
  <2>2. ObTypeOK'
    BY <1>1, <1>2, <1>6, <2>1 DEF ObTypeOK
  <2>3. \A s \in Stream : StreamOK(s)'
    BY <1>1, <1>2, <1>6, <1>10, <2>1, StreamStays DEF ObInv
  <2>4. SentOK'
    <3>1. LogWhats' \subseteq LogWhats
      BY <2>1 DEF LogWhats
    <3>2. Kept' <= Kept
      BY <1>5, <1>7
    <3> QED BY <1>1, <1>2, <1>6, <1>7, <1>10, <2>1, <3>1, <3>2, SentStays DEF ObInv
  <2>5. ArtifactsOK' /\ Placed'
    BY <1>1, <1>2, <1>6, <2>1 DEF ObInv, ArtifactsOK, Placed, Alive
  <2>6. job'.uploadError
    BY <1>2, <1>12
  <2> QED BY <1>8, <1>9, <1>11, <2>2, <2>3, <2>4, <2>5, <2>6 DEF ObInv
<1>13. CASE ~job.uploadError
  <2> DEFINE t == x.stream
  <2> PICK w : w = [stream |-> x.stream, from |-> x.from, len |-> x.len,
                    offset |-> sink[x.stream].bytes]
    OBVIOUS
  <2>1. /\ call' = [kind |-> "log", what |-> w, attempt |-> 1, reply |-> "none"]
        /\ net' = net \cup {[what |-> w, attempt |-> 1]}
    BY <1>13 DEF Receives, Discards, StartCall
  <2>2. /\ w \in LogWhat /\ w.stream = t /\ w.from = x.from /\ w.len = x.len
        /\ w.offset = sink[t].bytes
    BY <1>1, <1>5, SinkFields DEF LogWhat
  <2>3. /\ call' \in LogCall /\ call'.kind = "log" /\ call'.what = w /\ call'.reply = "none"
        /\ [what |-> w, attempt |-> 1] \in [what : LogWhat \cup Artifact, attempt : Nat]
    BY <2>1, <2>2 DEF LogCall, Replies
  <2>4. ObTypeOK'
    BY <1>1, <1>2, <1>6, <2>1, <2>3 DEF ObTypeOK
  <2>5. ASSUME NEW s \in Stream PROVE Given(s)' = Given(s) + Share(s, x) /\ Given(s) = sink[s].bytes
    <3>1. sink[s].bytes \in Nat
      BY <1>1, SinkFields
    <3>2. Given(s) = sink[s].bytes
      BY <1>2, <3>1 DEF Given
    <3>3. Given(s)' = sink[s].bytes + Share(s, x)
      BY <1>2, <2>2, <2>3 DEF Given, Share
    <3> QED BY <3>2, <3>3
  <2>6. \A s \in Stream : StreamOK(s) /\ Bytes(ctl.rows[s]) = sink[s].bytes
                          /\ Len(ctl.rows[s]) = sink[s].chunks
    BY <1>2, <1>13 DEF ObInv, StreamOK
  <2>7. x.from = sink[t].bytes /\ w.from = w.offset /\ x.from + x.len <= log.read[t]
    <3>1. Chained(t) /\ t \in Stream
      BY <1>5, <1>13 DEF ObInv
    <3>2. 1 \in 1 .. Len(q)
      BY <1>4
    <3>3. q[1].from = Given(t) + Before(Part(t, q), 1)
      BY <1>4, <3>1, <3>2 DEF Chained
    <3>4. Before(Part(t, q), 1) = 0 /\ Bytes(Part(t, q)) = Share(t, x) + Bytes(Part(t, Tail(q)))
      BY <1>2, <1>3, QueueLeaves
    <3>5. sink[t].bytes \in Nat /\ Bytes(Part(t, Tail(q))) \in Nat /\ Bytes(log.held[t]) \in Nat
          /\ log.read[t] \in Nat
      BY <1>1, <1>4, <3>1, SinkFields, LogFields, ChunksSized, BytesNat
    <3>6. x.from = sink[t].bytes
      BY <1>4, <2>5, <3>1, <3>3, <3>4, <3>5
    <3>7. Given(t) + Bytes(Part(t, q)) + Bytes(log.held[t]) <= log.read[t]
      BY <3>1 DEF Chained
    <3>8. Share(t, x) = x.len
      BY DEF Share
    <3>9. x.from + x.len <= log.read[t]
      BY <1>5, <2>5, <3>1, <3>4, <3>5, <3>6, <3>7, <3>8
    <3> QED BY <2>2, <3>6, <3>9
  <2>8. \A s \in Stream : Chained(s)'
    <3> SUFFICES ASSUME NEW s \in Stream PROVE Chained(s)'
      OBVIOUS
    <3> DEFINE d == Tail(q)
    <3>1. Chained(s)
      BY <1>13 DEF ObInv
    <3>2. /\ Bytes(Part(s, q)) = Share(s, x) + Bytes(Part(s, d))
          /\ \A i \in 1 .. Len(d) : Before(Part(s, q), i + 1) = Share(s, x) + Before(Part(s, d), i)
      BY <1>2, <1>3, QueueLeaves
    <3>3. Share(s, x) \in Nat /\ Given(s) \in Nat /\ Bytes(Part(s, d)) \in Nat
      BY <1>1, <1>4, <1>5, <2>5, SinkFields, ChunksSized, BytesNat DEF Share
    <3>4. Given(s)' = Given(s) + Share(s, x)
      BY <2>5
    <3>5. Given(s)' + Bytes(Part(s, d)) = Given(s) + Bytes(Part(s, q))
      BY <3>2, <3>3, <3>4
    <3>6. ASSUME NEW i \in 1 .. Len(d), d[i].stream = s
          PROVE  d[i].from = Given(s)' + Before(Part(s, d), i)
      <4>1. i + 1 \in 1 .. Len(q) /\ q[i + 1] = d[i]
        BY <1>3, <1>4
      <4>2. q[i + 1].from = Given(s) + Before(Part(s, q), i + 1)
        BY <3>1, <3>6, <4>1 DEF Chained
      <4>3. Before(Part(s, d), i) \in Nat
        BY <1>4, ChunksSized, BeforeWithin
      <4> QED BY <3>2, <3>3, <3>4, <4>1, <4>2, <4>3
    <3> HIDE DEF d
    <3>7. log'.queue = d
      BY <1>6 DEF d
    <3>8. /\ log.held[s] # <<>> => log.held[s][1].from = Given(s)' + Bytes(Part(s, d))
          /\ Given(s)' + Bytes(Part(s, d)) + Bytes(log.held[s]) <= log.read[s]
          /\ ~log.cut[s] => Given(s)' + Bytes(Part(s, d)) + Bytes(log.held[s]) = log.read[s]
      BY <3>1, <3>5 DEF Chained
    <3> QED BY <1>6, <3>6, <3>7, <3>8 DEF Chained
  <2>9. \A s \in Stream : StreamOK(s)'
    <3> SUFFICES ASSUME NEW s \in Stream PROVE StreamOK(s)'
      OBVIOUS
    <3>1. s = t => w.from = sink[s].bytes
      BY <2>2, <2>7
    <3> QED BY <1>2, <1>6, <2>2, <2>3, <2>6, <3>1 DEF StreamOK
  <2>10. SentOK'
    <3>1. ASSUME NEW v \in LogWhats PROVE v.from = v.offset /\ Entered(v)
      BY <1>2, <1>13 DEF ObInv, SentOK, NextUp
    <3>2. LogWhats' \subseteq LogWhats \cup {w}
      BY <2>1, <2>3 DEF LogWhats
    <3>3. \A v \in LogWhats : Entered(v)'
      BY <1>2, <3>1 DEF Entered
    <3>4. NextUp(w)'
      <4>1. Bytes(ctl.rows[t]) = w.from /\ sink[t].bytes = w.from
        BY <1>5, <2>2, <2>6, <2>7
      <4>2. Kept' + w.len <= Budget
        BY <1>7, <2>2 DEF ObInv, LimitOK
      <4>3. w.from + w.len <= log'.read[t]
        BY <1>6, <2>2, <2>7
      <4> QED BY <1>2, <2>2, <2>3, <4>1, <4>2, <4>3 DEF NextUp
    <3>5. w.from = w.offset
      BY <2>7
    <3> QED BY <3>1, <3>2, <3>3, <3>4, <3>5 DEF SentOK
  <2>11. ArtifactsOK' /\ Placed'
    BY <1>1, <1>2, <1>6, <1>13, <2>3 DEF ObInv, ArtifactsOK, Placed, Alive
  <2> QED BY <1>8, <1>9, <1>11, <2>4, <2>8, <2>9, <2>10, <2>11 DEF ObInv
<1> QED BY <1>1, <1>12, <1>13

-----------------------------------------------------------------------------
(* The readers.                                                            *)

(* A step of the output path moves bytes and keeps their number.           *)
LEMMA LogMoves ==
  ASSUME ObInv, UNCHANGED <<sink, call, net, ctl, job>>, log' \in LogType,
         log'.budget <= Budget, Kept' = Kept,
         \A s \in Stream : log.read[s] <= log'.read[s],
         \A s \in Stream : ReaderOK(s)',
         \A s \in Stream : ~job.uploadError => Chained(s)',
         Placed', ctl.verdict.state = "succeeded" => log'.wrote = log.wrote
  PROVE  ObInv'
<1>1. log \in LogType /\ ctl \in CtlType /\ ObTypeOK
  BY DEF ObInv, ObTypeOK
<1>2. ObTypeOK'
  BY <1>1 DEF ObTypeOK
<1>3. Kept \in Nat /\ Kept' \in Nat /\ Kept' <= Kept
  BY <1>1, KeptNat
<1>4. LimitOK'
  BY DEF LimitOK, ObInv
<1>5. \A s \in Stream : StreamOK(s)'
  BY <1>1, StreamStays DEF ObInv
<1>6. SentOK'
  <2>1. LogWhats' \subseteq LogWhats
    BY DEF LogWhats
  <2> QED BY <1>1, <1>3, <2>1, SentStays DEF ObInv
<1>7. ArtifactsOK' /\ SuccessComplete'
  BY DEF ObInv, ArtifactsOK, SuccessComplete
<1> QED BY <1>2, <1>4, <1>5, <1>6, <1>7 DEF ObInv

(* The child writes.                                                       *)
LEMMA WritesKeeps == ASSUME ObInv, NEW s \in Stream, Writes(s) PROVE ObInv'
<1>1. log \in LogType /\ ctl \in CtlType /\ Placed
  BY DEF ObInv, ObTypeOK
<1>2. /\ Alive /\ UNCHANGED <<sink, call, net, ctl, job>>
      /\ log' = [log EXCEPT !.wrote[s] = @ + 1]
  BY DEF Writes
<1>3. /\ log' \in LogType /\ log'.queue = log.queue /\ log'.budget = log.budget
      /\ log'.read = log.read /\ log'.size = log.size /\ log'.view = log.view
      /\ log'.held = log.held /\ log'.cut = log.cut /\ log'.open = log.open
      /\ log'.wrote = [log.wrote EXCEPT ![s] = @ + 1]
  <2>1. log.wrote[s] \in Nat
    BY <1>1 DEF LogType
  <2>2. PICK n : n = log.wrote[s] + 1
    OBVIOUS
  <2>3. n \in Nat /\ log' = [log EXCEPT !.wrote[s] = n]
    BY <1>1, <1>2, <2>1, <2>2 DEF LogType
  <2>4. /\ log' \in LogType /\ log'.queue = log.queue /\ log'.budget = log.budget
        /\ log'.read = log.read /\ log'.size = log.size /\ log'.view = log.view
        /\ log'.held = log.held /\ log'.cut = log.cut /\ log'.open = log.open
        /\ log'.wrote = [log.wrote EXCEPT ![s] = n]
    BY <1>1, <2>3 DEF LogType
  <2> QED BY <2>2, <2>4
<1>4. \A t \in Stream : log'.wrote[t] \in Nat /\ log.wrote[t] \in Nat /\ log.wrote[t] <= log'.wrote[t]
                        /\ log.read[t] \in Nat /\ log.size[t] \in Nat
  <2>1. log.wrote \in [Stream -> Nat] /\ log.read \in [Stream -> Nat] /\ log.size \in [Stream -> Nat]
    BY <1>1 DEF LogType
  <2> QED BY <1>3, <2>1
<1>5. \A t \in Stream : ReaderOK(t)'
  <2> SUFFICES ASSUME NEW t \in Stream PROVE ReaderOK(t)'
    OBVIOUS
  <2>1. ReaderOK(t) /\ log.open[t]
    BY <1>2 DEF ObInv, ReaderOK
  <2>2. log.read[t] <= log'.wrote[t]
    BY <1>4, <2>1 DEF ReaderOK
  <2>3. log.view[t] # NoView => log.size[t] \in 1 .. (log'.wrote[t] - log.read[t])
    BY <1>4, <2>1 DEF ReaderOK
  <2> QED BY <1>3, <2>1, <2>2, <2>3 DEF ReaderOK
<1>6. Kept' = Kept /\ log'.budget <= Budget
  BY <1>2, <1>3 DEF Kept, ObInv, LimitOK
<1>7. \A t \in Stream : ~job.uploadError => Chained(t)'
  BY <1>2, <1>3 DEF ObInv, Chained, Given
<1>8. Placed'
  BY <1>1, <1>2, <1>3 DEF Placed, Alive
<1>9. ctl.verdict.state = "none"
  BY <1>1, <1>2 DEF Placed
<1>10. \A t \in Stream : log.read[t] <= log'.read[t]
  BY <1>1, <1>3, LogFields
<1> QED BY <1>2, <1>3, <1>5, <1>6, <1>7, <1>8, <1>9, <1>10, LogMoves

(* A reader fetches from the pipe and loads the budget.                    *)
LEMMA ReadsKeeps == ASSUME ObInv, NEW s \in Stream, Reads(s) PROVE ObInv'
<1>1. log \in LogType /\ ctl \in CtlType /\ Placed
  BY DEF ObInv, ObTypeOK
<1>2. /\ log.open[s] /\ log.held[s] = <<>> /\ UNCHANGED <<sink, call, net, ctl, job>>
  BY DEF Reads
<1>3. PICK n \in 1 .. (log.wrote[s] - log.read[s]) :
         log' = [log EXCEPT !.size[s] = n, !.view[s] = log.budget]
  BY DEF Reads
<1>4. n \in Nat /\ log.budget \in Nat /\ log.budget <= Budget
  BY <1>1, LogFields DEF ObInv, LimitOK
<1>5. /\ log' \in LogType /\ log'.queue = log.queue /\ log'.budget = log.budget
      /\ log'.read = log.read /\ log'.wrote = log.wrote
      /\ log'.size = [log.size EXCEPT ![s] = n] /\ log'.view = [log.view EXCEPT ![s] = log.budget]
      /\ log'.held = log.held /\ log'.cut = log.cut /\ log'.open = log.open
  BY <1>1, <1>3, <1>4 DEF LogType
<1>6. \A t \in Stream : ReaderOK(t)'
  <2> SUFFICES ASSUME NEW t \in Stream PROVE ReaderOK(t)'
    OBVIOUS
  <2>1. ReaderOK(t) /\ log.size \in [Stream -> Nat] /\ log.view \in [Stream -> Nat]
    BY <1>1 DEF ObInv, LogType
  <2>2. CASE t = s
    BY <1>2, <1>3, <1>4, <1>5, <2>1, <2>2 DEF ReaderOK, Alive
  <2>3. CASE t # s
    BY <1>2, <1>5, <2>1, <2>3 DEF ReaderOK, Alive
  <2> QED BY <2>2, <2>3
<1>7. Kept' = Kept /\ log'.budget <= Budget
  BY <1>2, <1>4, <1>5 DEF Kept
<1>8. \A t \in Stream : ~job.uploadError => Chained(t)'
  BY <1>2, <1>5 DEF ObInv, Chained, Given
<1>9. Placed'
  BY <1>1, <1>2, <1>5 DEF Placed, Alive
<1>10. \A t \in Stream : log.read[t] <= log'.read[t]
  BY <1>1, <1>5, LogFields
<1> QED BY <1>2, <1>5, <1>6, <1>7, <1>8, <1>9, <1>10, LogMoves

(* A reader has reached the end of its pipe.                               *)
LEMMA EndsKeeps == ASSUME ObInv, NEW s \in Stream, Ends(s) PROVE ObInv'
<1>1. log \in LogType /\ ctl \in CtlType /\ Placed
  BY DEF ObInv, ObTypeOK
<1>2. /\ ~Alive /\ log.read[s] = log.wrote[s] /\ log.view[s] = NoView /\ log.held[s] = <<>>
      /\ UNCHANGED <<sink, call, net, ctl, job>> /\ log' = [log EXCEPT !.open[s] = FALSE]
  BY DEF Ends
<1>3. /\ log' \in LogType /\ LogSame /\ log'.open = [log.open EXCEPT ![s] = FALSE]
      /\ log.open \in [Stream -> BOOLEAN]
  BY <1>1, <1>2 DEF LogType, LogSame
<1>4. /\ \A t \in Stream : t # s => log'.open[t] = log.open[t]
      /\ log'.open[s] = FALSE
  BY <1>3
<1>5. \A t \in Stream : ReaderOK(t)'
  <2> SUFFICES ASSUME NEW t \in Stream PROVE ReaderOK(t)'
    OBVIOUS
  <2>1. ReaderOK(t)
    BY DEF ObInv
  <2> QED BY <1>2, <1>3, <1>4, <2>1 DEF ReaderOK, Alive, LogSame
<1>6. Kept' = Kept /\ log'.budget <= Budget
  BY <1>2, <1>3 DEF Kept, LogSame, ObInv, LimitOK
<1>7. \A t \in Stream : ~job.uploadError => Chained(t)'
  BY <1>2, <1>3 DEF ObInv, Chained, Given, LogSame
<1>8. Placed'
  BY <1>1, <1>2, <1>3, <1>4 DEF Placed, Alive, LogSame
<1>9. \A t \in Stream : log.read[t] <= log'.read[t]
  BY <1>1, <1>3, LogFields DEF LogSame
<1> QED BY <1>2, <1>3, <1>5, <1>6, <1>7, <1>8, <1>9, LogMoves DEF LogSame

(* The reader passes the retained bytes on.                                *)
LEMMA EnqueuesKeeps == ASSUME ObInv, NEW s \in Stream, Enqueues(s) PROVE ObInv'
<1>1. log \in LogType /\ ctl \in CtlType /\ Placed /\ ReaderOK(s)
  BY DEF ObInv, ObTypeOK
<1>2. /\ log.held[s] # <<>> /\ UNCHANGED <<sink, call, net, ctl, job>>
      /\ log' = [log EXCEPT !.queue = @ \o log.held[s], !.held[s] = <<>>]
  BY DEF Enqueues
<1> DEFINE q == log.queue
<1>3. /\ q \in Seq(Chunk) /\ log.held[s] \in Seq(Chunk) /\ Len(log.held[s]) = 1
      /\ log.held[s][1].stream = s
  BY <1>1, <1>2, LogFields DEF ReaderOK
<1> PICK x : x = log.held[s][1]
  OBVIOUS
<1>4. x \in Chunk /\ x.stream = s /\ log.held[s] = <<x>> /\ x.len \in Nat \ {0}
  <2>1. x \in Chunk /\ x.stream = s /\ log.held[s] = <<x>>
    BY <1>3
  <2> QED BY <2>1 DEF Chunk
<1>5. q \o log.held[s] = Append(q, x)
  BY <1>3, <1>4
<1> DEFINE d == Append(q, x)
<1>6. /\ d \in Seq(Chunk) /\ Len(d) = Len(q) + 1 /\ Bytes(d) = Bytes(q) + x.len
      /\ d[Len(q) + 1] = x /\ (\A i \in 1 .. Len(q) : d[i] = q[i]) /\ Len(q) \in Nat
  <2>1. d \in Seq(Chunk) /\ Len(d) = Len(q) + 1 /\ Bytes(d) = Bytes(q) + x.len
    BY <1>3, <1>4, QueueJoins
  <2> QED BY <1>3, <1>4, <2>1
<1> HIDE DEF d
<1>7. /\ log' \in LogType /\ log'.queue = d /\ log'.budget = log.budget
      /\ log'.read = log.read /\ log'.wrote = log.wrote /\ log'.size = log.size
      /\ log'.view = log.view /\ log'.held = [log.held EXCEPT ![s] = <<>>]
      /\ log'.cut = log.cut /\ log'.open = log.open
  <2>1. PICK e, h : e = d /\ h = <<>>
    OBVIOUS
  <2>2. log' = [log EXCEPT !.queue = e, !.held[s] = h]
    BY <1>2, <1>5, <2>1 DEF d
  <2>3. e \in Seq(Chunk) /\ h \in Seq(Chunk)
    BY <1>6, <2>1
  <2>4. /\ log' \in LogType /\ log'.queue = e /\ log'.budget = log.budget
        /\ log'.read = log.read /\ log'.wrote = log.wrote /\ log'.size = log.size
        /\ log'.view = log.view /\ log'.held = [log.held EXCEPT ![s] = h]
        /\ log'.cut = log.cut /\ log'.open = log.open
    BY <1>1, <2>2, <2>3 DEF LogType
  <2> QED BY <2>1, <2>4
<1>8. /\ log.held \in [Stream -> Seq(Chunk)] /\ log'.held[s] = <<>>
      /\ \A t \in Stream : t # s => log'.held[t] = log.held[t]
  <2>1. log.held \in [Stream -> Seq(Chunk)]
    BY <1>1 DEF LogType
  <2> QED BY <1>7, <2>1
<1>9. Bytes(log.held[s]) = x.len /\ Bytes(log'.held[s]) = 0
  BY <1>4, <1>8, BytesOne, BytesEmpty
<1>10. \A t \in Stream : ReaderOK(t)'
  <2> SUFFICES ASSUME NEW t \in Stream PROVE ReaderOK(t)'
    OBVIOUS
  <2>1. ReaderOK(t)
    BY DEF ObInv
  <2>2. CASE t = s
    BY <1>2, <1>7, <1>8, <2>1, <2>2 DEF ReaderOK, Alive
  <2>3. CASE t # s
    BY <1>2, <1>7, <1>8, <2>1, <2>3 DEF ReaderOK, Alive
  <2> QED BY <2>2, <2>3
<1>11. Kept' = Kept /\ log'.budget <= Budget
  <2>1. "stdout" \in Stream /\ "stderr" \in Stream /\ s \in {"stdout", "stderr"}
    BY DEF Stream
  <2>2. /\ Bytes(log.held["stdout"]) \in Nat /\ Bytes(log.held["stderr"]) \in Nat
        /\ log.budget \in Nat /\ Bytes(q) \in Nat
    BY <1>1, <2>1, LogFields
  <2>3. Bytes(ctl.rows["stdout"]) \in Nat /\ Bytes(ctl.rows["stderr"]) \in Nat
    BY <1>1, <2>1, CtlFields
  <2>4. Kept' = Bytes(ctl.rows["stdout"]) + Bytes(ctl.rows["stderr"]) + Bytes(d)
                 + Bytes(log'.held["stdout"]) + Bytes(log'.held["stderr"]) + log.budget
    BY <1>2, <1>7 DEF Kept
  <2>5. Kept = Bytes(ctl.rows["stdout"]) + Bytes(ctl.rows["stderr"]) + Bytes(q)
                 + Bytes(log.held["stdout"]) + Bytes(log.held["stderr"]) + log.budget
    BY DEF Kept
  <2>6. Bytes(d) = Bytes(q) + x.len /\ x.len \in Nat
    BY <1>4, <1>6
  <2>9. log'.budget <= Budget
    BY <1>7 DEF ObInv, LimitOK
  <2>7. CASE s = "stdout"
    <3>1. log'.held["stderr"] = log.held["stderr"]
      BY <1>8, <2>1, <2>7
    <3> HIDE DEF q
    <3> QED BY <1>9, <2>2, <2>3, <2>4, <2>5, <2>6, <2>7, <2>9, <3>1
  <2>8. CASE s = "stderr"
    <3>1. log'.held["stdout"] = log.held["stdout"]
      BY <1>8, <2>1, <2>8
    <3> HIDE DEF q
    <3> QED BY <1>9, <2>2, <2>3, <2>4, <2>5, <2>6, <2>8, <2>9, <3>1
  <2> QED BY <2>1, <2>7, <2>8
<1>12. \A t \in Stream : ~job.uploadError => Chained(t)'
  <2> SUFFICES ASSUME NEW t \in Stream, ~job.uploadError PROVE Chained(t)'
    OBVIOUS
  <2>1. Chained(t) /\ Given(t)' = Given(t)
    BY <1>2 DEF ObInv, Given
  <2>2. /\ Bytes(Part(t, d)) = Bytes(Part(t, q)) + Share(t, x)
        /\ \A i \in 1 .. Len(q) : Before(Part(t, d), i) = Before(Part(t, q), i)
        /\ Before(Part(t, d), Len(q) + 1) = Bytes(Part(t, q))
    BY <1>3, <1>4, QueueJoins DEF d
  <2>3. Share(t, x) = IF t = s THEN x.len ELSE 0
    BY <1>4 DEF Share
  <2>4. /\ Bytes(Part(t, q)) \in Nat /\ Bytes(log.held[t]) \in Nat /\ x.len \in Nat
        /\ Given(t) \in Nat
    <3>1. Given(t) \in Nat
      <4>1. sink[t].bytes \in Nat
        BY SinkFields DEF ObInv, ObTypeOK
      <4>2. call.kind = "log" => call.what.len \in Nat
        BY CallFields, WhatFields DEF ObInv, ObTypeOK
      <4> QED BY <4>1, <4>2 DEF Given
    <3> QED BY <1>1, <1>4, <3>1, LogFields
  <2>5. Bytes(Part(t, d)) + Bytes(log'.held[t]) = Bytes(Part(t, q)) + Bytes(log.held[t])
    <3>1. CASE t = s
      BY <1>9, <2>2, <2>3, <2>4, <3>1
    <3>2. CASE t # s
      BY <1>8, <2>2, <2>3, <2>4, <3>2
    <3> QED BY <3>1, <3>2
  <2>6. Bytes(Part(t, d)) \in Nat /\ Bytes(log'.held[t]) \in Nat
    <3>1. log'.held[t] \in Seq(Chunk)
      BY <1>7 DEF LogType
    <3> QED BY <1>6, <3>1, ChunksSized, BytesNat
  <2>7. Given(t) + Bytes(Part(t, d)) + Bytes(log'.held[t])
          = Given(t) + Bytes(Part(t, q)) + Bytes(log.held[t])
    BY <2>4, <2>5, <2>6
  <2>8. ASSUME NEW i \in 1 .. Len(d), d[i].stream = t
        PROVE  d[i].from = Given(t) + Before(Part(t, d), i)
    <3>1. CASE i \in 1 .. Len(q)
      BY <1>6, <2>1, <2>2, <2>8, <3>1 DEF Chained
    <3>2. CASE i = Len(q) + 1
      <4>1. t = s /\ d[i] = x /\ log.held[t] # <<>> /\ log.held[t][1] = x
        BY <1>2, <1>4, <1>6, <2>8, <3>2
      <4>2. x.from = Given(t) + Bytes(Part(t, q))
        BY <2>1, <4>1 DEF Chained
      <4> QED BY <2>2, <3>2, <4>1, <4>2
    <3> QED BY <1>6, <3>1, <3>2
  <2>9. log'.held[t] # <<>> => log'.held[t][1].from = Given(t) + Bytes(Part(t, d))
    <3> SUFFICES ASSUME log'.held[t] # <<>> PROVE log'.held[t][1].from = Given(t) + Bytes(Part(t, d))
      OBVIOUS
    <3>1. t # s /\ log'.held[t] = log.held[t]
      BY <1>8
    <3>2. Bytes(Part(t, d)) = Bytes(Part(t, q))
      BY <2>2, <2>3, <2>4, <3>1
    <3> QED BY <2>1, <3>1, <3>2 DEF Chained
  <2>10. log'.queue = d /\ log'.read = log.read /\ log'.cut = log.cut
    BY <1>7
  <2>11. /\ Given(t) + Bytes(Part(t, d)) + Bytes(log'.held[t]) <= log.read[t]
         /\ ~log.cut[t] => Given(t) + Bytes(Part(t, d)) + Bytes(log'.held[t]) = log.read[t]
    BY <2>1, <2>7 DEF Chained
  <2> QED BY <2>1, <2>8, <2>9, <2>10, <2>11 DEF Chained
<1>13. Placed'
  <2>1. job.pc \in {"source", "step", "parked"}
    BY <1>1, <1>2 DEF Placed, ReaderOK
  <2> QED BY <1>1, <1>2, <1>7, <2>1 DEF Placed, Alive
<1>14. \A t \in Stream : log.read[t] <= log'.read[t]
  BY <1>1, <1>7, LogFields
<1> QED BY <1>2, <1>7, <1>10, <1>11, <1>12, <1>13, <1>14, LogMoves

(* The share a reader takes comes out of the budget.                       *)
LEMMA SwapKeeps ==
  ASSUME ObInv, NEW s \in Stream, Takes(s), SwapFits(s) PROVE ObInv'
<1>1. log \in LogType /\ ctl \in CtlType /\ Placed /\ ReaderOK(s)
  BY DEF ObInv, ObTypeOK
<1> PICK v, z, r, k, b, c : /\ v = log.view[s] /\ z = log.size[s] /\ r = Retained(s)
                            /\ k = CutAfter(s) /\ b = log.view[s] - Retained(s)
                            /\ c = [stream |-> s, from |-> log.read[s], len |-> r]
  OBVIOUS
<1>2. PICK h : h = IF r = 0 THEN <<>> ELSE <<c>>
  OBVIOUS
<1>3. PICK a : a = log.read[s] + z
  OBVIOUS
<1>4. /\ UNCHANGED <<sink, call, net, ctl, job>> /\ v # NoView
      /\ log' = [log EXCEPT !.budget = b, !.cut[s] = k, !.held[s] = h, !.read[s] = a,
                            !.size[s] = 0, !.view[s] = NoView]
  <2>1. log' = [log EXCEPT !.budget = b, !.cut[s] = k, !.held[s] = h, !.read[s] = @ + z,
                            !.size[s] = 0, !.view[s] = NoView]
    BY <1>2 DEF Takes
  <2>2. /\ UNCHANGED <<sink, call, net, ctl, job>> /\ v # NoView
    BY DEF Takes
  <2>3. log.read \in [Stream -> Nat]
    BY <1>1 DEF LogType
  <2> QED BY <1>1, <1>3, <2>1, <2>2, <2>3 DEF LogType
<1>5. /\ v \in Nat /\ z \in Nat /\ log.read[s] \in Nat /\ log.wrote[s] \in Nat
      /\ log.budget = v /\ log.budget <= Budget /\ Budget \in Nat /\ NoView \in Nat
      /\ log.open[s] /\ log.held[s] = <<>> /\ z > 0 /\ a <= log.wrote[s] /\ log.read[s] <= a
      /\ a \in Nat
  <2>1. /\ v \in Nat /\ z \in Nat /\ log.read[s] \in Nat /\ log.wrote[s] \in Nat
    BY <1>1, LogFields
  <2>2. log.budget = v /\ log.budget <= Budget /\ Budget \in Nat /\ NoView \in Nat
    BY RunObjectsAssumption DEF ObInv, LimitOK, SwapFits, NoView
  <2>3. log.open[s] /\ log.held[s] = <<>> /\ z \in 1 .. (log.wrote[s] - log.read[s])
    BY <1>1, <1>4 DEF ReaderOK
  <2> QED BY <1>3, <2>1, <2>2, <2>3
<1>6. /\ r \in Nat /\ r <= v /\ r <= z /\ (r < z => r = v) /\ b = v - r /\ b \in Nat
      /\ k \in BOOLEAN /\ (k <=> log.cut[s] \/ r < z)
  <2>1. log.cut[s] \in BOOLEAN
    BY <1>1, LogFields
  <2>2. r = IF v < z THEN v ELSE z
    BY DEF Retained, Smaller
  <2>3. k = (log.cut[s] \/ r < z) /\ b = v - r
    BY DEF CutAfter
  <2>4. r \in Nat /\ r <= v /\ r <= z /\ (r < z => r = v)
    BY <1>5, <2>2
  <2>5. b = v - r /\ b \in Nat
    BY <1>5, <2>3, <2>4
  <2>6. k \in BOOLEAN /\ (k <=> log.cut[s] \/ r < z)
    BY <2>1, <2>3, Zenon
  <2> QED BY <2>4, <2>5, <2>6
<1>7. h \in Seq(Chunk) /\ Bytes(h) = r /\ (h # <<>> => r > 0 /\ h = <<c>>)
  <2>1. CASE r = 0
    BY <1>2, <2>1, BytesEmpty
  <2>2. CASE r # 0
    <3>1. c \in Chunk /\ c.len = r
      BY <1>5, <1>6, <2>2 DEF Chunk
    <3>2. h = <<c>> /\ <<c>> \in Seq(Chunk) /\ r > 0
      BY <1>2, <1>6, <2>2, <3>1
    <3> QED BY <3>1, <3>2, BytesOne
  <2> QED BY <2>1, <2>2
<1>8. /\ log' \in LogType /\ log'.queue = log.queue /\ log'.budget = b
      /\ log'.wrote = log.wrote /\ log'.open = log.open
      /\ log'.read = [log.read EXCEPT ![s] = a] /\ log'.size = [log.size EXCEPT ![s] = 0]
      /\ log'.view = [log.view EXCEPT ![s] = NoView] /\ log'.held = [log.held EXCEPT ![s] = h]
      /\ log'.cut = [log.cut EXCEPT ![s] = k]
  <2>1. PICK m : m = NoView
    OBVIOUS
  <2>2. m \in Nat /\ log' = [log EXCEPT !.budget = b, !.cut[s] = k, !.held[s] = h, !.read[s] = a,
                            !.size[s] = 0, !.view[s] = m]
    BY <1>4, <1>5, <2>1
  <2>3. /\ log' \in LogType /\ log'.queue = log.queue /\ log'.budget = b
        /\ log'.wrote = log.wrote /\ log'.open = log.open
        /\ log'.read = [log.read EXCEPT ![s] = a] /\ log'.size = [log.size EXCEPT ![s] = 0]
        /\ log'.view = [log.view EXCEPT ![s] = m] /\ log'.held = [log.held EXCEPT ![s] = h]
        /\ log'.cut = [log.cut EXCEPT ![s] = k]
    BY <1>1, <1>5, <1>6, <1>7, <2>2 DEF LogType
  <2> QED BY <2>1, <2>3
<1>9. /\ log'.read[s] = a /\ log'.view[s] = NoView /\ log'.held[s] = h /\ log'.cut[s] = k
      /\ \A t \in Stream : t # s =>
            /\ log'.read[t] = log.read[t] /\ log'.view[t] = log.view[t]
            /\ log'.size[t] = log.size[t] /\ log'.held[t] = log.held[t]
            /\ log'.cut[t] = log.cut[t]
  <2>1. /\ log.read \in [Stream -> Nat] /\ log.size \in [Stream -> Nat]
        /\ log.view \in [Stream -> Nat] /\ log.held \in [Stream -> Seq(Chunk)]
        /\ log.cut \in [Stream -> BOOLEAN]
    BY <1>1 DEF LogType
  <2> QED BY <1>8, <2>1
<1>10. \A t \in Stream : ReaderOK(t)'
  <2> SUFFICES ASSUME NEW t \in Stream PROVE ReaderOK(t)'
    OBVIOUS
  <2>1. ReaderOK(t)
    BY DEF ObInv
  <2>2. log.cut[t] => b = 0
    BY <1>5, <1>6, <2>1 DEF ReaderOK
  <2>3. CASE t = s
    <3>1. k => b = 0
      BY <1>5, <1>6, <2>2, <2>3
    <3>2. h # <<>> => Len(h) = 1 /\ h[1].stream = s
      BY <1>7
    <3> QED BY <1>4, <1>5, <1>8, <1>9, <2>3, <3>1, <3>2 DEF ReaderOK, Alive
  <2>4. CASE t # s
    BY <1>4, <1>8, <1>9, <2>1, <2>2, <2>4 DEF ReaderOK, Alive
  <2> QED BY <2>3, <2>4
<1>11. log'.budget <= Budget
  BY <1>5, <1>6, <1>8
<1>12. Kept' = Kept
  <2>1. "stdout" \in Stream /\ "stderr" \in Stream /\ s \in {"stdout", "stderr"}
    BY DEF Stream
  <2>2. /\ Bytes(log.held["stdout"]) \in Nat /\ Bytes(log.held["stderr"]) \in Nat
        /\ log.budget \in Nat /\ Bytes(log.queue) \in Nat
    BY <1>1, <2>1, LogFields
  <2>3. Bytes(ctl.rows["stdout"]) \in Nat /\ Bytes(ctl.rows["stderr"]) \in Nat
    BY <1>1, <2>1, CtlFields
  <2>4. Kept' = Bytes(ctl.rows["stdout"]) + Bytes(ctl.rows["stderr"]) + Bytes(log.queue)
                 + Bytes(log'.held["stdout"]) + Bytes(log'.held["stderr"]) + b
    BY <1>4, <1>8 DEF Kept
  <2>5. Kept = Bytes(ctl.rows["stdout"]) + Bytes(ctl.rows["stderr"]) + Bytes(log.queue)
                 + Bytes(log.held["stdout"]) + Bytes(log.held["stderr"]) + log.budget
    BY DEF Kept
  <2>6. Bytes(log'.held[s]) = r /\ Bytes(log.held[s]) = 0 /\ log.budget = b + r
    BY <1>5, <1>6, <1>7, <1>9, BytesEmpty
  <2>7. CASE s = "stdout"
    <3>1. log'.held["stderr"] = log.held["stderr"]
      BY <1>9, <2>1, <2>7
    <3> QED BY <1>6, <2>2, <2>3, <2>4, <2>5, <2>6, <2>7, <3>1
  <2>8. CASE s = "stderr"
    <3>1. log'.held["stdout"] = log.held["stdout"]
      BY <1>9, <2>1, <2>8
    <3> QED BY <1>6, <2>2, <2>3, <2>4, <2>5, <2>6, <2>8, <3>1
  <2> QED BY <2>1, <2>7, <2>8
<1>13. \A t \in Stream : ~job.uploadError => Chained(t)'
  <2> SUFFICES ASSUME NEW t \in Stream, ~job.uploadError PROVE Chained(t)'
    OBVIOUS
  <2>1. Chained(t) /\ Given(t)' = Given(t) /\ Given(t) \in Nat
    <3>1. sink[t].bytes \in Nat
      BY SinkFields DEF ObInv, ObTypeOK
    <3>2. call.kind = "log" => call.what.len \in Nat
      BY CallFields, WhatFields DEF ObInv, ObTypeOK
    <3> QED BY <1>4, <3>1, <3>2 DEF ObInv, Given
  <2>2. CASE t # s
    BY <1>8, <1>9, <2>1, <2>2 DEF Chained
  <2>3. CASE t = s
    <3>1. PICK g : g = Given(t) + Bytes(Part(t, log.queue))
      OBVIOUS
    <3>2. g \in Nat /\ g + 0 <= log.read[s] /\ (~log.cut[s] => g = log.read[s])
      <4>1. Bytes(Part(t, log.queue)) \in Nat /\ Bytes(log.held[t]) = 0
        BY <1>1, <1>5, <2>3, LogFields, BytesEmpty
      <4>2. /\ g + Bytes(log.held[t]) <= log.read[t]
            /\ ~log.cut[t] => g + Bytes(log.held[t]) = log.read[t]
        BY <2>1, <3>1 DEF Chained
      <4> QED BY <1>5, <2>1, <2>3, <3>1, <4>1, <4>2
    <3>3. g + r <= a /\ (~k => g + r = a)
      BY <1>3, <1>5, <1>6, <3>2
    <3>4. h # <<>> => h[1].from = g
      <4> SUFFICES ASSUME h # <<>> PROVE h[1].from = g
        OBVIOUS
      <4>1. r > 0 /\ h = <<c>>
        BY <1>7
      <4>2. ~log.cut[s]
        BY <1>1, <1>5, <1>6, <4>1 DEF ReaderOK
      <4>3. h[1].from = log.read[s]
        BY <4>1
      <4> QED BY <3>2, <4>2, <4>3
    <3>5. /\ log'.queue = log.queue /\ log'.held[t] = h /\ log'.read[t] = a /\ log'.cut[t] = k
          /\ Bytes(h) = r
      BY <1>7, <1>8, <1>9, <2>3
    <3>6. \A i \in 1 .. Len(log.queue) : log.queue[i].stream = t =>
            log.queue[i].from = Given(t) + Before(Part(t, log.queue), i)
      BY <2>1 DEF Chained
    <3> QED BY <2>1, <3>1, <3>3, <3>4, <3>5, <3>6 DEF Chained
  <2> QED BY <2>2, <2>3
<1>14. Placed'
  BY <1>1, <1>4, <1>8 DEF Placed, Alive
<1>15. \A t \in Stream : log.read[t] <= log'.read[t]
  <2>1. \A t \in Stream : log.read[t] \in Nat
    BY <1>1, LogFields
  <2> QED BY <1>5, <1>9, <2>1
<1> QED BY <1>4, <1>8, <1>10, <1>11, <1>12, <1>13, <1>14, <1>15, LogMoves

(* A reader whose view is stale loads the budget again.                    *)
LEMMA ReloadKeeps ==
  ASSUME ObInv, NEW s \in Stream, Takes(s), ~SwapFits(s) PROVE ObInv'
<1>1. log \in LogType /\ ctl \in CtlType /\ Placed
  BY DEF ObInv, ObTypeOK
<1>2. /\ log.view[s] # NoView /\ UNCHANGED <<sink, call, net, ctl, job>>
      /\ log' = [log EXCEPT !.view[s] = log.budget]
  BY DEF Takes
<1>3. log.budget \in Nat /\ log.budget <= Budget
  BY <1>1, LogFields DEF ObInv, LimitOK
<1>4. /\ log' \in LogType /\ log'.queue = log.queue /\ log'.budget = log.budget
      /\ log'.read = log.read /\ log'.wrote = log.wrote /\ log'.size = log.size
      /\ log'.view = [log.view EXCEPT ![s] = log.budget]
      /\ log'.held = log.held /\ log'.cut = log.cut /\ log'.open = log.open
  BY <1>1, <1>2, <1>3 DEF LogType
<1>5. \A t \in Stream : ReaderOK(t)'
  <2> SUFFICES ASSUME NEW t \in Stream PROVE ReaderOK(t)'
    OBVIOUS
  <2>1. ReaderOK(t) /\ log.view \in [Stream -> Nat]
    BY <1>1 DEF ObInv, LogType
  <2>2. CASE t = s
    BY <1>2, <1>3, <1>4, <2>1, <2>2 DEF ReaderOK, Alive
  <2>3. CASE t # s
    BY <1>2, <1>4, <2>1, <2>3 DEF ReaderOK, Alive
  <2> QED BY <2>2, <2>3
<1>6. Kept' = Kept /\ log'.budget <= Budget
  BY <1>2, <1>3, <1>4 DEF Kept
<1>7. \A t \in Stream : ~job.uploadError => Chained(t)'
  BY <1>2, <1>4 DEF ObInv, Chained, Given
<1>8. Placed'
  BY <1>1, <1>2, <1>4 DEF Placed, Alive
<1>9. \A t \in Stream : log.read[t] <= log'.read[t]
  BY <1>1, <1>4, LogFields
<1> QED BY <1>2, <1>4, <1>5, <1>6, <1>7, <1>8, <1>9, LogMoves

(* The output path as a whole.                                             *)
LEMMA OutputKeeps == ASSUME ObInv, Output PROVE ObInv'
<1>1. PICK s \in Stream : Writes(s) \/ Reads(s) \/ Takes(s) \/ Enqueues(s) \/ Ends(s)
  BY DEF Output
<1> QED BY <1>1, WritesKeeps, ReadsKeeps, SwapKeeps, ReloadKeeps, EnqueuesKeeps, EndsKeeps

-----------------------------------------------------------------------------
(* The controller.                                                         *)

(* The answer to a request for what, if somebody waits for one.            *)
Answers(what) ==
    \/ call' = call
    \/ /\ call.kind # "none" /\ call.what = what
       /\ \E reply \in {"refused", "stored"} : call' = [call EXCEPT !.reply = reply]

(* An answer changes nothing about the question.                           *)
LEMMA AnswerFields ==
  ASSUME call \in {NoCall} \cup LogCall \cup ArtifactCall, NEW what, Answers(what)
  PROVE  /\ call' \in {NoCall} \cup LogCall \cup ArtifactCall
         /\ call'.kind = call.kind
         /\ call.kind # "none" => call'.what = call.what
         /\ call.kind # "none" /\ call.what # what => call'.reply = call.reply
<1>1. CASE call' = call
  BY <1>1
<1>2. CASE /\ call.kind # "none" /\ call.what = what
           /\ \E reply \in {"refused", "stored"} : call' = [call EXCEPT !.reply = reply]
  <2>1. PICK reply \in {"refused", "stored"} : call' = [call EXCEPT !.reply = reply]
    BY <1>2
  <2>2. CASE call \in LogCall
    BY <1>2, <2>1, <2>2 DEF LogCall, Replies
  <2>3. CASE call \in ArtifactCall
    BY <1>2, <2>1, <2>3 DEF ArtifactCall, Replies
  <2> QED BY <1>2, <2>2, <2>3 DEF NoCall
<1> QED BY <1>1, <1>2 DEF Answers

(* A chunk is told from an artifact by its fields.                         *)
LEMMA WhatKinds ==
  /\ \A w \in LogWhat : "stream" \in DOMAIN w
  /\ \A a \in Artifact : "stream" \notin DOMAIN a
  BY DEF LogWhat, Artifact

(* The store changes and no row does.                                      *)
LEMMA StoreMoves ==
  ASSUME ObInv, UNCHANGED <<log, sink, job>>, net' \subseteq net,
         ctl' \in CtlType, ctl'.rows = ctl.rows, ctl'.arts = ctl.arts,
         ctl'.verdict = ctl.verdict, ctl.objects \subseteq ctl'.objects,
         NEW what, Answers(what),
         call'.kind = "log" /\ call'.reply = "stored" /\ call.what = what =>
            Bytes(ctl.rows[what.stream]) > sink[what.stream].bytes,
         call'.kind = "artifact" /\ call'.reply = "stored" /\ call.what = what =>
            ctl.arts[what.file] = what.version
  PROVE  ObInv'
<1>1. /\ ObTypeOK /\ log \in LogType /\ ctl \in CtlType /\ Placed
      /\ call \in {NoCall} \cup LogCall \cup ArtifactCall
  BY DEF ObInv, ObTypeOK
<1>2. /\ call' \in {NoCall} \cup LogCall \cup ArtifactCall
      /\ call'.kind = call.kind
      /\ call.kind # "none" => call'.what = call.what
      /\ call.kind # "none" /\ call.what # what => call'.reply = call.reply
  BY <1>1, AnswerFields
<1>3. ObTypeOK'
  BY <1>1, <1>2 DEF ObTypeOK
<1>4. Kept' = Kept /\ Kept \in Nat
  BY <1>1, KeptNat DEF Kept
<1>5. LimitOK' /\ \A s \in Stream : ReaderOK(s)'
  BY <1>4 DEF ObInv, LimitOK, ReaderOK, Alive
<1>6. \A s \in Stream : ~job.uploadError => Chained(s)'
  <2>1. \A s \in Stream : Given(s)' = Given(s)
    BY <1>2 DEF Given
  <2> QED BY <2>1 DEF ObInv, Chained
<1>7. \A s \in Stream : StreamOK(s)'
  <2> SUFFICES ASSUME NEW s \in Stream PROVE StreamOK(s)'
    OBVIOUS
  <2>1. StreamOK(s)
    BY DEF ObInv
  <2>2. call'.kind = "log" /\ call'.what.stream = s /\ call'.reply = "stored"
          => Bytes(ctl.rows[s]) > sink[s].bytes
    BY <1>2, <2>1 DEF StreamOK
  <2>3. call'.kind = "log" => call.kind = "log" /\ call'.what = call.what
    BY <1>2
  <2>4. call.kind = "log" => call'.kind = "log" /\ call'.what = call.what
    BY <1>2
  <2> QED BY <2>1, <2>2, <2>3, <2>4 DEF StreamOK
<1>8. SentOK'
  <2>1. LogWhats' \subseteq LogWhats
    BY <1>2 DEF LogWhats
  <2>2. \A s \in Stream : log.read[s] <= log'.read[s]
    BY <1>1, LogFields
  <2> QED BY <1>1, <1>2, <1>4, <2>1, <2>2, SentStays DEF ObInv
<1>9. ArtifactsOK'
  <2>1. call'.kind = "artifact" /\ call'.reply = "stored"
          => ctl.arts[call'.what.file] = call'.what.version
    BY <1>2 DEF ObInv, ArtifactsOK
  <2> QED BY <2>1 DEF ObInv, ArtifactsOK
<1>10. Placed' /\ SuccessComplete'
  BY <1>1, <1>2 DEF ObInv, Placed, SuccessComplete, Alive
<1> QED BY <1>3, <1>5, <1>6, <1>7, <1>8, <1>9, <1>10 DEF ObInv

(* The same when nobody is answered.                                       *)
LEMMA StoreStays ==
  ASSUME ObInv, UNCHANGED <<log, sink, call, job>>, net' \subseteq net,
         ctl' \in CtlType, ctl'.rows = ctl.rows, ctl'.arts = ctl.arts,
         ctl'.verdict = ctl.verdict, ctl.objects \subseteq ctl'.objects
  PROVE  ObInv'
<1>1. Answers(call.what) /\ call \in {NoCall} \cup LogCall \cup ArtifactCall
  BY DEF Answers, ObInv, ObTypeOK
<1>2. ASSUME call'.kind = "log", call'.reply = "stored"
      PROVE  Bytes(ctl.rows[call.what.stream]) > sink[call.what.stream].bytes
  <2>1. call.what.stream \in Stream
    BY <1>1, <1>2, CallFields, WhatFields
  <2>2. StreamOK(call.what.stream)
    BY <2>1 DEF ObInv
  <2> QED BY <1>2, <2>2 DEF StreamOK
<1>3. call'.kind = "artifact" /\ call'.reply = "stored" =>
        ctl.arts[call.what.file] = call.what.version
  BY DEF ObInv, ArtifactsOK
<1>4. PICK what : what = call.what
  OBVIOUS
<1> QED BY <1>1, <1>2, <1>3, <1>4, StoreMoves

(* A chunk the controller already has, at the offset of the sink, is ahead *)
(* of the sink.                                                            *)
LEMMA KnownChunk ==
  ASSUME ObInv, NEW w \in LogWhat, LogVerdict(w) = "known", call.kind = "log", call.what = w
  PROVE  Bytes(ctl.rows[w.stream]) > sink[w.stream].bytes
<1> PICK s : s = w.stream
  OBVIOUS
<1>1. s \in Stream /\ ctl.rows[s] \in Seq(Row) /\ Sized(ctl.rows[s]) /\ sink[s].bytes \in Nat
      /\ Bytes(ctl.rows[s]) \in Nat
  BY WhatFields, CtlFields, SinkFields DEF ObInv, ObTypeOK
<1>2. w.from = sink[s].bytes /\ w.from = w.offset
  <2>1. StreamOK(s) /\ SentOK /\ w \in LogWhats
    BY <1>1, SentWhats DEF ObInv
  <2> QED BY <2>1 DEF StreamOK, SentOK
<1>3. PICK i \in RowAt(s, w.offset) : TRUE
  BY DEF LogVerdict
<1>4. i \in 1 .. Len(ctl.rows[s]) /\ Before(ctl.rows[s], i) = w.offset
  BY <1>3 DEF RowAt, Before
<1>5. ctl.rows[s][i].len \in Nat \ {0}
  <2>1. ctl.rows[s][i] \in Row
    BY <1>1, <1>4
  <2> QED BY <2>1 DEF Row
<1>6. Before(ctl.rows[s], i) \in Nat /\ Before(ctl.rows[s], i) + ctl.rows[s][i].len <= Bytes(ctl.rows[s])
  BY <1>1, <1>4, BeforeWithin
<1> QED BY <1>1, <1>2, <1>4, <1>5, <1>6

(* A chunk the controller takes as new is the one that is next.            *)
LEMMA NewChunk ==
  ASSUME ObInv, NEW w \in LogWhats, LogVerdict(w) = "new"
  PROVE  Admits /\ w.from = w.offset /\ ~Entered(w) /\ NextUp(w)
<1>1. w \in LogWhat /\ w.stream \in Stream
  BY SentWhats, WhatFields DEF ObInv
<1>2. Admits /\ RowAt(w.stream, w.offset) = {}
  BY DEF LogVerdict
<1>3. w.from = w.offset /\ (Entered(w) \/ NextUp(w))
  BY DEF ObInv, SentOK
<1>4. ~Entered(w)
  <2> SUFFICES ASSUME Entered(w) PROVE FALSE
    OBVIOUS
  <2>1. PICK i \in 1 .. Len(ctl.rows[w.stream]) :
           ctl.rows[w.stream][i] = [from |-> w.from, len |-> w.len]
    BY DEF Entered
  <2>2. ctl.rows[w.stream][i].from = Before(ctl.rows[w.stream], i)
    BY <1>1 DEF ObInv, StreamOK
  <2>3. i \in RowAt(w.stream, w.offset)
    BY <1>3, <2>1, <2>2 DEF RowAt, Before
  <2> QED BY <1>2, <2>3
<1> QED BY <1>2, <1>3, <1>4

(* A new chunk is written behind the rows of its stream.                   *)
LEMMA PutChunkKeeps ==
  ASSUME ObInv, UNCHANGED <<log, sink, job>>, net' \subseteq net, NEW w \in LogWhats,
         LogVerdict(w) = "new", ctl' = PutLogChunk(w), Answers(w)
  PROVE  ObInv'
<1>1. /\ ObTypeOK /\ log \in LogType /\ ctl \in CtlType /\ Placed
      /\ call \in {NoCall} \cup LogCall \cup ArtifactCall
      /\ sink \in [Stream -> [bytes : Nat, chunks : Nat]]
  BY DEF ObInv, ObTypeOK
<1>2. /\ call' \in {NoCall} \cup LogCall \cup ArtifactCall
      /\ call'.kind = call.kind
      /\ call.kind # "none" => call'.what = call.what
      /\ call.kind # "none" /\ call.what # w => call'.reply = call.reply
  BY <1>1, AnswerFields
<1>3. Admits /\ w.from = w.offset /\ ~Entered(w) /\ NextUp(w)
  BY NewChunk
<1> PICK t, x : t = w.stream /\ x = [from |-> w.from, len |-> w.len]
  OBVIOUS
<1>4. /\ w \in LogWhat /\ t \in Stream /\ w.from \in Nat /\ w.len \in Nat \ {0}
      /\ x \in Row /\ x.from = w.from /\ x.len = w.len
  <2>1. w \in LogWhat
    BY <1>1, SentWhats
  <2>2. t \in Stream /\ w.from \in Nat /\ w.len \in Nat \ {0}
    BY <2>1, WhatFields
  <2> QED BY <2>1, <2>2 DEF Row
<1>5. PICK c : c = ctl.rows[t]
  OBVIOUS
<1>6. PICK d : d = Append(c, x)
  OBVIOUS
<1>7. /\ c \in Seq(Row) /\ Len(c) \in Nat /\ Bytes(c) \in Nat
      /\ d \in Seq(Row) /\ Len(d) = Len(c) + 1 /\ Bytes(d) = Bytes(c) + w.len
      /\ \A i \in 1 .. Len(c) : d[i] = c[i] /\ Before(d, i) = Before(c, i)
      /\ d[Len(c) + 1] = x /\ Before(d, Len(c) + 1) = Bytes(c)
  <2>1. c \in Seq(Row) /\ Len(c) \in Nat /\ Bytes(c) \in Nat
    BY <1>1, <1>4, <1>5, CtlFields
  <2> QED BY <1>4, <1>6, <2>1, RowAdded
<1>8. /\ ctl' \in CtlType /\ ctl'.rows = [ctl.rows EXCEPT ![t] = d]
      /\ ctl'.objects = ctl.objects \cup {w} /\ ctl'.arts = ctl.arts
      /\ ctl'.verdict = ctl.verdict
  <2>1. PICK o : o = ctl.objects \cup {w}
    OBVIOUS
  <2>2. o \in Objects
    BY <1>1, <1>4, <2>1 DEF CtlType, Objects
  <2>3. PICK rows : rows = [ctl.rows EXCEPT ![t] = d]
    OBVIOUS
  <2>4. rows \in [Stream -> Seq(Row)]
    <3>1. ctl.rows \in [Stream -> Seq(Row)]
      BY <1>1 DEF CtlType
    <3> QED BY <1>7, <2>3, <3>1
  <2>5. ctl' = [ctl EXCEPT !.objects = o, !.rows = rows]
    BY <1>1, <1>4, <1>5, <1>6, <2>1, <2>3 DEF PutLogChunk, CtlType
  <2>6. /\ ctl' \in CtlType /\ ctl'.rows = rows
        /\ ctl'.objects = o /\ ctl'.arts = ctl.arts /\ ctl'.verdict = ctl.verdict
    BY <1>1, <2>2, <2>4, <2>5 DEF CtlType
  <2> QED BY <2>1, <2>3, <2>6
<1>9. ctl'.rows[t] = d /\ \A s \in Stream : s # t => ctl'.rows[s] = ctl.rows[s]
  <2>1. ctl.rows \in [Stream -> Seq(Row)]
    BY <1>1 DEF CtlType
  <2> QED BY <1>4, <1>8, <2>1
<1>10. ObTypeOK'
  BY <1>1, <1>2, <1>8 DEF ObTypeOK
<1>11. Kept' = Kept + w.len /\ Kept \in Nat /\ Kept + w.len <= Budget
  <2>1. "stdout" \in Stream /\ "stderr" \in Stream /\ t \in {"stdout", "stderr"}
    BY <1>4 DEF Stream
  <2>2. /\ Bytes(log.held["stdout"]) \in Nat /\ Bytes(log.held["stderr"]) \in Nat
        /\ log.budget \in Nat /\ Bytes(log.queue) \in Nat
    BY <1>1, <2>1, LogFields
  <2>3. Bytes(ctl.rows["stdout"]) \in Nat /\ Bytes(ctl.rows["stderr"]) \in Nat
    BY <1>1, <2>1, CtlFields
  <2>4. Kept' = Bytes(ctl'.rows["stdout"]) + Bytes(ctl'.rows["stderr"]) + Bytes(log.queue)
                 + Bytes(log.held["stdout"]) + Bytes(log.held["stderr"]) + log.budget
    BY DEF Kept
  <2>5. Kept = Bytes(ctl.rows["stdout"]) + Bytes(ctl.rows["stderr"]) + Bytes(log.queue)
                 + Bytes(log.held["stdout"]) + Bytes(log.held["stderr"]) + log.budget
    BY DEF Kept
  <2>6. Bytes(ctl'.rows[t]) = Bytes(ctl.rows[t]) + w.len /\ w.len \in Nat
    BY <1>4, <1>5, <1>7, <1>9
  <2>7. Kept' = Kept + w.len
    <3>1. CASE t = "stdout"
      <4>1. ctl'.rows["stderr"] = ctl.rows["stderr"]
        BY <1>9, <2>1, <3>1
      <4> QED BY <2>2, <2>3, <2>4, <2>5, <2>6, <3>1, <4>1
    <3>2. CASE t = "stderr"
      <4>1. ctl'.rows["stdout"] = ctl.rows["stdout"]
        BY <1>9, <2>1, <3>2
      <4> QED BY <2>2, <2>3, <2>4, <2>5, <2>6, <3>2, <4>1
    <3> QED BY <2>1, <3>1, <3>2
  <2> QED BY <1>1, <1>3, <2>7, KeptNat DEF NextUp
<1>12. LimitOK' /\ \A s \in Stream : ReaderOK(s)'
  BY <1>11 DEF ObInv, LimitOK, ReaderOK, Alive
<1>13. \A s \in Stream : ~job.uploadError => Chained(s)'
  <2>1. \A s \in Stream : Given(s)' = Given(s)
    BY <1>2 DEF Given
  <2> QED BY <2>1 DEF ObInv, Chained
<1>14. \A s \in Stream : s # t => StreamOK(s)'
  <2> SUFFICES ASSUME NEW s \in Stream, s # t PROVE StreamOK(s)'
    OBVIOUS
  <2>1. StreamOK(s) /\ ctl'.rows[s] = ctl.rows[s] /\ ctl.objects \subseteq ctl'.objects
    BY <1>8, <1>9 DEF ObInv
  <2>2. call'.kind = "log" /\ call'.what.stream = s
          => call.kind = "log" /\ call'.what = call.what /\ call'.reply = call.reply
    BY <1>2
  <2>3. call.kind = "log" => call'.kind = "log" /\ call'.what = call.what
    BY <1>2
  <2> QED BY <2>1, <2>2, <2>3 DEF StreamOK
<1>15. StreamOK(t)'
  <2>1. StreamOK(t) /\ sink[t].bytes \in Nat /\ sink[t].chunks \in Nat /\ log.read[t] \in Nat
    BY <1>1, <1>4, SinkFields, LogFields DEF ObInv
  <2>2. /\ Bytes(c) = w.from /\ sink[t].bytes = w.from /\ w.from + w.len <= log.read[t]
        /\ ~job.uploadError => call.kind = "log" /\ call.what = w
    BY <1>3, <1>5 DEF NextUp
  <2>3. \A i \in 1 .. Len(d) : d[i].from = Before(d, i)
    <3>1. \A i \in 1 .. Len(c) : c[i].from = Before(c, i)
      BY <1>5, <2>1 DEF StreamOK
    <3> QED BY <1>4, <1>7, <2>2, <3>1
  <2>4. \A i \in 1 .. Len(d) : [stream |-> t, from |-> d[i].from, len |-> d[i].len,
                                offset |-> d[i].from] \in ctl'.objects
    <3>1. \A i \in 1 .. Len(c) : [stream |-> t, from |-> c[i].from, len |-> c[i].len,
                                  offset |-> c[i].from] \in ctl.objects
      BY <1>5, <2>1 DEF StreamOK
    <3>2. [stream |-> t, from |-> x.from, len |-> x.len, offset |-> x.from] = w
      BY <1>3, <1>4 DEF LogWhat
    <3>3. ASSUME NEW i \in 1 .. Len(d)
          PROVE  [stream |-> t, from |-> d[i].from, len |-> d[i].len,
                  offset |-> d[i].from] \in ctl'.objects
      <4>1. CASE i \in 1 .. Len(c)
        BY <1>7, <1>8, <3>1, <4>1
      <4>2. CASE i = Len(c) + 1
        BY <1>7, <1>8, <3>2, <4>2
      <4> QED BY <1>7, <4>1, <4>2
    <3> QED BY <3>3
  <2>5. Bytes(d) <= log.read[t] /\ Bytes(d) > sink[t].bytes /\ Bytes(d) = sink[t].bytes + w.len
    BY <1>4, <1>7, <2>1, <2>2
  <2>6. Len(d) = sink[t].chunks + 1
    BY <1>5, <1>7, <2>1, <2>2 DEF StreamOK
  <2>7. ~job.uploadError => call'.kind = "log" /\ call'.what = w
    BY <1>2, <2>2
  <2>8. call'.kind = "log" /\ call'.what.stream = t => call'.what.from = sink[t].bytes
    BY <1>2, <2>1 DEF StreamOK
  <2> QED BY <1>9, <2>3, <2>4, <2>5, <2>6, <2>7, <2>8 DEF StreamOK
<1>16. SentOK'
  <2>1. LogWhats' \subseteq LogWhats
    BY <1>2 DEF LogWhats
  <2>2. ASSUME NEW v \in LogWhats PROVE v.from = v.offset /\ Entered(v)'
    <3>1. v.from = v.offset /\ (Entered(v) \/ v = w)
      BY <1>3 DEF ObInv, SentOK
    <3>2. CASE v = w
      <4>1. Len(d) \in 1 .. Len(d) /\ d[Len(d)] = x
        BY <1>7
      <4> QED BY <1>9, <3>1, <3>2, <4>1 DEF Entered
    <3>3. CASE Entered(v)
      <4>1. PICK i \in 1 .. Len(ctl.rows[v.stream]) :
               ctl.rows[v.stream][i] = [from |-> v.from, len |-> v.len]
        BY <3>3 DEF Entered
      <4>2. v.stream \in Stream
        BY <1>1, SentWhats, WhatFields
      <4>3. CASE v.stream = t
        <5>1. i \in 1 .. Len(d) /\ d[i] = ctl.rows[v.stream][i]
          BY <1>5, <1>7, <4>1, <4>3
        <5> QED BY <1>9, <3>1, <4>1, <4>3, <5>1 DEF Entered
      <4>4. CASE v.stream # t
        <5>1. ctl'.rows[v.stream] = ctl.rows[v.stream]
          BY <1>9, <4>2, <4>4
        <5> QED BY <3>1, <4>1, <5>1 DEF Entered
      <4> QED BY <4>3, <4>4
    <3> QED BY <3>1, <3>2, <3>3
  <2> QED BY <2>1, <2>2 DEF SentOK
<1>17. ArtifactsOK'
  <2>1. call'.kind = "artifact" => call.kind = "artifact" /\ call'.what = call.what
    BY <1>2
  <2>2. call'.kind = "artifact" => call'.reply = call.reply
    <3> SUFFICES ASSUME call'.kind = "artifact" PROVE call'.reply = call.reply
      OBVIOUS
    <3>1. call.kind = "artifact" /\ call.what \in Artifact
      BY <1>1, <2>1, CallFields
    <3>2. call.what # w
      BY <1>4, <3>1, WhatKinds
    <3> QED BY <1>2, <3>1, <3>2
  <2>3. ctl.objects \subseteq ctl'.objects
    BY <1>8
  <2> QED BY <1>8, <2>1, <2>2, <2>3 DEF ObInv, ArtifactsOK
<1>18. Placed' /\ SuccessComplete'
  <2>1. ctl'.verdict.state = "none"
    BY <1>3, <1>8 DEF Admits
  <2> QED BY <1>1, <1>2, <2>1 DEF Placed, SuccessComplete, Alive
<1> QED BY <1>10, <1>12, <1>13, <1>14, <1>15, <1>16, <1>17, <1>18 DEF ObInv

(* A new artifact is written under its file.                               *)
LEMMA PutArtifactKeeps ==
  ASSUME ObInv, UNCHANGED <<log, sink, job>>, net' \subseteq net, NEW a \in Artifact,
         ArtifactVerdict(a) = "new", ctl' = PutArtifact(a), Answers(a)
  PROVE  ObInv'
<1>1. /\ ObTypeOK /\ log \in LogType /\ ctl \in CtlType /\ Placed
      /\ call \in {NoCall} \cup LogCall \cup ArtifactCall
  BY DEF ObInv, ObTypeOK
<1>2. /\ call' \in {NoCall} \cup LogCall \cup ArtifactCall
      /\ call'.kind = call.kind
      /\ call.kind # "none" => call'.what = call.what
      /\ call.kind # "none" /\ call.what # a => call'.reply = call.reply
  BY <1>1, AnswerFields
<1>3. a.file \in Files /\ a.version \in {1, 2}
  BY DEF Artifact
<1>4. Admits /\ ctl.arts[a.file] = 0
  BY DEF ArtifactVerdict
<1>5. /\ ctl' \in CtlType /\ ctl'.rows = ctl.rows
      /\ ctl'.objects = ctl.objects \cup {a}
      /\ ctl'.arts = [ctl.arts EXCEPT ![a.file] = a.version]
      /\ ctl'.verdict = ctl.verdict
  <2>1. PICK o, f, v : o = ctl.objects \cup {a} /\ f = a.file /\ v = a.version
    OBVIOUS
  <2>2. o \in Objects /\ v \in 0 .. 2
    BY <1>1, <1>3, <2>1 DEF CtlType, Objects
  <2>3. PICK arts : arts = [ctl.arts EXCEPT ![f] = v]
    OBVIOUS
  <2>4. arts \in [Files -> 0 .. 2]
    <3>1. ctl.arts \in [Files -> 0 .. 2]
      BY <1>1 DEF CtlType
    <3> QED BY <2>2, <2>3, <3>1
  <2>5. ctl' = [ctl EXCEPT !.objects = o, !.arts = arts]
    BY <1>1, <2>1, <2>3 DEF PutArtifact, CtlType
  <2>6. /\ ctl' \in CtlType /\ ctl'.rows = ctl.rows /\ ctl'.objects = o
        /\ ctl'.arts = arts /\ ctl'.verdict = ctl.verdict
    BY <1>1, <2>2, <2>4, <2>5 DEF CtlType
  <2> QED BY <2>1, <2>3, <2>6
<1>6. /\ ctl'.arts[a.file] = a.version
      /\ \A f \in Files : f # a.file => ctl'.arts[f] = ctl.arts[f]
  <2>1. ctl.arts \in [Files -> 0 .. 2]
    BY <1>1 DEF CtlType
  <2> QED BY <1>3, <1>5, <2>1
<1>7. ObTypeOK'
  BY <1>1, <1>2, <1>5 DEF ObTypeOK
<1>8. Kept' = Kept /\ Kept \in Nat
  BY <1>1, <1>5, KeptNat DEF Kept
<1>9. LimitOK' /\ \A s \in Stream : ReaderOK(s)'
  BY <1>8 DEF ObInv, LimitOK, ReaderOK, Alive
<1>10. \A s \in Stream : ~job.uploadError => Chained(s)'
  <2>1. \A s \in Stream : Given(s)' = Given(s)
    BY <1>2 DEF Given
  <2> QED BY <2>1 DEF ObInv, Chained
<1>11. call.kind = "log" => call'.kind = "log" /\ call'.what = call.what /\ call'.reply = call.reply
  <2> SUFFICES ASSUME call.kind = "log"
               PROVE  call'.kind = "log" /\ call'.what = call.what /\ call'.reply = call.reply
    OBVIOUS
  <2>1. call.what \in LogWhat
    BY <1>1, CallFields
  <2>2. call.what # a
    BY <2>1, WhatKinds
  <2> QED BY <1>2, <2>2
<1>12. \A s \in Stream : log.read[s] <= log'.read[s]
  BY <1>1, LogFields
<1>13. \A s \in Stream : StreamOK(s)'
  <2>1. ctl.objects \subseteq ctl'.objects
    BY <1>5
  <2> QED BY <1>1, <1>2, <1>5, <1>11, <1>12, <2>1, StreamStays DEF ObInv
<1>14. SentOK'
  <2>1. LogWhats' \subseteq LogWhats
    BY <1>2 DEF LogWhats
  <2> QED BY <1>1, <1>2, <1>5, <1>8, <1>12, <2>1, SentStays DEF ObInv
<1>15. ArtifactsOK'
  <2>1. ASSUME NEW f \in Files, ctl'.arts[f] # 0
        PROVE  [file |-> f, version |-> ctl'.arts[f]] \in ctl'.objects
    <3>1. CASE f = a.file
      <4>1. [file |-> f, version |-> ctl'.arts[f]] = a
        BY <1>6, <3>1 DEF Artifact
      <4> QED BY <1>5, <4>1
    <3>2. CASE f # a.file
      BY <1>5, <1>6, <2>1, <3>2 DEF ObInv, ArtifactsOK
    <3> QED BY <3>1, <3>2
  <2>2. ASSUME NEW b \in job.sent PROVE ctl'.arts[b.file] = b.version
    <3>1. b \in Artifact
      BY DEF ObInv, ObTypeOK, JobType
    <3>2. b.file \in Files /\ b.version \in {1, 2} /\ ctl.arts[b.file] = b.version
      BY <3>1 DEF ObInv, ArtifactsOK, Artifact
    <3>3. b.file # a.file
      BY <1>4, <3>2
    <3> QED BY <1>6, <3>2, <3>3
  <2>3. ASSUME call'.kind = "artifact", call'.reply = "stored"
        PROVE  ctl'.arts[call'.what.file] = call'.what.version
    <3>1. call.kind = "artifact" /\ call'.what = call.what /\ call.what \in Artifact
      BY <1>1, <1>2, <2>3, CallFields
    <3>2. CASE call.what = a
      BY <1>6, <3>1, <3>2
    <3>3. CASE call.what # a
      <4>1. PICK b : b = call.what
        OBVIOUS
      <4>2. call.reply = "stored"
        BY <1>2, <2>3, <3>1, <3>3
      <4>3. b.file \in Files /\ b.version \in {1, 2} /\ ctl.arts[b.file] = b.version
        BY <3>1, <4>1, <4>2 DEF ObInv, ArtifactsOK, Artifact
      <4>4. b.file # a.file
        BY <1>4, <4>3
      <4>5. ctl'.arts[b.file] = b.version
        BY <1>6, <4>3, <4>4
      <4> QED BY <3>1, <4>1, <4>5
    <3> QED BY <3>2, <3>3
  <2> QED BY <2>1, <2>2, <2>3 DEF ArtifactsOK
<1>16. Placed' /\ SuccessComplete'
  <2>1. ctl'.verdict.state = "none"
    BY <1>4, <1>5 DEF Admits
  <2> QED BY <1>1, <1>2, <2>1 DEF Placed, SuccessComplete, Alive
<1> QED BY <1>7, <1>9, <1>10, <1>13, <1>14, <1>15, <1>16 DEF ObInv

(* A request reaches the controller.                                       *)
LEMMA ServesKeeps ==
  ASSUME ObInv, NEW request \in net, Serves(request) \/ StopsMidway(request) PROVE ObInv'
<1> PICK what : what = request.what
  OBVIOUS
<1>1. ctl \in CtlType /\ call \in {NoCall} \cup LogCall \cup ArtifactCall
      /\ what \in LogWhat \cup Artifact
  BY DEF ObInv, ObTypeOK
<1>2. UNCHANGED <<log, sink, job>> /\ net' \subseteq net
  BY DEF Serves, StopsMidway
<1>3. what \in LogWhat => what \in LogWhats
  BY SentWhats DEF ObInv
<1>4. CASE Serves(request)
  <2>1. /\ ctl' = IF Verdict(what) = "new" THEN Put(what) ELSE ctl
        /\ \/ call' = call
           \/ /\ Waiting /\ Wire(call, call.attempt) = request
              /\ call' = [call EXCEPT !.reply =
                            IF Verdict(what) = "refused" THEN "refused" ELSE "stored"]
    BY <1>4 DEF Serves
  <2>2. Answers(what)
    BY <2>1 DEF Answers, Waiting, Wire
  <2>3. CASE Verdict(what) = "new"
    <3>1. CASE what \in LogWhat
      <4>1. LogVerdict(what) = "new" /\ ctl' = PutLogChunk(what)
        BY <2>1, <2>3, <3>1, WhatKinds DEF Verdict, Put
      <4> QED BY <1>2, <1>3, <2>2, <3>1, <4>1, PutChunkKeeps
    <3>2. CASE what \in Artifact
      <4>1. ArtifactVerdict(what) = "new" /\ ctl' = PutArtifact(what)
        BY <2>1, <2>3, <3>2, WhatKinds DEF Verdict, Put
      <4> QED BY <1>2, <2>2, <3>2, <4>1, PutArtifactKeeps
    <3> QED BY <1>1, <3>1, <3>2
  <2>4. CASE Verdict(what) # "new"
    <3>1. ctl' = ctl
      BY <2>1, <2>4
    <3>2. /\ call'.kind = call.kind
          /\ call.kind # "none" => call'.what = call.what
      BY <1>1, <2>2, AnswerFields
    <3>3. ASSUME call'.kind = "log", call'.reply = "stored", call.what = what
          PROVE  Bytes(ctl.rows[what.stream]) > sink[what.stream].bytes
      <4>1. call.kind = "log" /\ what \in LogWhat
        BY <1>1, <3>2, <3>3, CallFields
      <4>2. CASE call' = call
        <5>1. StreamOK(what.stream) /\ what.stream \in Stream
          BY <4>1, WhatFields DEF ObInv
        <5> QED BY <3>3, <4>1, <4>2, <5>1 DEF StreamOK
      <4>3. CASE call' # call
        <5>1. Verdict(what) # "refused"
          <6>1. call' = [call EXCEPT !.reply =
                            IF Verdict(what) = "refused" THEN "refused" ELSE "stored"]
            BY <2>1, <4>3
          <6>2. call \in LogCall
            BY <1>1, <4>1, CallFields
          <6> QED BY <3>3, <6>1, <6>2 DEF LogCall
        <5>2. LogVerdict(what) \notin {"new", "refused"}
          BY <2>4, <4>1, <5>1, WhatKinds DEF Verdict
        <5>3. LogVerdict(what) = "known"
          BY <5>2 DEF LogVerdict
        <5> QED BY <3>3, <4>1, <5>3, KnownChunk
      <4> QED BY <4>2, <4>3
    <3>4. ASSUME call'.kind = "artifact", call'.reply = "stored", call.what = what
          PROVE  ctl.arts[what.file] = what.version
      <4>1. call.kind = "artifact" /\ what \in Artifact
        BY <1>1, <3>2, <3>4, CallFields
      <4>2. CASE call' = call
        BY <3>4, <4>1, <4>2 DEF ObInv, ArtifactsOK
      <4>3. CASE call' # call
        <5>1. Verdict(what) # "refused"
          <6>1. call' = [call EXCEPT !.reply =
                            IF Verdict(what) = "refused" THEN "refused" ELSE "stored"]
            BY <2>1, <4>3
          <6>2. call \in ArtifactCall
            BY <1>1, <4>1, CallFields
          <6> QED BY <3>4, <6>1, <6>2 DEF ArtifactCall
        <5>2. ArtifactVerdict(what) \notin {"new", "refused"}
          BY <2>4, <4>1, <5>1, WhatKinds DEF Verdict
        <5> QED BY <5>2 DEF ArtifactVerdict
      <4> QED BY <4>2, <4>3
    <3>5. /\ ctl' \in CtlType /\ ctl'.rows = ctl.rows /\ ctl'.arts = ctl.arts
          /\ ctl'.verdict = ctl.verdict /\ ctl.objects \subseteq ctl'.objects
      BY <1>1, <3>1
    <3> QED BY <1>2, <2>2, <3>3, <3>4, <3>5, StoreMoves
  <2> QED BY <2>3, <2>4
<1>5. CASE StopsMidway(request)
  <2>1. ctl' = [ctl EXCEPT !.objects = @ \cup {what}] /\ call' = call
    BY <1>5 DEF StopsMidway
  <2>2. /\ ctl' \in CtlType /\ ctl'.rows = ctl.rows /\ ctl'.arts = ctl.arts
        /\ ctl'.verdict = ctl.verdict /\ ctl.objects \subseteq ctl'.objects
    <3>1. PICK o : o = ctl.objects \cup {what}
      OBVIOUS
    <3>2. o \in Objects /\ ctl.objects \subseteq o
      BY <1>1, <3>1 DEF CtlType, Objects
    <3>3. ctl' = [ctl EXCEPT !.objects = o]
      BY <1>1, <2>1, <3>1 DEF CtlType
    <3> QED BY <1>1, <3>2, <3>3 DEF CtlType
  <2> QED BY <1>2, <2>1, <2>2, StoreStays
<1> QED BY <1>4, <1>5

(* The lease, the uploads and the snapshot.                                *)
LEMMA StoreKeeps == ObInv /\ Store => ObInv'
<1> SUFFICES ASSUME ObInv, Store PROVE ObInv'
  OBVIOUS
<1>1. ctl \in CtlType
  BY DEF ObInv, ObTypeOK
<1>2. CASE \E request \in net : Serves(request) \/ StopsMidway(request)
  BY <1>2, ServesKeeps
<1>3. CASE LeaseEnds
  <2>1. ctl' = [ctl EXCEPT !.lease = FALSE] /\ UNCHANGED <<log, sink, call, net, job>>
    BY <1>3 DEF LeaseEnds
  <2>2. /\ ctl' \in CtlType /\ ctl'.rows = ctl.rows /\ ctl'.arts = ctl.arts
        /\ ctl'.verdict = ctl.verdict /\ ctl'.objects = ctl.objects
    BY <1>1, <2>1 DEF CtlType
  <2> QED BY <2>1, <2>2, StoreStays
<1>4. CASE PutSnapshot \/ SnapshotDamaged
  <2>1. UNCHANGED <<log, sink, call, net, job>>
    BY <1>4 DEF PutSnapshot, SnapshotDamaged
  <2>2. PICK v \in {"object", "stored", "damaged"} : ctl' = [ctl EXCEPT !.snapshot = v]
    BY <1>4 DEF PutSnapshot, SnapshotDamaged
  <2>3. /\ ctl' \in CtlType /\ ctl'.rows = ctl.rows /\ ctl'.arts = ctl.arts
        /\ ctl'.verdict = ctl.verdict /\ ctl'.objects = ctl.objects
    BY <1>1, <2>2 DEF CtlType
  <2> QED BY <2>1, <2>3, StoreStays
<1> QED BY <1>2, <1>3, <1>4 DEF Store

-----------------------------------------------------------------------------
(* The invariant.                                                          *)

(* Nothing is written, sent or stored at first.                            *)
LEMMA ObInitial == ObInit => ObInv
<1> SUFFICES ASSUME ObInit PROVE ObInv
  OBVIOUS
<1>1. /\ Budget \in Nat /\ Steps \in Nat /\ NoView \in Nat
  BY RunObjectsAssumption DEF NoView
<1>2. /\ log.budget = Budget /\ log.queue = <<>>
      /\ log.wrote = [s \in Stream |-> 0] /\ log.read = [s \in Stream |-> 0]
      /\ log.size = [s \in Stream |-> 0] /\ log.view = [s \in Stream |-> NoView]
      /\ log.held = [s \in Stream |-> <<>>] /\ log.cut = [s \in Stream |-> FALSE]
      /\ log.open = [s \in Stream |-> FALSE]
  BY DEF ObInit
<1>3. log \in LogType
  <2>1. PICK h : h = [s \in Stream |-> <<>>]
    OBVIOUS
  <2>2. h \in [Stream -> Seq(Chunk)] /\ <<>> \in Seq(Chunk)
    BY <2>1
  <2>3. PICK q : q = <<>>
    OBVIOUS
  <2>4. q \in Seq(Chunk)
    BY <2>3
  <2>5. log = [budget |-> Budget, queue |-> q,
              wrote |-> [s \in Stream |-> 0], read |-> [s \in Stream |-> 0],
              size |-> [s \in Stream |-> 0],
              view |-> [s \in Stream |-> NoView], held |-> h,
              cut |-> [s \in Stream |-> FALSE],
              open |-> [s \in Stream |-> FALSE]]
    BY <2>1, <2>3 DEF ObInit
  <2> QED BY <1>1, <2>2, <2>4, <2>5 DEF LogType
<1>4. /\ sink = [s \in Stream |-> [bytes |-> 0, chunks |-> 0]] /\ call = NoCall
      /\ call.kind = "none" /\ net = {}
  BY DEF ObInit, NoCall
<1>5. /\ ctl.rows = [s \in Stream |-> <<>>] /\ ctl.arts = [f \in Files |-> 0]
      /\ ctl.verdict.state = "none"
  BY DEF ObInit
<1>6. ctl \in CtlType
  <2>1. PICK rows, verdict : rows = [s \in Stream |-> <<>>] /\ verdict = [state |-> "none"]
    OBVIOUS
  <2>2. rows \in [Stream -> Seq(Row)] /\ verdict \in Verdicts /\ {} \in Objects
    BY <2>1 DEF Verdicts, Objects
  <2>3. ctl = [rows |-> rows, objects |-> {}, arts |-> [f \in Files |-> 0],
               snapshot |-> "absent", lease |-> TRUE, verdict |-> verdict]
    BY <2>1 DEF ObInit
  <2> QED BY <2>2, <2>3 DEF CtlType
<1>7. /\ job.pc = "assigned" /\ job.child = "none" /\ ~job.uploadError /\ job.cancel = "none"
      /\ job.state = "none" /\ job.sent = {} /\ job \in JobType /\ job.left = Steps
  BY <1>1 DEF ObInit, JobType, Outcomes, Whys
<1>8. ObTypeOK
  BY <1>3, <1>4, <1>6, <1>7 DEF ObTypeOK
<1>9. \A s \in Stream : /\ Bytes(ctl.rows[s]) = 0 /\ Len(ctl.rows[s]) = 0
                        /\ Bytes(log.held[s]) = 0 /\ log.held[s] = <<>>
  BY <1>2, <1>5, BytesEmpty
<1>10. LimitOK
  <2>1. "stdout" \in Stream /\ "stderr" \in Stream /\ Bytes(log.queue) = 0
    BY <1>2, BytesEmpty DEF Stream
  <2> QED BY <1>1, <1>2, <1>9, <2>1 DEF LimitOK, Kept
<1>11. \A s \in Stream : ReaderOK(s)
  BY <1>2, <1>7, <1>9 DEF ReaderOK, Alive
<1>12. \A s \in Stream : StreamOK(s)
  <2> SUFFICES ASSUME NEW s \in Stream PROVE StreamOK(s)
    OBVIOUS
  <2>1. sink[s].bytes = 0 /\ sink[s].chunks = 0 /\ log.read[s] = 0
    BY <1>2, <1>4
  <2> QED BY <1>4, <1>9, <2>1 DEF StreamOK
<1>13. \A s \in Stream : Chained(s)
  <2> SUFFICES ASSUME NEW s \in Stream PROVE Chained(s)
    OBVIOUS
  <2>1. Given(s) = 0 /\ log.read[s] = 0
    BY <1>2, <1>4 DEF Given
  <2>2. Bytes(Part(s, log.queue)) = 0
    <3>1. Part(s, log.queue) = <<>>
      BY <1>2 DEF Part
    <3> QED BY <3>1, BytesEmpty
  <2> QED BY <1>2, <1>9, <2>1, <2>2 DEF Chained
<1>14. SentOK
  <2>1. LogWhats = {}
    BY <1>4 DEF LogWhats
  <2> QED BY <2>1 DEF SentOK
<1>15. ArtifactsOK /\ Placed /\ SuccessComplete
  BY <1>2, <1>4, <1>5, <1>7 DEF ArtifactsOK, Placed, SuccessComplete, Alive
<1> QED BY <1>8, <1>10, <1>11, <1>12, <1>13, <1>14, <1>15 DEF ObInv

(* Every step of the run keeps the invariant.                              *)
LEMMA ObNextKeeps == ObInv /\ [ObNext]_obVars => ObInv'
<1> SUFFICES ASSUME ObInv, [ObNext]_obVars PROVE ObInv'
  OBVIOUS
<1>1. CASE Uploads
  BY <1>1, ReceivesKeeps, RetriesKeep, GivesUpKeeps, LogAckKeeps, ArtifactAckKeeps DEF Uploads
<1>2. CASE MainTask
  BY <1>2, SourceKeeps, StepsKeep, CollectsKeep, UploadsArtifactKeeps, CompletesKeeps DEF MainTask
<1>3. CASE UNCHANGED obVars
  <2>1. UNCHANGED <<log, sink, call, job, net, ctl>> /\ ctl \in CtlType
    BY <1>3 DEF obVars, ObInv, ObTypeOK
  <2> QED BY <2>1, StoreStays
<1> QED BY <1>1, <1>2, <1>3, OutputKeeps, ChildKeeps, StoreKeeps, CancelKeeps, FileKeeps DEF ObNext

(* What is known of the objects of a run at every step: a chunk is counted *)
(* at the place where it is, of the chunks on the wire at most one is not  *)
(* stored, and what is listed as sent is stored.                           *)
THEOREM ObInvariance == ObSpec => []ObInv
<1>1. ObInv /\ [ObNext]_obVars => ObInv'
  BY ObNextKeeps
<1> QED BY <1>1, ObInitial, PTL DEF ObSpec

(* For every budget, quota, channel, number of attempts and length of      *)
(* output, the log the controller holds is the beginning of what the       *)
(* processes wrote, in order and without a gap, and the readers together   *)
(* keep no more than the budget (put_log_chunk, HttpLogSink, LogBudget).   *)
THEOREM LogIsFaithful == ObSpec => []LogFaithful
<1>1. ObInv => LogFaithful
  <2> SUFFICES ASSUME ObInv PROVE LogFaithful
    OBVIOUS
  <2>1. \A s \in Stream : StreamOK(s) /\ LimitOK
    BY DEF ObInv
  <2>2. \A s \in Stream : \A i \in 1 .. Len(ctl.rows[s]) :
           ctl.rows[s][i].from = Bytes(SubSeq(ctl.rows[s], 1, i - 1))
    BY <2>1 DEF StreamOK, Before
  <2>3. \A s \in Stream : Bytes(ctl.rows[s]) <= log.read[s]
    BY <2>1 DEF StreamOK
  <2>4. Bytes(ctl.rows["stdout"]) + Bytes(ctl.rows["stderr"])
         + Bytes(log.queue) + Bytes(log.held["stdout"])
         + Bytes(log.held["stderr"]) + log.budget <= Budget
    BY DEF ObInv, LimitOK, Kept
  <2> QED BY <2>2, <2>3, <2>4 DEF LogFaithful
<1> QED BY <1>1, ObInvariance, PTL

(* A run recorded as succeeded has all of its output that is not called    *)
(* truncated and every artifact that was found, whatever was lost, retried *)
(* or delivered late (execute_assignment, validate_managed_completion).    *)
THEOREM SuccessIsComplete == ObSpec => []SuccessComplete
<1>1. ObInv => SuccessComplete
  BY DEF ObInv
<1> QED BY <1>1, ObInvariance, PTL

(* When everything stored is acknowledged, the evidence is what the        *)
(* controller holds.                                                       *)
LEMMA AcknowledgedMatches ==
  ASSUME ObInv, job.pc = "complete", ~Unacknowledged, ~CancelledMeanwhile, job.ordered
  PROVE  EvidenceHolds
<1>1. /\ ctl \in CtlType /\ job \in JobType /\ Placed /\ ArtifactsOK
      /\ sink \in [Stream -> [bytes : Nat, chunks : Nat]]
  BY DEF ObInv, ObTypeOK
<1>2. ASSUME NEW s \in Stream PROVE StreamMatches(s)
  <2>1. StreamOK(s) /\ ~(Bytes(ctl.rows[s]) > sink[s].bytes)
    BY DEF ObInv, Unacknowledged
  <2>2. Bytes(ctl.rows[s]) = sink[s].bytes /\ Len(ctl.rows[s]) = sink[s].chunks
    BY <2>1 DEF StreamOK
  <2>3. ASSUME NEW i \in 1 .. Len(ctl.rows[s])
        PROVE  \E o \in ctl.objects :
                 /\ "stream" \in DOMAIN o /\ o.stream = s
                 /\ o.offset = Bytes(SubSeq(ctl.rows[s], 1, i - 1))
                 /\ Same(ctl.rows[s][i], o)
    <3>1. PICK o : o = [stream |-> s, from |-> ctl.rows[s][i].from,
                        len |-> ctl.rows[s][i].len, offset |-> ctl.rows[s][i].from]
      OBVIOUS
    <3>2. o \in ctl.objects /\ ctl.rows[s][i].from = Before(ctl.rows[s], i)
      BY <2>1, <3>1 DEF StreamOK
    <3>3. /\ "stream" \in DOMAIN o /\ o.stream = s /\ o.offset = ctl.rows[s][i].from
          /\ o.from = ctl.rows[s][i].from /\ o.len = ctl.rows[s][i].len
      BY <3>1
    <3> QED BY <3>2, <3>3 DEF Same, Before
  <2> QED BY <2>2, <2>3 DEF StreamMatches
<1>3. ManifestMatches
  <2> DEFINE rows == {a \in [file : Files, version : 1 .. 2] : ctl.arts[a.file] = a.version}
  <2>1. ASSUME NEW a \in rows PROVE a \in job.sent /\ a \in ctl.objects
    <3>1. a.file \in Files /\ a.version \in 1 .. 2 /\ ctl.arts[a.file] = a.version
          /\ a = [file |-> a.file, version |-> a.version]
      OBVIOUS
    <3>2. PICK b \in job.sent : b.file = a.file
      BY <3>1 DEF Unacknowledged
    <3>3. b \in Artifact /\ b.version = ctl.arts[b.file]
      BY <1>1 DEF ArtifactsOK, JobType
    <3>4. b = [file |-> b.file, version |-> b.version]
      BY <3>3 DEF Artifact
    <3>5. a = b
      BY <3>1, <3>2, <3>3, <3>4
    <3>6. a \in ctl.objects
      BY <1>1, <3>1 DEF ArtifactsOK
    <3> QED BY <3>5, <3>6
  <2>2. ASSUME NEW a \in job.sent PROVE a \in rows
    <3>1. a \in Artifact /\ ctl.arts[a.file] = a.version
      BY <1>1 DEF ArtifactsOK, JobType
    <3>2. a \in [file : Files, version : 1 .. 2]
      BY <3>1 DEF Artifact
    <3> QED BY <3>1, <3>2
  <2>3. rows = job.sent /\ rows \subseteq ctl.objects
    BY <2>1, <2>2
  <2> QED BY <2>3 DEF ManifestMatches
<1>4. SourceMatches
  BY <1>1 DEF Placed, SourceMatches, SourceWhys, Stops
<1>5. StepsMatch
  BY <1>1 DEF Placed, StepsMatch, Stops, CancelledMeanwhile
<1> QED BY <1>2, <1>3, <1>4, <1>5 DEF EvidenceHolds

(* For every job, budget and number of attempts: the controller refuses    *)
(* the evidence of a worker with a living lease only when it holds an      *)
(* upload none of whose answers reached the worker, when a cancellation    *)
(* fell between the two looks at the flag, or when a clock was set back    *)
(* (submit_completion, execute_assignment, validate_managed_completion).   *)
THEOREM RefusalIsExplained == ObSpec => []RefusalExplained
<1>1. ObInv => RefusalExplained
  BY AcknowledgedMatches DEF RefusalExplained
<1> QED BY <1>1, ObInvariance, PTL
=============================================================================

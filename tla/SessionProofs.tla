--------------------------- MODULE SessionProofs ---------------------------
(***************************************************************************)
(* The safety properties of one run session, for any lease, clock lag,     *)
(* clock skew, number of attempts and any number of requests in flight.    *)
(***************************************************************************)
EXTENDS RunSession, TLAPS

(* The order of the states of a run.                                       *)
Rank(s) ==
    IF s = "Queued" THEN 0
    ELSE IF s = "Preparing" THEN 1
    ELSE IF s = "Running" THEN 2
    ELSE IF s = "Verifying" THEN 3 ELSE 4

(* The controller's rows: the history is that of the versions and moves    *)
(* forward only, a completion belongs to the state it stored, and without  *)
(* a cancellation the version counts the transitions.                      *)
HistOK ==
    /\ ctl.version >= 1
    /\ Len(hist) = ctl.version + 1
    /\ hist[ctl.version + 1] = ctl.state
    /\ hist[1] = "Queued" /\ hist[2] = "Preparing"
    /\ \A i, j \in 1..Len(hist) : i <= j => Rank(hist[i]) <= Rank(hist[j])

RowOK ==
    /\ ctl.completion # NoDocument => ctl.state = ctl.completion.state
    /\ ctl.receipt # "none" => ctl.completion # NoDocument
    /\ Live(ctl) /\ ~ctl.cancel => ctl.version = Rank(ctl.state)
    /\ CancelNeverSucceeds

(* A version and a state that the controller stored together.              *)
Told(h, p) == p.version < Len(h) /\ p.state = h[p.version + 1]

(* What may be under way: the tasks never send anything else, and a        *)
(* cleanup request exists only after the job root is gone.                 *)
WireOK ==
    \A r \in wire :
        /\ r.kind = "heartbeat" => r.arg \in States
        /\ r.kind = "state" =>
              /\ r.arg \in {"Running", "Verifying"}
              /\ main.pc # "prepare"
              /\ r.arg = "Verifying" => main.pc \notin {"start", "execute"}
        /\ r.kind = "complete" => r.arg \in Terminal
        /\ r.kind = "cleanup" =>
              /\ r.arg \in Outcomes /\ main.root = "none"
              /\ main.pc \in {"receipt"} \cup Stopped

(* The main task waits exactly for the request its place calls for.        *)
MainOK ==
    /\ main.pc \in {"prepare", "execute", "upload", "remove"} \cup Stopped
          => main.call = NoCall
    /\ main.pc = "start" => main.call.kind = "state" /\ main.call.arg = "Running"
    /\ main.pc = "verify" => main.call.kind = "state" /\ main.call.arg = "Verifying"
    /\ main.pc = "complete" =>
          /\ main.call.kind = "complete" /\ main.call.arg \in Terminal
          /\ main.pending = [version |-> main.call.version,
                             state |-> main.call.arg]
    /\ main.pc = "receipt" => main.call.kind = "cleanup" /\ main.call.arg \in Outcomes
    /\ main.pc \in {"receipt", "done"} => main.root = "none"
    /\ main.call = NoCall => main.reply = NoReply
    /\ main.pc \in {"remove", "receipt"} \cup Stopped => hb = NoWork

(* What a response that waits for the main task tells.                     *)
MainReplyOK ==
    LET p == main.reply IN
    /\ p.kind = "ok" => Told(hist, p)
    /\ p.kind = "ok" /\ main.call.kind = "state" => p.state = main.call.arg
    /\ p.kind = "ok" /\ main.call.kind = "complete" =>
          /\ ctl.completion = [version |-> main.call.version,
                               state |-> main.call.arg]
          /\ ctl.state = main.call.arg
    /\ p.kind = "conflict" /\ (main.call.kind = "state" \/ p.state \notin Terminal)
          => Told(hist, p)
    /\ p.kind = "conflict" /\ main.call.kind = "state" /\ p.cancel => ctl.cancel
    /\ ConflictExplained

(* The heartbeat task never speaks of a later state than the view, and     *)
(* what it is told is stored.                                              *)
HbOK ==
    /\ hb.pc = "wait" =>
          /\ hb.call.kind = "heartbeat" /\ hb.call.arg \in States
          /\ Rank(hb.call.arg) <= Rank(view.state)
    /\ hb.pc # "wait" => hb.call = NoCall /\ hb.reply = NoReply
    /\ hb.pc = "read" => hb.seen \in States /\ Rank(hb.seen) <= Rank(view.state)

HbReplyOK ==
    LET p == hb.reply IN
    /\ p.kind \in {"ok", "conflict"} => Told(hist, p)
    /\ p.kind = "ok" =>
          /\ p.state = hb.call.arg /\ p.state \in Executing
          /\ p.lease <= TTL
          /\ Live(ctl) => p.lease <= ctl.lease + ClockLag

ViewOK == view.version >= 1 /\ Told(hist, view)

LeaseOK == lease <= TTL + ClockSkew /\ LeaseBounded

(* While nobody cancels, the run is where the main task takes it.          *)
PhaseOK ==
    Live(ctl) /\ ~ctl.cancel =>
        /\ main.pc = "prepare" => ctl.state = "Preparing"
        /\ main.pc = "start" =>
              /\ ctl.state \in {"Preparing", "Running"}
              /\ main.call.version \in 1..ctl.version
        /\ main.pc = "execute" => ctl.state = "Running" /\ view.version >= 2
        /\ main.pc = "verify" =>
              /\ ctl.state \in {"Running", "Verifying"} /\ view.version >= 2
              /\ main.call.version \in 2..ctl.version

EndOK == AckMatchesCommit /\ ReceiptTruthful
         /\ (ctl.receipt # "none" => main.pc \in {"receipt"} \cup Stopped)

SInv ==
    /\ TypeOK /\ HistOK /\ RowOK /\ WireOK /\ MainOK /\ MainReplyOK
    /\ HbOK /\ HbReplyOK /\ ViewOK /\ LeaseOK /\ PhaseOK /\ EndOK

-----------------------------------------------------------------------------
(* Types, by name.                                                         *)

CtlRow == [ state: States, version: Nat, cancel: BOOLEAN, lease: Int,
            completion: Document \cup {NoDocument},
            receipt: Outcomes \cup {"none"} ]

MainTask == [ pc: {"prepare", "start", "execute", "verify", "upload",
                   "complete", "remove", "receipt"} \cup Stopped,
              call: Request \cup {NoCall}, reply: Reply \cup {NoReply},
              pending: Document \cup {NoDocument}, root: {"none", "created"} ]

HbTask == [ pc: {"idle", "read", "wait", "stopped"},
            seen: States \cup {"none"},
            call: Request \cup {NoCall}, reply: Reply \cup {NoReply} ]

(* The type invariant by its parts.                                        *)
LEMMA TypeParts ==
    TypeOK <=> /\ ctl \in CtlRow /\ hist \in Seq(States \cup {"Queued"})
               /\ wire \subseteq Request /\ view \in [version: Nat, state: States]
               /\ lease \in Int /\ stop \in StopReasons
               /\ main \in MainTask /\ hb \in HbTask
BY DEF TypeOK, CtlRow, MainTask, HbTask

(* The next state is typed when each part is.                              *)
LEMMA TypeKept ==
    ASSUME ctl' \in CtlRow, hist' \in Seq(States \cup {"Queued"}),
           wire' \subseteq Request, view' \in [version: Nat, state: States],
           lease' \in Int, stop' \in StopReasons, main' \in MainTask, hb' \in HbTask
    PROVE  TypeOK'
BY DEF TypeOK, CtlRow, MainTask, HbTask

(* The run states the session names, and which of them are live.           *)
LEMMA StateNames ==
    /\ "Failed" \in States /\ "Preparing" \in States /\ "Running" \in States
    /\ "Verifying" \in States /\ Terminal \subseteq States
    /\ Executing \subseteq States
    /\ \A s \in States : s \in Executing <=> s \notin Terminal
BY DEF States, Executing, Terminal

-----------------------------------------------------------------------------
(* The controller.                                                         *)

(* What one transaction may make of the rows of the run.                   *)
CtlStep(c) ==
    LET kept == c.completion = ctl.completion /\ c.receipt = ctl.receipt
        next == c.version = ctl.version + 1
    IN
    /\ c \in CtlRow
    /\ \/ c = ctl
       \/ /\ Live(ctl) /\ kept /\ c.state = ctl.state /\ c.cancel = ctl.cancel
          /\ c.version = ctl.version /\ c.lease >= TTL - ClockLag
       \/ /\ Live(ctl) /\ kept /\ next /\ ~ctl.cancel /\ ~c.cancel
          /\ \/ ctl.state = "Preparing" /\ c.state = "Running"
             \/ ctl.state = "Running" /\ c.state = "Verifying"
          /\ c.lease = ctl.lease
       \/ /\ Live(ctl) /\ kept /\ next /\ c.cancel = ctl.cancel
          /\ c.state = "Failed"
       \/ /\ Live(ctl) /\ kept /\ next /\ c.cancel /\ c.state = ctl.state
          /\ c.lease = ctl.lease
       \/ /\ Live(ctl) /\ next /\ c.cancel = ctl.cancel
          /\ c.state \in Terminal /\ (ctl.cancel => c.state # "Succeeded")
          /\ c.completion \in Document /\ c.completion.state = c.state
          /\ c.receipt = ctl.receipt
       \/ /\ ctl.completion # NoDocument
          /\ c.state = ctl.state /\ c.cancel = ctl.cancel
          /\ c.version = ctl.version /\ c.completion = ctl.completion
          /\ c.lease = ctl.lease

(* expire_leases only ever fails a live run.                               *)
LEMMA ExpireCases ==
    ASSUME ctl \in CtlRow, NEW d \in Nat
    PROVE  LET c == Expire(ctl, d) IN
           /\ CtlStep(c) /\ (Live(c) => c = ctl)
           /\ c.completion = ctl.completion
           /\ c = ctl \/ (Live(ctl) /\ c.state = "Failed")
<1> DEFINE c == Expire(ctl, d)
<1>1. CASE c = ctl
  BY <1>1 DEF CtlStep
<1>2. CASE Live(ctl) /\ c = [ctl EXCEPT !.state = "Failed",
                                        !.version = ctl.version + 1, !.lease = 0]
  <2>1. ctl.version + 1 \in Nat /\ 0 \in Int
    BY DEF CtlRow
  <2>2. c \in CtlRow
    BY <1>2, <2>1, StateNames, ZenonT(60) DEF CtlRow
  <2>3. /\ c.state = "Failed" /\ c.version = ctl.version + 1
        /\ c.cancel = ctl.cancel /\ c.completion = ctl.completion
        /\ c.receipt = ctl.receipt
    BY <1>2 DEF CtlRow
  <2> QED BY <1>2, <2>2, <2>3 DEF CtlStep, Live, Executing
<1> QED BY <1>1, <1>2 DEF Expire

(* The history after a transaction: what was told stays true.              *)
LEMMA StoreHist ==
    ASSUME TypeOK, HistOK, RowOK, NEW c, CtlStep(c), Store(c)
    PROVE  /\ hist' \in Seq(States \cup {"Queued"}) /\ ctl' \in CtlRow
           /\ HistOK'
           /\ Len(hist') >= Len(hist)
           /\ \A i \in 1..Len(hist) : hist'[i] = hist[i]
<1>0. ctl' = c /\ c \in CtlRow /\ ctl \in CtlRow /\ hist \in Seq(States \cup {"Queued"})
  BY TypeParts DEF Store, CtlStep
<1>1. CASE c.version = ctl.version
  <2>1. hist' = hist
    BY <1>1 DEF Store
  <2>2. c.state = ctl.state
    BY <1>0, <1>1 DEF CtlStep, CtlRow
  <2> QED BY <1>0, <1>1, <2>1, <2>2 DEF HistOK
<1>2. CASE c.version # ctl.version
  <2>1. hist' = Append(hist, c.state)
    BY <1>2 DEF Store
  <2>2. c.version = ctl.version + 1 /\ Live(ctl)
    BY <1>2 DEF CtlStep
  <2>3. c.state \in States /\ ctl.state \in States /\ ctl.version \in Nat
    BY <1>0 DEF CtlRow
  <2>4. Rank(ctl.state) <= Rank(c.state)
    BY <1>2, <2>2, <2>3 DEF CtlStep, Rank, Live, Executing, States, Terminal
  <2>5. Len(hist) \in Nat /\ Len(hist) = ctl.version + 1
    BY <1>0 DEF HistOK
  <2>6. /\ hist' \in Seq(States \cup {"Queued"}) /\ Len(hist') = Len(hist) + 1
        /\ \A i \in 1..Len(hist) : hist'[i] = hist[i]
        /\ hist'[Len(hist) + 1] = c.state
    BY <1>0, <2>1, <2>3
  <2>7. \A i \in 1..Len(hist) : Rank(hist[i]) <= Rank(ctl.state)
    BY <2>5 DEF HistOK
  <2>8. \A i \in 1..Len(hist) : Rank(hist[i]) \in Nat
    BY DEF Rank
  <2>9. Rank(c.state) \in Nat /\ Rank(ctl.state) \in Nat
    BY DEF Rank
  <2>10. ASSUME NEW i \in 1..Len(hist'), NEW j \in 1..Len(hist'), i <= j
         PROVE  Rank(hist'[i]) <= Rank(hist'[j])
    <3>1. CASE j \in 1..Len(hist)
      <4>1. i \in 1..Len(hist)
        BY <2>5, <2>10, <3>1
      <4>2. Rank(hist[i]) <= Rank(hist[j])
        BY <2>10, <3>1, <4>1 DEF HistOK
      <4> QED BY <2>6, <3>1, <4>1, <4>2
    <3>2. CASE j = Len(hist) + 1 /\ i \in 1..Len(hist)
      <4>1. Rank(hist[i]) <= Rank(c.state)
        BY <2>4, <2>7, <2>8, <2>9, <3>2
      <4> QED BY <2>6, <3>2, <4>1
    <3>3. CASE j = Len(hist) + 1 /\ i = j
      BY <2>6, <2>9, <3>3
    <3> QED BY <2>5, <2>6, <2>10, <3>1, <3>2, <3>3
  <2>11. hist'[1] = "Queued" /\ hist'[2] = "Preparing" /\ c.version >= 1
    <3>1. ctl.version >= 1
      BY DEF HistOK
    <3>2. 1 \in 1..Len(hist) /\ 2 \in 1..Len(hist) /\ c.version >= 1
      BY <2>2, <2>3, <2>5, <3>1
    <3>3. hist'[1] = hist[1] /\ hist'[2] = hist[2]
      BY <2>6, <3>2
    <3> QED BY <3>2, <3>3 DEF HistOK
  <2>12. Len(hist') = c.version + 1 /\ hist'[c.version + 1] = c.state
    BY <2>2, <2>3, <2>5, <2>6
  <2> QED BY <1>0, <2>5, <2>6, <2>10, <2>11, <2>12 DEF HistOK
<1> QED BY <1>1, <1>2

(* The rows after a transaction still agree.                               *)
LEMMA StoreRow ==
    ASSUME TypeOK, HistOK, RowOK, NEW c, CtlStep(c), ctl' = c
    PROVE  RowOK'
<1>0. c \in CtlRow /\ ctl \in CtlRow
  BY TypeParts DEF CtlStep
<1>1. Live(ctl) => ctl.completion = NoDocument /\ ctl.receipt = "none"
  BY <1>0 DEF RowOK, Live, CtlRow, Document, Executing, Terminal
<1>2. ctl'.completion # NoDocument => ctl'.state = ctl'.completion.state
  BY <1>1 DEF CtlStep, RowOK
<1>3. NoDocument \notin Document
  BY DEF NoDocument, Document, Terminal
<1>4. ctl'.receipt # "none" => ctl'.completion # NoDocument
  BY <1>0, <1>1 DEF CtlStep, RowOK
<1>5. Live(ctl)' /\ ~ctl'.cancel => ctl'.version = Rank(ctl'.state)
  BY <1>0 DEF CtlStep, RowOK, Live, Executing, Terminal, Rank, CtlRow
<1>6. CancelNeverSucceeds'
  BY DEF CtlStep, RowOK, CancelNeverSucceeds, Live, Executing, Terminal
<1> QED BY <1>2, <1>4, <1>5, <1>6 DEF RowOK

(* A handler's result: rows c and response p to the request r.             *)
Handled(r, c, p) ==
    /\ CtlStep(c) /\ p \in Reply
    /\ c.state # ctl.state /\ Live(c) => r.kind = "state" /\ r.arg = c.state
    /\ c.receipt # ctl.receipt => r.kind = "cleanup"
    /\ \/ c = ctl /\ p.kind = "denied"
       \/ /\ c = ctl /\ p.kind = "conflict"
          /\ \/ /\ p.version = ctl.version /\ p.state = ctl.state
                /\ p.cancel = ctl.cancel
                /\ r.kind = "state" =>
                      /\ Live(ctl)
                      /\ ~(/\ r.version = ctl.version /\ ~ctl.cancel
                           /\ CanTransition(ctl.state, r.arg))
             \/ r.kind = "complete" /\ p.state = "Failed"
       \/ /\ p.kind = "ok" /\ p.version = c.version /\ p.state = c.state
          /\ r.kind = "heartbeat" =>
                /\ Live(c) /\ r.arg = c.state
                /\ p.lease <= TTL /\ p.lease <= c.lease + ClockLag
          /\ r.kind = "state" => c.state = r.arg
          /\ r.kind = "complete" =>
                /\ c.completion = [version |-> r.version, state |-> r.arg]
                /\ c.state = r.arg

(* A refused request changes no row and is answered as denied.             *)
LEMMA DeniedReply ==
    Denied.rows = ctl /\ Denied.reply \in Reply /\ Denied.reply.kind = "denied"
<1>1. Denied.rows = ctl
      /\ Denied.reply = [kind |-> "denied", version |-> 0, state |-> "Failed",
                         cancel |-> FALSE, lease |-> 0]
  BY DEF Denied, NoReply
<1>2. [kind |-> "denied", version |-> 0, state |-> "Failed",
       cancel |-> FALSE, lease |-> 0] \in Reply
  BY StateNames DEF Reply
<1> QED BY <1>1, <1>2

(* An answer carries the row it was computed from.                         *)
LEMMA AnswerReply ==
    ASSUME NEW c \in CtlRow, NEW l \in Int, NEW k \in {"ok", "conflict"}
    PROVE  LET p == Answer(k, c, l) IN
           /\ p \in Reply /\ p.kind = k /\ p.version = c.version
           /\ p.state = c.state /\ p.cancel = c.cancel /\ p.lease = l
BY DEF Answer, Reply, CtlRow

(* A refusal leaves the rows alone.                                        *)
LEMMA DeniedHandled ==
    ASSUME ctl \in CtlRow, NEW r
    PROVE  Handled(r, Denied.rows, Denied.reply)
BY DeniedReply DEF Handled, CtlStep

(* A conflict over the rows as they are.                                   *)
LEMMA ConflictHandled ==
    ASSUME ctl \in CtlRow, NEW r,
           r.kind = "state" =>
               /\ Live(ctl)
               /\ ~(/\ r.version = ctl.version /\ ~ctl.cancel
                    /\ CanTransition(ctl.state, r.arg))
    PROVE  Handled(r, Conflict(ctl).rows, Conflict(ctl).reply)
<1> DEFINE p == Answer("conflict", ctl, 0)
<1>1. Conflict(ctl).rows = ctl /\ Conflict(ctl).reply = p
  BY DEF Conflict
<1>2. /\ p \in Reply /\ p.kind = "conflict" /\ p.version = ctl.version
      /\ p.state = ctl.state /\ p.cancel = ctl.cancel
  BY AnswerReply
<1> HIDE DEF p
<1> QED BY <1>1, <1>2 DEF Handled, CtlStep

(* worker_heartbeat.                                                       *)
LEMMA HeartbeatHandled ==
    ASSUME ctl \in CtlRow, NEW r \in Request, NEW d \in 0..ClockLag,
           r.kind = "heartbeat"
    PROVE  Handled(r, HandleHeartbeat(r, d).rows, HandleHeartbeat(r, d).reply)
<1> DEFINE h == HandleHeartbeat(r, d)
           e == Expire(ctl, d)
<1>0. d \in Nat /\ d <= ClockLag /\ TTL \in Nat /\ ClockLag \in Nat
  BY SessionAssumption
<1>1. Live(e) => e = ctl
  BY <1>0, ExpireCases
<1>2. CASE ~Live(e)
  <2>1. h = Denied
    BY <1>2 DEF HandleHeartbeat
  <2> QED BY <2>1, DeniedHandled
<1>3. CASE Live(e) /\ h = Conflict(ctl)
  BY <1>3, ConflictHandled
<1>4. CASE Live(e) /\ r.arg = ctl.state
           /\ h = Accept([ctl EXCEPT !.lease = TTL - d], TTL - d)
  <2> DEFINE c == [ctl EXCEPT !.lease = TTL - d]
             p == Answer("ok", c, TTL - d)
  <2>0. TTL - d \in Int /\ TTL - d >= TTL - ClockLag /\ TTL - d <= TTL
        /\ TTL - d <= (TTL - d) + ClockLag
    BY <1>0
  <2>1. c \in CtlRow
    BY <2>0, ZenonT(60) DEF CtlRow
  <2>2. /\ c.state = ctl.state /\ c.version = ctl.version /\ c.cancel = ctl.cancel
        /\ c.lease = TTL - d /\ c.completion = ctl.completion
        /\ c.receipt = ctl.receipt
    BY DEF CtlRow
  <2>3. h.rows = c /\ h.reply = p
    BY <1>4 DEF Accept
  <2> HIDE DEF c
  <2>4. /\ p \in Reply /\ p.kind = "ok" /\ p.version = c.version
        /\ p.state = c.state /\ p.lease = TTL - d
    BY <2>0, <2>1, AnswerReply
  <2> HIDE DEF p
  <2>5. CtlStep(c)
    BY <1>1, <1>4, <2>0, <2>1, <2>2 DEF CtlStep
  <2>6. Handled(r, c, p)
    BY <1>1, <1>4, <2>0, <2>2, <2>4, <2>5 DEF Handled, Live
  <2> QED BY <2>3, <2>6
<1> QED BY <1>1, <1>2, <1>3, <1>4 DEF HandleHeartbeat

(* worker_transition.                                                      *)
LEMMA StateHandled ==
    ASSUME ctl \in CtlRow, NEW r \in Request, NEW d \in 0..ClockLag,
           r.kind = "state", r.arg \in {"Running", "Verifying"}
    PROVE  Handled(r, HandleState(r, d).rows, HandleState(r, d).reply)
<1> DEFINE h == HandleState(r, d)
           e == Expire(ctl, d)
<1>0. d \in Nat
  BY SessionAssumption
<1>1. Live(e) => e = ctl
  BY <1>0, ExpireCases
<1>2. CASE ~Live(e)
  <2>1. h = Denied
    BY <1>2 DEF HandleState
  <2> QED BY <2>1, DeniedHandled
<1>3. CASE /\ Live(e)
           /\ ~(r.version = ctl.version /\ ~ctl.cancel /\ CanTransition(ctl.state, r.arg))
  <2>1. h = Conflict(ctl)
    BY <1>1, <1>3 DEF HandleState
  <2> QED BY <1>1, <1>3, <2>1, ConflictHandled
<1>4. CASE /\ Live(e)
           /\ r.version = ctl.version /\ ~ctl.cancel /\ CanTransition(ctl.state, r.arg)
  <2> DEFINE c == [ctl EXCEPT !.state = r.arg, !.version = ctl.version + 1]
             p == Answer("ok", c, 0)
  <2>0. ctl.version + 1 \in Nat /\ r.arg \in States
    BY StateNames DEF CtlRow
  <2>1. c \in CtlRow
    BY <2>0, ZenonT(60) DEF CtlRow
  <2>2. /\ c.state = r.arg /\ c.version = ctl.version + 1 /\ c.cancel = ctl.cancel
        /\ c.lease = ctl.lease /\ c.completion = ctl.completion
        /\ c.receipt = ctl.receipt
    BY DEF CtlRow
  <2>3. h.rows = c /\ h.reply = p
    BY <1>1, <1>4 DEF HandleState, Accept
  <2> HIDE DEF c
  <2>4. /\ p \in Reply /\ p.kind = "ok" /\ p.version = c.version
        /\ p.state = c.state
    BY <2>0, <2>1, AnswerReply
  <2> HIDE DEF p
  <2>5. /\ Live(ctl)
        /\ \/ ctl.state = "Preparing" /\ c.state = "Running"
           \/ ctl.state = "Running" /\ c.state = "Verifying"
    BY <1>1, <1>4, <2>2 DEF CanTransition, Live, Executing, Terminal
  <2>6. CtlStep(c)
    BY <1>4, <2>1, <2>2, <2>5 DEF CtlStep
  <2>7. Handled(r, c, p)
    BY <2>2, <2>4, <2>6 DEF Handled
  <2> QED BY <2>3, <2>7
<1> QED BY <1>2, <1>3, <1>4

(* worker_complete_managed.                                                *)
LEMMA CompleteHandled ==
    ASSUME ctl \in CtlRow, RowOK, NEW r \in Request, NEW d \in 0..ClockLag,
           r.kind = "complete", r.arg \in Terminal
    PROVE  Handled(r, HandleComplete(r, d).rows, HandleComplete(r, d).reply)
<1> DEFINE h == HandleComplete(r, d)
           e == Expire(ctl, d)
           doc == [version |-> r.version, state |-> r.arg]
<1>0. d \in Nat
  BY SessionAssumption
<1>1. /\ CtlStep(e) /\ (Live(e) => e = ctl) /\ e.completion = ctl.completion
      /\ e = ctl \/ (Live(ctl) /\ e.state = "Failed")
  BY <1>0, ExpireCases
<1>2. doc \in Document /\ doc # NoDocument /\ doc.state = r.arg
  BY DEF Document, Request, NoDocument, Terminal
<1>3. CASE ~Live(e) /\ e.completion = doc
  <2>1. ~Live(ctl) /\ e = ctl /\ ctl.state = r.arg
    BY <1>1, <1>2, <1>3 DEF RowOK, Live, Executing, Terminal
  <2> DEFINE p == Answer("ok", ctl, 0)
  <2>2. h.rows = ctl /\ h.reply = p
    BY <1>3, <2>1 DEF HandleComplete, Accept
  <2>3. p \in Reply /\ p.kind = "ok" /\ p.version = ctl.version /\ p.state = ctl.state
    BY AnswerReply
  <2> HIDE DEF p
  <2>4. Handled(r, ctl, p)
    BY <1>3, <2>1, <2>3 DEF Handled, CtlStep
  <2> QED BY <2>2, <2>4
<1>4. CASE ~Live(e) /\ e.completion # doc
  <2> DEFINE p == Answer("conflict", e, 0)
  <2>1. h.rows = ctl /\ h.reply = p
    BY <1>4 DEF HandleComplete, Conflict
  <2>2. e \in CtlRow
    BY <1>1 DEF CtlStep
  <2> HIDE DEF e
  <2>3. /\ p \in Reply /\ p.kind = "conflict" /\ p.version = e.version
        /\ p.state = e.state /\ p.cancel = e.cancel
    BY <2>2, AnswerReply
  <2> HIDE DEF p
  <2>4. Handled(r, ctl, p)
    BY <1>1, <2>3 DEF Handled, CtlStep
  <2> QED BY <2>1, <2>4
<1>5. CASE Live(e) /\ h = Conflict(ctl)
  BY <1>5, ConflictHandled
<1>6. CASE /\ Live(e)
           /\ ctl.cancel => r.arg \in {"Cancelled", "Failed"}
           /\ h = Accept([ctl EXCEPT !.state = r.arg, !.version = ctl.version + 1,
                                     !.lease = 0, !.completion = doc], 0)
  <2> DEFINE c == [ctl EXCEPT !.state = r.arg, !.version = ctl.version + 1,
                              !.lease = 0, !.completion = doc]
             p == Answer("ok", c, 0)
  <2>0. ctl.version + 1 \in Nat /\ r.arg \in States /\ 0 \in Int
    BY StateNames DEF CtlRow
  <2> HIDE DEF doc
  <2>1. c \in CtlRow
    BY <1>2, <2>0, ZenonT(60) DEF CtlRow
  <2>2. /\ c.state = r.arg /\ c.version = ctl.version + 1 /\ c.cancel = ctl.cancel
        /\ c.completion = doc /\ c.receipt = ctl.receipt
    BY DEF CtlRow
  <2>3. h.rows = c /\ h.reply = p
    BY <1>6 DEF Accept
  <2> HIDE DEF c
  <2>4. p \in Reply /\ p.kind = "ok" /\ p.version = c.version /\ p.state = c.state
    BY <2>0, <2>1, AnswerReply
  <2> HIDE DEF p
  <2>5. CtlStep(c)
    BY <1>1, <1>2, <1>6, <2>1, <2>2 DEF CtlStep
  <2>6. ~Live(c)
    BY <2>2 DEF Live, Executing, Terminal
  <2>7. Handled(r, c, p)
    BY <2>2, <2>4, <2>5, <2>6 DEF Handled, doc
  <2> QED BY <2>3, <2>7
<1> QED BY <1>1, <1>3, <1>4, <1>5, <1>6 DEF HandleComplete

(* record_cleanup.                                                         *)
LEMMA CleanupHandled ==
    ASSUME ctl \in CtlRow, RowOK, NEW r \in Request,
           r.kind = "cleanup", r.arg \in Outcomes
    PROVE  Handled(r, HandleCleanup(r).rows, HandleCleanup(r).reply)
<1> DEFINE h == HandleCleanup(r)
<1>1. CASE h = Denied
  BY <1>1, DeniedHandled
<1>2. CASE ctl.completion # NoDocument
           /\ h = Accept([ctl EXCEPT !.receipt = r.arg], 0)
  <2> DEFINE c == [ctl EXCEPT !.receipt = r.arg]
             p == Answer("ok", c, 0)
  <2>1. c \in CtlRow
    BY DEF CtlRow
  <2>2. /\ c.state = ctl.state /\ c.version = ctl.version /\ c.cancel = ctl.cancel
        /\ c.lease = ctl.lease /\ c.completion = ctl.completion
    BY DEF CtlRow
  <2>3. h.rows = c /\ h.reply = p
    BY <1>2 DEF Accept
  <2> HIDE DEF c
  <2>4. p \in Reply /\ p.kind = "ok" /\ p.version = c.version /\ p.state = c.state
    BY <2>1, AnswerReply
  <2> HIDE DEF p
  <2>5. Handled(r, c, p)
    BY <1>2, <2>1, <2>2, <2>4 DEF Handled, CtlStep
  <2> QED BY <2>3, <2>5
<1> QED BY <1>1, <1>2 DEF HandleCleanup

(* Every request the wire may carry.                                       *)
LEMMA HandleOK ==
    ASSUME TypeOK, RowOK, WireOK, NEW r \in wire, NEW d \in 0..ClockLag
    PROVE  Handled(r, Handle(r, d).rows, Handle(r, d).reply)
<1>1. ctl \in CtlRow /\ r \in Request
  BY TypeParts
<1>2. r.kind \in {"heartbeat", "state", "complete", "cleanup"}
  BY <1>1 DEF Request
<1>3. CASE r.kind = "heartbeat"
  BY <1>1, <1>3, HeartbeatHandled DEF Handle
<1>4. CASE r.kind = "state"
  BY <1>1, <1>4, StateHandled DEF Handle, WireOK
<1>5. CASE r.kind = "complete"
  BY <1>1, <1>5, CompleteHandled DEF Handle, WireOK
<1>6. CASE r.kind = "cleanup"
  BY <1>1, <1>6, CleanupHandled DEF Handle, WireOK
<1> QED BY <1>2, <1>3, <1>4, <1>5, <1>6

-----------------------------------------------------------------------------
(* Steps of the controller.                                                *)

(* Nothing that was told is untold.                                        *)
LEMMA ToldStays ==
    ASSUME NEW p, p.version \in Nat, NEW g, NEW h, Len(g) \in Nat, Len(h) \in Nat,
           Told(g, p), Len(h) >= Len(g), \A i \in 1..Len(g) : h[i] = g[i]
    PROVE  Told(h, p)
<1>1. p.version < Len(g) /\ p.state = g[p.version + 1]
  BY DEF Told
<1>2. p.version + 1 \in 1..Len(g) /\ p.version < Len(h)
  BY <1>1
<1> QED BY <1>1, <1>2 DEF Told

(* Which request the main task waits for tells where it is.                *)
LEMMA PlaceOfCall ==
    ASSUME TypeOK, MainOK
    PROVE  /\ main.call.kind = "state" => main.pc \in {"start", "verify"}
           /\ main.call.kind = "complete" => main.pc = "complete"
           /\ main.call.kind = "cleanup" => main.pc = "receipt"
           /\ main.call # NoCall =>
                 main.pc \in {"start", "verify", "complete", "receipt"}
           /\ main.reply # NoReply => main.call # NoCall
<1>1. main.pc \in {"prepare", "start", "execute", "verify", "upload",
                   "complete", "remove", "receipt"} \cup Stopped
  BY TypeParts DEF MainTask
<1>2. NoCall.kind = "none"
  BY DEF NoCall
<1> QED BY <1>1, <1>2 DEF MainOK

(* An ended run keeps its completion and its state, whatever arrives.      *)
LEMMA EndedKept ==
    ASSUME TypeOK, RowOK, NEW c, CtlStep(c), ctl.state \notin Executing
    PROVE  /\ c.state = ctl.state /\ c.version = ctl.version
           /\ c.completion = ctl.completion
BY DEF CtlStep, Live

(* Parts of the invariant that speak of the controller, when the tasks     *)
(* only receive responses.                                                 *)
LEMMA Behind ==
    ASSUME SInv, NEW c, CtlStep(c), Store(c),
           c.state # ctl.state /\ Live(c) =>
              \E r \in wire : r.kind = "state" /\ r.arg = c.state,
           c.receipt # ctl.receipt => \E r \in wire : r.kind = "cleanup",
           wire' \subseteq wire, UNCHANGED <<view, lease, stop>>,
           main' \in MainTask, hb' \in HbTask,
           main'.pc = main.pc, main'.call = main.call,
           main'.pending = main.pending, main'.root = main.root,
           hb'.pc = hb.pc, hb'.seen = hb.seen, hb'.call = hb.call,
           main.call = NoCall => main' = main, hb.call = NoCall => hb' = hb
    PROVE  /\ (/\ TypeOK /\ HistOK /\ RowOK /\ WireOK /\ MainOK
               /\ HbOK /\ ViewOK /\ LeaseOK /\ PhaseOK /\ EndOK)'
           /\ main'.reply = main.reply => MainReplyOK'
           /\ hb'.reply = hb.reply => HbReplyOK'
           /\ Len(hist') \in Nat /\ Len(hist') >= Len(hist)
<1>0. /\ ctl \in CtlRow /\ hist \in Seq(States \cup {"Queued"})
      /\ wire \subseteq Request /\ view \in [version: Nat, state: States]
      /\ lease \in Int /\ stop \in StopReasons
      /\ main \in MainTask /\ hb \in HbTask
  BY TypeParts DEF SInv
<1>1. /\ hist' \in Seq(States \cup {"Queued"}) /\ ctl' \in CtlRow /\ HistOK'
      /\ Len(hist') >= Len(hist) /\ \A i \in 1..Len(hist) : hist'[i] = hist[i]
  BY StoreHist DEF SInv
<1>2. ctl' = c /\ RowOK'
  BY StoreRow DEF Store, SInv
<1>3. Len(hist) \in Nat /\ Len(hist') \in Nat
  BY <1>0, <1>1
<1>4. TypeOK'
  BY <1>0, <1>1, TypeKept
<1>5. WireOK'
  BY DEF WireOK, SInv
<1>6. MainOK'
  <2>1. main.call = NoCall => main'.reply = NoReply
    BY DEF SInv, MainOK
  <2>2. hb = NoWork => hb' = NoWork
    BY DEF NoWork
  <2> QED BY <2>1, <2>2 DEF SInv, MainOK
<1>7. HbOK'
  <2>1. hb.pc # "wait" => hb'.reply = NoReply
    BY DEF SInv, HbOK
  <2> QED BY <2>1 DEF SInv, HbOK
<1>8. ViewOK'
  <2>1. view.version \in Nat /\ view.version >= 1 /\ Told(hist, view)
    BY <1>0 DEF SInv, ViewOK
  <2>2. Told(hist', view)
    BY <1>1, <1>3, <2>1, ToldStays
  <2> QED BY <2>1, <2>2 DEF ViewOK
<1>9. ctl.state \notin Executing => /\ ctl'.state = ctl.state
                                    /\ ctl'.completion = ctl.completion
  BY <1>2, EndedKept DEF SInv
<1>10. /\ ctl.lease \in Int /\ ctl'.lease \in Int /\ TTL \in Int
       /\ ClockLag \in Nat /\ ClockSkew \in Nat
  BY <1>0, <1>1, SessionAssumption DEF CtlRow
<1>11. Live(ctl)' => Live(ctl) /\ (ctl'.lease = ctl.lease \/ ctl'.lease >= TTL - ClockLag)
  BY <1>2 DEF CtlStep, Live, SInv, RowOK, Executing, Terminal
<1>12. LeaseOK'
  <2>1. lease' = lease /\ lease <= TTL + ClockSkew
        /\ (Live(ctl) => lease <= ctl.lease + ClockSkew + ClockLag)
    BY DEF SInv, LeaseOK, LeaseBounded
  <2>2. Live(ctl)' => lease <= ctl'.lease + ClockSkew + ClockLag
    BY <1>0, <1>10, <1>11, <2>1
  <2> QED BY <2>1, <2>2 DEF LeaseOK, LeaseBounded
<1>13. PhaseOK'
  <2> SUFFICES ASSUME Live(c), ~c.cancel
               PROVE  /\ main.pc = "prepare" => c.state = "Preparing"
                      /\ main.pc = "start" =>
                            /\ c.state \in {"Preparing", "Running"}
                            /\ main.call.version \in 1..c.version
                      /\ main.pc = "execute" => c.state = "Running" /\ view.version >= 2
                      /\ main.pc = "verify" =>
                            /\ c.state \in {"Running", "Verifying"}
                            /\ view.version >= 2
                            /\ main.call.version \in 2..c.version
    BY <1>2 DEF PhaseOK, Live
  <2>1. Live(ctl) /\ ~ctl.cancel
    BY <1>2, <1>11 DEF CtlStep, Live, Executing, Terminal
  <2>2. /\ main.pc = "prepare" => ctl.state = "Preparing"
        /\ main.pc = "start" =>
              /\ ctl.state \in {"Preparing", "Running"}
              /\ main.call.version \in 1..ctl.version
        /\ main.pc = "execute" => ctl.state = "Running" /\ view.version >= 2
        /\ main.pc = "verify" =>
              /\ ctl.state \in {"Running", "Verifying"} /\ view.version >= 2
              /\ main.call.version \in 2..ctl.version
    BY <2>1 DEF SInv, PhaseOK
  <2>3. c.version \in Nat /\ ctl.version \in Nat /\ c.version >= ctl.version
    BY <1>0, <1>1, <1>2 DEF CtlStep, CtlRow
  <2>4. CASE c.state = ctl.state
    BY <2>2, <2>3, <2>4
  <2>5. CASE c.state # ctl.state
    <3>1. PICK r \in wire : r.kind = "state" /\ r.arg = c.state
      BY <2>5
    <3>2. /\ main.pc # "prepare"
          /\ c.state = "Verifying" => main.pc \notin {"start", "execute"}
      BY <3>1 DEF SInv, WireOK
    <3>3. \/ ctl.state = "Preparing" /\ c.state = "Running"
          \/ ctl.state = "Running" /\ c.state = "Verifying"
      BY <2>5 DEF CtlStep, Live, Executing, Terminal
    <3> QED BY <2>2, <2>3, <3>2, <3>3
  <2> QED BY <2>4, <2>5
<1>14. EndOK'
  <2>1. AckMatchesCommit'
    <3> SUFFICES ASSUME main.pc \in {"remove", "receipt", "done"}
                 PROVE  c.completion = main.pending /\ c.state = main.pending.state
      BY <1>2 DEF AckMatchesCommit
    <3>1. ctl.completion = main.pending /\ ctl.state = main.pending.state
      BY DEF SInv, EndOK, AckMatchesCommit
    <3>2. ctl.state \notin Executing
      BY <1>0, <3>1 DEF MainTask, Document, NoDocument, Executing, Terminal
    <3> QED BY <1>2, <1>9, <3>1, <3>2
  <2>2. CASE c.receipt = ctl.receipt
    <3>1. ctl.receipt # "none" => ctl.state \notin Executing
      <4>1. ctl.receipt # "none" => ctl.completion \in Document /\ ctl.state = ctl.completion.state
        BY <1>0 DEF SInv, RowOK, CtlRow
      <4> QED BY <4>1 DEF Document, Executing, Terminal
    <3>2. c.receipt # "none" => main.root = "none" /\ c.completion # NoDocument
      BY <1>2, <1>9, <2>2, <3>1 DEF SInv, EndOK, ReceiptTruthful
    <3>3. c.receipt # "none" => main.pc \in {"receipt"} \cup Stopped
      BY <2>2 DEF SInv, EndOK
    <3> QED BY <1>2, <2>1, <3>2, <3>3 DEF EndOK, ReceiptTruthful
  <2>3. CASE c.receipt # ctl.receipt
    <3>1. PICK r \in wire : r.kind = "cleanup"
      BY <2>3
    <3>2. main.root = "none" /\ main.pc \in {"receipt"} \cup Stopped
      BY <3>1 DEF SInv, WireOK
    <3>3. c.receipt # "none" => c.completion # NoDocument
      BY <1>2 DEF RowOK
    <3> QED BY <1>2, <2>1, <3>2, <3>3 DEF EndOK, ReceiptTruthful
  <2> QED BY <2>2, <2>3
<1>15. main'.reply = main.reply => MainReplyOK'
  <2> SUFFICES ASSUME main'.reply = main.reply PROVE MainReplyOK'
    OBVIOUS
  <2> DEFINE p == main.reply
  <2>0. p.version \in Nat
    BY <1>0 DEF MainTask, Reply, NoReply
  <2>1. Told(hist, p) => Told(hist', p)
    BY <1>1, <1>3, <2>0, ToldStays
  <2>2. p.kind = "ok" /\ main.call.kind = "complete" =>
          /\ c.completion = [version |-> main.call.version, state |-> main.call.arg]
          /\ c.state = main.call.arg
    <3> SUFFICES ASSUME p.kind = "ok", main.call.kind = "complete"
                 PROVE  /\ c.completion = [version |-> main.call.version,
                                           state |-> main.call.arg]
                        /\ c.state = main.call.arg
      OBVIOUS
    <3>1. /\ ctl.completion = [version |-> main.call.version, state |-> main.call.arg]
          /\ ctl.state = main.call.arg
      BY DEF SInv, MainReplyOK
    <3>2. main.call.arg \in Terminal
      BY PlaceOfCall DEF SInv, MainOK
    <3> QED BY <1>2, <1>9, <3>1, <3>2 DEF Executing, Terminal
  <2>3. ctl.cancel => c.cancel
    BY DEF CtlStep
  <2> QED BY <1>2, <2>1, <2>2, <2>3 DEF SInv, MainReplyOK, ConflictExplained
<1>16. hb'.reply = hb.reply => HbReplyOK'
  <2> SUFFICES ASSUME hb'.reply = hb.reply PROVE HbReplyOK'
    OBVIOUS
  <2> DEFINE p == hb.reply
  <2>0. p.version \in Nat /\ p.lease \in Int
    BY <1>0 DEF HbTask, Reply, NoReply
  <2>1. Told(hist, p) => Told(hist', p)
    BY <1>1, <1>3, <2>0, ToldStays
  <2>2. p.kind = "ok" => p.lease <= TTL /\ (Live(ctl) => p.lease <= ctl.lease + ClockLag)
    BY DEF SInv, HbReplyOK
  <2>3. p.kind = "ok" /\ Live(ctl)' => p.lease <= ctl'.lease + ClockLag
    BY <1>10, <1>11, <2>0, <2>2
  <2> QED BY <2>1, <2>2, <2>3 DEF SInv, HbReplyOK
<1> QED BY <1>1, <1>2, <1>3, <1>4, <1>5, <1>6, <1>7, <1>8, <1>12, <1>13,
           <1>14, <1>15, <1>16

(* An operation that answers neither task: a cancellation, an expiry.      *)
LEMMA SilentOK ==
    ASSUME SInv, NEW c, CtlStep(c), Store(c), c.state = ctl.state \/ ~Live(c),
           c.receipt = ctl.receipt, UNCHANGED <<wire, view, lease, stop, main, hb>>
    PROVE  SInv'
<1>1. main \in MainTask /\ hb \in HbTask
  BY TypeParts DEF SInv
<1> QED BY <1>1, Behind DEF SInv

(* cancel_job and the expire_leases of operations on other runs.           *)
LEMMA OtherOperationOK ==
    ASSUME SInv, NEW d \in 0..ClockLag, Cancel(d) \/ ExpireLeases(d)
    PROVE  SInv'
<1>0. ctl \in CtlRow /\ d \in Nat
  BY TypeParts, SessionAssumption DEF SInv
<1> DEFINE e == Expire(ctl, d)
<1>1. CtlStep(e) /\ (Live(e) => e = ctl) /\ (e = ctl \/ (Live(ctl) /\ e.state = "Failed"))
  BY <1>0, ExpireCases
<1>2. CASE Cancel(d)
  <2>1. Live(ctl) /\ Store([ctl EXCEPT !.cancel = TRUE, !.version = ctl.version + 1])
        /\ UNCHANGED <<wire, view, lease, stop, main, hb>>
    BY <1>1, <1>2 DEF Cancel
  <2> DEFINE c == [ctl EXCEPT !.cancel = TRUE, !.version = ctl.version + 1]
  <2>2. ctl.version + 1 \in Nat
    BY <1>0 DEF CtlRow
  <2>3. c \in CtlRow
    BY <1>0, <2>2, ZenonT(60) DEF CtlRow
  <2>4. /\ c.cancel = TRUE /\ c.version = ctl.version + 1 /\ c.state = ctl.state
        /\ c.lease = ctl.lease /\ c.completion = ctl.completion
        /\ c.receipt = ctl.receipt
    BY <1>0 DEF CtlRow
  <2>5. Store(c)
    BY <2>1
  <2> HIDE DEF c
  <2>6. CtlStep(c)
    BY <2>1, <2>3, <2>4 DEF CtlStep
  <2> QED BY <2>1, <2>4, <2>5, <2>6, SilentOK
<1>3. CASE ExpireLeases(d)
  <2>1. Store(e) /\ UNCHANGED <<wire, view, lease, stop, main, hb>>
    BY <1>3 DEF ExpireLeases
  <2>2. e.receipt = ctl.receipt /\ (e.state = ctl.state \/ ~Live(e))
    <3>1. e = ctl \/ e = [ctl EXCEPT !.state = "Failed",
                                     !.version = ctl.version + 1, !.lease = 0]
      BY DEF Expire
    <3>2. e.receipt = ctl.receipt
      BY <1>0, <3>1 DEF CtlRow
    <3> QED BY <1>1, <3>2
  <2> HIDE DEF e
  <2> QED BY <1>1, <2>1, <2>2, SilentOK
<1> QED BY <1>2, <1>3

(* A handled request and its response, if a task still waits for it.       *)
LEMMA ServedOK ==
    ASSUME SInv, NEW r \in wire, NEW c, NEW p, Handled(r, c, p), Store(c),
           wire' = wire \ {r}, Deliver(r, p), UNCHANGED <<view, lease, stop>>
    PROVE  SInv'
<1>0. /\ main \in MainTask /\ hb \in HbTask /\ r \in Request /\ r # NoCall
      /\ ctl \in CtlRow
  BY TypeParts DEF SInv, Request, NoCall
<1>1. p \in Reply /\ CtlStep(c) /\ ctl' = c
  BY DEF Handled, Store
<1>2. /\ main' \in MainTask
      /\ main'.pc = main.pc /\ main'.call = main.call
      /\ main'.pending = main.pending /\ main'.root = main.root
      /\ \/ main'.reply = main.reply /\ main' = main
         \/ main'.reply = p /\ main.call = r
  <2>1. CASE main' = main
    BY <1>0, <2>1
  <2>2. CASE main.call = r /\ main' = [main EXCEPT !.reply = p]
    BY <1>0, <1>1, <2>2 DEF MainTask
  <2> QED BY <2>1, <2>2 DEF Deliver
<1>3. /\ hb' \in HbTask
      /\ hb'.pc = hb.pc /\ hb'.call = hb.call /\ hb'.seen = hb.seen
      /\ \/ hb'.reply = hb.reply /\ hb' = hb
         \/ hb'.reply = p /\ hb.call = r
  <2>1. CASE hb' = hb
    BY <1>0, <2>1
  <2>2. CASE hb.call = r /\ hb' = [hb EXCEPT !.reply = p]
    BY <1>0, <1>1, <2>2 DEF HbTask
  <2> QED BY <2>1, <2>2 DEF Deliver
<1>4. /\ (/\ TypeOK /\ HistOK /\ RowOK /\ WireOK /\ MainOK
          /\ HbOK /\ ViewOK /\ LeaseOK /\ PhaseOK /\ EndOK)'
      /\ main'.reply = main.reply => MainReplyOK'
      /\ hb'.reply = hb.reply => HbReplyOK'
      /\ Len(hist') \in Nat
  <2>1. wire' \subseteq wire
    OBVIOUS
  <2>2. c.state # ctl.state /\ Live(c) =>
           \E q \in wire : q.kind = "state" /\ q.arg = c.state
    BY DEF Handled
  <2>3. c.receipt # ctl.receipt => \E q \in wire : q.kind = "cleanup"
    BY DEF Handled
  <2>4. (main.call = NoCall => main' = main) /\ (hb.call = NoCall => hb' = hb)
    BY <1>0, <1>2, <1>3
  <2> QED BY <1>1, <1>2, <1>3, <2>1, <2>2, <2>3, <2>4, Behind
(* What an answer about the present rows tells is stored.                  *)
<1>5. p.version = c.version /\ p.state = c.state => Told(hist', p)
  <2>1. Len(hist') = c.version + 1 /\ hist'[c.version + 1] = c.state
        /\ c.version \in Nat
    BY <1>1, <1>4 DEF HistOK, CtlStep, CtlRow
  <2> QED BY <2>1 DEF Told
<1>6. ASSUME main'.reply = p, main.call = r
      PROVE  MainReplyOK'
  <2>1. r.kind # "heartbeat" /\ r.kind \in {"heartbeat", "state", "complete", "cleanup"}
    BY <1>0, <1>6, PlaceOfCall DEF SInv, MainOK, Request
  <2>2. CASE p.kind = "ok"
    <3>1. Told(hist', p)
      BY <1>5, <2>2 DEF Handled
    <3> QED BY <1>1, <1>2, <1>6, <2>2, <3>1
            DEF Handled, MainReplyOK, ConflictExplained
  <2>3. CASE p.kind = "denied"
    BY <1>2, <1>6, <2>3 DEF MainReplyOK, ConflictExplained
  <2>4. CASE p.kind = "conflict"
    <3>1. c = ctl
      BY <2>4 DEF Handled
    <3>2. CASE r.kind = "complete" /\ p.state = "Failed"
      BY <1>2, <1>6, <2>4, <3>2 DEF MainReplyOK, ConflictExplained, Terminal
    <3>3. CASE /\ p.version = ctl.version /\ p.state = ctl.state
               /\ p.cancel = ctl.cancel
               /\ r.kind = "state" =>
                     /\ Live(ctl)
                     /\ ~(/\ r.version = ctl.version /\ ~ctl.cancel
                          /\ CanTransition(ctl.state, r.arg))
      <4>1. Told(hist', p)
        BY <1>5, <3>1, <3>3
      <4>2. ASSUME r.kind = "state", ~p.cancel
            PROVE  p.state = r.arg
        <5>1. Live(ctl) /\ ~ctl.cancel /\ ctl.version = Rank(ctl.state)
          BY <3>3, <4>2 DEF SInv, RowOK
        <5>2. r.version # ctl.version \/ ~CanTransition(ctl.state, r.arg)
          BY <3>3, <4>2, <5>1
        <5>3. main.pc \in {"start", "verify"}
          BY <1>6, <4>2, PlaceOfCall DEF SInv
        <5>4. CASE main.pc = "start"
          <6>1. /\ ctl.state \in {"Preparing", "Running"} /\ r.arg = "Running"
                /\ r.version \in 1..ctl.version
            BY <1>6, <5>1, <5>4 DEF SInv, PhaseOK, MainOK
          <6>2. ctl.state = "Preparing" => ctl.version = 1 /\ r.version = 1
            BY <5>1, <6>1 DEF Rank
          <6> QED BY <3>3, <5>2, <6>1, <6>2 DEF CanTransition
        <5>5. CASE main.pc = "verify"
          <6>1. /\ ctl.state \in {"Running", "Verifying"} /\ r.arg = "Verifying"
                /\ r.version \in 2..ctl.version
            BY <1>6, <5>1, <5>5 DEF SInv, PhaseOK, MainOK
          <6>2. ctl.state = "Running" => ctl.version = 2 /\ r.version = 2
            BY <5>1, <6>1 DEF Rank
          <6> QED BY <3>3, <5>2, <6>1, <6>2 DEF CanTransition
        <5> QED BY <5>3, <5>4, <5>5
      <4> QED BY <1>1, <1>2, <1>6, <2>4, <3>1, <3>3, <4>1, <4>2
              DEF MainReplyOK, ConflictExplained
    <3> QED BY <2>4, <3>2, <3>3 DEF Handled
  <2> QED BY <1>1, <2>2, <2>3, <2>4 DEF Reply
<1>7. ASSUME hb'.reply = p, hb.call = r
      PROVE  HbReplyOK'
  <2>1. r.kind = "heartbeat"
    BY <1>0, <1>7 DEF SInv, HbOK
  <2>2. p.kind \in {"ok", "conflict"} => Told(hist', p)
    BY <1>5, <2>1 DEF Handled
  <2> QED BY <1>1, <1>3, <1>7, <2>1, <2>2 DEF Handled, HbReplyOK, Live
<1> QED BY <1>2, <1>3, <1>4, <1>6, <1>7 DEF SInv

(* Requests handled, refused or lost.                                      *)
LEMMA NetworkOK ==
    ASSUME SInv, NEW r \in wire,
           (\E d \in 0..ClockLag : Serve(r, d)) \/ Refuse(r) \/ Lose(r)
    PROVE  SInv'
<1>0. ctl \in CtlRow
  BY TypeParts DEF SInv
<1>1. ASSUME NEW d \in 0..ClockLag, Serve(r, d)
      PROVE  SInv'
  BY <1>1, HandleOK, ServedOK DEF Serve, SInv
<1>2. CASE Refuse(r)
  <2>1. Handled(r, ctl, Denied.reply)
    BY <1>0, DeniedHandled, DeniedReply
  <2>2. Store(ctl)
    BY <1>2 DEF Refuse, Store
  <2> QED BY <1>2, <2>1, <2>2, ServedOK DEF Refuse
<1>3. CASE Lose(r)
  <2>1. CtlStep(ctl) /\ Store(ctl)
    BY <1>0, <1>3 DEF Lose, Store, CtlStep
  <2>2. main \in MainTask /\ hb \in HbTask
    BY TypeParts DEF SInv
  <2>3. wire' \subseteq wire
    BY <1>3 DEF Lose
  <2> QED BY <1>3, <2>1, <2>2, <2>3, Behind DEF Lose, SInv
<1> QED BY <1>1, <1>2, <1>3

-----------------------------------------------------------------------------
(* Steps of the worker.                                                    *)

(* The view only moves along what the controller stored.                   *)
ViewMoves ==
    /\ view' \in [version: Nat, state: States] /\ ViewOK'
    /\ view'.version >= view.version
    /\ Rank(view.state) <= Rank(view'.state)

(* A rank is a number, whatever it is taken of.                            *)
LEMMA RankNat == \A s : Rank(s) \in Nat
BY DEF Rank

(* A later version has the same or a later state.                          *)
LEMMA LaterRank ==
    ASSUME TypeOK, HistOK, NEW p, NEW q, p.version \in Nat, q.version \in Nat,
           Told(hist, p), Told(hist, q), p.version <= q.version
    PROVE  Rank(p.state) <= Rank(q.state)
<1>1. Len(hist) \in Nat
  BY TypeParts
<1>2. p.version + 1 \in 1..Len(hist) /\ q.version + 1 \in 1..Len(hist)
      /\ p.version + 1 <= q.version + 1
  BY <1>1 DEF Told
<1> QED BY <1>2 DEF Told, HistOK

(* A step that touches neither the view nor the history keeps the view     *)
(* true.                                                                   *)
LEMMA ViewStays ==
    ASSUME SInv, UNCHANGED <<view, hist>>
    PROVE  ViewMoves
<1>1. view \in [version: Nat, state: States]
  BY TypeParts DEF SInv
<1> QED BY <1>1, RankNat DEF ViewMoves, SInv, ViewOK

(* apply_state_version with a version and a state that belong together.    *)
LEMMA ApplyOK ==
    ASSUME SInv, NEW p, p.version \in Nat, p.state \in States, Told(hist, p),
           ApplyStateVersion(p.version, p.state), UNCHANGED hist
    PROVE  ViewMoves /\ view'.version >= p.version
<1>1. /\ view \in [version: Nat, state: States]
      /\ view.version >= 1 /\ Told(hist, view)
  BY TypeParts DEF SInv, ViewOK
<1>2. CASE p.version >= view.version
  <2>1. view' = [version |-> p.version, state |-> p.state]
    BY <1>1, <1>2 DEF ApplyStateVersion, Larger
  <2>2. view' \in [version: Nat, state: States] /\ Told(hist', view')
    BY <2>1 DEF Told
  <2>3. Rank(view.state) <= Rank(p.state)
    BY <1>1, <1>2, LaterRank DEF SInv
  <2> QED BY <1>1, <1>2, <2>1, <2>2, <2>3 DEF ViewMoves, ViewOK
<1>3. CASE ~(p.version >= view.version)
  <2>1. view' = view
    BY <1>1, <1>3 DEF ApplyStateVersion, Larger
  <2> QED BY <1>1, <1>3, <2>1, ViewStays
<1> QED BY <1>2, <1>3

(* Steps that leave the rows and the lease alone.                          *)
LEMMA WorkerMoves ==
    ASSUME SInv, UNCHANGED <<ctl, hist, lease>>, ViewMoves,
           wire' \subseteq Request, stop' \in StopReasons, main' \in MainTask,
           \/ UNCHANGED hb
           \/ hb' = NoWork,
           (WireOK /\ MainOK /\ MainReplyOK /\ PhaseOK /\ EndOK)'
    PROVE  SInv'
<1>0. /\ ctl \in CtlRow /\ hist \in Seq(States \cup {"Queued"})
      /\ lease \in Int /\ hb \in HbTask /\ view \in [version: Nat, state: States]
  BY TypeParts DEF SInv
<1>1. HistOK' /\ RowOK' /\ LeaseOK'
  BY DEF SInv, HistOK, RowOK, LeaseOK, LeaseBounded, CancelNeverSucceeds, Live
<1>2. ViewOK' /\ view' \in [version: Nat, state: States]
      /\ Rank(view.state) <= Rank(view'.state)
  BY DEF ViewMoves
<1>3. hb' \in HbTask /\ HbOK' /\ HbReplyOK'
  <2>1. CASE UNCHANGED hb
    <3>1. \A s : Rank(s) <= Rank(view.state) => Rank(s) <= Rank(view'.state)
      BY <1>2, RankNat
    <3> QED BY <1>0, <2>1, <3>1 DEF SInv, HbOK, HbReplyOK, Live
  <2>2. CASE hb' = NoWork
    <3>1. hb' \in HbTask
      BY <2>2 DEF NoWork, HbTask
    <3>2. /\ hb'.pc = "stopped" /\ hb'.call = NoCall /\ hb'.reply = NoReply
          /\ hb'.reply.kind = "none"
      BY <2>2 DEF NoWork, NoReply
    <3> QED BY <3>1, <3>2 DEF HbOK, HbReplyOK
  <2> QED BY <2>1, <2>2
<1>4. TypeOK'
  BY <1>0, <1>2, <1>3, TypeKept
<1> QED BY <1>1, <1>2, <1>3, <1>4 DEF SInv

(* The task ends: quarantine, a crash.                                     *)
LEMMA StopOK ==
    ASSUME SInv, NEW pc \in {"quarantined", "crashed"},
           main' = [main EXCEPT !.pc = pc, !.call = NoCall, !.reply = NoReply],
           hb' = NoWork, UNCHANGED <<ctl, hist, wire, view, lease, stop>>
    PROVE  SInv'
<1>0. main \in MainTask /\ wire \subseteq Request /\ stop \in StopReasons
  BY TypeParts DEF SInv
<1>1. /\ main'.pc = pc /\ main'.call = NoCall /\ main'.reply = NoReply
      /\ main'.pending = main.pending /\ main'.root = main.root
  BY <1>0 DEF MainTask
<1>2. main' \in MainTask
  BY <1>0 DEF MainTask, Stopped
<1>3. WireOK' /\ MainOK' /\ PhaseOK' /\ EndOK'
  BY <1>1 DEF SInv, WireOK, MainOK, PhaseOK, EndOK, AckMatchesCommit,
              ReceiptTruthful, Stopped, NoCall
<1>4. MainReplyOK'
  BY <1>1 DEF MainReplyOK, ConflictExplained, NoReply
<1> QED BY <1>0, <1>2, <1>3, <1>4, ViewStays, WorkerMoves

(* The main task begins a request: what the places before and after it     *)
(* must be.                                                                *)
LEMMA SendOK ==
    ASSUME SInv, NEW pc \in {"start", "verify", "complete", "receipt"},
           NEW r \in Request, NEW pend \in Document \cup {NoDocument},
           NEW root \in {"none", "created"},
           main' = [main EXCEPT !.pc = pc, !.call = r, !.reply = NoReply,
                                !.pending = pend, !.root = root],
           wire' = wire \cup {r}, stop' \in StopReasons, ViewMoves,
           UNCHANGED <<ctl, hist, lease, hb>>,
           pc = "start" => /\ main.pc \in {"prepare", "start"}
                           /\ r.kind = "state" /\ r.arg = "Running"
                           /\ r.version = view.version,
           pc = "verify" => /\ main.pc \in {"execute", "verify"}
                            /\ r.kind = "state" /\ r.arg = "Verifying"
                            /\ r.version = view.version,
           pc = "complete" => /\ main.pc \in {"prepare", "execute", "upload", "complete"}
                              /\ r.kind = "complete" /\ r.arg \in Terminal
                              /\ pend = [version |-> r.version, state |-> r.arg],
           pc = "receipt" => /\ main.pc \in {"remove", "receipt"}
                             /\ r.kind = "cleanup" /\ r.arg \in Outcomes
                             /\ pend = main.pending /\ root = "none",
           pc # "receipt" => root = main.root
    PROVE  SInv'
<1>0. /\ main \in MainTask /\ wire \subseteq Request /\ stop \in StopReasons
      /\ ctl \in CtlRow /\ view \in [version: Nat, state: States]
  BY TypeParts DEF SInv
<1>1. /\ main'.pc = pc /\ main'.call = r /\ main'.reply = NoReply
      /\ main'.pending = pend /\ main'.root = root
  BY <1>0 DEF MainTask
<1>2. main' \in MainTask
  BY <1>0 DEF MainTask
<1>3. r # NoCall
  BY DEF Request, NoCall
<1>4. WireOK'
  <2> SUFFICES ASSUME NEW q \in wire'
               PROVE  /\ q.kind = "heartbeat" => q.arg \in States
                      /\ q.kind = "state" =>
                            /\ q.arg \in {"Running", "Verifying"}
                            /\ pc # "prepare"
                            /\ q.arg = "Verifying" => pc \notin {"start", "execute"}
                      /\ q.kind = "complete" => q.arg \in Terminal
                      /\ q.kind = "cleanup" =>
                            /\ q.arg \in Outcomes /\ root = "none"
                            /\ pc \in {"receipt"} \cup Stopped
    BY <1>1 DEF WireOK
  <2>1. CASE q = r
    BY <2>1
  <2>2. CASE q \in wire
    BY <2>2 DEF SInv, WireOK, Stopped
  <2> QED BY <2>1, <2>2
<1>5. MainOK'
  BY <1>1, <1>3 DEF SInv, MainOK, Stopped
<1>6. MainReplyOK'
  BY <1>1 DEF MainReplyOK, ConflictExplained, NoReply
<1>7. PhaseOK'
  <2> SUFFICES ASSUME Live(ctl), ~ctl.cancel
               PROVE  /\ pc = "start" =>
                            /\ ctl.state \in {"Preparing", "Running"}
                            /\ r.version \in 1..ctl.version
                      /\ pc = "verify" =>
                            /\ ctl.state \in {"Running", "Verifying"}
                            /\ view'.version >= 2
                            /\ r.version \in 2..ctl.version
    BY <1>1 DEF PhaseOK, Live
  <2>1. /\ view.version \in Nat /\ view'.version \in Nat /\ ctl.version \in Nat
        /\ view.version >= 1 /\ view.version <= ctl.version
        /\ view'.version >= view.version
    BY <1>0 DEF SInv, ViewOK, Told, HistOK, ViewMoves, CtlRow
  <2> QED BY <2>1 DEF SInv, PhaseOK
<1>8. EndOK'
  BY <1>1 DEF SInv, EndOK, AckMatchesCommit, ReceiptTruthful, Stopped
<1> QED BY <1>0, <1>2, <1>4, <1>5, <1>6, <1>7, <1>8, WorkerMoves

(* Steps of the main task that send a request.                             *)
LEMMA RequestsOK ==
    ASSUME SInv,
           \/ Prepared \/ PrepareFailed \/ StepsSucceeded \/ StepsFailed
           \/ Uploaded \/ UploadFailed
    PROVE  SInv'
<1>0. /\ main \in MainTask /\ view \in [version: Nat, state: States]
      /\ stop \in StopReasons /\ Attempts \in Nat \ {0}
  BY TypeParts, SessionAssumption DEF SInv
<1>1. view.version \in Nat /\ main.root \in {"none", "created"} /\ 0 \in 0..(Attempts - 1)
  BY <1>0 DEF MainTask
<1>2. ASSUME NEW pc \in {"start", "verify"}, NEW next,
             BeginTransition(pc, next),
             pc = "start" => main.pc = "prepare" /\ next = "Running",
             pc = "verify" => main.pc = "execute" /\ next = "Verifying"
      PROVE  SInv'
  <2> DEFINE r == [kind |-> "state", attempt |-> 0, version |-> view.version,
                   arg |-> next]
  <2>1. r \in Request
    BY <1>1, <1>2 DEF Request, States, Executing
  <2>2. /\ r.kind = "state" /\ r.arg = next /\ r.version = view.version
        /\ wire' = wire \cup {r}
        /\ main' = [main EXCEPT !.pc = pc, !.call = r, !.reply = NoReply,
                                !.pending = NoDocument]
        /\ UNCHANGED <<ctl, hist, view, lease, stop, hb>>
    BY <1>2 DEF BeginTransition, Send
  <2> HIDE DEF r
  <2>3. main' = [main EXCEPT !.pc = pc, !.call = r, !.reply = NoReply,
                             !.pending = NoDocument, !.root = main.root]
    BY <1>0, <2>2 DEF MainTask
  <2>4. ViewMoves
    BY <2>2, ViewStays
  <2> QED BY <1>0, <1>1, <1>2, <2>1, <2>2, <2>3, <2>4, SendOK
<1>3. ASSUME NEW final \in Terminal, BeginComplete(final),
             main.pc \in {"prepare", "execute", "upload"}
      PROVE  SInv'
  <2> DEFINE r == [kind |-> "complete", attempt |-> 0, version |-> view.version,
                   arg |-> final]
             doc == [version |-> view.version, state |-> final]
  <2>1. r \in Request /\ doc \in Document
    BY <1>1, <1>3 DEF Request, States, Document
  <2>2. /\ r.kind = "complete" /\ r.arg = final /\ r.version = view.version
        /\ doc = [version |-> r.version, state |-> r.arg]
        /\ wire' = wire \cup {r}
        /\ main' = [main EXCEPT !.pc = "complete", !.call = r, !.reply = NoReply,
                                !.pending = doc]
        /\ UNCHANGED <<ctl, hist, view, lease, stop, hb>>
    BY <1>3 DEF BeginComplete, Send
  <2> HIDE DEF r, doc
  <2>3. main' = [main EXCEPT !.pc = "complete", !.call = r, !.reply = NoReply,
                             !.pending = doc, !.root = main.root]
    BY <1>0, <2>2 DEF MainTask
  <2>4. ViewMoves
    BY <2>2, ViewStays
  <2> QED BY <1>0, <1>1, <1>3, <2>1, <2>2, <2>3, <2>4, SendOK
<1>4. CancelFinal \in Terminal /\ "Failed" \in Terminal /\ "Succeeded" \in Terminal
  BY DEF CancelFinal, Terminal
<1>5. CASE Prepared
  BY <1>2, <1>5 DEF Prepared
<1>6. CASE StepsSucceeded
  BY <1>2, <1>6 DEF StepsSucceeded
<1>7. CASE PrepareFailed
  BY <1>3, <1>4, <1>7 DEF PrepareFailed
<1>8. CASE StepsFailed
  BY <1>3, <1>4, <1>8 DEF StepsFailed
<1>9. CASE Uploaded
  BY <1>3, <1>4, <1>9 DEF Uploaded
<1>10. CASE UploadFailed
  BY <1>3, <1>4, <1>10 DEF UploadFailed
<1> QED BY <1>5, <1>6, <1>7, <1>8, <1>9, <1>10

(* The same request again, or the same kind of request with a newer        *)
(* version; the last attempt ends the task.                                *)
LEMMA TransportErrorOK ==
    ASSUME SInv, TransportError
    PROVE  SInv'
<1>0. /\ main \in MainTask /\ view \in [version: Nat, state: States]
      /\ stop \in StopReasons /\ Attempts \in Nat \ {0}
  BY TypeParts, SessionAssumption DEF SInv
<1>1. main.call \in Request /\ main.pc \in {"start", "verify", "complete", "receipt"}
  BY <1>0, PlaceOfCall DEF TransportError, Idle, SInv, MainTask
<1>2. CASE main.call.attempt = Attempts - 1
  BY <1>2, StopOK DEF TransportError, Quarantine
<1>3. CASE main.call.attempt # Attempts - 1
  <2> DEFINE v == IF main.call.kind = "state" THEN view.version ELSE main.call.version
             r == [kind |-> main.call.kind, attempt |-> main.call.attempt + 1,
                   version |-> v, arg |-> main.call.arg]
  <2>0. /\ main.call.attempt \in 0..(Attempts - 1) /\ v \in Nat
        /\ main.call.kind \in {"heartbeat", "state", "complete", "cleanup"}
        /\ main.call.arg \in States \cup Outcomes
    BY <1>0, <1>1 DEF Request
  <2>1. main.call.attempt + 1 \in 0..(Attempts - 1)
    BY <1>0, <1>3, <2>0
  <2>2. r \in Request
    BY <2>0, <2>1, Zenon DEF Request
  <2>3. /\ r.kind = main.call.kind /\ r.arg = main.call.arg
        /\ r.kind = "state" => r.version = view.version
        /\ r.kind # "state" => r.version = main.call.version
    OBVIOUS
  <2>4. /\ wire' = wire \cup {r}
        /\ main' = [main EXCEPT !.pc = main.pc, !.call = r, !.reply = NoReply,
                                !.pending = main.pending]
        /\ UNCHANGED <<ctl, hist, view, lease, stop, hb>>
    BY <1>3 DEF TransportError, Send
  <2> HIDE DEF r
  <2>5. main' = [main EXCEPT !.pc = main.pc, !.call = r, !.reply = NoReply,
                             !.pending = main.pending, !.root = main.root]
    BY <1>0, <2>4 DEF MainTask
  <2>6. /\ main.pending \in Document \cup {NoDocument}
        /\ main.root \in {"none", "created"}
    BY <1>0 DEF MainTask
  <2>7. ViewMoves
    BY <2>4, ViewStays
  <2>8. /\ main.pc \in {"start", "verify"} => r.kind = "state"
        /\ main.pc = "start" => r.arg = "Running"
        /\ main.pc = "verify" => r.arg = "Verifying"
        /\ main.pc = "complete" =>
              /\ r.kind = "complete" /\ r.arg \in Terminal
              /\ main.pending = [version |-> r.version, state |-> r.arg]
        /\ main.pc = "receipt" =>
              r.kind = "cleanup" /\ r.arg \in Outcomes /\ main.root = "none"
    BY <1>1, <2>3 DEF SInv, MainOK
  <2>9. stop' \in StopReasons /\ UNCHANGED <<ctl, hist, lease, hb>>
    BY <1>0, <2>4
  <2>10. main.pc \in {"start", "verify"} => r.version = view.version
    BY <2>3, <2>8
  <2> HIDE DEF v
  <2>11. wire' = wire \cup {r}
    BY <2>4
  <2> QED BY <1>1, <2>2, <2>5, <2>6, <2>7, <2>8, <2>9, <2>10, <2>11, SendOK
<1> QED BY <1>2, <1>3

(* prepare_job creates the job root.                                       *)
LEMMA CreateRootOK ==
    ASSUME SInv, CreateRoot
    PROVE  SInv'
<1>0. main \in MainTask /\ wire \subseteq Request /\ stop \in StopReasons
  BY TypeParts DEF SInv
<1>1. /\ main'.pc = "prepare" /\ main'.call = main.call /\ main'.reply = main.reply
      /\ main'.pending = main.pending /\ main.pc = "prepare"
  BY <1>0 DEF CreateRoot, MainTask
<1>2. main' \in MainTask
  BY <1>0 DEF CreateRoot, MainTask
<1>3. UNCHANGED <<ctl, hist, wire, view, lease, stop, hb>>
  BY DEF CreateRoot
<1>4. WireOK'
  BY <1>1, <1>3 DEF SInv, WireOK, Stopped
<1>5. MainOK' /\ MainReplyOK' /\ PhaseOK'
  BY <1>1, <1>3 DEF SInv, MainOK, MainReplyOK, ConflictExplained, PhaseOK, Live, Stopped
<1>6. EndOK'
  BY <1>1, <1>3 DEF SInv, EndOK, AckMatchesCommit, ReceiptTruthful, Stopped
<1>7. ViewMoves
  BY <1>3, ViewStays
<1> QED BY <1>0, <1>2, <1>3, <1>4, <1>5, <1>6, <1>7, WorkerMoves

(* The task goes on after a response and waits for nothing.                *)
LEMMA ProceedOK ==
    ASSUME SInv, NEW pc \in {"execute", "upload", "remove", "done"},
           main' = [main EXCEPT !.pc = pc, !.call = NoCall, !.reply = NoReply],
           stop' \in StopReasons, ViewMoves, UNCHANGED <<ctl, hist, wire, lease>>,
           hb' = hb \/ hb' = NoWork,
           pc = "execute" => main.pc = "start" /\ PhaseOK',
           pc = "upload" => main.pc = "verify",
           pc = "remove" =>
               /\ main.pc = "complete" /\ hb' = NoWork
               /\ ctl.completion = main.pending /\ ctl.state = main.pending.state,
           pc = "done" => main.pc = "receipt" /\ hb' = hb
    PROVE  SInv'
<1>0. main \in MainTask /\ wire \subseteq Request
  BY TypeParts DEF SInv
<1>1. /\ main'.pc = pc /\ main'.call = NoCall /\ main'.reply = NoReply
      /\ main'.pending = main.pending /\ main'.root = main.root
  BY <1>0 DEF MainTask
<1>2. main' \in MainTask
  BY <1>0 DEF MainTask, Stopped
<1>3. WireOK'
  BY <1>1 DEF SInv, WireOK, Stopped
<1>4. MainOK'
  BY <1>1 DEF SInv, MainOK, Stopped
<1>5. MainReplyOK'
  BY <1>1 DEF MainReplyOK, ConflictExplained, NoReply
<1>6. PhaseOK'
  BY <1>1 DEF PhaseOK, Live
<1>7. EndOK'
  BY <1>1 DEF SInv, EndOK, AckMatchesCommit, ReceiptTruthful, Stopped
<1> QED BY <1>0, <1>2, <1>3, <1>4, <1>5, <1>6, <1>7, WorkerMoves

(* A transition is over: the run is where the task believes it to be.      *)
LEMMA TransitionDoneOK ==
    ASSUME SInv, TransitionDone
    PROVE  SInv'
<1> DEFINE p == main.reply
           pc == Then(main.pc)
<1>0. /\ main \in MainTask /\ stop \in StopReasons /\ ctl \in CtlRow
      /\ hist \in Seq(States \cup {"Queued"})
  BY TypeParts DEF SInv
<1>1. main.pc \in {"start", "verify"}
  BY PlaceOfCall DEF SInv, TransitionDone
<1>2. p \in Reply /\ p.version \in Nat /\ p.state \in States
  BY <1>0 DEF TransitionDone, MainTask, NoReply, Reply
<1>3. Told(hist, p)
  BY DEF TransitionDone, SInv, MainReplyOK
<1>4. ViewMoves /\ view'.version >= p.version
  BY <1>2, <1>3, ApplyOK DEF TransitionDone
<1>5. stop' \in StopReasons
  BY <1>0 DEF TransitionDone, ObserveCancel, StopReasons
<1>6. /\ main' = [main EXCEPT !.pc = pc, !.call = NoCall, !.reply = NoReply]
      /\ UNCHANGED <<ctl, hist, wire, lease, hb>>
  BY DEF TransitionDone
<1>7. /\ pc = "execute" <=> main.pc = "start"
      /\ pc = "upload" <=> main.pc = "verify"
      /\ pc \in {"execute", "upload"}
  BY <1>1 DEF Then
<1> HIDE DEF pc
<1>8. ASSUME main.pc = "start"
      PROVE  PhaseOK'
  <2>1. main'.pc = "execute"
    BY <1>0, <1>6, <1>7, <1>8 DEF MainTask
  <2> SUFFICES ASSUME Live(ctl), ~ctl.cancel
               PROVE  ctl.state = "Running" /\ view'.version >= 2
    BY <1>6, <2>1 DEF PhaseOK, Live
  <2>2. ctl.state \in {"Preparing", "Running"} /\ main.call.arg = "Running"
    BY <1>8 DEF SInv, PhaseOK, MainOK
  <2>3. p.state = "Running"
    BY <2>2 DEF TransitionDone, SInv, MainReplyOK, ConflictExplained
  <2>4. p.version >= 2
    <3>1. /\ hist[1] = "Queued" /\ hist[2] = "Preparing"
          /\ hist[p.version + 1] = "Running"
      BY <1>3, <2>3 DEF SInv, HistOK, Told
    <3>2. p.version # 0 /\ p.version # 1
      BY <3>1
    <3> QED BY <1>2, <3>2
  <2>5. /\ ctl.version \in Nat /\ Told(hist, ctl) /\ p.version <= ctl.version
    BY <1>0, <1>2, <1>3 DEF SInv, HistOK, Told, CtlRow
  <2>6. Rank(p.state) <= Rank(ctl.state)
    BY <1>2, <1>3, <2>5, LaterRank DEF SInv
  <2>7. ctl.state = "Running"
    BY <2>2, <2>3, <2>6 DEF Rank
  <2>8. view'.version \in Nat
    BY <1>4 DEF ViewMoves
  <2> QED BY <1>2, <1>4, <2>4, <2>7, <2>8
<1> QED BY <1>4, <1>5, <1>6, <1>7, <1>8, ProceedOK

(* The completion is acknowledged: the stored outcome is this worker's.    *)
LEMMA CompleteAcknowledgedOK ==
    ASSUME SInv, CompleteAcknowledged
    PROVE  SInv'
<1> DEFINE p == main.reply
<1>0. main \in MainTask /\ stop \in StopReasons
  BY TypeParts DEF SInv
<1>1. main.pc = "complete"
  BY PlaceOfCall DEF SInv, CompleteAcknowledged
<1>2. p.version \in Nat /\ p.state \in States
  BY <1>0 DEF CompleteAcknowledged, MainTask, NoReply, Reply
<1>3. Told(hist, p)
  BY DEF CompleteAcknowledged, SInv, MainReplyOK
<1>4. ViewMoves
  BY <1>2, <1>3, ApplyOK DEF CompleteAcknowledged
<1>5. stop' \in StopReasons
  BY <1>0 DEF CompleteAcknowledged, ObserveCancel, StopReasons
<1>6. ctl.completion = main.pending /\ ctl.state = main.pending.state
  BY <1>1 DEF CompleteAcknowledged, SInv, MainReplyOK, MainOK
<1>7. /\ main' = [main EXCEPT !.pc = "remove", !.call = NoCall, !.reply = NoReply]
      /\ UNCHANGED <<ctl, hist, wire, lease>> /\ hb' = NoWork
  BY DEF CompleteAcknowledged
<1> QED BY <1>1, <1>4, <1>5, <1>6, <1>7, ProceedOK

(* A conflict that the completion answers with its next attempt.           *)
LEMMA CompleteConflictOK ==
    ASSUME SInv, CompleteConflict
    PROVE  SInv'
<1> DEFINE p == main.reply
           final == Rewritten
           r == [kind |-> "complete", attempt |-> main.call.attempt + 1,
                 version |-> p.version, arg |-> final]
           doc == [version |-> p.version, state |-> final]
<1>0. /\ main \in MainTask /\ stop \in StopReasons /\ Attempts \in Nat \ {0}
  BY TypeParts, SessionAssumption DEF SInv
<1>1. main.pc = "complete" /\ main.call \in Request
  BY <1>0, PlaceOfCall DEF SInv, CompleteConflict, MainTask, NoCall
<1>2. p.version \in Nat /\ p.state \in States
  BY <1>0 DEF CompleteConflict, MainTask, NoReply, Reply
<1>3. Told(hist, p)
  BY DEF CompleteConflict, SInv, MainReplyOK
<1>4. ViewMoves
  BY <1>2, <1>3, ApplyOK DEF CompleteConflict
<1>5. stop' \in StopReasons
  BY <1>0 DEF CompleteConflict, ObserveCancel, StopReasons
<1>6. final \in Terminal
  BY <1>1 DEF Rewritten, SInv, MainOK, Terminal
<1>7. main.call.attempt + 1 \in 0..(Attempts - 1)
  <2>1. main.call.attempt \in 0..(Attempts - 1)
    BY <1>1 DEF Request
  <2>2. main.call.attempt < Attempts - 1
    BY DEF CompleteConflict
  <2> QED BY <1>0, <2>1, <2>2
<1>8. /\ wire' = wire \cup {r}
      /\ main' = [main EXCEPT !.pc = "complete", !.call = r, !.reply = NoReply,
                              !.pending = doc]
      /\ UNCHANGED <<ctl, hist, lease, hb>>
  BY DEF CompleteConflict, Send
<1> HIDE DEF final
<1>9. r \in Request /\ doc \in Document
  BY <1>2, <1>6, <1>7, StateNames, Zenon DEF Request, Document
<1>10. /\ r.kind = "complete" /\ r.arg = final
       /\ doc = [version |-> r.version, state |-> r.arg]
  OBVIOUS
<1> HIDE DEF r, doc
<1>11. main' = [main EXCEPT !.pc = "complete", !.call = r, !.reply = NoReply,
                            !.pending = doc, !.root = main.root]
  BY <1>0, <1>8 DEF MainTask
<1>12. main.root \in {"none", "created"}
  BY <1>0 DEF MainTask
<1> QED BY <1>1, <1>4, <1>5, <1>6, <1>8, <1>9, <1>10, <1>11, <1>12, SendOK

(* The job root goes, then the receipt is sent.                            *)
LEMMA RemoveRootOK ==
    ASSUME SInv, RemoveRoot
    PROVE  SInv'
<1> DEFINE out == IF main.root = "created" THEN "removed" ELSE "not_created"
           r == [kind |-> "cleanup", attempt |-> 0, version |-> view.version,
                 arg |-> out]
<1>0. /\ main \in MainTask /\ view \in [version: Nat, state: States]
      /\ stop \in StopReasons /\ Attempts \in Nat \ {0}
  BY TypeParts, SessionAssumption DEF SInv
<1>1. 0 \in 0..(Attempts - 1) /\ view.version \in Nat /\ out \in Outcomes
  BY <1>0 DEF Outcomes
<1>2. /\ wire' = wire \cup {r}
      /\ main' = [main EXCEPT !.pc = "receipt", !.call = r, !.reply = NoReply,
                              !.root = "none"]
      /\ UNCHANGED <<ctl, hist, view, lease, stop, hb>> /\ main.pc = "remove"
  BY DEF RemoveRoot
<1> HIDE DEF out
<1>3. r \in Request
  BY <1>1, Zenon DEF Request
<1>4. r.kind = "cleanup" /\ r.arg \in Outcomes
  BY <1>1
<1> HIDE DEF r
<1>5. main' = [main EXCEPT !.pc = "receipt", !.call = r, !.reply = NoReply,
                           !.pending = main.pending, !.root = "none"]
  BY <1>0, <1>2 DEF MainTask
<1>6. main.pending \in Document \cup {NoDocument}
  BY <1>0 DEF MainTask
<1>7. ViewMoves
  BY <1>2, ViewStays
<1>8. stop' \in StopReasons
  BY <1>0, <1>2
<1> QED BY <1>2, <1>3, <1>4, <1>5, <1>6, <1>7, <1>8, SendOK

(* The main task.                                                          *)
LEMMA MainStepOK ==
    ASSUME SInv, MainStep
    PROVE  SInv'
<1>1. CASE Quarantine
  BY <1>1, StopOK DEF Quarantine
<1>2. CASE CleanupAcknowledged
  <2>1. main.pc = "receipt"
    BY <1>2, PlaceOfCall DEF SInv, CleanupAcknowledged
  <2>2. ViewMoves /\ stop' \in StopReasons
    BY <1>2, ViewStays, TypeParts DEF SInv, CleanupAcknowledged
  <2> QED BY <1>2, <2>1, <2>2, ProceedOK DEF CleanupAcknowledged
<1>3. CASE ContainmentLost \/ TransitionFailed \/ CompleteFailed \/ RemoveFailed
           \/ CleanupFailed
  BY <1>1, <1>3 DEF ContainmentLost, TransitionFailed, CompleteFailed,
                    RemoveFailed, CleanupFailed
<1> QED BY <1>2, <1>3, RequestsOK, TransportErrorOK, CreateRootOK, TransitionDoneOK,
           CompleteAcknowledgedOK, CompleteConflictOK, RemoveRootOK DEF MainStep

-----------------------------------------------------------------------------
(* The heartbeat task, the watchdogs and time.                             *)

(* What a step of the heartbeat task must leave in order.                  *)
LEMMA HeartbeatMoves ==
    ASSUME SInv, hb.pc # "stopped", UNCHANGED <<ctl, hist, main>>, ViewMoves,
           stop' \in StopReasons, hb' \in HbTask, lease' \in Int,
           wire' \subseteq Request,
           \A r \in wire' : r \in wire \/ (r.kind = "heartbeat" /\ r.arg \in States),
           (LeaseOK /\ HbOK /\ HbReplyOK)'
    PROVE  SInv'
<1>0. /\ ctl \in CtlRow /\ hist \in Seq(States \cup {"Queued"})
      /\ main \in MainTask /\ view \in [version: Nat, state: States]
  BY TypeParts DEF SInv
<1>1. /\ view' \in [version: Nat, state: States] /\ ViewOK'
      /\ view'.version >= view.version
  BY DEF ViewMoves
<1>2. TypeOK'
  BY <1>0, <1>1, TypeKept
<1>3. HistOK' /\ RowOK' /\ EndOK' /\ MainReplyOK'
  BY DEF SInv, HistOK, RowOK, CancelNeverSucceeds, EndOK, AckMatchesCommit,
         ReceiptTruthful, MainReplyOK, ConflictExplained, Live
<1>4. WireOK'
  BY DEF SInv, WireOK
<1>5. MainOK'
  <2>1. hb # NoWork
    BY DEF NoWork
  <2> QED BY <2>1 DEF SInv, MainOK
<1>6. PhaseOK'
  <2>1. view.version >= 2 => view'.version >= 2
    BY <1>0, <1>1
  <2> QED BY <2>1 DEF SInv, PhaseOK, Live
<1> QED BY <1>1, <1>2, <1>3, <1>4, <1>5, <1>6 DEF SInv

(* A heartbeat task that waits for nothing.                                *)
LEMMA HeartbeatRests ==
    ASSUME hb' \in {NoWork, HeartbeatIdle}
    PROVE  hb' \in HbTask /\ HbOK' /\ HbReplyOK'
<1>1. hb' \in HbTask
  BY DEF NoWork, HeartbeatIdle, HbTask
<1>2. hb'.pc \in {"stopped", "idle"} /\ hb'.call = NoCall /\ hb'.reply = NoReply
  BY DEF NoWork, HeartbeatIdle
<1>3. NoReply.kind = "none"
  BY DEF NoReply
<1> QED BY <1>1, <1>2, <1>3 DEF HbOK, HbReplyOK

(* heartbeat_snapshot and the request.                                     *)
LEMMA HeartbeatBegins ==
    ASSUME SInv, HeartbeatRead \/ HeartbeatSend
    PROVE  SInv'
<1>0. /\ hb \in HbTask /\ wire \subseteq Request /\ stop \in StopReasons
      /\ lease \in Int /\ view \in [version: Nat, state: States]
      /\ Attempts \in Nat \ {0}
  BY TypeParts, SessionAssumption DEF SInv
<1>1. UNCHANGED <<ctl, hist, main, view, lease, stop>>
  BY DEF HeartbeatRead, HeartbeatSend
<1>2. ViewMoves /\ LeaseOK' /\ stop' \in StopReasons /\ lease' \in Int
  BY <1>0, <1>1, ViewStays DEF SInv, LeaseOK, LeaseBounded, Live
<1>3. CASE HeartbeatRead /\ stop # "none"
  BY <1>1, <1>2, <1>3, <1>0, HeartbeatRests, HeartbeatMoves DEF HeartbeatRead
<1>4. CASE HeartbeatRead /\ stop = "none"
  <2>1. /\ hb'.pc = "read" /\ hb'.seen = view.state /\ hb'.call = hb.call
        /\ hb'.reply = hb.reply /\ hb.pc = "idle" /\ wire' = wire
    BY <1>0, <1>4 DEF HeartbeatRead, HbTask
  <2>2. hb' \in HbTask
    BY <1>0, <1>4 DEF HeartbeatRead, HbTask
  <2>3. hb'.call = NoCall /\ hb'.reply = NoReply /\ view.state \in States
        /\ NoReply.kind = "none"
    BY <1>0, <2>1 DEF SInv, HbOK, NoReply
  <2>4. HbOK' /\ HbReplyOK'
    BY <1>1, <2>1, <2>3, RankNat DEF HbOK, HbReplyOK
  <2> QED BY <1>0, <1>1, <1>2, <2>1, <2>2, <2>4, HeartbeatMoves
<1>5. CASE HeartbeatSend
  <2> DEFINE r == [kind |-> "heartbeat", attempt |-> 0, version |-> view.version,
                   arg |-> hb.seen]
  <2>0. /\ hb.pc = "read" /\ wire' = wire \cup {r}
        /\ hb' = [hb EXCEPT !.pc = "wait", !.call = r, !.reply = NoReply]
    BY <1>5 DEF HeartbeatSend
  <2>1. hb.seen \in States /\ Rank(hb.seen) <= Rank(view.state)
    BY <2>0 DEF SInv, HbOK
  <2>2. 0 \in 0..(Attempts - 1) /\ view.version \in Nat
    BY <1>0
  <2>3. r \in Request
    BY <2>1, <2>2, Zenon DEF Request
  <2>4. r.kind = "heartbeat" /\ r.arg = hb.seen
    OBVIOUS
  <2> HIDE DEF r
  <2>5. hb' \in HbTask
    BY <1>0, <2>0, <2>3 DEF HbTask
  <2>6. /\ hb'.pc = "wait" /\ hb'.call = r /\ hb'.reply = NoReply
        /\ NoReply.kind = "none"
    BY <1>0, <2>0 DEF HbTask, NoReply
  <2>7. HbOK' /\ HbReplyOK'
    BY <1>1, <2>1, <2>4, <2>6 DEF HbOK, HbReplyOK
  <2> QED BY <1>0, <1>1, <1>2, <2>0, <2>1, <2>3, <2>4, <2>5, <2>7, HeartbeatMoves
<1> QED BY <1>3, <1>4, <1>5

(* An accepted heartbeat: only the version is published, and yet the state *)
(* beside it is the one the run had then.                                  *)
LEMMA HeartbeatOkOK ==
    ASSUME SInv, HeartbeatOk
    PROVE  SInv'
<1> DEFINE p == hb.reply
<1>0. /\ hb \in HbTask /\ wire \subseteq Request /\ stop \in StopReasons
      /\ lease \in Int /\ view \in [version: Nat, state: States]
      /\ ctl \in CtlRow
      /\ TTL \in Nat /\ ClockSkew \in Nat /\ ClockLag \in Nat
  BY TypeParts, SessionAssumption DEF SInv
<1>1. UNCHANGED <<ctl, hist, main, wire>> /\ p.kind = "ok"
  BY DEF HeartbeatOk
<1>2. hb' \in {NoWork, HeartbeatIdle}
  BY DEF HeartbeatOk
<1>3. hb.pc = "wait" /\ Rank(hb.call.arg) <= Rank(view.state)
  BY <1>1 DEF SInv, HbOK, NoReply
<1>4. hb' \in HbTask /\ HbOK' /\ HbReplyOK'
  BY <1>2, HeartbeatRests
<1>5. stop' \in StopReasons
  BY <1>0 DEF HeartbeatOk, ObserveCancel, StopReasons
<1>6. p.version \in Nat /\ p.lease \in Int /\ p.state \in States
  BY <1>0, <1>1 DEF HbTask, Reply, NoReply
<1>7. /\ Told(hist, p) /\ p.state = hb.call.arg /\ p.state \in Executing
      /\ p.lease <= TTL /\ (Live(ctl) => p.lease <= ctl.lease + ClockLag)
  BY <1>1 DEF SInv, HbReplyOK
<1>8. /\ view.version >= 1 /\ Told(hist, view) /\ lease <= TTL + ClockSkew
      /\ (Live(ctl) => lease <= ctl.lease + ClockSkew + ClockLag)
  BY DEF SInv, ViewOK, LeaseOK, LeaseBounded
<1>9. CASE UNCHANGED <<view, lease>>
  <2>1. ViewMoves /\ LeaseOK' /\ lease' \in Int
    BY <1>0, <1>1, <1>9, ViewStays DEF SInv, LeaseOK, LeaseBounded, Live
  <2> QED BY <1>0, <1>1, <1>3, <1>4, <1>5, <2>1, HeartbeatMoves
<1>10. CASE PublishVersion(p.version) /\ Extend(p.lease)
  <2>1. ViewMoves
    <3>1. CASE view.version >= p.version
      <4>1. view' = view
        BY <1>0, <1>10, <3>1 DEF PublishVersion, Larger
      <4> QED BY <1>1, <4>1, ViewStays
    <3>2. CASE ~(view.version >= p.version)
      <4>1. view' = [view EXCEPT !.version = p.version]
        BY <1>10, <3>2 DEF PublishVersion, Larger
      <4>2. view'.version = p.version /\ view'.state = view.state
            /\ view' \in [version: Nat, state: States]
        BY <1>0, <1>6, <4>1
      <4>3. view.version <= p.version /\ view.version \in Nat
        BY <1>0, <1>6, <3>2
      <4>4. Rank(view.state) <= Rank(p.state)
        BY <1>6, <1>7, <1>8, <4>3, LaterRank DEF SInv
      <4>5. view.state = p.state
        BY <1>0, <1>3, <1>6, <1>7, <4>4 DEF Rank, Executing, States, Terminal
      <4>6. Told(hist', view')
        BY <1>1, <1>7, <4>2, <4>5 DEF Told
      <4>7. view'.version >= 1 /\ view'.version >= view.version
        BY <1>6, <1>8, <4>2, <4>3
      <4> QED BY <4>2, <4>6, <4>7, RankNat DEF ViewMoves, ViewOK
    <3> QED BY <3>1, <3>2
  <2>2. lease' = lease \/ lease' = p.lease + ClockSkew
    BY <1>10 DEF Extend, Larger
  <2>3. lease' \in Int /\ lease' <= TTL + ClockSkew
    BY <1>0, <1>6, <1>7, <1>8, <2>2
  <2>4. ctl.lease \in Int
    BY <1>0 DEF CtlRow
  <2>5. Live(ctl) => lease' <= ctl.lease + ClockSkew + ClockLag
    BY <1>0, <1>6, <1>7, <1>8, <2>2, <2>4
  <2>6. LeaseOK'
    BY <1>1, <2>3, <2>5 DEF LeaseOK, LeaseBounded, Live
  <2> QED BY <1>0, <1>1, <1>3, <1>4, <1>5, <2>1, <2>3, <2>6, HeartbeatMoves
<1> QED BY <1>9, <1>10 DEF HeartbeatOk

(* A conflict carries version and state; a failure carries nothing.        *)
LEMMA HeartbeatRefusedOK ==
    ASSUME SInv, HeartbeatConflict \/ HeartbeatFailed
    PROVE  SInv'
<1> DEFINE p == hb.reply
<1>0. /\ hb \in HbTask /\ wire \subseteq Request /\ stop \in StopReasons
      /\ lease \in Int
  BY TypeParts DEF SInv
<1>1. UNCHANGED <<ctl, hist, main, wire, lease>>
  BY DEF HeartbeatConflict, HeartbeatFailed
<1>2. hb' \in {NoWork, HeartbeatIdle}
  BY DEF HeartbeatConflict, HeartbeatFailed
<1>3. hb.pc # "stopped"
  BY DEF HeartbeatConflict, HeartbeatFailed, SInv, HbOK, NoReply
<1>4. hb' \in HbTask /\ HbOK' /\ HbReplyOK'
  BY <1>2, HeartbeatRests
<1>5. stop' \in StopReasons
  BY <1>0 DEF HeartbeatConflict, HeartbeatFailed, ObserveCancel, StopReasons
<1>6. LeaseOK' /\ lease' \in Int
  BY <1>0, <1>1 DEF SInv, LeaseOK, LeaseBounded, Live
<1>7. ViewMoves
  <2>1. CASE HeartbeatConflict
    <3>1. p.version \in Nat /\ p.state \in States /\ Told(hist, p)
      BY <1>0, <2>1 DEF HeartbeatConflict, HbTask, Reply, NoReply, SInv, HbReplyOK
    <3> QED BY <1>1, <2>1, <3>1, ApplyOK DEF HeartbeatConflict
  <2>2. CASE HeartbeatFailed
    BY <2>2, ViewStays DEF HeartbeatFailed
  <2> QED BY <2>1, <2>2
<1> QED BY <1>0, <1>1, <1>3, <1>4, <1>5, <1>6, <1>7, HeartbeatMoves

(* A reason to stop, from a watchdog or from outside.                      *)
LEMMA StopWordOK ==
    ASSUME SInv, LeaseWatchdog \/ TimeoutWatchdog \/ LogUploadFailed \/ Interrupt
    PROVE  SInv'
<1>0. /\ main \in MainTask /\ wire \subseteq Request
  BY TypeParts DEF SInv
<1>1. UNCHANGED <<ctl, hist, wire, view, lease, main, hb>>
      /\ stop' \in StopReasons
  BY DEF LeaseWatchdog, TimeoutWatchdog, LogUploadFailed, Interrupt, Halt, StopReasons
<1>2. ViewMoves
  BY <1>1, ViewStays
<1>3. (WireOK /\ MainOK /\ MainReplyOK /\ PhaseOK /\ EndOK)'
  BY <1>1 DEF SInv, WireOK, MainOK, MainReplyOK, ConflictExplained, PhaseOK,
              EndOK, AckMatchesCommit, ReceiptTruthful, Live
<1> QED BY <1>0, <1>1, <1>2, <1>3, WorkerMoves

(* Time takes from the worker's lease whenever it takes from the           *)
(* controller's.                                                           *)
LEMMA TickOK ==
    ASSUME SInv, Tick
    PROVE  SInv'
<1>0. /\ ctl \in CtlRow /\ hist \in Seq(States \cup {"Queued"})
      /\ wire \subseteq Request /\ view \in [version: Nat, state: States]
      /\ lease \in Int /\ stop \in StopReasons
      /\ main \in MainTask /\ hb \in HbTask
      /\ TTL \in Nat /\ ClockSkew \in Nat /\ ClockLag \in Nat
  BY TypeParts, SessionAssumption DEF SInv
<1>1. ctl.lease \in Int /\ hb.reply.lease \in Int
  BY <1>0 DEF CtlRow, HbTask, Reply, NoReply
<1> DEFINE l == IF Live(ctl) THEN Down(ctl.lease, -ClockLag) ELSE ctl.lease
           m == IF hb.reply.kind = "ok" THEN Down(hb.reply.lease, -ClockSkew)
                ELSE hb.reply.lease
<1>2. l \in Int /\ m \in Int /\ lease' \in Int
  BY <1>0, <1>1 DEF Down, Tick
<1>3. ctl' = [ctl EXCEPT !.lease = l] /\ hb' = [hb EXCEPT !.reply.lease = m]
  BY DEF Tick
<1>4. UNCHANGED <<hist, wire, view, stop, main>> /\ lease' = Down(lease, 0)
  BY DEF Tick
<1>5. /\ Live(ctl) =>
            /\ l = ctl.lease \/ (l = ctl.lease - 1 /\ l >= -ClockLag)
            /\ l = ctl.lease => ctl.lease <= -ClockLag
      /\ hb.reply.kind = "ok" => m <= hb.reply.lease
      /\ hb.reply.kind = "ok" => m = hb.reply.lease - 1 \/ m <= -ClockSkew
      /\ hb.reply.kind # "ok" => m = hb.reply.lease
      /\ lease' <= lease /\ (lease' = lease - 1 \/ lease' <= 0)
  BY <1>0, <1>1, <1>4 DEF Down
<1> HIDE DEF l, m
<1>6. /\ ctl' \in CtlRow
      /\ ctl'.state = ctl.state /\ ctl'.version = ctl.version
      /\ ctl'.cancel = ctl.cancel /\ ctl'.completion = ctl.completion
      /\ ctl'.receipt = ctl.receipt /\ ctl'.lease = l
  BY <1>0, <1>2, <1>3 DEF CtlRow
<1>7. /\ hb'.pc = hb.pc /\ hb'.seen = hb.seen /\ hb'.call = hb.call
      /\ hb'.reply = [hb.reply EXCEPT !.lease = m]
  BY <1>0, <1>3 DEF HbTask
<1>8. /\ hb'.reply.kind = hb.reply.kind /\ hb'.reply.version = hb.reply.version
      /\ hb'.reply.state = hb.reply.state /\ hb'.reply.cancel = hb.reply.cancel
      /\ hb'.reply.lease = m
      /\ hb'.reply \in Reply \cup {NoReply}
      /\ hb.reply = NoReply => hb'.reply = NoReply
  <2>1. CASE hb.reply = NoReply
    <3>1. m = NoReply.lease
      BY <1>5, <2>1 DEF NoReply
    <3> QED BY <1>7, <2>1, <3>1 DEF NoReply
  <2>2. CASE hb.reply \in Reply
    <3>1. /\ hb'.reply \in Reply
          /\ hb'.reply.kind = hb.reply.kind /\ hb'.reply.version = hb.reply.version
          /\ hb'.reply.state = hb.reply.state /\ hb'.reply.cancel = hb.reply.cancel
          /\ hb'.reply.lease = m
      BY <1>2, <1>7, <2>2 DEF Reply
    <3>2. hb.reply # NoReply
      BY <2>2 DEF Reply, NoReply
    <3> QED BY <3>1, <3>2
  <2> QED BY <1>0, <2>1, <2>2 DEF HbTask
<1>9. hb' \in HbTask
  <2>1. hb' = [hb EXCEPT !.reply = hb'.reply]
    BY <1>0, <1>3, <1>7 DEF HbTask
  <2> QED BY <1>0, <1>8, <2>1 DEF HbTask
<1>10. TypeOK'
  BY <1>0, <1>2, <1>4, <1>6, <1>9, TypeKept
<1>11. HistOK' /\ RowOK' /\ WireOK' /\ MainReplyOK' /\ ViewOK' /\ PhaseOK' /\ EndOK'
  BY <1>4, <1>6 DEF SInv, HistOK, RowOK, CancelNeverSucceeds, WireOK, MainReplyOK,
     ConflictExplained, ViewOK, PhaseOK, EndOK, AckMatchesCommit, ReceiptTruthful, Live
<1>12. MainOK'
  <2>1. hb = NoWork => hb' = NoWork
    <3> SUFFICES ASSUME hb = NoWork PROVE hb' = NoWork
      OBVIOUS
    <3>1. hb.reply = NoReply
      BY DEF NoWork
    <3>2. hb' = [hb EXCEPT !.reply = NoReply]
      BY <1>3, <1>7, <1>8, <3>1 DEF NoWork
    <3> QED BY <3>1, <3>2 DEF NoWork
  <2> QED BY <1>4, <2>1 DEF SInv, MainOK
<1>13. HbOK'
  BY <1>4, <1>7, <1>8 DEF SInv, HbOK
<1>14. HbReplyOK'
  <2>1. hb.reply.kind = "ok" =>
           hb.reply.lease <= TTL /\ (Live(ctl) => hb.reply.lease <= ctl.lease + ClockLag)
    BY DEF SInv, HbReplyOK
  <2>2. hb.reply.kind = "ok" => m <= TTL
    BY <1>0, <1>1, <1>2, <1>5, <2>1
  <2>3. ASSUME hb.reply.kind = "ok", Live(ctl)
        PROVE  m <= l + ClockLag
    <3>1. hb.reply.lease <= ctl.lease + ClockLag /\ m <= hb.reply.lease
      BY <1>5, <2>1, <2>3
    <3>2. CASE l = ctl.lease
      BY <1>0, <1>1, <1>2, <3>1, <3>2
    <3>3. CASE l = ctl.lease - 1 /\ l >= -ClockLag
      <4>1. CASE m = hb.reply.lease - 1
        BY <1>0, <1>1, <3>1, <3>3, <4>1
      <4>2. CASE m <= -ClockSkew
        BY <1>0, <1>2, <3>3, <4>2
      <4> QED BY <1>5, <2>3, <4>1, <4>2
    <3> QED BY <1>5, <2>3, <3>2, <3>3
  <2> QED BY <1>4, <1>6, <1>7, <1>8, <2>2, <2>3 DEF SInv, HbReplyOK, Told, Live
<1>15. LeaseOK'
  <2>1. lease <= TTL + ClockSkew /\ (Live(ctl) => lease <= ctl.lease + ClockSkew + ClockLag)
    BY DEF SInv, LeaseOK, LeaseBounded
  <2>2. lease' <= TTL + ClockSkew
    BY <1>0, <1>2, <1>5, <2>1
  <2>3. Live(ctl) => lease' <= l + ClockSkew + ClockLag
    BY <1>0, <1>1, <1>2, <1>5, <2>1
  <2> QED BY <1>6, <2>2, <2>3 DEF LeaseOK, LeaseBounded, Live
<1> QED BY <1>10, <1>11, <1>12, <1>13, <1>14, <1>15 DEF SInv

-----------------------------------------------------------------------------
(* The theorems.                                                           *)

(* Just after the claim.                                                   *)
LEMMA InitOK == Init => SInv
<1> SUFFICES ASSUME Init PROVE SInv
  OBVIOUS
<1>0. TTL \in Nat /\ ClockSkew \in Nat /\ ClockLag \in Nat /\ TTL \in Int
  BY SessionAssumption
<1>1. /\ ctl.state = "Preparing" /\ ctl.version = 1 /\ ctl.cancel = FALSE
      /\ ctl.lease = TTL /\ ctl.completion = NoDocument /\ ctl.receipt = "none"
      /\ hist = <<"Queued", "Preparing">> /\ wire = {} /\ stop = "none"
      /\ view.version = 1 /\ view.state = "Preparing" /\ lease = TTL + ClockSkew
      /\ main.pc = "prepare" /\ main.call = NoCall /\ main.reply = NoReply
      /\ main.pending = NoDocument /\ main.root = "none"
      /\ hb.pc = "idle" /\ hb.seen = "none" /\ hb.call = NoCall /\ hb.reply = NoReply
      /\ NoReply.kind = "none" /\ NoCall.kind = "none"
  BY DEF Init, HeartbeatIdle, NoWork, NoReply, NoCall
<1>2. ctl \in CtlRow
  BY <1>0, StateNames DEF Init, CtlRow
<1>3. main \in MainTask
  BY DEF Init, MainTask
<1>4. hb \in HbTask
  BY DEF Init, HbTask, HeartbeatIdle, NoWork
<1>5. /\ hist \in Seq(States \cup {"Queued"}) /\ view \in [version: Nat, state: States]
      /\ lease \in Int /\ stop \in StopReasons /\ wire \subseteq Request
  BY <1>0, <1>1, StateNames DEF Init, StopReasons
<1>6. TypeOK
  BY <1>2, <1>3, <1>4, <1>5, TypeParts
<1>7. Len(hist) = 2 /\ hist[1] = "Queued" /\ hist[2] = "Preparing"
  BY <1>1
<1>8. HistOK
  <2>1. \A i, j \in 1..Len(hist) : i <= j => Rank(hist[i]) <= Rank(hist[j])
    BY <1>7 DEF Rank
  <2> QED BY <1>1, <1>7, <2>1 DEF HistOK
<1>9. RowOK
  BY <1>1 DEF RowOK, CancelNeverSucceeds, Rank
<1>10. WireOK /\ MainOK /\ MainReplyOK /\ HbOK /\ HbReplyOK /\ EndOK
  BY <1>1 DEF WireOK, MainOK, MainReplyOK, ConflictExplained, HbOK, HbReplyOK,
     EndOK, AckMatchesCommit, ReceiptTruthful, Stopped
<1>11. ViewOK /\ LeaseOK /\ PhaseOK
  BY <1>0, <1>1, <1>7 DEF ViewOK, Told, LeaseOK, LeaseBounded, PhaseOK
<1> QED BY <1>6, <1>8, <1>9, <1>10, <1>11 DEF SInv

(* Every step, of the controller, the worker's tasks, the network and time.*)
LEMMA NextOK == SInv /\ [Next]_vars => SInv'
<1> SUFFICES ASSUME SInv, [Next]_vars PROVE SInv'
  OBVIOUS
<1>1. ASSUME NEW d \in 0..ClockLag, Controller(d)
      PROVE  SInv'
  BY <1>1, NetworkOK, OtherOperationOK DEF Controller
<1>2. CASE MainStep
  BY <1>2, MainStepOK
<1>3. CASE HeartbeatStep
  BY <1>3, HeartbeatBegins, HeartbeatOkOK, HeartbeatRefusedOK DEF HeartbeatStep
<1>4. CASE LeaseWatchdog \/ TimeoutWatchdog \/ LogUploadFailed \/ Interrupt
  BY <1>4, StopWordOK
<1>5. CASE Crash
  BY <1>5, StopOK DEF Crash
<1>6. CASE Network
  BY <1>6, NetworkOK DEF Network
<1>7. CASE Tick
  BY <1>7, TickOK
<1>8. CASE UNCHANGED vars
  BY <1>8 DEF vars, SInv, TypeOK, HistOK, RowOK, CancelNeverSucceeds, WireOK, MainOK,
     MainReplyOK, ConflictExplained, HbOK, HbReplyOK, ViewOK, LeaseOK, LeaseBounded,
     PhaseOK, EndOK, AckMatchesCommit, ReceiptTruthful, Live
<1> QED BY <1>1, <1>2, <1>3, <1>4, <1>5, <1>6, <1>7, <1>8 DEF Next, Environment

(* The inductive invariant of a session.                                   *)
THEOREM SessionInvariance == Spec => []SInv
BY InitOK, NextOK, PTL DEF Spec

(* The variables keep their types.                                         *)
THEOREM SessionTypes == Spec => []TypeOK
<1>1. SInv => TypeOK
  BY DEF SInv
<1> QED BY <1>1, SessionInvariance, PTL

(* However responses overtake each other, the version and the state that   *)
(* the worker's tasks share are a version and its state that the           *)
(* controller stored together (apply_state_version, publish_version).      *)
THEOREM ViewTrue == Spec => []ViewConsistent
<1>1. SInv => ViewConsistent
  BY DEF SInv, ViewOK, Told, ViewConsistent
<1> QED BY <1>1, SessionInvariance, PTL

(* An acknowledged completion is the stored outcome and a stored receipt   *)
(* means that the job root is gone, whatever was lost or repeated          *)
(* (submit_completion, worker_complete_managed, record_cleanup).           *)
THEOREM EndTrue == Spec => []EndTruthful
<1>1. SInv => EndTruthful
  BY DEF SInv, EndOK, EndTruthful
<1> QED BY <1>1, SessionInvariance, PTL

(* A cancelled run never ends as succeeded (cancel_job,                    *)
(* worker_complete_managed).                                               *)
THEOREM CancelHolds == Spec => []CancelNeverSucceeds
<1>1. SInv => CancelNeverSucceeds
  BY DEF SInv, RowOK
<1> QED BY <1>1, SessionInvariance, PTL

(* The worker gives up its lease no later than the controller does, up to  *)
(* the clocks' difference and the age of a clock reading, for every lease  *)
(* length, skew and lag (worker_heartbeat, heartbeat_loop, expire_leases). *)
THEOREM LeaseHolds == Spec => []LeaseBounded
<1>1. SInv => LeaseBounded
  BY DEF SInv, LeaseOK
<1> QED BY <1>1, SessionInvariance, PTL

(* A conflict over a transition is a cancellation or the transition's own  *)
(* earlier attempt, so that transition never has to retry any other        *)
(* conflict (transition, worker_transition).                               *)
THEOREM ConflictsExplained == Spec => []ConflictExplained
<1>1. SInv => ConflictExplained
  BY DEF SInv, MainReplyOK
<1> QED BY <1>1, SessionInvariance, PTL

(* Once a run has ended, no step changes anything of its row but the       *)
(* receipt: delayed, repeated and competing requests included              *)
(* (worker_complete_managed, expire_leases, cancel_job, record_cleanup).   *)
THEOREM OutcomesFinal == Spec => OutcomeFinal
<1> DEFINE Kept == [ctl' EXCEPT !.receipt = ctl.receipt] = ctl
<1>1. ASSUME SInv, ctl.state \in Terminal, [Next]_vars
      PROVE  Kept
  <2>0. ctl \in CtlRow /\ TypeOK /\ RowOK /\ WireOK
    BY <1>1, TypeParts DEF SInv
  <2>1. ~Live(ctl)
    BY <1>1 DEF Live, Executing, Terminal
  <2>2. CASE ctl' = ctl
    BY <2>0, <2>2 DEF CtlRow
  <2>3. ASSUME CtlStep(ctl')
        PROVE  Kept
    <3>1. CASE ctl' = ctl
      BY <2>2, <3>1
    <3>2. CASE /\ ctl'.state = ctl.state /\ ctl'.cancel = ctl.cancel
               /\ ctl'.version = ctl.version /\ ctl'.completion = ctl.completion
               /\ ctl'.lease = ctl.lease
      <4>1. ctl' \in CtlRow
        BY <2>3 DEF CtlStep
      <4> QED BY <2>0, <3>2, <4>1 DEF CtlRow
    <3> QED BY <2>1, <2>3, <3>1, <3>2 DEF CtlStep
  <2>4. ASSUME NEW d \in 0..ClockLag, Controller(d)
        PROVE  Kept
    <3>0. d \in Nat
      BY <2>4, SessionAssumption
    <3>1. CASE \E r \in wire : Serve(r, d)
      <4>1. PICK r \in wire : Serve(r, d)
        BY <3>1
      <4>2. ctl' = Handle(r, d).rows
        BY <4>1 DEF Serve, Store
      <4>3. CtlStep(Handle(r, d).rows)
        BY <2>0, <2>4, HandleOK DEF Handled
      <4> QED BY <2>3, <4>2, <4>3
    <3>2. CASE ExpireLeases(d)
      <4>1. CtlStep(Expire(ctl, d)) /\ ctl' = Expire(ctl, d)
        BY <2>0, <3>0, <3>2, ExpireCases DEF ExpireLeases, Store
      <4> QED BY <2>3, <4>1
    <3>3. CASE Cancel(d)
      BY <2>0, <2>1, <3>0, <3>3, ExpireCases DEF Cancel
    <3> QED BY <2>4, <3>1, <3>2, <3>3 DEF Controller
  <2>5. CASE Tick
    <3>1. ctl' = [ctl EXCEPT !.lease = ctl.lease]
      BY <2>1, <2>5 DEF Tick
    <3> QED BY <2>0, <2>2, <3>1 DEF CtlRow
  <2>6. CASE MainStep \/ HeartbeatStep \/ LeaseWatchdog \/ TimeoutWatchdog
             \/ LogUploadFailed \/ Interrupt \/ Crash \/ Network \/ UNCHANGED vars
    BY <2>2, <2>6 DEF MainStep, CreateRoot, Prepared, PrepareFailed, StepsSucceeded,
       StepsFailed, ContainmentLost, Uploaded, UploadFailed, TransitionDone,
       TransitionFailed, CompleteAcknowledged, CompleteConflict, CompleteFailed,
       RemoveRoot, RemoveFailed, CleanupAcknowledged, CleanupFailed, TransportError,
       Quarantine, BeginTransition, BeginComplete, HeartbeatStep, HeartbeatRead,
       HeartbeatSend, HeartbeatOk, HeartbeatConflict, HeartbeatFailed, LeaseWatchdog,
       TimeoutWatchdog, Halt, LogUploadFailed, Interrupt, Crash, Network, Lose, Refuse,
       vars
  <2> QED BY <1>1, <2>4, <2>5, <2>6 DEF Next, Environment
<1>2. SInv /\ [Next]_vars => [ctl.state \in Terminal => Kept]_vars
  BY <1>1
<1> QED BY <1>2, SessionInvariance, PTL DEF Spec, OutcomeFinal
=============================================================================

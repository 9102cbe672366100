---------------------------- MODULE StoreProofs ----------------------------
(***************************************************************************)
(* Type correctness and the main safety invariants of CycStore, for any    *)
(* number of jobs, nodes and plans, any lifetimes of leases and any lag of *)
(* the clock readings.                                                     *)
(***************************************************************************)
EXTENDS CycStore, FiniteSetTheorems, TLAPS

(* The phase of a reservation follows from the state of its run, and no    *)
(* obligation precedes the terminal state.                                 *)
PhaseFollowsState(r) ==
    /\ r.held => /\ r.leaseNode \in Nodes
                 /\ \/ r.state = "Queued"
                    \/ r.state \in Executing /\ r.phase = "execution"
                    \/ r.state \in Terminal /\ r.phase = "cleanup_pending"
    /\ r.state \in Executing => r.obligation = "none"

(* The inductive invariant of one row: the three properties of rows, and   *)
(* what they need.                                                         *)
RowOK(r) ==
    /\ OwnsExecution(r)
    /\ FreshDispatch(r)
    /\ ProvableCleanup(r)
    /\ PhaseFollowsState(r)

(* No two rows of rs reserve one node.                                     *)
Disjoint(rs) ==
    \A j, k \in Jobs :
        rs[j].held /\ rs[k].held /\ rs[j].leaseNode = rs[k].leaseNode => j = k

RowsOK(rs) ==
    /\ rs \in [Jobs -> Row]
    /\ \A j \in Jobs : RowOK(rs[j])
    /\ Disjoint(rs)

(* After expire_leases at t every unreleased lease counts as a reservation.*)
Settled(rs, t) ==
    \A j \in Jobs : rs[j].held =>
        rs[j].leaseUntil > t \/ rs[j].phase = "cleanup_pending"

IInv == TypeOK /\ RowsOK(rows)

(* A changed row keeps its reservation or gives it up.                     *)
Keeps(r, q) == q.held => r.held /\ q.leaseNode = r.leaseNode

-----------------------------------------------------------------------------
(* Each change of a row keeps it a row and keeps its invariant.            *)

(* The next version of a run is a number (update_job_cas).                 *)
LEMMA NextVersion == \A r \in Row : r.version + 1 \in Nat
BY DEF Row

(* The states that operations write are states of a run.                   *)
LEMMA StateNames ==
    /\ "Queued" \in JobStates /\ "Preparing" \in JobStates
    /\ "Failed" \in JobStates /\ "Cancelled" \in JobStates
    /\ Executing \subseteq JobStates /\ Terminal \subseteq JobStates
BY DEF JobStates, Executing, Terminal

(* The cleanup reaper always finds a due obligation proved, and releases.  *)
LEMMA ReapCleanupOK ==
    ASSUME NEW r \in Row, NEW t \in Nat, RowOK(r)
    PROVE  /\ ReapCleanup(r, t) \in Row
           /\ RowOK(ReapCleanup(r, t))
           /\ Keeps(r, ReapCleanup(r, t))
<1> DEFINE q == ReapCleanup(r, t)
<1>1. CASE r.obligation = "held" /\ r.leaseUntil <= t /\ ProvenTerminal(r)
  <2>1. q = [r EXCEPT !.held = FALSE, !.obligation = "deadline_recovery",
                      !.cleanupFailure = TRUE]
    BY <1>1 DEF ReapCleanup, ReleaseLease, Row
  <2>2. q \in Row
    BY <2>1 DEF Row
  <2>3. /\ q.held = FALSE /\ q.obligation = "deadline_recovery"
        /\ q.state = r.state /\ q.claim = r.claim
    BY <2>1 DEF Row
  <2>4. RowOK(q)
    BY <2>3, <1>1 DEF RowOK, ProvenTerminal, OwnsExecution, FreshDispatch,
                      ProvableCleanup, PhaseFollowsState, Terminal, Executing
  <2> QED BY <2>2, <2>3, <2>4 DEF Keeps
<1>2. CASE ~(r.obligation = "held" /\ r.leaseUntil <= t /\ ProvenTerminal(r))
  <2>1. q = r
    BY <1>2 DEF ReapCleanup, RowOK, ProvableCleanup
  <2> QED BY <2>1 DEF Keeps
<1> QED BY <1>1, <1>2

(* Expiry withdraws a dispatch or fails an execution; what stays           *)
(* unreleased outlives t or is a cleanup reservation.                      *)
LEMMA ExpireLeaseOK ==
    ASSUME NEW r \in Row, NEW t \in Nat, RowOK(r)
    PROVE  /\ ExpireLease(r, t) \in Row
           /\ RowOK(ExpireLease(r, t))
           /\ Keeps(r, ExpireLease(r, t))
           /\ ExpireLease(r, t).held =>
                 \/ ExpireLease(r, t).leaseUntil > t
                 \/ ExpireLease(r, t).phase = "cleanup_pending"
<1> DEFINE q == ExpireLease(r, t)
<1>1. CASE LeaseExpired(r, t) /\ r.state = "Queued"
  <2>1. q = [r EXCEPT !.node = NoNode, !.explained = FALSE,
                      !.version = r.version + 1, !.held = FALSE]
    BY <1>1 DEF ExpireLease, ExpireRun, RevokeClaim, ReleaseLease, Row, RowOK,
                FreshDispatch
  <2>2. q \in Row
    BY <2>1, NextVersion, ZenonT(90) DEF Row
  <2>3. /\ q.held = FALSE /\ q.node = NoNode /\ q.state = r.state
        /\ q.claim = r.claim /\ q.obligation = r.obligation
        /\ q.cancelRequested = r.cancelRequested /\ q.phase = r.phase
        /\ q.binding = r.binding /\ q.cleanupFailure = r.cleanupFailure
    BY <2>1 DEF Row
  <2>4. RowOK(q)
    BY <2>3, <1>1 DEF RowOK, ProvenTerminal, OwnsExecution, FreshDispatch,
                      ProvableCleanup, PhaseFollowsState, Terminal, Executing
  <2> QED BY <2>2, <2>3, <2>4 DEF Keeps
<1>2. CASE LeaseExpired(r, t) /\ r.state # "Queued"
  <2>0. r.state \in Executing /\ r.claim = "active" /\ r.phase = "execution"
    BY <1>2 DEF RowOK, PhaseFollowsState, LeaseExpired, OwnsExecution
  <2>1. q = [r EXCEPT !.state = "Failed", !.version = r.version + 1,
                      !.claim = "revoked", !.held = FALSE]
    BY <1>2, <2>0 DEF ExpireLease, ExpireRun, RevokeClaim, ReleaseLease, Row,
                      Executing, Terminal
  <2>2. q \in Row
    BY <2>1, NextVersion, StateNames, ZenonT(90) DEF Row
  <2>3. /\ q.held = FALSE /\ q.state = "Failed" /\ q.claim = "revoked"
        /\ q.obligation = r.obligation /\ q.cleanupFailure = r.cleanupFailure
    BY <2>1 DEF Row
  <2>4. RowOK(q)
    BY <2>3, <2>0 DEF RowOK, ProvenTerminal, OwnsExecution, FreshDispatch,
                      ProvableCleanup, PhaseFollowsState, Terminal, Executing
  <2> QED BY <2>2, <2>3, <2>4 DEF Keeps
<1>3. CASE ~LeaseExpired(r, t)
  <2>1. q = r
    BY <1>3 DEF ExpireLease
  <2>2. r.leaseUntil \in Nat
    BY DEF Row
  <2> QED BY <2>1, <2>2, <1>3 DEF Keeps, LeaseExpired
<1> QED BY <1>1, <1>2, <1>3

(* Re-arming a withdrawn dispatch binds, dispatches and reserves one node. *)
LEMMA RearmOK ==
    ASSUME NEW r \in Row, NEW n \in Nodes, NEW t \in Nat, RowOK(r),
           r.state = "Queued"
    PROVE  /\ Rearm(r, n, t) \in Row
           /\ RowOK(Rearm(r, n, t))
           /\ Rearm(r, n, t).leaseNode = n
           /\ Rearm(r, n, t).leaseUntil > t
<1> DEFINE q == Rearm(r, n, t)
<1>1. t + DispatchTTL \in Nat /\ t + DispatchTTL > t
  BY TimeAssumption
<1>2. q \in Row
  <2>1. r.attempt + 1 \in Nat
    BY DEF Row
  <2> QED BY <1>1, <2>1, NextVersion, ZenonT(90) DEF Rearm, Row
<1>3. /\ q.state = "Queued" /\ q.node = n /\ q.binding = n /\ q.leaseNode = n
      /\ q.held = TRUE /\ q.phase = "dispatch" /\ q.leaseUntil = t + DispatchTTL
      /\ q.claim = r.claim /\ q.obligation = r.obligation
      /\ q.cancelRequested = r.cancelRequested
      /\ q.cleanupFailure = r.cleanupFailure
  BY DEF Rearm, Row
<1>4. RowOK(q)
  BY <1>3 DEF RowOK, ProvenTerminal, OwnsExecution, FreshDispatch,
              ProvableCleanup, PhaseFollowsState, Terminal, Executing
<1> QED BY <1>1, <1>2, <1>3, <1>4

(* A waiting job may get a new explanation, and stays unreserved.          *)
LEMMA ExplainOK ==
    ASSUME NEW r \in Row, NEW c \in BOOLEAN, RowOK(r),
           r.state = "Queued", ~r.held
    PROVE  /\ Explain(r, c) \in Row
           /\ RowOK(Explain(r, c))
           /\ ~Explain(r, c).held
<1> DEFINE q == Explain(r, c)
<1>1. CASE q = r
  BY <1>1
<1>2. CASE q = [r EXCEPT !.node = NoNode, !.explained = TRUE,
                         !.version = r.version + 1]
  <2>1. q \in Row
    BY <1>2, NextVersion, ZenonT(90) DEF Row
  <2>2. /\ q.state = r.state /\ q.node = NoNode /\ q.binding = r.binding
        /\ q.held = r.held /\ q.phase = r.phase /\ q.claim = r.claim
        /\ q.obligation = r.obligation
        /\ q.cancelRequested = r.cancelRequested
        /\ q.cleanupFailure = r.cleanupFailure
    BY <1>2 DEF Row
  <2>3. RowOK(q)
    BY <2>2 DEF RowOK, ProvenTerminal, OwnsExecution, FreshDispatch,
                ProvableCleanup, PhaseFollowsState, Terminal, Executing
  <2> QED BY <2>1, <2>2, <2>3
<1> QED BY <1>1, <1>2 DEF Explain

(* A submitted job is queued, dispatched and reserved on one node.         *)
LEMMA NewRowOK ==
    ASSUME NEW n \in Nodes, NEW t \in Nat
    PROVE  /\ NewRow(n, t) \in Row
           /\ RowOK(NewRow(n, t))
           /\ NewRow(n, t).leaseNode = n
<1> DEFINE q == NewRow(n, t)
<1>1. t + DispatchTTL \in Nat
  BY TimeAssumption
<1>2. NoRow \in Row
  BY StateNames DEF NoRow, Row, JobStates
<1>3. q \in Row
  BY <1>1, <1>2, StateNames, ZenonT(90) DEF NewRow, Row
<1>4. /\ q.state = "Queued" /\ q.node = n /\ q.binding = n /\ q.leaseNode = n
      /\ q.held = TRUE /\ q.phase = "dispatch" /\ q.claim = "none"
      /\ q.obligation = "none" /\ q.cancelRequested = FALSE
      /\ q.cleanupFailure = FALSE
  BY DEF NewRow, NoRow
<1>5. RowOK(q)
  BY <1>4 DEF RowOK, ProvenTerminal, OwnsExecution, FreshDispatch,
              ProvableCleanup, PhaseFollowsState, Terminal, Executing
<1> QED BY <1>3, <1>4, <1>5

(* Cancelling a queued run ends and releases it; cancelling an executing   *)
(* one leaves its claim and its lease alone.                               *)
LEMMA CancelRowOK ==
    ASSUME NEW r \in Row, RowOK(r), r.state \in {"Queued"} \cup Executing
    PROVE  /\ CancelRow(r) \in Row
           /\ RowOK(CancelRow(r))
           /\ Keeps(r, CancelRow(r))
<1> DEFINE q == CancelRow(r)
<1>1. CASE r.state = "Queued"
  <2>1. q = [r EXCEPT !.held = FALSE, !.state = "Cancelled",
                      !.version = r.version + 1]
    BY <1>1 DEF CancelRow, ReleaseLease, Row
  <2>2. q \in Row
    BY <2>1, NextVersion, StateNames, ZenonT(90) DEF Row
  <2>3. /\ q.held = FALSE /\ q.state = "Cancelled" /\ q.claim = r.claim
        /\ q.obligation = r.obligation /\ q.cleanupFailure = r.cleanupFailure
    BY <2>1 DEF Row
  <2>4. RowOK(q)
    BY <2>3, <1>1 DEF RowOK, ProvenTerminal, OwnsExecution, FreshDispatch,
                      ProvableCleanup, PhaseFollowsState, Terminal, Executing
  <2> QED BY <2>2, <2>3, <2>4 DEF Keeps
<1>2. CASE r.state \in Executing /\ ~r.cancelRequested
  <2>1. q = [r EXCEPT !.cancelRequested = TRUE, !.version = r.version + 1]
    BY <1>2 DEF CancelRow, Executing
  <2>2. q \in Row
    BY <2>1, NextVersion, ZenonT(90) DEF Row
  <2>3. /\ q.held = r.held /\ q.state = r.state /\ q.claim = r.claim
        /\ q.obligation = r.obligation /\ q.cleanupFailure = r.cleanupFailure
        /\ q.node = r.node /\ q.binding = r.binding /\ q.phase = r.phase
        /\ q.leaseNode = r.leaseNode /\ q.claimNode = r.claimNode
    BY <2>1 DEF Row
  <2>4. RowOK(q)
    BY <2>3, <1>2 DEF RowOK, ProvenTerminal, OwnsExecution, FreshDispatch,
                      ProvableCleanup, PhaseFollowsState, Terminal, Executing
  <2> QED BY <2>2, <2>3, <2>4 DEF Keeps
<1>3. CASE r.state \in Executing /\ r.cancelRequested
  <2>1. q = r
    BY <1>3 DEF CancelRow, Executing
  <2> QED BY <2>1 DEF Keeps
<1> QED BY <1>1, <1>2, <1>3

(* A claim turns the dispatch reservation into an execution one.           *)
LEMMA ClaimRowOK ==
    ASSUME NEW r \in Row, NEW n \in Nodes, NEW t \in Nat, RowOK(r),
           Queueing(r, n, t)
    PROVE  /\ ClaimRow(r, n, t) \in Row
           /\ RowOK(ClaimRow(r, n, t))
           /\ Keeps(r, ClaimRow(r, n, t))
<1> DEFINE q == ClaimRow(r, n, t)
<1>1. t + ClaimTTL \in Nat
  BY TimeAssumption
<1>2. q \in Row
  BY <1>1, NextVersion, StateNames, ZenonT(90) DEF ClaimRow, Row
<1>3. /\ q.state = "Preparing" /\ q.claim = "active" /\ q.claimNode = n
      /\ q.phase = "execution" /\ q.held = r.held /\ q.leaseNode = r.leaseNode
      /\ q.node = r.node /\ q.binding = r.binding
      /\ q.obligation = r.obligation /\ q.cleanupFailure = r.cleanupFailure
  BY DEF ClaimRow, Row
<1>4. RowOK(q)
  BY <1>3 DEF Queueing, RowOK, ProvenTerminal, OwnsExecution, FreshDispatch,
              ProvableCleanup, PhaseFollowsState, Terminal, Executing
<1> QED BY <1>2, <1>3, <1>4 DEF Keeps

(* worker_heartbeat moves only the end of the lease.                       *)
LEMMA HeartbeatRowOK ==
    ASSUME NEW r \in Row, NEW t \in Nat, RowOK(r)
    PROVE  /\ HeartbeatRow(r, t) \in Row
           /\ RowOK(HeartbeatRow(r, t))
           /\ Keeps(r, HeartbeatRow(r, t))
<1> DEFINE q == HeartbeatRow(r, t)
<1>1. t + ClaimTTL \in Nat
  BY TimeAssumption
<1>2. q \in Row
  BY <1>1, ZenonT(90) DEF HeartbeatRow, Row
<1>3. /\ q.held = r.held /\ q.state = r.state /\ q.claim = r.claim
      /\ q.obligation = r.obligation /\ q.cleanupFailure = r.cleanupFailure
      /\ q.node = r.node /\ q.binding = r.binding /\ q.phase = r.phase
      /\ q.leaseNode = r.leaseNode /\ q.claimNode = r.claimNode
      /\ q.cancelRequested = r.cancelRequested /\ q.version = r.version
      /\ q.obligationVersion = r.obligationVersion
      /\ q.obligationState = r.obligationState
  BY DEF HeartbeatRow, Row
<1>4. RowOK(q)
  BY <1>3 DEF RowOK, ProvenTerminal, OwnsExecution, FreshDispatch,
              ProvableCleanup, PhaseFollowsState, Terminal, Executing
<1> QED BY <1>2, <1>3, <1>4 DEF Keeps

(* worker_transition moves an executing run to another executing state and *)
(* leaves claim and lease alone.                                           *)
LEMMA TransitionRowOK ==
    ASSUME NEW r \in Row, NEW next \in Executing, RowOK(r), r.claim = "active"
    PROVE  /\ TransitionRow(r, next) \in Row
           /\ RowOK(TransitionRow(r, next))
           /\ Keeps(r, TransitionRow(r, next))
<1> DEFINE q == TransitionRow(r, next)
<1>1. q \in Row
  BY NextVersion, StateNames, ZenonT(90) DEF TransitionRow, Row
<1>2. /\ q.held = r.held /\ q.state = next /\ q.claim = r.claim
      /\ q.obligation = r.obligation /\ q.cleanupFailure = r.cleanupFailure
      /\ q.node = r.node /\ q.binding = r.binding /\ q.phase = r.phase
      /\ q.leaseNode = r.leaseNode /\ q.claimNode = r.claimNode
  BY DEF TransitionRow, Row
<1>3. RowOK(q)
  BY <1>2 DEF RowOK, ProvenTerminal, OwnsExecution, FreshDispatch,
              ProvableCleanup, PhaseFollowsState, Terminal, Executing
<1> QED BY <1>1, <1>2, <1>3 DEF Keeps

(* Completion records an obligation the reaper can prove.                  *)
LEMMA CompleteRowOK ==
    ASSUME NEW r \in Row, NEW final \in Terminal, NEW t \in Nat, RowOK(r),
           r.claim = "active"
    PROVE  /\ CompleteRow(r, final, t) \in Row
           /\ RowOK(CompleteRow(r, final, t))
           /\ Keeps(r, CompleteRow(r, final, t))
<1> DEFINE q == CompleteRow(r, final, t)
<1>1. t + CleanupTTL \in Nat
  BY TimeAssumption
<1>2. q = [r EXCEPT !.claim = "revoked", !.state = final,
                    !.version = r.version + 1, !.obligation = "held",
                    !.obligationVersion = r.version + 1,
                    !.obligationState = final, !.phase = "cleanup_pending",
                    !.leaseUntil = t + CleanupTTL]
  BY DEF CompleteRow, RevokeClaim, Row
<1>3. q \in Row
  <2>1. final \in JobStates
    BY StateNames
  <2> DEFINE p == [r EXCEPT !.claim = "revoked", !.state = final,
                            !.version = r.version + 1, !.obligation = "held"]
  <2>2. p \in Row
    BY <2>1, NextVersion, ZenonT(90) DEF Row
  <2>3. q = [p EXCEPT !.obligationVersion = r.version + 1,
                      !.obligationState = final, !.phase = "cleanup_pending",
                      !.leaseUntil = t + CleanupTTL]
    BY <1>2 DEF Row
  <2> HIDE DEF p
  <2> QED BY <1>1, <2>1, <2>2, <2>3, NextVersion, ZenonT(90) DEF Row
<1>4. /\ q.held = r.held /\ q.state = final /\ q.claim = "revoked"
      /\ q.obligation = "held" /\ q.cleanupFailure = r.cleanupFailure
      /\ q.phase = "cleanup_pending" /\ q.leaseNode = r.leaseNode
      /\ q.version = q.obligationVersion /\ q.obligationState = final
  BY <1>2 DEF Row
<1>5. ~r.cleanupFailure
  BY DEF RowOK, OwnsExecution, ProvableCleanup, PhaseFollowsState
<1>6. RowOK(q)
  BY <1>4, <1>5 DEF RowOK, ProvenTerminal, OwnsExecution, FreshDispatch,
              ProvableCleanup, PhaseFollowsState, Terminal, Executing
<1> QED BY <1>3, <1>4, <1>6 DEF Keeps

(* A receipt of a removed root gives the reservation back, another one     *)
(* changes nothing but the evidence.                                       *)
LEMMA ReceiptRowOK ==
    ASSUME NEW r \in Row, NEW outcome \in {"removed", "not_created"}, RowOK(r),
           r.obligation # "none"
    PROVE  /\ ReceiptRow(r, outcome) \in Row
           /\ RowOK(ReceiptRow(r, outcome))
           /\ Keeps(r, ReceiptRow(r, outcome))
<1> DEFINE q == ReceiptRow(r, outcome)
<1>0. r.state \notin Executing /\ r.state # "Queued" /\ r.claim # "active"
  BY DEF RowOK, PhaseFollowsState, FreshDispatch, OwnsExecution
<1>1. CASE outcome = "removed"
  <2>1. PICK o \in {"none", "held", "removed_receipt", "deadline_recovery"} :
            o # "held" /\ (r.obligation # "held" => o = r.obligation)
            /\ q = [r EXCEPT !.held = FALSE, !.receipt = "removed",
                             !.obligation = o]
    <3>1. CASE r.obligation = "held"
      BY <1>1, <3>1 DEF ReceiptRow, ReleaseLease, Row
    <3>2. CASE r.obligation # "held"
      <4>1. q = [r EXCEPT !.held = FALSE, !.receipt = "removed",
                          !.obligation = r.obligation]
        BY <1>1, <3>2 DEF ReceiptRow, ReleaseLease, Row
      <4> QED BY <4>1, <3>2 DEF Row
    <3> QED BY <3>1, <3>2
  <2>3. q \in Row
    BY <2>1, ZenonT(90) DEF Row
  <2>4. /\ q.held = FALSE /\ q.obligation = o /\ q.state = r.state
        /\ q.claim = r.claim /\ q.cleanupFailure = r.cleanupFailure
    BY <2>1 DEF Row
  <2>5. RowOK(q)
    BY <2>1, <2>4, <1>0 DEF RowOK, OwnsExecution, FreshDispatch,
                            ProvableCleanup, PhaseFollowsState
  <2> QED BY <2>3, <2>4, <2>5 DEF Keeps
<1>2. CASE outcome = "not_created"
  <2>1. q = [r EXCEPT !.receipt = "not_created"]
    BY <1>2 DEF ReceiptRow
  <2>2. q \in Row
    BY <2>1 DEF Row
  <2>3. /\ q.held = r.held /\ q.state = r.state /\ q.claim = r.claim
        /\ q.obligation = r.obligation /\ q.cleanupFailure = r.cleanupFailure
        /\ q.phase = r.phase /\ q.leaseNode = r.leaseNode
        /\ q.version = r.version
        /\ q.obligationVersion = r.obligationVersion
        /\ q.obligationState = r.obligationState
    BY <2>1 DEF Row
  <2>4. RowOK(q)
    BY <2>3, <1>0 DEF RowOK, ProvenTerminal, OwnsExecution, FreshDispatch,
                      ProvableCleanup, PhaseFollowsState
  <2> QED BY <2>2, <2>3, <2>4 DEF Keeps
<1> QED BY <1>1, <1>2

-----------------------------------------------------------------------------
(* Tables.                                                                 *)

(* Once expired leases are gone, an eligible node is unreserved.           *)
LEMMA EligibleFree ==
    ASSUME NEW rs, NEW ns, NEW t, Settled(rs, t), NEW n \in Eligible(rs, ns, t)
    PROVE  n \in Nodes /\ \A k \in Jobs : ~(rs[k].held /\ rs[k].leaseNode = n)
BY DEF Eligible, Reserves, Settled

(* Replacing one row.                                                      *)
LEMMA UpdateOK ==
    ASSUME NEW rs, RowsOK(rs), NEW j \in Jobs, NEW q \in Row, RowOK(q),
           \/ Keeps(rs[j], q)
           \/ \A k \in Jobs : ~(rs[k].held /\ rs[k].leaseNode = q.leaseNode)
    PROVE  RowsOK([rs EXCEPT ![j] = q])
<1> DEFINE es == [rs EXCEPT ![j] = q]
<1>1. es \in [Jobs -> Row]
  BY DEF RowsOK
<1>2. \A k \in Jobs : es[k] = IF k = j THEN q ELSE rs[k]
  BY DEF RowsOK
<1>3. \A k \in Jobs : RowOK(es[k])
  BY <1>2 DEF RowsOK
<1>4. Disjoint(es)
  <2> SUFFICES ASSUME NEW a \in Jobs, NEW b \in Jobs, es[a].held, es[b].held,
                      es[a].leaseNode = es[b].leaseNode
               PROVE  a = b
    BY DEF Disjoint
  <2>1. CASE Keeps(rs[j], q)
    <3>1. /\ rs[a].held /\ rs[a].leaseNode = es[a].leaseNode
          /\ rs[b].held /\ rs[b].leaseNode = es[b].leaseNode
      BY <1>2, <2>1 DEF Keeps
    <3> QED BY <3>1 DEF RowsOK, Disjoint
  <2>2. CASE \A k \in Jobs : ~(rs[k].held /\ rs[k].leaseNode = q.leaseNode)
    BY <1>2, <2>2 DEF RowsOK, Disjoint
  <2> QED BY <2>1, <2>2
<1> QED BY <1>1, <1>3, <1>4 DEF RowsOK

(* Expiring every row.                                                     *)
LEMMA ExpireRowsOK ==
    ASSUME NEW rs, RowsOK(rs), NEW t \in Nat
    PROVE  /\ RowsOK(ExpireRows(rs, t))
           /\ Settled(ExpireRows(rs, t), t)
<1> DEFINE es == ExpireRows(rs, t)
<1>1. \A j \in Jobs : es[j] = ExpireLease(ReapCleanup(rs[j], t), t)
  BY DEF ExpireRows
<1>2. ASSUME NEW j \in Jobs
      PROVE  /\ es[j] \in Row /\ RowOK(es[j]) /\ Keeps(rs[j], es[j])
             /\ es[j].held => \/ es[j].leaseUntil > t
                              \/ es[j].phase = "cleanup_pending"
  <2>1. rs[j] \in Row /\ RowOK(rs[j])
    BY DEF RowsOK
  <2>2. PICK r \in Row : r = ReapCleanup(rs[j], t) /\ RowOK(r) /\ Keeps(rs[j], r)
    BY <2>1, ReapCleanupOK
  <2>3. es[j] = ExpireLease(r, t)
    BY <1>1, <2>2
  <2>4. /\ es[j] \in Row /\ RowOK(es[j]) /\ Keeps(r, es[j])
        /\ es[j].held => \/ es[j].leaseUntil > t
                         \/ es[j].phase = "cleanup_pending"
    BY <2>2, <2>3, ExpireLeaseOK
  <2> QED BY <2>2, <2>4 DEF Keeps
<1>3. es \in [Jobs -> Row]
  BY <1>2 DEF ExpireRows
<1>4. Disjoint(es)
  BY <1>2 DEF RowsOK, Disjoint, Keeps
<1> HIDE DEF es
<1>5. Settled(es, t)
  BY <1>2 DEF Settled
<1> QED BY <1>2, <1>3, <1>4, <1>5 DEF RowsOK, es

(* A job redispatch_queued_jobs places has no reservation of its own.      *)
LEMMA UndispatchedWaits ==
    ASSUME NEW rs, RowsOK(rs), NEW t \in Nat, Settled(rs, t),
           NEW j \in Undispatched(rs, t)
    PROVE  j \in Jobs /\ rs[j].state = "Queued" /\ ~rs[j].held
           /\ rs[j] \in Row /\ RowOK(rs[j])
<1>1. j \in Jobs /\ rs[j].state = "Queued"
      /\ (~rs[j].held \/ rs[j].leaseUntil <= t)
  BY DEF Undispatched, RedispatchReads
<1>2. rs[j] \in Row /\ RowOK(rs[j])
  BY <1>1 DEF RowsOK
<1>3. rs[j].phase = "dispatch" /\ rs[j].leaseUntil \in Nat
  BY <1>1, <1>2 DEF RowOK, FreshDispatch, Row
<1> QED BY <1>1, <1>2, <1>3 DEF Settled

(* Re-dispatching the waiting jobs.                                        *)
LEMMA RedispatchOK ==
    ASSUME NEW rs, RowsOK(rs), NEW t \in Nat, Settled(rs, t), NEW fl \in Nat,
           NEW ns, NEW d \in RedispatchOutcomes(rs, fl, ns, t)
    PROVE  RowsOK(d.rows) /\ Settled(d.rows, t) /\ d.fleet \in Nat
<1>1. PICK f \in Placements(rs, ns, t), changed \in SUBSET Reexplainable(rs, t) :
         /\ d.rows = Redispatch(rs, f, changed, t)
         /\ d.fleet = IF \E j \in DOMAIN f : f[j] # NoNode
                      THEN fl + 1 ELSE fl
  BY DEF RedispatchOutcomes
<1>2. d.fleet \in Nat
  BY <1>1
<1> DEFINE queued == Undispatched(rs, t)
           es == Redispatch(rs, f, changed, t)
<1>3. f \in [queued -> Nodes \cup {NoNode}] /\ DOMAIN f = queued
  BY DEF Placements
<1>4. ASSUME NEW j \in queued
      PROVE  j \in Jobs /\ rs[j].state = "Queued" /\ ~rs[j].held
             /\ rs[j] \in Row /\ RowOK(rs[j])
  BY UndispatchedWaits
<1>5. ASSUME NEW j \in queued, f[j] # NoNode
      PROVE  /\ f[j] \in Nodes
             /\ \A k \in Jobs : ~(rs[k].held /\ rs[k].leaseNode = f[j])
             /\ \A k \in queued : f[k] = f[j] => k = j
  <2>1. f[j] \in Eligible(rs, ns, t) /\ \A k \in queued \ {j} : f[k] # f[j]
    BY <1>5 DEF Placements
  <2> QED BY <2>1, EligibleFree
<1>6. ASSUME NEW j \in Jobs, j \in queued, f[j] # NoNode
      PROVE  /\ es[j] \in Row /\ RowOK(es[j]) /\ es[j].leaseNode = f[j]
             /\ es[j].leaseUntil > t
  <2>1. es[j] = Rearm(rs[j], f[j], t)
    BY <1>3, <1>6 DEF Redispatch
  <2> QED BY <2>1, <1>4, <1>5, <1>6, RearmOK
<1>7. ASSUME NEW j \in Jobs, j \in queued, f[j] = NoNode
      PROVE  es[j] \in Row /\ RowOK(es[j]) /\ ~es[j].held
  <2>1. es[j] = Explain(rs[j], j \in changed)
    BY <1>3, <1>7 DEF Redispatch
  <2>2. (j \in changed) \in BOOLEAN
    OBVIOUS
  <2> QED BY <2>1, <2>2, <1>4, <1>7, ExplainOK
<1>8. ASSUME NEW j \in Jobs, j \notin queued
      PROVE  es[j] = rs[j] /\ es[j] \in Row /\ RowOK(es[j])
  BY <1>3, <1>8 DEF Redispatch, RowsOK
<1>9. \A j \in Jobs : es[j] \in Row /\ RowOK(es[j])
  BY <1>6, <1>7, <1>8
<1>10. es \in [Jobs -> Row]
  BY <1>9 DEF Redispatch
<1> HIDE DEF es
<1>11. Disjoint(es)
  <2> SUFFICES ASSUME NEW a \in Jobs, NEW b \in Jobs, es[a].held, es[b].held,
                      es[a].leaseNode = es[b].leaseNode
               PROVE  a = b
    BY DEF Disjoint
  <2>1. CASE a \in queued /\ b \in queued
    BY <2>1, <1>5, <1>6, <1>7
  <2>2. CASE a \in queued /\ b \notin queued
    BY <2>2, <1>5, <1>6, <1>7, <1>8
  <2>3. CASE a \notin queued /\ b \in queued
    BY <2>3, <1>5, <1>6, <1>7, <1>8
  <2>4. CASE a \notin queued /\ b \notin queued
    BY <2>4, <1>8 DEF RowsOK, Disjoint
  <2> QED BY <2>1, <2>2, <2>3, <2>4
<1>12. Settled(es, t)
  BY <1>6, <1>7, <1>8 DEF Settled
<1>13. RowsOK(es)
  BY <1>9, <1>10, <1>11 DEF RowsOK
<1> QED BY <1>1, <1>2, <1>12, <1>13 DEF es

(* The expire_leases prefix of an operation.                               *)
LEMMA AfterExpiryOK ==
    ASSUME IInv, NEW t \in Nat, NEW d \in AfterExpiry(t)
    PROVE  RowsOK(d.rows) /\ Settled(d.rows, t) /\ d.fleet \in Nat
<1> DEFINE es == ExpireRows(rows, t)
           fl == fleet + Cardinality(Released(rows, es))
<1>1. RowsOK(es) /\ Settled(es, t)
  BY ExpireRowsOK DEF IInv
<1>2. Cardinality(Released(rows, es)) \in Nat
  <2>1. Released(rows, es) \subseteq Jobs
    BY DEF Released
  <2> QED BY <2>1, FiniteAssumption, FS_Subset, FS_CardinalityType
<1>3. fl \in Nat
  BY <1>2 DEF IInv, TypeOK
<1>4. d \in RedispatchOutcomes(es, fl, nodes, t)
  BY DEF AfterExpiry
<1> HIDE DEF es, fl
<1> QED BY <1>1, <1>3, <1>4, RedispatchOK

-----------------------------------------------------------------------------
(* The invariant.                                                          *)

(* The empty database satisfies the invariant.                             *)
LEMMA InitIInv == Init => IInv
<1> SUFFICES ASSUME Init PROVE IInv
  OBVIOUS
<1>1. NoRow \in Row
  BY DEF NoRow, Row, JobStates
<1>2. RowOK(NoRow) /\ NoRow.held = FALSE
  BY DEF NoRow, RowOK, OwnsExecution, FreshDispatch, ProvableCleanup,
         PhaseFollowsState, Executing
<1>3. RowsOK(rows)
  BY <1>1, <1>2 DEF Init, RowsOK, Disjoint
<1>4. plans \in [PlanIds -> Plan]
  BY DEF Init, NoPlan, Plan
<1>5. nodes \in [Nodes -> NodeRow]
  BY DEF Init, NodeRow
<1> QED BY <1>3, <1>4, <1>5 DEF Init, IInv, TypeOK, RowsOK

(* Every operation of a client or a worker keeps the tables right.         *)
LEMMA ClientStepOK ==
    ASSUME IInv, NEW t \in ClockReads, ClientStep(t)
    PROVE  IInv'
<1>0. t \in Nat /\ nodes \in [Nodes -> NodeRow]
  BY DEF ClockReads, IInv, TypeOK
<1>1. CASE ReadJobs(t)
  <2>1. PICK d \in AfterExpiry(t) : rows' = d.rows /\ fleet' = d.fleet
    BY <1>1 DEF ReadJobs, Commit
  <2>2. RowsOK(rows') /\ fleet' \in Nat
    BY <2>1, <1>0, AfterExpiryOK
  <2> QED BY <2>2, <1>1 DEF ReadJobs, IInv, TypeOK, RowsOK
<1>2. ASSUME NEW j \in Jobs, SubmitJob(j, t)
      PROVE  IInv'
  <2>1. PICK d \in AfterExpiry(t), n \in Nodes :
           /\ n \in Eligible(d.rows, nodes, t)
           /\ rows' = [d.rows EXCEPT ![j] = NewRow(n, t)] /\ fleet' = d.fleet + 1
    BY <1>2 DEF SubmitJob, Commit, Eligible
  <2>2. RowsOK(d.rows) /\ Settled(d.rows, t) /\ d.fleet \in Nat
    BY <1>0, AfterExpiryOK
  <2>3. n \in Nodes /\ \A k \in Jobs : ~(d.rows[k].held /\ d.rows[k].leaseNode = n)
    BY <2>1, <2>2, EligibleFree
  <2>4. NewRow(n, t) \in Row /\ RowOK(NewRow(n, t)) /\ NewRow(n, t).leaseNode = n
    BY <1>0, <2>3, NewRowOK
  <2>5. RowsOK(rows')
    BY <2>1, <2>2, <2>3, <2>4, UpdateOK
  <2> QED BY <2>1, <2>2, <2>5, <1>2 DEF SubmitJob, IInv, TypeOK, RowsOK
<1>3. ASSUME NEW j \in Jobs, NEW p \in PlanIds, CreatePlan(p, j, t)
      PROVE  IInv'
  <2>1. PICK d \in AfterExpiry(t), n \in Nodes :
           /\ n \in Eligible(d.rows, nodes, t)
           /\ rows' = d.rows /\ fleet' = d.fleet
           /\ plans' = [plans EXCEPT ![p] =
                          [job |-> j, node |-> n, fleet |-> d.fleet,
                           rev |-> nodes[n].rev, expires |-> t + PlanTTL,
                           used |-> FALSE]]
    BY <1>3 DEF CreatePlan, Commit, Eligible
  <2>2. RowsOK(rows') /\ fleet' \in Nat
    BY <2>1, <1>0, AfterExpiryOK
  <2>3. n \in Nodes /\ nodes[n].rev \in Nat /\ t + PlanTTL \in Nat
    BY <1>0, TimeAssumption DEF NodeRow
  <2>4. [job |-> j, node |-> n, fleet |-> d.fleet, rev |-> nodes[n].rev,
         expires |-> t + PlanTTL, used |-> FALSE] \in Plan
    BY <2>1, <2>2, <2>3 DEF Plan
  <2>5. plans' \in [PlanIds -> Plan]
    BY <2>1, <2>4 DEF IInv, TypeOK
  <2> QED BY <2>2, <2>5, <1>3 DEF CreatePlan, IInv, TypeOK, RowsOK
<1>4. ASSUME NEW j \in Jobs, NEW p \in PlanIds, SubmitPlanned(j, p, t)
      PROVE  IInv'
  <2>1. PICK d \in AfterExpiry(t), n \in Nodes :
           /\ n \in Eligible(d.rows, nodes, t)
           /\ rows' = [d.rows EXCEPT ![j] = NewRow(n, t)] /\ fleet' = d.fleet + 1
    BY <1>4 DEF SubmitPlanned, PlanUsable, Commit, Eligible
  <2>2. RowsOK(d.rows) /\ Settled(d.rows, t) /\ d.fleet \in Nat
    BY <1>0, AfterExpiryOK
  <2>3. n \in Nodes /\ \A k \in Jobs : ~(d.rows[k].held /\ d.rows[k].leaseNode = n)
    BY <2>1, <2>2, EligibleFree
  <2>4. NewRow(n, t) \in Row /\ RowOK(NewRow(n, t)) /\ NewRow(n, t).leaseNode = n
    BY <1>0, <2>3, NewRowOK
  <2>5. RowsOK(rows')
    BY <2>1, <2>2, <2>3, <2>4, UpdateOK
  <2>6. plans' \in [PlanIds -> Plan]
    BY <1>4 DEF SubmitPlanned, IInv, TypeOK, Plan
  <2> QED BY <2>1, <2>2, <2>5, <2>6, <1>4 DEF SubmitPlanned, IInv, TypeOK, RowsOK
<1>5. ASSUME NEW j \in CancelJobs, CancelJob(j, t)
      PROVE  IInv'
  <2>0. j \in Jobs
    BY InputAssumption
  <2>1. PICK d \in AfterExpiry(t) :
           /\ d.rows[j].state \in {"Queued"} \cup Executing
           /\ rows' = [d.rows EXCEPT ![j] = CancelRow(d.rows[j])]
           /\ fleet' = IF d.rows[j].state = "Queued" /\ d.rows[j].held
                       THEN d.fleet + 1 ELSE d.fleet
    BY <1>5, <2>0 DEF CancelJob, Commit
  <2>2. RowsOK(d.rows) /\ d.fleet \in Nat
    BY <1>0, AfterExpiryOK
  <2>3. d.rows[j] \in Row /\ RowOK(d.rows[j])
    BY <2>0, <2>2 DEF RowsOK
  <2>4. RowsOK(rows')
    BY <2>0, <2>1, <2>2, <2>3, CancelRowOK, UpdateOK
  <2> QED BY <2>1, <2>2, <2>4, <1>5 DEF CancelJob, IInv, TypeOK, RowsOK
<1> QED BY <1>1, <1>2, <1>3, <1>4, <1>5 DEF ClientStep

(* Claims, heartbeats, transitions, completions and cleanup receipts, each *)
(* with its expire_leases prefix, keep the invariant.                      *)
LEMMA WorkerStepOK ==
    ASSUME IInv, NEW t \in ClockReads, WorkerStep(t)
    PROVE  IInv'
<1>0. t \in Nat
  BY DEF ClockReads
(* One row of an expired table is replaced, nothing else changes.          *)
<1>1. ASSUME NEW d \in AfterExpiry(t), NEW j \in Jobs, NEW q \in Row,
             RowOK(q), Keeps(d.rows[j], q),
             rows' = [d.rows EXCEPT ![j] = q],
             fleet' \in {d.fleet, d.fleet + 1}, UNCHANGED <<plans, nodes, now>>
      PROVE  IInv'
  <2>1. RowsOK(d.rows) /\ d.fleet \in Nat
    BY <1>0, AfterExpiryOK
  <2>2. RowsOK(rows')
    BY <1>1, <2>1, UpdateOK
  <2> QED BY <2>1, <2>2, <1>1 DEF IInv, TypeOK, RowsOK
<1>2. ASSUME NEW d \in AfterExpiry(t), NEW j \in Jobs
      PROVE  d.rows[j] \in Row /\ RowOK(d.rows[j])
  BY <1>0, AfterExpiryOK DEF RowsOK
<1>3. ASSUME NEW n \in Nodes, ClaimJob(n, t)
      PROVE  IInv'
  <2>1. PICK d \in AfterExpiry(t), j \in Jobs :
           /\ Queueing(d.rows[j], n, t)
           /\ rows' = [d.rows EXCEPT ![j] = ClaimRow(d.rows[j], n, t)]
           /\ fleet' = d.fleet
    BY <1>3 DEF ClaimJob, Commit
  <2>2. /\ ClaimRow(d.rows[j], n, t) \in Row /\ RowOK(ClaimRow(d.rows[j], n, t))
        /\ Keeps(d.rows[j], ClaimRow(d.rows[j], n, t))
    BY <1>0, <1>2, <2>1, ClaimRowOK
  <2> QED BY <1>1, <2>1, <2>2, <1>3 DEF ClaimJob
<1>4. ASSUME NEW j \in Jobs, WorkerHeartbeat(j, t)
      PROVE  IInv'
  <2>1. PICK d \in AfterExpiry(t) :
           /\ rows' = [d.rows EXCEPT ![j] = HeartbeatRow(d.rows[j], t)]
           /\ fleet' = d.fleet
    BY <1>4 DEF WorkerHeartbeat, Commit
  <2>2. /\ HeartbeatRow(d.rows[j], t) \in Row /\ RowOK(HeartbeatRow(d.rows[j], t))
        /\ Keeps(d.rows[j], HeartbeatRow(d.rows[j], t))
    BY <1>0, <1>2, HeartbeatRowOK
  <2> QED BY <1>1, <2>1, <2>2, <1>4 DEF WorkerHeartbeat
<1>5. ASSUME NEW j \in Jobs, NEW next \in {"Running", "Verifying"},
             WorkerTransition(j, next, t)
      PROVE  IInv'
  <2>1. PICK d \in AfterExpiry(t) :
           /\ d.rows[j].claim = "active"
           /\ rows' = [d.rows EXCEPT ![j] = TransitionRow(d.rows[j], next)]
           /\ fleet' = d.fleet
    BY <1>5 DEF WorkerTransition, Authorized, Commit
  <2>2. next \in Executing
    BY DEF Executing
  <2>3. /\ TransitionRow(d.rows[j], next) \in Row
        /\ RowOK(TransitionRow(d.rows[j], next))
        /\ Keeps(d.rows[j], TransitionRow(d.rows[j], next))
    BY <1>2, <2>1, <2>2, TransitionRowOK
  <2> QED BY <1>1, <2>1, <2>3, <1>5 DEF WorkerTransition
<1>6. ASSUME NEW j \in Jobs, NEW final \in Terminal, WorkerComplete(j, final, t)
      PROVE  IInv'
  <2>1. PICK d \in AfterExpiry(t) :
           /\ d.rows[j].claim = "active"
           /\ rows' = [d.rows EXCEPT ![j] = CompleteRow(d.rows[j], final, t)]
           /\ fleet' = d.fleet
    BY <1>6 DEF WorkerComplete, Authorized, Commit
  <2>2. /\ CompleteRow(d.rows[j], final, t) \in Row
        /\ RowOK(CompleteRow(d.rows[j], final, t))
        /\ Keeps(d.rows[j], CompleteRow(d.rows[j], final, t))
    BY <1>0, <1>2, <2>1, CompleteRowOK
  <2> QED BY <1>1, <2>1, <2>2, <1>6 DEF WorkerComplete
<1>7. ASSUME NEW j \in Jobs, NEW o \in {"removed", "not_created"},
             RecordCleanup(j, o, t)
      PROVE  IInv'
  <2>1. PICK d \in AfterExpiry(t) :
           /\ d.rows[j].obligation # "none"
           /\ rows' = [d.rows EXCEPT ![j] = ReceiptRow(d.rows[j], o)]
           /\ fleet' \in {d.fleet, d.fleet + 1}
    BY <1>7 DEF RecordCleanup, Commit
  <2>2. /\ ReceiptRow(d.rows[j], o) \in Row /\ RowOK(ReceiptRow(d.rows[j], o))
        /\ Keeps(d.rows[j], ReceiptRow(d.rows[j], o))
    BY <1>2, <2>1, ReceiptRowOK
  <2> QED BY <1>1, <2>1, <2>2, <1>7 DEF RecordCleanup
<1> QED BY <1>3, <1>4, <1>5, <1>6, <1>7 DEF WorkerStep

(* Reports, reconfiguration, stale telemetry and revocation keep it; a     *)
(* report dispatches a second time, with the new node state.               *)
LEMMA NodeStepOK ==
    ASSUME IInv, NodeStep
    PROVE  IInv'
<1>1. ASSUME NEW n \in Nodes, NEW t \in ClockReads, NEW ok \in BOOLEAN,
             NEW changed \in BOOLEAN, NodeReport(n, ok, changed, t)
      PROVE  IInv'
  <2>0. t \in Nat
    BY DEF ClockReads
  <2>1. PICK d \in AfterExpiry(t) :
          \E e \in RedispatchOutcomes(d.rows,
                     IF changed THEN d.fleet + 1 ELSE d.fleet, nodes', t) :
             rows' = e.rows /\ fleet' = e.fleet
    BY <1>1 DEF NodeReport, Commit
  <2>2. RowsOK(d.rows) /\ Settled(d.rows, t) /\ d.fleet \in Nat
    BY <2>0, AfterExpiryOK
  <2>3. (IF changed THEN d.fleet + 1 ELSE d.fleet) \in Nat
    BY <2>2
  <2>4. RowsOK(rows') /\ fleet' \in Nat
    BY <2>0, <2>1, <2>2, <2>3, RedispatchOK
  <2>5. nodes' \in [Nodes -> NodeRow]
    BY <1>1 DEF NodeReport, IInv, TypeOK, NodeRow
  <2> QED BY <2>4, <2>5, <1>1 DEF NodeReport, IInv, TypeOK, RowsOK
<1>2. ASSUME NEW n \in Nodes, NEW ok \in BOOLEAN, UpdateNodeConfig(n, ok)
      PROVE  IInv'
  <2>1. nodes' \in [Nodes -> NodeRow]
    BY <1>2 DEF UpdateNodeConfig, IInv, TypeOK, NodeRow
  <2> QED BY <2>1, <1>2 DEF UpdateNodeConfig, Commit, IInv, TypeOK
<1>3. ASSUME NEW n \in Nodes, RevokePairing(n) \/ TelemetryStale(n)
      PROVE  IInv'
  <2>1. nodes' \in [Nodes -> NodeRow]
    BY <1>3 DEF RevokePairing, TelemetryStale, IInv, TypeOK, NodeRow
  <2> QED BY <2>1, <1>3 DEF RevokePairing, TelemetryStale, IInv, TypeOK
<1> QED BY <1>1, <1>2, <1>3, InputAssumption DEF NodeStep

(* Every step keeps the invariant.                                         *)
LEMMA NextIInv == IInv /\ [Next]_vars => IInv'
<1> SUFFICES ASSUME IInv, [Next]_vars PROVE IInv'
  OBVIOUS
<1>1. CASE UNCHANGED vars
  BY <1>1 DEF vars, IInv, TypeOK
<1>2. CASE Tick
  BY <1>2 DEF Tick, IInv, TypeOK
<1>3. CASE NodeStep
  BY <1>3, NodeStepOK
<1>4. CASE \E t \in ClockReads : (ClientStep(t) \/ WorkerStep(t))
  BY <1>4, ClientStepOK, WorkerStepOK
<1> QED BY <1>1, <1>2, <1>3, <1>4 DEF Next

(* The inductive invariant holds in every reachable state of the store.    *)
THEOREM Invariance == Spec => []IInv
BY InitIInv, NextIInv, PTL DEF Spec

(* The tables keep their types.                                            *)
THEOREM TypeCorrect == Spec => []TypeOK
<1>1. IInv => TypeOK
  BY DEF IInv
<1> QED BY <1>1, Invariance, PTL

(* At most one unreleased reservation per worker node, for any number of   *)
(* jobs and nodes and however stale the clock readings.                    *)
THEOREM CapacitySafe == Spec => []NoOversell
<1>1. IInv => NoOversell
  BY DEF IInv, RowsOK, Disjoint, NoOversell
<1> QED BY <1>1, Invariance, PTL

(* Run, claim, lease, binding and cleanup obligation of a job always tell  *)
(* one story, whatever operations write them in which order.               *)
THEOREM OwnershipConsistent ==
    Spec => []RowsAgree
<1>1. IInv => RowsAgree
  BY DEF IInv, RowsOK, RowOK, RowsAgree, ExecutionOwned, DispatchFresh, CleanupProvable
<1> QED BY <1>1, Invariance, PTL
=============================================================================

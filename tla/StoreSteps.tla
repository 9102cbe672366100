----------------------------- MODULE StoreSteps -----------------------------
(***************************************************************************)
(* What one transaction of CycStore may do, for any number of jobs, nodes  *)
(* and plans: the action properties of the store, the freshness of plans,  *)
(* and the refinement of RunLifecycle.                                     *)
(*                                                                         *)
(* A transaction is an expire_leases prefix (reap, expire, re-dispatch),   *)
(* for a node report a second re-dispatch, and then the operation itself   *)
(* on at most one row.  Housekept is what any number of prefixes may do to *)
(* a row, Operated what an operation may do to it; every property of steps *)
(* is read off their composition.                                          *)
(***************************************************************************)
EXTENDS StoreProofs

(* What no change of an accepted run touches: who is bound to it, how many *)
(* placements it had, and who claimed it.                                  *)
SameAuthority(r, q) ==
    q.binding = r.binding /\ q.attempt = r.attempt /\ q.claimNode = r.claimNode

SameVisible(r, q) ==
    q.state = r.state /\ q.node = r.node /\ q.cancelRequested = r.cancelRequested

(* What expire_leases and redispatch_queued_jobs make of a row: a queued   *)
(* run may be withdrawn, placed or explained under a new version, an       *)
(* execution may fail, a cleanup reservation may be given up when due.     *)
Housekept(r, q, t) ==
    \/ q = r
    \/ /\ r.state = "Queued" /\ q.state = "Queued" /\ q.version > r.version
       /\ q.attempt >= r.attempt
       /\ q.binding # r.binding => q.attempt > r.attempt
    \/ /\ r.state \in Executing /\ q.state = "Failed" /\ ~q.held
       /\ q.version > r.version /\ SameAuthority(r, q)
    \/ /\ r.state \in Terminal /\ r.held /\ ~q.held /\ r.leaseUntil <= t
       /\ SameVisible(r, q) /\ q.version = r.version /\ SameAuthority(r, q)

(* What the operation proper makes of a row: submission, cancellation or   *)
(* claim of a queued run, an update or the completion of an executing one, *)
(* a cleanup receipt.                                                      *)
Operated(r, q) ==
    \/ q = r
    \/ r.state = "absent" /\ q.state = "Queued" /\ q.held /\ q.attempt > 0
    \/ /\ r.state = "Queued" /\ q.state = "Cancelled" /\ ~q.held
       /\ q.version > r.version /\ SameAuthority(r, q)
    \/ /\ r.state = "Queued" /\ q.state = "Preparing" /\ q.version > r.version
       /\ q.binding = r.binding /\ q.attempt = r.attempt
    \/ /\ r.state \in Executing /\ q.state \in Executing
       /\ q.leaseNode = r.leaseNode /\ q.version >= r.version
       /\ SameVisible(r, q) \/ q.version > r.version
       /\ SameAuthority(r, q)
    \/ /\ r.state \in Executing /\ q.state \in Terminal /\ q.held
       /\ q.leaseNode = r.leaseNode /\ q.version > r.version
       /\ SameAuthority(r, q)
    \/ /\ r.state \in Terminal /\ SameVisible(r, q) /\ q.version = r.version
       /\ SameAuthority(r, q)
       /\ q.held => r.held /\ q.leaseNode = r.leaseNode
       /\ r.held /\ ~q.held => q.receipt = "removed"

SameLease(r, q) ==
    (q.held <=> r.held) /\ (r.held => q.leaseNode = r.leaseNode)

(* The fleet revision never falls, and where it stays no reservation       *)
(* appeared, moved or disappeared.                                         *)
FleetStep(rs, fl, qs, gl) ==
    /\ gl >= fl
    /\ gl = fl => \A j \in Jobs : SameLease(rs[j], qs[j])

(* A job without a row has the blank one.                                  *)
AbsentBlank == \A j \in Jobs : rows[j].state = "absent" => rows[j] = NoRow

(* One transaction, seen from one row and from the fleet revision.         *)
RowShape(r, q) ==
    \E p \in Row : RowOK(p) /\ Housekept(r, p, now) /\ Operated(p, q)

(* The conclusion of WaitingServedFirst, for one step.                     *)
Served ==
    \A j, k \in Jobs :
        (/\ rows[j].state = "absent" /\ rows'[j].state = "Queued"
         /\ rows'[k].state = "Queued" /\ ~rows'[k].held)
           => rows'[j].leaseNode \notin CanRun[k]

StepShape ==
    /\ \A j \in Jobs : RowShape(rows[j], rows'[j])
    /\ FleetStep(rows, fleet, rows', fleet')
    /\ Served

Free(rs, n) == \A j \in Jobs : ~(rs[j].held /\ rs[j].leaseNode = n)

(* A plan is the one it was, or it was made in this step for a node that   *)
(* is free and has the recorded revision.                                  *)
PlanShape(p) ==
    LET old == plans[p]
        new == plans'[p]
    IN  \/ /\ new.job = old.job /\ new.node = old.node
           /\ new.fleet = old.fleet /\ new.rev = old.rev
        \/ /\ new.fleet = fleet' /\ new.node \in Nodes
           /\ new.rev = nodes'[new.node].rev /\ Free(rows', new.node)

(* Plans and the node revisions they were made for.                        *)
PlanStep ==
    /\ \A p \in PlanIds : PlanShape(p)
    /\ fleet' = fleet => \A n \in Nodes : nodes'[n].rev = nodes[n].rev

-----------------------------------------------------------------------------
(* The prefix.                                                             *)

(* Housekeeping twice is housekeeping.                                     *)
LEMMA HousekeptTwice ==
    ASSUME NEW r \in Row, NEW q \in Row, NEW p \in Row, NEW t \in Nat,
           Housekept(r, q, t), Housekept(q, p, t)
    PROVE  Housekept(r, p, t)
<1>1. /\ r.version \in Nat /\ q.version \in Nat /\ p.version \in Nat
      /\ r.attempt \in Nat /\ q.attempt \in Nat /\ p.attempt \in Nat
  BY DEF Row
<1> QED BY <1>1 DEF Housekept, SameAuthority, SameVisible, Executing, Terminal

(* The fleet revision over two changes.                                    *)
LEMMA FleetTwice ==
    ASSUME NEW rs, NEW qs, NEW ps, NEW fl \in Nat, NEW gl \in Nat,
           NEW hl \in Nat, FleetStep(rs, fl, qs, gl), FleetStep(qs, gl, ps, hl)
    PROVE  FleetStep(rs, fl, ps, hl)
BY DEF FleetStep, SameLease

(* reap_expired_cleanup_reservations_tx and the expiry of one lease.       *)
LEMMA ExpireHousekept ==
    ASSUME NEW r \in Row, NEW t \in Nat, RowOK(r)
    PROVE  LET q == ExpireLease(ReapCleanup(r, t), t)
           IN  Housekept(r, q, t) /\ (q.held => SameLease(r, q))
<1> DEFINE p == ReapCleanup(r, t)
           q == ExpireLease(p, t)
<1>0. r.version \in Nat /\ r.version + 1 > r.version
      /\ r.attempt \in Nat /\ r.attempt >= r.attempt
  BY DEF Row
<1>1. CASE r.obligation = "held" /\ r.leaseUntil <= t
  <2>1. ProvenTerminal(r)
    BY <1>1 DEF RowOK, ProvableCleanup
  <2>2. p = [r EXCEPT !.held = FALSE, !.obligation = "deadline_recovery",
                      !.cleanupFailure = TRUE]
    BY <1>1, <2>1 DEF ReapCleanup, ReleaseLease, Row
  <2>3. p.held = FALSE
    BY <2>2 DEF Row
  <2>4. q = [r EXCEPT !.held = FALSE, !.obligation = "deadline_recovery",
                      !.cleanupFailure = TRUE]
    BY <2>2, <2>3 DEF ExpireLease, LeaseExpired
  <2>5. /\ q.held = FALSE /\ q.state = r.state /\ q.node = r.node
        /\ q.cancelRequested = r.cancelRequested /\ q.version = r.version
        /\ q.binding = r.binding /\ q.attempt = r.attempt
        /\ q.claimNode = r.claimNode
    BY <2>4 DEF Row
  <2> QED BY <1>1, <2>1, <2>5 DEF Housekept, ProvenTerminal, SameVisible,
                                  SameAuthority
<1>2. CASE ~(r.obligation = "held" /\ r.leaseUntil <= t)
  <2>1. p = r
    BY <1>2 DEF ReapCleanup
  <2>2. CASE ~LeaseExpired(r, t)
    BY <2>1, <2>2 DEF ExpireLease, Housekept, SameLease
  <2>3. CASE LeaseExpired(r, t) /\ r.state = "Queued"
    <3>1. q = [r EXCEPT !.node = NoNode, !.explained = FALSE,
                        !.version = r.version + 1, !.held = FALSE]
      BY <2>1, <2>3 DEF ExpireLease, ExpireRun, RevokeClaim, ReleaseLease,
                        Row, RowOK, FreshDispatch
    <3>2. q.state = r.state /\ q.held = FALSE /\ q.version = r.version + 1
          /\ q.attempt = r.attempt /\ q.binding = r.binding
      BY <3>1 DEF Row
    <3> QED BY <1>0, <2>3, <3>2 DEF Housekept
  <2>4. CASE LeaseExpired(r, t) /\ r.state # "Queued"
    <3>0. r.state \in Executing /\ r.claim = "active" /\ r.phase = "execution"
      BY <2>4 DEF RowOK, PhaseFollowsState, LeaseExpired, OwnsExecution
    <3>1. q = [r EXCEPT !.state = "Failed", !.version = r.version + 1,
                        !.claim = "revoked", !.held = FALSE]
      BY <2>1, <2>4, <3>0 DEF ExpireLease, ExpireRun, RevokeClaim,
                              ReleaseLease, Row, Executing, Terminal
    <3>2. q.state = "Failed" /\ q.held = FALSE /\ q.version = r.version + 1
          /\ q.attempt = r.attempt /\ q.binding = r.binding
          /\ q.claimNode = r.claimNode
      BY <3>1 DEF Row
    <3> QED BY <1>0, <3>0, <3>2 DEF Housekept, SameAuthority
  <2> QED BY <2>2, <2>3, <2>4
<1> QED BY <1>1, <1>2

(* Placing a waiting job is housekeeping.                                  *)
LEMMA PlaceHousekept ==
    ASSUME NEW r \in Row, NEW n \in Nodes, NEW t \in Nat, r.state = "Queued"
    PROVE  /\ Housekept(r, Rearm(r, n, t), t)
           /\ Rearm(r, n, t).held
<1> DEFINE q == Rearm(r, n, t)
<1>1. /\ q.state = r.state /\ q.version = r.version + 1
      /\ q.attempt = r.attempt + 1 /\ q.held = TRUE
  BY DEF Rearm, Row
<1>2. r.version \in Nat /\ r.attempt \in Nat
  BY DEF Row
<1> QED BY <1>1, <1>2 DEF Housekept

(* So is explaining one, which reserves nothing.                           *)
LEMMA ExplainHousekept ==
    ASSUME NEW r \in Row, NEW c \in BOOLEAN, NEW t \in Nat, r.state = "Queued"
    PROVE  /\ Housekept(r, Explain(r, c), t)
           /\ SameLease(r, Explain(r, c))
<1> DEFINE q == Explain(r, c)
<1>1. CASE q = r
  BY <1>1 DEF Housekept, SameLease
<1>2. CASE q = [r EXCEPT !.node = NoNode, !.explained = TRUE,
                         !.version = r.version + 1]
  <2>1. /\ q.state = r.state /\ q.version = r.version + 1
        /\ q.attempt = r.attempt /\ q.binding = r.binding
        /\ q.held = r.held /\ q.leaseNode = r.leaseNode
    BY <1>2 DEF Row
  <2>2. r.version \in Nat /\ r.attempt \in Nat
    BY DEF Row
  <2> QED BY <2>1, <2>2 DEF Housekept, SameLease
<1> QED BY <1>1, <1>2 DEF Explain

(* redispatch_queued_jobs keeps house, raises the fleet revision when it   *)
(* places a job, and leaves no job waiting for a node that stayed free.    *)
LEMMA RedispatchHousekept ==
    ASSUME NEW rs, RowsOK(rs), NEW t \in Nat, Settled(rs, t), NEW fl \in Nat,
           NEW ns, NEW d \in RedispatchOutcomes(rs, fl, ns, t)
    PROVE  /\ \A j \in Jobs : Housekept(rs[j], d.rows[j], t)
           /\ FleetStep(rs, fl, d.rows, d.fleet)
           /\ \A k \in Jobs : \A n \in Eligible(d.rows, ns, t) :
                 d.rows[k].state = "Queued" /\ ~d.rows[k].held
                    => n \notin CanRun[k]
<1>1. PICK f \in Placements(rs, ns, t), changed \in SUBSET Reexplainable(rs, t) :
         /\ d.rows = Redispatch(rs, f, changed, t)
         /\ d.fleet = IF \E j \in DOMAIN f : f[j] # NoNode
                      THEN fl + 1 ELSE fl
  BY DEF RedispatchOutcomes
<1> DEFINE queued == Undispatched(rs, t)
           es == Redispatch(rs, f, changed, t)
<1>2. f \in [queued -> Nodes \cup {NoNode}] /\ DOMAIN f = queued
  BY DEF Placements
<1>3. ASSUME NEW j \in queued
      PROVE  /\ j \in Jobs /\ rs[j] \in Row /\ rs[j].state = "Queued"
             /\ ~rs[j].held
  BY UndispatchedWaits
<1>4. ASSUME NEW j \in queued, f[j] # NoNode
      PROVE  /\ f[j] \in Nodes
             /\ Housekept(rs[j], es[j], t) /\ es[j].held
             /\ es[j].leaseNode = f[j] /\ es[j].leaseUntil > t
  <2>1. es[j] = Rearm(rs[j], f[j], t)
    BY <1>2, <1>3, <1>4 DEF Redispatch
  <2>2. f[j] \in Nodes
    BY <1>2, <1>4
  <2>3. Housekept(rs[j], es[j], t) /\ es[j].held
    BY <1>3, <2>1, <2>2, PlaceHousekept
  <2>4. RowOK(rs[j])
    BY UndispatchedWaits
  <2> QED BY <1>3, <2>1, <2>2, <2>3, <2>4, RearmOK
<1>5. ASSUME NEW j \in queued, f[j] = NoNode
      PROVE  Housekept(rs[j], es[j], t) /\ SameLease(rs[j], es[j])
  <2>1. es[j] = Explain(rs[j], j \in changed)
    BY <1>2, <1>3, <1>5 DEF Redispatch
  <2>2. (j \in changed) \in BOOLEAN
    OBVIOUS
  <2> QED BY <1>3, <2>1, <2>2, ExplainHousekept
<1>6. ASSUME NEW j \in Jobs, j \notin queued
      PROVE  es[j] = rs[j]
  BY <1>2, <1>6 DEF Redispatch
<1> HIDE DEF es
<1>7. \A j \in Jobs : Housekept(rs[j], es[j], t)
  BY <1>4, <1>5, <1>6 DEF Housekept
<1>8. FleetStep(rs, fl, es, d.fleet)
  <2>1. CASE \E j \in DOMAIN f : f[j] # NoNode
    BY <1>1, <2>1 DEF FleetStep
  <2>2. CASE \A j \in queued : f[j] = NoNode
    <3>1. d.fleet = fl
      BY <1>1, <1>2, <2>2
    <3>2. \A j \in Jobs : SameLease(rs[j], es[j])
      BY <1>5, <1>6, <2>2 DEF SameLease
    <3> QED BY <3>1, <3>2 DEF FleetStep
  <2> QED BY <1>2, <2>1, <2>2
<1>9. ASSUME NEW k \in Jobs, NEW n \in Eligible(es, ns, t), n \in CanRun[k],
             es[k].state = "Queued", ~es[k].held
      PROVE  FALSE
  <2>1. k \in queued
    <3> SUFFICES ASSUME k \notin queued PROVE FALSE
      OBVIOUS
    <3>1. rs[k] = es[k]
      BY <1>6
    <3>2. ~rs[k].cancelRequested
      BY <3>1, <1>9 DEF RowsOK, RowOK, FreshDispatch
    <3> QED BY <3>1, <3>2, <1>9 DEF Undispatched, RedispatchReads
  <2>2. f[k] = NoNode
    BY <2>1, <1>4, <1>9
  <2>3. n \in Nodes /\ n \in Eligible(rs, ns, t)
    <3>1. n \in Nodes /\ ns[n].available /\ ns[n].paired
      BY <1>9 DEF Eligible
    <3>2. ASSUME NEW j \in Jobs, Reserves(rs[j], n, t)
          PROVE  FALSE
      <4>1. j \notin queued
        BY <1>3, <3>2 DEF Reserves
      <4>2. Reserves(es[j], n, t)
        BY <4>1, <1>6, <3>2
      <4> QED BY <4>2, <1>9 DEF Eligible
    <3> QED BY <3>1, <3>2 DEF Eligible
  <2>4. PICK m \in queued : f[m] = n
    BY <2>1, <2>2, <2>3, <1>9 DEF Placements
  <2>5. m \in Jobs /\ Reserves(es[m], n, t)
    BY <2>3, <2>4, <1>3, <1>4, NullAssumption DEF Reserves
  <2> QED BY <2>5, <1>9 DEF Eligible
<1> QED BY <1>1, <1>7, <1>8, <1>9 DEF es

(* A set of released runs that is not empty raises the fleet revision.     *)
LEMMA ExpireFleet ==
    ASSUME NEW rs, RowsOK(rs), NEW t \in Nat, NEW fl \in Nat
    PROVE  LET es == ExpireRows(rs, t)
               gl == fl + Cardinality(Released(rs, es))
           IN  /\ \A j \in Jobs : Housekept(rs[j], es[j], t)
               /\ gl \in Nat /\ FleetStep(rs, fl, es, gl)
<1> DEFINE es == ExpireRows(rs, t)
           gone == Released(rs, es)
           gl == fl + Cardinality(gone)
<1>1. ASSUME NEW j \in Jobs
      PROVE  Housekept(rs[j], es[j], t) /\ (es[j].held => SameLease(rs[j], es[j]))
  <2>1. es[j] = ExpireLease(ReapCleanup(rs[j], t), t)
    BY DEF ExpireRows
  <2>2. rs[j] \in Row /\ RowOK(rs[j])
    BY DEF RowsOK
  <2> QED BY <2>1, <2>2, ExpireHousekept
<1> HIDE DEF es
<1>2. IsFiniteSet(gone)
  <2>1. gone \subseteq Jobs
    BY DEF Released
  <2> QED BY <2>1, FiniteAssumption, FS_Subset
<1>3. Cardinality(gone) \in Nat /\ (Cardinality(gone) = 0 => gone = {})
  BY <1>2, FS_CardinalityType, FS_EmptySet
<1>4. gl \in Nat /\ gl >= fl /\ (gl = fl => gone = {})
  BY <1>3
<1>5. gone = {} => \A j \in Jobs : SameLease(rs[j], es[j])
  BY <1>1 DEF Released, SameLease
<1>6. FleetStep(rs, fl, es, gl)
  BY <1>4, <1>5 DEF FleetStep
<1> QED BY <1>1, <1>4, <1>6 DEF es

(* The whole expire_leases prefix.                                         *)
LEMMA PrefixShape ==
    ASSUME IInv, NEW t \in Nat, NEW d \in AfterExpiry(t)
    PROVE  /\ \A j \in Jobs : Housekept(rows[j], d.rows[j], t)
           /\ FleetStep(rows, fleet, d.rows, d.fleet)
           /\ \A k \in Jobs : \A n \in Eligible(d.rows, nodes, t) :
                 d.rows[k].state = "Queued" /\ ~d.rows[k].held
                    => n \notin CanRun[k]
<1> DEFINE es == ExpireRows(rows, t)
           gl == fleet + Cardinality(Released(rows, es))
<1>1. RowsOK(es) /\ Settled(es, t)
  BY ExpireRowsOK DEF IInv
<1>2. fleet \in Nat
  BY DEF IInv, TypeOK
<1>3. /\ \A j \in Jobs : Housekept(rows[j], es[j], t)
      /\ gl \in Nat /\ FleetStep(rows, fleet, es, gl)
  BY <1>2, ExpireFleet DEF IInv
<1>4. d \in RedispatchOutcomes(es, gl, nodes, t)
  BY DEF AfterExpiry
<1>5. RowsOK(d.rows) /\ d.fleet \in Nat
  BY AfterExpiryOK
<1> HIDE DEF es, gl
<1>6. /\ \A j \in Jobs : Housekept(es[j], d.rows[j], t)
      /\ FleetStep(es, gl, d.rows, d.fleet)
      /\ \A k \in Jobs : \A n \in Eligible(d.rows, nodes, t) :
            d.rows[k].state = "Queued" /\ ~d.rows[k].held => n \notin CanRun[k]
  BY <1>1, <1>3, <1>4, RedispatchHousekept
<1>7. \A j \in Jobs : rows[j] \in Row /\ es[j] \in Row /\ d.rows[j] \in Row
  BY <1>1, <1>5 DEF IInv, RowsOK
<1>8. \A j \in Jobs : Housekept(rows[j], d.rows[j], t)
  BY <1>3, <1>6, <1>7, HousekeptTwice
<1>9. FleetStep(rows, fleet, d.rows, d.fleet)
  BY <1>2, <1>3, <1>5, <1>6, FleetTwice
<1> QED BY <1>6, <1>8, <1>9

-----------------------------------------------------------------------------
(* Operations.                                                             *)

(* A due reservation stays due.                                            *)
LEMMA HousekeptLater ==
    ASSUME NEW r \in Row, NEW q, NEW t \in Nat, NEW u \in Nat, t <= u,
           Housekept(r, q, t)
    PROVE  Housekept(r, q, u)
<1>1. r.leaseUntil \in Nat
  BY DEF Row
<1> QED BY <1>1 DEF Housekept

(* An operation on one row after its expire_leases prefix.                 *)
LEMMA OneRowShape ==
    ASSUME IInv, NEW t \in ClockReads, NEW d \in AfterExpiry(t),
           NEW j \in Jobs, NEW q, Operated(d.rows[j], q),
           rows' = [d.rows EXCEPT ![j] = q],
           fleet' \in Nat, fleet' >= d.fleet,
           fleet' = d.fleet => SameLease(d.rows[j], q),
           d.rows[j].state = "absent" /\ q.state = "Queued"
              => q.leaseNode \in Eligible(d.rows, nodes, t)
    PROVE  StepShape
<1>0. t \in Nat /\ now \in Nat /\ t <= now /\ fleet \in Nat
  BY DEF ClockReads, IInv, TypeOK
<1>1. RowsOK(d.rows) /\ d.fleet \in Nat
  BY <1>0, AfterExpiryOK
<1>2. /\ \A k \in Jobs : Housekept(rows[k], d.rows[k], t)
      /\ FleetStep(rows, fleet, d.rows, d.fleet)
      /\ \A k \in Jobs : \A n \in Eligible(d.rows, nodes, t) :
            d.rows[k].state = "Queued" /\ ~d.rows[k].held => n \notin CanRun[k]
  BY <1>0, PrefixShape
<1>3. \A k \in Jobs : rows[k] \in Row /\ d.rows[k] \in Row /\ RowOK(d.rows[k])
  BY <1>1 DEF IInv, RowsOK
<1>4. \A k \in Jobs : rows'[k] = IF k = j THEN q ELSE d.rows[k]
  BY <1>1 DEF RowsOK
<1>5. ASSUME NEW k \in Jobs
      PROVE  RowShape(rows[k], rows'[k])
  <2>1. Housekept(rows[k], d.rows[k], now)
    BY <1>0, <1>2, <1>3, HousekeptLater
  <2>2. Operated(d.rows[k], rows'[k])
    BY <1>4 DEF Operated
  <2> QED BY <1>3, <2>1, <2>2 DEF RowShape
<1>6. FleetStep(d.rows, d.fleet, rows', fleet')
  <2>1. fleet' = d.fleet => \A k \in Jobs : SameLease(d.rows[k], rows'[k])
    BY <1>4 DEF SameLease
  <2> QED BY <2>1 DEF FleetStep
<1>7. FleetStep(rows, fleet, rows', fleet')
  BY <1>0, <1>1, <1>2, <1>6, FleetTwice
<1>8. ASSUME NEW a \in Jobs, NEW k \in Jobs,
             rows[a].state = "absent", rows'[a].state = "Queued",
             rows'[k].state = "Queued", ~rows'[k].held
      PROVE  rows'[a].leaseNode \notin CanRun[k]
  <2>1. d.rows[a].state = "absent"
    BY <1>2, <1>8 DEF Housekept, Executing, Terminal
  <2>2. a = j
    BY <1>4, <1>8, <2>1
  <2>3. q.held
    BY <1>4, <1>8, <2>1, <2>2 DEF Operated, Executing, Terminal
  <2>4. k # j /\ rows'[k] = d.rows[k]
    BY <1>4, <1>8, <2>3
  <2> QED BY <1>2, <1>4, <1>8, <2>1, <2>2, <2>4
<1> QED BY <1>5, <1>7, <1>8 DEF StepShape, Served

(* submit_job.                                                             *)
LEMMA NewOperated ==
    ASSUME NEW r, NEW n, NEW t, r.state = "absent"
    PROVE  Operated(r, NewRow(n, t))
<1> DEFINE q == NewRow(n, t)
<1>1. q.state = "Queued" /\ q.held = TRUE /\ q.attempt = 1
  BY DEF NewRow, NoRow
<1> QED BY <1>1 DEF Operated

(* cancel_job: only a queued run loses its reservation.                    *)
LEMMA CancelOperated ==
    ASSUME NEW r \in Row, r.state \in {"Queued"} \cup Executing
    PROVE  /\ Operated(r, CancelRow(r))
           /\ ~(r.state = "Queued" /\ r.held) => SameLease(r, CancelRow(r))
<1> DEFINE q == CancelRow(r)
<1>0. r.version \in Nat
  BY DEF Row
<1>1. CASE r.state = "Queued"
  <2>1. q = [r EXCEPT !.held = FALSE, !.state = "Cancelled",
                      !.version = r.version + 1]
    BY <1>1 DEF CancelRow, ReleaseLease, Row
  <2>2. /\ q.held = FALSE /\ q.state = "Cancelled" /\ q.version = r.version + 1
        /\ q.binding = r.binding /\ q.attempt = r.attempt
        /\ q.claimNode = r.claimNode
    BY <2>1 DEF Row
  <2> QED BY <1>0, <1>1, <2>2 DEF Operated, SameAuthority, SameLease
<1>2. CASE r.state \in Executing /\ ~r.cancelRequested
  <2>1. q = [r EXCEPT !.cancelRequested = TRUE, !.version = r.version + 1]
    BY <1>2 DEF CancelRow, Executing
  <2>2. /\ q.held = r.held /\ q.leaseNode = r.leaseNode /\ q.state = r.state
        /\ q.version = r.version + 1 /\ q.binding = r.binding
        /\ q.attempt = r.attempt /\ q.claimNode = r.claimNode
    BY <2>1 DEF Row
  <2> QED BY <1>0, <1>2, <2>2 DEF Operated, SameAuthority, SameLease
<1>3. CASE r.state \in Executing /\ r.cancelRequested
  <2>1. q = r
    BY <1>3 DEF CancelRow, Executing
  <2> QED BY <2>1 DEF Operated, SameLease
<1> QED BY <1>1, <1>2, <1>3

(* claim_job.                                                              *)
LEMMA ClaimOperated ==
    ASSUME NEW r \in Row, NEW n, NEW t, r.state = "Queued"
    PROVE  Operated(r, ClaimRow(r, n, t)) /\ SameLease(r, ClaimRow(r, n, t))
<1> DEFINE q == ClaimRow(r, n, t)
<1>1. /\ q.state = "Preparing" /\ q.version = r.version + 1
      /\ q.binding = r.binding /\ q.attempt = r.attempt
      /\ q.held = r.held /\ q.leaseNode = r.leaseNode
  BY DEF ClaimRow, Row
<1>2. r.version \in Nat
  BY DEF Row
<1> QED BY <1>1, <1>2 DEF Operated, SameLease

(* worker_heartbeat.                                                       *)
LEMMA HeartbeatOperated ==
    ASSUME NEW r \in Row, NEW t, r.state \in Executing
    PROVE  Operated(r, HeartbeatRow(r, t)) /\ SameLease(r, HeartbeatRow(r, t))
<1> DEFINE q == HeartbeatRow(r, t)
<1>1. /\ q.held = r.held /\ q.state = r.state /\ q.node = r.node
      /\ q.leaseNode = r.leaseNode /\ q.cancelRequested = r.cancelRequested
      /\ q.version = r.version /\ q.binding = r.binding
      /\ q.attempt = r.attempt /\ q.claimNode = r.claimNode
  BY DEF HeartbeatRow, Row
<1>2. r.version \in Nat
  BY DEF Row
<1> QED BY <1>1, <1>2 DEF Operated, SameVisible, SameAuthority, SameLease

(* worker_transition.                                                      *)
LEMMA TransitionOperated ==
    ASSUME NEW r \in Row, NEW next \in Executing, r.state \in Executing
    PROVE  /\ Operated(r, TransitionRow(r, next))
           /\ SameLease(r, TransitionRow(r, next))
<1> DEFINE q == TransitionRow(r, next)
<1>1. /\ q.held = r.held /\ q.state = next /\ q.leaseNode = r.leaseNode
      /\ q.version = r.version + 1 /\ q.binding = r.binding
      /\ q.attempt = r.attempt /\ q.claimNode = r.claimNode
  BY DEF TransitionRow, Row
<1>2. r.version \in Nat
  BY DEF Row
<1> QED BY <1>1, <1>2 DEF Operated, SameAuthority, SameLease

(* worker_complete_managed: the lease stays, as a cleanup reservation.     *)
LEMMA CompleteOperated ==
    ASSUME NEW r \in Row, NEW final \in Terminal, NEW t, r.state \in Executing,
           r.held
    PROVE  /\ Operated(r, CompleteRow(r, final, t))
           /\ SameLease(r, CompleteRow(r, final, t))
<1> DEFINE q == CompleteRow(r, final, t)
           p == RevokeClaim(r)
<1>1. /\ p \in Row /\ p.held = r.held /\ p.leaseNode = r.leaseNode
      /\ p.version = r.version /\ p.binding = r.binding
      /\ p.attempt = r.attempt /\ p.claimNode = r.claimNode
  BY DEF RevokeClaim, Row
<1>2. q = [p EXCEPT !.state = final, !.version = p.version + 1,
                    !.obligation = "held", !.obligationVersion = r.version + 1,
                    !.obligationState = final, !.phase = "cleanup_pending",
                    !.leaseUntil = t + CleanupTTL]
  BY <1>1 DEF CompleteRow, Row
<1> HIDE DEF p, q
<1>3. /\ q.state = final /\ q.version = p.version + 1 /\ q.held = p.held
      /\ q.leaseNode = p.leaseNode /\ q.binding = p.binding
      /\ q.attempt = p.attempt /\ q.claimNode = p.claimNode
  BY <1>1, <1>2 DEF Row
<1>4. r.version \in Nat
  BY DEF Row
<1>5. Operated(r, q) /\ SameLease(r, q)
  BY <1>1, <1>3, <1>4 DEF Operated, SameAuthority, SameLease
<1> QED BY <1>5 DEF q

(* record_cleanup: a reservation goes only with a "removed" receipt.       *)
LEMMA ReceiptOperated ==
    ASSUME NEW r \in Row, NEW o \in {"removed", "not_created"},
           r.state \in Terminal
    PROVE  /\ Operated(r, ReceiptRow(r, o))
           /\ ~(o = "removed" /\ r.held) => SameLease(r, ReceiptRow(r, o))
<1> DEFINE q == ReceiptRow(r, o)
<1>1. CASE o = "removed"
  <2>1. PICK v : q = [r EXCEPT !.held = FALSE, !.receipt = "removed",
                               !.obligation = v]
    BY <1>1 DEF ReceiptRow, ReleaseLease, Row
  <2>2. /\ q.held = FALSE /\ q.receipt = "removed" /\ q.state = r.state
        /\ q.node = r.node /\ q.cancelRequested = r.cancelRequested
        /\ q.version = r.version /\ q.binding = r.binding
        /\ q.attempt = r.attempt /\ q.claimNode = r.claimNode
    BY <2>1 DEF Row
  <2> QED BY <1>1, <2>2 DEF Operated, SameVisible, SameAuthority, SameLease
<1>2. CASE o = "not_created"
  <2>1. q = [r EXCEPT !.receipt = "not_created"]
    BY <1>2 DEF ReceiptRow
  <2>2. /\ q.held = r.held /\ q.leaseNode = r.leaseNode /\ q.state = r.state
        /\ q.node = r.node /\ q.cancelRequested = r.cancelRequested
        /\ q.version = r.version /\ q.binding = r.binding
        /\ q.attempt = r.attempt /\ q.claimNode = r.claimNode
    BY <2>1 DEF Row
  <2> QED BY <1>2, <2>2 DEF Operated, SameVisible, SameAuthority, SameLease
<1> QED BY <1>1, <1>2

-----------------------------------------------------------------------------
(* Every step has the shape.                                               *)

(* An operation that touches neither plans nor nodes.                      *)
LEMMA PlansKept ==
    ASSUME UNCHANGED <<plans, nodes>>
    PROVE  PlanStep
BY DEF PlanStep, PlanShape

(* A read is its prefix: the operation changes no row.                     *)
LEMMA PrefixOnly ==
    ASSUME IInv, NEW t \in ClockReads, NEW d \in AfterExpiry(t),
           rows' = d.rows, fleet' = d.fleet
    PROVE  StepShape
<1>0. t \in Nat /\ now \in Nat /\ t <= now
  BY DEF ClockReads, IInv, TypeOK
<1>1. RowsOK(d.rows)
  BY <1>0, AfterExpiryOK
<1>2. /\ \A k \in Jobs : Housekept(rows[k], rows'[k], t)
      /\ FleetStep(rows, fleet, rows', fleet')
  BY <1>0, PrefixShape
<1>3. \A k \in Jobs : rows[k] \in Row /\ rows'[k] \in Row /\ RowOK(rows'[k])
  BY <1>1 DEF IInv, RowsOK
<1>4. \A k \in Jobs : RowShape(rows[k], rows'[k])
  <2> TAKE k \in Jobs
  <2>1. Housekept(rows[k], rows'[k], now)
    BY <1>0, <1>2, <1>3, HousekeptLater
  <2>2. Operated(rows'[k], rows'[k])
    BY DEF Operated
  <2> QED BY <1>3, <2>1, <2>2 DEF RowShape
<1>5. Served
  BY <1>2 DEF Served, Housekept, Executing, Terminal
<1> QED BY <1>2, <1>4, <1>5 DEF StepShape

(* The absent row a submission fills was absent after the prefix as well.  *)
LEMMA AbsentStays ==
    ASSUME IInv, NEW t \in Nat, NEW d \in AfterExpiry(t), NEW j \in Jobs,
           rows[j].state = "absent"
    PROVE  d.rows[j].state = "absent"
BY PrefixShape DEF Housekept, Executing, Terminal

(* Operations of clients.                                                  *)
LEMMA ClientShape ==
    ASSUME IInv, NEW t \in ClockReads, ClientStep(t)
    PROVE  StepShape /\ PlanStep
<1>0. t \in Nat
  BY DEF ClockReads
<1>1. CASE ReadJobs(t)
  <2>1. StepShape
    BY <1>1, PrefixOnly DEF ReadJobs, Commit
  <2> QED BY <1>1, <2>1, PlansKept DEF ReadJobs
<1>2. ASSUME NEW d \in AfterExpiry(t), NEW j \in Jobs, NEW n,
             rows[j].state = "absent",
             n \in Eligible(d.rows, nodes, t),
             rows' = [d.rows EXCEPT ![j] = NewRow(n, t)], fleet' = d.fleet + 1
      PROVE  StepShape
  <2>1. d.rows[j].state = "absent"
    BY <1>0, <1>2, AbsentStays
  <2>2. d.fleet \in Nat
    BY <1>0, AfterExpiryOK
  <2>3. Operated(d.rows[j], NewRow(n, t))
    BY <2>1, NewOperated
  <2>4. NewRow(n, t).leaseNode = n
    BY DEF NewRow, NoRow
  <2>5. fleet' \in Nat /\ fleet' >= d.fleet /\ fleet' # d.fleet
    BY <1>2, <2>2
  <2> QED BY <1>2, <2>3, <2>4, <2>5, OneRowShape
<1>3. ASSUME NEW j \in Jobs, SubmitJob(j, t)
      PROVE  StepShape /\ PlanStep
  <2>1. StepShape
    BY <1>2, <1>3 DEF SubmitJob, Commit
  <2> QED BY <1>3, <2>1, PlansKept DEF SubmitJob
<1>4. ASSUME NEW j \in Jobs, NEW p \in PlanIds, CreatePlan(p, j, t)
      PROVE  StepShape /\ PlanStep
  <2>1. PICK d \in AfterExpiry(t), n \in Nodes :
           /\ n \in Eligible(d.rows, nodes, t)
           /\ rows' = d.rows /\ fleet' = d.fleet /\ nodes' = nodes
           /\ plans' = [plans EXCEPT ![p] =
                          [job |-> j, node |-> n, fleet |-> d.fleet,
                           rev |-> nodes[n].rev, expires |-> t + PlanTTL,
                           used |-> FALSE]]
    BY <1>4 DEF CreatePlan, Commit, Eligible
  <2>2. StepShape
    BY <2>1, PrefixOnly
  <2>3. Settled(d.rows, t)
    BY <1>0, AfterExpiryOK
  <2>4. n \in Nodes /\ Free(rows', n)
    BY <2>1, <2>3, EligibleFree DEF Free
  <2>5. plans \in [PlanIds -> Plan]
    BY DEF IInv, TypeOK
  <2>6. ASSUME NEW o \in PlanIds
        PROVE  PlanShape(o)
    <3>1. CASE o # p
      <4>1. plans'[o] = plans[o]
        BY <2>1, <2>5, <3>1
      <4> QED BY <4>1 DEF PlanShape
    <3>2. CASE o = p
      <4>1. plans'[o] = [job |-> j, node |-> n, fleet |-> d.fleet,
                         rev |-> nodes[n].rev, expires |-> t + PlanTTL,
                         used |-> FALSE]
        BY <2>1, <2>5, <3>2
      <4>2. /\ plans'[o].fleet = fleet' /\ plans'[o].node = n
            /\ plans'[o].rev = nodes'[n].rev
        BY <2>1, <4>1
      <4> QED BY <2>4, <4>2 DEF PlanShape
    <3> QED BY <3>1, <3>2
  <2> QED BY <2>1, <2>2, <2>6 DEF PlanStep
<1>5. ASSUME NEW j \in Jobs, NEW p \in PlanIds, SubmitPlanned(j, p, t)
      PROVE  StepShape /\ PlanStep
  <2>1. PICK d \in AfterExpiry(t) :
           /\ plans[p].node \in Eligible(d.rows, nodes, t)
           /\ rows' = [d.rows EXCEPT ![j] = NewRow(plans[p].node, t)]
           /\ fleet' = d.fleet + 1
    BY <1>5 DEF SubmitPlanned, PlanUsable, Commit
  <2>2. StepShape
    BY <1>2, <1>5, <2>1 DEF SubmitPlanned
  <2>3. nodes' = nodes /\ plans' = [plans EXCEPT ![p].used = TRUE]
        /\ plans \in [PlanIds -> Plan]
    BY <1>5 DEF SubmitPlanned, IInv, TypeOK
  <2>4. ASSUME NEW o \in PlanIds
        PROVE  PlanShape(o)
    <3>1. plans[o] \in Plan
      BY <2>3
    <3>2. plans'[o] = plans[o] \/ plans'[o] = [plans[o] EXCEPT !.used = TRUE]
      BY <2>3
    <3>3. /\ plans'[o].job = plans[o].job /\ plans'[o].node = plans[o].node
          /\ plans'[o].fleet = plans[o].fleet /\ plans'[o].rev = plans[o].rev
      BY <3>1, <3>2 DEF Plan
    <3> QED BY <3>3 DEF PlanShape
  <2> QED BY <2>2, <2>3, <2>4 DEF PlanStep
<1>6. ASSUME NEW j \in CancelJobs, CancelJob(j, t)
      PROVE  StepShape /\ PlanStep
  <2>0. j \in Jobs
    BY InputAssumption
  <2>1. PICK d \in AfterExpiry(t) :
           /\ d.rows[j].state \in {"Queued"} \cup Executing
           /\ rows' = [d.rows EXCEPT ![j] = CancelRow(d.rows[j])]
           /\ fleet' = IF d.rows[j].state = "Queued" /\ d.rows[j].held
                       THEN d.fleet + 1 ELSE d.fleet
    BY <1>6, <2>0 DEF CancelJob, Commit
  <2>2. RowsOK(d.rows) /\ d.fleet \in Nat
    BY <1>0, AfterExpiryOK
  <2>3. /\ Operated(d.rows[j], CancelRow(d.rows[j]))
        /\ ~(d.rows[j].state = "Queued" /\ d.rows[j].held)
              => SameLease(d.rows[j], CancelRow(d.rows[j]))
    BY <2>0, <2>1, <2>2, CancelOperated DEF RowsOK
  <2>4. /\ fleet' \in Nat /\ fleet' >= d.fleet
        /\ fleet' = d.fleet => SameLease(d.rows[j], CancelRow(d.rows[j]))
    BY <2>1, <2>2, <2>3
  <2>5. d.rows[j].state # "absent"
    BY <2>1 DEF Executing
  <2>6. StepShape
    BY <2>0, <2>1, <2>3, <2>4, <2>5, OneRowShape
  <2> QED BY <1>6, <2>6, PlansKept DEF CancelJob
<1> QED BY <1>1, <1>3, <1>4, <1>5, <1>6 DEF ClientStep

(* Operations of workers.                                                  *)
LEMMA WorkerShape ==
    ASSUME IInv, AbsentBlank, NEW t \in ClockReads, WorkerStep(t)
    PROVE  StepShape /\ PlanStep
<1>0. t \in Nat
  BY DEF ClockReads
<1>1. ASSUME NEW d \in AfterExpiry(t), NEW j \in Jobs
      PROVE  d.rows[j] \in Row /\ RowOK(d.rows[j]) /\ d.fleet \in Nat
  BY <1>0, AfterExpiryOK DEF RowsOK
(* The fleet revision stays where the reservation does.                    *)
<1>2. ASSUME NEW d \in AfterExpiry(t), NEW j \in Jobs, NEW q,
             Operated(d.rows[j], q), SameLease(d.rows[j], q),
             d.rows[j].state # "absent",
             rows' = [d.rows EXCEPT ![j] = q], fleet' = d.fleet,
             UNCHANGED <<plans, nodes, now>>
      PROVE  StepShape /\ PlanStep
  <2>1. fleet' \in Nat /\ fleet' >= d.fleet
    BY <1>1, <1>2
  <2> QED BY <1>2, <2>1, OneRowShape, PlansKept
<1>3. ASSUME NEW r \in Row, RowOK(r), Authorized(r, t)
      PROVE  r.state \in Executing /\ r.state # "absent" /\ r.held
  BY <1>3 DEF Authorized, RowOK, OwnsExecution, Executing
<1>4. ASSUME NEW n \in Nodes, ClaimJob(n, t)
      PROVE  StepShape /\ PlanStep
  <2>1. PICK d \in AfterExpiry(t), j \in Jobs :
           /\ d.rows[j].state = "Queued"
           /\ rows' = [d.rows EXCEPT ![j] = ClaimRow(d.rows[j], n, t)]
           /\ fleet' = d.fleet
    BY <1>4 DEF ClaimJob, Commit, Queueing
  <2>2. /\ Operated(d.rows[j], ClaimRow(d.rows[j], n, t))
        /\ SameLease(d.rows[j], ClaimRow(d.rows[j], n, t))
    BY <1>1, <2>1, ClaimOperated
  <2> QED BY <1>2, <1>4, <2>1, <2>2 DEF ClaimJob
<1>5. ASSUME NEW j \in Jobs, WorkerHeartbeat(j, t)
      PROVE  StepShape /\ PlanStep
  <2>1. PICK d \in AfterExpiry(t) :
           /\ Authorized(d.rows[j], t)
           /\ rows' = [d.rows EXCEPT ![j] = HeartbeatRow(d.rows[j], t)]
           /\ fleet' = d.fleet
    BY <1>5 DEF WorkerHeartbeat, Commit
  <2>2. /\ Operated(d.rows[j], HeartbeatRow(d.rows[j], t))
        /\ SameLease(d.rows[j], HeartbeatRow(d.rows[j], t))
        /\ d.rows[j].state # "absent"
    BY <1>1, <1>3, <2>1, HeartbeatOperated
  <2> QED BY <1>2, <1>5, <2>1, <2>2 DEF WorkerHeartbeat
<1>6. ASSUME NEW j \in Jobs, NEW next \in {"Running", "Verifying"},
             WorkerTransition(j, next, t)
      PROVE  StepShape /\ PlanStep
  <2>1. PICK d \in AfterExpiry(t) :
           /\ Authorized(d.rows[j], t)
           /\ rows' = [d.rows EXCEPT ![j] = TransitionRow(d.rows[j], next)]
           /\ fleet' = d.fleet
    BY <1>6 DEF WorkerTransition, Commit
  <2>2. next \in Executing
    BY DEF Executing
  <2>3. /\ Operated(d.rows[j], TransitionRow(d.rows[j], next))
        /\ SameLease(d.rows[j], TransitionRow(d.rows[j], next))
        /\ d.rows[j].state # "absent"
    BY <1>1, <1>3, <2>1, <2>2, TransitionOperated
  <2> QED BY <1>2, <1>6, <2>1, <2>3 DEF WorkerTransition
<1>7. ASSUME NEW j \in Jobs, NEW final \in Terminal, WorkerComplete(j, final, t)
      PROVE  StepShape /\ PlanStep
  <2>1. PICK d \in AfterExpiry(t) :
           /\ Authorized(d.rows[j], t)
           /\ rows' = [d.rows EXCEPT ![j] = CompleteRow(d.rows[j], final, t)]
           /\ fleet' = d.fleet
    BY <1>7 DEF WorkerComplete, Commit
  <2>2. /\ Operated(d.rows[j], CompleteRow(d.rows[j], final, t))
        /\ SameLease(d.rows[j], CompleteRow(d.rows[j], final, t))
        /\ d.rows[j].state # "absent"
    BY <1>1, <1>3, <2>1, CompleteOperated
  <2> QED BY <1>2, <1>7, <2>1, <2>2 DEF WorkerComplete
<1>8. ASSUME NEW j \in Jobs, NEW o \in {"removed", "not_created"},
             RecordCleanup(j, o, t)
      PROVE  StepShape /\ PlanStep
  <2>1. PICK d \in AfterExpiry(t) :
           /\ d.rows[j].obligation # "none" /\ AuthorizedReceipt(d.rows[j])
           /\ rows' = [d.rows EXCEPT ![j] = ReceiptRow(d.rows[j], o)]
           /\ fleet' = IF o = "removed" /\ d.rows[j].held
                       THEN d.fleet + 1 ELSE d.fleet
    BY <1>8 DEF RecordCleanup, Commit
  <2>2. d.rows[j] \in Row /\ RowOK(d.rows[j]) /\ d.fleet \in Nat
    BY <1>1
  <2>3. d.rows[j].state # "absent"
    <3>1. Housekept(rows[j], d.rows[j], t)
      BY <1>0, PrefixShape
    <3>2. d.rows[j].state = "absent" => d.rows[j] = NoRow
      BY <3>1 DEF Housekept, AbsentBlank, SameVisible, Terminal
    <3> QED BY <2>1, <3>2 DEF NoRow
  <2>4. d.rows[j].state \in Terminal
    <3>1. d.rows[j].state \in JobStates
      BY <2>2 DEF Row
    <3> QED BY <2>1, <2>2, <2>3, <3>1 DEF JobStates, RowOK, FreshDispatch,
                                          PhaseFollowsState
  <2>5. /\ Operated(d.rows[j], ReceiptRow(d.rows[j], o))
        /\ ~(o = "removed" /\ d.rows[j].held)
              => SameLease(d.rows[j], ReceiptRow(d.rows[j], o))
    BY <2>2, <2>4, ReceiptOperated
  <2>6. /\ fleet' \in Nat /\ fleet' >= d.fleet
        /\ fleet' = d.fleet => SameLease(d.rows[j], ReceiptRow(d.rows[j], o))
    BY <2>1, <2>2, <2>5
  <2>7. StepShape
    BY <2>1, <2>3, <2>5, <2>6, OneRowShape
  <2> QED BY <1>8, <2>7, PlansKept DEF RecordCleanup
<1> QED BY <1>4, <1>5, <1>6, <1>7, <1>8 DEF WorkerStep

(* Reports, with their second re-dispatch, and changes of node state.      *)
LEMMA NodeShape ==
    ASSUME IInv, NodeStep
    PROVE  StepShape /\ PlanStep
<1>0. /\ nodes \in [Nodes -> NodeRow] /\ fleet \in Nat
      /\ \A n \in Nodes : nodes[n].rev \in Nat
  BY DEF IInv, TypeOK, NodeRow
<1>1. ASSUME NEW n \in Nodes, NEW t \in ClockReads, NEW ok \in BOOLEAN,
             NEW changed \in BOOLEAN, NodeReport(n, ok, changed, t)
      PROVE  StepShape /\ PlanStep
  <2>0. t \in Nat /\ now \in Nat /\ t <= now
    BY DEF ClockReads, IInv, TypeOK
  <2>1. PICK d \in AfterExpiry(t) :
          \E e \in RedispatchOutcomes(d.rows,
                     IF changed THEN d.fleet + 1 ELSE d.fleet, nodes', t) :
             rows' = e.rows /\ fleet' = e.fleet
    BY <1>1 DEF NodeReport, Commit
  <2> DEFINE fl == IF changed THEN d.fleet + 1 ELSE d.fleet
  <2>2. PICK e \in RedispatchOutcomes(d.rows, fl, nodes', t) :
          rows' = e.rows /\ fleet' = e.fleet
    BY <2>1
  <2>3. RowsOK(d.rows) /\ Settled(d.rows, t) /\ d.fleet \in Nat /\ fl \in Nat
        /\ (fl = d.fleet => ~changed) /\ fl >= d.fleet
    BY <2>0, AfterExpiryOK
  <2> HIDE DEF fl
  <2>4. RowsOK(rows') /\ fleet' \in Nat
    BY <2>0, <2>2, <2>3, RedispatchOK
  <2>5. /\ \A j \in Jobs : Housekept(rows[j], d.rows[j], t)
        /\ FleetStep(rows, fleet, d.rows, d.fleet)
    BY <2>0, PrefixShape
  <2>6. /\ \A j \in Jobs : Housekept(d.rows[j], rows'[j], t)
        /\ FleetStep(d.rows, fl, rows', fleet')
    BY <2>0, <2>2, <2>3, RedispatchHousekept
  <2>7. \A j \in Jobs : /\ rows[j] \in Row /\ d.rows[j] \in Row
                        /\ rows'[j] \in Row /\ RowOK(rows'[j])
    BY <2>3, <2>4 DEF IInv, RowsOK
  <2>8. \A j \in Jobs : Housekept(rows[j], rows'[j], t)
    BY <2>0, <2>5, <2>6, <2>7, HousekeptTwice
  <2>9. \A j \in Jobs : RowShape(rows[j], rows'[j])
    <3> TAKE j \in Jobs
    <3>1. Housekept(rows[j], rows'[j], now)
      BY <2>0, <2>7, <2>8, HousekeptLater
    <3>2. Operated(rows'[j], rows'[j])
      BY DEF Operated
    <3> QED BY <2>7, <3>1, <3>2 DEF RowShape
  <2>10. FleetStep(rows, fleet, rows', fleet')
    <3>1. FleetStep(d.rows, d.fleet, d.rows, fl)
      BY <2>3 DEF FleetStep, SameLease
    <3>2. FleetStep(rows, fleet, d.rows, fl)
      BY <1>0, <2>3, <2>5, <3>1, FleetTwice
    <3> QED BY <1>0, <2>3, <2>4, <2>6, <3>2, FleetTwice
  <2>11. Served
    BY <2>8 DEF Served, Housekept, Executing, Terminal
  <2>12. fleet' = fleet => ~changed
    BY <1>0, <2>3, <2>4, <2>5, <2>6 DEF FleetStep
  <2>13. ~changed => \A m \in Nodes : nodes'[m].rev = nodes[m].rev
    BY <1>0, <1>1 DEF NodeReport, NodeRow
  <2>14. \A p \in PlanIds : PlanShape(p)
    BY <1>1 DEF NodeReport, PlanShape
  <2> QED BY <2>9, <2>10, <2>11, <2>12, <2>13, <2>14 DEF StepShape, PlanStep
<1>2. ASSUME rows' = rows, plans' = plans,
             \/ fleet' = fleet + 1
             \/ fleet' = fleet /\ \A m \in Nodes : nodes'[m].rev = nodes[m].rev
      PROVE  StepShape /\ PlanStep
  <2>1. \A j \in Jobs : RowShape(rows[j], rows'[j])
    BY <1>2 DEF RowShape, Housekept, Operated, IInv, RowsOK
  <2>2. FleetStep(rows, fleet, rows', fleet')
    BY <1>0, <1>2 DEF FleetStep, SameLease
  <2>3. Served
    BY <1>2 DEF Served
  <2>4. PlanStep
    BY <1>0, <1>2 DEF PlanStep, PlanShape
  <2> QED BY <2>1, <2>2, <2>3, <2>4 DEF StepShape
<1>3. ASSUME NEW n \in Nodes, NEW ok \in BOOLEAN, UpdateNodeConfig(n, ok)
      PROVE  StepShape /\ PlanStep
  BY <1>2, <1>3 DEF UpdateNodeConfig, Commit
<1>4. ASSUME NEW n \in Nodes, RevokePairing(n) \/ TelemetryStale(n)
      PROVE  StepShape /\ PlanStep
  <2>1. \A m \in Nodes : nodes'[m].rev = nodes[m].rev
    BY <1>0, <1>4 DEF RevokePairing, TelemetryStale, NodeRow
  <2> QED BY <1>2, <1>4, <2>1 DEF RevokePairing, TelemetryStale
<1> QED BY <1>1, <1>3, <1>4, InputAssumption DEF NodeStep

(* Every step of the store, or stuttering, has the shape.                  *)
LEMMA NextShape ==
    ASSUME IInv, AbsentBlank, [Next]_vars
    PROVE  StepShape /\ PlanStep
<1>1. CASE rows' = rows /\ plans' = plans /\ nodes' = nodes /\ fleet' = fleet
  <2>0. fleet \in Nat
    BY DEF IInv, TypeOK
  <2>1. \A j \in Jobs : RowShape(rows[j], rows'[j])
    BY <1>1 DEF RowShape, Housekept, Operated, IInv, RowsOK
  <2>2. FleetStep(rows, fleet, rows', fleet') /\ Served
    BY <2>0, <1>1 DEF FleetStep, SameLease, Served
  <2> QED BY <1>1, <2>1, <2>2, PlansKept DEF StepShape
<1>2. CASE NodeStep
  BY <1>2, NodeShape
<1>3. CASE \E t \in ClockReads : (ClientStep(t) \/ WorkerStep(t))
  BY <1>3, ClientShape, WorkerShape
<1> QED BY <1>1, <1>2, <1>3 DEF Next, Tick, vars

-----------------------------------------------------------------------------
(* The invariant of steps.                                                 *)

(* A plan records a fleet revision that was reached, and a real node.      *)
PlansDated ==
    \A p \in PlanIds : plans[p].job # NoJob =>
        plans[p].fleet <= fleet /\ plans[p].node \in Nodes

SInv == IInv /\ AbsentBlank /\ PlansDated /\ PlanStillFree

(* No run, no plan: nothing to violate.                                    *)
LEMMA InitSInv == Init => SInv
<1> SUFFICES ASSUME Init PROVE SInv
  OBVIOUS
<1>1. AbsentBlank
  BY DEF Init, AbsentBlank
<1>2. \A p \in PlanIds : plans[p].job = NoJob
  BY DEF Init, NoPlan
<1> QED BY <1>1, <1>2, InitIInv DEF SInv, PlansDated, PlanStillFree

(* A plan whose fleet revision is still current was untouched: no revision *)
(* was skipped, so neither a reservation nor a node revision changed.      *)
LEMMA NextSInv == SInv /\ [Next]_vars => SInv'
<1> SUFFICES ASSUME SInv, [Next]_vars PROVE SInv'
  OBVIOUS
<1>1. IInv' /\ StepShape /\ PlanStep
  BY NextIInv, NextShape DEF SInv
<1>2. AbsentBlank'
  <2> SUFFICES ASSUME NEW j \in Jobs, rows'[j].state = "absent"
               PROVE  rows'[j] = NoRow
    BY DEF AbsentBlank
  <2>1. PICK p \in Row : Housekept(rows[j], p, now) /\ Operated(p, rows'[j])
    BY <1>1 DEF StepShape, RowShape
  <2>2. rows'[j] = p
    BY <2>1 DEF Operated, SameVisible, Executing, Terminal
  <2>3. p = rows[j]
    BY <2>1, <2>2 DEF Housekept, SameVisible, Terminal
  <2> QED BY <2>2, <2>3 DEF SInv, AbsentBlank
<1>3. ASSUME NEW p \in PlanIds, plans'[p].job # NoJob
      PROVE  /\ plans'[p].fleet <= fleet' /\ plans'[p].node \in Nodes
             /\ plans'[p].fleet = fleet' =>
                   /\ nodes'[plans'[p].node].rev = plans'[p].rev
                   /\ Free(rows', plans'[p].node)
  <2>0. /\ fleet \in Nat /\ fleet' \in Nat /\ plans[p].fleet \in Nat
        /\ fleet' >= fleet
    BY <1>1 DEF SInv, IInv, TypeOK, Plan, StepShape, FleetStep
  <2>1. CASE /\ plans'[p].job = plans[p].job /\ plans'[p].node = plans[p].node
             /\ plans'[p].fleet = plans[p].fleet /\ plans'[p].rev = plans[p].rev
    <3>1. plans[p].fleet <= fleet /\ plans[p].node \in Nodes
      BY <1>3, <2>1 DEF SInv, PlansDated
    <3>2. ASSUME plans'[p].fleet = fleet'
          PROVE  /\ nodes'[plans'[p].node].rev = plans'[p].rev
                 /\ Free(rows', plans'[p].node)
      <4>1. fleet' = fleet /\ plans[p].fleet = fleet
        BY <2>0, <2>1, <3>1, <3>2
      <4>2. nodes[plans[p].node].rev = plans[p].rev /\ Free(rows, plans[p].node)
        BY <1>3, <2>1, <4>1 DEF SInv, PlanStillFree, Free
      <4>3. nodes'[plans[p].node].rev = nodes[plans[p].node].rev
        BY <1>1, <3>1, <4>1 DEF PlanStep
      <4>4. Free(rows', plans[p].node)
        BY <1>1, <4>1, <4>2 DEF StepShape, FleetStep, SameLease, Free
      <4> QED BY <2>1, <4>2, <4>3, <4>4
    <3> QED BY <2>0, <2>1, <3>1, <3>2
  <2>2. CASE /\ plans'[p].fleet = fleet' /\ plans'[p].node \in Nodes
             /\ plans'[p].rev = nodes'[plans'[p].node].rev
             /\ Free(rows', plans'[p].node)
    BY <2>0, <2>2
  <2> QED BY <1>1, <2>1, <2>2 DEF PlanStep, PlanShape
<1>4. PlansDated'
  BY <1>3 DEF PlansDated
<1>5. PlanStillFree'
  BY <1>3 DEF PlanStillFree, Free
<1> QED BY <1>1, <1>2, <1>4, <1>5 DEF SInv

(* The invariant of steps holds in every reachable state.                  *)
THEOREM StepInvariance == Spec => []SInv
BY InitSInv, NextSInv, PTL DEF Spec

(* While the fleet revision a plan recorded is current, its node is free   *)
(* and unchanged: submit_job's equality test never accepts a plan that a   *)
(* job or a reconfiguration overtook.                                      *)
THEOREM PlansFresh == Spec => []PlanStillFree
<1>1. SInv => PlanStillFree
  BY DEF SInv
<1> QED BY <1>1, StepInvariance, PTL

-----------------------------------------------------------------------------
(* Action properties.                                                      *)

(* Every reservation that appears, moves or disappears comes with a new    *)
(* fleet revision.                                                         *)
THEOREM FleetRevised == Spec => FleetTracksReservations
<1>1. SInv /\ [Next]_vars => [Reservations' # Reservations => fleet' > fleet]_vars
  <2> SUFFICES ASSUME SInv, [Next]_vars, ~(fleet' > fleet)
               PROVE  Reservations' = Reservations
    OBVIOUS
  <2>1. IInv' /\ FleetStep(rows, fleet, rows', fleet')
    BY NextIInv, NextShape DEF SInv, StepShape
  <2>2. fleet \in Nat /\ fleet' \in Nat
    BY <2>1 DEF SInv, IInv, TypeOK
  <2>3. \A j \in Jobs : SameLease(rows[j], rows'[j])
    BY <2>1, <2>2 DEF FleetStep
  <2> QED BY <2>3 DEF Reservations, SameLease
<1> QED BY <1>1, StepInvariance, PTL DEF Spec, FleetTracksReservations

(* A new job never takes a node that a waiting job could have used.        *)
THEOREM WaitingFirst == Spec => WaitingServedFirst
<1>1. SInv /\ [Next]_vars =>
        [\A j, k \in Jobs :
           (/\ rows[j].state = "absent" /\ rows'[j].state = "Queued"
            /\ rows'[k].state = "Queued" /\ ~rows'[k].held)
              => rows'[j].leaseNode \notin CanRun[k]]_vars
  BY NextShape DEF SInv, StepShape, Served
<1> QED BY <1>1, StepInvariance, PTL DEF Spec, WaitingServedFirst

(* Capacity kept for cleanup comes back only on a "removed" receipt or     *)
(* after its deadline, whatever the clock reading of the operation was.    *)
THEOREM ReleaseEvidenced == Spec => ReleaseNeedsEvidence
<1>1. SInv /\ [Next]_vars =>
        [\A j \in Jobs :
           rows[j].held /\ rows[j].phase = "cleanup_pending" /\ ~rows'[j].held
              => \/ rows'[j].receipt = "removed"
                 \/ rows[j].leaseUntil <= now]_vars
  <2> SUFFICES ASSUME SInv, [Next]_vars, NEW j \in Jobs, rows[j].held,
                      rows[j].phase = "cleanup_pending", ~rows'[j].held,
                      ~(rows[j].leaseUntil <= now)
               PROVE  rows'[j].receipt = "removed"
    OBVIOUS
  <2>1. rows[j].state \in Terminal
    BY DEF SInv, IInv, RowsOK, RowOK, ProvableCleanup, ProvenTerminal
  <2>2. PICK p \in Row : Housekept(rows[j], p, now) /\ Operated(p, rows'[j])
    BY NextShape DEF SInv, StepShape, RowShape
  <2>3. p = rows[j]
    BY <2>1, <2>2 DEF Housekept, Terminal, Executing
  <2> QED BY <2>1, <2>2, <2>3 DEF Operated, Terminal, Executing
<1> QED BY <1>1, StepInvariance, PTL DEF Spec, ReleaseNeedsEvidence

(* What the composition of prefix and operation means for one row: the     *)
(* authority of a run and the version of its record.                       *)
LEMMA RowStep ==
    ASSUME NEW r \in Row, NEW q \in Row, RowOK(r), RowShape(r, q),
           r.state = "absent" => r = NoRow
    PROVE  /\ q.binding # r.binding => q.attempt > r.attempt
           /\ r.claim # "none" => SameAuthority(r, q)
           /\ r.state # "absent" =>
                 /\ q.version >= r.version
                 /\ SameVisible(r, q) \/ q.version > r.version
<1>1. PICK p \in Row : RowOK(p) /\ Housekept(r, p, now) /\ Operated(p, q)
  BY DEF RowShape
<1>2. /\ r.version \in Nat /\ p.version \in Nat /\ q.version \in Nat
      /\ r.attempt \in Nat /\ p.attempt \in Nat /\ q.attempt \in Nat
      /\ r.state \in JobStates
  BY DEF Row
<1>3. CASE r.state = "absent"
  <2>1. p = r /\ r.attempt = 0 /\ r.claim = "none"
    BY <1>1, <1>3 DEF Housekept, NoRow, Executing, Terminal
  <2>2. q = r \/ q.attempt > 0
    BY <1>1, <1>3, <2>1 DEF Operated, Executing, Terminal
  <2> QED BY <1>3, <2>1, <2>2
<1>4. CASE r.state = "Queued"
  <2>1. /\ p.state = "Queued" /\ r.claim = "none"
        /\ p = r \/ p.version > r.version
        /\ p.attempt >= r.attempt /\ (p.binding # r.binding => p.attempt > r.attempt)
    BY <1>1, <1>2, <1>4 DEF Housekept, RowOK, FreshDispatch, Executing, Terminal
  <2>2. /\ q.binding = p.binding /\ q.attempt = p.attempt
        /\ q = p \/ q.version > p.version
    BY <1>1, <2>1 DEF Operated, SameAuthority, Executing, Terminal
  <2> QED BY <1>2, <1>4, <2>1, <2>2 DEF SameVisible
<1>5. CASE r.state \in Executing
  <2>1. \/ p = r
        \/ p.state = "Failed" /\ p.version > r.version /\ SameAuthority(r, p)
    BY <1>1, <1>5 DEF Housekept, Executing, Terminal
  <2>2. /\ SameAuthority(p, q) /\ q.version >= p.version
        /\ SameVisible(p, q) \/ q.version > p.version
    BY <1>1, <1>2, <1>5, <2>1 DEF Operated, Executing, Terminal, SameVisible,
                                  SameAuthority
  <2> QED BY <1>2, <2>1, <2>2 DEF SameVisible, SameAuthority
<1>6. CASE r.state \in Terminal
  <2>1. p.version = r.version /\ SameAuthority(r, p) /\ SameVisible(r, p)
    BY <1>1, <1>6 DEF Housekept, Executing, Terminal, SameVisible, SameAuthority
  <2>2. SameAuthority(p, q) /\ q.version = p.version /\ SameVisible(p, q)
    BY <1>1, <1>6, <2>1 DEF Operated, Executing, Terminal, SameVisible,
                            SameAuthority
  <2> QED BY <1>2, <2>1, <2>2 DEF SameVisible, SameAuthority
<1> QED BY <1>2, <1>3, <1>4, <1>5, <1>6 DEF JobStates

(* The facts of a step that RowStep and the refinement start from.         *)
LEMMA StepFacts ==
    ASSUME SInv, [Next]_vars, NEW j \in Jobs
    PROVE  /\ rows[j] \in Row /\ RowOK(rows[j])
           /\ rows'[j] \in Row /\ RowOK(rows'[j])
           /\ RowShape(rows[j], rows'[j])
           /\ rows[j].state = "absent" => rows[j] = NoRow
<1>1. IInv' /\ RowShape(rows[j], rows'[j])
  BY NextIInv, NextShape DEF SInv, StepShape
<1> QED BY <1>1 DEF SInv, AbsentBlank, IInv, RowsOK

(* A run's binding changes only with a new ledger entry, and no authority  *)
(* changes once the run was claimed.                                       *)
THEOREM AuthorityKept == Spec => AuthorityLedger
<1>1. SInv /\ [Next]_vars =>
        [\A j \in Jobs :
           /\ rows'[j].binding # rows[j].binding
                 => rows'[j].attempt > rows[j].attempt
           /\ rows[j].claim # "none" =>
                 /\ rows'[j].binding = rows[j].binding
                 /\ rows'[j].attempt = rows[j].attempt
                 /\ rows'[j].claimNode = rows[j].claimNode]_vars
  BY StepFacts, RowStep DEF SameAuthority
<1> QED BY <1>1, StepInvariance, PTL DEF Spec, AuthorityLedger

(* Versions never fall and every visible change has a new one, also when   *)
(* expiry, re-dispatch and the operation change a run in one transaction.  *)
THEOREM VersionsGuard == Spec => VersionGuardsRun
<1>1. SInv /\ [Next]_vars =>
        [\A j \in Jobs :
           LET r == rows[j]  q == rows'[j] IN
           r.state # "absent" =>
              /\ q.version >= r.version
              /\ <<q.state, q.node, q.cancelRequested>>
                    # <<r.state, r.node, r.cancelRequested>>
                    => q.version > r.version]_vars
  BY StepFacts, RowStep DEF SameVisible
<1> QED BY <1>1, StepInvariance, PTL DEF Spec, VersionGuardsRun

-----------------------------------------------------------------------------
(* Refinement.                                                             *)

(* The stage of a row, by its state and its reservation.                   *)
LEMMA StageFields ==
    ASSUME NEW r \in Row, RowOK(r)
    PROVE  LET s == StageOf(r) IN
           /\ r.state = "absent" => s = Lifecycle!Absent
           /\ r.state = "Queued" /\ ~r.held => s = Lifecycle!Waiting
           /\ r.state = "Queued" /\ r.held => s = Lifecycle!Dispatched(r.leaseNode)
           /\ r.state \in Executing => s = Lifecycle!Executing(r.leaseNode)
           /\ r.state \in Terminal /\ r.held
                 => s = Lifecycle!Cleaning(r.leaseNode, r.state)
           /\ r.state \in Terminal /\ ~r.held => s = Lifecycle!Ended(r.state)
<1> DEFINE s == StageOf(r)
<1> USE DEF Executing, Terminal, Lifecycle!Idle, Lifecycle!On
<1>1. CASE r.state = "absent"
  <2>1. ~r.held
    BY <1>1 DEF RowOK, PhaseFollowsState
  <2>2. s = [kind |-> "absent", node |-> NoNode, outcome |-> "none"]
    BY <1>1, <2>1 DEF StageOf
  <2> QED BY <1>1, <2>2 DEF Lifecycle!Absent
<1>2. CASE r.state = "Queued" /\ ~r.held
  <2>1. s = [kind |-> "waiting", node |-> NoNode, outcome |-> "none"]
    BY <1>2 DEF StageOf
  <2> QED BY <1>2, <2>1 DEF Lifecycle!Waiting
<1>3. CASE r.state = "Queued" /\ r.held
  <2>1. s = [kind |-> "dispatched", node |-> r.leaseNode, outcome |-> "none"]
    BY <1>3 DEF StageOf
  <2> QED BY <1>3, <2>1 DEF Lifecycle!Dispatched
<1>4. CASE r.state \in Executing
  <2>1. r.held
    BY <1>4 DEF RowOK, OwnsExecution
  <2>2. s = [kind |-> "executing", node |-> r.leaseNode, outcome |-> "none"]
    BY <1>4, <2>1 DEF StageOf
  <2> QED BY <1>4, <2>2 DEF Lifecycle!Executing
<1>5. CASE r.state \in Terminal /\ r.held
  <2>1. s = [kind |-> "cleaning", node |-> r.leaseNode, outcome |-> r.state]
    BY <1>5 DEF StageOf
  <2> QED BY <1>5, <2>1 DEF Lifecycle!Cleaning
<1>6. CASE r.state \in Terminal /\ ~r.held
  <2>1. s = [kind |-> "ended", node |-> NoNode, outcome |-> r.state]
    BY <1>6 DEF StageOf
  <2> QED BY <1>6, <2>1 DEF Lifecycle!Ended
<1>7. r.state \in JobStates
  BY DEF Row
<1> QED BY <1>1, <1>2, <1>3, <1>4, <1>5, <1>6, <1>7 DEF JobStates

(* A row that reserves a node occupies it in the abstract stage, and no    *)
(* other row occupies anything; every stage is one of RunLifecycle's.      *)
LEMMA StageOK ==
    ASSUME NEW r \in Row, RowOK(r)
    PROVE  /\ StageOf(r) \in Lifecycle!Stage
           /\ StageOf(r).node \in Nodes => r.held /\ StageOf(r).node = r.leaseNode
<1>1. r.held => r.leaseNode \in Nodes
  BY DEF RowOK, PhaseFollowsState
<1>2. r.state \in Executing => r.held
  BY DEF RowOK, OwnsExecution
<1>3. r.state \in JobStates
  BY DEF Row
<1>4. StageOf(r) \in Lifecycle!Stage
  BY <1>1, <1>2, <1>3, StageFields
     DEF JobStates, Lifecycle!Stage, Lifecycle!Outcomes, Terminal
<1>5. StageOf(r).node = IF r.held THEN r.leaseNode ELSE NoNode
  BY DEF StageOf
<1> QED BY <1>4, <1>5, NullAssumption

(* One transaction moves a run as RunLifecycle allows, although it may be  *)
(* withdrawn, placed again and claimed in it.                              *)
LEMMA StageMove ==
    ASSUME NEW r \in Row, NEW q \in Row, RowOK(r), RowOK(q), RowShape(r, q)
    PROVE  Lifecycle!Move(StageOf(r), StageOf(q))
<1>1. PICK p \in Row : RowOK(p) /\ Housekept(r, p, now) /\ Operated(p, q)
  BY DEF RowShape
<1>2. r.state \in JobStates
  BY DEF Row
<1> DEFINE s == StageOf(r)
           u == StageOf(q)
<1> USE DEF Lifecycle!Idle, Lifecycle!On
<1>3. CASE r.state = "absent"
  <2>1. q = r \/ (q.state = "Queued" /\ q.held)
    BY <1>1, <1>3 DEF Housekept, Operated, Executing, Terminal
  <2>2. s.kind = "absent"
    BY <1>3, StageFields DEF Lifecycle!Absent
  <2>3. q.state = "Queued" /\ q.held => u.kind = "dispatched"
    BY StageFields DEF Lifecycle!Dispatched
  <2> QED BY <2>1, <2>2, <2>3 DEF Lifecycle!Move
<1>4. CASE r.state = "Queued"
  <2>1. \/ q.state \in {"Queued", "Preparing"}
        \/ q.state = "Cancelled" /\ ~q.held
    BY <1>1, <1>4 DEF Housekept, Operated, Executing, Terminal
  <2>2. s.kind \in {"waiting", "dispatched"}
    BY <1>4, StageFields DEF Lifecycle!Waiting, Lifecycle!Dispatched
  <2>3. q.state = "Queued" => u.kind \in {"waiting", "dispatched"}
    BY StageFields DEF Lifecycle!Waiting, Lifecycle!Dispatched
  <2>4. q.state = "Preparing" => u.kind = "executing"
    BY StageFields DEF Lifecycle!Executing, Executing
  <2>5. q.state = "Cancelled" /\ ~q.held => u = Lifecycle!Ended("Cancelled")
    BY StageFields DEF Terminal
  <2> QED BY <2>1, <2>2, <2>3, <2>4, <2>5 DEF Lifecycle!Move
<1>5. CASE r.state \in Executing
  <2>1. \/ q.state \in Executing /\ q.leaseNode = r.leaseNode
        \/ q.state = "Failed" /\ ~q.held
        \/ q.state \in Terminal /\ q.held /\ q.leaseNode = r.leaseNode
    BY <1>1, <1>5 DEF Housekept, Operated, SameVisible, Executing, Terminal
  <2>2. s = Lifecycle!Executing(r.leaseNode)
    BY <1>5, StageFields
  <2>3. q.state \in Executing => u = Lifecycle!Executing(q.leaseNode)
    BY StageFields
  <2>4. q.state = "Failed" /\ ~q.held => u = Lifecycle!Ended("Failed")
    BY StageFields DEF Terminal
  <2>5. q.state \in Terminal /\ q.held
          => u = Lifecycle!Cleaning(q.leaseNode, q.state)
    BY StageFields
  <2> QED BY <2>1, <2>2, <2>3, <2>4, <2>5
          DEF Lifecycle!Move, Lifecycle!Executing, Lifecycle!Cleaning
<1>6. CASE r.state \in Terminal
  <2>1. /\ q.state = r.state
        /\ q.held => r.held /\ q.leaseNode = r.leaseNode
    BY <1>1, <1>6 DEF Housekept, Operated, SameVisible, Executing, Terminal
  <2>2. r.held => s = Lifecycle!Cleaning(r.leaseNode, r.state)
    BY <1>6, StageFields
  <2>3. q.held => u = Lifecycle!Cleaning(q.leaseNode, q.state)
    BY <1>6, <2>1, StageFields
  <2>4. (~r.held => s = Lifecycle!Ended(r.state))
        /\ (~q.held => u = Lifecycle!Ended(q.state))
    BY <1>6, <2>1, StageFields
  <2> QED BY <2>1, <2>2, <2>3, <2>4 DEF Lifecycle!Move, Lifecycle!Cleaning
<1> QED BY <1>2, <1>3, <1>4, <1>5, <1>6 DEF JobStates

(* The store implements RunLifecycle: a run occupies at most one node, a   *)
(* node serves at most one run, an execution stays on its node until it    *)
(* ends, and an outcome is never revised.                                  *)
THEOREM Refinement == Spec => ImplementsLifecycle
<1> DEFINE st == [j \in Jobs |-> StageOf(rows[j])]
<1>1. Init => Lifecycle!Init
  <2> SUFFICES ASSUME Init PROVE st = [j \in Jobs |-> Lifecycle!Absent]
    BY DEF Lifecycle!Init
  <2>1. NoRow \in Row /\ RowOK(NoRow) /\ NoRow.state = "absent"
    BY DEF NoRow, Row, JobStates, RowOK, OwnsExecution, FreshDispatch,
           ProvableCleanup, PhaseFollowsState, Executing
  <2>2. StageOf(NoRow) = Lifecycle!Absent
    BY <2>1, StageFields
  <2> QED BY <2>2 DEF Init
<1>2. SInv /\ [Next]_vars => Lifecycle!Next
  <2> SUFFICES ASSUME SInv, [Next]_vars PROVE Lifecycle!Next
    OBVIOUS
  <2>1. \A j \in Jobs : StageOf(rows'[j]) \in Lifecycle!Stage
    BY StepFacts, StageOK
  <2>2. Lifecycle!Exclusive(st')
    <3> SUFFICES ASSUME NEW j \in Jobs, NEW k \in Jobs, NEW n \in Nodes,
                        StageOf(rows'[j]).node = n, StageOf(rows'[k]).node = n
                 PROVE  j = k
      BY DEF Lifecycle!Exclusive, Lifecycle!Occupies
    <3>1. /\ rows'[j].held /\ rows'[j].leaseNode = n
          /\ rows'[k].held /\ rows'[k].leaseNode = n
      BY StepFacts, StageOK
    <3>2. Disjoint(rows')
      BY NextIInv DEF SInv, IInv, RowsOK
    <3> QED BY <3>1, <3>2 DEF Disjoint
  <2>3. \A j \in Jobs : Lifecycle!Move(StageOf(rows[j]), StageOf(rows'[j]))
    BY StepFacts, StageMove
  <2> QED BY <2>1, <2>2, <2>3 DEF Lifecycle!Next
<1> QED BY <1>1, <1>2, StepInvariance, PTL
        DEF Spec, ImplementsLifecycle, Lifecycle!Spec
=============================================================================

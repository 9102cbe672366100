---------------------------- MODULE RunLifecycle ----------------------------
(***************************************************************************)
(* What the controller's store promises about runs and worker capacity, as *)
(* docs/managed-worker-protocol.md puts it, without leases, claims,        *)
(* versions, plans or clocks: a run occupies at most one worker node at a  *)
(* time, a node serves at most one run, a run that began executing stays   *)
(* on its node until it ends, and an outcome is never revised.             *)
(***************************************************************************)
CONSTANTS Jobs, Nodes, NoNode

VARIABLE stage

Outcomes == {"Succeeded", "Failed", "Cancelled"}

Idle(kind, outcome) == [kind |-> kind, node |-> NoNode, outcome |-> outcome]
On(kind, n, outcome) == [kind |-> kind, node |-> n, outcome |-> outcome]

Absent == Idle("absent", "none")
Waiting == Idle("waiting", "none")
Dispatched(n) == On("dispatched", n, "none")
Executing(n) == On("executing", n, "none")
Cleaning(n, o) == On("cleaning", n, o)
Ended(o) == Idle("ended", o)

Stage ==
    {Absent, Waiting} \cup {Ended(o) : o \in Outcomes}
    \cup {Dispatched(n) : n \in Nodes} \cup {Executing(n) : n \in Nodes}
    \cup {Cleaning(n, o) : n \in Nodes, o \in Outcomes}

Occupies(s, n) == s.node = n

Exclusive(st) ==
    \A j, k \in Jobs : \A n \in Nodes :
        Occupies(st[j], n) /\ Occupies(st[k], n) => j = k

(* What one transaction may do to one run.  Before execution begins the    *)
(* placement may change or be dropped; afterwards the node is kept until   *)
(* the run ends, either with an outcome and a cleanup phase or, when its   *)
(* lease runs out, as failed.                                              *)
Move(s, next) ==
    \/ next = s
    \/ s.kind = "absent" /\ next.kind = "dispatched"
    \/ /\ s.kind \in {"waiting", "dispatched"}
       /\ \/ next.kind \in {"waiting", "dispatched", "executing"}
          \/ next = Ended("Cancelled")
    \/ /\ s.kind = "executing"
       /\ \/ next.kind = "cleaning" /\ next.node = s.node
          \/ next = Ended("Failed")
    \/ s.kind = "cleaning" /\ next = Ended(s.outcome)

Init == stage = [j \in Jobs |-> Absent]

Next ==
    /\ stage' \in [Jobs -> Stage]
    /\ Exclusive(stage')
    /\ \A j \in Jobs : Move(stage[j], stage'[j])

Spec == Init /\ [][Next]_stage
=============================================================================

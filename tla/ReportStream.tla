---------------------------- MODULE ReportStream ----------------------------
(***************************************************************************)
(* Node reports: how the controller learns what a worker's machine is.     *)
(*                                                                         *)
(* Each start of the worker daemon takes the next boot generation from a   *)
(* durable counter and probes the machine once; its reports carry the      *)
(* generation and a sequence number, and leave the inventory out once the  *)
(* controller has acknowledged it.  The controller orders reports by       *)
(* generation and sequence.  Pairing the node again, and a claim made      *)
(* before the first report, write the inventory of a probe instead and set *)
(* the order back to zero.  Reports may be lost, answered into the void,   *)
(* or delivered after their sender has gone.                               *)
(*                                                                         *)
(* Workers older than the boot generation, which report generation zero,   *)
(* are left out.                                                           *)
(***************************************************************************)
EXTENDS Naturals, FiniteSets

CONSTANTS
    Inventories,  \* what a probe of the machine may find
    NoInventory,  \* a report that leaves the inventory out
    MaxGeneration, MaxSequence, MaxPairings  \* bounds

ASSUME ReportStreamAssumption ==
    /\ NoInventory \notin Inventories
    /\ {MaxGeneration, MaxSequence, MaxPairings} \subseteq Nat

VARIABLES
    counter,  \* the boot generation on the worker's disk
    config,   \* the credential in the worker's configuration
    daemon,   \* the running daemon: generation, sequence, publication state
    wire,     \* reports on their way
    node      \* the controller's row for the node

rsVars == <<counter, config, daemon, wire, node>>

Down == [up |-> FALSE]

RsInit ==
    /\ counter = 0
    /\ config = 1
    /\ daemon = Down
    /\ wire = {}
    /\ \E i \in Inventories :
         node = [generation |-> 0, sequence |-> 0, inventory |-> i,
                 busy |-> FALSE, valid |-> {1}, pairings |-> 1]

-----------------------------------------------------------------------------
(* The worker.                                                             *)

\* run_forever: the generation is on disk before the daemon uses it; a start
\* that fails afterwards has used it up.
Starts ==
    /\ ~daemon.up /\ counter < MaxGeneration
    /\ counter' = counter + 1
    /\ \/ \E i \in Inventories :
            daemon' = [up |-> TRUE, credential |-> config,
                       generation |-> counter + 1, sequence |-> 0,
                       inventory |-> i, accepted |-> NoInventory,
                       active |-> FALSE, reply |-> "none",
                       waits |-> FALSE, disturbed |-> FALSE]
       \/ UNCHANGED daemon
    /\ UNCHANGED <<config, wire, node>>

DaemonStops ==
    /\ daemon.up
    /\ daemon' = Down
    /\ UNCHANGED <<counter, config, wire, node>>

\* The one slot is taken and given back, never while a sample is being made.
Activity ==
    /\ daemon.up
    /\ daemon' = [daemon EXCEPT !.active = ~@]
    /\ UNCHANGED <<counter, config, wire, node>>

\* The inventory is left out only if it is the one acknowledged.
Prepared(d) == IF d.accepted = d.inventory THEN NoInventory ELSE d.inventory

Reports ==
    /\ daemon.up /\ ~daemon.waits
    /\ daemon.sequence < MaxSequence
    /\ daemon' = [daemon EXCEPT !.sequence = @ + 1, !.waits = TRUE]
    /\ wire' = wire \cup
         {[credential |-> daemon.credential, generation |-> daemon.generation,
           sequence |-> daemon.sequence + 1, inventory |-> Prepared(daemon),
           busy |-> daemon.active]}
    /\ UNCHANGED <<counter, config, node>>

\* The answer says accepted: a report that carried the inventory has
\* published it; one that left it out changes nothing.
Acknowledged(d) ==
    [d EXCEPT !.waits = FALSE, !.reply = "none",
              !.accepted = IF Prepared(d) = NoInventory THEN @
                           ELSE d.inventory]

\* It says otherwise, or there is none: the next report carries all of it.
Invalidated(d) ==
    [d EXCEPT !.waits = FALSE, !.reply = "none", !.accepted = NoInventory]

Answered ==
    /\ daemon.up /\ daemon.waits
    /\ \/ daemon.reply = "accepted" /\ daemon' = Acknowledged(daemon)
       \/ daemon.reply = "rejected" /\ daemon' = Invalidated(daemon)
    /\ UNCHANGED <<counter, config, wire, node>>

\* No answer in time; the report itself may still arrive.
Unanswered ==
    /\ daemon.up /\ daemon.waits /\ daemon.reply = "none"
    /\ daemon' = Invalidated(daemon)
    /\ \E late \in BOOLEAN :
         wire' = IF late THEN wire
                 ELSE {r \in wire : r.generation /= daemon.generation
                                      \/ r.sequence /= daemon.sequence}
    /\ UNCHANGED <<counter, config, node>>

-----------------------------------------------------------------------------
(* The controller.                                                         *)

\* A report of an earlier boot, or of this boot and not newer than the last.
MutOutOfOrder(r) == r.generation = node.generation
                      /\ r.sequence <= node.sequence

OutOfOrder(r) == \/ r.generation < node.generation
                 \/ /\ r.generation = node.generation
                    /\ r.sequence <= node.sequence

Recorded(r) ==
    [node EXCEPT !.generation = r.generation, !.sequence = r.sequence,
                 !.busy = r.busy,
                 !.inventory = IF r.inventory = NoInventory THEN @
                               ELSE r.inventory]

Waits(r) == daemon.up /\ daemon.waits /\ daemon.generation = r.generation
              /\ daemon.sequence = r.sequence

\* An inventory of this boot that is recorded replaces what a probe wrote.
Restored(r) == IF daemon.up /\ daemon.generation = r.generation
                    /\ r.inventory /= NoInventory
               THEN [daemon EXCEPT !.disturbed = FALSE] ELSE daemon

Answer(r, d, reply) ==
    \/ daemon' = d
    \/ Waits(r) /\ daemon' = [d EXCEPT !.reply = reply]

\* record_node_report: an unknown credential is refused, a report out of
\* order is answered and changes nothing, another one is recorded.
RecordNodeReport(r) ==
    /\ r \in wire
    /\ wire' = wire \ {r}
    /\ IF r.credential \in node.valid /\ ~OutOfOrder(r)
       THEN node' = Recorded(r) /\ Answer(r, Restored(r), "accepted")
       ELSE UNCHANGED node /\ Answer(r, daemon, "rejected")
    /\ UNCHANGED <<counter, config>>

\* upsert_node_tx with a probe: its inventory, and an order set back to zero.
Probed(i) == [node EXCEPT !.generation = 0, !.sequence = 0, !.busy = FALSE,
                          !.inventory = i]

Disturbed == IF daemon.up THEN [daemon EXCEPT !.disturbed = TRUE] ELSE daemon

\* The node is paired again.  The worker learns of it, and its configuration
\* names the new credential, or the answer is lost.
Pairs ==
    /\ node.pairings < MaxPairings
    /\ \E i \in Inventories :
         node' = [Probed(i) EXCEPT !.pairings = @ + 1,
                                   !.valid = @ \cup {node.pairings + 1}]
    /\ config' \in {config, node.pairings + 1}
    /\ daemon' = Disturbed
    /\ UNCHANGED <<counter, wire>>

\* The acknowledgement of a pairing retires the credentials before it; a
\* pairing nobody acknowledged is revoked.
PairingSettles ==
    /\ Cardinality(node.valid) > 1
    /\ node' = [node EXCEPT !.valid =
                  IF config = node.pairings THEN {node.pairings}
                  ELSE @ \ {node.pairings}]
    /\ UNCHANGED <<counter, config, daemon, wire>>

\* A claim carries a probe too; it counts while no report ever has.
ClaimProbes ==
    /\ daemon.up /\ daemon.credential \in node.valid
    /\ node.generation = 0
    /\ \E i \in Inventories : node' = Probed(i)
    /\ daemon' = Disturbed
    /\ UNCHANGED <<counter, config, wire>>

-----------------------------------------------------------------------------
RsNext == \/ Starts \/ DaemonStops \/ Activity \/ Reports \/ Answered \/ Unanswered
          \/ \E r \in wire : RecordNodeReport(r)
          \/ Pairs \/ PairingSettles \/ ClaimProbes

RsSpec == RsInit /\ [][RsNext]_rsVars

-----------------------------------------------------------------------------
\* Every state variable has its type.
Report == [credential : Nat, generation : Nat, sequence : Nat,
           inventory : Inventories \cup {NoInventory}, busy : BOOLEAN]
UpDaemon == [up : {TRUE}, credential : Nat, generation : Nat, sequence : Nat,
             inventory : Inventories, accepted : Inventories \cup {NoInventory},
             active : BOOLEAN, reply : {"none", "accepted", "rejected"},
             waits : BOOLEAN, disturbed : BOOLEAN]
NodeRow == [generation : Nat, sequence : Nat, inventory : Inventories,
            busy : BOOLEAN, valid : SUBSET Nat, pairings : Nat]
RsTypeOK ==
    /\ counter \in Nat /\ config \in Nat
    /\ daemon \in UpDaemon \cup {Down}
    /\ wire \subseteq Report
    /\ node \in NodeRow

\* While the daemon leaves its inventory out of its reports, the controller
\* holds exactly that inventory, however reports of this and of earlier boots
\* were lost, delayed or answered late; unless a probe, of a pairing or of a
\* claim, replaced it after the controller last recorded it from this daemon
\* (InventoryPublicationState, runtime.rs 68-105; record_node_report, store.rs
\* 2066-2270).
InventoryAgrees ==
    daemon.up /\ daemon.accepted /= NoInventory /\ ~daemon.disturbed =>
      node.inventory = daemon.accepted

\* Stronger than the code (README, section 5): the same with the node paired
\* under the daemon.
InventoryAlwaysAgrees ==
    daemon.up /\ daemon.accepted /= NoInventory
      /\ daemon.credential \in node.valid =>
        node.inventory = daemon.accepted
=============================================================================

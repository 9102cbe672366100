------------------------------ MODULE MCUploads ------------------------------
(* What the worker sends to the controller besides run states, on small       *)
(* instances: the source, output and artifacts of a run, and the reports      *)
(* about the machine. The two share no state, so one run explores each of     *)
(* them while the other rests in an initial state.                            *)
EXTENDS RunObjects, ReportStream, TLC

CONSTANTS i1, i2

\* Inventories may be exchanged.
Symmetry == Permutations(Inventories)

VARIABLE part  \* what this behaviour is about

UploadsInit ==
    \/ part = "objects" /\ ObInit /\ RsInit
    \/ part = "reports" /\ ObInit /\ job.source = "git" /\ RsInit
UploadsNext ==
    \/ part = "objects" /\ ObNext /\ UNCHANGED <<part, rsVars>>
    \/ part = "reports" /\ RsNext /\ UNCHANGED <<part, obVars>>
UploadsSpec == UploadsInit /\ [][UploadsNext]_<<part, obVars, rsVars>>
=============================================================================

------------------------------- MODULE MCGuard -------------------------------
(* The worker's machine on small instances: the daemons with their active-run  *)
(* guard, and the process tree of one job with its containment. WorkerGuard    *)
(* needs of the tree only whether it was proved empty, so one run explores     *)
(* each of them while the other rests in an initial state.                     *)
EXTENDS WorkerGuard, ProcessTree, TLC

CONSTANTS d1, d2, r1, r2, r3, k1, k2

\* The descendants of a job may be exchanged.
Symmetry == Permutations(Kids)

VARIABLE part  \* what this behaviour is about

TreeRests == PtInit /\ host.os = "macos" /\ host.policy = "none" /\ host.build = "release"

HostInit ==
    \/ part = "guard" /\ Init /\ TreeRests
    \/ part = "tree" /\ Init /\ PtInit
HostNext ==
    \/ part = "guard" /\ Next /\ UNCHANGED <<part, ptVars>>
    \/ part = "tree" /\ PtNext /\ UNCHANGED <<part, vars>>
HostSpec == HostInit /\ [][HostNext]_<<part, vars, ptVars>>
=============================================================================

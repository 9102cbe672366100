------------------------------ MODULE MCDesktop ------------------------------
(* The desktop's three long operations on small instances: the Codex          *)
(* integration, the connection check and the worker kit. They share only the  *)
(* operation lock and the runtime file, which FullRun keeps as OtherOperation *)
(* and RuntimeMoves, so one run explores each of them while the others rest   *)
(* in an initial state.                                                       *)
EXTENDS CodexIntegration, FullRun, WorkerKit, TLC

VARIABLE part  \* the operation this behaviour is about

IntRests == IntInit /\ market = "foreign"
KitRests == KitInit /\ kitDir.target = "linux-x86_64" /\ kitDir.files.worker.target = kitDir.target

DesktopInit ==
    \/ part = "integration" /\ IntInit /\ FrInit /\ KitRests
    \/ part = "check" /\ IntRests /\ FrInit /\ KitRests
    \/ part = "kit" /\ IntRests /\ FrInit /\ KitInit
DesktopNext ==
    \/ part = "integration" /\ IntNext /\ UNCHANGED <<part, frVars, kitVars>>
    \/ part = "check" /\ FrNext /\ UNCHANGED <<part, intVars, kitVars>>
    \/ part = "kit" /\ KitNext /\ UNCHANGED <<part, intVars, frVars>>
DesktopSpec == DesktopInit /\ [][DesktopNext]_<<part, intVars, frVars, kitVars>>
=============================================================================

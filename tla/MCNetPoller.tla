---------------------------- MODULE MCNetPoller ----------------------------
(***************************************************************************)
(* NetPoller for TLC: the firmware's two application tasks, or one.        *)
(***************************************************************************)
EXTENDS NetPoller, TLC

CONSTANTS mqtt_task, http_task

TaskSymmetry == Permutations(Tasks)
=============================================================================

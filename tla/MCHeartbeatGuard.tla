-------------------------- MODULE MCHeartbeatGuard --------------------------
(* HeartbeatGuard for TLC, with the guard of the live engine. *)
EXTENDS HeartbeatGuard

CONSTANTS h1, h2

Spec == HbInit /\ guard = "live" /\ [][HbNext]_hbVars
=============================================================================

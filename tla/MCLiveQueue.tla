---------------------------- MODULE MCLiveQueue -----------------------------
(* LiveQueue for TLC: one order with up to three rows, twins among them. *)
EXTENDS LiveQueue
=============================================================================

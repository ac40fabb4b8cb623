---------------------------- MODULE MCOrderSync ----------------------------
(* OrderSync for TLC: one or two orders, of two products or with a bundle. *)
EXTENDS OrderSync

CONSTANTS i1, i2, c1

Products == [i \in Item |-> {}]
OneBundle == [i \in Item |-> IF i = i1 THEN {c1} ELSE {}]
=============================================================================

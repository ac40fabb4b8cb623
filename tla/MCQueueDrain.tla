---------------------------- MODULE MCQueueDrain ----------------------------
(* Two held orders that share a blocker; the first has a second row. *)
EXTENDS QueueDrain

CONSTANTS o1, o2, p1, p2

MCItems == o1 :> {p1} @@ o2 :> {p1, p2}
MCOrderOf == <<o1, o2, o1>>
=============================================================================

------------------------------ MODULE RowLife ------------------------------
(***************************************************************************)
(* What a queue tab promises of each of its rows, whoever reads, marks or  *)
(* trims it: a row is worked on until it is parked (held, or out of        *)
(* attempts) or closed (done or gone); a parked row can still be closed by *)
(* a path outside the queue, none is ever worked on again; and only a      *)
(* closed row leaves the sheet, for good.                                  *)
(***************************************************************************)
CONSTANT RowId
VARIABLE life

Init == life = [k \in RowId |-> "absent"]

\* A batch: all of S, rows in one of the stages from, go to the stage to.
Move(S, from, to) ==
    /\ \A k \in S : life[k] \in from
    /\ life' = [k \in RowId |-> IF k \in S THEN to ELSE life[k]]

\* Rows are appended; a batch write moves every row on, or leaves it; a trim.
Enqueue == \E S \in SUBSET RowId : Move(S, {"absent"}, "open")
Mark ==
    /\ life' \in [RowId -> {"absent", "open", "parked", "closed", "removed"}]
    /\ \A k \in RowId :
         \/ life'[k] = life[k]
         \/ life[k] = "open" /\ life'[k] \in {"parked", "closed"}
         \/ life[k] = "parked" /\ life'[k] = "closed"
Remove == \E S \in SUBSET RowId : Move(S, {"closed"}, "removed")

Next == Enqueue \/ Mark \/ Remove

Spec == Init /\ [][Next]_life
=============================================================================

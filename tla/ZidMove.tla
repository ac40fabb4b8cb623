------------------------------ MODULE ZidMove -------------------------------
(***************************************************************************)
(* Freeing a Salla order number n an imported Zid order holds              *)
(* (zid_rekey.py, backfill.py zid_auto_rekey), and taking a Zid order out  *)
(* of the Salla order it was merged into (tools/zid_unmerge.py).  Both are *)
(* a plan read from HubSpot and a list of writes, none of them atomic with *)
(* the next; an engine lane and a person at the command line may run the   *)
(* first at the same time, and either may fail or be killed at any write.  *)
(***************************************************************************)
EXTENDS Naturals, Sequences, FiniteSets

CONSTANT ZidMaxFaults   \* bound on failed calls and kills

ASSUME ZidAssumption == ZidMaxFaults \in Nat

VARIABLES
    standing,  \* what of the Zid order still stands under n: a set of steps
    sallaSide, \* the Salla order n in HubSpot, its items attached
    entry,     \* the created ledger's entry for n: "zid", "salla" or "none"
    mover,     \* lane and command line: pc, steps left, report
    merged,    \* the order merged into a Salla order: what has been moved apart
    unmerge,   \* pc and steps left of tools/zid_unmerge.py
    zidFaults

moveVars == <<standing, sallaSide, entry, mover>>
unmergeVars == <<merged, unmerge>>
zidVars == <<moveVars, unmergeVars, zidFaults>>

(* The writes of ZidRekey.apply, in their order. *)
MoveSteps == <<"order", "zidItems", "sallaItems", "detachWarranties", "updateWarranties", "revoke">>

(* The writes of zid_unmerge.apply. *)
UnmergeSteps == <<"create", "detach", "attach", "itemKey", "warrantyKey",
                  "warrantyDetach", "warrantyAttach", "label">>
Moves == {"detach", "attach", "itemKey", "warrantyKey", "warrantyDetach", "warrantyAttach"}

(* The steps that are left are a set; the next is the first of them in order. *)
StepsIn(order) == {order[i] : i \in 1..Len(order)}
FirstIn(order, S) ==
    order[CHOOSE i \in 1..Len(order) : order[i] \in S /\ \A j \in 1..(i - 1) : order[j] \notin S]

Mover == {"lane", "cli"}
NoMove == [pc |-> "idle", steps |-> {}]

ZidInit ==
    /\ standing \in {S \in SUBSET (StepsIn(MoveSteps) \ {"revoke"}) : "order" \in S}
    /\ sallaSide = FALSE
    /\ entry \in {"none", "zid"}
    /\ mover = [p \in Mover |-> NoMove]
    /\ merged = {} /\ unmerge = NoMove
    /\ zidFaults = ZidMaxFaults

ZidFault == zidFaults > 0 /\ zidFaults' = zidFaults - 1

-----------------------------------------------------------------------------
(* mutant: an order moved before is taken to be done *)
PlannedUnlessResumed == (IF "order" \in standing THEN standing ELSE {}) \cup {"revoke"}

(* ZidRekey.plan, by what each record holds now; an order that is at Z<n>
   already is resumed. *)
Planned == standing \cup {"revoke"}

(* A lane meets the Zid order when it creates n (create_order raises
   ZidCollision); the command line is given the Zid order. *)
PlanMove(p) ==
    /\ mover[p].pc = "idle"
    /\ p = "lane" => "order" \in standing /\ ~sallaSide
    /\ mover' = [mover EXCEPT ![p] = [pc |-> "moving", steps |-> Planned]]
    /\ UNCHANGED <<standing, sallaSide, entry, merged, unmerge, zidFaults>>

NextOf(p) == FirstIn(MoveSteps, mover[p].steps)
NextStep(p) ==
    LET left == mover[p].steps \ {NextOf(p)} IN
    mover' = [mover EXCEPT ![p] = [pc |-> IF left = {} THEN "moved" ELSE "moving",
                                   steps |-> left]]

(* One write of apply, a no-op where it was done before. *)
MoveStep(p) ==
    /\ mover[p].pc = "moving"
    /\ standing' = standing \ {NextOf(p)}
    /\ entry' = IF NextOf(p) = "revoke" THEN "none" ELSE entry
    /\ NextStep(p)
    /\ UNCHANGED <<sallaSide, merged, unmerge, zidFaults>>

(* The write raises, with or without effect, or the process is killed: the
   lane parks its order, the command line counts it as failed. *)
MoveFails(p) ==
    /\ mover[p].pc = "moving"
    /\ ZidFault
    /\ \/ UNCHANGED <<standing, entry>>
       \/ standing' = standing \ {NextOf(p)} /\ UNCHANGED entry
    /\ mover' = [mover EXCEPT ![p] = NoMove]
    /\ UNCHANGED <<sallaSide, merged, unmerge>>

(* The caller goes on: a new run of the tool, or the lane's create. *)
Reported(p) ==
    /\ mover[p].pc = "moved"
    /\ mover' = [mover EXCEPT ![p] = NoMove]
    /\ UNCHANGED <<standing, sallaSide, entry, merged, unmerge, zidFaults>>

(* The number is free: an engine creates the Salla order, attaches its items
   by their unique key and ledgers it. *)
CreateSalla ==
    /\ "order" \notin standing /\ ~sallaSide
    /\ mover["lane"].pc # "moving"
    /\ sallaSide' = TRUE /\ entry' = "salla"
    /\ UNCHANGED <<standing, mover, merged, unmerge, zidFaults>>

-----------------------------------------------------------------------------
(* zid_unmerge: merged_orders lists what still has the Zid label; an order
   whose Z<n> exists is skipped. *)
PlanUnmerge ==
    /\ unmerge.pc = "idle" /\ "label" \notin merged /\ "create" \notin merged
    /\ \E some \in SUBSET Moves :   \* items and warranties it has
         unmerge' = [pc |-> "moving", steps |-> some \cup {"create", "label"}]
    /\ UNCHANGED <<standing, sallaSide, entry, mover, merged, zidFaults>>

NextApart == FirstIn(UnmergeSteps, unmerge.steps)
WriteApart == merged' = merged \cup {NextApart}

UnmergeStep ==
    /\ unmerge.pc = "moving"
    /\ WriteApart
    /\ unmerge' = IF unmerge.steps = {NextApart} THEN NoMove
                  ELSE [unmerge EXCEPT !.steps = @ \ {NextApart}]
    /\ UNCHANGED <<standing, sallaSide, entry, mover, zidFaults>>

UnmergeFails ==
    /\ unmerge.pc = "moving"
    /\ ZidFault
    /\ unmerge' = [unmerge EXCEPT !.pc = "failed"]
    /\ UNCHANGED <<standing, sallaSide, entry, mover, merged>>

(* The two tools work on different orders. *)
MoveNext ==
    \/ \E p \in Mover : PlanMove(p) \/ MoveStep(p) \/ MoveFails(p) \/ Reported(p)
    \/ CreateSalla

UnmergeNext == PlanUnmerge \/ UnmergeStep \/ UnmergeFails

-----------------------------------------------------------------------------
(* A re-key that reports success has moved all of the Zid order, also when it
   resumes one that failed half way, twice, or while the other process moves
   the same order ("a run that failed half way can simply be repeated").  And a
   merged order whose separation failed half way keeps the Zid label, by which
   the tool lists it (merged_orders), until its last item is moved. *)
MovedWhole ==
    /\ \A p \in Mover : mover[p].pc = "moved" => standing = {}
    /\ "label" \in merged => unmerge.pc = "idle"
=============================================================================

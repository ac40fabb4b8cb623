----------------------------- MODULE Reconcile -----------------------------
(***************************************************************************)
(* The weekly reconciliation (reconcile.py) with the stage sweep it shares *)
(* with tools/stage_resweep.py: its phases measure HubSpot against Salla,  *)
(* one certificate tells what they found, and only then it is repaired.  A *)
(* run that is cut short leaves the phases it finished in                  *)
(* mirror/reconcile_run.json; a later run of the same week takes them from *)
(* there.  Of the phases, "counts" and "properties" feed repairs; of the   *)
(* others what matters here is whether they could be read, which the       *)
(* advisory ones need not be.  One run at a time (flock); the gate that    *)
(* skips a run during an outage is left out.                               *)
(***************************************************************************)
EXTENDS Naturals, Sequences, FiniteSets

CONSTANTS
    Swept,        \* the orders, as HubSpot's search sorts them
    Delivered,    \* the last of the stages 1..Delivered, the terminal one
    HydrateMax,   \* reconcile_hydrate_max
    PatchBatch,   \* orders in one batch update
    BackfillMax,  \* reconcile_backfill_max
    InsaneOrders, \* reconcile_insane_orders
    RcRuns,       \* bound on runs
    RcMaxFaults   \* bound on unreadable sources, refused calls and kills

SweptOrder == {Swept[i] : i \in 1..Len(Swept)}

ASSUME ReconcileAssumption ==
    /\ Swept \in Seq(SweptOrder) /\ Cardinality(SweptOrder) = Len(Swept)
    /\ {Delivered, HydrateMax, PatchBatch, RcRuns} \subseteq Nat \ {0}
    /\ {BackfillMax, InsaneOrders, RcMaxFaults} \subseteq Nat

VARIABLES
    salla,    \* order -> the stage of its Salla status
    stored,   \* order -> its stage in HubSpot, 0 when HubSpot has no such order
    aged,     \* the orders created before the cutoff, reconcile_stale_stage_days ago
    tier,     \* reconcile_autorepair_tier
    week,     \* the week it is
    manifest, \* reconcile_run.json: its week, and phase -> finding
    audit,    \* the run
    drift,    \* history: aged orders wrong since this week's audit began, still in Salla
    unread,   \* history: the orders whose payload the last sweep could not use
    finished, \* history: the last audit's week, and whether it came to its end
    missed,   \* history: order -> sweeps in a row that left it out
    runs, rcFaults

rcVars == <<salla, stored, aged, tier, week, manifest, audit, drift, unread, finished, missed, runs, rcFaults>>
rcWorld == <<salla, stored, aged>>
rcBounds == <<tier, week, runs>>

Phases == <<"counts", "samples", "properties", "pipeline", "catalog", "make queue">>
Advisory == {"make queue", "catalog"}
Phase == {Phases[i] : i \in 1..Len(Phases)}

Unmeasured == [measured |-> FALSE, missing |-> {}, stale |-> {}, capped |-> {}]
Measured == [Unmeasured EXCEPT !.measured = TRUE]
NoAudit == [pc |-> "idle", week |-> 0, found |-> <<>>, stale |-> {}, refused |-> {}]

RcInit ==
    /\ salla \in [SweptOrder -> 1..Delivered] /\ stored \in [SweptOrder -> 0..Delivered]
    /\ \A o \in SweptOrder : stored[o] <= salla[o]
    /\ aged \in SUBSET SweptOrder
    /\ tier \in 0..2 /\ week = 1
    /\ manifest = [week |-> 0, found |-> <<>>]
    /\ audit = NoAudit /\ drift = {} /\ unread = {} /\ finished = [week |-> 0, whole |-> TRUE]
    /\ missed = [o \in SweptOrder |-> 0]
    /\ runs = RcRuns /\ rcFaults = RcMaxFaults

RcFault == rcFaults > 0 /\ rcFaults' = rcFaults - 1
Wrong == {o \in SweptOrder : stored[o] \notin {0, salla[o]}}
SetTo(orders) == [o \in SweptOrder |-> IF o \in orders THEN salla[o] ELSE stored[o]]

-----------------------------------------------------------------------------
(* The order moves on in Salla; the status relay moves its stage, or not. *)
SallaAdvances ==
    /\ \E o \in SweptOrder, told \in BOOLEAN :
          /\ salla[o] < Delivered /\ salla' = [salla EXCEPT ![o] = @ + 1]
          /\ stored' = IF told /\ stored[o] # 0 THEN [stored EXCEPT ![o] = salla[o] + 1] ELSE stored
          /\ drift' = drift \ {o}
    /\ UNCHANGED <<aged, rcBounds, manifest, audit, finished, unread, missed, rcFaults>>

(* Days go by: an order comes under the cutoff. *)
OrderAges ==
    /\ \E o \in SweptOrder \ aged : aged' = aged \cup {o}
    /\ UNCHANGED <<salla, stored, rcBounds, manifest, audit, drift, finished, unread, missed, rcFaults>>

NextWeek ==
    /\ week = 1 /\ week' = 2
    /\ UNCHANGED <<rcWorld, tier, manifest, audit, drift, finished, unread, missed, runs, rcFaults>>

-----------------------------------------------------------------------------
(* mutant: whatever manifest there is *)
LoadManifestAny == manifest.found

(* A manifest of another week does not count. *)
LoadManifest == IF manifest.week = week THEN manifest.found ELSE <<>>

StartAudit ==
    LET fresh == finished.whole \/ finished.week # week IN
    /\ audit.pc = "idle" /\ runs > 0 /\ runs' = runs - 1
    /\ audit' = [NoAudit EXCEPT !.pc = "phases", !.week = week, !.found = LoadManifest]
    /\ drift' = IF fresh THEN Wrong \cap aged ELSE drift
    /\ finished' = [week |-> week, whole |-> FALSE]
    /\ UNCHANGED <<rcWorld, tier, week, manifest, unread, missed, rcFaults>>

NextPhase == Phases[Len(audit.found) + 1]
Keep(finding) ==
    /\ audit' = [audit EXCEPT !.found = Append(@, finding)]
    /\ manifest' = [week |-> audit.week, found |-> Append(audit.found, finding)]
InPhase(p) == audit.pc = "phases" /\ Len(audit.found) < Len(Phases) /\ NextPhase = p

(* phase_counts and drilldown_day: the orders HubSpot lacks, by name. *)
PhaseCounts ==
    /\ InPhase("counts")
    /\ Keep([Measured EXCEPT !.missing = {o \in SweptOrder : stored[o] = 0}])
    /\ UNCHANGED <<rcWorld, rcBounds, drift, finished, unread, missed, rcFaults>>

(* Orders are taken in the order of the search. *)
SweptPlace(o) == CHOOSE i \in 1..Len(Swept) : Swept[i] = o
FirstSwept(S, n) == {o \in S : Cardinality({q \in S : SweptPlace(q) < SweptPlace(o)}) < n}

(* collect: the orders in non-terminal stages that were created before the
   cutoff, and those of them that are hydrated. *)
Candidates == {o \in aged : stored[o] \in 1..(Delivered - 1)}
Hydrated == FirstSwept(Candidates, HydrateMax)

(* plan_patch of every payload; a missing or degraded one is passed over and
   the finding does not tell of it.  It counts the orders beyond the cap. *)
PhaseProperties ==
    /\ InPhase("properties")
    /\ \E odd \in SUBSET Hydrated :
          /\ IF odd = {} THEN UNCHANGED rcFaults ELSE RcFault
          /\ Keep([Measured EXCEPT !.stale = {<<o, salla[o]>> : o \in (Hydrated \ odd) \cap Wrong},
                                   !.capped = Candidates \ Hydrated])
          /\ unread' = odd
    /\ missed' = [o \in SweptOrder |-> IF o \in Candidates \ Hydrated THEN missed[o] + 1 ELSE 0]
    /\ UNCHANGED <<rcWorld, rcBounds, drift, finished>>

(* A phase that nothing is repaired from: NOT RECORDED when its source cannot
   be read, which the manifest keeps. *)
Reports(p) ==
    /\ InPhase(p)
    /\ \/ Keep(Measured) /\ UNCHANGED rcFaults
       \/ Keep(Unmeasured) /\ RcFault
    /\ UNCHANGED <<rcWorld, rcBounds, drift, finished, unread, missed>>

PhaseSamples == Reports("samples")
PhasePipeline == Reports("pipeline")
PhaseCatalog == Reports("catalog")
PhaseMakeQueue == Reports("make queue")

(* The relay does not answer the counts or the sweep. *)
PhaseUnreadable ==
    /\ InPhase("counts") \/ InPhase("properties")
    /\ Keep(Unmeasured) /\ RcFault
    /\ UNCHANGED <<rcWorld, rcBounds, drift, finished, unread, missed>>

-----------------------------------------------------------------------------
DriftFound(p) == audit.found[CHOOSE i \in 1..Len(Phases) : Phases[i] = p]

(* The world, or the measurement, cannot be trusted. *)
Insane ==
    \/ \E p \in Phase \ Advisory : ~DriftFound(p).measured
    \/ Cardinality(DriftFound("counts").missing) > InsaneOrders

(* write_state and the certificate; then the repairs, if the tier has them. *)
Certify ==
    /\ audit.pc = "phases" /\ Len(audit.found) = Len(Phases)
    /\ audit' = IF Insane \/ tier = 0 THEN [audit EXCEPT !.pc = "report"]
                ELSE [audit EXCEPT !.pc = "stages", !.stale = DriftFound("properties").stale]
    /\ UNCHANGED <<rcWorld, rcBounds, manifest, drift, finished, unread, missed, rcFaults>>

Batch1 == FirstSwept({x[1] : x \in audit.stale}, PatchBatch)

(* repair_stages, flush_batch: the stages as they were when they were measured. *)
RepairStages ==
    LET sent == {x \in audit.stale : x[1] \in Batch1}
        To(o) == (CHOOSE x \in sent : x[1] = o)[2]
        rest == audit.stale \ sent
    IN
    /\ audit.pc = "stages" /\ audit.stale # {}
    /\ \/ /\ stored' = [o \in SweptOrder |-> IF o \in Batch1 THEN To(o) ELSE stored[o]]
          /\ audit' = [audit EXCEPT !.stale = rest]
          /\ UNCHANGED rcFaults
       \/ /\ RcFault /\ UNCHANGED stored
          /\ audit' = [audit EXCEPT !.stale = rest, !.refused = @ \cup Batch1]
    /\ UNCHANGED <<salla, aged, rcBounds, manifest, drift, finished, unread, missed>>

(* repair_backfill_prepare and the sweep of the missing days: a backfill of its
   own, which skips what HubSpot has by now. *)
RepairMissing ==
    LET missing == DriftFound("counts").missing IN
    /\ audit.pc = "stages" /\ audit.stale = {}
    /\ stored' = IF tier = 2 /\ Cardinality(missing) <= BackfillMax
                 THEN SetTo({o \in missing : stored[o] = 0}) ELSE stored
    /\ audit' = [audit EXCEPT !.pc = "report"]
    /\ UNCHANGED <<salla, aged, rcBounds, manifest, drift, finished, unread, missed, rcFaults>>

(* A completed run clears its manifest. *)
Cleared == [week |-> 0, found |-> <<>>]

FinishAudit ==
    /\ audit.pc = "report"
    /\ audit' = NoAudit /\ manifest' = Cleared
    /\ finished' = [finished EXCEPT !.whole = TRUE]
    /\ UNCHANGED <<rcWorld, rcBounds, drift, unread, missed, rcFaults>>

(* A kill, an error on the way, or STOP.reconcile. *)
AuditCut ==
    /\ audit.pc # "idle" /\ RcFault
    /\ audit' = NoAudit
    /\ UNCHANGED <<rcWorld, rcBounds, manifest, drift, finished, unread, missed>>

RcNext ==
    \/ SallaAdvances \/ OrderAges \/ NextWeek \/ StartAudit \/ PhaseCounts \/ PhaseSamples \/ PhaseProperties
    \/ PhasePipeline \/ PhaseCatalog \/ PhaseMakeQueue \/ PhaseUnreadable \/ Certify \/ RepairStages \/ RepairMissing \/ FinishAudit \/ AuditCut

-----------------------------------------------------------------------------
RcTypeOK ==
    /\ salla \in [SweptOrder -> 1..Delivered] /\ stored \in [SweptOrder -> 0..Delivered]
    /\ Len(audit.found) <= Len(Phases) /\ manifest.week \in 0..2
    /\ unread \subseteq SweptOrder /\ drift \subseteq aged /\ aged \subseteq SweptOrder /\ audit.refused \subseteq SweptOrder

(* An order old enough to be swept whose stage was wrong when the week's audit
   began, and whose Salla status stands still since, is right when a run reports
   with nothing suppressed, whatever earlier runs of the week were cut short:
   unless it is past the stages that are swept, is beyond the cap (which the
   certificate counts), was refused (which the repair says), or came back from
   the relay missing or degraded, of which nothing is said. *)
DriftRepaired ==
    audit.pc = "report" /\ ~Insane /\ tier > 0 =>
        \A o \in drift :
            \/ stored[o] \in {salla[o], Delivered}
            \/ o \in DriftFound("properties").capped \cup audit.refused \cup unread

(* "further non-terminal candidate(s) beyond the hydrate cap; next run
   continues" (phase_properties): no order is left out again and again. *)
NextRunContinues ==
    \A o \in SweptOrder : missed[o] * HydrateMax < Cardinality(SweptOrder)

(* The audit "re-derives the Salla-to-HubSpot truth from scratch": a repair does
   not put an order back to a stage that HubSpot has already left. *)
NeverBack ==
    [][audit.pc = "stages" => \A o \in SweptOrder : stored[o] <= stored'[o]]_rcVars
=============================================================================

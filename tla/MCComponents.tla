---------------------------- MODULE MCComponents ----------------------------
(* Components that share no state: each behaviour runs the one `part` names. *)
EXTENDS BackfillRun, AuditLog, CatalogGate, CustomerSync, ZidMove, CreatedLedger,
        AdaptiveLimiter, IssueRegistry, HeldThreads, HeartbeatGuard, CreditWatch,
        GiftRefresh, RelayHealth, ZedEmit, Reconcile, ContactOf, Escalation

CONSTANTS o1, o2, o3, lane1, lane2, lane3, engine, tool, h1, h2, ops, client, p1, p2

VARIABLE part

MCPages == <<<<{o1, o2}, {o3}>>, <<>>, <<{o2}>>>>
MCItems == o1 :> {p1, p2} @@ o2 :> {p1}
MCOrderIn == lane1 :> o1 @@ lane2 :> o2
MCGifts == <<o1, o2>>
MCPlan == <<o1, o2, o3>>
MCPlanLines == o1 :> {p1, p2} @@ o2 :> {p1} @@ o3 :> {p2}
MCCtLanes == engine :> {lane1, lane2} @@ tool :> {lane3}

\* Rates 1..4, an interval of 4 ticks at rate 1.
Intervals == [r \in 1..4 |-> <<4, 2, 2, 1>>[r]]
Halved == [r \in 1..4 |-> r \div 2]
ThreeQuarters == [r \in 1..4 |-> (3 * r) \div 4]

Init ==
    /\ part \in {"backfill", "audit", "gate", "customers", "rekey", "unmerge", "ledger", "limiter",
                  "issues", "held", "heartbeat", "credits", "gifts", "health", "import",
                  "reconcile", "contacts", "escalation", "digest"}
    \* a part that does not run starts in one state only
    /\ BfInit /\ AuditInit /\ HtInit /\ CwInit /\ RhInit /\ EmInit /\ CtInit
    /\ EsStart
    /\ GateInit /\ (part = "gate" \/ ~drains)
    /\ CustInit /\ (part = "customers" \/ (holder = [c \in Customer |-> "none"] /\ spare = {}))
    /\ ZidInit /\ (part = "rekey" \/ (standing = {"order"} /\ entry = "none"))
    /\ LedgerInit /\ (part = "ledger" \/ \A p \in Process : asked[p].oid = o1)
    /\ LimInit /\ (part = "limiter" \/ busy = "idle")
    /\ IrInit /\ (part = "issues" \/ keyKind = "zid")
    /\ HbInit /\ (part = "heartbeat" \/ guard = "tab")
    /\ GtInit /\ (part = "gifts" \/ \A o \in GiftOrder : gift[o] = "plain" /\ stamp[o].incomplete)
    /\ RcInit /\ (part = "reconcile" \/ (tier = 0 /\ salla = [o \in SweptOrder |-> 1] /\ stored = salla /\ aged = SweptOrder))

AllVars ==
    <<bfVars, auditVars, gateVars, custVars, zidVars, ledgerVars, limVars, irVars, htVars,
      hbVars, cwVars, gtVars, rhVars, emVars, rcVars, ctVars, esAll>>

Next ==
    /\ UNCHANGED part
    /\ \/ part = "backfill" /\ BfNext
          /\ UNCHANGED <<auditVars, gateVars, custVars, zidVars, ledgerVars, limVars, irVars,
                        htVars, hbVars, cwVars, gtVars, rhVars, emVars,
                        rcVars, ctVars, esAll>>
       \/ part = "audit" /\ AuditNext
          /\ UNCHANGED <<bfVars, gateVars, custVars, zidVars, ledgerVars, limVars, irVars, htVars,
                        hbVars, cwVars, gtVars, rhVars, emVars, rcVars,
                        ctVars, esAll>>
       \/ part = "gate" /\ GateNext
          /\ UNCHANGED <<bfVars, auditVars, custVars, zidVars, ledgerVars, limVars, irVars, htVars,
                        hbVars, cwVars, gtVars, rhVars, emVars, rcVars,
                        ctVars, esAll>>
       \/ part = "customers" /\ CustNext
          /\ UNCHANGED <<bfVars, auditVars, gateVars, zidVars, ledgerVars, limVars, irVars, htVars,
                        hbVars, cwVars, gtVars, rhVars, emVars, rcVars,
                        ctVars, esAll>>
       \/ part = "rekey" /\ MoveNext
          /\ UNCHANGED <<bfVars, auditVars, gateVars, custVars, ledgerVars, limVars, irVars,
                        htVars, hbVars, cwVars, gtVars, rhVars, emVars,
                        rcVars, ctVars, esAll>>
       \/ part = "unmerge" /\ UnmergeNext
          /\ UNCHANGED <<bfVars, auditVars, gateVars, custVars, ledgerVars, limVars, irVars,
                        htVars, hbVars, cwVars, gtVars, rhVars, emVars,
                        rcVars, ctVars, esAll>>
       \/ part = "ledger" /\ LedgerNext
          /\ UNCHANGED <<bfVars, auditVars, gateVars, custVars, zidVars, limVars, irVars, htVars,
                        hbVars, cwVars, gtVars, rhVars, emVars, rcVars,
                        ctVars, esAll>>
       \/ part = "limiter" /\ LimNext
          /\ UNCHANGED <<bfVars, auditVars, gateVars, custVars, zidVars, ledgerVars, irVars,
                        htVars, hbVars, cwVars, gtVars, rhVars, emVars,
                        rcVars, ctVars, esAll>>
       \/ part = "issues" /\ IrNext
          /\ UNCHANGED <<bfVars, auditVars, gateVars, custVars, zidVars, ledgerVars, limVars,
                        htVars, hbVars, cwVars, gtVars, rhVars, emVars,
                        rcVars, ctVars, esAll>>
       \/ part = "held" /\ HtNext
          /\ UNCHANGED <<bfVars, auditVars, gateVars, custVars, zidVars, ledgerVars, limVars,
                        irVars, hbVars, cwVars, gtVars, rhVars, emVars,
                        rcVars, ctVars, esAll>>
       \/ part = "heartbeat" /\ HbNext
          /\ UNCHANGED <<bfVars, auditVars, gateVars, custVars, zidVars, ledgerVars, limVars,
                        irVars, htVars, cwVars, gtVars, rhVars, emVars,
                        rcVars, ctVars, esAll>>
       \/ part = "credits" /\ CwNext
          /\ UNCHANGED <<bfVars, auditVars, gateVars, custVars, zidVars, ledgerVars, limVars,
                        irVars, htVars, hbVars, gtVars, rhVars, emVars,
                        rcVars, ctVars, esAll>>
       \/ part = "gifts" /\ GtNext
          /\ UNCHANGED <<bfVars, auditVars, gateVars, custVars, zidVars, ledgerVars, limVars,
                        irVars, htVars, hbVars, cwVars, rhVars, emVars,
                        rcVars, ctVars, esAll>>
       \/ part = "health" /\ RhNext
          /\ UNCHANGED <<bfVars, auditVars, gateVars, custVars, zidVars, ledgerVars, limVars,
                        irVars, htVars, hbVars, cwVars, gtVars, emVars,
                        rcVars, ctVars, esAll>>
       \/ part = "import" /\ EmNext
          /\ UNCHANGED <<bfVars, auditVars, gateVars, custVars, zidVars, ledgerVars, limVars,
                        irVars, htVars, hbVars, cwVars, gtVars, rhVars,
                        rcVars, ctVars, esAll>>
       \/ part = "reconcile" /\ RcNext
          /\ UNCHANGED <<bfVars, auditVars, gateVars, custVars, zidVars, ledgerVars, limVars,
                        irVars, htVars, hbVars, cwVars, gtVars, rhVars,
                        emVars, ctVars, esAll>>
       \/ part = "contacts" /\ CtNext
          /\ UNCHANGED <<bfVars, auditVars, gateVars, custVars, zidVars, ledgerVars, limVars,
                        irVars, htVars, hbVars, cwVars, gtVars, rhVars,
                        emVars, rcVars, esAll>>
       \/ part = "escalation" /\ EsNext
          /\ UNCHANGED <<bfVars, auditVars, gateVars, custVars, zidVars, ledgerVars, limVars,
                        irVars, htVars, hbVars, cwVars, gtVars, rhVars,
                        emVars, rcVars, ctVars>>
       \/ part = "digest" /\ DigestNext
          /\ UNCHANGED <<bfVars, auditVars, gateVars, custVars, zidVars, ledgerVars, limVars,
                        irVars, htVars, hbVars, cwVars, gtVars, rhVars,
                        emVars, rcVars, ctVars>>

Spec == Init /\ [][Next]_<<part, AllVars>>
=============================================================================

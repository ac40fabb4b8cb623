-------------------------- MODULE MCIssueRegistry --------------------------
(* IssueRegistry for TLC: the services go on, and retry again and again. *)
EXTENDS IssueRegistry

CONSTANTS ops, client

Spec ==
    /\ IrInit /\ [][IrNext]_irVars
    /\ \A s \in Service : WF_irVars(ServiceStep(s))
    /\ \A s \in {"relay", "watch"} : SF_irVars(Retries(s))
    /\ WF_irVars(ShowOrder)
=============================================================================

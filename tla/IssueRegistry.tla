--------------------------- MODULE IssueRegistry ---------------------------
(***************************************************************************)
(* The registry of Slack threads (notify.py), for the thread of one order  *)
(* that is missing in HubSpot: it is opened by the status relay when it    *)
(* gives up ("status-missing:<order>"), or by the relay and by a lane that *)
(* parks the order ("zid:<order>"), and answered when the order exists.    *)
(* Several services share the file; every change of it is under a lock,    *)
(* every post is outside of it.  A post may be refused, or be taken with   *)
(* its answer lost, and a service may be killed between any two steps.     *)
(***************************************************************************)
EXTENDS Naturals, FiniteSets

CONSTANTS
    Channel,      \* Slack channels
    Episodes,     \* bound on the times the thread is opened
    IrMaxFaults   \* bound on refused or unanswered posts and kills

ASSUME IssueAssumption == Episodes \in Nat \ {0} /\ IrMaxFaults \in Nat

VARIABLES
    keyKind,   \* "missing" or "zid"
    order,     \* the order: exists in HubSpot, shown by its search
    rec,       \* the record under the key: state, episode, threads, holder
    aside,     \* the resolving records kept under key~rid
    job,       \* service -> pc, episode, channels left, channels that took the post
    headlines, \* history: <<episode, channel>> -> headlines posted
    unsure,    \* history: episodes of an open that was killed or got no answer
    promised,  \* history: episodes issue_resolve has closed for its caller
    answered,  \* history: episodes with a reply in their thread
    irFaults

irHistory == <<headlines, unsure, promised, answered>>
irVars == <<keyKind, order, rec, aside, job, irHistory, irFaults>>

\* watch stands for the services that only retry: credit watch and live settle.
Service == {"lane", "relay", "watch"}
NoRecord == [state |-> "none", ep |-> 0, threads |-> {}, holder |-> "none"]
NoJob == [pc |-> "idle", ep |-> 0, left |-> {}, took |-> {}]

IrInit ==
    /\ keyKind \in {"missing", "zid"}
    /\ order = [exists |-> FALSE, shown |-> FALSE]
    /\ rec = NoRecord /\ aside = {}
    /\ job = [s \in Service |-> NoJob]
    /\ headlines = [x \in (1..Episodes) \X Channel |-> 0]
    /\ unsure = {} /\ promised = {} /\ answered = {}
    /\ irFaults = IrMaxFaults

IrFault == irFaults > 0 /\ irFaults' = irFaults - 1
Becomes(s, j) == job' = [job EXCEPT ![s] = j]
Wants(s, pc) == Becomes(s, [NoJob EXCEPT !.pc = pc])

-----------------------------------------------------------------------------
(* The callers: each decides first and calls the registry after. *)

(* handle_row after the last of its tries finds no Salla order. *)
GivesUp ==
    /\ job["relay"].pc = "idle" /\ ~order.shown
    /\ Wants("relay", "raise")
    /\ UNCHANGED <<keyKind, order, rec, aside, irHistory, irFaults>>

(* zid_collision. *)
Parks ==
    /\ keyKind = "zid" /\ job["lane"].pc = "idle" /\ ~order.exists
    /\ Wants("lane", "raise")
    /\ UNCHANGED <<keyKind, order, rec, aside, irHistory, irFaults>>

(* route_create, then resolve_order_issues. *)
Creates ==
    /\ job["lane"].pc = "idle" /\ ~order.exists
    /\ order' = [order EXCEPT !.exists = TRUE]
    /\ Wants("lane", "resolve")
    /\ UNCHANGED <<keyKind, rec, aside, irHistory, irFaults>>

ShowOrder ==
    /\ order.exists /\ order' = [order EXCEPT !.shown = TRUE]
    /\ UNCHANGED <<keyKind, rec, aside, job, irHistory, irFaults>>

(* A later status is written to the order's stage. *)
Applies ==
    /\ keyKind = "missing" /\ job["relay"].pc = "idle" /\ order.shown
    /\ Wants("relay", "resolve")
    /\ UNCHANGED <<keyKind, order, rec, aside, irHistory, irFaults>>

-----------------------------------------------------------------------------
(* issue_open *)

(* A claim is given up only after OPENING_TTL_S, which covers its slowest
   step: the holder is gone by then. *)
Orphaned == rec.state = "opening" /\ rec.holder = "none"

JoinOpen(s) ==
    /\ job[s].pc = "raise" /\ rec.state \in {"open", "opening", "failed"}
    /\ Wants(s, "idle")
    /\ UNCHANGED <<keyKind, order, rec, aside, irHistory, irFaults>>

(* mutant: the reply that is still due is overwritten *)
SetAsideNever == aside

SetAside == IF rec.state = "resolving" THEN aside \cup {rec} ELSE aside

ClaimOpen(s) ==
    /\ job[s].pc = "raise"
    /\ rec.state \in {"none", "closed", "resolving"} \/ Orphaned
    /\ LET ep == IF Orphaned THEN rec.ep ELSE rec.ep + 1 IN
       /\ ep <= Episodes
       /\ rec' = [state |-> "opening", ep |-> ep, threads |-> {}, holder |-> s]
       /\ Becomes(s, [pc |-> "post", ep |-> ep, left |-> Channel, took |-> {}])
    /\ aside' = SetAside
    /\ UNCHANGED <<keyKind, order, irHistory, irFaults>>

(* _post_thread: taken, refused, or taken with no answer. *)
PostHeadline(s, c) ==
    LET ep == job[s].ep
        posted == [headlines EXCEPT ![<<ep, c>>] = @ + 1]
    IN
    /\ job[s].pc = "post" /\ c \in job[s].left
    /\ \/ /\ Becomes(s, [job[s] EXCEPT !.left = @ \ {c}, !.took = @ \cup {c}])
          /\ headlines' = posted
          /\ UNCHANGED <<unsure, irFaults>>
       \/ /\ IrFault
          /\ Becomes(s, [job[s] EXCEPT !.left = @ \ {c}])
          /\ \/ UNCHANGED <<headlines, unsure>>
             \/ headlines' = posted /\ unsure' = unsure \cup {ep}
    /\ UNCHANGED <<keyKind, order, rec, aside, promised, answered>>

FinishOpen(s) ==
    /\ job[s].pc = "post" /\ job[s].left = {}
    /\ rec' = [rec EXCEPT !.state = IF job[s].took = {} THEN "failed" ELSE "open",
                          !.threads = job[s].took, !.holder = "none"]
    /\ Wants(s, "idle")
    /\ UNCHANGED <<keyKind, order, aside, irHistory, irFaults>>

-----------------------------------------------------------------------------
(* issue_resolve *)

StartReply(s, r) ==
    Becomes(s, [pc |-> "reply", ep |-> r.ep, left |-> r.threads, took |-> {}])

Resolve(s) ==
    /\ job[s].pc = "resolve" /\ rec.state = "open"
    /\ rec' = [rec EXCEPT !.state = "resolving", !.holder = s]
    /\ promised' = promised \cup {rec.ep}
    /\ StartReply(s, rec)
    /\ UNCHANGED <<keyKind, order, aside, headlines, unsure, answered, irFaults>>

(* A thread that never got out is closed; anything else is left alone. *)
NothingToResolve(s) ==
    /\ job[s].pc = "resolve" /\ rec.state # "open"
    /\ rec' = IF rec.state = "failed" THEN [rec EXCEPT !.state = "closed"] ELSE rec
    /\ Wants(s, "idle")
    /\ UNCHANGED <<keyKind, order, aside, irHistory, irFaults>>

PostReply(s, c) ==
    /\ job[s].pc = "reply" /\ c \in job[s].left
    /\ \/ /\ Becomes(s, [job[s] EXCEPT !.left = @ \ {c}, !.took = @ \cup {c}])
          /\ answered' = answered \cup {job[s].ep}
          /\ UNCHANGED irFaults
       \/ /\ IrFault
          /\ Becomes(s, [job[s] EXCEPT !.left = @ \ {c}])
          /\ UNCHANGED answered
    /\ UNCHANGED <<keyKind, order, rec, aside, headlines, unsure, promised>>

(* The record a service answers, under the key or set aside. *)
Resolving(s, r) == r.state = "resolving" /\ r.ep = job[s].ep

(* _post_resolve: one reply that was taken closes it, and with none it stays
   for retry_failed. *)
FinishReply(s) ==
    LET mine == {r \in aside : Resolving(s, r)}
        kept == IF job[s].took = {} THEN {[r EXCEPT !.holder = "none"] : r \in mine} ELSE {}
    IN
    /\ job[s].pc = "reply" /\ job[s].left = {}
    /\ rec' = IF Resolving(s, rec) THEN [rec EXCEPT !.holder = "none",
                                            !.state = IF job[s].took = {} THEN @ ELSE "closed"]
              ELSE rec
    /\ aside' = (aside \ mine) \cup kept
    /\ Wants(s, "idle")
    /\ UNCHANGED <<keyKind, order, irHistory, irFaults>>

-----------------------------------------------------------------------------
(* retry_failed, from the loops of the relay and the watch. *)

(* mutant: the key is not marked as being opened *)
ClaimedNot(s) == rec

Claimed(s) == [rec EXCEPT !.state = "opening", !.holder = s]

(* A refused record, once its delay is over, or one whose holder is dead. *)
RetryDue == rec.state = "failed" \/ Orphaned

RetryOpen(s) ==
    /\ job[s].pc = "idle"
    /\ RetryDue
    /\ rec' = Claimed(s)
    /\ Becomes(s, [pc |-> "post", ep |-> rec.ep, left |-> Channel, took |-> {}])
    /\ UNCHANGED <<keyKind, order, aside, irHistory, irFaults>>

RetryReply(s) ==
    /\ job[s].pc = "idle"
    /\ \E r \in aside \cup {rec} :
         /\ r.state = "resolving" /\ r.holder = "none"
         /\ StartReply(s, r)
         /\ IF r = rec THEN rec' = [rec EXCEPT !.holder = s] /\ UNCHANGED aside
            ELSE aside' = (aside \ {r}) \cup {[r EXCEPT !.holder = s]} /\ UNCHANGED rec
    /\ UNCHANGED <<keyKind, order, irHistory, irFaults>>

(* Killed; what it had claimed is orphaned. *)
KillService(s) ==
    LET freed(r) == IF r.holder = s THEN [r EXCEPT !.holder = "none"] ELSE r IN
    /\ job[s].pc # "idle"
    /\ IrFault
    /\ rec' = freed(rec) /\ aside' = {freed(r) : r \in aside}
    /\ unsure' = IF job[s].pc = "post" THEN unsure \cup {job[s].ep} ELSE unsure
    /\ Wants(s, "idle")
    /\ UNCHANGED <<keyKind, order, headlines, promised, answered>>

(* One step of the service's own code. *)
ServiceStep(s) ==
    \/ JoinOpen(s) \/ ClaimOpen(s) \/ FinishOpen(s) \/ Resolve(s) \/ NothingToResolve(s)
    \/ FinishReply(s)
    \/ \E c \in Channel : PostHeadline(s, c) \/ PostReply(s, c)

Retries(s) == RetryOpen(s) \/ RetryReply(s)

IrNext ==
    \/ GivesUp \/ Parks \/ Creates \/ ShowOrder \/ Applies
    \/ \E s \in Service : ServiceStep(s) \/ KillService(s)
    \/ \E s \in {"relay", "watch"} : Retries(s)

-----------------------------------------------------------------------------
(* "Two services never post the same key twice" (retry_failed): callers that
   raise the key and services that retry it, in any order, put at most one
   headline of an episode in a channel, unless the service that posted it was
   killed or got no answer from Slack. *)
HeadlineOnce ==
    \A ep \in (1..Episodes) \ unsure : \A c \in Channel : headlines[<<ep, c>>] <= 1

(* "A throttled or unreachable Slack no longer loses it" (issue_resolve): a
   reply the caller was told about is in the thread, or a record still waits
   with it, also when the problem is back before it was posted. *)
ReplyKept ==
    \A ep \in promised \ answered :
      \E r \in aside \cup {rec} : r.state = "resolving" /\ r.ep = ep

(* "This thread confirms when the order is in HubSpot" (status_relay.py): the
   thread of an order that exists does not stay open for good. *)
ThreadAnswered == [](rec.state = "open" /\ order.exists => <>(rec.state # "open"))
=============================================================================

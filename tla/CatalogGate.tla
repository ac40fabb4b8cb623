---------------------------- MODULE CatalogGate ----------------------------
(***************************************************************************)
(* The catalog gate for one product of an order, and the line builder that *)
(* comes after it (backfill.py gate_unverified_items, effective_ta,        *)
(* _stray_cached, _line_ta; queue_drain.py gate_cached, _pid_counts).      *)
(*                                                                         *)
(* An order is held while a product is not approved, or while a bundle     *)
(* record with nothing active demotes it; but an EMPTY record that nobody  *)
(* is building, over an approved product, is a stray and is not counted.   *)
(* Whether it is one is cached for StrayTtl, and the drain caches the      *)
(* counts too, while the catalog changes underneath and reads fail.        *)
(***************************************************************************)
EXTENDS Naturals

CONSTANTS
    GateLane,   \* lanes of the process, each with an order of the product
    StrayTtl,   \* STRAY_TTL_S in ticks
    StrayFail   \* STRAY_FAIL_S in ticks

ASSUME GateAssumption == {StrayTtl, StrayFail} \subseteq Nat \ {0} /\ StrayFail <= StrayTtl

VARIABLES
    product,   \* its product record: none, pending, approved; and its bundle
               \* record: none, empty, building, active
    drains,    \* whether the process is the drain, which caches counts
    verdict,   \* the stray verdict cached: value, age, read after the counts
    failAge,   \* ticks since a stray read failed, StrayFail or more: forgotten
    counts,    \* the drain's cached counts: value, age, an edit since they were read
    gateOf,    \* lane -> pc, counts in hand, exempted by the gate, an edit since
    since      \* history: ticks the bundle is being built, ticks of no edit or failed read

gateVars == <<product, drains, verdict, failAge, counts, gateOf, since>>

GateAged(n) == IF n < StrayTtl THEN n + 1 ELSE n

Approved == product.record = "approved"

(* What the gate's three searches count: approved, active template, any template. *)
CountsNow == [p |-> Approved, te |-> product.bundle = "active",
              ta |-> product.bundle # "none"]

(* The line builder's own searches take a product that is not approved too. *)
LineCounts == [CountsNow EXCEPT !.p = product.record # "none"]
CountsRead == [val |-> CountsNow, age |-> 0, known |-> TRUE, changed |-> FALSE]
NoCounts == [p |-> FALSE, te |-> FALSE, ta |-> FALSE]

Tally == [p : BOOLEAN, te : BOOLEAN, ta : BOOLEAN]

Exemptable(c) == c.p /\ ~c.te /\ c.ta
Fails(c) == (~c.p /\ ~c.te /\ ~c.ta) \/ (~c.te /\ c.ta)

NoOrder == [pc |-> "idle", counts |-> NoCounts, exempt |-> FALSE,
            changed |-> FALSE, out |-> "none"]

InGate(pc, c, changed) == [NoOrder EXCEPT !.pc = pc, !.counts = c, !.changed = changed]

GateInit ==
    /\ product = [record |-> "approved", bundle |-> "none"]
    /\ drains \in BOOLEAN
    /\ verdict = [val |-> "none", age |-> StrayTtl, newer |-> FALSE] /\ failAge = StrayFail
    /\ counts = [val |-> NoCounts, age |-> 0, known |-> FALSE, changed |-> FALSE]
    /\ gateOf = [l \in GateLane |-> NoOrder]
    /\ since = [built |-> 0, still |-> 0]

-----------------------------------------------------------------------------
(* The world: time (the gate of one order takes less than a tick), and the
   people and automations that edit the catalog. *)

GateTick ==
    /\ \A l \in GateLane : gateOf[l].pc \in {"idle", "line"}
    /\ verdict' = [verdict EXCEPT !.age = GateAged(@)]
    /\ counts' = [counts EXCEPT !.age = IF counts.known THEN GateAged(@) ELSE @]
    /\ failAge' = IF failAge < StrayFail THEN failAge + 1 ELSE failAge
    /\ since' = [built |-> IF product.bundle = "building" THEN GateAged(since.built) ELSE 0,
                 still |-> GateAged(since.still)]
    /\ UNCHANGED <<product, drains, gateOf>>

(* A listing edit mints an empty record; the sentinel sets it aside; someone
   starts a bundle, activates it or drops it; an approval comes or goes. *)
EditProduct ==
    /\ \/ \E b \in {"none", "empty", "building", "active"} \ {product.bundle} :
            product' = [product EXCEPT !.bundle = b]
       \/ \E r \in {"none", "pending", "approved"} \ {product.record} :
            product' = [product EXCEPT !.record = r]
    /\ gateOf' = [l \in GateLane |-> [gateOf[l] EXCEPT !.changed = TRUE]]
    /\ counts' = [counts EXCEPT !.changed = counts.known]
    /\ since' = [built |-> IF product'.bundle = "building" THEN since.built ELSE 0, still |-> 0]
    /\ UNCHANGED <<drains, verdict, failAge>>

-----------------------------------------------------------------------------
(* _stray_cached: the value used, and the cache afterwards. *)

StrayHit == verdict.val # "none" /\ verdict.age < StrayTtl

(* mutant: after a failed refresh the old verdict goes on, whatever it was *)
OldVerdictAny == IF verdict.val = "none" THEN "unknown" ELSE verdict.val

OldVerdict == IF verdict.val = "building" THEN "building" ELSE "unknown"

(* No status, no counts and no active component on any record of the product. *)
EmptyRecord == product.bundle = "empty"

StrayNow == IF EmptyRecord THEN "stray" ELSE "building"

StrayCached(v) ==
    \/ /\ StrayHit /\ v = verdict.val
       /\ UNCHANGED <<verdict, failAge, since>>
    \/ /\ ~StrayHit /\ failAge >= StrayFail
       /\ v = StrayNow
       /\ verdict' = [val |-> v, age |-> 0, newer |-> drains] /\ failAge' = StrayFail
       /\ UNCHANGED since
    \/ /\ ~StrayHit /\ v = OldVerdict
       /\ failAge' = IF failAge >= StrayFail THEN 0 ELSE failAge
       /\ since' = IF failAge >= StrayFail THEN [since EXCEPT !.still = 0] ELSE since
       /\ UNCHANGED verdict

-----------------------------------------------------------------------------
(* _counts_fresh: counts the exemption could touch last as long as a verdict. *)
CountsFresh == counts.known /\ (~Exemptable(counts.val) \/ counts.age < StrayTtl)

(* _pid_counts, or the three searches of the live gate.  A failed re-read
   keeps the counts for another TTL. *)
PidCounts(l, pc, olderThanVerdict) ==
    \/ /\ drains /\ CountsFresh /\ ~(olderThanVerdict /\ verdict.newer)
       /\ gateOf' = [gateOf EXCEPT ![l] = InGate(pc, counts.val, counts.changed)]
       /\ UNCHANGED <<counts, verdict, since>>
    \/ /\ ~(drains /\ CountsFresh) \/ (olderThanVerdict /\ verdict.newer)
       /\ gateOf' = [gateOf EXCEPT ![l] = InGate(pc, CountsNow, FALSE)]
       /\ counts' = IF drains THEN CountsRead ELSE counts
       /\ verdict' = [verdict EXCEPT !.newer = FALSE]
       /\ UNCHANGED since
    \/ /\ drains /\ counts.known /\ (~CountsFresh \/ (olderThanVerdict /\ verdict.newer))
       /\ gateOf' = [gateOf EXCEPT ![l] = InGate(pc, counts.val, counts.changed)]
       /\ counts' = [counts EXCEPT !.age = 0]
       /\ verdict' = [verdict EXCEPT !.newer = FALSE]
       /\ since' = [since EXCEPT !.still = 0]

(* begin_gate, and the counts; an order that is topped up is gated again. *)
GateCounts(l) ==
    /\ gateOf[l].pc = "idle"
    /\ PidCounts(l, "verdict", FALSE)
    /\ UNCHANGED <<product, drains, failAge>>

Decide(l, exempt, held) ==
    gateOf' = [gateOf EXCEPT ![l] = IF held THEN [NoOrder EXCEPT !.out = "held"]
                                    ELSE [@ EXCEPT !.pc = "line", !.exempt = exempt]]

(* effective_ta on the counts in hand; before it holds, the drain looks once
   more at counts older than the verdict. *)
GateVerdict(l) ==
    LET c == gateOf[l].counts IN
    /\ gateOf[l].pc \in {"verdict", "verdict2"}
    /\ \/ /\ ~Exemptable(c)
          /\ Decide(l, FALSE, Fails(c))
          /\ UNCHANGED <<verdict, failAge, since>>
       \/ /\ Exemptable(c)
          /\ \E v \in {"stray", "building", "unknown"} :
               /\ StrayCached(v)
               /\ IF drains /\ v # "stray" /\ gateOf[l].pc = "verdict"
                  THEN gateOf' = [gateOf EXCEPT ![l].pc = "again"]
                  ELSE Decide(l, v = "stray", v # "stray")
    /\ UNCHANGED <<product, drains, counts>>

(* mutant: counts in their TTL are not read again *)
GateAgainFresh(l) ==
    /\ gateOf[l].pc = "again"
    /\ PidCounts(l, "verdict2", FALSE)
    /\ UNCHANGED <<product, drains, failAge>>

GateAgain(l) ==
    /\ gateOf[l].pc = "again"
    /\ PidCounts(l, "verdict2", TRUE)
    /\ UNCHANGED <<product, drains, failAge>>

(* _line_ta: the gate's own exemption counts, not a new look at the record. *)
(* mutant: the line builder decides again *)
ExemptedNot(l) == FALSE

Exempted(l) == gateOf[l].exempt

RouteLine(l, c) ==
    gateOf' = [gateOf EXCEPT ![l] =
        [NoOrder EXCEPT !.out = IF c.te THEN "bundle"
                                ELSE IF c.p /\ ~c.ta THEN "standalone" ELSE "review",
                        !.changed = gateOf[l].changed]]

BuildLine(l) ==
    /\ gateOf[l].pc = "line"
    /\ \/ /\ Exempted(l) \/ ~Exemptable(LineCounts)
          /\ RouteLine(l, [LineCounts EXCEPT !.ta = @ /\ ~Exempted(l)])
          /\ UNCHANGED <<verdict, failAge, since>>
       \/ /\ ~Exempted(l) /\ Exemptable(LineCounts)
          /\ \E v \in {"stray", "building", "unknown"} :
               StrayCached(v) /\ RouteLine(l, [LineCounts EXCEPT !.ta = v # "stray"])
    /\ UNCHANGED <<product, drains, counts>>

GateNext ==
    \/ GateTick \/ EditProduct
    \/ \E l \in GateLane :
         GateCounts(l) \/ GateVerdict(l) \/ GateAgain(l) \/ BuildLine(l)

-----------------------------------------------------------------------------
GateTypeOK ==
    /\ product \in [record : {"none", "pending", "approved"},
                    bundle : {"none", "empty", "building", "active"}]
    /\ drains \in BOOLEAN
    /\ verdict \in [val : {"none", "stray", "building"}, age : 0..StrayTtl, newer : BOOLEAN]
    /\ failAge \in 0..StrayFail
    /\ counts \in [val : Tally, age : 0..StrayTtl, known : BOOLEAN, changed : BOOLEAN]
    /\ gateOf \in [GateLane ->
         [pc : {"idle", "verdict", "again", "verdict2", "line"}, counts : Tally, exempt : BOOLEAN,
          changed : BOOLEAN, out : {"none", "held", "bundle", "standalone", "review"}]]
    /\ since \in [built : 0..StrayTtl, still : 0..StrayTtl]

(* Counts nothing was edited under are the ones a search would find now. *)
CountsCurrent ==
    /\ counts.known /\ ~counts.changed => counts.val = CountsNow
    /\ \A l \in GateLane :
         gateOf[l].pc # "idle" /\ ~gateOf[l].changed => gateOf[l].counts = CountsNow

(* What goes on to the line builder: counts that pass, or an exemption. *)
LetThrough ==
    \A l \in GateLane : gateOf[l].pc = "line" =>
        IF gateOf[l].exempt THEN Exemptable(gateOf[l].counts)
        ELSE ~Exemptable(gateOf[l].counts) /\ ~Fails(gateOf[l].counts)

(* A stray verdict is as old as the bundle someone has begun since. *)
StrayBefore ==
    /\ product.bundle # "building" => since.built = 0
    /\ verdict.val = "stray" => since.built <= verdict.age

(* What the gate let through the line builder can place: an order has a line
   for review only when the catalog was edited in between, however the
   stray verdict aged or failed to be read (_line_ta, the gate's book). *)
LineFollowsGate ==
    \A l \in GateLane : gateOf[l].out = "review" => gateOf[l].changed

(* A bundle someone has been building for the life of a verdict is never taken
   for a stray, a failing catalog or not (_stray_cached). *)
BuildingHolds ==
    [][\A l \in GateLane :
         ~gateOf[l].exempt /\ gateOf'[l].exempt => since.built < StrayTtl]_gateVars

(* The drain holds an order of an approved product whose record nobody builds
   only when the catalog was edited, or a read failed, since it read the
   verdict: counts kept for the pass do not outlive the record they counted,
   and are never older than the verdict they are combined with (_pid_counts). *)
HeldOnFreshCounts ==
    [][\A l \in GateLane :
         drains /\ Approved /\ product.bundle # "building" /\ gateOf[l].counts.p
         /\ gateOf[l].out # "held" /\ gateOf'[l].out = "held" => since.still <= verdict.age]_gateVars
=============================================================================

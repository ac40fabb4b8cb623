---------------------------- MODULE GiftRefresh ----------------------------
(***************************************************************************)
(* The gift address refresh (gift_refresh.py): a oneshot process that      *)
(* finds the gift orders nobody has settled by a HubSpot search, fetches a *)
(* batch of them from Salla and stamps each confirmed or expired.  What it *)
(* decided it appends to mirror/gift_refreshed.csv; counters and the times *)
(* of the last checks are saved once, at the end of a cycle.  Counting the *)
(* patches HubSpot refuses, which only raises an alert, is left out.       *)
(***************************************************************************)
EXTENDS Naturals, Sequences, FiniteSets

CONSTANTS
    GiftOrders,   \* the orders, oldest first
    SearchLimit,  \* gift_refresh_search_limit
    GiftBatch,    \* gift_refresh_batch
    MissMax,      \* gift_hydrate_fail_max
    GtMaxFaults   \* bound on failed calls, late answers and kills

GiftOrder == {GiftOrders[i] : i \in 1..Len(GiftOrders)}

ASSUME GiftAssumption ==
    /\ GiftOrders \in Seq(GiftOrder) /\ Cardinality(GiftOrder) = Len(GiftOrders)
    /\ {SearchLimit, GiftBatch, MissMax} \subseteq Nat \ {0} /\ GtMaxFaults \in Nat

VARIABLES
    gift,       \* order -> what Salla says of it
    stamp,      \* order -> HubSpot: gift_address_incomplete, gift_address_state
    indexed,    \* order -> the stamp its search finds
    giftLedger, \* order -> the outcome of its last ledger row
    giftFile,   \* gift_refresh_state.json: when it was last checked, misses in a row
    cycle,      \* the running cycle
    chased,     \* history: order -> chase alerts that name it
    waited,     \* history: order -> cycles in a row that found it and left it for later
    cutShort,   \* history: orders whose handling, or whose cycle after it, was killed
    gtFaults

gtVars == <<gift, stamp, indexed, giftLedger, giftFile, cycle, chased, waited, cutShort,
            gtFaults>>
gtWorld == <<gift, indexed>>
gtHistory == <<chased, waited, cutShort>>

\* batch: the orders still to be handled; now: patched, its ledger row still to come
NoCycle == [pc |-> "idle", batch |-> {}, now |-> {}, left |-> {}, checked |-> {},
            payload |-> <<>>, miss |-> <<>>, lapsed |-> {}]

GtInit ==
    /\ gift \in [GiftOrder -> {"waiting", "plain"}]
    /\ stamp \in [GiftOrder -> [incomplete : BOOLEAN, state : {"none"}]]
    /\ indexed = stamp
    /\ giftLedger = [o \in GiftOrder |-> "none"]
    /\ giftFile = [checked |-> [o \in GiftOrder |-> 0], miss |-> [o \in GiftOrder |-> 0]]
    /\ cycle = NoCycle
    /\ chased = [o \in GiftOrder |-> 0] /\ waited = [o \in GiftOrder |-> 0]
    /\ cutShort = {} /\ gtFaults = GtMaxFaults

GtFault == gtFaults > 0 /\ gtFaults' = gtFaults - 1

-----------------------------------------------------------------------------
(* The receiver confirms, the link lapses (a late confirmation may follow), or
   the order is deleted. *)
SallaMoves ==
    /\ \E o \in GiftOrder, s \in {"lapsed", "confirmed", "gone"} :
          /\ gift[o] = "waiting" \/ (gift[o] = "lapsed" /\ s = "confirmed")
          /\ gift' = [gift EXCEPT ![o] = s]
    /\ UNCHANGED <<stamp, indexed, giftLedger, giftFile, cycle, gtHistory, gtFaults>>

IndexCatches ==
    /\ \E o \in GiftOrder : /\ indexed[o] # stamp[o]
                            /\ indexed' = [indexed EXCEPT ![o] = stamp[o]]
    /\ UNCHANGED <<gift, stamp, giftLedger, giftFile, cycle, gtHistory, gtFaults>>

-----------------------------------------------------------------------------
Terminal == {"cleared", "expired", "not_gift", "unfetchable"}

Place(o) == CHOOSE i \in 1..Len(GiftOrders) : GiftOrders[i] = o
Older(o, p) == Place(o) < Place(p)
Leading(S, n, Before(_, _)) == {o \in S : Cardinality({p \in S : Before(p, o)}) < n}

Page(incomplete) ==
    Leading({o \in GiftOrder : indexed[o] = [incomplete |-> incomplete, state |-> "none"]},
             SearchLimit, Older)

(* The orders that wait, then the ones created with a confirmed address. *)
Found2 == Page(TRUE) \cup IF Cardinality(Page(TRUE)) < SearchLimit THEN Page(FALSE) ELSE {}
Eligible == {o \in Found2 : giftLedger[o] \notin Terminal}

(* mutant: oldest first, without the rotation *)
SoonerOldest(o, p) == Older(o, p)

(* The recheck rotation: the order not looked at for longest comes first. *)
Sooner(o, p) ==
    \/ giftFile.checked[o] < giftFile.checked[p]
    \/ /\ giftFile.checked[o] = giftFile.checked[p]
       /\ IF (o \in Page(TRUE)) = (p \in Page(TRUE)) THEN Older(o, p) ELSE o \in Page(TRUE)

Batch == Leading(Eligible, GiftBatch, Sooner)

SearchGifts ==
    /\ cycle.pc = "idle"
    /\ cycle' = [NoCycle EXCEPT !.pc = "fetch", !.batch = Batch, !.left = Eligible \ Batch,
                                !.miss = giftFile.miss]
    /\ UNCHANGED <<gtWorld, stamp, giftLedger, giftFile, gtHistory, gtFaults>>

(* An order may be missing from the relay's answer, or come as a fragment. *)
HydrateGifts ==
    /\ cycle.pc = "fetch"
    /\ \E odd \in SUBSET cycle.batch, how \in {"missing", "fragment"} :
         /\ IF odd = {} THEN how = "missing" /\ UNCHANGED gtFaults ELSE GtFault
         /\ cycle' = [cycle EXCEPT !.pc = "patch", !.payload = [o \in GiftOrder |->
                IF o \in odd THEN how ELSE IF gift[o] = "gone" THEN "missing" ELSE gift[o]]]
    /\ UNCHANGED <<gtWorld, stamp, giftLedger, giftFile, gtHistory>>

(* A relay that is down ends the cycle with nothing touched. *)
CycleAborted ==
    /\ cycle.pc = "fetch" /\ GtFault
    /\ cycle' = NoCycle
    /\ UNCHANGED <<gtWorld, stamp, giftLedger, giftFile, gtHistory>>

(* What the fetched order says, and the patch of a confirmed one. *)
Confirmed(o) == cycle.payload[o] = "confirmed"
NotGift(o) == cycle.payload[o] = "plain"
ConfirmPatch == [incomplete |-> FALSE, state |-> "confirmed"]

(* What a payload asks for: the patch, and the ledger row once that succeeded. *)
PatchFor(o) ==
    CASE Confirmed(o) -> ConfirmPatch
      [] cycle.payload[o] = "lapsed" -> [incomplete |-> TRUE, state |-> "expired"]
      [] cycle.payload[o] = "waiting" -> [stamp[o] EXCEPT !.incomplete = TRUE]
      [] OTHER -> stamp[o]
Misses(o) == IF cycle.payload[o] # "missing" THEN 0
             ELSE IF cycle.miss[o] < MissMax THEN cycle.miss[o] + 1 ELSE MissMax
OutcomeFor(o) ==
    CASE Confirmed(o) -> "cleared"
      [] cycle.payload[o] = "lapsed" -> "expired"
      [] NotGift(o) -> "not_gift"
      [] cycle.payload[o] = "missing" /\ Misses(o) = MissMax -> "unfetchable"
      [] OTHER -> giftLedger[o]

(* The orders of a batch do not depend on each other: any of them is next. *)
PatchGift ==
    /\ cycle.pc = "patch" /\ cycle.now = {}
    /\ \E o \in cycle.batch :
         \/ /\ stamp' = [stamp EXCEPT ![o] = PatchFor(o)]
            /\ cycle' = [cycle EXCEPT !.batch = @ \ {o}, !.now = {o}, !.miss[o] = Misses(o)]
            /\ UNCHANGED gtFaults
         \/ /\ PatchFor(o) # stamp[o] /\ GtFault
            /\ cycle' = [cycle EXCEPT !.batch = @ \ {o}, !.checked = @ \cup {o},
                                      !.miss[o] = Misses(o)]
            /\ UNCHANGED stamp
    /\ UNCHANGED <<gtWorld, giftLedger, giftFile, gtHistory>>

(* mutant: the ledger is asked after the row was appended *)
NewlyExpiredLate(o) == FALSE

NewlyExpired(o) == OutcomeFor(o) = "expired" /\ giftLedger[o] # "expired"

RecordGift ==
    /\ cycle.pc = "patch"
    /\ \E o \in cycle.now :
         /\ giftLedger' = [giftLedger EXCEPT ![o] = OutcomeFor(o)]
         /\ cycle' = [cycle EXCEPT !.now = {}, !.checked = @ \cup {o},
                                   !.lapsed = IF NewlyExpired(o) THEN @ \cup {o} ELSE @]
    /\ UNCHANGED <<gtWorld, stamp, giftFile, gtHistory, gtFaults>>

(* One chase alert for the orders that expired in this cycle. *)
ChaseGifts ==
    /\ cycle.pc = "patch" /\ cycle.batch = {} /\ cycle.now = {}
    /\ chased' = [o \in GiftOrder |-> chased[o] + IF o \in cycle.lapsed THEN 1 ELSE 0]
    /\ cycle' = [cycle EXCEPT !.pc = "save"]
    /\ UNCHANGED <<gtWorld, stamp, giftLedger, giftFile, waited, cutShort, gtFaults>>

(* Times of checks matter by their order only; a settled order has none. *)
Latest == Cardinality(GiftOrder) + 1
CheckedNow(o) == IF giftLedger[o] \in Terminal THEN 0
                 ELSE IF o \in cycle.checked THEN Latest ELSE giftFile.checked[o]
Dense(times) ==
    [o \in GiftOrder |-> Cardinality({times[p] : p \in {q \in GiftOrder : times[q] <= times[o]}}
                                        \ {0})]

SaveGifts ==
    /\ cycle.pc = "save"
    /\ giftFile' = [checked |-> Dense([o \in GiftOrder |-> CheckedNow(o)]), miss |-> cycle.miss]
    /\ waited' = [o \in GiftOrder |-> IF o \in cycle.left THEN waited[o] + 1 ELSE 0]
    /\ cycle' = NoCycle
    /\ UNCHANGED <<gtWorld, stamp, giftLedger, chased, cutShort, gtFaults>>

KillCycle ==
    /\ cycle.pc # "idle" /\ GtFault
    /\ cutShort' = cutShort \cup cycle.lapsed \cup cycle.now
    /\ cycle' = NoCycle
    /\ UNCHANGED <<gtWorld, stamp, giftLedger, giftFile, chased, waited>>

GtNext == \/ SallaMoves \/ IndexCatches \/ SearchGifts \/ HydrateGifts \/ CycleAborted
          \/ PatchGift \/ RecordGift \/ ChaseGifts \/ SaveGifts \/ KillCycle

-----------------------------------------------------------------------------
(* "An order with an `expired` row never re-alerts" (GiftLedger), and one that
   HubSpot shows as expired was chased, if no kill fell in its cycle after the
   patch. *)
ChasedOnce ==
    \A o \in GiftOrder :
        /\ chased[o] <= 1
        /\ cycle.pc = "idle" /\ stamp[o].state = "expired" => chased[o] = 1 \/ o \in cutShort

(* "An order checked last cycle and still pending must not crowd never-checked
   orders out of the batch" (run_cycle): an order a cycle found and left waits
   no longer than the others need for a turn each. *)
TurnComes ==
    \A o \in GiftOrder : waited[o] * GiftBatch < Cardinality(GiftOrder)

(* "Terminal orders leave the set by property, so the search converges to zero"
   (gift_refresh.py): a confirmed address reaches HubSpot. *)
EveryGiftSettled ==
    \A o \in GiftOrder : gift[o] = "confirmed" ~> stamp[o].state # "none"

GtSpec == /\ GtInit /\ [][GtNext]_gtVars
          /\ WF_gtVars(IndexCatches) /\ WF_gtVars(SearchGifts) /\ WF_gtVars(HydrateGifts)
          /\ WF_gtVars(PatchGift) /\ WF_gtVars(RecordGift) /\ WF_gtVars(ChaseGifts)
          /\ WF_gtVars(SaveGifts)
=============================================================================

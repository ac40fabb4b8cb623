----------------------------- MODULE OrderSync -----------------------------
(***************************************************************************)
(* One Salla order on its way into HubSpot: the engines' lanes (live.py    *)
(* LiveEngine and backfill.py Engine) against HubSpot, the created ledger  *)
(* and the row of the Live Queue.                                          *)
(*                                                                         *)
(* HubSpot is external: salla_order_id and salla_order_item_id are unique  *)
(* there, a write is seen by GETs at once and by searches later, and a     *)
(* write whose response was lost is retried and then meets itself as a     *)
(* 400.  Each HTTP call of a lane is a step; anything another engine does  *)
(* can come between two of them, and so can a crash.                       *)
(*                                                                         *)
(* The ledger is a set here: the races on its file are CreatedLedger's.    *)
(***************************************************************************)
EXTENDS Naturals, FiniteSets

CONSTANTS
    Order,        \* Salla order ids
    Item,         \* items of an order (every order has them all)
    Comps,        \* Comps[i]: the components of a bundle item, {} for a product
    Whole,        \* marks the line of the item itself, or of the bundle's parent
    Live,         \* lanes of the live engine
    Backfill,     \* lanes of the backfill engine
    ZidHeld,      \* orders whose number a Zid-import order holds at first
    Faults,       \* what may go wrong, see Fault
    MaxFaults,    \* bound on how often
    MaxAttempts   \* live_max_attempts

FaultKinds == {"crash",    \* an engine is killed
               "lost",     \* a POST takes effect, its response is lost
               "cap",      \* the cycle has used its TOPUPS_PER_CYCLE
               "read",     \* a search or GET of HubSpot fails five times
               "relay",    \* the relay returns nothing for the order
               "post",     \* order create (or the contact before it) fails
               "refuse",   \* HubSpot refuses a line item
               "status",   \* a write of the order's sync status fails
               "link",     \* an association write fails
               "rekey",    \* moving the Zid order off the number fails
               "catalog"}  \* an approval is withdrawn

ASSUME OrderSyncAssumption ==
    /\ Live \cap Backfill = {}
    /\ ZidHeld \subseteq Order
    /\ Faults \subseteq FaultKinds
    /\ MaxFaults \in Nat /\ MaxAttempts \in Nat \ {0}
    /\ IsFiniteSet(Item)
    /\ \A i \in Item : Whole \notin Comps[i]

Lane == Live \cup Backfill
NoOrder == "none"
NoItem == "none"

VARIABLES
    holder,    \* who has the number in HubSpot: "none", "zid" or "salla"
    index,     \* whose records the search finds under the number
    made,      \* line items of the order that exist
    keys,      \* line items associated with the order
    ledger,    \* the created ledger
    flagged,   \* an errors.csv or Queue Log row points at the order
    partial,   \* HubSpot shows the order's sync status as partial
    approved,  \* the catalog gate passes
    row, att,  \* the order's Live Queue row: state and attempts
    past,      \* orders the backfill cursor has moved past
    lane,      \* what each lane is doing
    refused,   \* history: the line items of the order that HubSpot refused
    unflagged, \* history: the last write of the order's partial flag failed
    faults     \* how many faults there were, and of which kinds

hubspot == <<holder, index, made, keys>>
queue == <<row, att>>
status == <<partial, refused, unflagged>>
vars == <<holder, index, made, keys, ledger, flagged, approved, row, att, past, lane, faults,
          partial, refused, unflagged>>

LinesOf(i) == {<<i, c>> : c \in {Whole} \cup Comps[i]}
AllLines == UNION {LinesOf(i) : i \in Item}
Complete(o) == AllLines \subseteq keys[o]

(* What a lane can ask HubSpot: the orders the search has under the number,
   whose order it is when read by its id, and the lines that hang on it. *)
Hits(o) == index[o]
HolderOf(o) == holder[o]
ItemKeys(o) == keys[o]

\* top_up_items.on_order: an item counts as there with its own line or any
\* component of it.
OnOrder(S, i) == \E k \in S : k[1] = i

Idle == [pc |-> "idle", oid |-> NoOrder, way |-> "fresh", todo |-> {}, line |-> <<NoItem, Whole>>,
         comps |-> {}, err |-> FALSE, rekeyed |-> FALSE, out |-> "none"]

Init ==
    /\ holder = [o \in Order |-> IF o \in ZidHeld THEN "zid" ELSE "none"]
    /\ index = [o \in Order |-> {holder[o]} \ {"none"}]
    /\ made = [o \in Order |-> {}] /\ keys = [o \in Order |-> {}]
    /\ ledger = {} /\ flagged = {} /\ past = {}
    /\ partial = {} /\ refused = [o \in Order |-> {}] /\ unflagged = {}
    /\ approved \in [Order -> BOOLEAN]
    /\ row = [o \in Order |-> "queued"] /\ att = [o \in Order |-> 0]
    /\ lane = [l \in Lane |-> Idle]
    /\ faults = [n |-> 0, kinds |-> {}]

-----------------------------------------------------------------------------
(* The shape of a step. *)

At(l, pc) == lane[l].pc = pc
Goto(l, pc) == lane' = [lane EXCEPT ![l].pc = pc]
Oid(l) == lane[l].oid

\* One more fault of this kind.
Fault(kind) ==
    /\ kind \in Faults /\ faults.n < MaxFaults
    /\ faults' = [n |-> faults.n + 1, kinds |-> faults.kinds \cup {kind}]

\* The lane is through with the order; its outcome is marked next.
Outcome(l, out) == lane' = [lane EXCEPT ![l].pc = "mark", ![l].out = out]
Flag(l) == flagged' = flagged \cup {Oid(l)}

-----------------------------------------------------------------------------
(* LiveEngine: claim and _resolve_preexisting. *)

\* A defect (before v1.8): a row left "processing" by a crash is nobody's.
ClaimableQueued(o) == row[o] = "queued" \/ (row[o] = "error" /\ att[o] < MaxAttempts)

Claimable(o) ==
    \/ row[o] \in {"queued", "processing"}
    \/ row[o] = "error" /\ att[o] < MaxAttempts

\* The loop is synchronous and twins are collapsed: no two lanes of the live
\* engine have the same order.
Claim(l, o) ==
    /\ l \in Live /\ At(l, "idle") /\ Claimable(o)
    /\ \A m \in Live : Oid(m) # o
    /\ lane' = [lane EXCEPT ![l].pc = "resolve", ![l].oid = o, ![l].way = "verify"]
    /\ UNCHANGED <<hubspot, ledger, flagged, status, approved, queue, past, faults>>

LedgerHit(l) ==
    /\ At(l, "resolve") /\ Oid(l) \in ledger
    /\ Outcome(l, "done")
    /\ UNCHANGED <<hubspot, ledger, flagged, status, approved, queue, past, faults>>

\* A defect: any record under the number is taken for the order.
AfterSearchAnyRecord(found) == IF found # {} THEN "verify" ELSE "fetch"

\* Where the search result sends the row: a Salla record is verified, a Zid
\* record alone is moved away, nothing found is created.
AfterSearch(found) ==
    IF "salla" \in found THEN "verify" ELSE IF "zid" \in found THEN "rekey" ELSE "fetch"

\* orders_by_salla_id; an error goes to the create path.
Search(l) ==
    /\ At(l, "resolve") /\ Oid(l) \notin ledger
    /\ \/ Goto(l, AfterSearch(Hits(Oid(l)))) /\ UNCHANGED faults
       \/ Fault("read") /\ Goto(l, "fetch")
    /\ UNCHANGED <<hubspot, ledger, flagged, status, approved, queue, past>>

\* zid_auto_rekey, from the search or from a 400 on create: the Zid record
\* gives up the number, or the row is parked.
Rekey(l) ==
    /\ At(l, "rekey")
    /\ \/ /\ holder' = [holder EXCEPT ![Oid(l)] = IF @ = "zid" THEN "none" ELSE @]
          /\ IF lane[l].way = "fresh"
             THEN lane' = [lane EXCEPT ![l].pc = "post", ![l].rekeyed = TRUE]
             ELSE Goto(l, "fetch")
          /\ UNCHANGED <<flagged, faults>>
       \/ Fault("rekey") /\ Flag(l) /\ Outcome(l, "held") /\ UNCHANGED holder
    /\ UNCHANGED <<index, made, keys, ledger, status, approved, queue, past>>

\* A defect (before v1.6): an order that exists counts as complete.
CountCompletePresent(o, expected) == TRUE

\* Is the count of line items that of a complete order? A bundle makes several
\* line items, so the test is "at least".
CountComplete(o, expected) == Cardinality(ItemKeys(o)) >= expected

\* Complete by count, or flagged as a partial order.
Judge(l, expected) ==
    IF CountComplete(Oid(l), expected)
    THEN Goto(l, "settle") /\ UNCHANGED flagged
    ELSE Outcome(l, "error") /\ Flag(l)

\* A found order: its line items are counted and its source fetched. It is
\* topped up, or judged by the count when the cycle's cap is used up, or, with
\* no source to compare with, by having a line item at all.
Verify(l) ==
    /\ At(l, "verify")
    /\ \/ Goto(l, "present") /\ UNCHANGED <<flagged, faults>>
       \/ Fault("cap") /\ Judge(l, Cardinality(Item))
       \/ Fault("relay") /\ Judge(l, 1)
       \/ Fault("read") /\ Outcome(l, "error") /\ UNCHANGED flagged
    /\ UNCHANGED <<hubspot, ledger, status, approved, queue, past>>

\* The second count, after a top-up that attempted nothing.
Count(l) ==
    /\ At(l, "count")
    /\ \/ Judge(l, Cardinality(Item)) /\ UNCHANGED faults
       \/ Fault("read") /\ Outcome(l, "error") /\ Flag(l)
    /\ UNCHANGED <<hubspot, ledger, status, approved, queue, past>>

-----------------------------------------------------------------------------
(* Backfill: the page scan skips what the search finds. *)

ScanSkip(l, o) ==
    /\ l \in Backfill /\ At(l, "idle") /\ o \notin past
    /\ \A m \in Backfill : Oid(m) # o
    /\ "salla" \in Hits(o)
    /\ past' = past \cup {o}
    /\ UNCHANGED <<hubspot, ledger, flagged, status, approved, queue, lane, faults>>

ScanNew(l, o) ==
    /\ l \in Backfill /\ At(l, "idle") /\ o \notin past
    /\ \A m \in Backfill : Oid(m) # o
    /\ "salla" \notin Hits(o)
    /\ lane' = [lane EXCEPT ![l].pc = "fetch", ![l].oid = o]
    /\ UNCHANGED <<hubspot, ledger, flagged, status, approved, queue, past, faults>>

-----------------------------------------------------------------------------
(* Engine.process_order: gate, contact, create. *)

\* The relay returns the full order; the live row is stamped "processing".
Fetch(l) ==
    /\ At(l, "fetch")
    /\ lane' = [lane EXCEPT ![l].pc = "gate", ![l].way = "fresh"]
    /\ row' = IF l \in Live THEN [row EXCEPT ![Oid(l)] = "processing"] ELSE row
    /\ UNCHANGED <<hubspot, ledger, flagged, status, approved, att, past, faults>>

\* The relay returns nothing: the live row errs, or is gone at the cap; the
\* backfill writes an errors.csv row.
FetchMiss(l) ==
    /\ At(l, "fetch") /\ Fault("relay")
    /\ Outcome(l, IF l \in Live /\ att[Oid(l)] + 1 >= MaxAttempts THEN "gone" ELSE "error")
    /\ IF l \in Backfill THEN Flag(l) ELSE UNCHANGED flagged
    /\ UNCHANGED <<hubspot, ledger, status, approved, queue, past>>

\* The relay fails altogether: the cycle, or the backfill process, ends with
\* nothing marked.
FetchFails(l) ==
    /\ At(l, "fetch") /\ Fault("relay")
    /\ lane' = [lane EXCEPT ![l] = Idle]
    /\ UNCHANGED <<hubspot, ledger, flagged, status, approved, queue, past>>

\* gate_unverified_items, then route_held or route_create.
Gate(l) ==
    /\ At(l, "gate")
    /\ \/ approved[Oid(l)] /\ Goto(l, "post") /\ UNCHANGED <<flagged, faults>>
       \/ ~approved[Oid(l)] /\ Outcome(l, "held") /\ Flag(l) /\ UNCHANGED faults
       \/ Fault("read") /\ Outcome(l, "error") /\ Flag(l)
    /\ UNCHANGED <<hubspot, ledger, status, approved, queue, past>>

\* createAnOrder accepted.
Create(l) ==
    /\ At(l, "post") /\ holder[Oid(l)] = "none"
    /\ holder' = [holder EXCEPT ![Oid(l)] = "salla"]
    /\ \/ /\ lane' = [lane EXCEPT ![l].pc = "sync", ![l].todo = Item, ![l].err = FALSE]
          /\ UNCHANGED faults
       \/ Fault("lost") /\ UNCHANGED lane          \* retried: meets its own order
    /\ UNCHANGED <<index, made, keys, ledger, flagged, status, approved, queue, past>>

\* The status "synced", of a fresh order before its item loop and of an adopted
\* one when it is complete; the answer is not looked at.
SetSynced(l) ==
    /\ At(l, "sync")
    /\ \/ partial' = partial \ {Oid(l)} /\ UNCHANGED faults
       \/ Fault("status") /\ UNCHANGED partial
    /\ Goto(l, IF lane[l].way = "fresh" THEN "loop" ELSE "settle")
    /\ UNCHANGED <<hubspot, ledger, flagged, refused, unflagged, approved, queue, past>>

\* The contact or the order cannot be created.
CreateFails(l) ==
    /\ At(l, "post") /\ Fault("post")
    /\ Outcome(l, "error") /\ Flag(l)
    /\ UNCHANGED <<hubspot, ledger, status, approved, queue, past>>

\* A defect: the holder is not looked at, whoever has the number is adopted.
ResolvedUnconfirmed(l, confirmed) == "salla"

\* What a 400 on create resolves to: the holder the error names, confirmed by
\* a GET, else what the search finds five seconds later.
Resolved(l, confirmed) ==
    LET o == Oid(l)
        found == Hits(o)
    IN  IF confirmed THEN HolderOf(o)
        ELSE IF "salla" \in found THEN "salla" ELSE IF "zid" \in found THEN "zid" ELSE "none"

Duplicate(l) ==
    /\ At(l, "post") /\ holder[Oid(l)] # "none"
    /\ \E confirmed \in BOOLEAN :
         /\ IF confirmed THEN UNCHANGED faults ELSE Fault("read")
         /\ CASE Resolved(l, confirmed) = "salla" ->
                   lane' = [lane EXCEPT ![l].pc = "present", ![l].way = "adopt"] /\ UNCHANGED flagged
              [] Resolved(l, confirmed) = "zid" /\ ~lane[l].rekeyed ->
                   Goto(l, "rekey") /\ UNCHANGED flagged
              [] Resolved(l, confirmed) = "zid" /\ lane[l].rekeyed ->
                   Outcome(l, "held") /\ Flag(l)
              [] OTHER -> Outcome(l, "error") /\ Flag(l)
    /\ UNCHANGED <<hubspot, ledger, status, approved, queue, past>>

-----------------------------------------------------------------------------
(* top_up_items, of a found order ("verify") or of the holder of a 400
   ("adopt"). *)

\* A defect: line keys where item ids belong.
MissingLines(o) == AllLines \ ItemKeys(o)

Missing(o) == {i \in Item : ~OnOrder(ItemKeys(o), i)}

\* Unsafe or held: nothing is attempted; a found order is judged by count.
NotAttempted(l) ==
    IF lane[l].way = "verify" THEN Goto(l, "count") /\ UNCHANGED flagged
                              ELSE Outcome(l, "error") /\ Flag(l)

\* An order found complete is ledgered; an adopted one is shown as synced before.
FoundWhole(l) == Goto(l, IF lane[l].way = "adopt" THEN "sync" ELSE "settle")

\* order_item_keys before: nothing missing is complete.
Present(l) ==
    /\ At(l, "present")
    /\ \/ Missing(Oid(l)) = {} /\ FoundWhole(l) /\ UNCHANGED <<flagged, faults>>
       \/ /\ Missing(Oid(l)) # {} /\ approved[Oid(l)]
          /\ lane' = [lane EXCEPT ![l].pc = "loop", ![l].todo = Missing(Oid(l))]
          /\ UNCHANGED <<flagged, faults>>
       \/ Missing(Oid(l)) # {} /\ ~approved[Oid(l)] /\ NotAttempted(l) /\ UNCHANGED faults
       \/ Fault("read") /\ NotAttempted(l)
       \* the gate's search raises: out of the poll cycle, nothing marked
       \/ /\ lane[l].way = "verify" /\ Missing(Oid(l)) # {} /\ Fault("read")
          /\ lane' = [lane EXCEPT ![l] = Idle] /\ UNCHANGED flagged
    /\ UNCHANGED <<hubspot, ledger, status, approved, queue, past>>

\* order_item_keys after: still short is partial.
Reread(l) ==
    /\ At(l, "loop") /\ lane[l].todo = {} /\ lane[l].way # "fresh"
    /\ \/ Missing(Oid(l)) = {} /\ FoundWhole(l) /\ UNCHANGED <<flagged, faults>>
       \/ Missing(Oid(l)) # {} /\ Outcome(l, "error") /\ Flag(l) /\ UNCHANGED faults
       \/ Fault("read") /\ Outcome(l, "error") /\ Flag(l)
    /\ UNCHANGED <<hubspot, ledger, status, approved, queue, past>>

-----------------------------------------------------------------------------
(* The item loop: process_item and the two bundle routes. *)

StartItem(l) ==
    /\ At(l, "loop")
    /\ \E i \in lane[l].todo :
         lane' = [lane EXCEPT ![l].pc = "line", ![l].todo = @ \ {i},
                              ![l].line = <<i, Whole>>, ![l].comps = Comps[i]]
    /\ UNCHANGED <<hubspot, ledger, flagged, status, approved, queue, past, faults>>

\* A defect: the item is passed over without an errors.csv row.
ItemRaisesUnrecorded(l) ==
    /\ At(l, "loop") /\ Fault("read")
    /\ \E i \in lane[l].todo :
         lane' = [lane EXCEPT ![l].todo = @ \ {i}, ![l].err = TRUE]
    /\ UNCHANGED <<hubspot, ledger, flagged, status, approved, queue, past>>

\* A product or template search raises: an errors.csv row, the next item.
ItemRaises(l) ==
    /\ At(l, "loop") /\ Fault("read")
    /\ \E i \in lane[l].todo :
         lane' = [lane EXCEPT ![l].todo = @ \ {i}, ![l].err = TRUE]
    /\ Flag(l)
    /\ UNCHANGED <<hubspot, ledger, status, approved, queue, past>>

\* After a line: the next component of the bundle, or the next item.
NextLine(l) ==
    \/ /\ lane[l].comps = {}
       /\ lane' = [lane EXCEPT ![l].pc = "loop", ![l].line = Idle.line]
    \/ \E c \in lane[l].comps :
         lane' = [lane EXCEPT ![l].pc = "line", ![l].line = <<lane[l].line[1], c>>,
                              ![l].comps = @ \ {c}]

\* create_line_item: made, or named by the 400 and reused.
MakeLine(l) ==
    /\ At(l, "line")
    /\ made' = [made EXCEPT ![Oid(l)] = @ \cup {lane[l].line}]
    /\ Goto(l, "link")
    /\ UNCHANGED <<holder, index, keys, ledger, flagged, status, approved, queue, past, faults>>

\* create_line_item returns None, or the bundle record is refused.
RefuseLine(l) ==
    /\ At(l, "line") /\ Fault("refuse")
    /\ refused' = [refused EXCEPT ![Oid(l)] = @ \cup {lane[l].line}]
    /\ Goto(l, "flag")
    /\ UNCHANGED <<hubspot, ledger, flagged, partial, unflagged, approved, queue, past>>

\* flag_partial, the only trace of a refused line: a PATCH whose answer is not
\* looked at. Without its parent the bundle has no components.
FlagPartial(l) ==
    /\ At(l, "flag")
    /\ \/ /\ partial' = partial \cup {Oid(l)} /\ unflagged' = unflagged \ {Oid(l)}
          /\ UNCHANGED faults
       \/ Fault("status") /\ unflagged' = unflagged \cup {Oid(l)} /\ UNCHANGED partial
    /\ IF lane[l].line[2] = Whole
       THEN lane' = [lane EXCEPT ![l].pc = "loop", ![l].line = Idle.line, ![l].comps = {}]
       ELSE NextLine(l)
    /\ UNCHANGED <<hubspot, ledger, flagged, refused, approved, queue, past>>

\* associate: its failure is logged and not looked at.
Link(l) ==
    /\ At(l, "link")
    /\ \/ keys' = [keys EXCEPT ![Oid(l)] = @ \cup {lane[l].line}] /\ UNCHANGED faults
       \/ Fault("link") /\ UNCHANGED keys
    /\ NextLine(l)
    /\ UNCHANGED <<holder, index, made, ledger, flagged, status, approved, queue, past>>

\* search_active_components raises after the parent line.
ComponentsRaise(l) ==
    /\ At(l, "link") /\ lane[l].line[2] = Whole /\ lane[l].comps # {}
    /\ Fault("read")
    /\ keys' = [keys EXCEPT ![Oid(l)] = @ \cup {lane[l].line}]
    /\ lane' = [lane EXCEPT ![l].pc = "loop", ![l].line = Idle.line, ![l].comps = {},
                            ![l].err = TRUE]
    /\ Flag(l)
    /\ UNCHANGED <<holder, index, made, ledger, status, approved, queue, past>>

\* The end of a fresh create: the ledger row only after a clean loop; the
\* outcome was set to "created" before it.
Finish(l) ==
    /\ At(l, "loop") /\ lane[l].todo = {} /\ lane[l].way = "fresh"
    /\ IF lane[l].err THEN Outcome(l, "done") ELSE Goto(l, "settle")
    /\ UNCHANGED <<hubspot, ledger, flagged, status, approved, queue, past, faults>>

Settle(l) ==
    /\ At(l, "settle")
    /\ ledger' = ledger \cup {Oid(l)}
    /\ Outcome(l, "done")
    /\ UNCHANGED <<hubspot, flagged, status, approved, queue, past, faults>>

\* queue_mark writes the outcome; an error spends an attempt. The backfill
\* moves on: its page is done with the order.
Mark(l) ==
    /\ At(l, "mark")
    /\ IF l \in Live
       THEN /\ row' = [row EXCEPT ![Oid(l)] = lane[l].out]
            /\ att' = [att EXCEPT ![Oid(l)] = IF lane[l].out \in {"error", "gone"} THEN @ + 1 ELSE @]
            /\ UNCHANGED past
       ELSE past' = past \cup {Oid(l)} /\ UNCHANGED queue
    /\ lane' = [lane EXCEPT ![l] = Idle]
    /\ UNCHANGED <<hubspot, ledger, flagged, status, approved, faults>>

-----------------------------------------------------------------------------
(* Around the lanes. *)

\* _maybe_settle_held: a held or given-up row whose order another path created.
SettleHeld(o) ==
    /\ row[o] = "held" \/ (row[o] = "error" /\ att[o] >= MaxAttempts)
    /\ o \in ledger
    /\ row' = [row EXCEPT ![o] = "done"]
    /\ UNCHANGED <<hubspot, ledger, flagged, status, approved, att, past, lane, faults>>

\* An engine is killed with everything its lanes had in hand.
Crash(engine) ==
    /\ \E l \in engine : ~At(l, "idle")
    /\ Fault("crash")
    /\ lane' = [l \in Lane |-> IF l \in engine THEN Idle ELSE lane[l]]
    /\ UNCHANGED <<hubspot, ledger, flagged, status, approved, queue, past>>

\* HubSpot's search catches up with the records.
Reindex(o) ==
    /\ index[o] # {holder[o]} \ {"none"}
    /\ index' = [index EXCEPT ![o] = {holder[o]} \ {"none"}]
    /\ UNCHANGED <<holder, made, keys, ledger, flagged, status, approved, queue, past, lane, faults>>

Approve(o) ==
    /\ ~approved[o]
    /\ approved' = [approved EXCEPT ![o] = TRUE]
    /\ UNCHANGED <<hubspot, ledger, flagged, status, queue, past, lane, faults>>

Withdraw(o) ==
    /\ approved[o] /\ Fault("catalog")
    /\ approved' = [approved EXCEPT ![o] = FALSE]
    /\ UNCHANGED <<hubspot, ledger, flagged, status, queue, past, lane>>

Work(l) ==
    \/ LedgerHit(l) \/ Search(l) \/ Rekey(l) \/ Verify(l) \/ Count(l)
    \/ Fetch(l) \/ FetchMiss(l) \/ FetchFails(l) \/ Gate(l) \/ Create(l) \/ SetSynced(l) \/ CreateFails(l) \/ Duplicate(l)
    \/ Present(l) \/ Reread(l) \/ StartItem(l) \/ ItemRaises(l)
    \/ MakeLine(l) \/ RefuseLine(l) \/ FlagPartial(l) \/ Link(l) \/ ComponentsRaise(l)
    \/ Finish(l) \/ Settle(l) \/ Mark(l)

Next ==
    \/ \E l \in Lane : Work(l)
    \/ \E l \in Lane, o \in Order : Claim(l, o) \/ ScanSkip(l, o) \/ ScanNew(l, o)
    \/ Crash(Live) \/ Crash(Backfill)
    \/ \E o \in Order : SettleHeld(o) \/ Reindex(o) \/ Approve(o) \/ Withdraw(o)

Spec == Init /\ [][Next]_vars

\* A lane takes its next step, the live engine polls, the hourly settle runs.
Fairness ==
    /\ \A l \in Lane : WF_vars(Work(l))
    /\ \A l \in Live : WF_vars(\E o \in Order : Claim(l, o))
    /\ \A l \in Backfill : WF_vars(\E o \in Order : ScanSkip(l, o) \/ ScanNew(l, o))
    /\ \A o \in Order : WF_vars(SettleHeld(o)) /\ WF_vars(Reindex(o))

FairSpec == Spec /\ Fairness

-----------------------------------------------------------------------------
RowStates == {"queued", "processing", "done", "held", "error", "gone"}
Pcs == {"idle", "resolve", "rekey", "verify", "count", "fetch", "gate", "post", "present",
        "sync", "loop", "line", "flag", "link", "settle", "mark"}
Line == {<<NoItem, Whole>>} \cup AllLines
LaneState ==
    [pc : Pcs, oid : Order \cup {NoOrder}, way : {"fresh", "verify", "adopt"},
     todo : SUBSET Item, line : Line, comps : SUBSET UNION {Comps[i] : i \in Item},
     err : BOOLEAN, rekeyed : BOOLEAN, out : {"none", "done", "held", "error", "gone"}]

TypeOK ==
    /\ holder \in [Order -> {"none", "zid", "salla"}]
    /\ index \in [Order -> SUBSET {"zid", "salla"}]
    /\ made \in [Order -> SUBSET AllLines]
    /\ keys \in [Order -> SUBSET AllLines]
    /\ ledger \subseteq Order /\ flagged \subseteq Order /\ past \subseteq Order
    /\ partial \subseteq Order /\ unflagged \subseteq Order /\ refused \in [Order -> SUBSET AllLines]
    /\ approved \in [Order -> BOOLEAN]
    /\ row \in [Order -> RowStates]
    /\ att \in [Order -> Nat]
    /\ lane \in [Lane -> LaneState]
    /\ faults \in [n : 0..MaxFaults, kinds : SUBSET Faults]

\* Whatever crashes, races or fails, a ledgered order of plain products lacks no
\* line item but those HubSpot refused, and then HubSpot shows it as partial,
\* unless that write failed too: "Nothing is dropped silently" (docs/
\* ARCHITECTURE.md 3.4; _finish_create, flag_partial, _resolve_preexisting).
Accounted ==
    \A o \in ledger :
        /\ AllLines \ keys[o] \subseteq refused[o]
        /\ Complete(o) \/ o \in partial \cup unflagged

\* Line items, ledger entries and "done" rows only ever belong to the Salla
\* order of that number, never to the Zid order that held it, however late the
\* search index is (orders_by_salla_id, _order_holder).
OnlyOurOrder ==
    \A o \in Order :
        keys[o] # {} \/ o \in ledger \/ row[o] = "done" => holder[o] = "salla"

\* A row is marked done only for an order the ledger has, or whose failed items
\* have an error record (_process_batch, _resolve_preexisting, _maybe_settle_held).
DoneAccounted == \A o \in Order : row[o] = "done" => o \in ledger \cup flagged

\* What Accounted and OnlyOurOrder rest on. An idle lane has no failure
\* left over from its last order; a busy one knows its order, the line it is at and the outcome
\* it marks, and has not gone from a found order straight into a fresh create;
InHand ==
    \A l \in Lane :
        /\ IF At(l, "idle") THEN ~lane[l].err ELSE Oid(l) \in Order
        /\ At(l, "mark") => lane[l].out # "none"
        /\ lane[l].pc \in {"resolve", "verify", "count", "present"} => lane[l].way # "fresh"
        /\ lane[l].pc \in {"gate", "post"} => lane[l].way = "fresh"
        /\ lane[l].pc \in {"line", "flag", "link"} =>
             \E i \in Item : lane[l].line \in LinesOf(i) /\ lane[l].comps \subseteq Comps[i]

\* past the verification of a found order, or past the create, the number is
\* the Salla order's, and the search never shows more than that;
Ours ==
    /\ \A o \in Order : "salla" \in index[o] => holder[o] = "salla"
    /\ \A l \in Lane :
         \/ lane[l].pc \in {"verify", "present", "count", "sync", "loop", "line", "flag", "link", "settle"}
         \/ At(l, "mark") /\ lane[l].out = "done"
         => holder[Oid(l)] = "salla"

\* an item that raised, and a "done" with no ledger row, are on record;
Recorded ==
    \A l \in Lane :
        /\ lane[l].err => Oid(l) \in flagged
        /\ At(l, "mark") /\ lane[l].out = "done" => Oid(l) \in ledger \cup flagged

\* no two lanes are past the create of one order,
Creating(l) ==
    lane[l].way = "fresh" /\ lane[l].pc \in {"sync", "loop", "line", "flag", "link", "settle"}
Alone ==
    \A l, m \in Lane : Creating(l) /\ Creating(m) /\ Oid(l) = Oid(m) => l = m

\* and a fresh create has linked each item it is through with, unless HubSpot
\* refused it; the other ways to the ledger have a complete order in hand, and
\* nobody resets the status of a ledgered order that is short.
Through(o, k) == k \in keys[o] \/ (k \in refused[o] /\ o \in partial \cup unflagged)
LoopedAt(l) ==
    /\ lane[l].pc \in {"loop", "line", "flag", "link"} /\ lane[l].way = "fresh" /\ ~lane[l].err =>
         \A i \in Item \ lane[l].todo :
            Through(Oid(l), <<i, Whole>>) \/ (~At(l, "loop") /\ lane[l].line[1] = i)
    /\ At(l, "flag") => lane[l].line \in refused[Oid(l)]
    /\ At(l, "sync") /\ lane[l].way = "fresh" => lane[l].todo = Item
    /\ At(l, "sync") /\ (lane[l].way # "fresh" \/ Oid(l) \in ledger) => Complete(Oid(l))
    /\ At(l, "settle") => IF lane[l].way = "fresh" THEN \A k \in AllLines : Through(Oid(l), k)
                                                  ELSE Complete(Oid(l))
Looped == \A l \in Lane : LoopedAt(l)

Given(o) == row[o] \in {"done", "held", "gone"} \/ (row[o] = "error" /\ att[o] >= MaxAttempts)

\* Every queue row comes to an end: done, held, gone or out of attempts.
EveryRowEnds == \A o \in Order : <>[]Given(o)

\* With nothing worse than crashes and lost responses, the order of every
\* approved row ends complete in HubSpot and in the ledger, and its row done
\* (_claimable, _resolve_preexisting, top_up_items).
CrashesHeal ==
    \A o \in Order :
        []approved[o] /\ [](faults.kinds \subseteq {"crash", "lost"}) =>
            <>[](Complete(o) /\ o \in ledger /\ row[o] = "done")

-----------------------------------------------------------------------------
(* What documents and comments promise; see the README for what the runs of
   these properties show. *)

\* "done (created in HubSpot, ledger updated)" (docs/ARCHITECTURE.md 5.1).
DoneMeansLedgered == \A o \in Order : row[o] = "done" => o \in ledger

\* "The created-ledger records only FULLY-synced orders (order + all its line
\* items), so a ledger hit is authoritative" (live.py _resolve_preexisting).
LedgerMeansComplete == \A o \in ledger : Complete(o)

\* "a crash-partial is repaired, not silently accepted" (docs/ARCHITECTURE.md
\* 3.3): the backfill does not move past an order that is short and unrecorded.
PastAccounted ==
    \A o \in past : Complete(o) \/ o \in flagged \cup partial \/ \E l \in Lane : Oid(l) = o
=============================================================================

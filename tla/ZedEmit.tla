------------------------------ MODULE ZedEmit ------------------------------
(***************************************************************************)
(* The emission of one month of the Zid import (zed_emit.py): orders that  *)
(* were planned offline are created in HubSpot a chunk at a time, then     *)
(* their line items, then the associations of the two.  An append-only     *)
(* file per month says which orders are created and which are done; a run  *)
(* repairs what an earlier one left half-way.  HubSpot refuses a second    *)
(* record with the same Zid id ("already has that value").  One run at a   *)
(* time (flock).  New contacts, which are created one by one before the    *)
(* orders, and the waits for the live sync are left out.                   *)
(***************************************************************************)
EXTENDS Naturals, Sequences, FiniteSets

CONSTANTS
    Plan,        \* the planned orders of the month, in the order of the file
    PlanLines,   \* order -> its planned line items
    ChunkOrders, \* CHUNK_ORDERS
    EmMaxFaults  \* bound on failed calls, lost answers and kills

PlannedIds == {Plan[i] : i \in 1..Len(Plan)}

ASSUME EmitAssumption ==
    /\ Plan \in Seq(PlannedIds) /\ Cardinality(PlannedIds) = Len(Plan)
    /\ ChunkOrders \in Nat \ {0} /\ EmMaxFaults \in Nat

VARIABLES
    portal,      \* order -> what HubSpot holds of it
    searched,    \* order -> the part of it that HubSpot's search shows
    monthLedger, \* order -> its last row in mirror/zed_emitted/<month>.csv
    emit,        \* the run: pc, orders to come, the chunk and its orders to repair,
                 \* the order under repair, line items still to send, and those with an id
    unlinked,    \* history: orders whose association a repair sent in vain
    emFaults

emVars == <<portal, searched, monthLedger, emit, unlinked, emFaults>>

NotRunning == [pc |-> "idle", todo |-> {}, chunk |-> {}, repairs |-> {}, repaired |-> {},
               lines |-> {}, have |-> {}]
Nothing == [order |-> FALSE, lines |-> {}, linked |-> {}]

EmInit ==
    /\ portal = [o \in PlannedIds |-> Nothing] /\ searched = portal
    /\ monthLedger = [o \in PlannedIds |-> "none"]
    /\ emit = NotRunning /\ unlinked = {} /\ emFaults = EmMaxFaults

EmFault == emFaults > 0 /\ emFaults' = emFaults - 1

(* Orders are taken in the order of the plan. *)
PlanPlace(o) == CHOOSE i \in 1..Len(Plan) : Plan[i] = o
FirstPlanned(S, n) == {o \in S : Cardinality({q \in S : PlanPlace(q) < PlanPlace(o)}) < n}

LinesOf(orders) == UNION {{<<o, l>> : l \in PlanLines[o]} : o \in orders}
Goes(pc) == emit' = [emit EXCEPT !.pc = pc]
MarkMonth(o, status) == monthLedger' = [monthLedger EXCEPT ![o] = status]

(* HubSpot takes the line items ls, pairs of an order and an item. *)
WithLines(ls) ==
    [o \in PlannedIds |-> [portal[o] EXCEPT !.lines = @ \cup {l \in PlanLines[o] : <<o, l>> \in ls}]]
WithLinks(ls) ==
    [o \in PlannedIds |-> [portal[o] EXCEPT !.linked = @ \cup {l \in PlanLines[o] : <<o, l>> \in ls}]]
HasLine(x) == x[2] \in portal[x[1]].lines

SearchCatchesUp ==
    /\ \E o \in PlannedIds : /\ searched[o] # portal[o]
                          /\ searched' = [searched EXCEPT ![o] = portal[o]]
    /\ UNCHANGED <<portal, monthLedger, emit, unlinked, emFaults>>

-----------------------------------------------------------------------------
(* A batch of HubSpot is all or nothing.  Asked for records of which one is
   there, it answers "exists"; so does the retry of a request whose answer was
   lost.  A call that fails for good may have been carried out. *)
Outcomes(exists) ==
    IF exists THEN {[sent |-> FALSE, answer |-> "exists", fault |-> FALSE],
                    [sent |-> FALSE, answer |-> "failed", fault |-> TRUE]}
    ELSE {[sent |-> TRUE, answer |-> "ok", fault |-> FALSE]}
             \cup [sent : {TRUE}, answer : {"exists", "failed"}, fault : {TRUE}]
             \cup [sent : {FALSE}, answer : {"failed"}, fault : {TRUE}]
Costs(c) == IF c.fault THEN EmFault ELSE UNCHANGED emFaults

-----------------------------------------------------------------------------
(* emit_month: what the file says is left to do. *)
StartMonth ==
    /\ emit.pc = "idle"
    /\ emit' = [NotRunning EXCEPT !.pc = "repair",
                                  !.todo = {o \in PlannedIds : monthLedger[o] = "none"},
                                  !.repairs = {o \in PlannedIds : monthLedger[o] = "created"}]
    /\ UNCHANGED <<portal, searched, monthLedger, unlinked, emFaults>>

(* repair_order: the line items that its search shows; a search that fails
   shows none. *)
RepairOrder ==
    /\ emit.pc = "repair"
    /\ \E o \in emit.repairs, seen \in BOOLEAN :
          LET have == IF seen THEN searched[o].lines ELSE {} IN
          /\ IF seen THEN UNCHANGED emFaults ELSE EmFault
          /\ MarkMonth(o, "created")
          /\ emit' = [emit EXCEPT !.pc = "repairlines", !.repairs = @ \ {o},
                                  !.repaired = {o},
                                  !.have = LinesOf({o}) \cap {<<o, l>> : l \in have},
                                  !.lines = LinesOf({o}) \ {<<o, l>> : l \in have}]
    /\ UNCHANGED <<portal, searched, unlinked>>

(* A batch that HubSpot refuses is sent again one by one. *)
RepairLines ==
    /\ emit.pc = "repairlines" /\ emit.lines # {}
    /\ \E c \in Outcomes(\E x \in emit.lines : HasLine(x)) :
          /\ Costs(c)
          /\ portal' = IF c.sent THEN WithLines(emit.lines) ELSE portal
          /\ emit' = CASE c.answer = "ok" -> [emit EXCEPT !.lines = {}, !.have = @ \cup emit.lines]
                       [] c.answer = "exists" -> [emit EXCEPT !.pc = "repairone"]
                       [] OTHER -> NotRunning
    /\ UNCHANGED <<searched, monthLedger, unlinked>>

(* mutant: a line item that exists is taken as done without its id *)
RepairOneSkips ==
    /\ emit.pc = "repairone"
    /\ \E x \in emit.lines : \E c \in Outcomes(HasLine(x)) :
          /\ Costs(c)
          /\ portal' = IF c.sent THEN WithLines({x}) ELSE portal
          /\ emit' = IF c.answer = "failed" THEN NotRunning
                     ELSE [emit EXCEPT !.lines = @ \ {x},
                                       !.pc = IF emit.lines = {x} THEN "repairlines" ELSE @,
                                       !.have = IF c.answer = "ok" THEN @ \cup {x} ELSE @]
    /\ UNCHANGED <<searched, monthLedger, unlinked>>

(* The refusal of one line item names the record that has its id. *)
RepairOne ==
    /\ emit.pc = "repairone"
    /\ \E x \in emit.lines : \E c \in Outcomes(HasLine(x)) :
          /\ Costs(c)
          /\ portal' = IF c.sent THEN WithLines({x}) ELSE portal
          /\ emit' = IF c.answer = "failed" THEN NotRunning
                     ELSE [emit EXCEPT !.lines = @ \ {x}, !.have = @ \cup {x},
                                       !.pc = IF emit.lines = {x} THEN "repairlines" ELSE @]
    /\ UNCHANGED <<searched, monthLedger, unlinked>>

(* The answer of the association call is not looked at. *)
RepairLinks ==
    /\ emit.pc = "repairlines" /\ emit.lines = {}
    /\ \/ portal' = WithLinks(emit.have) /\ UNCHANGED <<unlinked, emFaults>>
       \/ /\ EmFault /\ unlinked' = unlinked \cup emit.repaired
          /\ UNCHANGED portal
    /\ Goes("repaired")
    /\ UNCHANGED <<searched, monthLedger>>

RepairDone ==
    /\ emit.pc = "repaired"
    /\ \E o \in emit.repaired : MarkMonth(o, "done")
    /\ emit' = [emit EXCEPT !.pc = "repair", !.repaired = {}, !.have = {}]
    /\ UNCHANGED <<portal, searched, unlinked, emFaults>>

(* After the repairs: the rest of a chunk that was met half-way, or the next. *)
NextChunk ==
    LET next == FirstPlanned(emit.todo, ChunkOrders) IN
    /\ emit.pc = "repair" /\ emit.repairs = {}
    /\ emit' = IF emit.chunk # {} THEN [emit EXCEPT !.pc = "orders"]
               ELSE IF emit.todo = {} THEN [NotRunning EXCEPT !.pc = "emitted"]
               ELSE [emit EXCEPT !.pc = "orders", !.chunk = next, !.todo = @ \ next]
    /\ UNCHANGED <<portal, searched, monthLedger, unlinked, emFaults>>

-----------------------------------------------------------------------------
(* emit_chunk *)
EmitOrders ==
    /\ emit.pc = "orders"
    /\ \E c \in Outcomes(\E o \in emit.chunk : portal[o].order) :
          /\ Costs(c)
          /\ portal' = IF ~c.sent THEN portal
                       ELSE [o \in PlannedIds |->
                                [portal[o] EXCEPT !.order = @ \/ o \in emit.chunk]]
          /\ emit' = CASE c.answer = "ok" -> [emit EXCEPT !.pc = "mark"]
                       [] c.answer = "exists" -> [emit EXCEPT !.pc = "scan"]
                       [] OTHER -> NotRunning
    /\ UNCHANGED <<searched, monthLedger, unlinked>>

(* The orders of the chunk that the lost-response scan does not find. *)
Remainder(existing) == emit.chunk \ existing

(* A scan that finds none, or fails, ends the run. *)
ScanLost ==
    LET existing == {o \in emit.chunk : searched[o].order} IN
    /\ emit.pc = "scan"
    /\ \/ /\ UNCHANGED emFaults
          /\ emit' = IF existing = {} THEN NotRunning
                     ELSE [emit EXCEPT !.pc = "repair", !.repairs = existing,
                                       !.chunk = Remainder(existing)]
       \/ EmFault /\ emit' = NotRunning
    /\ UNCHANGED <<portal, searched, monthLedger, unlinked>>

Unmarked(status) == {o \in emit.chunk : monthLedger[o] # status}

MarkCreated ==
    /\ emit.pc = "mark" /\ Unmarked("created") # {}
    /\ \E o \in FirstPlanned(Unmarked("created"), 1) : MarkMonth(o, "created")
    /\ UNCHANGED <<portal, searched, emit, unlinked, emFaults>>

AllCreated ==
    /\ emit.pc = "mark" /\ Unmarked("created") = {}
    /\ emit' = [emit EXCEPT !.pc = "lines", !.lines = LinesOf(emit.chunk)]
    /\ UNCHANGED <<portal, searched, monthLedger, unlinked, emFaults>>

(* A hundred line items a call, whatever their orders: some of those left. *)
EmitLines ==
    /\ emit.pc = "lines" /\ emit.lines # {}
    /\ \E batch \in SUBSET emit.lines \ {{}} :
       \E c \in Outcomes(\E x \in batch : HasLine(x)) :
          /\ Costs(c)
          /\ portal' = IF c.sent THEN WithLines(batch) ELSE portal
          /\ emit' = IF c.answer = "ok"
                     THEN [emit EXCEPT !.lines = @ \ batch, !.have = @ \cup batch]
                     ELSE NotRunning
    /\ UNCHANGED <<searched, monthLedger, unlinked>>

EmitLinks ==
    /\ emit.pc = "lines" /\ emit.lines = {}
    /\ \E batch \in SUBSET emit.have : \E sent \in BOOLEAN :
          /\ batch # emit.have => EmFault
          /\ batch = emit.have => IF sent THEN UNCHANGED emFaults ELSE EmFault
          /\ portal' = WithLinks(batch)
          /\ emit' = IF batch = emit.have /\ sent THEN [emit EXCEPT !.pc = "finish"]
                     ELSE NotRunning
    /\ UNCHANGED <<searched, monthLedger, unlinked>>

MarkDone ==
    /\ emit.pc = "finish" /\ Unmarked("done") # {}
    /\ \E o \in FirstPlanned(Unmarked("done"), 1) : MarkMonth(o, "done")
    /\ UNCHANGED <<portal, searched, emit, unlinked, emFaults>>

ChunkDone ==
    /\ emit.pc = "finish" /\ Unmarked("done") = {}
    /\ emit' = [emit EXCEPT !.pc = "repair", !.chunk = {}, !.have = {}]
    /\ UNCHANGED <<portal, searched, monthLedger, unlinked, emFaults>>

(* The end of the run, a kill at any point, or STOP.zed_emit between chunks. *)
EmitStopped ==
    /\ emit.pc # "idle"
    /\ \/ EmFault
       \/ /\ \/ emit.pc = "emitted"
             \/ emit.pc = "repair" /\ emit.repairs = {} /\ emit.chunk = {} /\ emit.todo # {}
          /\ UNCHANGED emFaults
    /\ emit' = NotRunning
    /\ UNCHANGED <<portal, searched, monthLedger, unlinked>>

EmNext ==
    \/ SearchCatchesUp \/ StartMonth \/ RepairOrder \/ RepairLines \/ RepairOne \/ RepairLinks
    \/ RepairDone \/ NextChunk \/ EmitOrders \/ ScanLost \/ MarkCreated \/ AllCreated
    \/ EmitLines \/ EmitLinks \/ MarkDone \/ ChunkDone \/ EmitStopped

-----------------------------------------------------------------------------
EmTypeOK ==
    /\ \A o \in PlannedIds : \A p \in {portal[o], searched[o]} :
          p.order \in BOOLEAN /\ p.linked \subseteq p.lines /\ p.lines \subseteq PlanLines[o]
    /\ monthLedger \in [PlannedIds -> {"none", "created", "done"}]
    /\ unlinked \subseteq PlannedIds /\ emFaults \in 0..EmMaxFaults

(* A re-run skips an order the month's file calls done for ever.  Whatever was
   killed, refused or answered late on the way there, HubSpot then holds the
   order with every planned line item, and, unless the one association call
   whose answer nobody reads has failed, each of them is the order's.  And a
   run that says EMITTED leaves no order of the month behind: neither one it
   found half created nor one that shared a chunk with such an order. *)
DoneComplete ==
    /\ \A o \in PlannedIds : monthLedger[o] = "done" =>
          /\ portal[o].order /\ portal[o].lines = PlanLines[o]
          /\ portal[o].linked = PlanLines[o] \/ o \in unlinked
    /\ emit.pc = "emitted" => \A o \in PlannedIds : monthLedger[o] = "done"

(* "DONE once its line items and associations are in" (zed_emit.py): violated
   when the association call of a repair fails. *)
DoneLinked ==
    \A o \in PlannedIds : monthLedger[o] = "done" => portal[o].linked = PlanLines[o]
=============================================================================

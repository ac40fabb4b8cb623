---------------------------- MODULE BackfillRun ----------------------------
(***************************************************************************)
(* The backfill's page loop (backfill.py Engine.run): a cursor over time   *)
(* slots and the pages of each, kept in a file.  A page is listed, its new *)
(* orders are fetched and fanned out over lanes, and only when the page is *)
(* through does the cursor move.  A run may be stopped, or killed, at any  *)
(* point and be started again.                                             *)
(*                                                                         *)
(* The lane of an order is one step with its outcome; OrderSync has its    *)
(* calls, AuditLog the audit row, CatalogGate the decision to hold.        *)
(***************************************************************************)
EXTENDS Naturals, Sequences, FiniteSets

CONSTANTS
    Pages,          \* slot -> page -> the orders Salla lists there
    OverflowPages,  \* pages of a slot Salla is trusted to list
    BfMaxFaults     \* bound on failed calls, stops and kills

BfOrder == UNION {UNION {Pages[s][p] : p \in DOMAIN Pages[s]} : s \in DOMAIN Pages}

ASSUME BackfillAssumption ==
    /\ Pages \in Seq(Seq(SUBSET BfOrder)) /\ Pages # <<>>
    /\ OverflowPages \in Nat /\ BfMaxFaults \in Nat

VARIABLES
    cursor,      \* the cursor file: slot, page, status
    run,         \* memory of the run: pc, pages listed, orders to do, stop latch
    created,     \* orders in HubSpot
    queueLog,    \* held orders with a row in the Queue Log
    queueMirror, \* held orders with a row in mirror/queue_mirror.csv
    errors,      \* orders with a row in mirror/errors.csv
    bfFaults

outcomes == <<created, queueLog, queueMirror, errors>>
bfVars == <<cursor, run, outcomes, bfFaults>>

Idle == [pc |-> "idle", total |-> 0, todo |-> {}, stop |-> FALSE]

BfInit ==
    /\ cursor = [slot |-> 1, page |-> 1, status |-> "running"]
    /\ run = Idle
    /\ created = {} /\ queueLog = {} /\ queueMirror = {} /\ errors = {}
    /\ bfFaults = BfMaxFaults

BfFault == bfFaults > 0 /\ bfFaults' = bfFaults - 1

(* List the page at the cursor.  A relay failure ends the run, nothing done. *)
ListPage ==
    /\ run.pc = "idle"
    /\ cursor.status \notin {"done", "done_overflow"}
    /\ LET slot == Pages[cursor.slot] IN
       run' = [pc |-> "scan", total |-> Len(slot), stop |-> FALSE,
               todo |-> IF cursor.page \in DOMAIN slot THEN slot[cursor.page] ELSE {}]
    /\ UNCHANGED <<cursor, outcomes, bfFaults>>

(* dedup_order_exists leaves the orders HubSpot does not have.  fetch_orders
   leaves out the ones the relay did not return: an error row each. *)
ScanPage ==
    /\ run.pc = "scan"
    /\ LET new == run.todo \ created IN
       \E missing \in SUBSET new :
         /\ IF missing = {} THEN UNCHANGED bfFaults ELSE BfFault
         /\ run' = [run EXCEPT !.pc = "lanes", !.todo = new \ missing]
         /\ errors' = errors \cup missing
    /\ UNCHANGED <<cursor, created, queueLog, queueMirror>>

Through(o) ==
    /\ run.pc = "lanes" /\ o \in run.todo /\ ~run.stop
    /\ run' = [run EXCEPT !.todo = @ \ {o}]
    /\ UNCHANGED cursor

CreateOrder(o) ==
    /\ Through(o)
    /\ created' = created \cup {o}
    /\ UNCHANGED <<queueLog, queueMirror, errors, bfFaults>>

(* queue_append only logs a failure. *)
QueueAppend(o) ==
    \/ queueLog' = queueLog \cup {o} /\ UNCHANGED bfFaults
    \/ BfFault /\ UNCHANGED queueLog

(* route_held: the local mirror first. *)
HoldOrder(o) ==
    /\ Through(o)
    /\ queueMirror' = queueMirror \cup {o}
    /\ QueueAppend(o)
    /\ UNCHANGED <<created, errors>>

(* _process_one: whatever the lane raises is an error row; the order may
   have been created before. *)
FailOrder(o) ==
    /\ Through(o)
    /\ BfFault
    /\ errors' = errors \cup {o}
    /\ created' \in {created, created \cup {o}}
    /\ UNCHANGED <<queueLog, queueMirror>>

(* STOP or --max-orders: no further order of the page is started. *)
StopRun ==
    /\ run.pc \in {"scan", "lanes"} /\ ~run.stop
    /\ BfFault
    /\ run' = [run EXCEPT !.stop = TRUE]
    /\ UNCHANGED <<cursor, outcomes>>

(* Cursor.advance. *)
SlotDone == cursor.page >= run.total
Overflowed == run.total > OverflowPages \/ cursor.status = "overflow"

NextStatus(last) ==
    IF last THEN IF Overflowed THEN "done_overflow" ELSE "done"
    ELSE IF Overflowed THEN "overflow" ELSE "running"

Advanced ==
    IF SlotDone
    THEN [slot |-> cursor.slot + 1, page |-> 1, status |-> NextStatus(cursor.slot = Len(Pages))]
    ELSE [slot |-> cursor.slot, page |-> cursor.page + 1, status |-> NextStatus(FALSE)]

(* mutant: a stopped page counts as done *)
PageThroughStopped == run.pc = "lanes" /\ (run.todo = {} \/ run.stop)

PageThrough == run.pc = "lanes" /\ run.todo = {} /\ ~run.stop

Advance ==
    /\ PageThrough
    /\ cursor' = Advanced
    /\ run' = Idle
    /\ UNCHANGED <<outcomes, bfFaults>>

(* Halting before the cursor advance: the page is scanned again. *)
Halt ==
    /\ run.pc \in {"scan", "lanes"} /\ run.stop
    /\ run' = Idle
    /\ UNCHANGED <<cursor, outcomes, bfFaults>>

(* Killed, or an exception nothing in the loop catches. *)
KillRun ==
    /\ run.pc # "idle"
    /\ BfFault
    /\ run' = Idle
    /\ UNCHANGED <<cursor, outcomes>>

BfNext ==
    \/ ListPage \/ ScanPage \/ StopRun \/ Advance \/ Halt \/ KillRun
    \/ \E o \in BfOrder : CreateOrder(o) \/ HoldOrder(o) \/ FailOrder(o)

-----------------------------------------------------------------------------
BfRun == [pc : {"idle", "scan", "lanes"}, total : Nat, todo : SUBSET BfOrder, stop : BOOLEAN]

BfTypeOK ==
    /\ cursor \in [slot : Nat \ {0}, page : Nat \ {0},
                   status : {"running", "overflow", "done", "done_overflow"}]
    /\ cursor.slot > Len(Pages) => cursor.status \in {"done", "done_overflow"}
    /\ run \in BfRun
    /\ {created, queueLog, queueMirror, errors} \subseteq SUBSET BfOrder
    /\ bfFaults \in Nat

PageBefore(s, p) == s < cursor.slot \/ (s = cursor.slot /\ p < cursor.page)
Passed == UNION {UNION {Pages[s][p] : p \in {q \in DOMAIN Pages[s] : PageBefore(s, q)}} :
                   s \in DOMAIN Pages}

(* "Nothing was silently dropped" (Engine.run's summary): whatever stops,
   kills and failures there were, an order on a page the cursor has passed is
   in HubSpot, or in a file of the mirror as held or failed. *)
PassedKept == Passed \subseteq created \cup queueMirror \cup errors

(* The page a run is at is the cursor's, of the slot it listed; of its orders
   those not yet through are still to do. *)
AtCursor ==
    run.pc # "idle" =>
      LET slot == Pages[cursor.slot] IN
      /\ cursor.slot \in DOMAIN Pages /\ run.total = Len(slot)
      /\ cursor.page \in DOMAIN slot =>
           slot[cursor.page] \subseteq created \cup queueMirror \cup errors \cup run.todo

(* "Every order the gate held was written to the Queue Log" (queue_drain.py):
   what the drain never sees is in HubSpot or among the errors. *)
HeldLogged == Passed \subseteq created \cup queueLog \cup errors
=============================================================================

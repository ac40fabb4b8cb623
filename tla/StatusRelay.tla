---------------------------- MODULE StatusRelay -----------------------------
(***************************************************************************)
(* The status relay: a Make scenario appends a row to the Status Queue for *)
(* every status event of an order, and one consumer moves the order's      *)
(* HubSpot stage accordingly (StatusRelay.handle_row in status_relay.py,   *)
(* run by the loop of RealtimeConsumer in realtime_base.py).               *)
(*                                                                         *)
(* The k-th status an order has in Salla is event k, and its time stamp    *)
(* orders events as k does.  HubSpot holds the event its stage was set     *)
(* from; the code sees the stage only.  Row n of the model is row n + 1 of *)
(* the sheet.  One consumer runs (TabLock and the heartbeat see to that);  *)
(* it alone deletes rows.                                                  *)
(***************************************************************************)
EXTENDS Naturals, Sequences, FiniteSets

CONSTANTS
    Order,        \* Salla order ids
    Stage,        \* status_stage_map along an order's life: Stage[k] of event k
    NoStage,      \* what an unmapped status has for a stage
    Ladder,       \* length of status_retry_ladder
    MaxAttempts,  \* realtime_max_attempts
    StaleStage,   \* whether HubSpot's search may show a stage already changed
    MaxRows,      \* bound on the rows that are ever appended
    MaxFaults,    \* bound on kills, stops and failed calls
    MaxRequeues   \* bound on the rows a human puts back to queued

ASSUME StatusRelayAssumption ==
    /\ StaleStage \in BOOLEAN
    /\ Stage \in Seq({Stage[k] : k \in DOMAIN Stage})
    /\ MaxAttempts \in Nat \ {0}
    /\ {Ladder, MaxRows, MaxFaults, MaxRequeues} \subseteq Nat

VARIABLES
    salla,     \* events each order has had in Salla
    lane,      \* event in the payload an engine is creating the order from
    zid,       \* orders not in HubSpot whose number an imported order holds
    hs,        \* event each order's stage in HubSpot is from, 0 without order
    index,     \* the same as the search shows it
    sheet,     \* rows [id, o, k, status, att, ripe, hand]
    ids,       \* rows appended so far
    disk,      \* status_state.json: start_row
    ledger,    \* status_applied.csv: last event applied per order, 0 for none
    pc,        \* where the consumer's cycle is
    start,     \* _start_row
    claim,     \* claimed rows not yet handled
    outcome,   \* state to be written for the row in hand
    walked, trimmed,  \* the daily re-walk and trim were done
    doomed,    \* row numbers the trim is to delete
    faults, requeues

world == <<salla, lane, zid>>
hubspot == <<hs, index>>
queue == <<sheet, ids>>
memory == <<start, disk>>
daily == <<walked, trimmed>>
bounds == <<faults, requeues>>
vars == <<world, hubspot, queue, memory, ledger, pc, claim, outcome, daily, doomed, bounds>>

Event == DOMAIN Stage

\* No row is left in these by the consumer; the cursor walks past them.
Terminal == {"done", "superseded", "error-final"}

Init ==
    /\ salla = [o \in Order |-> 0] /\ lane = [o \in Order |-> 0]
    /\ zid \in SUBSET Order
    /\ hs = [o \in Order |-> 0] /\ index = [o \in Order |-> 0]
    /\ sheet = <<>> /\ ids = 0
    /\ disk = 1 /\ start = 1 /\ ledger = [o \in Order |-> 0]
    /\ pc = "poll" /\ claim = {} /\ outcome = "none"
    /\ walked = FALSE /\ trimmed = FALSE /\ doomed = {}
    /\ faults = 0 /\ requeues = 0

-----------------------------------------------------------------------------
(* Salla, Make, the engines that create orders, HubSpot's index, and time. *)

StatusChange(o) ==
    /\ salla[o] + 1 \in Event
    /\ salla' = [salla EXCEPT ![o] = @ + 1]
    /\ UNCHANGED <<lane, zid, hubspot, queue, memory, ledger, pc, claim, outcome, daily, doomed, bounds>>

\* An event's row may come late, more than once, or not at all.
Capture(o, k) ==
    /\ k \in 1..salla[o] /\ ids < MaxRows
    /\ ids' = ids + 1
    /\ sheet' = Append(sheet, [id |-> ids', o |-> o, k |-> k, status |-> "queued",
                               att |-> 0, ripe |-> FALSE, hand |-> FALSE])
    /\ UNCHANGED <<world, hubspot, memory, ledger, pc, claim, outcome, daily, doomed, bounds>>

\* An engine reads the order from Salla, then creates it with that status, or
\* fails to. A Zid order on the number is moved off it first. The search finds
\* the new order later.
FetchOrder(o) ==
    /\ salla[o] # 0 /\ hs[o] = 0 /\ lane[o] = 0
    /\ lane' = [lane EXCEPT ![o] = salla[o]]
    /\ UNCHANGED <<salla, zid, hubspot, queue, memory, ledger, pc, claim, outcome, daily, doomed, bounds>>

CreateOrder(o) ==
    /\ lane[o] # 0
    /\ lane' = [lane EXCEPT ![o] = 0]
    /\ \/ /\ hs' = [hs EXCEPT ![o] = lane[o]]
          /\ zid' = zid \ {o}
       \/ UNCHANGED <<hs, zid>>
    /\ UNCHANGED <<salla, index, queue, memory, ledger, pc, claim, outcome, daily, doomed, bounds>>

Reindex ==
    /\ index # hs
    /\ index' = hs
    /\ UNCHANGED <<world, hs, queue, memory, ledger, pc, claim, outcome, daily, doomed, bounds>>

\* The not-before time of a deferred row passes.
Ripen(n) ==
    /\ n \in DOMAIN sheet
    /\ sheet[n].status = "deferred" /\ ~sheet[n].ripe
    /\ sheet' = [sheet EXCEPT ![n].ripe = TRUE]
    /\ UNCHANGED <<world, hubspot, ids, memory, ledger, pc, claim, outcome, daily, doomed, bounds>>

\* Someone puts a row back to queued, between two cycles.
Requeue(n) ==
    /\ n \in DOMAIN sheet /\ requeues < MaxRequeues /\ pc = "poll"
    /\ sheet[n].status \in Terminal
    /\ requeues' = requeues + 1
    /\ sheet' = [sheet EXCEPT ![n].status = "queued", ![n].hand = TRUE]
    /\ UNCHANGED <<world, hubspot, ids, memory, ledger, pc, claim, outcome, daily, doomed, faults>>

\* Between two cycles.
NewDay ==
    /\ pc = "poll" /\ (walked \/ trimmed)
    /\ walked' = FALSE /\ trimmed' = FALSE
    /\ UNCHANGED <<world, hubspot, queue, memory, ledger, pc, claim, outcome, doomed, bounds>>

-----------------------------------------------------------------------------
(* Poll and claim. *)

\* f is the first row from s on that is not settled, or the first free one.
Frontier(s, f) ==
    /\ \A n \in s..(f - 1) : sheet[n].status \in Terminal
    /\ f <= Len(sheet) => sheet[f].status \notin Terminal

\* A defect: the tab is only read on from the cursor.
WalkOn == start

\* Once a day the tab is walked again from its first row.
WalkFrom == IF walked THEN start ELSE 1

Claimable(n, retry) ==
    \/ sheet[n].status = "queued"
    \/ sheet[n].status = "deferred" /\ sheet[n].ripe
    \/ sheet[n].status = "error" /\ retry

\* Error rows are taken up in every 36th poll.
Poll(retry) ==
    /\ pc = "poll"
    /\ walked' = TRUE
    /\ \E f \in WalkFrom..(Len(sheet) + 1) : Frontier(WalkFrom, f) /\ start' = f /\ disk' = f
    /\ claim' = {[n |-> n, o |-> sheet[n].o, k |-> sheet[n].k, att |-> sheet[n].att] :
                 n \in {n \in WalkFrom..Len(sheet) : Claimable(n, retry)}}
    /\ pc' = "row"
    /\ UNCHANGED <<world, hubspot, queue, ledger, outcome, trimmed, doomed, bounds>>

\* The rows are handled in the order of the tab.
InHand(r) == r \in claim /\ \A q \in claim : r.n <= q.n

-----------------------------------------------------------------------------
(* handle_row, for the row r in hand. *)

Handling(r) == pc = "row" /\ InHand(r)

Decide(status) == pc' = "mark" /\ outcome' = status

Unmapped(r) ==
    /\ Handling(r) /\ Stage[r.k] = NoStage
    /\ Decide("error-final")
    /\ UNCHANGED <<world, hubspot, queue, memory, ledger, claim, daily, doomed, bounds>>

\* A defect: events are applied as their rows come.
AsTheyCome(r) == TRUE

NewerThanApplied(r) == r.k >= ledger[r.o]

Older(r) ==
    /\ Handling(r) /\ Stage[r.k] # NoStage /\ ~NewerThanApplied(r)
    /\ Decide("superseded")
    /\ UNCHANGED <<world, hubspot, queue, memory, ledger, claim, daily, doomed, bounds>>

\* The search comes next.
Searching(r) == Handling(r) /\ Stage[r.k] # NoStage /\ NewerThanApplied(r)

\* No order: wait for it along the ladder, unless a Zid order holds the number.
Absent(r) ==
    /\ Searching(r) /\ index[r.o] = 0
    /\ Decide(IF r.o \in zid \/ r.att >= Ladder THEN "error-final" ELSE "deferred")
    /\ UNCHANGED <<world, hubspot, queue, memory, ledger, claim, daily, doomed, bounds>>

\* The order has that stage: it was created with it.
BakedIn(r) ==
    /\ Searching(r) /\ index[r.o] # 0 /\ Stage[index[r.o]] = Stage[r.k]
    /\ ledger' = [ledger EXCEPT ![r.o] = r.k]
    /\ Decide("superseded")
    /\ UNCHANGED <<world, hubspot, queue, memory, claim, daily, doomed, bounds>>

Patching(r) == Searching(r) /\ index[r.o] # 0 /\ Stage[index[r.o]] # Stage[r.k]

SetStage(r) ==
    /\ hs' = [hs EXCEPT ![r.o] = r.k]
    /\ index' = IF StaleStage THEN index ELSE hs'

Patch(r) ==
    /\ Patching(r) /\ SetStage(r)
    /\ pc' = "record"
    /\ UNCHANGED <<world, queue, memory, ledger, claim, outcome, daily, doomed, bounds>>

Record(r) ==
    /\ pc = "record" /\ InHand(r)
    /\ ledger' = [ledger EXCEPT ![r.o] = r.k]
    /\ Decide("done")
    /\ UNCHANGED <<world, hubspot, queue, memory, claim, daily, doomed, bounds>>

\* _settle: the error that spends the last attempt ends the row.
Settle(r) == IF r.att + 1 >= MaxAttempts THEN "error-final" ELSE "error"

\* The search or the PATCH fails, or the PATCH lands and its answer is lost.
CallFails(r) ==
    /\ Searching(r) /\ faults < MaxFaults
    /\ faults' = faults + 1
    /\ \/ UNCHANGED hubspot
       \/ Patching(r) /\ SetStage(r)
    /\ Decide(Settle(r))
    /\ UNCHANGED <<world, queue, memory, ledger, claim, daily, doomed, requeues>>

\* A defect: a row that waits is written back with the attempts it had.
AttemptsUncounted(r) == IF outcome = "deferred" THEN r.att ELSE r.att + 1

Attempts(r) == r.att + 1

Mark(r) ==
    /\ pc = "mark" /\ InHand(r)
    /\ sheet' = [sheet EXCEPT ![r.n].status = outcome, ![r.n].ripe = FALSE,
                              ![r.n].hand = FALSE,
                              ![r.n].att = Attempts(r)]
    /\ claim' = claim \ {r} /\ outcome' = "none" /\ pc' = "row"
    /\ UNCHANGED <<world, hubspot, ids, memory, ledger, daily, doomed, bounds>>

-----------------------------------------------------------------------------
(* The end of a cycle, and what cuts one short. *)

\* Two defects: the reset cursor is not saved; row 1 is taken for the first.
ResetUnsaved(s) == start' = s /\ UNCHANGED disk
ResetToHeader(s) == start' = s - 1 /\ disk' = s - 1

Reset(s) == start' = s /\ disk' = s

\* _maybe_trim outside its hour, or done today.
TrimNot ==
    /\ pc = "row" /\ claim = {}
    /\ pc' = "poll"
    /\ UNCHANGED <<world, hubspot, queue, memory, ledger, claim, outcome, daily, doomed, bounds>>

\* The settled rows of the oldest c are to go; none if the lock is refused.
TrimBegin ==
    /\ pc = "row" /\ claim = {} /\ ~trimmed
    /\ trimmed' = TRUE /\ Reset(1) /\ pc' = "cut"
    /\ \E c \in 0..Len(sheet) : doomed' = {n \in 1..c : sheet[n].status \in Terminal}
    /\ UNCHANGED <<world, hubspot, queue, ledger, claim, outcome, walked, bounds>>

\* Rows go from the bottom up; a call that fails leaves the rest.
TrimDelete ==
    /\ pc = "cut"
    /\ \E d \in doomed :
          /\ \A n \in doomed : n <= d
          /\ sheet' = SubSeq(sheet, 1, d - 1) \o SubSeq(sheet, d + 1, Len(sheet))
          /\ doomed' = doomed \ {d}
    /\ UNCHANGED <<world, hubspot, ids, memory, ledger, pc, claim, outcome, daily, bounds>>

TrimEnd ==
    /\ pc = "cut"
    /\ Reset(1) /\ pc' = "poll" /\ doomed' = {}
    /\ UNCHANGED <<world, hubspot, queue, ledger, claim, outcome, daily, bounds>>

\* A sheet call fails outside the trim: the cycle ends, the next one follows.
CycleFails ==
    /\ pc \in {"poll", "mark"} /\ faults < MaxFaults
    /\ faults' = faults + 1
    /\ pc' = "poll" /\ claim' = {} /\ outcome' = "none"
    /\ UNCHANGED <<world, hubspot, queue, memory, ledger, daily, doomed, requeues>>

\* The STOP file is seen between two rows; the tail of the cycle still runs.
Stop ==
    /\ pc = "row" /\ claim # {} /\ faults < MaxFaults
    /\ faults' = faults + 1
    /\ claim' = {}
    /\ UNCHANGED <<world, hubspot, queue, memory, ledger, pc, outcome, daily, doomed, requeues>>

\* Killed; the memory of a new process.
NewProcess ==
    /\ faults < MaxFaults
    /\ faults' = faults + 1
    /\ start' = disk
    /\ pc' = "poll" /\ claim' = {} /\ outcome' = "none" /\ doomed' = {}
    /\ walked' = FALSE /\ trimmed' = FALSE
    /\ UNCHANGED <<world, hubspot, queue, disk, requeues>>

\* A defect: the ledger is not read when the consumer starts.
RestartBlank == NewProcess /\ ledger' = [o \in Order |-> 0]

\* Killed and started again: the cursor and the ledger are read from disk.
Restart == NewProcess /\ UNCHANGED ledger

-----------------------------------------------------------------------------
Handle(r) ==
    \/ Unmapped(r) \/ Older(r) \/ Absent(r) \/ BakedIn(r)
    \/ Patch(r) \/ Record(r) \/ Mark(r)

Work == (\E r \in claim : Handle(r)) \/ TrimNot \/ TrimEnd

Environment ==
    \/ \E o \in Order : StatusChange(o) \/ FetchOrder(o) \/ CreateOrder(o)
    \/ \E o \in Order, k \in Event : Capture(o, k)
    \/ \E n \in DOMAIN sheet : Ripen(n) \/ Requeue(n)
    \/ Reindex \/ NewDay

Next ==
    \/ Environment \/ Work
    \/ \E retry \in BOOLEAN : Poll(retry)
    \/ \E r \in claim : CallFails(r)
    \/ TrimBegin \/ TrimDelete \/ CycleFails \/ Stop \/ Restart

Spec == Init /\ [][Next]_vars

\* The consumer keeps going and every 36th poll retries errors; not-before
\* times, days and index delays pass.
FairSpec ==
    /\ Spec
    /\ WF_vars(Work) /\ WF_vars(\E retry \in BOOLEAN : Poll(retry)) /\ SF_vars(Poll(TRUE))
    /\ SF_vars(NewDay) /\ WF_vars(Reindex)
    /\ \A n \in 1..MaxRows : WF_vars(Ripen(n))

-----------------------------------------------------------------------------
(* Properties. *)

EventOrNone == {0} \union Event
Row == [id : 1..MaxRows, o : Order, k : Event,
        status : {"queued", "deferred", "error"} \union Terminal,
        att : Nat, ripe : BOOLEAN, hand : BOOLEAN]

\* Type correctness; the row in hand is where the consumer saw it.
TypeOK ==
    /\ salla \in [Order -> EventOrNone] /\ lane \in [Order -> EventOrNone]
    /\ hs \in [Order -> EventOrNone] /\ index \in [Order -> EventOrNone]
    /\ ledger \in [Order -> EventOrNone]
    /\ zid \subseteq Order
    /\ sheet \in Seq(Row) /\ ids \in 0..MaxRows /\ Len(sheet) <= ids
    /\ start \in 1..(MaxRows + 1) /\ disk \in 1..(MaxRows + 1)
    /\ pc \in {"poll", "row", "record", "mark", "cut"}
    /\ outcome \in {"none", "deferred", "error"} \union Terminal
    /\ walked \in BOOLEAN /\ trimmed \in BOOLEAN
    /\ doomed \subseteq DOMAIN sheet
    /\ claim \subseteq [n : DOMAIN sheet, o : Order, k : Event, att : Nat]
    /\ \A r \in claim : sheet[r.n].o = r.o /\ sheet[r.n].k = r.k
    /\ faults \in 0..MaxFaults /\ requeues \in 0..MaxRequeues

\* The cursor, in memory or on disk, never stands past an open row, whatever
\* a trim or a kill does (_maybe_trim, _load_state); a row that someone put
\* back by hand is the exception, and the daily re-walk is for it.
NothingBehind ==
    \A n \in DOMAIN sheet :
        n < start \/ n < disk => sheet[n].status \in Terminal \/ sheet[n].hand

\* The stage in HubSpot is never older than the last event the ledger calls
\* applied: what it was once moved past does not come back (handle_row).
StageKept ==
    \A o \in Order : ledger[o] # 0 =>
        \E k \in Event : k >= ledger[o] /\ Stage[k] = Stage[hs[o]]

\* The ledger never goes back, over restarts and late or repeated rows.
LedgerForward == [][\A o \in Order : ledger'[o] >= ledger[o]]_vars

Waiting(o, k) ==
    \E n \in DOMAIN sheet :
        /\ sheet[n].o = o /\ sheet[n].k = k
        /\ sheet[n].status \notin Terminal
Open(i) == \E n \in DOMAIN sheet : sheet[n].id = i /\ sheet[n].status \notin Terminal

\* An update whose order is in HubSpot when the queue is polled is applied, or
\* a newer one is.
Catches ==
    \A o \in Order, k \in {k \in Event : Stage[k] # NoStage} :
        (pc = "poll" /\ Waiting(o, k) /\ index[o] # 0) ~> (ledger[o] >= k)

\* Every row ends, one that was put back behind the cursor too.
EveryRowEnds == \A i \in 1..MaxRows : Open(i) ~> ~Open(i)
=============================================================================

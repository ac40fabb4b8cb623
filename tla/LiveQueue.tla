----------------------------- MODULE LiveQueue ------------------------------
(***************************************************************************)
(* The Live Queue: a sheet to which a Make scenario appends one row per    *)
(* webhook, and the one engine that polls, claims, marks, sweeps, trims    *)
(* and settles it (run_live and its helpers in live.py, the queue methods  *)
(* of GoogleIO in backfill.py).  What happens to one order between claim   *)
(* and mark is OrderSync's; here a lane returns any of its outcomes.       *)
(*                                                                         *)
(* Row n of the model is row n + 1 of the sheet, below the header.  Only   *)
(* the engine's thread deletes rows or writes E:H, so the re-read of the   *)
(* order id and the write it guards are one step.                          *)
(***************************************************************************)
EXTENDS Naturals, Sequences, FiniteSets

CONSTANTS
    Order,        \* Salla order ids; all in the sweep window at first
    MaxAttempts,  \* live_max_attempts
    MaxRows,      \* bound on the rows that are ever appended
    MaxFaults,    \* bound on crashes and failed cycles
    MaxDays       \* bound on how often live_trim_days pass

ASSUME LiveQueueAssumption ==
    /\ IsFiniteSet(Order)
    /\ MaxAttempts \in Nat \ {0}
    /\ {MaxRows, MaxFaults, MaxDays} \subseteq Nat

VARIABLES
    sheet,     \* rows [id, oid, status, att, old], id counting all rows ever
    ids,       \* rows appended so far
    listed,    \* orders Salla lists within the sweep window
    ledger,    \* orders in the created ledger
    closed,    \* held orders the catalog drain finished with, not created
    saved,     \* live_state.json: start_row
    pc,        \* where the engine's cycle is
    start,     \* _start_row
    drained,   \* the poll saw no queued row
    todo,      \* claimed rows: primaries to resolve, then orders in the lanes
    fetch,     \* primaries whose order is to be created
    twins,     \* claimed rows of an order claimed before in the cycle
    marks,     \* outcomes to be written
    known,     \* order ids the sweep saw in the sheet
    doomed,    \* row numbers the trim is to delete
    faults, days

store == <<ledger, closed, listed>>
cycle == <<drained, todo, fetch, twins, marks, known, doomed>>
bounds == <<faults, days>>
vars == <<sheet, ids, store, saved, pc, start, cycle, bounds>>

\* "closed" is a gone row whose note names the catalog drain (DRAIN_CLOSED).
Status == {"queued", "processing", "done", "held", "error", "gone", "closed"}
Terminal == {"done", "gone", "held", "closed"}
Deletable == {"done", "gone", "closed"}

Init ==
    /\ sheet = <<>> /\ ids = 0
    /\ listed = Order /\ ledger = {} /\ closed = {}
    /\ saved = 1 /\ pc = "off" /\ start = 1 /\ drained = TRUE
    /\ todo = {} /\ fetch = {} /\ twins = {} /\ marks = {}
    /\ known = {} /\ doomed = {}
    /\ faults = 0 /\ days = 0

-----------------------------------------------------------------------------
(* The sheet. *)

RowsOf(o) == {n \in DOMAIN sheet : sheet[n].oid = o}

NewRow(k, o) == [id |-> k, oid |-> o, status |-> "queued", att |-> 0, old |-> FALSE]

\* A row as the engine holds it, and what is to become of it: an error of the
\* order spends an attempt, the error of a twin does not. The attempts of a
\* settled row, which nothing reads, are left out.
Claimed(n) == [n |-> n, oid |-> sheet[n].oid, att |-> sheet[n].att]
MarkOf(r, status, att) ==
    [n |-> r.n, oid |-> r.oid, status |-> status,
     att |-> IF status \in Terminal THEN 0 ELSE att]

\* A defect the code once had: the attempts are written back as they were.
OutcomeUncounted(r, status) == MarkOf(r, status, r.att)

Outcome(r, status) == MarkOf(r, status, r.att + 1)
Same(r, status) == MarkOf(r, status, r.att)

\* queue_mark, queue_mark_batch: a mark lands if its row still is its order's.
Written(M) ==
    [n \in DOMAIN sheet |->
        IF \E m \in M : m.n = n /\ m.oid = sheet[n].oid
        THEN LET m == CHOOSE m \in M : m.n = n
             IN  [sheet[n] EXCEPT !.status = m.status, !.att = m.att]
        ELSE sheet[n]]

Goto(from, to) == pc = from /\ pc' = to

\* The end of a cycle: what it had in hand is dropped.
Forget ==
    /\ todo' = {} /\ fetch' = {} /\ twins' = {} /\ marks' = {}
    /\ known' = {} /\ doomed' = {} /\ drained' = TRUE

-----------------------------------------------------------------------------
(* Poll and claim. *)

\* The first row at or after the pointer that is not settled.
Frontier ==
    LET open == {n \in start..Len(sheet) : sheet[n].status \notin Terminal}
    IN  IF open = {} THEN Len(sheet) + 1 ELSE CHOOSE n \in open : \A m \in open : n <= m

Claimable(n, retry) ==
    \/ sheet[n].status \in {"queued", "processing"}
    \/ retry /\ sheet[n].status = "error" /\ sheet[n].att < MaxAttempts

\* The rows from the pointer on are read, the pointer is moved and saved, and
\* of the claimable rows of an order the first is its primary. Error rows are
\* taken up in every 36th poll.
Poll(retry) ==
    /\ pc = "poll"
    /\ LET claim == {n \in start..Len(sheet) : Claimable(n, retry)}
           first == {n \in claim : \A m \in claim : sheet[m].oid = sheet[n].oid => n <= m}
       IN  /\ todo' = {Claimed(n) : n \in first}
           /\ twins' = {Claimed(n) : n \in claim \ first}
           /\ pc' = IF claim = {} THEN "sweep" ELSE "resolve"
    /\ start' = Frontier /\ saved' = Frontier
    /\ drained' = \A n \in start..Len(sheet) : sheet[n].status # "queued"
    /\ UNCHANGED <<sheet, ids, store, fetch, marks, known, doomed, bounds>>

\* _resolve_preexisting: a ledger hit, or what the verification of a found
\* order comes to, or nothing: the order is to be fetched and created.
Resolve(r) ==
    /\ pc = "resolve" /\ r \in todo
    /\ todo' = todo \ {r}
    /\ \/ marks' = marks \cup {Outcome(r, "done")} /\ ledger' = ledger \cup {r.oid}
          /\ UNCHANGED fetch
       \/ /\ r.oid \notin ledger
          /\ \E out \in {"held", "error"} : marks' = marks \cup {Outcome(r, out)}
          /\ UNCHANGED <<ledger, fetch>>
       \/ /\ r.oid \notin ledger
          /\ fetch' = fetch \cup {r}
          /\ UNCHANGED <<ledger, marks>>
    /\ UNCHANGED <<sheet, ids, closed, listed, saved, pc, start, drained, twins, known, doomed, bounds>>

MarkResolved ==
    /\ todo = {}
    /\ Goto("resolve", IF fetch = {} THEN "twins" ELSE "fetch")
    /\ sheet' = Written(marks) /\ marks' = {}
    /\ UNCHANGED <<ids, store, saved, start, drained, todo, fetch, twins, known, doomed, bounds>>

\* fetch_orders, and the batch is stamped "processing".
Stamp ==
    /\ Goto("fetch", "lanes")
    /\ sheet' = Written({Same(r, "processing") : r \in fetch})
    /\ todo' = fetch /\ fetch' = {}
    /\ UNCHANGED <<ids, store, saved, start, drained, twins, marks, known, doomed, bounds>>

\* A lane ends with one of process_order's outcomes, or the relay had nothing.
Lane(r) ==
    /\ pc = "lanes" /\ r \in todo
    /\ todo' = todo \ {r}
    /\ \/ marks' = marks \cup {Outcome(r, "done")} /\ ledger' = ledger \cup {r.oid}
       \/ \E out \in {"held", "error"} : marks' = marks \cup {Outcome(r, out)} /\ UNCHANGED ledger
       \/ /\ r.att + 1 >= MaxAttempts
          /\ marks' = marks \cup {Outcome(r, "gone")} /\ UNCHANGED ledger
    /\ UNCHANGED <<sheet, ids, closed, listed, saved, pc, start, drained, fetch, twins, known, doomed, bounds>>

MarkLane(m) ==
    /\ pc = "lanes" /\ m \in marks
    /\ sheet' = Written({m}) /\ marks' = marks \ {m}
    /\ UNCHANGED <<ids, store, saved, pc, start, drained, todo, fetch, twins, known, doomed, bounds>>

LanesDone ==
    /\ todo = {} /\ marks = {} /\ Goto("lanes", "twins")
    /\ UNCHANGED <<sheet, ids, store, saved, start, cycle, bounds>>

\* Twins are done with the order, or err without spending an attempt.
MarkTwins ==
    /\ Goto("twins", "sweep")
    /\ sheet' = Written({Same(r, IF r.oid \in ledger THEN "done" ELSE "error") : r \in twins})
    /\ twins' = {}
    /\ UNCHANGED <<ids, store, saved, start, drained, todo, fetch, marks, known, doomed, bounds>>

-----------------------------------------------------------------------------
(* Sweep. *)

\* A defect: the sweep knows the rows the poll reads.
SweepKnownFromPointer == {sheet[n].oid : n \in start..Len(sheet)}

\* The whole sheet, not the view from the pointer.
SweepKnown == {sheet[n].oid : n \in DOMAIN sheet}

\* _sweep is due: the sheet is read ...
SweepRead ==
    /\ Goto("sweep", "append")
    /\ known' = SweepKnown
    /\ UNCHANGED <<sheet, ids, store, saved, start, drained, todo, fetch, twins, marks, doomed, bounds>>

\* ... the relay lists the window, and what nobody knows is appended. A webhook
\* may have come in between.
SweepAppend ==
    LET missed == (listed \ known) \ ledger
        count == Cardinality(missed)
    IN  /\ Goto("append", "trim")
        /\ \E page \in [1..count -> missed] :
             /\ missed = {page[k] : k \in 1..count}
             /\ sheet' = sheet \o [k \in 1..count |-> NewRow(ids + k, page[k])]
        /\ ids' = ids + count
        /\ known' = {}
        /\ UNCHANGED <<store, saved, start, drained, todo, fetch, twins, marks, doomed, bounds>>

\* Not due, or it failed.
SweepNot ==
    /\ pc \in {"sweep", "append"} /\ pc' = "trim" /\ known' = {}
    /\ UNCHANGED <<sheet, ids, store, saved, start, drained, todo, fetch, twins, marks, doomed, bounds>>

-----------------------------------------------------------------------------
(* Trim. *)

\* A defect (before v2.12): the pointer is reset only after the delete.
ResetLate == UNCHANGED <<start, saved>>

\* A defect: back to the header.
ResetToHeader == start' = 0 /\ saved' = 0

\* The pointer goes back to the first row before anything is deleted.
Reset == start' = 1 /\ saved' = 1

\* _maybe_trim and queue_trim, if the poll saw no queued row: the pointer is
\* reset, rows long closed are chosen and archived, unless a tool has the lock.
\* The re-read of the chosen rows is part of the step: only appends can come
\* between. The daily hour may come in any cycle.
TrimBegin ==
    /\ drained
    /\ Reset
    /\ \/ /\ Goto("trim", "delete")
          /\ doomed' = {n \in DOMAIN sheet : sheet[n].status \in Deletable /\ sheet[n].old}
       \/ Goto("trim", "settle") /\ UNCHANGED doomed
    /\ UNCHANGED <<sheet, ids, store, drained, todo, fetch, twins, marks, known, bounds>>

TrimNot ==
    /\ Goto("trim", "settle")
    /\ UNCHANGED <<sheet, ids, store, saved, start, cycle, bounds>>

\* A defect: the end of a range, exclusive in the API, is taken for its last row.
CutOneMore(a, b) == SubSeq(sheet, 1, a - 1) \o SubSeq(sheet, b + 2, Len(sheet))

\* deleteDimension: the rows below a deleted range move up.
Cut(a, b) == SubSeq(sheet, 1, a - 1) \o SubSeq(sheet, b + 1, Len(sheet))

\* One range goes; one call of the code deletes up to 100 of them.
TrimDelete ==
    /\ pc = "delete"
    /\ \E a, b \in doomed :
         /\ a <= b /\ a..b \subseteq doomed /\ a - 1 \notin doomed
         /\ \A n \in doomed : n <= b                  \* bottom-up
         /\ sheet' = Cut(a, b)
         /\ doomed' = doomed \ (a..b)
    /\ UNCHANGED <<ids, store, saved, pc, start, drained, todo, fetch, twins, marks, known, bounds>>

\* All gone, or a call failed: the pointer is reset once more.
TrimEnd ==
    /\ Goto("delete", "settle")
    /\ doomed = {} \/ faults < MaxFaults
    /\ faults' = IF doomed = {} THEN faults ELSE faults + 1
    /\ doomed' = {} /\ start' = 1 /\ saved' = 1
    /\ UNCHANGED <<sheet, ids, store, drained, todo, fetch, twins, marks, known, days>>

-----------------------------------------------------------------------------
(* Settle. *)

\* A defect: the settle reads what the poll reads.
SettleViewFromPointer == start..Len(sheet)

\* The settle reads the whole tab.
SettleView == DOMAIN sheet

\* Rows out of the engine's hands whose order exists after all.
CreatedLater ==
    {n \in SettleView :
        /\ \/ sheet[n].status \in {"held", "closed"}
           \/ sheet[n].status = "error" /\ sheet[n].att >= MaxAttempts
        /\ sheet[n].oid \in ledger}

\* Held rows whose order the drain has closed without creating it.
DrainClosed ==
    {n \in SettleView : sheet[n].status = "held" /\ sheet[n].oid \in closed \ ledger}

SettleHeld ==
    /\ Goto("settle", "poll") /\ Forget
    /\ sheet' = Written({Same(Claimed(n), "done") : n \in CreatedLater}
                          \cup {Same(Claimed(n), "closed") : n \in DrainClosed})
    /\ UNCHANGED <<ids, store, saved, start, bounds>>

SettleNot ==
    /\ Goto("settle", "poll") /\ Forget
    /\ UNCHANGED <<sheet, ids, store, saved, start, bounds>>

-----------------------------------------------------------------------------
(* Failures, and the world outside. *)

\* Any call raises out of the cycle.
CycleFails ==
    /\ pc \in {"resolve", "fetch", "lanes", "twins"} /\ faults < MaxFaults
    /\ faults' = faults + 1
    /\ pc' = "poll" /\ Forget
    /\ UNCHANGED <<sheet, ids, store, saved, start, days>>

\* STOP.live or a kill.
Stop ==
    /\ pc # "off" /\ faults < MaxFaults
    /\ faults' = faults + 1
    /\ pc' = "off" /\ Forget
    /\ UNCHANGED <<sheet, ids, store, saved, start, days>>

\* main: the pointer is read back.
Restart ==
    /\ Goto("off", "poll")
    /\ start' = saved
    /\ UNCHANGED <<sheet, ids, store, saved, cycle, bounds>>

\* What the sweep may still append, after a webhook of o.
SweepRoom(o) ==
    {p \in listed : (RowsOf(p) = {} /\ p # o) \/ (pc = "append" /\ p \notin known)}

\* Make appends a row: an order's first, or a webhook delivered again. The
\* bound leaves the sweep its room.
Webhook(o) ==
    /\ ids + Cardinality(SweepRoom(o)) < MaxRows
    /\ sheet' = Append(sheet, NewRow(ids + 1, o))
    /\ ids' = ids + 1
    /\ UNCHANGED <<store, saved, pc, start, cycle, bounds>>

\* Another path creates an order the queue gave up on: the drain, a tool.
CreateElsewhere(o) ==
    /\ o \notin ledger
    /\ \E n \in RowsOf(o) : sheet[n].status \in {"held", "error", "closed"}
    /\ ledger' = ledger \cup {o}
    /\ UNCHANGED <<sheet, ids, closed, listed, saved, pc, start, cycle, bounds>>

\* The drain is through with a held order and has not created it.
CloseElsewhere(o) ==
    /\ o \notin ledger \cup closed
    /\ \E n \in RowsOf(o) : sheet[n].status = "held"
    /\ closed' = closed \cup {o}
    /\ UNCHANGED <<sheet, ids, ledger, listed, saved, pc, start, cycle, bounds>>

\* live_trim_days pass; the sweep window is long over.
Days ==
    /\ days < MaxDays
    /\ days' = days + 1
    /\ sheet' = [n \in DOMAIN sheet |-> [sheet[n] EXCEPT !.old = TRUE]]
    /\ listed' = {}
    /\ UNCHANGED <<ids, ledger, closed, saved, pc, start, cycle, faults>>

Engine ==
    \/ \E retry \in BOOLEAN : Poll(retry)
    \/ \E r \in todo : Resolve(r) \/ Lane(r)
    \/ \E m \in marks : MarkLane(m)
    \/ MarkResolved \/ Stamp \/ LanesDone \/ MarkTwins
    \/ SweepRead \/ SweepAppend \/ SweepNot
    \/ TrimBegin \/ TrimNot \/ TrimDelete \/ TrimEnd
    \/ SettleHeld \/ SettleNot
    \/ Restart

Next ==
    \/ Engine \/ CycleFails \/ Stop \/ Days
    \/ \E o \in Order : Webhook(o) \/ CreateElsewhere(o) \/ CloseElsewhere(o)

Spec == Init /\ [][Next]_vars

\* The loop runs and is restarted; the poll retries errors every three minutes,
\* the sweep and the settle come round every hour and sooner or later succeed.
Fairness ==
    /\ WF_vars(Engine)
    /\ SF_vars(Poll(TRUE)) /\ SF_vars(SweepRead) /\ SF_vars(SweepAppend) /\ SF_vars(SettleHeld)

FairSpec == Spec /\ Fairness

-----------------------------------------------------------------------------
Pcs == {"off", "poll", "resolve", "fetch", "lanes", "twins", "sweep", "append",
        "trim", "delete", "settle"}
RowNo == 1..MaxRows
Counting == Nat \ {0}
Row == [id : Counting, oid : Order, status : Status, att : Nat, old : BOOLEAN]
InHand == [n : Counting, oid : Order, att : Nat]
Marking == [n : Counting, oid : Order, status : Status, att : Nat]

TypeOK ==
    /\ sheet \in Seq(Row) /\ ids \in Nat
    /\ listed \subseteq Order /\ ledger \subseteq Order /\ closed \subseteq Order
    /\ known \subseteq Order
    /\ saved \in Counting /\ start \in Counting /\ pc \in Pcs
    /\ todo \subseteq InHand /\ fetch \subseteq InHand /\ twins \subseteq InHand
    /\ marks \subseteq Marking
    /\ doomed \subseteq Counting
    /\ drained \in BOOLEAN
    /\ faults \in 0..MaxFaults /\ days \in 0..MaxDays

\* No row that is still to be worked on lies before the pointer of the engine,
\* or before the one a restart would load, whatever is trimmed, appended, or cut
\* short by a kill (run_live, _maybe_trim, queue_trim).
NothingBehind ==
    \A n \in DOMAIN sheet :
        n < saved \/ (pc # "off" /\ n < start) => sheet[n].status \in Terminal

\* The sweep never enqueues an order again that has a settled row, held ones
\* included, although the poll no longer reads that row (_sweep).
NoSecondEnqueue ==
    [][pc = "append" /\ pc' = "trim" =>
        \A n \in DOMAIN sheet' : n > Len(sheet) =>
            \A m \in RowsOf(sheet'[n].oid) : sheet[m].status \notin Terminal]_vars

OutOfAttempts(n) == sheet[n].status = "error" /\ sheet[n].att >= MaxAttempts

\* How far a row has come.
Stage(r) ==
    IF r.status \in Deletable THEN "closed"
    ELSE IF r.status = "held" \/ (r.status = "error" /\ r.att >= MaxAttempts) THEN "parked"
    ELSE "open"

\* Each row lives as RowLife says: trims remove closed rows only, although rows
\* move up under the numbers the engine holds, and no settled row is reopened.
Life(k) ==
    IF k > ids THEN "absent"
    ELSE IF \A n \in DOMAIN sheet : sheet[n].id # k THEN "removed"
    ELSE Stage(sheet[CHOOSE n \in DOMAIN sheet : sheet[n].id = k])

Rows == INSTANCE RowLife WITH RowId <- RowNo, life <- [k \in RowNo |-> Life(k)]
RowsLive == Rows!Spec

\* What these rest on. A restart loads the pointer the engine has, which is
\* at most past the last row; a cycle holds rows only in the phases that work on
\* them, and deletes with the pointer at the first row;
Phases ==
    /\ saved = start /\ start <= Len(sheet) + 1
    /\ pc \notin {"resolve", "lanes"} => todo = {} /\ marks = {}
    /\ pc \notin {"resolve", "fetch"} => fetch = {}
    /\ pc \notin {"resolve", "fetch", "lanes", "twins"} => twins = {}
    /\ pc = "delete" => start = 1

\* a row in hand lies at or after the pointer, is still its order's and still to
\* be worked on, and is in hand once only;
Lone(A) == \A r, s \in A : r.n = s.n => r = s
Apart(A, B) == \A r \in A, s \in B : r.n # s.n
Held(A) ==
    \A r \in A :
        r.n \in start..Len(sheet) /\ r.oid = sheet[r.n].oid /\ Stage(sheet[r.n]) = "open"
Hands ==
    /\ Held(todo) /\ Held(fetch) /\ Held(twins) /\ Held(marks)
    /\ Lone(todo) /\ Lone(fetch) /\ Lone(twins) /\ Lone(marks)
    /\ Apart(todo, fetch) /\ Apart(todo, twins) /\ Apart(todo, marks)
    /\ Apart(fetch, twins) /\ Apart(fetch, marks) /\ Apart(twins, marks)

\* the sweep knows the order of every settled row, the trim deletes closed rows,
\* and no two rows are the same one.
Known ==
    pc = "append" =>
        \A n \in DOMAIN sheet : sheet[n].status \in Terminal => sheet[n].oid \in known
Doomed == pc = "delete" => \A n \in doomed : n \in DOMAIN sheet /\ Stage(sheet[n]) = "closed"
Numbered ==
    /\ \A n \in DOMAIN sheet : sheet[n].id <= ids
    /\ \A m, n \in DOMAIN sheet : sheet[m].id = sheet[n].id => m = n

\* Every order Salla goes on listing gets a row or is in the ledger, its webhook
\* lost or not, and every row, twins too, ends settled or out of attempts.
EveryRowEnds ==
    \A o \in Order : <>[](/\ o \in listed => RowsOf(o) # {} \/ o \in ledger
                          /\ \A n \in RowsOf(o) : sheet[n].status \in Terminal \/ OutOfAttempts(n))

\* A row the engine will not claim again still becomes done when its order is
\* created by another path, although it lies before the pointer (_maybe_settle_held).
HeldSettles ==
    \A o \in Order : <>[](o \in ledger => \A n \in RowsOf(o) : sheet[n].status \in {"done", "gone"})
=============================================================================

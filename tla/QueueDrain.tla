----------------------------- MODULE QueueDrain -----------------------------
(***************************************************************************)
(* The queue drain (queue_drain.py): hourly passes over the Queue Log tab, *)
(* in which every order the catalog gate held has a row.  A pass claims    *)
(* the open rows, skips the ones it knows are still blocked, fetches the   *)
(* others in waves, creates the orders that pass the gate now, and writes  *)
(* the outcomes of a wave in one batch.                                    *)
(*                                                                         *)
(* An order is created in one step here; OrderSync has the calls of it.    *)
(* Several rows may carry one order, new rows arrive during a pass, the    *)
(* catalog changes under it, writes and fetches fail, and the process may  *)
(* be stopped or killed anywhere: Faults bounds how often.                 *)
(***************************************************************************)
EXTENDS Naturals, FiniteSets, SequencesExt

CONSTANTS
    Orders,      \* Salla orders
    Products,    \* Salla products
    Items,       \* [Orders -> SUBSET Products]
    ZidHeld,     \* orders whose number a Zid-import order holds at first
    OrderOf,     \* [Rows -> Orders], the order of each Queue Log row
    Cap,         \* live_max_attempts
    MaxOrders,   \* --max-orders of a pass
    WaveSize,    \* rows fetched together
    Changes,     \* bound on catalog changes
    Faults       \* bound on failed calls, lost writes, stops and kills

ASSUME DrainAssumption ==
    /\ Items \in [Orders -> SUBSET Products]
    /\ OrderOf \in Seq(Orders)
    /\ {Cap, MaxOrders, WaveSize} \subseteq Nat \ {0}
    /\ {Changes, Faults} \subseteq Nat
    /\ ZidHeld \subseteq Orders

Rows == DOMAIN OrderOf

(* What the gate asks HubSpot: does the product of this id, or a legacy
   record of this SKU, pass?  A deleted listing is asked for by SKU. *)
Checks == {"id", "sku"} \X Products
GateForms == {"id", "id+sku", "sku"}

VARIABLES
    log,       \* the Queue Log: row -> status, attempts, note and recorded keys
    tried,     \* rows with a try in their note, longest ago first
    old,       \* rows last tried SKIP_MAX_AGE_S ago or more
    passing,   \* the checks that pass in HubSpot now
    listed,    \* the products that still have a Salla listing
    zid,       \* orders whose number a Zid-import order holds
    hs,        \* order -> what HubSpot has of it
    ledger,    \* orders in the created ledger
    pc,        \* where the pass is
    base,      \* row -> the attempts a failure adds to, as read at the start
    todo,      \* rows the pass has still to fetch, in order
    twins,     \* claimed rows of an order that has a claimed row before
    wave,      \* fetched rows of this wave still to process
    cache,     \* check -> what this pass has read of it
    marks,     \* outcomes not yet written to the sheet
    done,      \* orders processed in this pass
    changes, faults,
    spent,     \* history: failures of the order since its last gate hold
    incomplete \* history: orders created without an item that failed

catalog == <<passing, listed, zid>>
sheet == <<log, tried, old>>
vars == <<log, tried, old, passing, listed, zid, hs, ledger, pc, base, todo, twins,
          wave, cache, marks, done, changes, faults, spent, incomplete>>

Least(a, b) == IF a < b THEN a ELSE b
Row(st, att, note, keys) == [st |-> st, att |-> att, note |-> note, keys |-> keys]
Unread == [c \in Checks |-> "?"]

(* The attempts column; past Cap its value no longer matters. *)
Upto(n) == Least(n, Cap)

-----------------------------------------------------------------------------
(* Reading the log. *)

Claimable(r) ==
    \/ log[r].st \in {"queued", "processing"}
    \/ log[r].st = "error" /\ log[r].att < Cap

Claimed == {r \in Rows : Claimable(r)}
Primaries == {r \in Claimed : \A q \in Claimed : OrderOf[q] = OrderOf[r] => r <= q}

(* _fail_base: the blocked passes before a failure do not count as failures. *)
FailBase(r) ==
    IF \/ log[r].note = "blocked"
       \/ log[r].st \in {"queued", "processing"} /\ log[r].att >= Cap
    THEN 0 ELSE log[r].att

LastTry(r) == IF r \in Range(tried) THEN CHOOSE i \in DOMAIN tried : tried[i] = r ELSE 0
TriedBefore(a, b) == LastTry(a) < LastTry(b) \/ (LastTry(a) = LastTry(b) /\ a < b)

-----------------------------------------------------------------------------
(* The catalog gate, with the cache of the pass. *)

Verdict(c) == IF cache[c] # "?" THEN cache[c] ELSE IF c \in passing THEN "pass" ELSE "fail"
Reading(C) == [c \in Checks |-> IF c \in C THEN Verdict(c) ELSE cache[c]]

GateCheck(p) == <<IF p \in listed THEN "id" ELSE "sku", p>>
Blockers(o) == {p \in Items[o] : Verdict(GateCheck(p)) = "fail"}

(* pids_note with _open_skus: the SKU goes next to an id it does not pass for. *)
KeyOf(p) == <<IF p \notin listed THEN "sku"
              ELSE IF Verdict(<<"sku", p>>) = "fail" THEN "id+sku" ELSE "id", p>>
ChecksOf(k) == {<<f, k[2]>> : f \in CASE k[1] = "id+sku" -> {"id", "sku"}
                                      [] OTHER -> {k[1]}}
StillBlocked(k) == \A c \in ChecksOf(k) : Verdict(c) = "fail"

Ready(o) == \A p \in Items[o] : GateCheck(p) \in passing

-----------------------------------------------------------------------------
(* qlog_mark_batch: every mark of the batch is written, or none is. *)

Mark(r, st, att, note, keys) == <<r, Row(st, att, note, keys)>>
RowsIn(M) == {m[1] : m \in M}
Written(M) == [r \in Rows |-> IF r \in RowsIn(M) THEN (CHOOSE m \in M : m[1] = r)[2] ELSE log[r]]

(* A note with a time in it is a try; the times of one batch are equal. *)
Write(M) ==
    LET dated == {m[1] : m \in {n \in M : n[2].note # "none"}}
    IN  /\ log' = Written(M)
        /\ tried' = SelectSeq(tried, LAMBDA r : r \notin RowsIn(M))
                    \o SetToSortSeq(dated, <)
        /\ old' = old \ RowsIn(M)

Fault == faults > 0 /\ faults' = faults - 1

WriteOrLose(M) == \/ Write(M) /\ UNCHANGED faults
                  \/ M # {} /\ Fault /\ UNCHANGED sheet

-----------------------------------------------------------------------------
Init ==
    /\ log = [r \in Rows |-> Row("none", 0, "none", {})]
    /\ tried = <<>> /\ old = {}
    /\ passing = {} /\ listed = Products
    /\ zid = ZidHeld
    /\ hs = [o \in Orders |-> "none"] /\ ledger = {}
    /\ pc = "idle"
    /\ base = [r \in Rows |-> 0]
    /\ todo = <<>> /\ twins = {} /\ wave = {}
    /\ cache = Unread /\ marks = {} /\ done = 0
    /\ changes = Changes /\ faults = Faults
    /\ spent = [o \in Orders |-> 0] /\ incomplete = {}

(* An engine holds the order and appends its row (route_held). *)
Arrive(r) ==
    /\ log[r].st = "none"
    /\ \A q \in Rows : q < r => log[q].st # "none"
    /\ hs[OrderOf[r]] = "none"
    /\ log' = [log EXCEPT ![r].st = "queued"]
    /\ UNCHANGED <<tried, old, catalog, hs, ledger, pc, base, todo, twins, wave, cache,
                   marks, done, changes, faults, spent, incomplete>>

(* The catalog owner approves or un-approves a product, or deletes a listing. *)
Catalog ==
    /\ changes > 0
    /\ changes' = changes - 1
    /\ \/ \E c \in Checks :
            /\ passing' = IF c \in passing THEN passing \ {c} ELSE passing \cup {c}
            /\ UNCHANGED listed
       \/ \E p \in listed : listed' = listed \ {p} /\ UNCHANGED passing
    /\ UNCHANGED <<sheet, zid, hs, ledger, pc, base, todo, twins, wave, cache, marks,
                   done, faults, spent, incomplete>>

(* SKIP_MAX_AGE_S goes by: the tries in the notes are that long ago. *)
SkipAge ==
    /\ pc = "idle"
    /\ old # Range(tried)
    /\ old' = Range(tried)
    /\ UNCHANGED <<log, tried, catalog, hs, ledger, pc, base, todo, twins, wave, cache,
                   marks, done, changes, faults, spent, incomplete>>

(* qlog_read, claimable, split_primaries, and the rows the ledger settles. *)
Start ==
    /\ pc = "idle"
    /\ Claimed # {}
    /\ pc' = "short"
    /\ base' = [r \in Rows |-> FailBase(r)]
    /\ twins' = Claimed \ Primaries
    /\ marks' = {Mark(r, "processed", Upto(log[r].att + 1), log[r].note, log[r].keys) :
                   r \in {q \in Primaries : OrderOf[q] \in ledger}}
    /\ todo' = SetToSortSeq({q \in Primaries : OrderOf[q] \notin ledger}, <)
    /\ cache' = Unread /\ done' = 0
    /\ UNCHANGED <<sheet, catalog, hs, ledger, wave, changes, faults, spent, incomplete>>

ShortCircuit ==
    /\ pc = "short"
    /\ pc' = "filter"
    /\ WriteOrLose(marks)
    /\ marks' = {}
    /\ UNCHANGED <<catalog, hs, ledger, base, todo, twins, wave, cache, done, changes, spent, incomplete>>

(* max(1, max_orders // 5) of the rows that are due for their age only. *)
AgeCap == IF MaxOrders < 10 THEN 1 ELSE MaxOrders \div 5
FirstOf(S, n) == {r \in S : Cardinality({q \in S : TriedBefore(q, r)}) < n}
(* mutant: a row whose recorded keys still fail is never fetched again *)
AgeDueNever(known) == {}

AgeDue(known) == FirstOf(known \cap old, AgeCap)

(* _skip_known_blocked, and the sort of what is left. *)
Filter ==
    /\ pc = "filter"
    /\ pc' = "wave"
    /\ LET rows == Range(todo)
           kept == {r \in rows : log[r].st = "queued" /\ log[r].att > 0 /\ log[r].keys # {}}
           wanted == UNION {log[r].keys : r \in kept}
       IN \E unread \in SUBSET wanted :
            LET known == {r \in kept : \A k \in log[r].keys : k \notin unread /\ StillBlocked(k)}
            IN /\ IF unread = {} THEN UNCHANGED faults ELSE Fault
               /\ cache' = Reading(UNION {ChecksOf(k) : k \in wanted \ unread})
               /\ todo' = SetToSortSeq(rows \ known, TriedBefore)
                          \o SetToSortSeq(AgeDue(known), TriedBefore)
    /\ UNCHANGED <<sheet, catalog, hs, ledger, base, twins, wave, marks, done, changes, spent, incomplete>>

-----------------------------------------------------------------------------
(* One wave. *)

Missing(r) == LET att == base[r] + 1
              IN  Mark(r, IF att >= Cap THEN "gone" ELSE "error", Upto(att), "failed", {})

(* A failed try of row r; the note loses the keys of an earlier hold. *)
FailedAfter(r, n) == Mark(r, "error", Upto(base[r] + n), "failed", {})
Failed(r) == FailedAfter(r, 1)
Spend(R) == [o \in Orders |-> Least(Cap, spent[o] + Cardinality({r \in R : OrderOf[r] = o}))]

(* Fetch the next wave.  A relay failure halts the pass; orders the relay
   does not return are failures; the others are marked as processing, which
   the sheet may lose. *)
Fetch ==
    /\ pc = "wave"
    /\ todo # <<>> /\ done < MaxOrders
    /\ LET n == Least(Len(todo), Least(WaveSize, MaxOrders - done))
           rows == Range(SubSeq(todo, 1, n))
       IN \E missing \in SUBSET rows :
            LET got == rows \ missing IN
            /\ todo' = SubSeq(todo, n + 1, Len(todo))
            /\ wave' = got
            /\ marks' = {Missing(r) : r \in missing}
            /\ spent' = Spend(missing)
            /\ pc' = "lanes"
            /\ \/ /\ missing = {}
                  /\ WriteOrLose({Mark(r, "processing", log[r].att, "processing", {}) : r \in got})
               \/ /\ missing # {} /\ Fault
                  /\ Write({Mark(r, "processing", log[r].att, "processing", {}) : r \in got})
    /\ UNCHANGED <<catalog, hs, ledger, base, twins, cache, done, changes, incomplete>>

RelayDown ==
    /\ pc = "wave"
    /\ todo # <<>> /\ done < MaxOrders
    /\ Fault
    /\ pc' = "twins" /\ todo' = <<>>
    /\ UNCHANGED <<sheet, catalog, hs, ledger, base, twins, wave, cache, marks, done, changes, spent, incomplete>>

(* STOP.drain: the orders not yet started stay as they are. *)
StopFile ==
    /\ pc \in {"wave", "lanes"}
    /\ Fault
    /\ wave' = {} /\ todo' = <<>>
    /\ UNCHANGED <<sheet, catalog, hs, ledger, pc, base, twins, cache, marks, done, changes, spent, incomplete>>

(* A lane takes a fetched row to its outcome. *)
Lane(r, mark) ==
    /\ pc = "lanes"
    /\ r \in wave
    /\ wave' = wave \ {r}
    /\ marks' = marks \cup {mark}
    /\ done' = done + 1
    /\ UNCHANGED <<sheet, pc, base, todo, twins, passing, listed, changes>>

Processed(r) == Mark(r, "processed", Upto(log[r].att + 1), "none", {})

(* resolve_preexisting takes an order of the ledger as it is, and one HubSpot
   has complete; that one is recorded. *)
Complete(o) == hs[o] = "full"

Existing(r) ==
    LET o == OrderOf[r] IN
    /\ o \in ledger \/ Complete(o)
    /\ Lane(r, Processed(r))
    /\ ledger' = ledger \cup {o}
    /\ UNCHANGED <<zid, hs, cache, faults, spent, incomplete>>

(* An order of ours without all its line items waits for a repair. *)
Partial(r) ==
    LET o == OrderOf[r] IN
    /\ o \notin ledger /\ hs[o] = "partial" /\ ~Complete(o)
    /\ Lane(r, Failed(r))
    /\ spent' = Spend({r})
    /\ UNCHANGED <<zid, hs, ledger, cache, faults, incomplete>>

(* The number belongs to a Zid order that cannot be moved: the row is parked
   with its attempts spent. *)
Parked(r) ==
    LET o == OrderOf[r] IN
    /\ o \notin ledger /\ hs[o] = "none" /\ o \in zid
    /\ Lane(r, FailedAfter(r, Cap))
    /\ UNCHANGED <<zid, hs, ledger, cache, faults, spent, incomplete>>

Rekeyed(r) ==
    LET o == OrderOf[r] IN
    /\ pc = "lanes" /\ r \in wave
    /\ o \notin ledger /\ hs[o] = "none" /\ o \in zid
    /\ zid' = zid \ {o}
    /\ UNCHANGED <<sheet, passing, listed, hs, ledger, pc, base, todo, twins, wave, cache,
                   marks, done, changes, faults, spent, incomplete>>

(* gate_cached: every item is read, and the SKUs next to blocked ids. *)
New(o) == o \notin ledger /\ hs[o] = "none" /\ o \notin zid
Gated(o) == {GateCheck(p) : p \in Items[o]} \cup {<<"sku", p>> : p \in Blockers(o)}

Blocked(r) ==
    LET o == OrderOf[r] IN
    /\ New(o) /\ Blockers(o) # {}
    /\ Lane(r, Mark(r, "queued", Upto(log[r].att + 1), "blocked", {KeyOf(p) : p \in Blockers(o)}))
    /\ cache' = Reading(Gated(o))
    /\ spent' = [spent EXCEPT ![o] = 0]
    /\ UNCHANGED <<zid, hs, ledger, faults, incomplete>>

(* Gate, create and item loop: every item has its lines. *)
Create(r) ==
    LET o == OrderOf[r] IN
    /\ New(o) /\ Blockers(o) = {}
    /\ Lane(r, Processed(r))
    /\ cache' = Reading(Gated(o))
    /\ hs' = [hs EXCEPT ![o] = "full"]
    /\ ledger' = ledger \cup {o}
    /\ UNCHANGED <<zid, faults, spent, incomplete>>

(* The order is created, then one of its items fails (_finish_create): the
   outcome is "created" since before the item loop, so the row is closed.  An
   item that raises goes to errors.csv and keeps the order out of the ledger; a
   line HubSpot refuses does not. *)
CreateShort(r) ==
    LET o == OrderOf[r] IN
    /\ New(o) /\ Blockers(o) = {}
    /\ Fault
    /\ Lane(r, Processed(r))
    /\ cache' = Reading(Gated(o))
    /\ hs' = [hs EXCEPT ![o] = "partial"] /\ incomplete' = incomplete \cup {o}
    /\ ledger' \in {ledger, ledger \cup {o}}
    /\ UNCHANGED <<zid, spent>>

(* A call of the gate or of the create raises before the item loop, or the
   create meets an order of the same number that it cannot top up: nothing, a
   short order or an unrecorded complete one is left. *)
CreateFails(r) ==
    LET o == OrderOf[r] IN
    /\ New(o)
    /\ Fault
    /\ Lane(r, Failed(r))
    /\ \E left \in {"none", "partial", "full"} :
         /\ left # "none" => Blockers(o) = {}
         /\ hs' = [hs EXCEPT ![o] = left]
    /\ spent' = Spend({r})
    /\ UNCHANGED <<zid, ledger, cache, incomplete>>

(* The wave is over: its outcomes are written in one batch, or lost. *)
MarkWave ==
    /\ pc = "lanes" /\ wave = {}
    /\ pc' = "wave"
    /\ WriteOrLose(marks)
    /\ marks' = {}
    /\ UNCHANGED <<catalog, hs, ledger, base, todo, twins, wave, cache, done, changes, spent, incomplete>>

WavesOver ==
    /\ pc = "wave"
    /\ todo = <<>> \/ done >= MaxOrders
    /\ pc' = "twins"
    /\ UNCHANGED <<sheet, catalog, hs, ledger, base, todo, twins, wave, cache, marks, done,
                   changes, faults, spent, incomplete>>

(* mutant: the row before is closed as well *)
TwinMarksBoth == {Mark(r, "duplicate", log[r].att, log[r].note, log[r].keys) :
                    r \in {q \in Rows : \E t \in twins : OrderOf[t] = OrderOf[q]}}

(* Twins are closed, whatever became of the row before them. *)
TwinMarks == {Mark(r, "duplicate", log[r].att, log[r].note, log[r].keys) : r \in twins}

MarkTwins ==
    /\ pc = "twins"
    /\ pc' = "idle"
    /\ WriteOrLose(TwinMarks)
    /\ todo' = <<>> /\ twins' = {} /\ cache' = Unread /\ done' = 0
    /\ base' = [r \in Rows |-> 0]
    /\ UNCHANGED <<catalog, hs, ledger, wave, marks, changes, spent, incomplete>>

(* Killed: what the pass held in memory is gone. *)
Kill ==
    /\ pc # "idle"
    /\ Fault
    /\ pc' = "idle"
    /\ todo' = <<>> /\ twins' = {} /\ wave' = {} /\ marks' = {}
    /\ cache' = Unread /\ done' = 0
    /\ base' = [r \in Rows |-> 0]
    /\ UNCHANGED <<sheet, catalog, hs, ledger, changes, spent, incomplete>>

LaneStep(r) ==
    \/ Existing(r) \/ Partial(r) \/ Parked(r) \/ Rekeyed(r)
    \/ Blocked(r) \/ Create(r) \/ CreateShort(r) \/ CreateFails(r)

Pass == \/ Start \/ ShortCircuit \/ Filter \/ Fetch \/ MarkWave \/ WavesOver \/ MarkTwins
        \/ \E r \in Rows : LaneStep(r)

Next ==
    \/ \E r \in Rows : Arrive(r)
    \/ Catalog \/ SkipAge
    \/ Pass
    \/ RelayDown \/ StopFile \/ Kill

(* Passes run every hour and end, and between passes time goes by. *)
Spec == Init /\ [][Next]_vars /\ WF_vars(Pass) /\ SF_vars(SkipAge)

-----------------------------------------------------------------------------
GivenUp(r) == log[r].st = "gone" \/ (log[r].st = "error" /\ log[r].att >= Cap)
Closed(r) == log[r].st \in {"processed", "duplicate"}

TypeOK ==
    /\ log \in [Rows -> [st : {"none", "queued", "processing", "error", "processed",
                               "duplicate", "gone"},
                         att : 0..Cap,
                         note : {"none", "blocked", "processing", "failed"},
                         keys : SUBSET (GateForms \X Products)]]
    /\ Range(tried) \subseteq Rows /\ old \subseteq Range(tried)
    /\ passing \subseteq Checks /\ listed \subseteq Products /\ zid \subseteq Orders
    /\ hs \in [Orders -> {"none", "partial", "full"}] /\ ledger \subseteq Orders
    /\ pc \in {"idle", "short", "filter", "wave", "lanes", "twins"}
    /\ base \in [Rows -> 0..Cap]
    /\ Range(todo) \subseteq Rows /\ twins \subseteq Rows /\ wave \subseteq Rows
    /\ cache \in [Checks -> {"?", "pass", "fail"}]
    /\ RowsIn(marks) \subseteq Rows
    /\ done \in 0..MaxOrders /\ changes \in 0..Changes /\ faults \in 0..Faults
    /\ spent \in [Orders -> 0..Cap] /\ incomplete \subseteq Orders

(* HubSpot has the order: whole, or without an item that failed in the create. *)
Had(o) == hs[o] = "full" \/ (hs[o] = "partial" /\ o \in incomplete)

(* No order is dropped: when a row of an order is closed as processed or as a
   duplicate, HubSpot has the order, which lacks at most what failed in its own
   item loop, or another row of it still stands, open or given up in the open
   (resolve_preexisting, the twins).  An order whose create was cut off or never
   began is closed by no row. *)
NoneDropped ==
    \A r \in Rows :
      Closed(r) => \/ Had(OrderOf[r])
                   \/ \E q \in Rows : OrderOf[q] = OrderOf[r] /\ ~Closed(q) /\ log[q].st # "none"

(* A held order that has become ready is created, or given up after failures,
   however many blocked rows stand before its row, whatever was recorded of
   it, and however its listing changed (_skip_known_blocked, the 72 h
   re-check, the sort by last try). *)
ReadyDrains ==
    \A o \in Orders :
      (Ready(o) /\ \E r \in Rows : OrderOf[r] = o /\ log[r].st # "none")
        ~> \/ ~Ready(o) \/ hs[o] # "none"
           \/ \E r \in Rows : OrderOf[r] = o /\ GivenUp(r)

(* What _fail_base says: a row is given up for Cap failures since its last
   gate hold; blocked passes do not use up its attempts. *)
GivenUpFairly ==
    \A r \in Rows :
      log[r].st = "gone" => spent[OrderOf[r]] >= Cap
=============================================================================

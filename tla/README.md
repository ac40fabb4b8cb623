# Salla → HubSpot mirror: a TLA+ model of the engines

The repository mirrors the orders, customers and delivery statuses of a Salla
store into HubSpot. Orders come in twice: historically, page by page
(`backfill.py`, `queue_drain.py`), and in real time through sheets that a Make
scenario fills (`live.py`, `status_relay.py`, `customer_sync.py`). Everything is
plain Python processes on one or more machines that share HubSpot, a few Google
Sheets and the files under `mirror/`. Nothing is transactional: an order is a
dozen HTTP calls, any of which may fail, be retried or be cut off by a kill. What
keeps the result right is a handful of protocols (unique keys, a ledger, queue row
states, locks, heartbeats, cursors), and those are what the modules here model.

## 1. Inventory

| Component | State it keeps | Operations | Hard behaviour | What makes it correct |
|---|---|---|---|---|
| Order lanes: `Engine.process_order … _finish_create`, `top_up_items`, `process_item` (`backfill.py`), `LiveEngine._resolve_preexisting`, `_process_batch` (`live.py`) | the order, its line items and associations in HubSpot; the row's outcome | claim, verify, fetch, gate, contact, create, adopt, top up, item loop, ledger, mark | crash between any two calls, lost responses, a search index that lags, two engines on one order, a Zid order on the number, items that fail one by one | a ledgered order lacks only what HubSpot refused, and shows it; nothing is written on a Zid order; every row ends; crashes heal |
| Contact of an order: `route_create`, growth flags (`backfill.py`) | contacts, a cache and a lock per customer and process | search, create, read the refusal, cache, stamp flags | lanes of several engines, lagging search, buyers without phone or id | no order under another buyer's contact; one contact per buyer |
| Catalog gate: `gate_unverified_items`, `_stray_cached`, `_line_ta` (`backfill.py`), `gate_cached` (`queue_drain.py`) | cached counts and stray verdicts, the gate's book | gate, exempt, build the line | verdicts that age while people edit the catalog, failed reads | the line is the one the gate decided on; holds rest on counts of the pass |
| Created ledger: `CreatedLedger` | `mirror/created.csv`, one map per process and the (mtime, size) it stands for | load, refresh, get, add, revoke | several processes append; the map is a cache; stat, read and append are separate | a process never forgets its own writes, never believes what nobody wrote, sees a revoke |
| Trim lock: `trim_lock`, `trim_lock_active` (`realtime_base.py`) | `mirror/trim.lock`, the flock of its guard | enter, take over, exit, test | half-written lock, dead holder, pid reuse, two takers of one stale lock | one trimmer at a time, visible to the tools; a dead one's lock is released |
| Adaptive limiter and yield: `AdaptiveLimiter`, `Engine._yield_to_live` | rate, floor, ceiling, cooldown, next slot | wait, on_throttle, on_result, on_success, set_ceiling | lanes share it, the ceiling moves under it | rate in band, slots apart, no growth in a cooldown, yields |
| Live queue: `LiveEngine.run_live`, `_claimable`, `_sweep`, `_maybe_trim`, `_maybe_settle_held` (`live.py`), `queue_read/mark/trim` (`backfill.py`) | the sheet's rows, the read pointer, `live_state.json` | poll, claim, collapse twins, mark, sweep, trim, settle | rows move under their numbers when trimmed, webhook rows are appended meanwhile, duplicate deliveries, restarts | no row is lost, marks land on the row they are about, settled rows stay settled |
| Heartbeats: `_heartbeat_ok` of `LiveEngine` and `RealtimeConsumer` | cell J1 of a tab, the time of the last look | look, refuse, stamp, look again | two machines, simultaneous start, stamps that age in a long batch | one consumer per tab |
| Backfill cursor and page loop: `Cursor`, `Engine.run` | `cursor.json`: slot, page, status; the Queue Log; the error log | list, fetch, fan out, advance, stop | overflowing pages, STOP, halts and kills between scan and advance | no order passed over without a trace |
| Audit log: `audit_append`, `_audit_fallback`, `audit_update`, the drain's buffer, `tools/audit_replay.py` | rows of the Order Audit Log, the local mirror | append, look after a failure, update, replay | an append that failed may have arrived; other writers append | one row per call, lost rows replayable |
| Queue drain: `queue_drain.py` | Queue Log rows, attempts and notes, `drain.lock` | claim, filter, fetch waves, create, mark, close twins | rows of one order, known-blocked rows skipped, gate results cached, writes that fail | nothing dropped; a ready order is drained |
| Held threads: `held_issue`, `_maybe_settle_held`, `_answer_held_threads` | a Slack thread per blocking product and the orders in it | join, judge, answer | judged from five sources read one after the other | an order that waits is listed in an open thread |
| Realtime consumers: `RealtimeConsumer`, `TabLock` | rows of a tab, read cursor, signal file | poll, claim, mark, re-walk, trim | ordering of events of one order, retries, give-up | events applied in order, every row settles |
| Status relay: `StatusRelay`, `StatusLedger` | `mirror/status_applied.csv`, per order the newest event applied | handle_row | late, duplicated and unclassified events | an older event never overwrites a newer one |
| Escalation and digest: `_escalate_held`, `_flush_digest` (`status_relay.py`) | the day's thread, its meta, the pending list | count, open, mail, settle, flush | a cached count, two services on one record, refused posts | one email a day; told when promised |
| Customer sync and sweep: `customer_sync.py`, `customer_sweep.py`, `tools/drain_held_customers.py` | `mirror/customers.csv`, Customer Queue, contacts | handle_row, merge, sweep, drain | lost captures, duplicates, shared phones, order lanes that create the contact too | every registered customer ends with a contact or an open row |
| Notification registry: `notify.py` | open issues in a JSON file, claims, replies set aside | issue_open, issue_update, issue_resolve, retry_failed | several processes, refused posts, lost answers, kills | one headline per issue, promised replies kept |
| Relay health: `relay_health.py` | failure window, published state | record_failure, record_success, triage | flapping, restarts, engines that halt | outages seen and told, no false all-clear |
| Credit watch: `credit_watch.py` | `credit_state.json`, threads | tick, cross, drain, switch | a kill before the save at the end of a tick | the threads tell the state |
| Gift refresh: `gift_refresh.py` | `gift_refreshed.csv`, counters, times of the last checks | search, batch, stamp, park, chase | search limit, misses, kills before the save | each gift has its turn and is chased once |
| Zid re-key and un-merge: `zid_rekey.py`, `tools/zid_unmerge.py` | HubSpot ids, journals | plan, apply, resume | a crash between the moved keys, two at once | the move is whole when it says so |
| Reconcile: `reconcile.py`, `tools/stage_resweep.py` | `reconcile_run.json`, the certificate | phases, resume, repair stages, backfill | a run cut short and resumed days later | drift found is repaired or reported |
| Zed import: `zed_emit.py` (and `zed_normalize/plan/review/snapshot.py`) | a month's emission file, HubSpot | create chunks, lines, associations, repair | lost responses, half-done orders | what is marked done is complete |
| Relay client and HTTP retries: `RelayClient`, `http_request` | – | proxied reads with retries | answer, nothing, failure, lost response | its outcomes are those of the callers' models |
| Digests and metrics, warranty audit, supervisor, dashboards, most tools, Make scenarios | process handles, reports | start, show, export | – | – |

The parts meet in shared state only: an order in HubSpot, a row of a sheet, a
file under `mirror/`. The live engine, the backfill and the drain all run the
order lanes of `Engine`; each asks the created ledger first, then HubSpot's
search; the realtime engines publish `mirror/live_active*.json`, which makes the
backfill lower its ceilings; tools take or test the trim lock before they use row
numbers; every service opens, joins, retries and answers threads in one registry.

## 2. Plan

The order of the work follows what costs most when it goes wrong: an order lost or
created short, then a queue row lost, then two consumers at once, then the streams
beside the orders, then what people are told.

| Step | Module | State |
|---|---|---|
| 1 | `TrimLock`, `AdaptiveLimiter`, `StatusRelay` with their `_proof` modules | done, proved |
| 1 | `CreatedLedger`, `OrderSync`, `LiveQueue` with the abstract `RowLife` | done |
| 2 | `QueueDrain`, `BackfillRun`, `CatalogGate`, `ContactOf`, `AuditLog` | done |
| 2 | `HeartbeatGuard`, `CustomerSync`, `ZidMove`, `ZedEmit`, `Reconcile`, `GiftRefresh` | done |
| 2 | `IssueRegistry`, `HeldThreads`, `Escalation`, `RelayHealth`, `CreditWatch` | done |
| 3 | `OrderSync_proof`, `LiveQueue_proof` with the step simulation of `RowLife`, `NoEarlyGrowth` of the limiter | done, proved |
| 3 | `Engine_proof`: `BackfillRun`, `CreatedLedger`, `AuditLog`, `CatalogGate`, `ContactOf` | done, proved |
| 3 | `Notices_proof`: `Escalation`, `RelayHealth`, `IssueRegistry`, `HeldThreads`, `CreditWatch`, `HeartbeatGuard`, `GiftRefresh` | done, proved |
| 4 | `Upkeep_proof`: `QueueDrain`, `CustomerSync`, `ZidMove`, `ZedEmit`, `Reconcile` | done, proved |

Modules that interact are kept apart where one needs only the other's outcome:
`OrderSync` uses the ledger as an atomic set (what a stale cache can do to it is
`CreatedLedger`'s); `LiveQueue`, `BackfillRun` and `QueueDrain` use a lane as "any
of its outcomes" (which outcome is right is `OrderSync`'s); `HeldThreads` and
`CreditWatch` post in one step (what a refused or half-taken post does is
`IssueRegistry`'s). The abstract specification is `RowLife`, the life of a queue
row, which `LiveQueue` is shown to implement (`RowsLive`).

No module declares a recursive operator; constants carry named assumptions
(`LimiterAssumption`, `DrainAssumption`, ...), which TLC evaluates in the runs of
the same module.

## 3. Modules and the code

`MC*` modules extend the specification with what a `.cfg` cannot say (tables,
symmetry sets). Operators introduced by a comment "A defect" are not part of any
specification: each is a plausible bug of the definition below it, and replacing
that definition by it makes a property fail. They show what the properties notice.

**`TrimLock`** (`realtime_base.py` 43-242). One step per system call of
`trim_lock.__enter__`/`__exit__`: `open(O_EXCL)`, `stat`, `read`, `flock` of the
guard, the second `stat` and `read`, `unlink`, the write of the line. Processes are
pids, so `Restart` is another process with a recycled pid; `HolderLive` is
`_holder_live` with its three answers (pid gone, pid reused, no pid: two-hour rule).
Time is a counter that moves when a lock is created or written; `TwoHours` makes
everything written so far old.

**`CreatedLedger`** (`backfill.py` 991-1055). The file is a sequence of rows; a
process has the map and the marker. `get`, `add` and `revoke` are split into the
stat of `_refresh`, the read and stat of `_load`, the map update, the append and
the last stat, so that the other process can come between any two. The marker
`(mtime, size)` is the number of rows: every append makes the file longer.

**`OrderSync`** (`backfill.py` 562-584, 1142-1166, 1428-1634, 2478-2527,
2954-3097, 3359-3930; `live.py` 255-442, 547-640, 985-1064). Per lane a program
counter and the locals of the functions it is in (`todo` is the item loop, `comps`
the component loop of a bundle, `err` is `item_error`, `rekeyed` is
`zid_rekeyed_from`). HubSpot is `holder` (who has the number), `index` (what the
search returns, later), `made` and `keys` (line items, and those associated), and
`partial`, the sync status `flag_partial` writes when a line is refused (`FlagPartial`)
and a create or a completed adoption resets (`SetSynced`): the answer to neither write
is looked at, so either may fail unseen. `flagged` are the rows of errors.csv and of the
Queue Log; `refused` and `unflagged` are history for `Accounted`. What may go wrong is a
set of fault kinds; a configuration chooses the kinds and how many.

**`AdaptiveLimiter`** (`backfill.py` 296-436 and 2538-2577). Rates are 1..Top, and
what the code computes from a rate is given by tables, so that nothing depends on
floating point. `Wait` reads the clock, `Reserve` takes the slot under the lock,
`Send` comes after the sleep; the answers are `OnThrottle`, `OnLowBucket`,
`OnSuccess`. `YieldToLive` acts on a change of the published signal only.

**`LiveQueue`** (`live.py` 105-188, 255-270, 361-702, 922-1078; `backfill.py`
2112-2350). The sheet is a sequence of rows, each with a number of its own that the
code does not have and the properties need. One step is one call to the sheet or the
relay together with the local work around it; the read pointer is stored with each poll. The
verify-then-write of `queue_mark` is one step because the engine is the only
writer of E:H and the only deleter. `closed` stands for a `gone` row with the
drain's note. Attempts of settled rows, which nothing reads, are dropped.
`RowLife` is the promise to each row (absent, open, parked, closed, removed).

**`StatusRelay`** (`realtime_base.py` 265-588; `status_relay.py` 72-101, 133-175,
574-668). The poll loop and `handle_row` together: the branches of `handle_row` up to
its outcome are the actions `Unmapped`, `Older`, `Absent`, `BakedIn` and `Patch`; the
ledger row after a PATCH (`Record`) and the mark of the row (`Mark`) are steps of
their own, since a kill may come between. An order's k-th status in Salla is event
k, and `hs` holds the event the stage was set from where HubSpot has the stage only;
the relay compares `Stage[...]`. The order is created by an engine from a payload
it fetched a while ago; the search finds it later (`Reindex`), and if `StaleStage`,
sees changes of its stage later too. Exceptions rows and threads are left out.
A Zid order on the number is the set `zid`.

**`QueueDrain`** (`queue_drain.py` 93-156, 277-1042).
A pass is `Start` (claim, twins set aside), `ShortCircuit` (known-blocked rows, which
asks the catalog only for the blockers on record), `Filter`, then per wave `Fetch`,
one lane step per row and `MarkWave`, and at the end `MarkTwins`. A row carries its
status, attempts, the kind of its note and the blocker keys recorded in it; `tried`
is the order in which rows were last tried and `old` those due for the 72-hour
re-check. The catalog is a set of checks by product id or SKU that pass. A create ends
with every line (`Create`), without an item that raised or was refused (`CreateShort`,
"created" all the same, so the row is closed as processed), or before the item loop
(`CreateFails`, an error).

**`BackfillRun`** (`backfill.py` 821-924, 2374-2389, 2599-2608, 2899-2950,
3792-4001). The page of `cursor` is listed, its new orders become lanes, and `Advance`
saves the next page or slot when every lane has ended. A stop, a halt by
`relay_health` and a kill leave the page where it is. `OverflowPages` is the page
limit of a slot beyond which the slot is split.

**`ContactOf`** (`backfill.py` 1184-1255, 1381-1426, 2523-2536, 2961-3068,
3352-3471). One lane
per order in work: lock, cache, search, create, the refusal that names the existing
contact, the flags after a clean item loop.

**`CatalogGate`** (`backfill.py` 1257-1377, 2619-2849, 3472-3590;
`queue_drain.py` 386-490). Two lanes gate one product, whose
records people edit at any time; an order that is topped up is gated again, and the
line builder, unlike the gate, also takes a product that is not approved. A verdict and the drain's counts have an age.

**`AuditLog`** (`backfill.py` 1716-2087, 2396-2448, 3806-3839; `queue_drain.py`
214-257; `tools/audit_replay.py`). The
append, the wait and look after a failure, the second append, the mirror entry, the
update by row number, the drain's buffer and the replay.

**`CustomerSync`** (`customer_sync.py`, `customer_sweep.py`,
`tools/drain_held_customers.py`, `route_create`). **`ZidMove`** (`zid_rekey.py`,
`zid_auto_rekey`, `tools/zid_unmerge.py`): each write is a step, the plan is what was
read before. **`ZedEmit`** (`zed_emit.py`): `chunk`, the search for what a lost answer
created, lines, associations, and `RepairOne`. **`Reconcile`** (`reconcile.py`): the
phases with the manifest they are saved in, the certificate, stage repair in batches
and the backfill of the missing; the sweep takes only orders under its cutoff (`aged`,
which grows as days go by) and passes over payloads it cannot use without a word
(`unread`, history). **`GiftRefresh`** (`gift_refresh.py`): one cycle.

**`HeartbeatGuard`** (`live.py` 85-103, 196-251, 922-1010; `realtime_base.py`
245-361, 512-588; the cell, `backfill.py` 2278-2295). One consumer per
machine; `beat` is the cell with its owner and age, `guard` which of the two codes
runs (the live engine reads the cell once more after its write, the tab consumers do
not). `outlasted` says that a batch ran longer than the heartbeat is good for.

**`IssueRegistry`** (`notify.py`). One key, several services. A record goes through
opening, open, resolving, failed, closed; a claim has a holder, every post to a
channel is a step between two locked changes of the record, a reply for a record that
is reopened meanwhile is set aside. **`HeldThreads`**: the settle of `live.py` reads
rows, ledger, Queue Log and gate one after the other and then answers thread by
thread. **`Escalation`**: the relay's `_escalate_held` against the settle, with the
mail kept in the record's meta; and the digest, a part of its own. **`RelayHealth`**:
a window of failures per engine and the published state. **`CreditWatch`**: one tick
as a sequence of reads and posts, saved at its end.

**`MCComponents`** puts the modules that share no state into one specification for
TLC: the variable `part` is chosen initially and never changes, the steps are those of
that part, and the variables of every other part stay at one initial state. It is a
disjoint union of state spaces, not a product; a property of one part is checked over
all behaviours of that part. `map` in PROJECT.json gives the lines of every
definition.

What the models of these modules leave out, each because no property would tell the
difference, or with the reason:

* `AuditLog`: an append that failed has landed or never does; one that lands after the
  look is left out. `blind` are the calls that sent again without a look, since the look
  failed, or whose row had left the window; the code takes both risks knowingly.
* `BackfillRun`: one order is one step with its outcome; the lag of the search is in
  `OrderSync`.
* `CatalogGate`: the gate of one order takes less than a tick, that is, than the life of
  a verdict; tools that build lines with no gate (`tools/zed_create_missing.py`) and
  items without a product id are left out.
* `CustomerSync`: somebody else's contact with the same phone is one value, `"other"`;
  his phone is found and so he counts as having a contact: of him `SweptAccounted` says
  nothing.
* `ZidMove`: the re-key and the un-merge work on different orders.
* `IssueRegistry`: a claim is taken over only from a dead holder (a service frozen for
  the whole expiry time is outside); the first look of the worklist at `zid_collision`
  is left out.
* `HeldThreads`: lanes and settle alternate, since one loop runs them; posts succeed.
* `HeartbeatGuard`: a poll is shorter than a tick, a batch lasts `BatchTicks` at most
  unless it is marked `outlasted`; the age of a race is counted
  up to `LongAgo`, past every bound a property compares it with.
* `CreditWatch`: Slack accepts every post; who used the credits and how long they
  last is left out; a tick whose first read fails does nothing, as in the code.
* `GiftRefresh`: the two searches are one step; an address once confirmed stays so;
  the orders of a batch are handled in any order, since none depends on another.
* `RelayHealth`: problems of the local configuration and the pacing of the probes in an
  outage are left out; one call fails per tick.
* `ZedEmit`: contacts, which are created before the orders, and the waits for the live
  engine are left out; a batch is taken or refused as a whole.
* `Reconcile`: of the phases nothing is repaired from, only whether they could be read;
  the skip during an outage is left out; a batch that fails changes nothing.
* `ContactOf`: an order's items other than devices differ in whether they were added
  late only.
* `Escalation`: the key of one day; rows left over by the settle are counted as many
  or none; the quarters of a day pace the digest.
* `QueueDrain`: `--scan`, `--verify` and the sheet with the blocker matrix only read or
  run by hand.

## 4. Runs

| Run | Instance | Properties | What it shows |
|---|---|---|---|
| `trimlock` | 2 processes, attempts begin while fewer than 2 locks were made, 2 crashes | `MutualExclusion`, `TrimVisible`, `StaleReleased` | no two deleters, always visible to the tools, and a lock left by a crash is released |
| `order_products` | 1 order of 2 products, its number on a Zid order, 1 live and 1 backfill lane, 2 faults | `Accounted`, `OnlyOurOrder`, `CrashesHeal` | a ledgered order lacks only refused lines and then shows as partial, or that write failed too; the Zid order is never written; crashes and lost answers heal |
| `order_bundle` | 1 order with a bundle and a product, 2 faults, relay failures among them | `EveryRowEnds` | the row ends whatever fails |
| `order_partial` | 1 order, refused line items | `LedgerMeansComplete` (fails) | the ledger takes an order that lacks a refused item |
| `order_resume` | 1 order, a backfill crash | `PastAccounted` (fails) | the resumed backfill passes by the partial order |
| `livequeue` | 1 order, 3 rows, 2 attempts, 1 kill or failure, 1 trim age | `NothingBehind`, `NoSecondEnqueue`, `RowsLive`, `EveryRowEnds`, `HeldSettles` | no open row behind the pointer, only closed rows deleted, none reopened, every row ends, a lost webhook is made good, a held row is settled from outside |
| `status_relay` | 1 order, 3 statuses of which the second is unmapped, 2 rows, ladder of 1, 1 fault, 1 row put back by hand | `NothingBehind`, `StageKept`, `LedgerForward`, `Catches`, `EveryRowEnds` | the stage never falls behind the ledger, waiting updates are applied, every row ends |
| `status_stale` | the same without faults, the search may show an old stage | `StageKept` (fails) | an older update stays although the ledger has the newer one |
| `drain` | 2 orders that share a blocker, 3 rows, wave and pass of 1, cap 2, 2 catalog changes, 1 fault | `NoneDropped`, `ReadyDrains` | no order drops out of the log: a closed row has its order in HubSpot, short of nothing but what failed in its own create, or another row stands; what becomes ready is drained or given up in the open |
| `components` | nineteen parts, see below | 20 invariants and `Frozen` | the components beside the core, one part per behaviour |
| `issue_answered` | 1 key, 2 channels, 2 episodes, no fault | `ThreadAnswered` (fails) | a thread opened just after the lane looked for it is answered by nobody |
| `heartbeat_live` | 2 machines, no fault | `NeverBothClaim` (fails) | an engine that has refused claims at its next poll |

**The run `components`.** Its parts, what bounds them, and what they show:

| Part | Bounds | Property |
|---|---|---|
| backfill | 3 slots, 4 pages (one empty), an overflowing slot, an order on two pages, 3 faults | `PassedKept`: what the cursor has passed is in HubSpot or in a file of the mirror |
| audit | 2 lanes, a window of 3 rows, 2 rows of others, one oversized row, 2 faults | `OneRowPerCall`, `LostIsReplayable` |
| gate | 2 lanes, verdicts good for 1 tick, edits and failed reads at any time | `LineFollowsGate` |
| customers | 1 customer, 4 days, 2 rows, 2 attempts, 2 faults | `SweptAccounted` |
| rekey, unmerge | 2 movers, every write may fail, 2 faults | `MovedWhole` |
| ledger | 2 processes, 1 order, 1 id, 3 rows | `OwnWritesSeen` |
| limiter | 2 lanes, rates 1..4, calls until tick 3, cooldowns 5 and 1 | `Paced`, `Frozen` |
| issues | 2 channels, 2 episodes, 2 faults | `HeadlineOnce`, `ReplyKept` |
| held | 2 products, 2 orders, one of them held by both, 1 fault | `WaitingListed` |
| heartbeat | 2 machines, both guards, batches of 3 ticks, stale after 3, 2 faults | `TabConsumersApart` |
| credits | 2 thresholds, 2 stuck runs, 3 events, 1 fault | `ThreadsTell` |
| gifts | 2 orders, batch 1, 2 misses, 1 fault | `ChasedOnce`, `TurnComes` |
| health | 1 polling and 1 halting engine, threshold 2 in a window of 3, 2 faults | `OutageSeen` |
| import | 3 orders, chunks of 2, 2 faults | `DoneComplete` |
| reconcile | 2 orders of any age, 2 runs of a week, batch 2, 1 fault | `DriftRepaired` |
| contacts | 2 engines with 2 lanes and 1, 2 buyers (one without phone), 2 orders each, 1 fault | `BuyersApart` |
| escalation, digest | 2 moves of the hold, 2 faults; 3 days, a full list at 2 | `EmailOnce` |

**Why the bounds are enough.** *TrimLock*: a takeover race needs a dead owner, a
taker and a second taker that judged the same file; the second of two processes can
be delayed at any call while the first goes through a whole attempt and dies, so two
processes, two locks and two crashes contain every pair of overlapping attempts; the
theorems remove the bound. *CreatedLedger*: a race is one foreign row inside a call;
with three rows there is one before, one inside and one after, of the order itself or
a revoke. *OrderSync*: lanes meet through one order only; a live and a backfill lane
are the two different paths; two faults give "a crash, and something else during the
repair". *AdaptiveLimiter*: time enough for a throttle, a softer signal after it and
the successes to grow by; the theorems remove the bounds of `Paced`. *LiveQueue*:
three rows have a first to delete, one that moves up and one that arrives meanwhile; a
second order adds rows the code treats one by one (twins are rows of one order): the
instance with two orders was run once (1.7 million states) and holds as well.
*StatusRelay*: orders meet in the cursor only; two rows are any two events in any
order or one event twice, and enough for one to be deleted under the other; four
attempts are more than the ladder and the fault use up, so that a row may only end for
the reasons `handle_row` gives. *QueueDrain*: a pass of one order makes rows wait for
their turn, the third row gives an order a twin, two changes withdraw an approval
after it was given. *Components*: two of whatever competes (lanes, machines,
services, orders for one slot of a batch), one step beyond each limit (a page more
than a slot may have, a row more than fits, a day more than the sweep looks back),
and one or two faults, so that a repair can itself be cut short.

**Why the deadlock check is off.** Every bounded model stops when its bound is used
up, and the system itself may stop: an empty queue, no trim due, no call to make.

**Fairness.** `trimlock`: a running process takes its next system call, the trim is
due daily, the service manager restarts, time passes; `flock` wakes waiters in turn
(strong fairness of `TakeGuard`). `order_*`: a lane's thread goes on, the live loop
polls every 5 s and settles hourly, the search index catches up; nothing is assumed
of approvals or of faults ending other than by their bound. `livequeue`: the
loop goes on and is restarted by its service; the polls that retry errors (every
36th), the sweep and the settle (hourly) come round again and again although the
loop could each time do without, hence strong fairness. Bounded faults stand for
"outages end". `status_relay`: the same for its loop; not-before times and days pass;
an engine need not ever create the order. `drain`: the timer starts a pass every hour
and a pass goes on (`WF` of `Pass`); 72 hours pass between tries of a row that is not
tried, again and again (`SF` of `SkipAge`). `issue_answered` assumes as much as can be
assumed of the services, which makes its counterexample stronger: each goes on, the
two that retry do so again and again, and the index shows the order in the end.
`components` has safety only.

**What the failing runs and the experiments say.** Five runs are made to fail; each
is a finding of PROJECT.json: (a) `order_partial`, a line item HubSpot refuses flags the
order but leaves `item_error` unset, so the ledger holds orders that are short, against
`live.py:277-278`; (b) `order_resume`, the backfill's page scan believes the search
alone; (c) `status_stale`, the relay takes an update for baked in by the stage the
*search* shows; (d) `issue_answered`, the thread of a given-up status is opened after
the lane that creates the order has looked for threads to answer; (e)
`heartbeat_live`, an engine that has refused to claim stores the time of its look and
claims at the next poll without looking.

Finding (c) takes three ordinary steps: updates 1 and 3 wait for an order that is
then created with status 3; both come up in one poll; update 1 is PATCHed over status 3,
since the ledger knows nothing of the order yet and only an equal stage counts as
baked in; update 3 finds status 3 in a search that has not seen the PATCH, is recorded
as applied and closed. HubSpot stays at status 1. Even with a search that is up to
date the order is at status 1 until the row of update 3 comes up, which the ladder may
put hours later.

The other findings come from definitions that stand beside the run ones, each stating
what a comment or a document promises; checked in the same instances they fail,
and the finding tells the scenario: `RevokeSeen` (`CreatedLedger`), `GivenUpFairly`
(`QueueDrain`), `HeldLogged` (`BackfillRun`), `DoneLinked` (`ZedEmit`),
`NextRunContinues`, `NeverBack` (`Reconcile`), `OwnContact`, `OneContact`,
`FlagsStamped` (`ContactOf`), `EmailRetried`, `NotReopened`, `DigestTold`
(`Escalation`), `CrossingsTold` (`CreditWatch`), `EveryGiftSettled` (`GiftRefresh`,
under `GtSpec`), `HaltTold`, `NoFalseClear` (`RelayHealth`). They are no runs because a
list of runs that fail tells less than one that holds. Definitions that hold and are
not run, since a stronger or a deeper one is: `InBand` and `Yields` (proved),
`MapFromFile`, `DoneAccounted` and `BuildingHolds` (proved too), `HeldOnFreshCounts`, and the `TypeOK` of
each module.

More observations came out of instances that are no runs either. `Accounted` fails
when the relay returns nothing for an order found in HubSpot (`live.py:316-324` then
wants one line item only), when a crash cuts a bundle after its parent line
(`top_up_items` takes any line of a bundle for the bundle, `backfill.py:3364`), and when
an association write fails (`associate` logs only, `backfill.py:1632`); for this reason
`order_products` has neither bundles nor the fault kinds "relay" and "link".
`DoneMeansLedgered` fails when an item raises: the outcome is set to "created" before
the item loop (`backfill.py:3433`), the row reads done, the ledger has nothing, against
`docs/ARCHITECTURE.md:225`.

A line that is refused and whose partial flag is refused too (two faults, `unflagged`)
leaves a short order in the ledger with no trace but log lines, although "nothing is
dropped silently" (`docs/ARCHITECTURE.md:119`); `Accounted` allows for this case by
name, and TLC finds it as soon as the allowance is dropped. The drain closes the row
of a short order as processed, its outcome being "created" since before the item loop
(`queue_drain.py:784-785`, `backfill.py:3433`); an item that raised is in errors.csv and keeps the order out of the ledger, a refused one is
ledgered (`CreateShort`). The weekly sweep of `Reconcile` passes over an order the
relay does not return (`reconcile.py:374-376`), while the tool it takes its sweep from
says that such orders are reported (`tools/stage_resweep.py:34`).

`Pinned` fails with `Adaptive = FALSE`, since `set_ceiling` moves a pinned rate down
and never up again. `HoldKept` fails because `on_throttle` moves only the slots nobody
has yet. In `LiveQueue` a row that a person moves above the pointer stays unread
across a restart (`_load_state` reads the pointer back, while `live.py:178` says
"restart rescans") until the next trim resets it; moving rows by hand is not part of
the module. In `StatusRelay`, `Catches` fails if it also starts between decision and
mark: an engine has fetched an order whose number a Zid order holds, the next status
arrives, its row is closed as a collision (`status_relay.py:601-622`), and the create
writes the earlier status, which nothing corrects. A row put back by hand keeps its
attempts, so one failure may end it again at once (`realtime_base.py:423`).

## 5. Proofs

`TrimLock_proof` proves, for any set of pids, any `Rounding` and any bounds, and
assuming only that `Nobody` is no pid and that the bounds are naturals:
`TypeCorrect`, `Invariance` (`IInv`), `Exclusion` (`MutualExclusion`) and
`Visibility` (`TrimVisible`). Mutual exclusion is not inductive: nothing in it says
why a process at `unlink` may unlink. `IInv` adds what the code relies on. Stamps
never run ahead of the clock (`StampsInv`); a process between its create and its
release owns the very file in place and was born before it (`OwnerInv`); what
somebody read of an owned lock makes it look live (`JudgeInv`: the pid, or no pid
and a fresh mtime); so a lock judged stale has no owner, and stays in place from
the second look to the unlink, because only a holder of the guard unlinks a lock
that is not its own and nobody creates over a file that exists (`TakeoverInv`). There is one lemma per
action group, and the theorems close with PTL.

`AdaptiveLimiter_proof` proves, for any lanes, any rate range and any tables that
satisfy `LimiterAssumption`: `TypeCorrect`, `Band` (`InBand`), `Yielding`
(`Yields`) and `Pacing` (`Paced`). `Paced` needs that every slot given is an interval
below `next` (`SlotsBeforeNext`), `Yields` needs that the ceiling is the one the
engine set last (`CeilingSet`). The tables are arbitrary: the decrease of a
throttle may give any integer, `Clamped` puts it back into the band.

`StatusRelay_proof` proves, for any orders, any life of an order (`Stage`), any
ladder, attempts and bounds: `TypeCorrect` (which includes that the row in hand is
still where the poll saw it), `CursorBehindOpenRows` (`NothingBehind`),
`LedgerOnward` (`LedgerForward`) and, under `~StaleStage`, `StageIsKept`
(`StageKept`). `StaleStage` is the assumption the run `status_stale` shows to be
needed. `NothingBehind` is not inductive: a mark would break it if a claimed row lay
behind the cursor, a delete if the cursor were not at row 1 by then, a restart if the
saved cursor were another. `ClaimInv` and `CursorInv` say these cannot be, and
`TypeOK` that the claim still points at the right rows. `LedgerForward` needs
`DecisionInv`: between the PATCH and the ledger entry the event to be recorded is the
one HubSpot has, and not older than the last one. `StageKept` needs that, `WorldInv`
(no entry for an order HubSpot does not have, and none is created twice) and
`SearchInv` (what the search shows is true), which holds only without the lag. The
proof has a lemma for each of the three groups of actions, in it a step per action,
and under that one per conjunct the action can disturb.

`OrderSync_proof` proves, for any lanes, orders, bundles, fault kinds and bounds:
`TypeCorrect`, `OnlyOurOrderHolds` (`OnlyOurOrder`) and `DoneAccountedHolds`
(`DoneAccounted`). `OnlyOurOrder` says nothing of a lane that is about to write; `Ours`
does: past the verification of a found order, or past the create, the number is the
Salla order's, and the index never shows a Salla order that is not there. `InHand` says
what a lane has in hand (its order, a line of its items, no failure of the last order),
`Recorded` that an item that raised is in the error file. `AccountedHolds` (`Accounted`)
is proved under two hypotheses, and TLC finds a violation without either: `Plain`, items
are no bundles, and `Counted`, neither an association write nor the relay's answer is
among the faults. It needs `Looped`: a fresh create has linked each item it is through
with, unless its line was refused and the order is shown as partial or that write
failed; and that a count of line items equal to the number of items means all of them
(`CountTells`, by cardinality). Since "synced" takes the flag off again, it also needs
that whoever writes it has a complete order or has just created it, and that no other
lane is in the middle of a create of that order (`Alone`: the number is taken by then).

`LiveQueue_proof` proves, for any orders, attempts and bounds: `TypeCorrect`,
`NothingBehindHolds` (`NothingBehind`), `NoSecondEnqueueHolds` (`NoSecondEnqueue`) and
`RowsLiveHolds` (`RowsLive`, the refinement of `RowLife`). The engine works by row
number while webhooks append and the trim deletes, so the invariant is mostly about
numbers: what a cycle has in hand are open rows at or after the pointer, still those of
their orders, and no two of its sets share a row (`Hands`); it has them only in the
phases that work on them, and deletes with the pointer at row 1 (`Phases`); what the
trim is to delete is closed (`Doomed`); when the sweep appends it knows every order with
a settled row (`Known`). For the refinement each row has an id (`Numbered`): its life is
read off the row with that id, or is "removed" when there is none, so a deletion that
moves all later rows up changes the lives of the deleted ones only. The lemmas
about the sheet (rewriting, appending, cutting out, `FrontierHolds`) serve all of these.

`Engine_proof` has five sections, one per module, for any plan of pages, engines, lanes,
products and bounds. `PassedKeptHolds` needs that the page a run works on is the
cursor's (`AtCursor`). `OwnWritesSeenHolds` and `MapFromFileHolds` need their own
statements in the middle of a call, between the change of the map and the append
(`OwnWritesKept`, `MapBehindFile`), and that what is being appended is what the map
has (`AppendsWhatItKeeps`). `OneRowPerCallHolds` and `LostIsReplayableHolds` need that a call
that could look has sent at most once (`SentOnceUnlessBlind`), that the row it knows is
its order's (`KnownRow`), and that the mirror says what the tab lacks
(`MirroredOrInTab`). `LineFollowsGateHolds` and `BuildingHoldsAlways` need that counts
with no edit since are those a search would find now (`CountsCurrent`), and that a stray
verdict is no older than the bundle somebody has begun (`StrayBefore`).
`BuyersApartHolds` needs that one lane of an engine at a time looks for a customer's
contact, and only while the run has none (`OneLookup`, the lock), and that orders are
placed under the contact the run resolved (`PlacedAsResolved`).

`Notices_proof` has a section and an inductive invariant for each of seven modules.
* `EmailOnceHolds` (`EsSafe`): an email that is sent and not noted belongs to a relay
  that is about to note it, or was killed (`NotedUnlessSending`), and of relay and
  settle only one posts (`OnePoster`). The proof sharpened the property, which was
  "once, if no relay was killed": it is once, and once more for each kill between
  email and note, and the model counts those kills.
* `OutageSeenHolds` (`RhSafe`): ageing by a tick leaves no more failures in the window.
* `HeadlineOnceHolds`, `ReplyKeptHolds` (`IrSafe`): the service that posts is the holder
  of the opening record (`HolderPosts`), and no channel has a headline of an episode to
  come, of one refused everywhere, or where the post was not taken yet (`NoneYet`); a
  reply that some channel took is an answer (`TakenAnswers`).
* `WaitingListedHolds` (`HtSafe`): a lane joins a thread before it holds the order
  (`JoinedFirst`); the settle, which read rows, gates and threads one after another, has
  seen every order that waits and only acts on a thread that is as it read it or whose
  orders it leaves alone (`SeesHeld`, `AsRead`, `HeldStay`).
* `ThreadsTellHolds` (`CwSafe`): readings are ordered by new cycle, refill and use, and
  account, tick and file are in that order (`Later`, `Passage`); a thread nobody has
  posted to since the save is as the file says (`FileTells`), and one that the running
  tick has posted to as the tick says (`TickTells`). Threads a killed tick may have
  posted to are in neither, and the next tick corrects some of them.
* `TabConsumersApartHolds` (`TabSafe`): who works, or may go to work without a look,
  has a claim in the cell that is fresh, unless a batch outlasted it or somebody raced
  and wrote over it no longer ago than the claim (`ClaimStands`).
* `ChasedOnceHolds` (`GtSafe`) and `TurnComesHolds` (`TurnSafe`): an order chased has its
  ledger row. The rotation is fair by counting: each cycle that leaves an order puts the
  `GiftBatch` orders it takes up behind that order, where they stay until its turn, and
  there are no more than all the others to put there (`Turn`).

For these proofs two models were put differently, with the same behaviour: `GiftRefresh`
has sets where it had sequences filtered with `SelectSeq`, of which the prover knows
nothing, and the heartbeat counts the age of a race up to `LongAgo`; its earlier cap made
`TabConsumersApart` hold by itself when a heartbeat went stale early.

`Upkeep_proof` does the same for the five modules of the work that catches up.
* `NoneDroppedHolds` (`DrainSafe`): what the drain is about to write is true, that is, a
  mark says processed only of an order HubSpot has, short at most of what failed in its
  own create (`Had`, `MarksTrue`), and each
  twin set aside has a row of its order that is no twin and answers for it
  (`TwinsAnswered`). A twin is closed at the end of the pass on what was found at its
  start; the lemma `AnswersKept` says that no write in between takes its answer away.
* `SweptAccountedHolds` (`CustSafe`): a ledger names only customers with a contact
  (`LedgersHeld`); the customers a running sweep knows are accounted for, and a day it has
  looked at misses nobody but those on its list (`SweepKnows`); and a day is covered, or as many of its runs have
  failed as are over (`DaysCounted`). The two runs that cover a day come into the
  property by this count alone.
* `MovedWholeHolds` (`MoveSafe`): what of the Zid order still stands is among the writes
  each mover has left (`MoverSafe`), whichever plan it works from and whatever the other
  did meanwhile, since nothing that was moved comes back; and an un-merge that is under
  way or failed has not taken the label off, and has that write left while it runs
  (`LabelLast`).
* `DoneCompleteHolds` (`EmSafe`): created and done in the file are true of HubSpot
  (`MonthSafe`); each order of the month is done, to come, in the chunk or under repair
  (`NoneLost`); and at each phase of a chunk or a repair its line items have an id, are
  still to be sent, or are linked (`RunSafe`).
* `DriftRepairedHolds` (`RcSafe`): findings in the manifest and in the run are true of
  the drift of their week (`FindingsTrue`), though stages and statuses have moved since;
  the week of the manifest, of the run and of the certificate agree (`WeeksAgree`); and
  while stages are repaired, an order under the cutoff whose stage is still wrong is to
  be sent, was refused, is beyond the counted cap or had no usable payload (`StagesSafe`).

Each of these five invariants was checked by TLC on the instances of section 4 before it
was proved. For the proofs `ZidMove`, `ZedEmit` and `Reconcile` were put differently too:
the steps left, the orders of a chunk and the orders of a sweep are sets, and the next
of them is the first in the fixed order of the code (`FirstIn`, `FirstPlanned`,
`FirstSwept`), where they were sequences cut and filtered. The behaviour is the same, and
so is the number of states. Their assumptions on constants say what the tables are: the
plan of a month and the result of a search name each order once, each row of the log has
an order, and customers are finitely many, none of them one of the values `"none"` and
`"other"` that stand for no holder and for somebody else's contact.

`NoEarlyGrowth` of `AdaptiveLimiter_proof` proves `Frozen` under `Decreasing` (both
factors lower the rate, as the configured ones do): only a throttle sets the time of the
last one, and nothing shortens its cooldown (`CooldownKept`).

What the proofs rest on besides: a `flock` is released when its process dies (Linux);
no attempt to take the lock is suspended for two hours (guard of `TwoHours`: a
process frozen that long between its judgement and its unlink is outside the model);
a pid is not reused within `Rounding` of the lock's mtime (`Restart` sets
the birth after the clock). These are actions' guards, not assumptions of a theorem, and
a reader who doubts them should doubt the guard.

Every safety property of a passing run is stated by a theorem. **Only model-checked**
are the properties of the failing runs, which are no theorems, and all liveness
(`StaleReleased`, `EveryRowEnds`, `CrashesHeal`, `HeldSettles`, `Catches`,
`ReadyDrains`), which the prover cannot do: it has no rule for fairness or ENABLED. The
type invariants of `Upkeep_proof` (`DrainTypeOK` and its like) say what the proofs need;
of `QueueDrain`'s `TypeOK` they leave out the order in which rows were last tried, the
list of a pass and the cached checks, on which no safety property depends. The inductive invariants are
proved and not run: TLC checked those of `Upkeep_proof` and those that stand in the
component's own module (`IInv` of `TrimLock`, `InHand` to `Looped`, `Phases` to
`Numbered`, and the like) on these instances before they were proved.

## 6. What is not modelled, and why

* Outside the model checker's reach: what HubSpot, Salla, Google and Slack do
  inside; they are actions and fault kinds (external in the map).
* Not worth a model, since no two actors meet in them and unit tests reach all they do:
  `zed_normalize.py`, `zed_plan.py`, `zed_review.py`, `zed_snapshot.py` and
  `warranty_*.py` (sequential conversions of local files), `report_digest.py` and
  metrics (read-only reports), `legacy_resolver.py` (name lookups), `run.py` and
  `webui/` (start and show the services), service units, Make blueprints, most of
  `tools/`. Those tools that write the shared sheets do so under the trim lock, where
  they are one more process of `TrimLock`.
* Of modelled components: the sheets for review of unknown products, the properties
  of gift and line items, legacy SKUs and warranties of an order's items; the
  exceptions tab and unclassified give-ups of the status relay; the sleeps of the HTTP
  layer (its outcomes are fault kinds); `--max-orders` of the live engine and dry runs.
* Seen in the code, outside the models: `RealtimeConsumer` does not re-read the tab
  between the heartbeat and its marks beyond the row check (`realtime_base.py:10-12`
  relies on one consumer per tab, `TabConsumersApart`); a re-key an engine tried and
  failed is not tried again by that engine; `queue_mark` verifies a row and writes it in
  two calls, which is safe while the engine is the only deleter (the tools take the trim
  lock); the twins of a held primary row are marked as errors and come up again.
* Abstracted everywhere: names, formatting, logging, and the wording of threads.
  `STOP` files are stops at a polite moment, beside the kills.

---------------------------- MODULE HeldThreads ----------------------------
(***************************************************************************)
(* The Slack threads of products that hold orders (backfill.py held_issue; *)
(* live.py _maybe_settle_held, _held_now, _answer_held_threads).  An order *)
(* that is held joins the thread of each product that holds it.  Once an   *)
(* hour the live engine, between two batches, judges the threads from the  *)
(* rows of the Live Queue, the created ledger, the Queue Log and the gate, *)
(* while the catalog drain creates or gives up held orders and people      *)
(* approve products.  The posts themselves are those of IssueRegistry.     *)
(***************************************************************************)
EXTENDS FiniteSets, Naturals

CONSTANTS
    Product,
    HtOrder,
    Items,        \* order -> its products
    HtMaxFaults   \* bound on failed calls, kills and missed settles

ASSUME HeldAssumption == Items \in [HtOrder -> SUBSET Product] /\ HtMaxFaults \in Nat

VARIABLES
    passes,     \* products that pass the gate
    rowOf,      \* order -> its Live Queue row: none, queued, held, gone
    made,       \* orders in the created ledger
    drainClosed,\* orders whose Queue Log rows are all closed, not created
    thr,        \* product -> its record: state, orders listed, past episode
    eng,        \* the engine: pc, order, products to join
    looked,       \* what the settle has read
    forgotten,  \* history: orders listed in a record that was started over
    htFaults

world == <<passes, made, drainClosed>>
htVars == <<world, rowOf, thr, eng, looked, forgotten, htFaults>>

NoThread == [state |-> "none", orders |-> {}, past |-> FALSE]
EngIdle == [pc |-> "idle", order |-> "none", blockers |-> {}]
NothingSeen == [held |-> {}, busy |-> {}, threads |-> {}, failed |-> {},
                listed |-> [p \in Product |-> {}], gate |-> [p \in Product |-> "unread"]]

HtInit ==
    /\ passes = {} /\ made = {} /\ drainClosed = {}
    /\ rowOf = [o \in HtOrder |-> "none"]
    /\ thr = [p \in Product |-> NoThread]
    /\ eng = EngIdle /\ looked = NothingSeen
    /\ forgotten = {} /\ htFaults = HtMaxFaults

HtFault == htFaults > 0 /\ htFaults' = htFaults - 1

-----------------------------------------------------------------------------
(* Around the engine. *)

Judged(p) ==
    /\ passes' \in {passes \cup {p}, passes \ {p}}
    /\ UNCHANGED <<made, drainClosed, rowOf, thr, eng, looked, forgotten, htFaults>>

Capture(o) ==
    /\ rowOf[o] = "none"
    /\ rowOf' = [rowOf EXCEPT ![o] = "queued"]
    /\ UNCHANGED <<world, thr, eng, looked, forgotten, htFaults>>

(* The catalog drain: created once its products pass, or given up. *)
DrainHeld(o) ==
    /\ rowOf[o] = "held" /\ o \notin made \cup drainClosed
    /\ \/ Items[o] \subseteq passes /\ made' = made \cup {o} /\ UNCHANGED drainClosed
       \/ drainClosed' = drainClosed \cup {o} /\ UNCHANGED made
    /\ UNCHANGED <<passes, rowOf, thr, eng, looked, forgotten, htFaults>>

(* An hour and more without a settle: the engine is down, a trim is on, or
   the queue cannot be read.  A refused thread is then of a past episode. *)
MissSettles ==
    /\ HtFault
    /\ eng' = EngIdle /\ looked' = NothingSeen
    /\ thr' = [p \in Product |-> [thr[p] EXCEPT !.past = thr[p].state = "failed"]]
    /\ UNCHANGED <<world, rowOf, forgotten>>

-----------------------------------------------------------------------------
(* A lane: process_order, route_held, held_issue. *)

ProcessOrder(o) ==
    /\ eng.pc = "idle" /\ rowOf[o] = "queued"
    /\ IF Items[o] \subseteq passes
       THEN made' = made \cup {o} /\ rowOf' = [rowOf EXCEPT ![o] = "done"] /\ UNCHANGED eng
       ELSE eng' = [pc |-> "hold", order |-> o, blockers |-> Items[o] \ passes] /\ UNCHANGED <<made, rowOf>>
    /\ UNCHANGED <<passes, drainClosed, thr, looked, forgotten, htFaults>>

NewThread(o, state) == [state |-> state, orders |-> {o}, past |-> FALSE]

(* issue_update where the thread is open, issue_open otherwise. *)
JoinThread(p) ==
    LET o == eng.order
        startsOver == thr[p].state = "failed" /\ thr[p].past
    IN
    /\ eng.pc = "hold" /\ p \in eng.blockers
    /\ \/ /\ thr[p].state \in {"open", "failed"} /\ ~startsOver
          /\ thr' = [thr EXCEPT ![p].orders = @ \cup {o}]
          /\ UNCHANGED <<forgotten, htFaults>>
       \/ /\ startsOver
          /\ thr' = [thr EXCEPT ![p] = NewThread(o, "failed")]
          /\ forgotten' = forgotten \cup thr[p].orders
          /\ UNCHANGED htFaults
       \/ /\ thr[p].state \in {"none", "closed"}
          /\ \/ thr' = [thr EXCEPT ![p] = NewThread(o, "open")] /\ UNCHANGED htFaults
             \/ thr' = [thr EXCEPT ![p] = NewThread(o, "failed")] /\ HtFault
          /\ UNCHANGED forgotten
    /\ eng' = [eng EXCEPT !.blockers = @ \ {p}]
    /\ UNCHANGED <<world, rowOf, looked>>

MarkHeld ==
    /\ eng.pc = "hold" /\ eng.blockers = {}
    /\ rowOf' = [rowOf EXCEPT ![eng.order] = "held"]
    /\ eng' = EngIdle
    /\ UNCHANGED <<world, thr, looked, forgotten, htFaults>>

-----------------------------------------------------------------------------
(* The settle. *)

(* _held_now: the rows, less what is created and what the drain has closed. *)
Closed(rows) == rows \cap drainClosed

(* _maybe_settle_held; the marks may fail and are written next hour. *)
SettleRows ==
    LET held == {o \in HtOrder : rowOf[o] = "held"} \ made IN
    /\ eng.pc = "idle"
    /\ eng' = [EngIdle EXCEPT !.pc = "threads"]
    /\ looked' = [NothingSeen EXCEPT !.held = held \ Closed(held),
                                   !.busy = {o \in HtOrder : rowOf[o] = "queued"}]
    /\ \/ /\ rowOf' = [o \in HtOrder |-> CASE o \in made /\ rowOf[o] = "held" -> "done"
                                           [] o \in Closed(held) -> "gone"
                                           [] OTHER -> rowOf[o]]
          /\ UNCHANGED htFaults
       \/ HtFault /\ UNCHANGED rowOf
    /\ UNCHANGED <<world, thr, forgotten>>

SettleThreads ==
    /\ eng.pc = "threads"
    /\ looked' = [looked EXCEPT !.threads = {p \in Product : thr[p].state = "open"},
                            !.failed = {p \in Product : thr[p].state = "failed"},
                            !.listed = [p \in Product |-> thr[p].orders]]
    /\ eng' = [eng EXCEPT !.pc = "judge", !.blockers = Product]
    /\ UNCHANGED <<world, rowOf, thr, forgotten, htFaults>>

GateNow(p) == IF p \in passes THEN "pass" ELSE "held"

(* gate_of: one read per product per settle, which may fail. *)
ReadGate(p) ==
    /\ eng.pc = "judge" /\ looked.gate[p] = "unread"
    /\ looked' \in {[looked EXCEPT !.gate[p] = g] : g \in {GateNow(p), "unknown"}}
    /\ UNCHANGED <<world, rowOf, thr, eng, forgotten, htFaults>>

(* mutant: the gate is read for each thread again *)
GateOfNow(p) == GateNow(p)

GateOf(p) == looked.gate[p]

Waits(o) == o \notin made /\ o \in looked.held \cup looked.busy
Waiting(p) == {o \in looked.listed[p] : Waits(o)}
Elsewhere(o, p) == {k \in looked.threads \ {p} : o \in looked.listed[k]}

Drop(p) == thr[p].orders \ {o \in looked.listed[p] : ~Waits(o) /\ o \notin made}

(* One thread of _answer_held_threads.  issue_resolve refuses when the record
   has gained an order. *)
AnswersThread(p) ==
    \/ Waiting(p) = {}
    \/ GateOf(p) = "pass" /\ \A o \in Waiting(p) : \E k \in Elsewhere(o, p) : GateOf(k) = "held"

JudgeThread(p) ==
    /\ eng.pc = "judge" /\ p \in eng.blockers \cap looked.threads
    /\ \A k \in {p} \cup UNION {Elsewhere(o, p) : o \in Waiting(p)} : looked.gate[k] # "unread"
    /\ eng' = [eng EXCEPT !.blockers = @ \ {p}]
    /\ thr' = [thr EXCEPT ![p] = IF AnswersThread(p) /\ thr[p].orders \subseteq looked.listed[p]
                                 THEN [NoThread EXCEPT !.state = "closed"]
                                 ELSE [@ EXCEPT !.orders = Drop(p)]]
    /\ UNCHANGED <<world, rowOf, looked, forgotten, htFaults>>

(* close_failed: a refused thread none of whose orders waits. *)
JudgeFailed(p) ==
    /\ eng.pc = "judge" /\ p \in eng.blockers \cap looked.failed
    /\ eng' = [eng EXCEPT !.blockers = @ \ {p}]
    /\ thr' = IF Waiting(p) = {} /\ thr[p].orders \subseteq looked.listed[p]
              THEN [thr EXCEPT ![p] = [NoThread EXCEPT !.state = "closed"]] ELSE thr
    /\ UNCHANGED <<world, rowOf, looked, forgotten, htFaults>>

(* retry_failed posts what is still refused; a due record may not be due yet. *)
SettleRetries ==
    /\ eng.pc = "judge" /\ eng.blockers \cap (looked.threads \cup looked.failed) = {}
    /\ \E due \in SUBSET {p \in Product : thr[p].state = "failed"} :
         thr' = [p \in Product |-> IF p \in due THEN [thr[p] EXCEPT !.state = "open", !.past = FALSE]
                                   ELSE thr[p]]
    /\ eng' = EngIdle /\ looked' = NothingSeen
    /\ UNCHANGED <<world, rowOf, forgotten, htFaults>>

HtNext ==
    \/ \E p \in Product : Judged(p) \/ JoinThread(p) \/ ReadGate(p) \/ JudgeThread(p) \/ JudgeFailed(p)
    \/ \E o \in HtOrder : Capture(o) \/ DrainHeld(o) \/ ProcessOrder(o)
    \/ MissSettles \/ MarkHeld \/ SettleRows \/ SettleThreads \/ SettleRetries

-----------------------------------------------------------------------------
(* An order that waits for the catalog is listed in a thread that is open, or
   that Slack has refused and that will be posted: whatever products pass or
   fail again while the settle answers the threads one by one, the last one
   that lists the order is not answered (_answer_held_threads: "that product's
   own thread confirms them").  Only a refused record taken for a past episode
   forgets its orders. *)
WaitingListed ==
    \A o \in HtOrder \ (forgotten \cup made \cup drainClosed) :
      rowOf[o] = "held" => \E p \in Product : thr[p].state \in {"open", "failed"} /\ o \in thr[p].orders
=============================================================================

---------------------------- MODULE CustomerSync ----------------------------
(***************************************************************************)
(* How a Salla customer becomes a HubSpot contact (customer_sync.py,       *)
(* customer_sweep.py, tools/drain_held_customers.py, backfill.py           *)
(* route_create).  A captured customer.created event is a row of the       *)
(* Customer Queue; the consumer searches, merges, creates or updates, and  *)
(* keeps a ledger.  A lost capture is found by the daily sweep of the last *)
(* two ended days.  Order lanes create contacts too; HubSpot accepts one   *)
(* contact per main phone.  The consumer's cursor and trims are those of   *)
(* StatusRelay; here it may take any claimable row.                        *)
(***************************************************************************)
EXTENDS Naturals, Sequences, SequencesExt, FiniteSets

CONSTANTS
    Customer,
    CustDays,        \* bound on the calendar
    CustRows,        \* bound on rows of the Customer Queue
    CustAttempts,    \* realtime_max_attempts
    CustMaxFaults    \* bound on lost captures, failed calls and kills

ASSUME CustomerAssumption ==
    /\ {CustDays, CustRows, CustAttempts} \subseteq Nat \ {0} /\ CustMaxFaults \in Nat
    /\ IsFiniteSet(Customer) /\ {"none", "other"} \cap Customer = {}

VARIABLES
    today, born,     \* the day; customer -> day of creation, 0: not yet
    crows,           \* the Customer Queue
    holder,          \* whose id the contact with the customer's phone carries
    spare,           \* customers with an older contact, the phone in another spelling
    shown,           \* customers whose contact the search index shows
    custFile,        \* customers in mirror/customers.csv
    worker,          \* the consumer and the drain tool: pc, row, outcome, ledger read
    sweep,           \* pc, customers on their way, days left, day, customers missing
    unswept,         \* history: day -> daily runs that did not cover it
    custFaults

hubspot == <<holder, spare, shown>>
custVars == <<today, born, crows, hubspot, custFile, worker, sweep, unswept, custFaults>>

Worker == {"sync", "drain"}
Open == {"queued", "error", "held"}
NoWork == [pc |-> "idle", row |-> 0, out |-> "none", known |-> {}]
NoSweep == [pc |-> "idle", known |-> {}, days |-> {}, day |-> 0, missing |-> {}]

CustInit ==
    /\ today = 1 /\ born = [c \in Customer |-> 0]
    /\ crows = <<>>
    \* the contact of somebody with the same phone, and an older one, may exist
    /\ holder \in [Customer -> {"none", "other"}] /\ spare \in SUBSET Customer
    /\ shown = {c \in Customer : holder[c] = "other"}
    /\ custFile = {}
    /\ worker = [w \in Worker |-> NoWork]
    /\ sweep = [NoSweep EXCEPT !.pc = "due"]
    /\ unswept = [d \in 1..CustDays |-> 0]
    /\ custFaults = CustMaxFaults

CustFault == custFaults > 0 /\ custFaults' = custFaults - 1
CustRow(c, src) == [cust |-> c, st |-> "queued", att |-> 0, src |-> src]

-----------------------------------------------------------------------------
(* A customer registers; the capture appends its row, loses it, or the event
   is delivered again later. *)
Signup(c) ==
    /\ born[c] = 0
    /\ born' = [born EXCEPT ![c] = today]
    /\ \/ crows' = Append(crows, CustRow(c, "make")) /\ UNCHANGED custFaults
       \/ CustFault /\ UNCHANGED crows
    /\ UNCHANGED <<today, hubspot, custFile, worker, sweep, unswept>>

DeliverAgain(c) ==
    /\ born[c] # 0 /\ Len(crows) < CustRows
    /\ CustFault
    /\ crows' = Append(crows, CustRow(c, "make"))
    /\ UNCHANGED <<today, born, hubspot, custFile, worker, sweep, unswept>>

(* route_create of an order of c: one contact, unless the search or, after
   the refused create, the second search finds it. *)
BuyerContact(c) ==
    /\ born[c] # 0 /\ holder[c] = "none"
    /\ holder' = [holder EXCEPT ![c] = c]
    /\ UNCHANGED <<today, born, crows, spare, shown, custFile, worker, sweep, unswept, custFaults>>

IndexContact(c) ==
    /\ holder[c] # "none" /\ shown' = shown \cup {c}
    /\ UNCHANGED <<today, born, crows, holder, spare, custFile, worker, sweep, unswept, custFaults>>

-----------------------------------------------------------------------------
(* handle_row.  An unreadable payload is one more call that may fail. *)

CustOf(w) == crows[worker[w].row].cust
Go(w, pc, out) == worker' = [worker EXCEPT ![w] = [@ EXCEPT !.pc = pc, !.out = out]]

ClaimableCust(w, r) == crows[r].st \in IF w = "drain" THEN {"held"} ELSE {"queued", "error"}

(* The ledger is read once, when the process starts; the tool runs anew. *)
KnownTo(w) == IF w = "drain" THEN custFile ELSE worker[w].known

ClaimCust(w, r) ==
    /\ worker[w].pc = "idle"
    /\ ClaimableCust(w, r)
    /\ LET known == KnownTo(w) IN
       worker' = [worker EXCEPT ![w] =
           [pc |-> IF crows[r].cust \in known THEN "mark" ELSE "search", row |-> r,
            out |-> "superseded", known |-> known]]
    /\ UNCHANGED <<today, born, crows, hubspot, custFile, sweep, unswept, custFaults>>

MayMerge(w) == w # "drain" /\ crows[worker[w].row].src # "sweep"

SearchCust(w) ==
    /\ worker[w].pc = "search"
    /\ LET c == CustOf(w) IN
       Go(w, CASE c \in shown /\ c \in spare /\ MayMerge(w) -> "merge"
               [] c \in shown -> "patch"
               [] c \notin shown /\ c \in spare -> "patchSpare"
               [] OTHER -> "create", "none")
    /\ UNCHANGED <<today, born, crows, hubspot, custFile, sweep, unswept, custFaults>>

Merge(w) ==
    /\ worker[w].pc = "merge"
    /\ spare' = spare \ {CustOf(w)}
    /\ Go(w, "patch", "none")
    /\ UNCHANGED <<today, born, crows, holder, shown, custFile, sweep, unswept, custFaults>>

(* The write; a second contact with the main phone is refused. *)
WriteContact(w) ==
    LET c == CustOf(w)
        refused == worker[w].pc # "patch" /\ holder[c] # "none"
    IN
    /\ worker[w].pc \in {"create", "patch", "patchSpare"}
    /\ IF refused THEN Go(w, "mark", "error") /\ UNCHANGED <<holder, spare>>
       ELSE /\ Go(w, "record", "done")
            /\ holder' = [holder EXCEPT ![c] = c]
            /\ spare' = IF worker[w].pc = "patchSpare" THEN spare \ {c} ELSE spare
    /\ UNCHANGED <<today, born, crows, shown, custFile, sweep, unswept, custFaults>>

(* Any call fails, the write with or without effect; the payload is read
   before the ledger is asked, a synced customer's too. *)
CustCallFails(w) ==
    /\ \/ worker[w].pc \in {"search", "merge", "create", "patch", "patchSpare"}
       \/ worker[w].pc = "mark" /\ worker[w].out = "superseded"
    /\ CustFault
    /\ Go(w, "mark", "error")
    /\ \/ UNCHANGED hubspot
       \/ /\ worker[w].pc = "create" /\ holder[CustOf(w)] = "none"
          /\ holder' = [holder EXCEPT ![CustOf(w)] = CustOf(w)]
          /\ UNCHANGED <<spare, shown>>
    /\ UNCHANGED <<today, born, crows, custFile, sweep, unswept>>

RecordCust(w) ==
    /\ worker[w].pc = "record"
    /\ custFile' = custFile \cup {CustOf(w)}
    /\ worker' = [worker EXCEPT ![w] =
           [@ EXCEPT !.pc = "mark", !.known = worker[w].known \cup {CustOf(w)}]]
    /\ UNCHANGED <<today, born, crows, hubspot, sweep, unswept, custFaults>>

(* _settle and _mark; the drain tool leaves what fails held. *)
SettledAs(w, row) ==
    CASE worker[w].out # "error" -> worker[w].out
      [] w = "drain" \/ row.att + 1 >= CustAttempts -> "held"
      [] OTHER -> "error"

MarkCust(w) ==
    LET row == crows[worker[w].row] IN
    /\ worker[w].pc = "mark"
    /\ crows' = [crows EXCEPT ![worker[w].row] =
                   [row EXCEPT !.st = SettledAs(w, row),
                               !.att = IF w = "drain" THEN row.att ELSE row.att + 1]]
    /\ worker' = [worker EXCEPT ![w] = [NoWork EXCEPT !.known = IF w = "drain" THEN {} ELSE worker[w].known]]
    /\ UNCHANGED <<today, born, hubspot, custFile, sweep, unswept, custFaults>>

(* Killed and started again: the ledger is read from the file. *)
KillWorker(w) ==
    /\ worker[w].pc # "idle"
    /\ CustFault
    /\ worker' = [worker EXCEPT ![w] = [NoWork EXCEPT !.known = IF w = "drain" THEN {} ELSE custFile]]
    /\ UNCHANGED <<today, born, crows, hubspot, custFile, sweep, unswept>>

-----------------------------------------------------------------------------
(* customer_sweep.py, once a day. *)

(* mutant: yesterday only *)
SweepDaysOne == {today - 1} \cap 1..CustDays

SweepDays == {today - 2, today - 1} \cap 1..CustDays

OnTheirWay == custFile \cup {crows[r].cust : r \in {q \in DOMAIN crows : crows[q].st \in Open}}

SweepStart ==
    /\ sweep.pc = "due"
    /\ sweep' = [NoSweep EXCEPT !.pc = IF SweepDays = {} THEN "idle" ELSE "days",
                                !.known = OnTheirWay, !.days = SweepDays]
    /\ UNCHANGED <<today, born, crows, hubspot, custFile, worker, unswept, custFaults>>

InHubSpot(c) == c \in shown /\ holder[c] = c

SweepLook(d) ==
    /\ sweep.pc = "days" /\ d \in sweep.days
    /\ sweep' = [pc |-> "append", known |-> sweep.known, days |-> sweep.days, day |-> d,
           missing |-> {c \in Customer : born[c] = d /\ c \notin sweep.known /\ ~InHubSpot(c)}]
    /\ UNCHANGED <<today, born, crows, hubspot, custFile, worker, unswept, custFaults>>

DayDone(d) == sweep' = IF sweep.days = {d} THEN NoSweep
                       ELSE [pc |-> "days", known |-> sweep.known, days |-> sweep.days \ {d},
                             day |-> 0, missing |-> {}]
NotSwept(ds) == unswept' = [d \in 1..CustDays |-> unswept[d] + (IF d \in ds THEN 1 ELSE 0)]

Queued == crows \o [i \in 1..Cardinality(sweep.missing) |-> CustRow(SetToSeq(sweep.missing)[i], "sweep")]

SweepAppend ==
    /\ sweep.pc = "append" /\ Len(Queued) <= CustRows
    /\ crows' = Queued
    /\ DayDone(sweep.day)
    /\ UNCHANGED <<today, born, hubspot, custFile, worker, unswept, custFaults>>

(* The day's list is not to be trusted, or too many are missing. *)
SweepRefused(d) ==
    /\ sweep.pc \in {"days", "append"} /\ d \in sweep.days /\ sweep.day \in {0, d}
    /\ CustFault
    /\ DayDone(d)
    /\ NotSwept({d})
    /\ UNCHANGED <<today, born, crows, hubspot, custFile, worker>>

(* Not started, a call fails, or killed, the append with or without effect. *)
SweepDies ==
    /\ sweep.pc # "idle"
    /\ CustFault
    /\ \/ UNCHANGED crows
       \/ sweep.pc = "append" /\ Len(Queued) <= CustRows /\ crows' = Queued
    /\ sweep' = NoSweep
    /\ NotSwept(IF sweep.pc = "due" THEN SweepDays ELSE sweep.days)
    /\ UNCHANGED <<today, born, hubspot, custFile, worker>>

NextDay ==
    /\ sweep.pc = "idle" /\ today < CustDays
    /\ today' = today + 1
    /\ sweep' = [NoSweep EXCEPT !.pc = "due"]
    /\ UNCHANGED <<born, crows, hubspot, custFile, worker, unswept, custFaults>>

CustNext ==
    \/ \E c \in Customer : Signup(c) \/ DeliverAgain(c) \/ BuyerContact(c) \/ IndexContact(c)
    \/ \E w \in Worker : \/ \E r \in DOMAIN crows : ClaimCust(w, r)
                         \/ SearchCust(w) \/ Merge(w) \/ WriteContact(w) \/ CustCallFails(w)
                         \/ RecordCust(w) \/ MarkCust(w) \/ KillWorker(w)
    \/ SweepStart \/ SweepAppend \/ SweepDies \/ NextDay
    \/ \E d \in 1..CustDays : SweepLook(d) \/ SweepRefused(d)

-----------------------------------------------------------------------------
(* A customer whose event Make lost is made good by the daily sweep: three
   days on, it has a contact or an open row, unless both of the runs that
   cover its day failed ("anyone missing from all three is appended").  This
   stands whatever the consumer, the order lanes, the search index and
   customers with the same phone do meanwhile. *)
SweptAccounted ==
    \A c \in Customer : born[c] > 0 /\ today >= born[c] + 3 /\ unswept[born[c]] < 2
       => holder[c] # "none" \/ \E r \in DOMAIN crows : crows[r].cust = c /\ crows[r].st \in Open
=============================================================================

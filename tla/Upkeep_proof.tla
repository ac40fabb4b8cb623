---------------------------- MODULE Upkeep_proof ----------------------------
(***************************************************************************)
(* Proofs about the parts beside the live path: the drain of the Queue     *)
(* Log, the customer sync, the Zid re-key, the Zid import and the weekly   *)
(* reconciliation.  Each part has an inductive invariant of its own, one   *)
(* lemma per action, and a theorem that names the property a run checks.   *)
(***************************************************************************)
EXTENDS CustomerSync, ZidMove, ZedEmit, Reconcile, QueueDrain, SequenceTheorems,
        FiniteSetTheorems, WellFoundedInduction, TLAPS

(***************************************************************************)
(* The queue drain.                                                        *)
(***************************************************************************)

\* What the rows, and what HubSpot and the ledger have, are.
RowType == [st : {"none", "queued", "processing", "error", "processed", "duplicate", "gone"},
            att : 0..Cap, note : {"none", "blocked", "processing", "failed"},
            keys : SUBSET (GateForms \X Products)]
DrainTypeOK ==
    /\ log \in [Rows -> RowType] /\ base \in [Rows -> 0..Cap]
    /\ hs \in [Orders -> {"none", "partial", "full"}]
    /\ ledger \subseteq Orders /\ \A o \in ledger : Had(o)

\* An outcome is a row's; one that says processed is of an order HubSpot has.
MarkTrue(m) ==
    m[1] \in Rows =>
        /\ m[2] \in RowType /\ m[2].st \notin {"none", "duplicate"}
        /\ m[2].st = "processed" => Had(OrderOf[m[1]])
MarksTrue == \A m \in marks : MarkTrue(m)

\* A row that answers for the rows of its order: it stands, or HubSpot has the order.
Answers(q) == log[q].st # "none" /\ (Closed(q) => Had(OrderOf[q]))

\* Each twin has a row of its order that is no twin and answers for it.
TwinsAnswered ==
    \A t \in twins \cap Rows : \E q \in Rows \ twins : OrderOf[q] = OrderOf[t] /\ Answers(q)

\* The inductive invariant of the drain.
DrainSafe == DrainTypeOK /\ MarksTrue /\ TwinsAnswered /\ NoneDropped

\* Of the rows of a set, one is the first.
LEMMA FirstRowExists ==
  ASSUME NEW S \in SUBSET Rows, S # {}
  PROVE  \E q \in S : \A r \in S : q <= r
<1>1. Rows \subseteq Nat
  BY DrainAssumption DEF Rows
<1>2. PICK q \in S : \A r \in S : <<r, q>> \notin OpToRel(<, Nat)
  BY <1>1, NatLessThanWellFounded, WFMin
<1>3. \A r \in S : ~(r < q)
  BY <1>1, <1>2 DEF OpToRel
<1> QED
  BY <1>1, <1>3

\* The keys of a note are the gate's.
LEMMA KeysOfGate == \A p \in Products : KeyOf(p) \in GateForms \X Products
  BY DEF KeyOf, GateForms

\* A mark is its row's, with what was written in it.
LEMMA MarkSays ==
  ASSUME NEW r, NEW st, NEW att, NEW note, NEW keys
  PROVE  /\ Mark(r, st, att, note, keys)[1] = r /\ Mark(r, st, att, note, keys)[2].st = st
         /\ (/\ st \in {"none", "queued", "processing", "error", "processed", "duplicate", "gone"}
             /\ att \in 0..Cap /\ note \in {"none", "blocked", "processing", "failed"}
             /\ keys \in SUBSET (GateForms \X Products)
             => Mark(r, st, att, note, keys)[2] \in RowType)
  BY DEF Mark, Row, RowType

\* What the attempts column can hold.
LEMMA UptoCap == \A n \in Nat : Upto(n) \in 0..Cap
  BY DrainAssumption DEF Upto, Least

\* The rows of a batch of marks get what one of their marks says; the others
\* keep what they have.
LEMMA WrittenRows ==
  ASSUME NEW M, log' = Written(M)
  PROVE  /\ DOMAIN log' = Rows /\ log' = [r \in Rows |-> log'[r]]
         /\ \A r \in Rows : \/ log'[r] = log[r] /\ ~\E m \in M : m[1] = r
                            \/ \E m \in M : m[1] = r /\ log'[r] = m[2]
<1>1. log' = [r \in Rows |-> IF r \in RowsIn(M) THEN (CHOOSE m \in M : m[1] = r)[2] ELSE log[r]]
  BY DEF Written
<1>2. DOMAIN log' = Rows /\ log' = [r \in Rows |-> log'[r]]
  BY <1>1
<1>3. ASSUME NEW r \in Rows
      PROVE  \/ log'[r] = log[r] /\ ~\E m \in M : m[1] = r
             \/ \E m \in M : m[1] = r /\ log'[r] = m[2]
  <2>1. CASE \E m \in M : m[1] = r
    <3>1. (CHOOSE m \in M : m[1] = r) \in M /\ (CHOOSE m \in M : m[1] = r)[1] = r
      BY <2>1
    <3>2. log'[r] = (CHOOSE m \in M : m[1] = r)[2]
      BY <1>1, <2>1 DEF RowsIn
    <3> QED  BY <3>1, <3>2
  <2>2. CASE ~\E m \in M : m[1] = r
    BY <1>1, <2>2 DEF RowsIn
  <2> QED  BY <2>1, <2>2
<1> QED  BY <1>2, <1>3

\* HubSpot loses no order it had.
HsKept == \A o \in Orders : Had(o) => Had(o)'

LEMMA HadSame == ASSUME UNCHANGED <<hs, incomplete>> PROVE HsKept /\ \A o : Had(o)' <=> Had(o)
  BY DEF HsKept, Had

\* The order of a row is one of the orders.
LEMMA OrdersOfRows == \A r \in Rows : OrderOf[r] \in Orders
  BY DrainAssumption DEF Rows

\* While true marks are written, rows go on answering for their order.
LEMMA AnswersKept ==
  ASSUME DrainSafe, NEW M, \A m \in M : MarkTrue(m), log' \in {log, Written(M)}, HsKept
  PROVE  /\ log' \in [Rows -> RowType]
         /\ \A q \in Rows : Answers(q) => Answers(q)'
         /\ \A r \in Rows : Closed(r)' => Closed(r) \/ Had(OrderOf[r])
<1>1. CASE log' = log
  <2>1. \A q \in Rows : Answers(q) => Answers(q)'
    BY <1>1, OrdersOfRows DEF Answers, Closed, HsKept
  <2> QED  BY <1>1, <2>1 DEF Closed, DrainSafe, DrainTypeOK
<1>2. CASE log' = Written(M)
  <2>1. ASSUME NEW r \in Rows
        PROVE  /\ log'[r] \in RowType
               /\ \/ log'[r] = log[r]
                  \/ log'[r].st \notin {"none", "duplicate"} /\ (log'[r].st = "processed" => Had(OrderOf[r]))
    <3>1. CASE log'[r] = log[r]
      BY <3>1 DEF DrainSafe, DrainTypeOK
    <3>2. CASE \E m \in M : m[1] = r /\ log'[r] = m[2]
      BY <3>2 DEF MarkTrue
    <3> QED  BY <1>2, <3>1, <3>2, WrittenRows
  <2>2. log' \in [Rows -> RowType]
    BY <1>2, <2>1, WrittenRows
  <2>3. \A q \in Rows : Answers(q) => Answers(q)'
    <3> TAKE q \in Rows
    <3>1. CASE log'[q] = log[q]
      BY <3>1, OrdersOfRows DEF Answers, Closed, HsKept
    <3>2. CASE log'[q].st \notin {"none", "duplicate"} /\ (log'[q].st = "processed" => Had(OrderOf[q]))
      BY <3>2, OrdersOfRows DEF Answers, Closed, HsKept
    <3> QED  BY <2>1, <3>1, <3>2
  <2>4. \A r \in Rows : Closed(r)' => Closed(r) \/ Had(OrderOf[r])
    BY <2>1 DEF Closed
  <2> QED  BY <2>2, <2>3, <2>4
<1> QED  BY <1>1, <1>2

\* A step that writes true marks, and lets HubSpot gain, is safe when what it
\* keeps to write is true.
LEMMA WriteSafe ==
  ASSUME DrainSafe, NEW M, \A m \in M : MarkTrue(m), log' \in {log, Written(M)}, HsKept,
         base' \in [Rows -> 0..Cap], hs' \in [Orders -> {"none", "partial", "full"}],
         ledger' \subseteq Orders, \A o \in ledger' : Had(o)',
         MarksTrue', twins' \in {twins, {}}
  PROVE  DrainSafe'
<1>1. /\ log' \in [Rows -> RowType]
      /\ \A q \in Rows : Answers(q) => Answers(q)'
      /\ \A r \in Rows : Closed(r)' => Closed(r) \/ Had(OrderOf[r])
  BY AnswersKept
<1>2. DrainTypeOK'
  BY <1>1 DEF DrainTypeOK
<1>3. TwinsAnswered'
  BY <1>1 DEF DrainSafe, TwinsAnswered
<1>4. NoneDropped'
  <2> SUFFICES ASSUME NEW r \in Rows, Closed(r)', ~Had(OrderOf[r])'
               PROVE  \E q \in Rows : OrderOf[q] = OrderOf[r] /\ ~Closed(q)' /\ log'[q].st # "none"
    BY DEF NoneDropped
  <2>1. Closed(r) /\ ~Had(OrderOf[r])
    BY <1>1, OrdersOfRows DEF HsKept
  <2>2. PICK q \in Rows : OrderOf[q] = OrderOf[r] /\ ~Closed(q) /\ log[q].st # "none"
    BY <2>1 DEF DrainSafe, NoneDropped
  <2>3. Answers(q)'
    BY <1>1, <2>2 DEF Answers
  <2> QED  BY <2>2, <2>3 DEF Answers
<1> QED  BY <1>2, <1>3, <1>4 DEF DrainSafe

\* A step that writes nothing, and keeps of the marks and the twins all or none.
LEMMA QuietSafe ==
  ASSUME DrainSafe, UNCHANGED <<log, hs, ledger, incomplete>>, base' \in [Rows -> 0..Cap],
         marks' \in {marks, {}}, twins' \in {twins, {}}
  PROVE  DrainSafe'
<1>1. MarksTrue'
  BY HadSame DEF DrainSafe, MarksTrue, MarkTrue
<1>2. HsKept
  BY HadSame
<1>3. hs' \in [Orders -> {"none", "partial", "full"}] /\ ledger' \subseteq Orders /\ \A o \in ledger' : Had(o)'
  BY HadSame DEF DrainSafe, DrainTypeOK
<1>4. PICK M : M = {}
  OBVIOUS
<1>5. (\A m \in M : MarkTrue(m)) /\ log' \in {log, Written(M)}
  BY <1>4
<1> QED  BY <1>1, <1>2, <1>3, <1>5, WriteSafe

\* A lane that adds a true mark.
LEMMA LaneSafe ==
  ASSUME DrainSafe, NEW r \in Rows, NEW m, Lane(r, m), m[1] = r, m[2] \in RowType,
         m[2].st \notin {"none", "duplicate"}, m[2].st = "processed" => Had(OrderOf[r])',
         HsKept, hs' \in [Orders -> {"none", "partial", "full"}],
         ledger' \subseteq Orders, \A o \in ledger' : Had(o)'
  PROVE  DrainSafe'
<1>1. marks' = marks \cup {m} /\ UNCHANGED <<log, base, twins>>
  BY DEF Lane, sheet
<1>2. MarksTrue'
  <2>1. \A n \in marks : MarkTrue(n)'
    BY OrdersOfRows DEF DrainSafe, MarksTrue, MarkTrue, HsKept
  <2>2. MarkTrue(m)'
    BY DEF MarkTrue
  <2> QED  BY <1>1, <2>1, <2>2 DEF MarksTrue
<1>3. base' \in [Rows -> 0..Cap]
  BY <1>1 DEF DrainSafe, DrainTypeOK
<1>4. PICK M : M = {}
  OBVIOUS
<1>5. (\A n \in M : MarkTrue(n)) /\ log' \in {log, Written(M)}
  BY <1>1, <1>4
<1> QED  BY <1>1, <1>2, <1>3, <1>5, WriteSafe

\* Nothing is in the log before the first order is held.
LEMMA DrainInitSafe == Init => DrainSafe
<1> SUFFICES ASSUME Init PROVE DrainSafe
  OBVIOUS
<1>1. log \in [Rows -> RowType] /\ base \in [Rows -> 0..Cap]
  BY DrainAssumption DEF Init, Row, RowType
<1>2. DrainTypeOK /\ MarksTrue /\ TwinsAnswered
  BY <1>1 DEF Init, DrainTypeOK, MarksTrue, TwinsAnswered
<1>3. NoneDropped
  BY DEF Init, Row, NoneDropped, Closed
<1> QED  BY <1>2, <1>3 DEF DrainSafe

\* A row that arrives is open.
LEMMA ArriveSafe == ASSUME DrainSafe, NEW r \in Rows, Arrive(r) PROVE DrainSafe'
<1>1. /\ log[r].st = "none" /\ log' = [log EXCEPT ![r].st = "queued"]
      /\ UNCHANGED <<hs, ledger, incomplete, base, twins, marks>>
  BY DEF Arrive
<1>2. log[r] \in RowType /\ log' = [log EXCEPT ![r] = [log[r] EXCEPT !.st = "queued"]]
  BY <1>1 DEF DrainSafe, DrainTypeOK
<1>3. log'[r].st = "queued" /\ log'[r] \in RowType /\ \A q \in Rows : q # r => log'[q] = log[q]
  BY <1>2 DEF DrainSafe, DrainTypeOK, RowType
<1>4. log' \in [Rows -> RowType]
  BY <1>2, <1>3 DEF DrainSafe, DrainTypeOK
<1>5. \A q \in Rows : Answers(q) => Answers(q)'
  BY <1>1, <1>3, HadSame DEF Answers, Closed
<1>6. \A q \in Rows : Closed(q)' => Closed(q)
  BY <1>3 DEF Closed
<1>7. DrainTypeOK' /\ MarksTrue' /\ TwinsAnswered'
  BY <1>1, <1>4, <1>5, HadSame DEF DrainSafe, DrainTypeOK, MarksTrue, MarkTrue, TwinsAnswered
<1>8. NoneDropped'
  <2> SUFFICES ASSUME NEW p \in Rows, Closed(p)', ~Had(OrderOf[p])
               PROVE  \E q \in Rows : OrderOf[q] = OrderOf[p] /\ ~Closed(q)' /\ log'[q].st # "none"
    BY <1>1, HadSame DEF NoneDropped
  <2>1. PICK q \in Rows : OrderOf[q] = OrderOf[p] /\ ~Closed(q) /\ log[q].st # "none"
    BY <1>6 DEF DrainSafe, NoneDropped
  <2> QED  BY <1>1, <1>3, <1>6, <2>1
<1> QED  BY <1>7, <1>8 DEF DrainSafe

\* A pass starts: every twin has the first claimed row of its order before it.
LEMMA StartSafe == ASSUME DrainSafe, Start PROVE DrainSafe'
<1>1. /\ base' = [r \in Rows |-> FailBase(r)] /\ twins' = Claimed \ Primaries
      /\ marks' = {Mark(r, "processed", Upto(log[r].att + 1), log[r].note, log[r].keys) :
                     r \in {q \in Primaries : OrderOf[q] \in ledger}}
      /\ UNCHANGED <<log, hs, ledger, incomplete>>
  BY DEF Start, sheet
<1>2. \A r \in Rows : log[r] \in RowType
  BY DEF DrainSafe, DrainTypeOK
<1>3. base' \in [Rows -> 0..Cap]
  <2>1. \A r \in Rows : FailBase(r) \in 0..Cap
    BY <1>2, DrainAssumption DEF FailBase, RowType
  <2> QED  BY <1>1, <2>1
<1>4. Primaries \subseteq Rows /\ Claimed \subseteq Rows
  BY DEF Primaries, Claimed
<1>5. MarksTrue'
  <2> SUFFICES ASSUME NEW m \in marks' PROVE MarkTrue(m)'
    BY DEF MarksTrue
  <2>1. PICK r \in Primaries : /\ OrderOf[r] \in ledger
                               /\ m = Mark(r, "processed", Upto(log[r].att + 1), log[r].note, log[r].keys)
    BY <1>1
  <2>2. r \in Rows /\ log[r] \in RowType /\ Upto(log[r].att + 1) \in 0..Cap
    BY <1>2, <1>4, UptoCap DEF RowType
  <2>3. m[1] = r /\ m[2].st = "processed" /\ m[2] \in RowType
    BY <2>1, <2>2, MarkSays DEF RowType
  <2>4. Had(OrderOf[r])'
    BY <1>1, <2>1, HadSame DEF DrainSafe, DrainTypeOK
  <2> QED  BY <2>3, <2>4 DEF MarkTrue
<1>6. TwinsAnswered'
  <2> SUFFICES ASSUME NEW t \in twins' \cap Rows
               PROVE  \E q \in Rows \ twins' : OrderOf[q] = OrderOf[t] /\ Answers(q)'
    BY DEF TwinsAnswered
  <2> DEFINE same == {q \in Claimed : OrderOf[q] = OrderOf[t]}
  <2>1. same \in SUBSET Rows /\ same # {}
    BY <1>1, <1>4
  <2>2. PICK q \in same : \A r \in same : q <= r
    BY <2>1, FirstRowExists
  <2>3. q \in Primaries /\ q \in Rows /\ OrderOf[q] = OrderOf[t] /\ Claimable(q)
    BY <1>4, <2>2 DEF Primaries, Claimed
  <2>4. Answers(q)'
    BY <1>1, <2>3 DEF Answers, Closed, Claimable
  <2> QED  BY <1>1, <2>3, <2>4
<1>7. DrainTypeOK' /\ NoneDropped'
  BY <1>1, <1>3, HadSame DEF DrainSafe, DrainTypeOK, NoneDropped, Closed
<1> QED  BY <1>5, <1>6, <1>7 DEF DrainSafe

\* The marks of a pass or of a wave are written, or lost.
LEMMA MarksWrittenSafe == ASSUME DrainSafe, ShortCircuit \/ MarkWave PROVE DrainSafe'
<1>1. /\ UNCHANGED <<hs, ledger, incomplete, base, twins>> /\ marks' = {}
      /\ log' = log \/ log' = Written(marks)
  BY DEF ShortCircuit, MarkWave, WriteOrLose, Write, sheet
<1>2. HsKept /\ MarksTrue'
  BY <1>1, HadSame DEF MarksTrue
<1>3. /\ hs' \in [Orders -> {"none", "partial", "full"}] /\ ledger' \subseteq Orders
      /\ \A o \in ledger' : Had(o)'
      /\ base' \in [Rows -> 0..Cap] /\ \A m \in marks : MarkTrue(m)
  BY <1>1, HadSame DEF DrainSafe, DrainTypeOK, MarksTrue
<1> QED  BY <1>1, <1>2, <1>3, WriteSafe

\* What a fetch keeps to write, and what it writes, leaves rows open.
LEMMA FetchSafe == ASSUME DrainSafe, Fetch PROVE DrainSafe'
<1>1. PICK missing, got :
          /\ marks' = {Missing(r) : r \in missing}
          /\ \/ log' = log
             \/ log' = Written({Mark(r, "processing", log[r].att, "processing", {}) : r \in got})
  BY DEF Fetch, WriteOrLose, Write, sheet
<1>2. UNCHANGED <<hs, ledger, incomplete, base, twins>>
  BY DEF Fetch
<1>3. /\ hs' \in [Orders -> {"none", "partial", "full"}] /\ ledger' \subseteq Orders
      /\ \A o \in ledger' : Had(o)'
      /\ base' \in [Rows -> 0..Cap] /\ HsKept
  BY <1>2, HadSame DEF DrainSafe, DrainTypeOK
<1>4. MarksTrue'
  <2> SUFFICES ASSUME NEW m \in marks', m[1] \in Rows PROVE MarkTrue(m)'
    BY DEF MarksTrue, MarkTrue
  <2>1. PICK r \in missing : m = Missing(r)
    BY <1>1
  <2> DEFINE st == IF base[r] + 1 >= Cap THEN "gone" ELSE "error"
  <2>2. m = Mark(r, st, Upto(base[r] + 1), "failed", {})
    BY <2>1 DEF Missing
  <2>3. st \in {"gone", "error"}
    OBVIOUS
  <2> HIDE DEF st
  <2>4. m[1] = r /\ m[2].st = st
    BY <2>2, MarkSays
  <2>5. base[r] \in Nat
    BY <2>4, DrainAssumption DEF DrainSafe, DrainTypeOK
  <2>6. Upto(base[r] + 1) \in 0..Cap
    BY <2>5, UptoCap
  <2>7. m[2] \in RowType
    BY <2>2, <2>3, <2>6, MarkSays
  <2> QED  BY <2>3, <2>4, <2>7 DEF MarkTrue
<1> DEFINE M == {Mark(r, "processing", log[r].att, "processing", {}) : r \in got}
<1>5. \A m \in M : MarkTrue(m)
  <2> SUFFICES ASSUME NEW m \in M, m[1] \in Rows PROVE MarkTrue(m)
    BY DEF MarkTrue
  <2>1. PICK r \in got : m = Mark(r, "processing", log[r].att, "processing", {})
    OBVIOUS
  <2>2. m[1] = r /\ m[2].st = "processing"
    BY <2>1, MarkSays
  <2>3. log[r].att \in 0..Cap
    BY <2>2 DEF DrainSafe, DrainTypeOK, RowType
  <2>4. m[2] \in RowType
    BY <2>1, <2>3, MarkSays
  <2> QED  BY <2>2, <2>4 DEF MarkTrue
<1> HIDE DEF M
<1>6. log' \in {log, Written(M)}
  BY <1>1 DEF M
<1>7. twins' \in {twins, {}}
  BY <1>2
<1> QED  BY <1>3, <1>4, <1>5, <1>6, <1>7, WriteSafe

\* The lanes: a row is marked processed when HubSpot has its order.
LEMMA LaneStepSafe == ASSUME DrainSafe, NEW r \in Rows, LaneStep(r) PROVE DrainSafe'
<1>1. OrderOf[r] \in Orders /\ log[r] \in RowType /\ base[r] \in 0..Cap /\ log[r].att \in 0..Cap
  BY OrdersOfRows DEF DrainSafe, DrainTypeOK, RowType
<1>2. Upto(log[r].att + 1) \in 0..Cap /\ Upto(base[r] + 1) \in 0..Cap /\ Upto(base[r] + Cap) \in 0..Cap
  <2>1. Cap \in Nat
    BY DrainAssumption
  <2>2. log[r].att + 1 \in Nat /\ base[r] + 1 \in Nat /\ base[r] + Cap \in Nat
    BY <1>1, <2>1
  <2> QED  BY <2>2, UptoCap
<1>3. hs \in [Orders -> {"none", "partial", "full"}] /\ ledger \subseteq Orders /\ \A o \in ledger : Had(o)
  BY DEF DrainSafe, DrainTypeOK
<1>4. \A n \in {1, Cap} : /\ FailedAfter(r, n)[1] = r /\ FailedAfter(r, n)[2].st = "error"
                          /\ FailedAfter(r, n)[2] \in RowType
  BY <1>2, MarkSays DEF FailedAfter
<1>5. Processed(r)[1] = r /\ Processed(r)[2].st = "processed" /\ Processed(r)[2] \in RowType
  BY <1>2, MarkSays DEF Processed
<1>6. CASE Existing(r)
  <2>1. PICK m : m = Processed(r) /\ Lane(r, m)
    BY <1>6 DEF Existing
  <2>2. UNCHANGED <<hs, incomplete>> /\ ledger' = ledger \cup {OrderOf[r]} /\ Had(OrderOf[r])'
    BY <1>3, <1>6, HadSame DEF Existing, Complete, Had
  <2>3. HsKept /\ \A o : Had(o)' <=> Had(o)
    BY <2>2, HadSame
  <2>4. ledger' \subseteq Orders /\ (\A o \in ledger' : Had(o)') /\ hs' \in [Orders -> {"none", "partial", "full"}]
    BY <1>1, <1>3, <2>2, <2>3
  <2> QED  BY <1>5, <2>1, <2>2, <2>3, <2>4, LaneSafe
<1>7. CASE Partial(r) \/ Parked(r)
  <2>1. PICK n \in {1, Cap} : Lane(r, FailedAfter(r, n))
    BY <1>7 DEF Partial, Parked, Failed
  <2>2. PICK m : m = FailedAfter(r, n) /\ Lane(r, m)
    BY <2>1
  <2>3. UNCHANGED <<hs, incomplete, ledger>> /\ HsKept /\ \A o : Had(o)' <=> Had(o)
    BY <1>7, HadSame DEF Partial, Parked
  <2>4. m[1] = r /\ m[2].st = "error" /\ m[2] \in RowType
    BY <1>4, <2>2
  <2> QED  BY <1>3, <2>2, <2>3, <2>4, LaneSafe
<1>8. CASE Rekeyed(r)
  <2>1. UNCHANGED <<log, hs, ledger, incomplete, base, twins, marks>>
    BY <1>8 DEF Rekeyed, sheet
  <2>2. base' \in [Rows -> 0..Cap]
    BY <2>1 DEF DrainSafe, DrainTypeOK
  <2> QED  BY <2>1, <2>2, QuietSafe
<1>9. CASE Blocked(r)
  <2> DEFINE keys == {KeyOf(p) : p \in Blockers(OrderOf[r])}
  <2>1. PICK m : m = Mark(r, "queued", Upto(log[r].att + 1), "blocked", keys) /\ Lane(r, m)
    BY <1>9 DEF Blocked
  <2>2. keys \in SUBSET (GateForms \X Products)
    BY <1>1, KeysOfGate, DrainAssumption DEF Blockers
  <2> HIDE DEF keys
  <2>3. m[1] = r /\ m[2].st = "queued" /\ m[2] \in RowType
    BY <1>2, <2>1, <2>2, MarkSays
  <2>4. UNCHANGED <<hs, incomplete, ledger>> /\ HsKept /\ \A o : Had(o)' <=> Had(o)
    BY <1>9, HadSame DEF Blocked
  <2> QED  BY <1>3, <2>1, <2>3, <2>4, LaneSafe
<1>10. CASE Create(r) \/ CreateShort(r)
  <2>1. PICK m : m = Processed(r) /\ Lane(r, m)
    BY <1>10 DEF Create, CreateShort
  <2>2. hs[OrderOf[r]] = "none" /\ ledger' \subseteq ledger \cup {OrderOf[r]}
    BY <1>10 DEF Create, CreateShort, New
  <2>3. /\ incomplete \subseteq incomplete'
        /\ \/ hs' = [hs EXCEPT ![OrderOf[r]] = "full"]
           \/ hs' = [hs EXCEPT ![OrderOf[r]] = "partial"] /\ OrderOf[r] \in incomplete'
    BY <1>10 DEF Create, CreateShort
  <2>4. hs' \in [Orders -> {"none", "partial", "full"}] /\ \A o \in Orders : o # OrderOf[r] => hs'[o] = hs[o]
    BY <1>1, <1>3, <2>3
  <2>5. Had(OrderOf[r])'
    BY <1>1, <1>3, <2>3 DEF Had
  <2>6. HsKept
    BY <2>3, <2>4, <2>5 DEF HsKept, Had
  <2>7. ledger' \subseteq Orders /\ \A o \in ledger' : Had(o)'
    BY <1>1, <1>3, <2>2, <2>5, <2>6 DEF HsKept
  <2> QED  BY <1>5, <2>1, <2>4, <2>5, <2>6, <2>7, LaneSafe
<1>11. CASE CreateFails(r)
  <2>1. PICK m : m = FailedAfter(r, 1) /\ Lane(r, m)
    BY <1>11 DEF CreateFails, Failed
  <2>2. PICK left \in {"none", "partial", "full"} : hs' = [hs EXCEPT ![OrderOf[r]] = left]
    BY <1>11 DEF CreateFails
  <2>3. ledger' = ledger /\ incomplete' = incomplete /\ hs[OrderOf[r]] = "none"
    BY <1>11 DEF CreateFails, New
  <2>4. hs' \in [Orders -> {"none", "partial", "full"}] /\ \A o \in Orders : o # OrderOf[r] => hs'[o] = hs[o]
    BY <1>1, <1>3, <2>2
  <2>5. HsKept
    BY <2>3, <2>4 DEF HsKept, Had
  <2>6. ledger' \subseteq Orders /\ \A o \in ledger' : Had(o)'
    BY <1>3, <2>3, <2>5 DEF HsKept
  <2>7. m[1] = r /\ m[2].st = "error" /\ m[2] \in RowType
    BY <1>4, <2>1
  <2> QED  BY <2>1, <2>4, <2>5, <2>6, <2>7, LaneSafe
<1> QED  BY <1>6, <1>7, <1>8, <1>9, <1>10, <1>11 DEF LaneStep

\* Twins are closed; the row that answers for each of them stays as it is.
LEMMA MarkTwinsSafe == ASSUME DrainSafe, MarkTwins PROVE DrainSafe'
<1>1. /\ UNCHANGED <<hs, ledger, incomplete, marks>> /\ twins' = {} /\ base' = [r \in Rows |-> 0]
      /\ log' = log \/ log' = Written(TwinMarks)
  BY DEF MarkTwins, WriteOrLose, Write, sheet
<1>2. base' \in [Rows -> 0..Cap]
  BY <1>1, DrainAssumption
<1>3. CASE log' = log
  BY <1>1, <1>2, <1>3, QuietSafe
<1>4. CASE log' = Written(TwinMarks)
  <2>1. ASSUME NEW r \in Rows
        PROVE  /\ r \notin twins => log'[r] = log[r]
               /\ r \in twins => log'[r] \in RowType
    <3>1. \A m \in TwinMarks : m[1] \in twins
      BY MarkSays DEF TwinMarks
    <3>2. ASSUME NEW m \in TwinMarks, m[1] = r PROVE m[2] \in RowType
      <4>1. PICK t \in twins : m = Mark(t, "duplicate", log[t].att, log[t].note, log[t].keys)
        BY DEF TwinMarks
      <4>2. t = r /\ log[r] \in RowType
        BY <3>2, <4>1, MarkSays DEF DrainSafe, DrainTypeOK
      <4> QED  BY <4>1, <4>2, MarkSays DEF RowType
    <3>3. r \in twins => \E m \in TwinMarks : m[1] = r
      BY MarkSays DEF TwinMarks
    <3> QED  BY <1>4, <3>1, <3>2, <3>3, WrittenRows
  <2>2. log' \in [Rows -> RowType]
    <3>1. \A r \in Rows : log'[r] \in RowType
      BY <2>1 DEF DrainSafe, DrainTypeOK
    <3> QED  BY <1>4, <3>1, WrittenRows
  <2>3. DrainTypeOK' /\ MarksTrue' /\ TwinsAnswered'
    BY <1>1, <1>2, <2>2, HadSame DEF DrainSafe, DrainTypeOK, MarksTrue, MarkTrue, TwinsAnswered
  <2>4. \A q \in Rows \ twins : (Closed(q)' <=> Closed(q)) /\ log'[q].st = log[q].st
    BY <2>1 DEF Closed
  <2>5. NoneDropped'
    <3> SUFFICES ASSUME NEW r \in Rows, Closed(r)', ~Had(OrderOf[r])
                 PROVE  \E q \in Rows : OrderOf[q] = OrderOf[r] /\ ~Closed(q)' /\ log'[q].st # "none"
      BY <1>1, HadSame DEF NoneDropped
    <3>1. ASSUME NEW t \in twins \cap Rows, OrderOf[t] = OrderOf[r]
          PROVE  \E q \in Rows : OrderOf[q] = OrderOf[r] /\ ~Closed(q)' /\ log'[q].st # "none"
      <4>1. PICK q \in Rows \ twins : OrderOf[q] = OrderOf[t] /\ Answers(q)
        BY DEF DrainSafe, TwinsAnswered
      <4>2. ~Closed(q) /\ log[q].st # "none"
        BY <3>1, <4>1 DEF Answers
      <4> QED  BY <2>4, <3>1, <4>1, <4>2
    <3>2. CASE r \in twins
      BY <3>1, <3>2
    <3>3. CASE r \notin twins
      <4>1. PICK q \in Rows : OrderOf[q] = OrderOf[r] /\ ~Closed(q) /\ log[q].st # "none"
        BY <2>4, <3>3 DEF DrainSafe, NoneDropped
      <4> QED  BY <2>4, <3>1, <4>1
    <3> QED  BY <3>2, <3>3
  <2> QED  BY <2>3, <2>5 DEF DrainSafe
<1> QED  BY <1>1, <1>3, <1>4

\* The steps that write nothing and mark nothing.
LEMMA OtherStepsSafe ==
  ASSUME DrainSafe,
         Catalog \/ SkipAge \/ Filter \/ RelayDown \/ StopFile \/ WavesOver \/ Kill \/ UNCHANGED vars
  PROVE  DrainSafe'
<1>1. CASE Kill
  <2>1. UNCHANGED <<log, hs, ledger, incomplete>> /\ marks' = {} /\ twins' = {} /\ base' = [r \in Rows |-> 0]
    BY <1>1 DEF Kill, sheet
  <2>2. base' \in [Rows -> 0..Cap]
    BY <2>1, DrainAssumption
  <2> QED  BY <2>1, <2>2, QuietSafe
<1>2. CASE Catalog \/ SkipAge \/ Filter \/ RelayDown \/ StopFile \/ WavesOver \/ UNCHANGED vars
  <2>1. UNCHANGED <<log, hs, ledger, incomplete, base, marks, twins>>
    BY <1>2 DEF Catalog, SkipAge, Filter, RelayDown, StopFile, WavesOver, vars, sheet
  <2>2. base' \in [Rows -> 0..Cap]
    BY <2>1 DEF DrainSafe, DrainTypeOK
  <2> QED  BY <2>1, <2>2, QuietSafe
<1> QED  BY <1>1, <1>2

\* No step of the drain leaves the invariant.
LEMMA DrainStepSafe == DrainSafe /\ [Next]_vars => DrainSafe'
<1> SUFFICES ASSUME DrainSafe, [Next]_vars PROVE DrainSafe'
  OBVIOUS
<1>1. CASE \E r \in Rows : Arrive(r)
  BY <1>1, ArriveSafe
<1>2. CASE Pass
  BY <1>2, StartSafe, MarksWrittenSafe, FetchSafe, LaneStepSafe, MarkTwinsSafe, OtherStepsSafe DEF Pass
<1>3. CASE Catalog \/ SkipAge \/ RelayDown \/ StopFile \/ Kill \/ UNCHANGED vars
  BY <1>3, OtherStepsSafe
<1> QED  BY <1>1, <1>2, <1>3 DEF Next

\* No held order falls out of the Queue Log: for every set of orders, products and
\* rows, however many rows an order has and whatever is lost, stopped or killed, a
\* row that is closed belongs to an order HubSpot has, whole or without an item
\* that failed as the order was created, or to one that another row stands for.
THEOREM NoneDroppedHolds == Spec => []NoneDropped
<1>1. DrainSafe => NoneDropped
  BY DEF DrainSafe
<1> QED  BY DrainInitSafe, DrainStepSafe, <1>1, PTL DEF Spec

-----------------------------------------------------------------------------
(***************************************************************************)
(* The customer sync and its daily sweep.                                  *)
(***************************************************************************)

\* A customer with a contact; one who has a contact or an open row.
Held(c) == holder[c] # "none"
OpenRow(c) == \E r \in DOMAIN crows : crows[r].cust = c /\ crows[r].st \in Open
Acct(c) == Held(c) \/ OpenRow(c)

\* The rows of the Customer Queue, and what each part of the state is.
CustRowType == [cust : Customer, st : Open \cup {"done", "superseded"}, att : Nat,
                src : {"make", "sweep"}]
WorkerType == [pc : {"idle", "search", "merge", "create", "patch", "patchSpare", "record", "mark"},
               row : Nat, out : {"none", "superseded", "done", "error"}, known : SUBSET Customer]
SweepType == [pc : {"idle", "due", "days", "append"}, known : SUBSET Customer,
              days : SUBSET (1..CustDays), day : 0..CustDays, missing : SUBSET Customer]
CustTypeOK ==
    /\ today \in 1..CustDays
    /\ born \in [Customer -> Nat] /\ \A c \in Customer : born[c] <= today
    /\ crows \in Seq(CustRowType)
    /\ holder \in [Customer -> Customer \cup {"none", "other"}]
    /\ custFile \subseteq Customer
    /\ worker \in [Worker -> WorkerType]
    /\ sweep \in SweepType
    /\ unswept \in [1..CustDays -> Nat]

\* A worker at a row never forgets which, and settles it as synced only when
\* its customer has a contact; so has everybody in the ledgers.
WorkerKnows(w) ==
    /\ \A c \in worker[w].known : Held(c)
    /\ worker[w].pc # "idle" => worker[w].row \in DOMAIN crows
    /\ worker[w].pc = "record" => worker[w].out = "done" /\ Held(CustOf(w))
    /\ worker[w].pc = "mark" => worker[w].out # "none" /\ (worker[w].out # "error" => Held(CustOf(w)))
LedgersHeld == (\A c \in custFile : Held(c)) /\ (\A w \in Worker : WorkerKnows(w))

\* What the sweep goes by: the customers it knows are accounted for, the days
\* it has left have ended, and a day it has looked at misses nobody but those
\* on its list.
SweepKnows ==
    /\ \A c \in sweep.known : Acct(c)
    /\ sweep.days \subseteq SweepDays
    /\ sweep.pc \in {"idle", "due"} => sweep.days = {}
    /\ sweep.pc = "append" => /\ sweep.day \in sweep.days
                              /\ \A c \in Customer : born[c] = sweep.day => c \in sweep.missing \/ Acct(c)

\* The days the run of today has still to cover, and the runs that are over
\* for day d: none, one or both.
Pending == IF sweep.pc = "due" THEN SweepDays ELSE sweep.days
RunsOver(d) == (IF today > d THEN 1 ELSE 0) + (IF today > d + 1 THEN 1 ELSE 0)
                  - (IF d \in Pending THEN 1 ELSE 0)
Covered(d) == \A c \in Customer : born[c] = d => Acct(c)
DaysCounted == \A d \in 1..CustDays : Covered(d) \/ unswept[d] >= RunsOver(d)

\* The inductive invariant of the customer sync and its sweep.
CustSafe == CustTypeOK /\ LedgersHeld /\ SweepKnows /\ DaysCounted

\* What every step keeps: a contact stays, and so does being accounted for.
HeldKept == \A c \in Customer : Held(c) => Held(c)'
AcctKept == \A c \in Customer : Acct(c) => Acct(c)'

\* The rows of the queue are customers' rows.
LEMMA RowIsRow ==
  ASSUME CustTypeOK
  PROVE  /\ DOMAIN crows = 1..Len(crows) /\ Len(crows) \in Nat
         /\ \A r \in DOMAIN crows : crows[r] \in CustRowType
  BY LenProperties, ElementOfSeq DEF CustTypeOK

\* SetToSeq lists every member of a finite set.
LEMMA SetToSeqLists ==
  ASSUME NEW S, IsFiniteSet(S)
  PROVE  /\ Cardinality(S) \in Nat
         /\ SetToSeq(S) \in [1..Cardinality(S) -> S]
         /\ \A x \in S : \E i \in 1..Cardinality(S) : SetToSeq(S)[i] = x
<1> DEFINE n == Cardinality(S)
<1>1. n \in Nat /\ ExistsBijection(1..n, S)
  BY FS_CardinalityType
<1> HIDE DEF n
<1>2. \E f \in [1..n -> S] : IsInjective(f)
  BY <1>1 DEF ExistsBijection, Bijection, Injection
<1> DEFINE g == SetToSeq(S)
<1>3. g \in [1..n -> S] /\ IsInjective(g)
  <2>1. g = CHOOSE f \in [1..n -> S] : IsInjective(f)
    BY DEF SetToSeq, n
  <2> HIDE DEF g
  <2> QED  BY <1>2, <2>1
<1> HIDE DEF g
<1>4. IsFiniteSet(1..n) /\ Cardinality(1..n) = n
  BY <1>1, FS_Interval
<1>5. g \in Injection(1..n, S)
  BY <1>3 DEF Injection
<1>6. g \in Surjection(1..n, S)
  BY <1>4, <1>5, FS_Injection DEF n
<1> QED
  BY <1>1, <1>3, <1>6 DEF Surjection, n, g

\* The queue with the sweep's rows: the rows it had, and one for each customer
\* that is missing.
LEMMA QueuedRows ==
  ASSUME CustTypeOK
  PROVE  /\ Queued \in Seq(CustRowType)
         /\ \A r \in DOMAIN crows : r \in DOMAIN Queued /\ Queued[r] = crows[r]
         /\ \A c \in sweep.missing : \E r \in DOMAIN Queued : Queued[r].cust = c /\ Queued[r].st \in Open
<1> DEFINE S == sweep.missing
           n == Cardinality(S)
           e(i) == CustRow(SetToSeq(S)[i], "sweep")
           more == [i \in 1..n |-> e(i)]
<1>1. S \subseteq Customer /\ IsFiniteSet(S)
  BY CustomerAssumption, FS_Subset DEF CustTypeOK, SweepType
<1>2. /\ n \in Nat /\ SetToSeq(S) \in [1..n -> S]
      /\ \A x \in S : \E i \in 1..n : SetToSeq(S)[i] = x
  BY <1>1, SetToSeqLists
<1>3. \A i \in 1..n : e(i) \in CustRowType
  BY <1>1, <1>2 DEF CustRow, CustRowType, Open
<1>4. more \in Seq(CustRowType) /\ Len(more) = n
  <2> HIDE DEF e
  <2> QED  BY <1>2, <1>3, IsASeq
<1>5. crows \in Seq(CustRowType)
  BY DEF CustTypeOK
<1>6. Queued = crows \o more
  BY DEF Queued
<1> HIDE DEF more
<1>7. /\ Queued \in Seq(CustRowType) /\ Len(Queued) = Len(crows) + n
      /\ \A i \in 1..(Len(crows) + n) :
            Queued[i] = IF i <= Len(crows) THEN crows[i] ELSE more[i - Len(crows)]
  BY <1>4, <1>5, <1>6, ConcatProperties
<1>8. Len(crows) \in Nat /\ DOMAIN crows = 1..Len(crows) /\ DOMAIN Queued = 1..(Len(crows) + n)
  BY <1>5, <1>7, LenProperties
<1>9. ASSUME NEW c \in S
      PROVE  \E r \in DOMAIN Queued : Queued[r].cust = c /\ Queued[r].st \in Open
  <2>1. PICK i \in 1..n : SetToSeq(S)[i] = c
    BY <1>2
  <2>2. more[i] = CustRow(c, "sweep")
    BY <2>1 DEF more
  <2>3. Len(crows) + i \in DOMAIN Queued /\ Queued[Len(crows) + i] = more[i]
    BY <1>2, <1>7, <1>8
  <2>4. more[i].cust = c /\ more[i].st \in Open
    BY <2>2 DEF CustRow, Open
  <2> QED  BY <2>3, <2>4
<1> QED
  BY <1>2, <1>7, <1>8, <1>9

-----------------------------------------------------------------------------
\* Rows that keep their customer and stay what they are keep who is accounted.
LEMMA RowsKept ==
  ASSUME CustTypeOK, HeldKept,
         \A r \in DOMAIN crows : r \in DOMAIN crows' /\ crows'[r] = crows[r]
  PROVE  AcctKept
<1> SUFFICES ASSUME NEW c \in Customer, Acct(c) PROVE Acct(c)'
  BY DEF AcctKept
<1>1. CASE Held(c)
  BY <1>1 DEF HeldKept, Acct
<1>2. CASE OpenRow(c)
  <2>1. PICK r \in DOMAIN crows : crows[r].cust = c /\ crows[r].st \in Open
    BY <1>2 DEF OpenRow
  <2>2. r \in DOMAIN crows' /\ crows'[r].cust = c /\ crows'[r].st \in Open
    BY <2>1
  <2> QED  BY <2>2 DEF Acct, OpenRow
<1> QED  BY <1>1, <1>2 DEF Acct

\* A step that leaves the calendar and the sweep alone keeps what they know.
LEMMA SweepPartKept ==
  ASSUME CustSafe, AcctKept, UNCHANGED <<today, born, sweep, unswept>>
  PROVE  SweepKnows' /\ DaysCounted'
<1>1. \A c \in sweep.known : c \in Customer
  BY DEF CustSafe, CustTypeOK, SweepType
<1>2. SweepDays' = SweepDays /\ Pending' = Pending
  BY DEF SweepDays, Pending
<1>3. SweepKnows'
  BY <1>1, <1>2 DEF CustSafe, SweepKnows, AcctKept
<1>4. \A d \in 1..CustDays : RunsOver(d)' = RunsOver(d) /\ (Covered(d) => Covered(d)')
  BY <1>2 DEF RunsOver, Covered, AcctKept
<1>5. DaysCounted'
  BY <1>4 DEF CustSafe, DaysCounted
<1> QED  BY <1>3, <1>5

\* Workers that do nothing know what they knew.
LEMMA WorkersKept ==
  ASSUME CustSafe, HeldKept, UNCHANGED worker, CustTypeOK',
         \A r \in DOMAIN crows : r \in DOMAIN crows' /\ crows'[r].cust = crows[r].cust
  PROVE  \A w \in Worker : WorkerKnows(w)'
<1> TAKE w \in Worker
<1>1. WorkerKnows(w) /\ worker[w].known \subseteq Customer
  BY DEF CustSafe, LedgersHeld, CustTypeOK, WorkerType
<1>2. worker[w].pc # "idle" => CustOf(w)' = CustOf(w) /\ CustOf(w) \in Customer
  BY <1>1, RowIsRow DEF CustOf, WorkerKnows, CustSafe, CustRowType
<1> QED
  BY <1>1, <1>2 DEF WorkerKnows, HeldKept

\* So do all but the one that acts.
LEMMA OneWorker ==
  ASSUME CustSafe, HeldKept, NEW w \in Worker, NEW k,
         worker' = [worker EXCEPT ![w] = k], WorkerKnows(w)', CustTypeOK',
         \A r \in DOMAIN crows : r \in DOMAIN crows' /\ crows'[r].cust = crows[r].cust
  PROVE  \A v \in Worker : WorkerKnows(v)'
<1> TAKE v \in Worker
<1>1. CASE v = w
  BY <1>1
<1>2. CASE v # w
  <2>1. WorkerKnows(v) /\ worker[v].known \subseteq Customer
    BY DEF CustSafe, LedgersHeld, CustTypeOK, WorkerType
  <2>2. worker[v].pc # "idle" => CustOf(v)' = CustOf(v) /\ CustOf(v) \in Customer
    BY <1>2, <2>1, RowIsRow DEF CustOf, WorkerKnows, CustSafe, CustRowType, CustTypeOK
  <2>3. worker'[v] = worker[v]
    BY <1>2 DEF CustSafe, CustTypeOK
  <2> QED
    BY <2>1, <2>2, <2>3 DEF WorkerKnows, HeldKept
<1> QED  BY <1>1, <1>2

\* The customer of a worker that is at a row.
LEMMA CustOfIsCustomer ==
  ASSUME CustSafe, NEW w \in Worker, worker[w].pc # "idle"
  PROVE  worker[w].row \in DOMAIN crows /\ CustOf(w) \in Customer
<1>1. worker[w].row \in DOMAIN crows
  BY DEF CustSafe, LedgersHeld, WorkerKnows
<1> QED
  BY <1>1, RowIsRow DEF CustSafe, CustOf, CustRowType

\* A worker's step that writes neither rows, calendar nor sweep is safe when
\* its own record and the contacts are.
LEMMA WorkerStepSafe ==
  ASSUME CustSafe, NEW w \in Worker, NEW k \in WorkerType,
         worker' = [worker EXCEPT ![w] = k],
         holder' \in [Customer -> Customer \cup {"none", "other"}], HeldKept,
         custFile' \subseteq Customer, \A c \in custFile' : Held(c)',
         WorkerKnows(w)',
         UNCHANGED <<today, born, crows, sweep, unswept>>
  PROVE  CustSafe'
<1>1. CustTypeOK'
  BY DEF CustSafe, CustTypeOK
<1>2. AcctKept
  BY RowsKept DEF CustSafe
<1>3. SweepKnows' /\ DaysCounted'
  BY <1>2, SweepPartKept
<1>4. \A v \in Worker : WorkerKnows(v)'
  BY <1>1, OneWorker
<1> QED
  BY <1>1, <1>3, <1>4 DEF CustSafe, LedgersHeld

\* The initial state: nobody has registered.
LEMMA CustInitSafe == CustInit => CustSafe
<1> SUFFICES ASSUME CustInit PROVE CustSafe
  OBVIOUS
<1> USE CustomerAssumption
<1>1. CustTypeOK
  BY EmptySeq DEF CustInit, CustTypeOK, NoWork, NoSweep, WorkerType, SweepType
<1>2. LedgersHeld
  BY DEF CustInit, LedgersHeld, WorkerKnows, NoWork
<1>3. SweepKnows
  BY DEF CustInit, SweepKnows, NoSweep
<1>4. DaysCounted
  BY DEF CustInit, DaysCounted, Covered
<1> QED
  BY <1>1, <1>2, <1>3, <1>4 DEF CustSafe

\* The worker's reads: a claim, and the search.
LEMMA ClaimCustSafe ==
  ASSUME CustSafe, NEW w \in Worker, NEW r \in DOMAIN crows, ClaimCust(w, r)
  PROVE  CustSafe'
<1> DEFINE known == KnownTo(w)
           k == [pc |-> IF crows[r].cust \in known THEN "mark" ELSE "search", row |-> r,
                 out |-> "superseded", known |-> known]
<1>1. known \subseteq Customer /\ \A c \in known : Held(c)
  BY DEF KnownTo, CustSafe, CustTypeOK, LedgersHeld, WorkerKnows, WorkerType
<1>2. r \in Nat
  BY RowIsRow DEF CustSafe
<1> HIDE DEF known
<1>3. k \in WorkerType
  BY <1>1, <1>2 DEF WorkerType
<1>4. worker' = [worker EXCEPT ![w] = k] /\ UNCHANGED <<today, born, crows, holder, custFile, sweep, unswept>>
  BY DEF ClaimCust, known, hubspot
<1>5. worker'[w] = k
  BY <1>4 DEF CustSafe, CustTypeOK
<1>6. WorkerKnows(w)'
  BY <1>1, <1>4, <1>5 DEF WorkerKnows, CustOf, Held
<1> HIDE DEF k
<1> QED
  BY <1>3, <1>4, <1>6, WorkerStepSafe DEF CustSafe, CustTypeOK, HeldKept, Held, LedgersHeld

\* What a worker becomes that goes on to a stage with outcome out.
LEMMA GoEffect ==
  ASSUME CustSafe, NEW w \in Worker, NEW stage, NEW out, Go(w, stage, out)
  PROVE  /\ worker' = [worker EXCEPT ![w] = [pc |-> stage, row |-> worker[w].row, out |-> out,
                                            known |-> worker[w].known]]
         /\ worker'[w] = [pc |-> stage, row |-> worker[w].row, out |-> out, known |-> worker[w].known]
         /\ worker[w].row \in Nat /\ worker[w].known \subseteq Customer
         /\ \A c \in worker[w].known : Held(c)
<1>1. worker[w] \in WorkerType /\ worker \in [Worker -> WorkerType]
  BY DEF CustSafe, CustTypeOK
<1>2. worker' = [worker EXCEPT ![w] = [worker[w] EXCEPT !.pc = stage, !.out = out]]
  BY DEF Go
<1>3. worker' = [worker EXCEPT ![w] = [pc |-> stage, row |-> worker[w].row, out |-> out,
                                       known |-> worker[w].known]]
  <2>1. [worker[w] EXCEPT !.pc = stage, !.out = out]
          = [pc |-> stage, row |-> worker[w].row, out |-> out, known |-> worker[w].known]
    <3> DEFINE m == [worker[w] EXCEPT !.pc = stage]
    <3>1. [worker[w] EXCEPT !.pc = stage, !.out = out] = [m EXCEPT !.out = out]
      OBVIOUS
    <3>2. m = [pc |-> stage, row |-> worker[w].row, out |-> worker[w].out, known |-> worker[w].known]
      BY <1>1 DEF WorkerType
    <3> HIDE DEF m
    <3>3. [m EXCEPT !.out = out]
            = [pc |-> stage, row |-> worker[w].row, out |-> out, known |-> worker[w].known]
      BY <3>2
    <3> QED  BY <3>1, <3>3
  <2> QED  BY <1>2, <2>1
<1> QED
  BY <1>1, <1>3 DEF WorkerType, CustSafe, LedgersHeld, WorkerKnows

\* A search decides nothing yet.
LEMMA SearchCustSafe ==
  ASSUME CustSafe, NEW w \in Worker, SearchCust(w)
  PROVE  CustSafe'
<1>1. PICK stage \in {"merge", "patch", "patchSpare", "create"} : Go(w, stage, "none")
  BY DEF SearchCust
<1> DEFINE k == [pc |-> stage, row |-> worker[w].row, out |-> "none", known |-> worker[w].known]
<1>2. /\ worker' = [worker EXCEPT ![w] = k] /\ worker'[w] = k
      /\ worker[w].row \in Nat /\ worker[w].known \subseteq Customer
      /\ \A c \in worker[w].known : Held(c)
  BY <1>1, GoEffect
<1>3. /\ UNCHANGED <<today, born, crows, holder, custFile, sweep, unswept>>
      /\ worker[w].pc = "search" /\ worker[w].row \in DOMAIN crows
  BY CustOfIsCustomer DEF SearchCust, hubspot
<1>4. k \in WorkerType
  BY <1>2 DEF WorkerType
<1>5. WorkerKnows(w)'
  BY <1>2, <1>3 DEF WorkerKnows, Held
<1> HIDE DEF k
<1> QED
  BY <1>2, <1>3, <1>4, <1>5, WorkerStepSafe DEF CustSafe, CustTypeOK, HeldKept, Held, LedgersHeld

\* A merge joins two contacts of the customer.
LEMMA MergeSafe ==
  ASSUME CustSafe, NEW w \in Worker, Merge(w)
  PROVE  CustSafe'
<1> DEFINE k == [pc |-> "patch", row |-> worker[w].row, out |-> "none", known |-> worker[w].known]
<1>1. Go(w, "patch", "none")
  BY DEF Merge
<1>2. /\ worker' = [worker EXCEPT ![w] = k] /\ worker'[w] = k
      /\ worker[w].row \in Nat /\ worker[w].known \subseteq Customer
      /\ \A c \in worker[w].known : Held(c)
  BY <1>1, GoEffect
<1>3. /\ UNCHANGED <<today, born, crows, holder, custFile, sweep, unswept>>
      /\ worker[w].pc = "merge" /\ worker[w].row \in DOMAIN crows
  BY CustOfIsCustomer DEF Merge
<1>4. k \in WorkerType
  BY <1>2 DEF WorkerType
<1>5. WorkerKnows(w)'
  BY <1>2, <1>3 DEF WorkerKnows, Held
<1> HIDE DEF k
<1> QED
  BY <1>2, <1>3, <1>4, <1>5, WorkerStepSafe DEF CustSafe, CustTypeOK, HeldKept, Held, LedgersHeld

\* The write: a contact with the customer's id, or a refusal.
LEMMA WriteContactSafe ==
  ASSUME CustSafe, NEW w \in Worker, WriteContact(w)
  PROVE  CustSafe'
<1> USE CustomerAssumption
<1> DEFINE c == CustOf(w)
<1>0. worker[w].pc \in {"create", "patch", "patchSpare"} /\ UNCHANGED <<today, born, crows, custFile, sweep, unswept>>
  BY DEF WriteContact
<1>1. c \in Customer /\ worker[w].row \in DOMAIN crows
  BY <1>0, CustOfIsCustomer
<1>2. \/ Go(w, "mark", "error") /\ UNCHANGED holder
      \/ Go(w, "record", "done") /\ holder' = [holder EXCEPT ![c] = c]
  BY DEF WriteContact
<1>3. PICK stage \in {"mark", "record"}, out \in {"error", "done"} :
         Go(w, stage, out) /\ (stage = "mark" => out = "error") /\ (stage = "record" => out = "done" /\ holder' = [holder EXCEPT ![c] = c])
         /\ (stage = "mark" => UNCHANGED holder)
  BY <1>2
<1> DEFINE k == [pc |-> stage, row |-> worker[w].row, out |-> out, known |-> worker[w].known]
<1>4. /\ worker' = [worker EXCEPT ![w] = k] /\ worker'[w] = k
      /\ worker[w].row \in Nat /\ worker[w].known \subseteq Customer
      /\ \A d \in worker[w].known : Held(d)
  BY <1>3, GoEffect
<1>5. k \in WorkerType
  BY <1>4 DEF WorkerType
<1>6. holder' \in [Customer -> Customer \cup {"none", "other"}] /\ HeldKept
      /\ (stage = "record" => holder'[c] = c)
  BY <1>1, <1>3 DEF CustSafe, CustTypeOK, HeldKept, Held
<1>7. CustOf(w)' = c
  BY <1>0, <1>4 DEF CustOf
<1>8. \A d \in worker[w].known : Held(d)'
  BY <1>4, <1>6 DEF HeldKept
<1> HIDE DEF c
<1>9. WorkerKnows(w)'
  BY <1>0, <1>1, <1>3, <1>4, <1>6, <1>7, <1>8 DEF WorkerKnows, Held
<1>10. custFile' \subseteq Customer /\ \A d \in custFile' : Held(d)'
  BY <1>0, <1>6 DEF CustSafe, CustTypeOK, LedgersHeld, HeldKept
<1> HIDE DEF k
<1> QED
  BY <1>0, <1>4, <1>5, <1>6, <1>9, <1>10, WorkerStepSafe

\* A failing call, with or without a contact to show for it.
LEMMA CustCallFailsSafe ==
  ASSUME CustSafe, NEW w \in Worker, CustCallFails(w)
  PROVE  CustSafe'
<1> USE CustomerAssumption
<1> DEFINE c == CustOf(w)
<1> DEFINE k == [pc |-> "mark", row |-> worker[w].row, out |-> "error", known |-> worker[w].known]
<1>0. worker[w].pc # "idle" /\ UNCHANGED <<today, born, crows, custFile, sweep, unswept>>
      /\ Go(w, "mark", "error")
  BY DEF CustCallFails
<1>1. c \in Customer /\ worker[w].row \in DOMAIN crows
  BY <1>0, CustOfIsCustomer
<1>2. UNCHANGED holder \/ holder' = [holder EXCEPT ![c] = c]
  BY DEF CustCallFails, hubspot
<1>4. /\ worker' = [worker EXCEPT ![w] = k] /\ worker'[w] = k
      /\ worker[w].row \in Nat /\ worker[w].known \subseteq Customer
      /\ \A d \in worker[w].known : Held(d)
  BY <1>0, GoEffect
<1>5. k \in WorkerType
  BY <1>4 DEF WorkerType
<1>6. holder' \in [Customer -> Customer \cup {"none", "other"}] /\ HeldKept
  BY <1>1, <1>2 DEF CustSafe, CustTypeOK, HeldKept, Held
<1>8. \A d \in worker[w].known : Held(d)'
  BY <1>4, <1>6 DEF HeldKept
<1>9. WorkerKnows(w)'
  BY <1>0, <1>1, <1>4, <1>8 DEF WorkerKnows
<1>10. custFile' \subseteq Customer /\ \A d \in custFile' : Held(d)'
  BY <1>0, <1>6 DEF CustSafe, CustTypeOK, LedgersHeld, HeldKept
<1> HIDE DEF k
<1> QED
  BY <1>0, <1>4, <1>5, <1>6, <1>9, <1>10, WorkerStepSafe

\* The ledger gets a customer that has a contact.
LEMMA RecordCustSafe ==
  ASSUME CustSafe, NEW w \in Worker, RecordCust(w)
  PROVE  CustSafe'
<1> DEFINE c == CustOf(w)
<1> DEFINE k == [pc |-> "mark", row |-> worker[w].row, out |-> worker[w].out,
                 known |-> worker[w].known \cup {c}]
<1>0. worker[w].pc = "record" /\ UNCHANGED <<today, born, crows, holder, sweep, unswept>>
      /\ custFile' = custFile \cup {c}
  BY DEF RecordCust, hubspot
<1>1. c \in Customer /\ worker[w].row \in DOMAIN crows /\ Held(c)
  BY <1>0, CustOfIsCustomer DEF CustSafe, LedgersHeld, WorkerKnows
<1>2. worker[w] \in WorkerType /\ worker \in [Worker -> WorkerType] /\ worker[w].row \in Nat
  BY DEF CustSafe, CustTypeOK, WorkerType
<1>3. worker' = [worker EXCEPT ![w] = k]
  <2>1. [worker[w] EXCEPT !.pc = "mark", !.known = worker[w].known \cup {c}] = k
    <3> DEFINE m == [worker[w] EXCEPT !.pc = "mark"]
    <3>1. [worker[w] EXCEPT !.pc = "mark", !.known = worker[w].known \cup {c}]
            = [m EXCEPT !.known = worker[w].known \cup {c}]
      OBVIOUS
    <3>2. m = [pc |-> "mark", row |-> worker[w].row, out |-> worker[w].out, known |-> worker[w].known]
      BY <1>2 DEF WorkerType
    <3> HIDE DEF m
    <3>3. [m EXCEPT !.known = worker[w].known \cup {c}] = k
      BY <3>2
    <3> QED  BY <3>1, <3>3
  <2>2. worker' = [worker EXCEPT ![w] = [worker[w] EXCEPT !.pc = "mark", !.known = worker[w].known \cup {c}]]
    BY DEF RecordCust
  <2> QED  BY <2>1, <2>2
<1>4. k \in WorkerType
  BY <1>1, <1>2 DEF WorkerType
<1>5. worker'[w] = k
  BY <1>2, <1>3
<1>6. worker[w].out = "done" /\ \A d \in worker[w].known : Held(d)
  BY <1>0 DEF CustSafe, LedgersHeld, WorkerKnows
<1>7. HeldKept /\ CustOf(w)' = c
  BY <1>0, <1>5 DEF HeldKept, Held, CustOf
<1>8. \A d \in worker[w].known \cup {c} : Held(d)'
  BY <1>0, <1>1, <1>6 DEF Held
<1> HIDE DEF c
<1>9. WorkerKnows(w)'
  BY <1>0, <1>1, <1>5, <1>6, <1>7, <1>8 DEF WorkerKnows
<1>10. custFile' \subseteq Customer /\ \A d \in custFile' : Held(d)'
  BY <1>0, <1>1 DEF CustSafe, CustTypeOK, LedgersHeld, Held
<1>11. holder' \in [Customer -> Customer \cup {"none", "other"}]
  BY <1>0 DEF CustSafe, CustTypeOK
<1> HIDE DEF k
<1> QED
  BY <1>0, <1>3, <1>4, <1>7, <1>9, <1>10, <1>11, WorkerStepSafe

\* The mark: a row is closed only when its customer has a contact.
LEMMA MarkCustSafe ==
  ASSUME CustSafe, NEW w \in Worker, MarkCust(w)
  PROVE  CustSafe'
<1> DEFINE r == worker[w].row
           row == crows[r]
           new == [row EXCEPT !.st = SettledAs(w, row),
                              !.att = IF w = "drain" THEN row.att ELSE row.att + 1]
           k == [NoWork EXCEPT !.known = IF w = "drain" THEN {} ELSE worker[w].known]
<1>1. /\ worker[w].pc = "mark" /\ crows' = [crows EXCEPT ![r] = new]
      /\ worker' = [worker EXCEPT ![w] = k]
      /\ UNCHANGED <<today, born, holder, custFile, sweep, unswept>>
  BY DEF MarkCust, hubspot
<1>2. r \in DOMAIN crows /\ row \in CustRowType /\ row.cust \in Customer /\ CustOf(w) = row.cust
  BY <1>1, CustOfIsCustomer, RowIsRow DEF CustSafe, CustOf
<1>3. worker[w].out \in {"superseded", "done", "error"} /\ (worker[w].out # "error" => Held(row.cust))
  BY <1>1, <1>2 DEF CustSafe, LedgersHeld, WorkerKnows, CustTypeOK, WorkerType
<1>4. SettledAs(w, row) \in Open \cup {"done", "superseded"}
      /\ (SettledAs(w, row) \in Open \/ Held(row.cust))
  BY <1>3 DEF SettledAs, Open
<1>5. new \in CustRowType /\ new.cust = row.cust /\ new.st = SettledAs(w, row)
  <2> DEFINE st == SettledAs(w, row)
             att == IF w = "drain" THEN row.att ELSE row.att + 1
             m == [row EXCEPT !.st = st]
  <2>1. new = [m EXCEPT !.att = att]
    OBVIOUS
  <2>2. att \in Nat
    BY <1>2 DEF CustRowType
  <2> HIDE DEF st, att
  <2>3. m = [cust |-> row.cust, st |-> st, att |-> row.att, src |-> row.src]
    BY <1>2 DEF CustRowType
  <2> HIDE DEF m
  <2>4. new = [cust |-> row.cust, st |-> st, att |-> att, src |-> row.src]
    BY <2>1, <2>3
  <2> HIDE DEF new
  <2> QED  BY <1>2, <1>4, <2>2, <2>4 DEF CustRowType, st
<1> HIDE DEF new
<1>6. crows' \in Seq(CustRowType) /\ DOMAIN crows' = DOMAIN crows
      /\ \A q \in DOMAIN crows : crows'[q] = IF q = r THEN new ELSE crows[q]
  <2>1. r \in 1..Len(crows) /\ crows \in Seq(CustRowType)
    BY <1>2, RowIsRow DEF CustSafe, CustTypeOK
  <2> QED  BY <1>1, <1>5, <2>1, ExceptSeq, LenProperties
<1>7. HeldKept
  BY <1>1 DEF HeldKept, Held
<1>8. AcctKept
  <2> SUFFICES ASSUME NEW c \in Customer, Acct(c) PROVE Acct(c)'
    BY DEF AcctKept
  <2>1. CASE Held(c)
    BY <2>1, <1>7 DEF HeldKept, Acct
  <2>2. CASE ~Held(c)
    <3>1. PICK q \in DOMAIN crows : crows[q].cust = c /\ crows[q].st \in Open
      BY <2>2 DEF Acct, OpenRow
    <3>2. crows'[q].cust = c /\ crows'[q].st \in Open
      BY <3>1, <2>2, <1>4, <1>5, <1>6
    <3> QED  BY <3>2, <1>6 DEF Acct, OpenRow
  <2> QED  BY <2>1, <2>2
<1>9. k \in WorkerType /\ k.pc = "idle" /\ k.known \subseteq worker[w].known
  BY DEF NoWork, WorkerType, CustSafe, CustTypeOK
<1> HIDE DEF k
<1>10. worker'[w] = k /\ worker' \in [Worker -> WorkerType]
  BY <1>1, <1>9 DEF CustSafe, CustTypeOK
<1>11. WorkerKnows(w)'
  BY <1>1, <1>9, <1>10 DEF WorkerKnows, CustSafe, LedgersHeld, Held
<1>12. CustTypeOK'
  BY <1>1, <1>6, <1>10 DEF CustSafe, CustTypeOK
<1>13. \A q \in DOMAIN crows : q \in DOMAIN crows' /\ crows'[q].cust = crows[q].cust
  BY <1>5, <1>6
<1>14. \A v \in Worker : WorkerKnows(v)'
  BY <1>1, <1>7, <1>11, <1>12, <1>13, OneWorker
<1>15. \A c \in custFile' : Held(c)'
  BY <1>1 DEF CustSafe, LedgersHeld, Held
<1>16. SweepKnows' /\ DaysCounted'
  BY <1>1, <1>8, SweepPartKept
<1> QED
  BY <1>12, <1>14, <1>15, <1>16 DEF CustSafe, LedgersHeld

\* A killed worker reads its ledger from the file when it starts again.
LEMMA KillWorkerSafe ==
  ASSUME CustSafe, NEW w \in Worker, KillWorker(w)
  PROVE  CustSafe'
<1> DEFINE k == [NoWork EXCEPT !.known = IF w = "drain" THEN {} ELSE custFile]
<1>1. /\ worker' = [worker EXCEPT ![w] = k]
      /\ UNCHANGED <<today, born, crows, holder, custFile, sweep, unswept>>
  BY DEF KillWorker, hubspot
<1>2. k \in WorkerType /\ k.pc = "idle" /\ k.known \subseteq custFile
  BY DEF NoWork, WorkerType, CustSafe, CustTypeOK
<1> HIDE DEF k
<1>3. worker'[w] = k
  BY <1>1 DEF CustSafe, CustTypeOK
<1>4. WorkerKnows(w)'
  BY <1>1, <1>2, <1>3 DEF WorkerKnows, CustSafe, LedgersHeld, Held
<1> QED
  BY <1>1, <1>2, <1>4, WorkerStepSafe DEF CustSafe, CustTypeOK, HeldKept, Held, LedgersHeld

-----------------------------------------------------------------------------
\* A step that may add rows and contacts, and leaves workers, ledgers, calendar
\* and sweep alone.
LEMMA WorldStepSafe ==
  ASSUME CustSafe, crows' \in Seq(CustRowType),
         \A r \in DOMAIN crows : r \in DOMAIN crows' /\ crows'[r] = crows[r],
         holder' \in [Customer -> Customer \cup {"none", "other"}], HeldKept,
         UNCHANGED <<today, born, custFile, worker, sweep, unswept>>
  PROVE  CustSafe'
<1>1. CustTypeOK'
  BY DEF CustSafe, CustTypeOK
<1>2. AcctKept
  BY RowsKept DEF CustSafe
<1>3. SweepKnows' /\ DaysCounted'
  BY <1>2, SweepPartKept
<1>4. \A w \in Worker : WorkerKnows(w)'
  BY <1>1, WorkersKept
<1>5. \A c \in custFile' : Held(c)'
  BY DEF CustSafe, LedgersHeld, HeldKept, CustTypeOK
<1> QED
  BY <1>1, <1>3, <1>4, <1>5 DEF CustSafe, LedgersHeld

\* The queue with one more row of c.
LEMMA OneMoreRow ==
  ASSUME CustTypeOK, NEW c \in Customer
  PROVE  LET more == Append(crows, CustRow(c, "make")) IN
         more \in Seq(CustRowType) /\ \A r \in DOMAIN crows : r \in DOMAIN more /\ more[r] = crows[r]
<1> DEFINE more == Append(crows, CustRow(c, "make"))
<1>1. CustRow(c, "make") \in CustRowType /\ crows \in Seq(CustRowType)
  BY DEF CustRow, CustRowType, Open, CustTypeOK
<1>2. /\ more \in Seq(CustRowType) /\ Len(more) = Len(crows) + 1
      /\ \A i \in 1..Len(crows) : more[i] = crows[i]
  BY <1>1, AppendProperties
<1> HIDE DEF more
<1>3. DOMAIN crows = 1..Len(crows) /\ Len(crows) \in Nat /\ DOMAIN more = 1..Len(more)
  BY <1>1, <1>2, LenProperties
<1>4. more \in Seq(CustRowType) /\ \A r \in DOMAIN crows : r \in DOMAIN more /\ more[r] = crows[r]
  BY <1>2, <1>3
<1> QED  BY <1>4 DEF more

\* Somebody who registers today is nobody's duty yet.
LEMMA SignupSafe ==
  ASSUME CustSafe, NEW c \in Customer, Signup(c)
  PROVE  CustSafe'
<1>0. /\ born' = [born EXCEPT ![c] = today] /\ born[c] = 0 /\ today \in 1..CustDays
      /\ UNCHANGED <<today, holder, custFile, worker, sweep, unswept>>
  BY DEF Signup, hubspot, CustSafe, CustTypeOK
<1>1. crows' \in Seq(CustRowType) /\ \A r \in DOMAIN crows : r \in DOMAIN crows' /\ crows'[r] = crows[r]
  <2>1. CASE crows' = Append(crows, CustRow(c, "make"))
    BY <2>1, OneMoreRow DEF CustSafe
  <2>2. CASE UNCHANGED crows
    BY <2>2 DEF CustSafe, CustTypeOK
  <2> QED  BY <2>1, <2>2 DEF Signup
<1>2. CustTypeOK'
  BY <1>0, <1>1 DEF CustSafe, CustTypeOK
<1>3. HeldKept
  BY <1>0 DEF HeldKept, Held
<1>4. AcctKept
  BY <1>1, <1>3, RowsKept DEF CustSafe
<1>5. \A w \in Worker : WorkerKnows(w)'
  BY <1>0, <1>1, <1>2, <1>3, WorkersKept
<1>6. \A d \in custFile' : Held(d)'
  BY <1>0 DEF CustSafe, LedgersHeld, Held
<1>7. \A d \in Customer : born'[d] = born[d] \/ (d = c /\ born'[d] = today)
  BY <1>0 DEF CustSafe, CustTypeOK
<1>8. SweepDays' = SweepDays /\ Pending' = Pending /\ \A d \in SweepDays : d < today
  BY <1>0 DEF SweepDays, Pending
<1>9. SweepKnows'
  <2>1. \A d \in sweep.known : d \in Customer
    BY DEF CustSafe, CustTypeOK, SweepType
  <2>2. ASSUME sweep.pc = "append", NEW d \in Customer, born'[d] = sweep.day
        PROVE  d \in sweep.missing \/ Acct(d)'
    <3>1. sweep.day < today
      BY <1>8, <2>2 DEF CustSafe, SweepKnows
    <3>2. born[d] = sweep.day
      BY <1>7, <2>2, <3>1, <1>0
    <3> QED  BY <2>2, <3>2, <1>4 DEF CustSafe, SweepKnows, AcctKept
  <2> QED
    BY <1>0, <1>4, <1>8, <2>1, <2>2 DEF CustSafe, SweepKnows, AcctKept
<1>10. DaysCounted'
  <2> SUFFICES ASSUME NEW d \in 1..CustDays PROVE Covered(d)' \/ unswept'[d] >= RunsOver(d)'
    BY DEF DaysCounted
  <2>1. RunsOver(d)' = RunsOver(d)
    BY <1>0, <1>8 DEF RunsOver
  <2>2. CASE d = today
    <3>1. d \notin Pending
      BY <1>8, <2>2, <1>0 DEF Pending, CustSafe, SweepKnows
    <3>2. RunsOver(d) = 0
      BY <1>0, <2>2, <3>1 DEF RunsOver
    <3>3. unswept'[d] >= 0
      BY <1>2 DEF CustTypeOK
    <3> QED  BY <2>1, <3>2, <3>3
  <2>3. CASE d # today
    <3>1. Covered(d) => Covered(d)'
      BY <1>4, <1>7, <2>3 DEF Covered, AcctKept
    <3> QED  BY <2>1, <3>1, <1>0 DEF CustSafe, DaysCounted
  <2> QED  BY <2>2, <2>3
<1> QED
  BY <1>2, <1>5, <1>6, <1>9, <1>10 DEF CustSafe, LedgersHeld

\* A second delivery, an order's contact, the search index.
LEMMA WorldSafe ==
  ASSUME CustSafe, NEW c \in Customer, DeliverAgain(c) \/ BuyerContact(c) \/ IndexContact(c)
  PROVE  CustSafe'
<1> USE CustomerAssumption
<1>1. CASE DeliverAgain(c)
  <2>1. crows' = Append(crows, CustRow(c, "make"))
        /\ UNCHANGED <<today, born, holder, custFile, worker, sweep, unswept>>
    BY <1>1 DEF DeliverAgain, hubspot
  <2> QED
    BY <2>1, OneMoreRow, WorldStepSafe DEF CustSafe, CustTypeOK, HeldKept, Held
<1>2. CASE BuyerContact(c)
  <2>1. holder' = [holder EXCEPT ![c] = c]
        /\ UNCHANGED <<today, born, crows, custFile, worker, sweep, unswept>>
    BY <1>2 DEF BuyerContact
  <2>2. holder' \in [Customer -> Customer \cup {"none", "other"}] /\ HeldKept
    BY <2>1 DEF CustSafe, CustTypeOK, HeldKept, Held
  <2> QED
    BY <2>1, <2>2, WorldStepSafe DEF CustSafe, CustTypeOK
<1>3. CASE IndexContact(c)
  <2>1. UNCHANGED <<today, born, crows, holder, custFile, worker, sweep, unswept>>
    BY <1>3 DEF IndexContact
  <2> QED
    BY <2>1, WorldStepSafe DEF CustSafe, CustTypeOK, HeldKept, Held
<1> QED  BY <1>1, <1>2, <1>3

-----------------------------------------------------------------------------
\* A step of the sweep or the calendar leaves the contacts and the workers
\* alone; it may add rows.
LEMMA SweepStepSafe ==
  ASSUME CustSafe, crows' \in Seq(CustRowType),
         \A r \in DOMAIN crows : r \in DOMAIN crows' /\ crows'[r] = crows[r],
         UNCHANGED <<born, holder, custFile, worker>>,
         today' \in 1..CustDays, today' >= today, sweep' \in SweepType,
         unswept' \in [1..CustDays -> Nat],
         SweepKnows', DaysCounted'
  PROVE  CustSafe'
<1>1. CustTypeOK'
  <2>1. \A c \in Customer : born'[c] <= today'
    BY DEF CustSafe, CustTypeOK
  <2> QED  BY <2>1 DEF CustSafe, CustTypeOK
<1>2. HeldKept
  BY DEF HeldKept, Held
<1>3. \A w \in Worker : WorkerKnows(w)'
  BY <1>1, <1>2, WorkersKept
<1> QED
  BY <1>1, <1>3 DEF CustSafe, LedgersHeld, Held

\* It starts with everybody who is on the way.
LEMMA SweepStartSafe ==
  ASSUME CustSafe, SweepStart
  PROVE  CustSafe'
<1> DEFINE stage == IF SweepDays = {} THEN "idle" ELSE "days"
<1>1. /\ sweep.pc = "due" /\ sweep' = [pc |-> stage, known |-> OnTheirWay, days |-> SweepDays, day |-> 0, missing |-> {}]
      /\ UNCHANGED <<today, born, crows, holder, custFile, worker, unswept>>
  BY DEF SweepStart, NoSweep, hubspot
<1>2. OnTheirWay \subseteq Customer /\ \A c \in OnTheirWay : Acct(c)
  BY RowIsRow DEF OnTheirWay, CustSafe, CustTypeOK, CustRowType, LedgersHeld, Acct, OpenRow
<1>3. SweepDays \subseteq 1..CustDays /\ 0 \in 0..CustDays
  BY CustomerAssumption DEF SweepDays
<1>4. sweep' \in SweepType
  BY <1>1, <1>2, <1>3 DEF SweepType
<1>5. SweepDays' = SweepDays /\ \A c \in Customer : Acct(c)' = Acct(c)
  BY <1>1 DEF SweepDays, Acct, Held, OpenRow
<1>6. SweepKnows'
  BY <1>1, <1>2, <1>5 DEF SweepKnows
<1>7. Pending' = Pending
  BY <1>1, <1>5 DEF Pending
<1>8. DaysCounted'
  BY <1>1, <1>5, <1>7 DEF CustSafe, DaysCounted, Covered, RunsOver
<1> QED
  BY <1>1, <1>4, <1>6, <1>8, SweepStepSafe DEF CustSafe, CustTypeOK

\* Who is missing on the day it looks at is on its list.
LEMMA SweepLookSafe ==
  ASSUME CustSafe, NEW d \in 1..CustDays, SweepLook(d)
  PROVE  CustSafe'
<1> DEFINE missing == {c \in Customer : born[c] = d /\ c \notin sweep.known /\ ~InHubSpot(c)}
<1>1. /\ sweep.pc = "days" /\ d \in sweep.days
      /\ sweep' = [pc |-> "append", known |-> sweep.known, days |-> sweep.days, day |-> d, missing |-> missing]
      /\ UNCHANGED <<today, born, crows, holder, custFile, worker, unswept>>
  BY DEF SweepLook, hubspot
<1>2. /\ sweep'.pc = "append" /\ sweep'.day = d /\ sweep'.missing = missing
      /\ sweep'.known = sweep.known /\ sweep'.days = sweep.days /\ sweep' \in SweepType
  BY <1>1 DEF CustSafe, CustTypeOK, SweepType
<1>3. SweepDays' = SweepDays /\ \A c \in Customer : Acct(c)' = Acct(c)
  BY <1>1 DEF SweepDays, Acct, Held, OpenRow
<1>4. \A c \in Customer : born[c] = d => c \in missing \/ Acct(c)
  BY CustomerAssumption DEF InHubSpot, CustSafe, SweepKnows, Acct, Held
<1>5. SweepKnows'
  <2>1. \A c \in sweep.known : c \in Customer /\ Acct(c)
    BY DEF CustSafe, SweepKnows, CustTypeOK, SweepType
  <2> HIDE DEF missing
  <2> QED  BY <1>1, <1>2, <1>3, <1>4, <2>1 DEF CustSafe, SweepKnows
<1>6. Pending' = Pending
  BY <1>1, <1>2 DEF Pending
<1>7. DaysCounted'
  BY <1>1, <1>3, <1>6 DEF CustSafe, DaysCounted, Covered, RunsOver
<1> QED
  BY <1>1, <1>2, <1>5, <1>7, SweepStepSafe DEF CustSafe, CustTypeOK

\* What a day that is done with leaves of the sweep.
LEMMA DayDoneEffect ==
  ASSUME CustSafe, NEW d \in 1..CustDays, d \in sweep.days, DayDone(d)
  PROVE  /\ sweep' \in SweepType /\ sweep'.days = sweep.days \ {d}
         /\ sweep'.known \subseteq sweep.known
         /\ sweep'.pc \in {"idle", "days"} /\ (sweep'.pc = "idle" => sweep'.days = {})
<1> DEFINE more == [pc |-> "days", known |-> sweep.known, days |-> sweep.days \ {d}, day |-> 0,
                    missing |-> {}]
<1>1. sweep' = IF sweep.days = {d} THEN NoSweep ELSE more
  BY DEF DayDone
<1>2. sweep \in SweepType
  BY DEF CustSafe, CustTypeOK
<1>3. more \in SweepType
  BY <1>2, CustomerAssumption DEF SweepType
<1>4. NoSweep \in SweepType
  BY CustomerAssumption DEF SweepType, NoSweep
<1>5. CASE sweep.days = {d}
  BY <1>1, <1>2, <1>4, <1>5 DEF NoSweep
<1>6. CASE sweep.days # {d}
  BY <1>1, <1>2, <1>3, <1>6
<1> QED  BY <1>5, <1>6

\* A day that is done with, covered or counted, keeps the count.
LEMMA DayDoneSafe ==
  ASSUME CustSafe, NEW d \in 1..CustDays, d \in sweep.days, sweep.pc \in {"days", "append"}, DayDone(d),
         crows' \in Seq(CustRowType),
         \A r \in DOMAIN crows : r \in DOMAIN crows' /\ crows'[r] = crows[r],
         UNCHANGED <<today, born, holder, custFile, worker>>,
         unswept' \in [1..CustDays -> Nat], \A e \in 1..CustDays : unswept'[e] >= unswept[e],
         Covered(d)' \/ unswept'[d] >= unswept[d] + 1
  PROVE  CustSafe'
<1>1. /\ sweep' \in SweepType /\ sweep'.days = sweep.days \ {d}
      /\ sweep'.known \subseteq sweep.known
      /\ sweep'.pc \in {"idle", "days"} /\ (sweep'.pc = "idle" => sweep'.days = {})
  BY DayDoneEffect
<1>2. HeldKept
  BY DEF HeldKept, Held
<1>3. AcctKept
  BY <1>2, RowsKept DEF CustSafe
<1>4. SweepDays' = SweepDays
  BY DEF SweepDays
<1>5. SweepKnows'
  <2>1. \A c \in sweep.known : c \in Customer /\ Acct(c)
    BY DEF CustSafe, SweepKnows, CustTypeOK, SweepType
  <2>2. \A c \in sweep'.known : Acct(c)'
    BY <1>1, <1>3, <2>1 DEF AcctKept
  <2> QED  BY <1>1, <1>4, <2>2 DEF CustSafe, SweepKnows
<1>6. Pending = sweep.days /\ Pending' = sweep.days \ {d}
  BY <1>1 DEF Pending
<1>7. DaysCounted'
  <2> SUFFICES ASSUME NEW e \in 1..CustDays PROVE Covered(e)' \/ unswept'[e] >= RunsOver(e)'
    BY DEF DaysCounted
  <2>1. Covered(e) => Covered(e)'
    BY <1>3 DEF Covered, AcctKept
  <2>2. today \in Nat /\ unswept[e] \in Nat /\ unswept'[e] \in Nat /\ unswept'[e] >= unswept[e]
    BY DEF CustSafe, CustTypeOK
  <2>3. Covered(e) \/ unswept[e] >= RunsOver(e)
    BY DEF CustSafe, DaysCounted
  <2>4. CASE e # d
    <3>1. RunsOver(e)' = RunsOver(e)
      BY <1>6, <2>4 DEF RunsOver
    <3>2. RunsOver(e) \in Int
      BY <2>2 DEF RunsOver
    <3> QED  BY <2>1, <2>2, <2>3, <3>1, <3>2
  <2>5. CASE e = d
    <3>1. RunsOver(e)' = RunsOver(e) + 1
      BY <1>6, <2>2, <2>5 DEF RunsOver
    <3>2. RunsOver(e) \in Int
      BY <2>2 DEF RunsOver
    <3> QED  BY <2>1, <2>2, <2>3, <2>5, <3>1, <3>2
  <2> QED  BY <2>4, <2>5
<1> QED
  BY <1>1, <1>5, <1>7, SweepStepSafe DEF CustSafe, CustTypeOK

\* The append makes good everybody born on the day.
LEMMA SweepAppendSafe ==
  ASSUME CustSafe, SweepAppend
  PROVE  CustSafe'
<1>0. sweep.day \in sweep.days /\ sweep.day \in 1..CustDays
  BY DEF SweepAppend, CustSafe, SweepKnows, CustTypeOK, SweepType
<1> PICK d \in 1..CustDays : d = sweep.day
  BY <1>0
<1>1. /\ sweep.pc = "append" /\ crows' = Queued /\ DayDone(d)
      /\ UNCHANGED <<today, born, holder, custFile, worker, unswept>>
  BY DEF SweepAppend, hubspot
<1>2. d \in sweep.days /\ d \in 1..CustDays
  BY <1>0
<1>3. /\ Queued \in Seq(CustRowType)
      /\ \A r \in DOMAIN crows : r \in DOMAIN Queued /\ Queued[r] = crows[r]
      /\ \A c \in sweep.missing : \E r \in DOMAIN Queued : Queued[r].cust = c /\ Queued[r].st \in Open
  BY QueuedRows DEF CustSafe
<1>4. \A r \in DOMAIN crows : r \in DOMAIN crows' /\ crows'[r] = crows[r]
  BY <1>1, <1>3
<1>5. HeldKept
  BY <1>1 DEF HeldKept, Held
<1>6. AcctKept
  BY <1>4, <1>5, RowsKept DEF CustSafe
<1>7. Covered(d)'
  <2> SUFFICES ASSUME NEW c \in Customer, born[c] = d PROVE Acct(c)'
    BY <1>1 DEF Covered
  <2>1. c \in sweep.missing \/ Acct(c)
    BY <1>1 DEF CustSafe, SweepKnows
  <2>2. c \in sweep.missing => OpenRow(c)'
    BY <1>1, <1>3 DEF OpenRow
  <2> QED  BY <2>1, <2>2, <1>6 DEF AcctKept, Acct
<1>8. unswept \in [1..CustDays -> Nat] /\ unswept' = unswept
  BY <1>1 DEF CustSafe, CustTypeOK
<1>9. unswept' \in [1..CustDays -> Nat] /\ \A e \in 1..CustDays : unswept'[e] >= unswept[e]
  BY <1>8
<1>10. crows' \in Seq(CustRowType)
  BY <1>1, <1>3
<1>11. UNCHANGED <<today, born, holder, custFile, worker>> /\ sweep.pc \in {"days", "append"}
  BY <1>1
<1> QED
  BY <1>1, <1>2, <1>4, <1>7, <1>9, <1>10, <1>11, DayDoneSafe

\* A refused day is counted.
LEMMA SweepRefusedSafe ==
  ASSUME CustSafe, NEW d \in 1..CustDays, SweepRefused(d)
  PROVE  CustSafe'
<1>1. /\ sweep.pc \in {"days", "append"} /\ d \in sweep.days /\ DayDone(d)
      /\ UNCHANGED <<today, born, crows, holder, custFile, worker>>
      /\ unswept' = [e \in 1..CustDays |-> unswept[e] + (IF e \in {d} THEN 1 ELSE 0)]
  BY DEF SweepRefused, NotSwept, hubspot
<1>2. \A e \in 1..CustDays : unswept[e] \in Nat
  BY DEF CustSafe, CustTypeOK
<1>3. /\ unswept' \in [1..CustDays -> Nat] /\ \A e \in 1..CustDays : unswept'[e] >= unswept[e]
      /\ unswept'[d] >= unswept[d] + 1
  BY <1>1, <1>2
<1>4. crows' \in Seq(CustRowType) /\ \A r \in DOMAIN crows : r \in DOMAIN crows' /\ crows'[r] = crows[r]
  BY <1>1 DEF CustSafe, CustTypeOK
<1> QED
  BY <1>1, <1>3, <1>4, DayDoneSafe

\* A run that dies is counted for every day it had left.
LEMMA SweepDiesSafe ==
  ASSUME CustSafe, SweepDies
  PROVE  CustSafe'
<1>1. /\ sweep.pc # "idle" /\ sweep' = NoSweep
      /\ UNCHANGED <<today, born, holder, custFile, worker>>
      /\ unswept' = [e \in 1..CustDays |-> unswept[e] + (IF e \in Pending THEN 1 ELSE 0)]
      /\ crows' = crows \/ crows' = Queued
  BY DEF SweepDies, NotSwept, hubspot, Pending
<1>2. \A e \in 1..CustDays : unswept[e] \in Nat
  BY DEF CustSafe, CustTypeOK
<1>3. crows' \in Seq(CustRowType) /\ \A r \in DOMAIN crows : r \in DOMAIN crows' /\ crows'[r] = crows[r]
  <2>1. CASE crows' = crows
    BY <2>1 DEF CustSafe, CustTypeOK
  <2>2. CASE crows' = Queued
    BY <2>2, QueuedRows DEF CustSafe
  <2> QED  BY <1>1, <2>1, <2>2
<1>4. HeldKept
  BY <1>1 DEF HeldKept, Held
<1>5. AcctKept
  BY <1>3, <1>4, RowsKept DEF CustSafe
<1>6. SweepKnows' /\ Pending' = {} /\ sweep' \in SweepType
  BY <1>1, CustomerAssumption DEF SweepKnows, NoSweep, Pending, SweepType
<1>7. DaysCounted'
  <2> SUFFICES ASSUME NEW e \in 1..CustDays PROVE Covered(e)' \/ unswept'[e] >= RunsOver(e)'
    BY DEF DaysCounted
  <2>1. Covered(e) => Covered(e)'
    BY <1>1, <1>5 DEF Covered, AcctKept
  <2>2. today \in Nat /\ today' = today
    BY <1>1 DEF CustSafe, CustTypeOK
  <2>3. Covered(e) \/ unswept[e] >= RunsOver(e)
    BY DEF CustSafe, DaysCounted
  <2>4. RunsOver(e)' = RunsOver(e) + (IF e \in Pending THEN 1 ELSE 0)
    BY <1>6, <2>2 DEF RunsOver
  <2>5. unswept'[e] = unswept[e] + (IF e \in Pending THEN 1 ELSE 0) /\ RunsOver(e) \in Int
    BY <1>1, <2>2 DEF RunsOver
  <2> QED  BY <1>2, <2>1, <2>3, <2>4, <2>5
<1>8. unswept' \in [1..CustDays -> Nat]
  BY <1>1, <1>2
<1> QED
  BY <1>1, <1>3, <1>6, <1>7, <1>8, SweepStepSafe DEF CustSafe, CustTypeOK

\* A new day: its run is due for yesterday and the day before.
LEMMA NextDaySafe ==
  ASSUME CustSafe, NextDay
  PROVE  CustSafe'
<1>1. /\ sweep.pc = "idle" /\ today < CustDays /\ today' = today + 1
      /\ sweep' = [NoSweep EXCEPT !.pc = "due"]
      /\ UNCHANGED <<born, crows, holder, custFile, worker, unswept>>
  BY DEF NextDay, hubspot
<1>2. today \in 1..CustDays /\ CustDays \in Nat /\ sweep.days = {}
  BY <1>1, CustomerAssumption DEF CustSafe, CustTypeOK, SweepKnows
<1>3. sweep'.pc = "due" /\ sweep'.days = {} /\ sweep'.known = {} /\ sweep' \in SweepType
  BY <1>1, <1>2 DEF NoSweep, SweepType
<1>4. SweepKnows'
  BY <1>3 DEF SweepKnows
<1>5. Pending = {} /\ Pending' = {today - 1, today} \cap 1..CustDays
  BY <1>1, <1>2, <1>3 DEF Pending, SweepDays
<1>6. DaysCounted'
  <2> SUFFICES ASSUME NEW e \in 1..CustDays PROVE Covered(e)' \/ unswept'[e] >= RunsOver(e)'
    BY DEF DaysCounted
  <2>1. Covered(e) => Covered(e)'
    BY <1>1 DEF Covered, Acct, Held, OpenRow
  <2>2. Covered(e) \/ unswept[e] >= RunsOver(e)
    BY DEF CustSafe, DaysCounted
  <2>3. RunsOver(e)' = RunsOver(e)
    BY <1>1, <1>2, <1>5 DEF RunsOver
  <2> QED  BY <1>1, <2>1, <2>2, <2>3
<1>7. crows' \in Seq(CustRowType) /\ unswept' \in [1..CustDays -> Nat]
      /\ \A r \in DOMAIN crows : r \in DOMAIN crows' /\ crows'[r] = crows[r]
  BY <1>1 DEF CustSafe, CustTypeOK
<1>8. today' \in 1..CustDays /\ today' >= today
  BY <1>1, <1>2
<1> QED
  BY <1>1, <1>3, <1>4, <1>6, <1>7, <1>8, SweepStepSafe

\* Every step of the customer sync keeps the invariant.
LEMMA CustStepSafe == CustSafe /\ [CustNext]_custVars => CustSafe'
<1> SUFFICES ASSUME CustSafe, [CustNext]_custVars PROVE CustSafe'
  OBVIOUS
<1>1. ASSUME NEW c \in Customer, Signup(c) PROVE CustSafe'
  BY <1>1, SignupSafe
<1>2. ASSUME NEW c \in Customer, DeliverAgain(c) \/ BuyerContact(c) \/ IndexContact(c) PROVE CustSafe'
  BY <1>2, WorldSafe
<1>3. ASSUME NEW w \in Worker, NEW r \in DOMAIN crows, ClaimCust(w, r) PROVE CustSafe'
  BY <1>3, ClaimCustSafe
<1>4. ASSUME NEW w \in Worker, SearchCust(w) \/ Merge(w) \/ WriteContact(w) PROVE CustSafe'
  BY <1>4, SearchCustSafe, MergeSafe, WriteContactSafe
<1>5. ASSUME NEW w \in Worker, CustCallFails(w) \/ RecordCust(w) PROVE CustSafe'
  BY <1>5, CustCallFailsSafe, RecordCustSafe
<1>6. ASSUME NEW w \in Worker, MarkCust(w) \/ KillWorker(w) PROVE CustSafe'
  BY <1>6, MarkCustSafe, KillWorkerSafe
<1>7. CASE SweepStart \/ SweepAppend \/ SweepDies \/ NextDay
  BY <1>7, SweepStartSafe, SweepAppendSafe, SweepDiesSafe, NextDaySafe
<1>8. ASSUME NEW d \in 1..CustDays, SweepLook(d) \/ SweepRefused(d) PROVE CustSafe'
  BY <1>8, SweepLookSafe, SweepRefusedSafe
<1>9. CASE UNCHANGED custVars
  <2>1. UNCHANGED <<today, born, crows, holder, custFile, worker, sweep, unswept>>
    BY <1>9 DEF custVars, hubspot
  <2> QED
    BY <2>1, WorldStepSafe DEF CustSafe, CustTypeOK, HeldKept, Held
<1> QED
  BY <1>1, <1>2, <1>3, <1>4, <1>5, <1>6, <1>7, <1>8, <1>9 DEF CustNext

\* A customer whose capture was lost has a contact or an open row three days
\* on, unless both runs that cover its day failed.
THEOREM SweptAccountedHolds == CustInit /\ [][CustNext]_custVars => []SweptAccounted
<1>1. CustSafe => SweptAccounted
  <2> SUFFICES ASSUME CustSafe, NEW c \in Customer, born[c] > 0, today >= born[c] + 3,
                      unswept[born[c]] < 2
               PROVE  Acct(c)
    BY DEF SweptAccounted, Acct, Held, OpenRow
  <2> DEFINE d == born[c]
  <2>1. d \in 1..CustDays /\ today \in Nat /\ today > d + 1
    BY CustomerAssumption DEF CustSafe, CustTypeOK
  <2>2. d \notin Pending
    BY <2>1 DEF Pending, CustSafe, SweepKnows, SweepDays
  <2>3. RunsOver(d) = 2
    BY <2>1, <2>2 DEF RunsOver
  <2>4. Covered(d)
    BY <2>1, <2>3 DEF CustSafe, DaysCounted, CustTypeOK
  <2> QED  BY <2>4 DEF Covered
<1> QED
  BY CustInitSafe, CustStepSafe, <1>1, PTL

-----------------------------------------------------------------------------
(***************************************************************************)
(* The Zid re-key and the un-merge.                                        *)
(***************************************************************************)

\* While a mover moves, what still stands of the Zid order is among the writes
\* it has left, the ledger's last; once it reports, nothing stands.
MoverSafe(p) ==
    /\ mover[p].pc = "moving" => mover[p].steps # {} /\ standing \subseteq mover[p].steps
    /\ mover[p].pc = "moved" => standing = {}

\* The records of the movers and of the un-merge.
MoveRecords ==
    /\ mover \in [Mover -> [pc : {"idle", "moving", "moved"}, steps : SUBSET StepsIn(MoveSteps)]]
    /\ unmerge \in [pc : {"idle", "moving", "failed"}, steps : SUBSET StepsIn(UnmergeSteps)]

\* The label is taken off with the last write.
LabelLast ==
    /\ unmerge.pc # "idle" => "label" \notin merged
    /\ unmerge.pc = "moving" => "label" \in unmerge.steps

\* The invariant of both tools.
MoveSafe ==
    /\ standing \subseteq StepsIn(MoveSteps) \ {"revoke"}
    /\ MoveRecords
    /\ \A p \in Mover : MoverSafe(p)
    /\ LabelLast

\* The writes of the two tools, by name.
LEMMA StepNames ==
    /\ StepsIn(MoveSteps) = {"order", "zidItems", "sallaItems", "detachWarranties",
                             "updateWarranties", "revoke"}
    /\ StepsIn(UnmergeSteps) = Moves \cup {"create", "label"}
<1>1. Len(MoveSteps) = 6 /\ Len(UnmergeSteps) = 8
  BY DEF MoveSteps, UnmergeSteps
<1>2. 1..6 = {1, 2, 3, 4, 5, 6} /\ 1..8 = {1, 2, 3, 4, 5, 6, 7, 8}
  OBVIOUS
<1> QED
  BY <1>1, <1>2 DEF StepsIn, MoveSteps, UnmergeSteps, Moves

\* The next write of a mover that has some left is one of them.
LEMMA NextIsLeft ==
  ASSUME NEW S, S \subseteq StepsIn(MoveSteps), S # {}
  PROVE  FirstIn(MoveSteps, S) \in S
<1>1. Len(MoveSteps) = 6
  BY DEF MoveSteps
<1> DEFINE P(i) == MoveSteps[i] \in S /\ \A j \in 1..(i - 1) : MoveSteps[j] \notin S
<1>2. \E i \in 1..6 : P(i)
  <2>1. PICK k \in 1..6 : MoveSteps[k] \in S
    BY <1>1 DEF StepsIn
  <2> QED  BY <2>1
<1>3. P(CHOOSE i \in 1..6 : P(i))
  BY <1>2
<1> QED
  BY <1>1, <1>3 DEF FirstIn

\* The label comes off last: it is next only when nothing else is left.
LEMMA LabelIsLast ==
  ASSUME NEW S, S \subseteq StepsIn(UnmergeSteps), FirstIn(UnmergeSteps, S) = "label",
         "label" \in S
  PROVE  S = {"label"}
<1>1. Len(UnmergeSteps) = 8
  BY DEF UnmergeSteps
<1> DEFINE P(i) == UnmergeSteps[i] \in S /\ \A j \in 1..(i - 1) : UnmergeSteps[j] \notin S
<1> DEFINE k == CHOOSE i \in 1..8 : P(i)
<1>2. \E i \in 1..8 : P(i)
  <2>1. UnmergeSteps[8] = "label"
    BY DEF UnmergeSteps
  <2> QED  BY <2>1
<1>3. k \in 1..8 /\ P(k)
  BY <1>2
<1>4. UnmergeSteps[k] = "label"
  BY <1>1 DEF FirstIn
<1>5. k = 8
  <2>1. k \in {1, 2, 3, 4, 5, 6, 7, 8}
    BY <1>3
  <2> HIDE DEF k
  <2>2. UnmergeSteps[1] = "create" /\ UnmergeSteps[2] = "detach" /\ UnmergeSteps[3] = "attach"
        /\ UnmergeSteps[4] = "itemKey" /\ UnmergeSteps[5] = "warrantyKey"
        /\ UnmergeSteps[6] = "warrantyDetach" /\ UnmergeSteps[7] = "warrantyAttach"
    BY DEF UnmergeSteps
  <2> QED  BY <2>1, <2>2, <1>4
<1>6. \A j \in 1..7 : UnmergeSteps[j] \notin S
  BY <1>3, <1>5
<1>7. StepsIn(UnmergeSteps) = {UnmergeSteps[j] : j \in 1..7} \cup {"label"}
  BY <1>1, 1..8 = 1..7 \cup {8} DEF StepsIn, UnmergeSteps
<1> QED
  BY <1>6, <1>7

\* Both tools start idle.
LEMMA ZidInitSafe == ZidInit => MoveSafe
  BY DEF ZidInit, MoveSafe, MoveRecords, MoverSafe, LabelLast, NoMove

\* A plan lists all that stands.
LEMMA PlanMoveSafe ==
  ASSUME MoveSafe, NEW p \in Mover, PlanMove(p)
  PROVE  MoveSafe'
<1>1. Planned \subseteq StepsIn(MoveSteps) /\ standing \subseteq Planned /\ Planned # {}
  BY StepNames DEF Planned, MoveSafe
<1> QED
  BY <1>1 DEF PlanMove, MoveSafe, MoveRecords, MoverSafe, LabelLast

\* A write takes what it wrote off the order and off the list alike; the other
\* mover has less to do than it thinks.
LEMMA MoveStepSafe ==
  ASSUME MoveSafe, NEW p \in Mover, MoveStep(p)
  PROVE  MoveSafe'
<1> DEFINE S == mover[p].steps
<1> DEFINE s == NextOf(p)
<1>1. S # {} /\ standing \subseteq S /\ S \subseteq StepsIn(MoveSteps)
  BY DEF MoveStep, MoveSafe, MoverSafe, MoveRecords
<1>2. s \in S
  BY <1>1, NextIsLeft DEF NextOf
<1>3. standing' = standing \ {s}
  BY DEF MoveStep
<1>4. mover' = [mover EXCEPT ![p] = [pc |-> IF S \ {s} = {} THEN "moved" ELSE "moving",
                                     steps |-> S \ {s}]]
  BY DEF MoveStep, NextStep
<1>5. mover[p].pc = "moving" /\ UNCHANGED <<merged, unmerge>>
  BY DEF MoveStep
<1> HIDE DEF s
<1>6. MoveRecords'
  BY <1>1, <1>4, <1>5 DEF MoveSafe, MoveRecords
<1>7. ASSUME NEW q \in Mover PROVE MoverSafe(q)'
  <2>1. CASE q = p
    BY <2>1, <1>1, <1>2, <1>3, <1>4, <1>5 DEF MoveSafe, MoverSafe, MoveRecords
  <2>2. CASE q # p
    BY <2>2, <1>3, <1>4 DEF MoveSafe, MoverSafe, MoveRecords
  <2> QED  BY <2>1, <2>2
<1> QED
  BY <1>3, <1>5, <1>6, <1>7 DEF MoveSafe, LabelLast

\* A write that raises leaves the process idle and what stands no larger.
LEMMA MoveFailsSafe ==
  ASSUME MoveSafe, NEW p \in Mover, MoveFails(p)
  PROVE  MoveSafe'
<1>1. standing' \subseteq standing
  BY DEF MoveFails
<1>2. mover' = [mover EXCEPT ![p] = NoMove] /\ UNCHANGED <<merged, unmerge>>
  BY DEF MoveFails
<1> QED
  BY <1>1, <1>2 DEF MoveSafe, MoveRecords, MoverSafe, LabelLast, NoMove

\* What un-merge has left holds the label until it is the last of it.
LEMMA UnmergeStepSafe ==
  ASSUME MoveSafe, UnmergeStep
  PROVE  MoveSafe'
<1> DEFINE S == unmerge.steps
<1> DEFINE s == NextApart
<1>1. "label" \in S /\ "label" \notin merged /\ S \subseteq StepsIn(UnmergeSteps) /\ unmerge.pc = "moving"
  BY DEF UnmergeStep, MoveSafe, LabelLast, MoveRecords
<1>2. s = "label" => S = {"label"}
  BY <1>1, LabelIsLast DEF NextApart
<1>3. merged' = merged \cup {s} /\ UNCHANGED <<standing, mover>>
  BY DEF UnmergeStep, WriteApart
<1>4. unmerge' = IF S = {s} THEN NoMove ELSE [pc |-> "moving", steps |-> S \ {s}]
  BY <1>1 DEF UnmergeStep, MoveSafe, MoveRecords
<1> HIDE DEF s
<1> QED
  BY <1>1, <1>2, <1>3, <1>4 DEF MoveSafe, MoveRecords, MoverSafe, LabelLast, NoMove

\* Every step of either tool keeps the invariant.
LEMMA MoveStepsSafe == MoveSafe /\ [MoveNext \/ UnmergeNext]_zidVars => MoveSafe'
<1> SUFFICES ASSUME MoveSafe, [MoveNext \/ UnmergeNext]_zidVars PROVE MoveSafe'
  OBVIOUS
<1>1. ASSUME NEW p \in Mover, PlanMove(p) PROVE MoveSafe'
  BY <1>1, PlanMoveSafe
<1>2. ASSUME NEW p \in Mover, MoveStep(p) PROVE MoveSafe'
  BY <1>2, MoveStepSafe
<1>3. ASSUME NEW p \in Mover, MoveFails(p) PROVE MoveSafe'
  BY <1>3, MoveFailsSafe
<1>4. ASSUME NEW p \in Mover, Reported(p) PROVE MoveSafe'
  BY <1>4 DEF Reported, MoveSafe, MoveRecords, MoverSafe, LabelLast, NoMove
<1>5. CASE CreateSalla
  BY <1>5 DEF CreateSalla, MoveSafe, MoveRecords, MoverSafe, LabelLast
<1>6. CASE PlanUnmerge
  BY <1>6, StepNames DEF PlanUnmerge, MoveSafe, MoveRecords, MoverSafe, LabelLast
<1>7. CASE UnmergeStep
  BY <1>7, UnmergeStepSafe
<1>8. CASE UnmergeFails
  BY <1>8 DEF UnmergeFails, MoveSafe, MoveRecords, MoverSafe, LabelLast
<1>9. CASE UNCHANGED zidVars
  BY <1>9 DEF zidVars, moveVars, unmergeVars, MoveSafe, MoveRecords, MoverSafe, LabelLast
<1> QED
  BY <1>1, <1>2, <1>3, <1>4, <1>5, <1>6, <1>7, <1>8, <1>9 DEF MoveNext, UnmergeNext

\* A re-key that reports success has moved the whole order, and a merged order
\* keeps the label until its last item is moved, however many writes fail.
THEOREM MovedWholeHolds == ZidInit /\ [][MoveNext \/ UnmergeNext]_zidVars => []MovedWhole
<1>1. MoveSafe => MovedWhole
  BY DEF MoveSafe, MoverSafe, LabelLast, MovedWhole
<1> QED
  BY ZidInitSafe, MoveStepsSafe, <1>1, PTL

-----------------------------------------------------------------------------
(***************************************************************************)
(* The emission of a month of the Zid import.                              *)
(***************************************************************************)

\* The planned line items, and what each part of the state is.
AnyLine == UNION {PlanLines[o] : o \in PlannedIds}
RecordType == [order : BOOLEAN, lines : SUBSET AnyLine, linked : SUBSET AnyLine]
EmitPcs == {"idle", "repair", "repairlines", "repairone", "repaired", "orders", "scan", "mark",
            "lines", "finish", "emitted"}
EmitType == [pc : EmitPcs, todo : SUBSET PlannedIds, chunk : SUBSET PlannedIds,
             repairs : SUBSET PlannedIds, repaired : SUBSET PlannedIds,
             lines : SUBSET LinesOf(PlannedIds), have : SUBSET LinesOf(PlannedIds)]
EmitTypeOK ==
    /\ portal \in [PlannedIds -> RecordType] /\ searched \in [PlannedIds -> RecordType]
    /\ monthLedger \in [PlannedIds -> {"none", "created", "done"}]
    /\ emit \in EmitType /\ unlinked \subseteq PlannedIds

\* HubSpot holds planned line items only, and the search shows no more of them.
PortalSafe ==
    \A o \in PlannedIds :
        /\ portal[o].lines \subseteq PlanLines[o] /\ portal[o].linked \subseteq PlanLines[o]
        /\ searched[o].order => portal[o].order
        /\ searched[o].lines \subseteq portal[o].lines

\* What the month's file says of an order is so.
Whole(o) == /\ portal[o].order /\ portal[o].lines = PlanLines[o]
            /\ portal[o].linked = PlanLines[o] \/ o \in unlinked
MonthSafe ==
    \A o \in PlannedIds :
        /\ monthLedger[o] # "none" => portal[o].order
        /\ monthLedger[o] = "done" => Whole(o)

\* A run loses no order: one that is not done is to come, in the chunk or under
\* repair.
NoneLost ==
    emit.pc # "idle" =>
        \A o \in PlannedIds :
            monthLedger[o] = "done" \/ o \in emit.todo \cup emit.chunk \cup emit.repairs \cup emit.repaired

\* What the run goes by, wherever it is.
Repairing == {"repairlines", "repairone", "repaired"}
InChunk == {"orders", "scan", "mark", "lines", "finish"}
LinkedTo(x) == x[2] \in portal[x[1]].linked
RunSafe ==
    /\ \A x \in emit.have : HasLine(x)
    /\ \A o \in emit.repairs : portal[o].order
    /\ emit.pc \in Repairing => \E o \in PlannedIds : /\ emit.repaired = {o} /\ portal[o].order
                                                      /\ LinesOf({o}) = emit.have \cup emit.lines
    /\ emit.pc = "repaired" => /\ emit.lines = {}
                               /\ \A x \in emit.have : LinkedTo(x) \/ x[1] \in unlinked
    /\ emit.pc \in InChunk => emit.repairs = {}
    /\ emit.pc \notin Repairing => emit.repaired = {}
    /\ emit.pc \in {"mark", "lines", "finish"} => \A o \in emit.chunk : portal[o].order
    /\ emit.pc \in {"lines", "finish"} => LinesOf(emit.chunk) \subseteq emit.lines \cup emit.have
    /\ emit.pc = "finish" => emit.lines = {} /\ \A x \in emit.have : LinkedTo(x)
    /\ emit.pc = "emitted" => emit.todo \cup emit.chunk \cup emit.repairs = {}

\* The inductive invariant of the emission.
EmSafe == EmitTypeOK /\ PortalSafe /\ MonthSafe /\ NoneLost /\ RunSafe

\* HubSpot only ever gains.
PortalGrows ==
    \A o \in PlannedIds : /\ portal[o].order => portal'[o].order
                          /\ portal[o].lines \subseteq portal'[o].lines
                          /\ portal[o].linked \subseteq portal'[o].linked

\* The pairs of an order and one of its line items.
LEMMA LinesOfPairs ==
  ASSUME NEW S
  PROVE  /\ \A x \in LinesOf(S) : \E o \in S : \E l \in PlanLines[o] : x = <<o, l>>
         /\ \A o \in S : \A l \in PlanLines[o] : <<o, l>> \in LinesOf(S)
  BY DEF LinesOf

\* A pair is of the order and of the line item it names.
LEMMA PairOf ==
  ASSUME NEW x \in LinesOf(PlannedIds)
  PROVE  x[1] \in PlannedIds /\ x[2] \in PlanLines[x[1]] /\ x = <<x[1], x[2]>>
<1> PICK o \in PlannedIds : \E l \in PlanLines[o] : x = <<o, l>>
  BY LinesOfPairs
<1> QED
  OBVIOUS

\* The first of the orders in the plan's order are some of them.
LEMMA FirstAreSome ==
  ASSUME NEW S, NEW n
  PROVE  FirstPlanned(S, n) \subseteq S
  BY DEF FirstPlanned

\* An answer "ok" means the batch was taken; "exists", that it was or that one
\* of its records was there.
LEMMA OutcomeTells ==
  ASSUME NEW e \in BOOLEAN, NEW c \in Outcomes(e)
  PROVE  /\ c.answer \in {"ok", "exists", "failed"} /\ c.sent \in BOOLEAN
         /\ c.answer = "ok" => c.sent
         /\ c.answer = "exists" => c.sent \/ e
<1>1. CASE e
  <2>1. c = [sent |-> FALSE, answer |-> "exists", fault |-> FALSE]
          \/ c = [sent |-> FALSE, answer |-> "failed", fault |-> TRUE]
    BY <1>1 DEF Outcomes
  <2>2. CASE c = [sent |-> FALSE, answer |-> "exists", fault |-> FALSE]
    BY <1>1, <2>2
  <2>3. CASE c = [sent |-> FALSE, answer |-> "failed", fault |-> TRUE]
    BY <1>1, <2>3
  <2> QED  BY <2>1, <2>2, <2>3
<1>2. CASE ~e
  <2>1. \/ c \in {[sent |-> TRUE, answer |-> "ok", fault |-> FALSE]}
        \/ c \in [sent : {TRUE}, answer : {"exists", "failed"}, fault : {TRUE}]
        \/ c \in [sent : {FALSE}, answer : {"failed"}, fault : {TRUE}]
    BY <1>2 DEF Outcomes
  <2>2. CASE c \in {[sent |-> TRUE, answer |-> "ok", fault |-> FALSE]}
    <3>1. c = [sent |-> TRUE, answer |-> "ok", fault |-> FALSE]
      BY <2>2
    <3> QED  BY <3>1
  <2>3. CASE c \in [sent : {TRUE}, answer : {"exists", "failed"}, fault : {TRUE}]
    BY <2>3
  <2>4. CASE c \in [sent : {FALSE}, answer : {"failed"}, fault : {TRUE}]
    BY <2>4
  <2> QED  BY <2>1, <2>2, <2>3, <2>4
<1> QED  BY <1>1, <1>2

\* Line items sent are HubSpot's.
LEMMA WithLinesGrows ==
  ASSUME EmitTypeOK, PortalSafe, NEW ls \in SUBSET LinesOf(PlannedIds), portal' = WithLines(ls)
  PROVE  /\ portal' \in [PlannedIds -> RecordType] /\ PortalGrows
         /\ \A o \in PlannedIds : portal'[o].lines \subseteq PlanLines[o] /\ portal'[o].linked = portal[o].linked
         /\ \A x \in ls : HasLine(x)'
<1>1. ASSUME NEW o \in PlannedIds
      PROVE  /\ portal'[o] \in RecordType /\ portal'[o].order = portal[o].order
             /\ portal'[o].linked = portal[o].linked
             /\ portal'[o].lines = portal[o].lines \cup {l \in PlanLines[o] : <<o, l>> \in ls}
  <2> DEFINE new == portal[o].lines \cup {l \in PlanLines[o] : <<o, l>> \in ls}
  <2>1. portal'[o] = [portal[o] EXCEPT !.lines = new]
    BY DEF WithLines
  <2>2. new \subseteq AnyLine /\ portal[o] \in RecordType
    BY DEF AnyLine, EmitTypeOK, RecordType
  <2> HIDE DEF new
  <2>3. /\ portal'[o] \in RecordType /\ portal'[o].order = portal[o].order
        /\ portal'[o].linked = portal[o].linked /\ portal'[o].lines = new
    BY <2>1, <2>2 DEF RecordType
  <2> QED  BY <2>3 DEF new
<1>2. DOMAIN portal' = PlannedIds /\ portal' = [o \in PlannedIds |-> portal'[o]]
  BY DEF WithLines
<1>3. portal' \in [PlannedIds -> RecordType]
  BY <1>1, <1>2
<1>4. ASSUME NEW x \in ls PROVE x[2] \in portal'[x[1]].lines
  BY <1>1, <1>4, PairOf
<1> QED
  BY <1>1, <1>3, <1>4 DEF PortalGrows, PortalSafe, HasLine

\* Associations sent are HubSpot's.
LEMMA WithLinksGrows ==
  ASSUME EmitTypeOK, PortalSafe, NEW ls \in SUBSET LinesOf(PlannedIds), portal' = WithLinks(ls)
  PROVE  /\ portal' \in [PlannedIds -> RecordType] /\ PortalGrows
         /\ \A o \in PlannedIds : portal'[o].linked \subseteq PlanLines[o] /\ portal'[o].lines = portal[o].lines
         /\ \A x \in ls : LinkedTo(x)'
<1>1. ASSUME NEW o \in PlannedIds
      PROVE  /\ portal'[o] \in RecordType /\ portal'[o].order = portal[o].order
             /\ portal'[o].lines = portal[o].lines
             /\ portal'[o].linked = portal[o].linked \cup {l \in PlanLines[o] : <<o, l>> \in ls}
  <2> DEFINE new == portal[o].linked \cup {l \in PlanLines[o] : <<o, l>> \in ls}
  <2>1. portal'[o] = [portal[o] EXCEPT !.linked = new]
    BY DEF WithLinks
  <2>2. new \subseteq AnyLine /\ portal[o] \in RecordType
    BY DEF AnyLine, EmitTypeOK, RecordType
  <2> HIDE DEF new
  <2>3. /\ portal'[o] \in RecordType /\ portal'[o].order = portal[o].order
        /\ portal'[o].lines = portal[o].lines /\ portal'[o].linked = new
    BY <2>1, <2>2 DEF RecordType
  <2> QED  BY <2>3 DEF new
<1>2. DOMAIN portal' = PlannedIds /\ portal' = [o \in PlannedIds |-> portal'[o]]
  BY DEF WithLinks
<1>3. portal' \in [PlannedIds -> RecordType]
  BY <1>1, <1>2
<1>4. ASSUME NEW x \in ls PROVE x[2] \in portal'[x[1]].linked
  BY <1>1, <1>4, PairOf
<1> QED
  BY <1>1, <1>3, <1>4 DEF PortalGrows, PortalSafe, LinkedTo

\* While HubSpot gains, its records stay planned ones, and what the file says
\* stays so.
LEMMA WorldKept ==
  ASSUME EmSafe, PortalGrows, portal' \in [PlannedIds -> RecordType],
         \A o \in PlannedIds : portal'[o].lines \subseteq PlanLines[o] /\ portal'[o].linked \subseteq PlanLines[o],
         UNCHANGED <<searched, monthLedger>>, unlinked \subseteq unlinked'
  PROVE  PortalSafe' /\ MonthSafe'
<1>1. PortalSafe'
  BY DEF EmSafe, PortalSafe, PortalGrows
<1>2. \A o \in PlannedIds : Whole(o) => Whole(o)'
  BY DEF Whole, PortalGrows, EmSafe, PortalSafe
<1> QED
  BY <1>1, <1>2 DEF EmSafe, MonthSafe, PortalGrows

\* A run that is over keeps nothing in memory.
LEMMA NotRunningSafe ==
  ASSUME emit' = NotRunning
  PROVE  emit' \in EmitType /\ NoneLost' /\ RunSafe'
  BY DEF NotRunning, EmitType, EmitPcs, NoneLost, RunSafe, Repairing, InChunk

\* The initial state: nothing is created and nothing runs.
LEMMA EmInitSafe == EmInit => EmSafe
<1> SUFFICES ASSUME EmInit PROVE EmSafe
  OBVIOUS
<1>1. EmitTypeOK
  BY DEF EmInit, EmitTypeOK, RecordType, Nothing, NotRunning, EmitType, EmitPcs
<1>2. PortalSafe /\ MonthSafe
  BY DEF EmInit, PortalSafe, MonthSafe, Nothing
<1>3. NoneLost /\ RunSafe
  BY DEF EmInit, NotRunning, NoneLost, RunSafe, Repairing, InChunk
<1> QED  BY <1>1, <1>2, <1>3 DEF EmSafe

-----------------------------------------------------------------------------
\* A step that leaves HubSpot, the file and the history alone needs to be safe in
\* the run only.
LEMMA RunStepSafe ==
  ASSUME EmSafe, UNCHANGED <<portal, searched, monthLedger, unlinked>>, emit' \in EmitType,
         NoneLost', RunSafe'
  PROVE  EmSafe'
<1>1. EmitTypeOK'
  BY DEF EmSafe, EmitTypeOK
<1>2. PortalSafe' /\ MonthSafe'
  BY DEF EmSafe, PortalSafe, MonthSafe, Whole
<1> QED  BY <1>1, <1>2 DEF EmSafe

\* So does one by which HubSpot gains.
LEMMA SendStepSafe ==
  ASSUME EmSafe, PortalGrows, portal' \in [PlannedIds -> RecordType],
         \A o \in PlannedIds : portal'[o].lines \subseteq PlanLines[o] /\ portal'[o].linked \subseteq PlanLines[o],
         UNCHANGED <<searched, monthLedger>>, unlinked \subseteq unlinked', unlinked' \subseteq PlannedIds,
         emit' \in EmitType, NoneLost', RunSafe'
  PROVE  EmSafe'
<1>1. EmitTypeOK'
  BY DEF EmSafe, EmitTypeOK
<1> QED  BY <1>1, WorldKept DEF EmSafe

\* A search that catches up shows what HubSpot has.
LEMMA SearchCatchesUpSafe == ASSUME EmSafe, SearchCatchesUp PROVE EmSafe'
<1>1. PICK o \in PlannedIds : searched' = [searched EXCEPT ![o] = portal[o]]
  BY DEF SearchCatchesUp
<1>2. UNCHANGED <<portal, monthLedger, emit, unlinked>>
  BY DEF SearchCatchesUp
<1>3. EmitTypeOK' /\ PortalSafe'
  BY <1>1, <1>2 DEF EmSafe, EmitTypeOK, PortalSafe
<1>4. MonthSafe' /\ NoneLost' /\ RunSafe'
  BY <1>2 DEF EmSafe, MonthSafe, Whole, NoneLost, RunSafe, HasLine, LinkedTo
<1> QED  BY <1>3, <1>4 DEF EmSafe

\* A run starts with every order that is not done.
LEMMA StartMonthSafe == ASSUME EmSafe, StartMonth PROVE EmSafe'
<1> DEFINE fresh == {o \in PlannedIds : monthLedger[o] = "none"}
           made == {o \in PlannedIds : monthLedger[o] = "created"}
<1>1. /\ emit' = [NotRunning EXCEPT !.pc = "repair", !.todo = fresh, !.repairs = made]
      /\ UNCHANGED <<portal, searched, monthLedger, unlinked>>
  BY DEF StartMonth
<1>2. /\ emit'.pc = "repair" /\ emit'.todo = fresh /\ emit'.repairs = made /\ emit'.chunk = {}
      /\ emit'.repaired = {} /\ emit'.lines = {} /\ emit'.have = {}
  BY <1>1 DEF NotRunning
<1>3. emit' \in EmitType
  BY <1>1 DEF NotRunning, EmitType, EmitPcs
<1>4. NoneLost'
  BY <1>1, <1>2 DEF NoneLost, EmSafe, EmitTypeOK
<1>5. RunSafe'
  BY <1>1, <1>2 DEF RunSafe, Repairing, InChunk, EmSafe, MonthSafe
<1> QED  BY <1>1, <1>3, <1>4, <1>5, RunStepSafe

\* A repair of an order that exists takes all its line items in hand.
LEMMA RepairOrderSafe == ASSUME EmSafe, RepairOrder PROVE EmSafe'
<1>1. PICK o \in emit.repairs, seen \in BOOLEAN :
          LET have == IF seen THEN searched[o].lines ELSE {} IN
          /\ MarkMonth(o, "created")
          /\ emit' = [emit EXCEPT !.pc = "repairlines", !.repairs = @ \ {o},
                                  !.repaired = {o},
                                  !.have = LinesOf({o}) \cap {<<o, l>> : l \in have},
                                  !.lines = LinesOf({o}) \ {<<o, l>> : l \in have}]
  BY DEF RepairOrder
<1> DEFINE visible == {<<o, l>> : l \in IF seen THEN searched[o].lines ELSE {}}
           here == LinesOf({o}) \cap visible
           rest == LinesOf({o}) \ visible
<1>2. /\ emit' = [emit EXCEPT !.pc = "repairlines", !.repairs = @ \ {o}, !.repaired = {o},
                              !.have = here, !.lines = rest]
      /\ monthLedger' = [monthLedger EXCEPT ![o] = "created"]
      /\ UNCHANGED <<portal, searched, unlinked>> /\ emit.pc = "repair"
  BY <1>1 DEF RepairOrder, MarkMonth
<1>3. o \in PlannedIds /\ portal[o].order /\ emit \in EmitType /\ emit.repaired = {}
  BY <1>2 DEF EmSafe, EmitTypeOK, EmitType, RunSafe, Repairing
<1>4. LinesOf({o}) \subseteq LinesOf(PlannedIds) /\ LinesOf({o}) = here \cup rest
  BY <1>3 DEF LinesOf
<1>5. \A x \in here : x[2] \in portal[x[1]].lines
  BY <1>3 DEF EmSafe, PortalSafe
<1> HIDE DEF here, rest
<1>6. /\ emit'.pc = "repairlines" /\ emit'.repairs = emit.repairs \ {o} /\ emit'.repaired = {o}
      /\ emit'.have = here /\ emit'.lines = rest /\ emit'.todo = emit.todo /\ emit'.chunk = emit.chunk
  BY <1>2, <1>3 DEF EmitType
<1>7. emit' \in EmitType
  BY <1>2, <1>3, <1>4 DEF EmitType, EmitPcs
<1>8. EmitTypeOK'
  BY <1>2, <1>7 DEF EmSafe, EmitTypeOK
<1>9. PortalSafe' /\ MonthSafe'
  BY <1>2, <1>3 DEF EmSafe, PortalSafe, MonthSafe, Whole, EmitTypeOK
<1>10. NoneLost'
  BY <1>2, <1>3, <1>6 DEF EmSafe, EmitTypeOK, NoneLost
<1>11. RunSafe'
  BY <1>2, <1>3, <1>4, <1>5, <1>6 DEF EmSafe, RunSafe, Repairing, InChunk, HasLine
<1> QED  BY <1>8, <1>9, <1>10, <1>11 DEF EmSafe

\* Line items sent for an order under repair.
LEMMA RepairLinesSafe == ASSUME EmSafe, RepairLines PROVE EmSafe'
<1>1. PICK c \in Outcomes(\E x \in emit.lines : HasLine(x)) :
          /\ portal' = IF c.sent THEN WithLines(emit.lines) ELSE portal
          /\ emit' = CASE c.answer = "ok" -> [emit EXCEPT !.lines = {}, !.have = @ \cup emit.lines]
                       [] c.answer = "exists" -> [emit EXCEPT !.pc = "repairone"]
                       [] OTHER -> NotRunning
  BY DEF RepairLines
<1>2. /\ emit.pc = "repairlines" /\ emit \in EmitType /\ unlinked \subseteq PlannedIds
      /\ UNCHANGED <<searched, monthLedger, unlinked>>
  BY DEF RepairLines, EmSafe, EmitTypeOK
<1>3. /\ c.answer \in {"ok", "exists", "failed"} /\ c.sent \in BOOLEAN /\ (c.answer = "ok" => c.sent)
  BY OutcomeTells
<1>4. /\ portal' \in [PlannedIds -> RecordType] /\ PortalGrows
      /\ \A o \in PlannedIds : portal'[o].lines \subseteq PlanLines[o] /\ portal'[o].linked \subseteq PlanLines[o]
      /\ c.sent => \A x \in emit.lines : HasLine(x)'
  <2>1. CASE c.sent
    <3>1. emit.lines \in SUBSET LinesOf(PlannedIds) /\ portal' = WithLines(emit.lines)
      BY <1>1, <1>2, <2>1 DEF EmitType
    <3> QED  BY <2>1, <3>1, WithLinesGrows DEF EmSafe, PortalSafe
  <2>2. CASE ~c.sent
    BY <1>1, <2>2 DEF EmSafe, EmitTypeOK, PortalSafe, PortalGrows
  <2> QED  BY <1>3, <2>1, <2>2
<1>5. \A x \in LinesOf(PlannedIds) : HasLine(x) => HasLine(x)'
  BY <1>4, PairOf DEF HasLine, PortalGrows
<1>6. CASE c.answer = "ok"
  <2>1. emit' = [emit EXCEPT !.lines = {}, !.have = @ \cup emit.lines]
    BY <1>1, <1>6
  <2>2. /\ emit'.pc = emit.pc /\ emit'.lines = {} /\ emit'.have = emit.have \cup emit.lines
        /\ emit'.todo = emit.todo /\ emit'.chunk = emit.chunk /\ emit'.repairs = emit.repairs
        /\ emit'.repaired = emit.repaired /\ emit' \in EmitType
    BY <1>2, <2>1 DEF EmitType
  <2>3. NoneLost'
    BY <1>2, <2>2 DEF EmSafe, NoneLost
  <2>4. \A x \in emit'.have : HasLine(x)'
    BY <1>2, <1>3, <1>4, <1>5, <1>6, <2>2 DEF EmSafe, RunSafe, EmitType
  <2>5. RunSafe'
    BY <1>2, <1>4, <2>2, <2>4 DEF EmSafe, RunSafe, Repairing, InChunk, PortalGrows, EmitType
  <2> QED  BY <1>2, <1>4, <2>2, <2>3, <2>5, SendStepSafe
<1>7. CASE c.answer = "exists"
  <2>1. emit' = [emit EXCEPT !.pc = "repairone"]
    BY <1>1, <1>7
  <2>2. /\ emit'.pc = "repairone" /\ emit'.lines = emit.lines /\ emit'.have = emit.have
        /\ emit'.todo = emit.todo /\ emit'.chunk = emit.chunk /\ emit'.repairs = emit.repairs
        /\ emit'.repaired = emit.repaired /\ emit' \in EmitType
    BY <1>2, <2>1 DEF EmitType, EmitPcs
  <2>3. NoneLost'
    BY <1>2, <2>2 DEF EmSafe, NoneLost
  <2>4. \A x \in emit'.have : HasLine(x)'
    BY <1>2, <1>5, <2>2 DEF EmSafe, RunSafe, EmitType
  <2>5. RunSafe'
    BY <1>2, <1>4, <2>2, <2>4 DEF EmSafe, RunSafe, Repairing, InChunk, PortalGrows, EmitType
  <2> QED  BY <1>2, <1>4, <2>2, <2>3, <2>5, SendStepSafe
<1>8. CASE c.answer = "failed"
  <2>1. emit' = NotRunning
    BY <1>1, <1>8
  <2> QED  BY <1>2, <1>4, <2>1, NotRunningSafe, SendStepSafe
<1> QED  BY <1>3, <1>6, <1>7, <1>8

\* One at a time: a line item that exists is taken with its id.
LEMMA RepairOneSafe == ASSUME EmSafe, RepairOne PROVE EmSafe'
<1>0. PICK x \in emit.lines : \E c \in Outcomes(HasLine(x)) :
          /\ portal' = IF c.sent THEN WithLines({x}) ELSE portal
          /\ emit' = IF c.answer = "failed" THEN NotRunning
                     ELSE [emit EXCEPT !.lines = @ \ {x}, !.have = @ \cup {x},
                                       !.pc = IF emit.lines = {x} THEN "repairlines" ELSE @]
  BY DEF RepairOne
<1>1. PICK c \in Outcomes(HasLine(x)) :
          /\ portal' = IF c.sent THEN WithLines({x}) ELSE portal
          /\ emit' = IF c.answer = "failed" THEN NotRunning
                     ELSE [emit EXCEPT !.lines = @ \ {x}, !.have = @ \cup {x},
                                       !.pc = IF emit.lines = {x} THEN "repairlines" ELSE @]
  BY <1>0
<1>2. /\ emit.pc = "repairone" /\ emit \in EmitType /\ unlinked \subseteq PlannedIds
      /\ UNCHANGED <<searched, monthLedger, unlinked>> /\ x \in LinesOf(PlannedIds)
  BY DEF RepairOne, EmSafe, EmitTypeOK, EmitType
<1>3. /\ c.answer \in {"ok", "exists", "failed"} /\ c.sent \in BOOLEAN /\ (c.answer = "ok" => c.sent)
      /\ (c.answer = "exists" => c.sent \/ HasLine(x))
  <2>1. HasLine(x) \in BOOLEAN
    BY DEF HasLine
  <2> QED  BY <2>1, OutcomeTells
<1>4. /\ portal' \in [PlannedIds -> RecordType] /\ PortalGrows
      /\ \A o \in PlannedIds : portal'[o].lines \subseteq PlanLines[o] /\ portal'[o].linked \subseteq PlanLines[o]
      /\ c.sent => HasLine(x)'
  <2>1. CASE c.sent
    <3>1. {x} \in SUBSET LinesOf(PlannedIds) /\ portal' = WithLines({x})
      BY <1>1, <1>2, <2>1
    <3> QED  BY <2>1, <3>1, WithLinesGrows DEF EmSafe, PortalSafe
  <2>2. CASE ~c.sent
    BY <1>1, <2>2 DEF EmSafe, EmitTypeOK, PortalSafe, PortalGrows
  <2> QED  BY <1>3, <2>1, <2>2
<1>5. \A y \in LinesOf(PlannedIds) : HasLine(y) => HasLine(y)'
  BY <1>4, PairOf DEF HasLine, PortalGrows
<1>6. CASE c.answer # "failed"
  <2> DEFINE stage == IF emit.lines = {x} THEN "repairlines" ELSE emit.pc
  <2>1. emit' = [emit EXCEPT !.lines = emit.lines \ {x}, !.have = emit.have \cup {x}, !.pc = stage]
    BY <1>1, <1>6
  <2>2. stage \in {"repairlines", "repairone"}
    BY <1>2
  <2> HIDE DEF stage
  <2>3. /\ emit'.pc = stage /\ emit'.lines = emit.lines \ {x} /\ emit'.have = emit.have \cup {x}
        /\ emit'.todo = emit.todo /\ emit'.chunk = emit.chunk /\ emit'.repairs = emit.repairs
        /\ emit'.repaired = emit.repaired /\ emit' \in EmitType
    BY <1>2, <2>1, <2>2 DEF EmitType, EmitPcs
  <2>4. NoneLost'
    BY <1>2, <2>3 DEF EmSafe, NoneLost
  <2>5. \A y \in emit'.have : HasLine(y)'
    BY <1>2, <1>3, <1>4, <1>5, <1>6, <2>3 DEF EmSafe, RunSafe, EmitType
  <2>6. emit.have \cup emit.lines = emit'.have \cup emit'.lines
    BY <2>3
  <2>7. RunSafe'
    BY <1>2, <1>4, <2>2, <2>3, <2>5, <2>6 DEF EmSafe, RunSafe, Repairing, InChunk, PortalGrows, EmitType
  <2> QED  BY <1>2, <1>4, <2>3, <2>4, <2>7, SendStepSafe
<1>7. CASE c.answer = "failed"
  <2>1. emit' = NotRunning
    BY <1>1, <1>7
  <2> QED  BY <1>2, <1>4, <2>1, NotRunningSafe, SendStepSafe
<1> QED  BY <1>6, <1>7

\* The associations of a repaired order, or the history of the call that failed.
LEMMA RepairLinksSafe == ASSUME EmSafe, RepairLinks PROVE EmSafe'
<1>1. /\ emit.pc = "repairlines" /\ emit.lines = {} /\ emit \in EmitType
      /\ emit' = [emit EXCEPT !.pc = "repaired"] /\ UNCHANGED <<searched, monthLedger>>
      /\ \/ portal' = WithLinks(emit.have) /\ UNCHANGED unlinked
         \/ unlinked' = unlinked \cup emit.repaired /\ UNCHANGED portal
  BY DEF RepairLinks, Goes, EmSafe, EmitTypeOK
<1>2. PICK o \in PlannedIds : /\ emit.repaired = {o} /\ portal[o].order
                              /\ LinesOf({o}) = emit.have \cup emit.lines
  BY <1>1 DEF EmSafe, RunSafe, Repairing
<1>3. emit.have \in SUBSET LinesOf(PlannedIds) /\ unlinked \subseteq PlannedIds
  BY <1>1 DEF EmitType, EmSafe, EmitTypeOK
<1>4. /\ portal' \in [PlannedIds -> RecordType] /\ PortalGrows
      /\ \A p \in PlannedIds : portal'[p].lines \subseteq PlanLines[p] /\ portal'[p].linked \subseteq PlanLines[p]
      /\ unlinked \subseteq unlinked' /\ unlinked' \subseteq PlannedIds
      /\ \A x \in emit.have : LinkedTo(x)' \/ x[1] \in unlinked'
  <2>1. CASE portal' = WithLinks(emit.have) /\ UNCHANGED unlinked
    BY <2>1, <1>3, WithLinksGrows DEF EmSafe, PortalSafe
  <2>2. CASE unlinked' = unlinked \cup emit.repaired /\ UNCHANGED portal
    <3>1. \A x \in emit.have : x[1] = o
      BY <1>2, LinesOfPairs
    <3>2. /\ portal' \in [PlannedIds -> RecordType] /\ PortalGrows
          /\ \A p \in PlannedIds : portal'[p].lines \subseteq PlanLines[p] /\ portal'[p].linked \subseteq PlanLines[p]
      BY <2>2 DEF EmSafe, EmitTypeOK, PortalSafe, PortalGrows
    <3> QED  BY <2>2, <1>2, <1>3, <3>1, <3>2
  <2> QED  BY <1>1, <2>1, <2>2
<1>5. \A x \in LinesOf(PlannedIds) : HasLine(x) => HasLine(x)'
  BY <1>4, PairOf DEF HasLine, PortalGrows
<1>6. /\ emit'.pc = "repaired" /\ emit'.lines = emit.lines /\ emit'.have = emit.have
      /\ emit'.todo = emit.todo /\ emit'.chunk = emit.chunk /\ emit'.repairs = emit.repairs
      /\ emit'.repaired = emit.repaired /\ emit' \in EmitType
  BY <1>1 DEF EmitType, EmitPcs
<1>7. NoneLost'
  BY <1>1, <1>6 DEF EmSafe, NoneLost
<1>8. \A x \in emit'.have : HasLine(x)'
  BY <1>3, <1>5, <1>6 DEF EmSafe, RunSafe
<1>9. RunSafe'
  BY <1>1, <1>2, <1>4, <1>6, <1>8 DEF EmSafe, RunSafe, Repairing, InChunk, PortalGrows, EmitType
<1> QED  BY <1>1, <1>4, <1>6, <1>7, <1>9, SendStepSafe

\* An order is called done once all its line items have an id and the call for
\* their associations is over.
LEMMA RepairDoneSafe == ASSUME EmSafe, RepairDone PROVE EmSafe'
<1>1. PICK o \in PlannedIds : /\ emit.repaired = {o} /\ portal[o].order
                              /\ LinesOf({o}) = emit.have \cup emit.lines
  BY DEF RepairDone, EmSafe, RunSafe, Repairing
<1>2. /\ emit.pc = "repaired" /\ emit \in EmitType /\ UNCHANGED <<portal, searched, unlinked>>
      /\ monthLedger' = [monthLedger EXCEPT ![o] = "done"]
      /\ emit' = [emit EXCEPT !.pc = "repair", !.repaired = {}, !.have = {}]
  BY <1>1 DEF RepairDone, MarkMonth, EmSafe, EmitTypeOK
<1>3. /\ emit'.pc = "repair" /\ emit'.lines = emit.lines /\ emit'.have = {}
      /\ emit'.todo = emit.todo /\ emit'.chunk = emit.chunk /\ emit'.repairs = emit.repairs
      /\ emit'.repaired = {} /\ emit' \in EmitType
  BY <1>2 DEF EmitType, EmitPcs
<1>4. Whole(o)
  <2>1. \A l \in PlanLines[o] : <<o, l>> \in emit.have
    BY <1>1, <1>2, LinesOfPairs DEF EmSafe, RunSafe
  <2>2. \A l \in PlanLines[o] : l \in portal[o].lines /\ (l \in portal[o].linked \/ o \in unlinked)
    <3> TAKE l \in PlanLines[o]
    <3>1. HasLine(<<o, l>>) /\ (LinkedTo(<<o, l>>) \/ <<o, l>>[1] \in unlinked)
      BY <1>2, <2>1 DEF EmSafe, RunSafe
    <3> QED  BY <3>1 DEF HasLine, LinkedTo
  <2> QED  BY <1>1, <2>2 DEF Whole, EmSafe, PortalSafe
<1>5. EmitTypeOK'
  BY <1>2, <1>3 DEF EmSafe, EmitTypeOK
<1>6. PortalSafe' /\ MonthSafe'
  BY <1>1, <1>2, <1>4 DEF EmSafe, PortalSafe, MonthSafe, Whole, EmitTypeOK
<1>7. NoneLost'
  BY <1>1, <1>2, <1>3 DEF EmSafe, NoneLost, EmitTypeOK
<1>8. RunSafe'
  BY <1>2, <1>3 DEF EmSafe, RunSafe, Repairing, InChunk
<1> QED  BY <1>5, <1>6, <1>7, <1>8 DEF EmSafe

\* The next chunk is taken off what is to come.
LEMMA NextChunkSafe == ASSUME EmSafe, NextChunk PROVE EmSafe'
<1> DEFINE next == FirstPlanned(emit.todo, ChunkOrders)
<1>1. /\ emit.pc = "repair" /\ emit.repairs = {} /\ emit \in EmitType /\ emit.repaired = {}
      /\ UNCHANGED <<portal, searched, monthLedger, unlinked>>
      /\ emit' = IF emit.chunk # {} THEN [emit EXCEPT !.pc = "orders"]
                 ELSE IF emit.todo = {} THEN [NotRunning EXCEPT !.pc = "emitted"]
                 ELSE [emit EXCEPT !.pc = "orders", !.chunk = next, !.todo = emit.todo \ next]
  BY DEF NextChunk, EmSafe, EmitTypeOK, RunSafe, Repairing
<1>2. next \subseteq emit.todo
  BY FirstAreSome
<1> HIDE DEF next
<1>3. CASE emit.chunk = {} /\ emit.todo = {}
  <2>1. emit' = [NotRunning EXCEPT !.pc = "emitted"]
    BY <1>1, <1>3
  <2>2. /\ emit'.pc = "emitted" /\ emit'.lines = {} /\ emit'.have = {} /\ emit'.todo = {}
        /\ emit'.chunk = {} /\ emit'.repairs = {} /\ emit'.repaired = {} /\ emit' \in EmitType
    BY <2>1 DEF NotRunning, EmitType, EmitPcs
  <2>3. NoneLost' /\ RunSafe'
    BY <1>1, <1>3, <2>2 DEF EmSafe, NoneLost, RunSafe, Repairing, InChunk
  <2> QED  BY <1>1, <2>2, <2>3, RunStepSafe
<1>4. CASE emit.chunk # {} \/ emit.todo # {}
  <2>1. /\ emit'.pc = "orders" /\ emit'.lines = emit.lines /\ emit'.have = emit.have
        /\ emit'.todo \cup emit'.chunk = emit.todo \cup emit.chunk
        /\ emit'.repairs = emit.repairs /\ emit'.repaired = emit.repaired /\ emit' \in EmitType
    <3>1. CASE emit.chunk # {}
      <4>1. emit' = [emit EXCEPT !.pc = "orders"]
        BY <1>1, <3>1
      <4> QED  BY <1>1, <4>1 DEF EmitType, EmitPcs
    <3>2. CASE emit.chunk = {}
      <4>1. emit' = [emit EXCEPT !.pc = "orders", !.chunk = next, !.todo = emit.todo \ next]
        BY <1>1, <1>4, <3>2
      <4> QED  BY <1>1, <1>2, <3>2, <4>1 DEF EmitType, EmitPcs
    <3> QED  BY <3>1, <3>2
  <2>2. NoneLost' /\ RunSafe'
    BY <1>1, <2>1 DEF EmSafe, NoneLost, RunSafe, Repairing, InChunk, HasLine
  <2> QED  BY <1>1, <2>1, <2>2, RunStepSafe
<1> QED  BY <1>3, <1>4

\* The orders of the chunk, created all or none.
LEMMA EmitOrdersSafe == ASSUME EmSafe, EmitOrders PROVE EmSafe'
<1> DEFINE taken == [o \in PlannedIds |-> [portal[o] EXCEPT !.order = @ \/ o \in emit.chunk]]
<1>0. PICK c \in Outcomes(\E o \in emit.chunk : portal[o].order) :
          /\ portal' = IF ~c.sent THEN portal ELSE taken
          /\ emit' = CASE c.answer = "ok" -> [emit EXCEPT !.pc = "mark"]
                       [] c.answer = "exists" -> [emit EXCEPT !.pc = "scan"]
                       [] OTHER -> NotRunning
  BY DEF EmitOrders
<1>1. /\ emit.pc = "orders" /\ emit \in EmitType /\ unlinked \subseteq PlannedIds
      /\ UNCHANGED <<searched, monthLedger, unlinked>> /\ emit.chunk \subseteq PlannedIds
      /\ portal \in [PlannedIds -> RecordType]
  BY DEF EmitOrders, EmSafe, EmitTypeOK, EmitType
<1>2. /\ c.answer \in {"ok", "exists", "failed"} /\ c.sent \in BOOLEAN /\ (c.answer = "ok" => c.sent)
  BY OutcomeTells
<1>3. \A o \in PlannedIds :
         /\ taken[o] \in RecordType /\ taken[o].lines = portal[o].lines /\ taken[o].linked = portal[o].linked
         /\ taken[o].order <=> portal[o].order \/ o \in emit.chunk
  <2> TAKE o \in PlannedIds
  <2> DEFINE b == portal[o].order \/ o \in emit.chunk
  <2>1. taken[o] = [portal[o] EXCEPT !.order = b] /\ portal[o] \in RecordType /\ b \in BOOLEAN
    BY <1>1
  <2> HIDE DEF taken, b
  <2>2. taken[o] \in RecordType /\ taken[o].lines = portal[o].lines /\ taken[o].linked = portal[o].linked
        /\ taken[o].order = b
    BY <2>1 DEF RecordType
  <2> QED  BY <2>2 DEF b
<1>4. taken \in [PlannedIds -> RecordType]
  BY <1>3
<1> HIDE DEF taken
<1>5. /\ portal' \in [PlannedIds -> RecordType] /\ PortalGrows
      /\ \A o \in PlannedIds : portal'[o].lines \subseteq PlanLines[o] /\ portal'[o].linked \subseteq PlanLines[o]
      /\ c.sent => \A o \in emit.chunk : portal'[o].order
  <2>1. CASE c.sent
    BY <1>0, <1>1, <1>3, <1>4, <2>1 DEF PortalGrows, EmSafe, PortalSafe
  <2>2. CASE ~c.sent
    BY <1>0, <1>1, <2>2 DEF EmSafe, PortalSafe, PortalGrows
  <2> QED  BY <1>2, <2>1, <2>2
<1>6. \A x \in LinesOf(PlannedIds) : HasLine(x) => HasLine(x)'
  BY <1>5, PairOf DEF HasLine, PortalGrows
<1>7. ASSUME NEW stage \in {"mark", "scan"}, emit' = [emit EXCEPT !.pc = stage], stage = "mark" => c.sent
      PROVE  EmSafe'
  <2>1. /\ emit'.pc = stage /\ emit'.lines = emit.lines /\ emit'.have = emit.have
        /\ emit'.todo = emit.todo /\ emit'.chunk = emit.chunk /\ emit'.repairs = emit.repairs
        /\ emit'.repaired = emit.repaired /\ emit' \in EmitType
    BY <1>1, <1>7 DEF EmitType, EmitPcs
  <2>2. NoneLost'
    BY <1>1, <2>1 DEF EmSafe, NoneLost
  <2>3. \A x \in emit'.have : HasLine(x)'
    BY <1>1, <1>6, <2>1 DEF EmSafe, RunSafe, EmitType
  <2>4. RunSafe'
    BY <1>1, <1>5, <1>7, <2>1, <2>3 DEF EmSafe, RunSafe, Repairing, InChunk, PortalGrows, EmitType
  <2> QED  BY <1>1, <1>5, <2>1, <2>2, <2>4, SendStepSafe
<1>8. CASE c.answer = "ok"
  BY <1>0, <1>2, <1>7, <1>8
<1>9. CASE c.answer = "exists"
  BY <1>0, <1>7, <1>9
<1>10. CASE c.answer = "failed"
  <2>1. emit' = NotRunning
    BY <1>0, <1>10
  <2> QED  BY <1>1, <1>5, <2>1, NotRunningSafe, SendStepSafe
<1> QED  BY <1>2, <1>8, <1>9, <1>10

\* The scan repairs the orders of the chunk it finds and keeps the others.
LEMMA ScanLostSafe == ASSUME EmSafe, ScanLost PROVE EmSafe'
<1> DEFINE existing == {o \in emit.chunk : searched[o].order}
<1>1. /\ emit.pc = "scan" /\ emit \in EmitType /\ emit.repairs = {} /\ emit.repaired = {}
      /\ UNCHANGED <<portal, searched, monthLedger, unlinked>>
      /\ \/ emit' = NotRunning
         \/ emit' = [emit EXCEPT !.pc = "repair", !.repairs = existing, !.chunk = emit.chunk \ existing]
  BY DEF ScanLost, Remainder, EmSafe, EmitTypeOK, RunSafe, InChunk, Repairing
<1>2. existing \subseteq emit.chunk /\ emit.chunk \subseteq PlannedIds /\ \A o \in existing : portal[o].order
  BY <1>1 DEF EmitType, EmSafe, PortalSafe
<1> HIDE DEF existing
<1>3. CASE emit' = NotRunning
  BY <1>1, <1>3, NotRunningSafe, RunStepSafe
<1>4. CASE emit' = [emit EXCEPT !.pc = "repair", !.repairs = existing, !.chunk = emit.chunk \ existing]
  <2>1. /\ emit'.pc = "repair" /\ emit'.lines = emit.lines /\ emit'.have = emit.have
        /\ emit'.todo = emit.todo /\ emit'.chunk = emit.chunk \ existing /\ emit'.repairs = existing
        /\ emit'.repaired = emit.repaired /\ emit' \in EmitType
    BY <1>1, <1>2, <1>4 DEF EmitType, EmitPcs
  <2>2. NoneLost' /\ RunSafe'
    BY <1>1, <1>2, <2>1 DEF EmSafe, NoneLost, RunSafe, Repairing, InChunk, HasLine
  <2> QED  BY <1>1, <2>1, <2>2, RunStepSafe
<1> QED  BY <1>1, <1>3, <1>4

\* An order of the chunk is called created after HubSpot took the chunk.
LEMMA MarkCreatedSafe == ASSUME EmSafe, MarkCreated PROVE EmSafe'
<1>1. PICK o \in FirstPlanned(Unmarked("created"), 1) : monthLedger' = [monthLedger EXCEPT ![o] = "created"]
  BY DEF MarkCreated, MarkMonth
<1>2. o \in emit.chunk
  BY <1>1, FirstAreSome DEF Unmarked
<1>3. emit.pc = "mark" /\ emit \in EmitType /\ UNCHANGED <<portal, searched, emit, unlinked>>
  BY DEF MarkCreated, EmSafe, EmitTypeOK
<1>4. o \in PlannedIds /\ portal[o].order
  BY <1>2, <1>3 DEF EmitType, EmSafe, RunSafe
<1>5. EmitTypeOK'
  BY <1>1, <1>3 DEF EmSafe, EmitTypeOK
<1>6. PortalSafe' /\ MonthSafe'
  BY <1>1, <1>3, <1>4 DEF EmSafe, PortalSafe, MonthSafe, Whole, EmitTypeOK
<1>7. NoneLost'
  BY <1>1, <1>2, <1>3 DEF EmSafe, NoneLost, EmitTypeOK
<1>8. RunSafe'
  BY <1>3 DEF EmSafe, RunSafe, HasLine, LinkedTo
<1> QED  BY <1>5, <1>6, <1>7, <1>8 DEF EmSafe

\* All are called created: their line items are next.
LEMMA AllCreatedSafe == ASSUME EmSafe, AllCreated PROVE EmSafe'
<1> DEFINE all == LinesOf(emit.chunk)
<1>1. /\ emit.pc = "mark" /\ emit \in EmitType /\ emit.repairs = {} /\ emit.repaired = {}
      /\ UNCHANGED <<portal, searched, monthLedger, unlinked>>
      /\ emit' = [emit EXCEPT !.pc = "lines", !.lines = all]
  BY DEF AllCreated, EmSafe, EmitTypeOK, RunSafe, InChunk, Repairing
<1>2. all \subseteq LinesOf(PlannedIds)
  BY <1>1 DEF LinesOf, EmitType
<1>3. /\ emit'.pc = "lines" /\ emit'.lines = all /\ emit'.have = emit.have
      /\ emit'.todo = emit.todo /\ emit'.chunk = emit.chunk /\ emit'.repairs = emit.repairs
      /\ emit'.repaired = emit.repaired /\ emit' \in EmitType
  <2> HIDE DEF all
  <2> QED  BY <1>1, <1>2 DEF EmitType, EmitPcs
<1>4. NoneLost' /\ RunSafe'
  BY <1>1, <1>3 DEF EmSafe, NoneLost, RunSafe, Repairing, InChunk, HasLine
<1> QED  BY <1>1, <1>3, <1>4, RunStepSafe

\* A batch of line items of the chunk.
LEMMA EmitLinesSafe == ASSUME EmSafe, EmitLines PROVE EmSafe'
<1>0. PICK batch \in SUBSET emit.lines \ {{}} :
          \E c \in Outcomes(\E x \in batch : HasLine(x)) :
              /\ portal' = IF c.sent THEN WithLines(batch) ELSE portal
              /\ emit' = IF c.answer = "ok"
                         THEN [emit EXCEPT !.lines = @ \ batch, !.have = @ \cup batch]
                         ELSE NotRunning
  BY DEF EmitLines
<1>1. PICK c \in Outcomes(\E x \in batch : HasLine(x)) :
          /\ portal' = IF c.sent THEN WithLines(batch) ELSE portal
          /\ emit' = IF c.answer = "ok"
                     THEN [emit EXCEPT !.lines = @ \ batch, !.have = @ \cup batch]
                     ELSE NotRunning
  BY <1>0
<1>2. /\ emit.pc = "lines" /\ emit \in EmitType /\ unlinked \subseteq PlannedIds
      /\ UNCHANGED <<searched, monthLedger, unlinked>> /\ batch \subseteq LinesOf(PlannedIds)
  BY DEF EmitLines, EmSafe, EmitTypeOK, EmitType
<1>3. /\ c.answer \in {"ok", "exists", "failed"} /\ c.sent \in BOOLEAN /\ (c.answer = "ok" => c.sent)
  BY OutcomeTells
<1>4. /\ portal' \in [PlannedIds -> RecordType] /\ PortalGrows
      /\ \A o \in PlannedIds : portal'[o].lines \subseteq PlanLines[o] /\ portal'[o].linked \subseteq PlanLines[o]
      /\ c.sent => \A x \in batch : HasLine(x)'
  <2>1. CASE c.sent
    BY <1>1, <1>2, <2>1, WithLinesGrows DEF EmSafe, PortalSafe
  <2>2. CASE ~c.sent
    BY <1>1, <2>2 DEF EmSafe, EmitTypeOK, PortalSafe, PortalGrows
  <2> QED  BY <1>3, <2>1, <2>2
<1>5. \A x \in LinesOf(PlannedIds) : HasLine(x) => HasLine(x)'
  BY <1>4, PairOf DEF HasLine, PortalGrows
<1>6. CASE c.answer = "ok"
  <2>1. emit' = [emit EXCEPT !.lines = emit.lines \ batch, !.have = emit.have \cup batch]
    BY <1>1, <1>6
  <2>2. /\ emit'.pc = "lines" /\ emit'.lines = emit.lines \ batch /\ emit'.have = emit.have \cup batch
        /\ emit'.todo = emit.todo /\ emit'.chunk = emit.chunk /\ emit'.repairs = emit.repairs
        /\ emit'.repaired = emit.repaired /\ emit' \in EmitType
    BY <1>2, <2>1 DEF EmitType, EmitPcs
  <2>3. NoneLost'
    BY <1>2, <2>2 DEF EmSafe, NoneLost
  <2>4. \A x \in emit'.have : HasLine(x)'
    BY <1>2, <1>3, <1>4, <1>5, <1>6, <2>2 DEF EmSafe, RunSafe, EmitType
  <2>5. emit'.lines \cup emit'.have = emit.lines \cup emit.have \cup batch
    BY <2>2
  <2>6. \A o \in emit'.chunk : portal'[o].order
    BY <1>2, <1>4, <2>2 DEF EmSafe, RunSafe, PortalGrows, EmitType
  <2>7. RunSafe'
    BY <1>2, <2>2, <2>4, <2>5, <2>6 DEF EmSafe, RunSafe, Repairing, InChunk
  <2> QED  BY <1>2, <1>4, <2>2, <2>3, <2>7, SendStepSafe
<1>7. CASE c.answer # "ok"
  <2>1. emit' = NotRunning
    BY <1>1, <1>7
  <2> QED  BY <1>2, <1>4, <2>1, NotRunningSafe, SendStepSafe
<1> QED  BY <1>6, <1>7

\* The associations of the chunk: all of them, or the run is over.
LEMMA EmitLinksSafe == ASSUME EmSafe, EmitLinks PROVE EmSafe'
<1>0. PICK batch \in SUBSET emit.have : \E sent \in BOOLEAN :
          /\ portal' = WithLinks(batch)
          /\ emit' = IF batch = emit.have /\ sent THEN [emit EXCEPT !.pc = "finish"] ELSE NotRunning
  BY DEF EmitLinks
<1>1. /\ portal' = WithLinks(batch)
      /\ emit' = NotRunning \/ (batch = emit.have /\ emit' = [emit EXCEPT !.pc = "finish"])
  BY <1>0
<1>2. /\ emit.pc = "lines" /\ emit.lines = {} /\ emit \in EmitType /\ unlinked \subseteq PlannedIds
      /\ UNCHANGED <<searched, monthLedger, unlinked>> /\ batch \in SUBSET LinesOf(PlannedIds)
  BY DEF EmitLinks, EmSafe, EmitTypeOK, EmitType
<1>3. /\ portal' \in [PlannedIds -> RecordType] /\ PortalGrows
      /\ \A o \in PlannedIds : portal'[o].lines \subseteq PlanLines[o] /\ portal'[o].linked \subseteq PlanLines[o]
      /\ \A x \in batch : LinkedTo(x)'
  BY <1>1, <1>2, WithLinksGrows DEF EmSafe, PortalSafe
<1>4. \A x \in LinesOf(PlannedIds) : HasLine(x) => HasLine(x)'
  BY <1>3, PairOf DEF HasLine, PortalGrows
<1>5. CASE batch = emit.have /\ emit' = [emit EXCEPT !.pc = "finish"]
  <2>1. /\ emit'.pc = "finish" /\ emit'.lines = emit.lines /\ emit'.have = emit.have
        /\ emit'.todo = emit.todo /\ emit'.chunk = emit.chunk /\ emit'.repairs = emit.repairs
        /\ emit'.repaired = emit.repaired /\ emit' \in EmitType
    BY <1>2, <1>5 DEF EmitType, EmitPcs
  <2>2. NoneLost'
    BY <1>2, <2>1 DEF EmSafe, NoneLost
  <2>3. \A x \in emit'.have : HasLine(x)' /\ LinkedTo(x)'
    BY <1>2, <1>3, <1>4, <1>5, <2>1 DEF EmSafe, RunSafe, EmitType
  <2>4. \A o \in emit'.chunk : portal'[o].order
    BY <1>2, <1>3, <2>1 DEF EmSafe, RunSafe, PortalGrows, EmitType
  <2>5. RunSafe'
    BY <1>2, <2>1, <2>3, <2>4 DEF EmSafe, RunSafe, Repairing, InChunk
  <2> QED  BY <1>2, <1>3, <2>1, <2>2, <2>5, SendStepSafe
<1>6. CASE emit' = NotRunning
  BY <1>2, <1>3, <1>6, NotRunningSafe, SendStepSafe
<1> QED  BY <1>1, <1>5, <1>6

\* An order of the chunk is called done after all its line items and their
\* associations are in.
LEMMA MarkDoneSafe == ASSUME EmSafe, MarkDone PROVE EmSafe'
<1>1. PICK o \in FirstPlanned(Unmarked("done"), 1) : monthLedger' = [monthLedger EXCEPT ![o] = "done"]
  BY DEF MarkDone, MarkMonth
<1>2. o \in emit.chunk
  BY <1>1, FirstAreSome DEF Unmarked
<1>3. emit.pc = "finish" /\ emit \in EmitType /\ UNCHANGED <<portal, searched, emit, unlinked>>
  BY DEF MarkDone, EmSafe, EmitTypeOK
<1>4. o \in PlannedIds /\ portal[o].order
  BY <1>2, <1>3 DEF EmitType, EmSafe, RunSafe
<1>5. Whole(o)
  <2>1. \A l \in PlanLines[o] : <<o, l>> \in emit.have
    BY <1>2, <1>3, LinesOfPairs DEF EmSafe, RunSafe
  <2>2. \A l \in PlanLines[o] : l \in portal[o].lines /\ l \in portal[o].linked
    <3> TAKE l \in PlanLines[o]
    <3>1. HasLine(<<o, l>>) /\ LinkedTo(<<o, l>>)
      BY <1>3, <2>1 DEF EmSafe, RunSafe
    <3> QED  BY <3>1 DEF HasLine, LinkedTo
  <2> QED  BY <1>4, <2>2 DEF Whole, EmSafe, PortalSafe
<1>6. EmitTypeOK'
  BY <1>1, <1>3 DEF EmSafe, EmitTypeOK
<1>7. PortalSafe' /\ MonthSafe'
  BY <1>1, <1>3, <1>4, <1>5 DEF EmSafe, PortalSafe, MonthSafe, Whole, EmitTypeOK
<1>8. NoneLost'
  BY <1>1, <1>3 DEF EmSafe, NoneLost, EmitTypeOK
<1>9. RunSafe'
  BY <1>3 DEF EmSafe, RunSafe, HasLine, LinkedTo
<1> QED  BY <1>6, <1>7, <1>8, <1>9 DEF EmSafe

\* A chunk whose orders are all done is let go.
LEMMA ChunkDoneSafe == ASSUME EmSafe, ChunkDone PROVE EmSafe'
<1>1. /\ emit.pc = "finish" /\ emit \in EmitType /\ emit.repairs = {} /\ emit.repaired = {}
      /\ emit.lines = {} /\ \A o \in emit.chunk : monthLedger[o] = "done"
      /\ UNCHANGED <<portal, searched, monthLedger, unlinked>>
      /\ emit' = [emit EXCEPT !.pc = "repair", !.chunk = {}, !.have = {}]
  BY DEF ChunkDone, Unmarked, EmSafe, EmitTypeOK, RunSafe, InChunk, Repairing
<1>2. /\ emit'.pc = "repair" /\ emit'.lines = emit.lines /\ emit'.have = {}
      /\ emit'.todo = emit.todo /\ emit'.chunk = {} /\ emit'.repairs = emit.repairs
      /\ emit'.repaired = emit.repaired /\ emit' \in EmitType
  BY <1>1 DEF EmitType, EmitPcs
<1>3. NoneLost' /\ RunSafe'
  BY <1>1, <1>2 DEF EmSafe, NoneLost, RunSafe, Repairing, InChunk
<1> QED  BY <1>1, <1>2, <1>3, RunStepSafe

\* No step of the emission leaves the invariant.
LEMMA EmStepSafe == EmSafe /\ [EmNext]_emVars => EmSafe'
<1> SUFFICES ASSUME EmSafe, [EmNext]_emVars PROVE EmSafe'
  OBVIOUS
<1>1. CASE UNCHANGED emVars
  BY <1>1 DEF emVars, EmSafe, EmitTypeOK, PortalSafe, MonthSafe, Whole, NoneLost, RunSafe, HasLine, LinkedTo
<1>2. CASE EmitStopped
  <2>1. UNCHANGED <<portal, searched, monthLedger, unlinked>> /\ emit' = NotRunning
    BY <1>2 DEF EmitStopped
  <2> QED  BY <2>1, NotRunningSafe, RunStepSafe
<1>3. CASE SearchCatchesUp \/ StartMonth \/ RepairOrder \/ RepairLines \/ RepairOne \/ RepairLinks
  BY <1>3, SearchCatchesUpSafe, StartMonthSafe, RepairOrderSafe, RepairLinesSafe, RepairOneSafe, RepairLinksSafe
<1>4. CASE RepairDone \/ NextChunk \/ EmitOrders \/ ScanLost \/ MarkCreated \/ AllCreated
  BY <1>4, RepairDoneSafe, NextChunkSafe, EmitOrdersSafe, ScanLostSafe, MarkCreatedSafe, AllCreatedSafe
<1>5. CASE EmitLines \/ EmitLinks \/ MarkDone \/ ChunkDone
  BY <1>5, EmitLinesSafe, EmitLinksSafe, MarkDoneSafe, ChunkDoneSafe
<1> QED  BY <1>1, <1>2, <1>3, <1>4, <1>5 DEF EmNext

\* An order the month's file calls done is never looked at again.  For every
\* month, chunk size and number of faults, HubSpot then holds it whole, but for
\* associations whose one call failed unread, and a run that says EMITTED has
\* left no order of the month behind.
THEOREM DoneCompleteHolds == EmInit /\ [][EmNext]_emVars => []DoneComplete
<1>1. EmSafe => DoneComplete
  <2> SUFFICES ASSUME EmSafe PROVE DoneComplete
    OBVIOUS
  <2>1. emit.pc = "emitted" => \A o \in PlannedIds : monthLedger[o] = "done"
    BY DEF EmSafe, NoneLost, RunSafe, Repairing
  <2> QED  BY <2>1 DEF EmSafe, MonthSafe, Whole, DoneComplete
<1> QED  BY EmInitSafe, EmStepSafe, <1>1, PTL

-----------------------------------------------------------------------------
(***************************************************************************)
(* The weekly reconciliation.                                              *)
(***************************************************************************)

\* What the parts of the state are.
FindingType == [measured : BOOLEAN, missing : SUBSET SweptOrder,
                stale : SUBSET (SweptOrder \X (1..Delivered)), capped : SUBSET SweptOrder]
AuditPcs == {"idle", "phases", "stages", "report"}
AuditType == [pc : AuditPcs, week : 0..2, found : Seq(FindingType),
              stale : SUBSET (SweptOrder \X (1..Delivered)), refused : SUBSET SweptOrder]
ReconcileTypeOK ==
    /\ salla \in [SweptOrder -> 1..Delivered] /\ stored \in [SweptOrder -> 0..Delivered]
    /\ aged \subseteq SweptOrder /\ week \in 1..2 /\ manifest \in [week : 0..2, found : Seq(FindingType)]
    /\ audit \in AuditType /\ finished \in [week : 0..2, whole : BOOLEAN]

\* An order found wrong is one HubSpot has, created before the cutoff.
DriftStored == \A o \in drift : o \in SweptOrder /\ stored[o] # 0 /\ o \in aged

\* The audit that runs is the one its history tells; the manifest is of no later
\* week, and of none once the audit came to its end.
WeeksAgree ==
    /\ finished.whole => manifest.week = 0 /\ audit.pc = "idle"
    /\ audit.pc # "idle" => audit.week = finished.week /\ audit.week # 0
    /\ manifest.week = 0 => manifest.found = <<>>
    /\ manifest.week <= finished.week /\ finished.week <= week

\* A list of stages to send names, for an order that stands still, its stage in Salla.
ListTrue(list) == \A x \in list : x[1] \in drift => x[2] = salla[x[1]]

\* The third finding, that of the properties, tells of every wrong order that stands
\* still: it is listed, right, beyond the cap, or one whose payload was no use.
Told(o, f) ==
    \/ <<o, salla[o]>> \in f.stale
    \/ stored[o] \in {salla[o], Delivered}
    \/ o \in f.capped \cup unread
FindingTrue(f) == f.measured => ListTrue(f.stale) /\ \A o \in drift : Told(o, f)
FoundTrue(found) == Len(found) >= 3 => FindingTrue(found[3])
FindingsTrue ==
    /\ Len(audit.found) <= 6 /\ Len(manifest.found) <= 6
    /\ audit.pc # "idle" => FoundTrue(audit.found)
    /\ manifest.week = finished.week => FoundTrue(manifest.found)

\* While stages are sent, those that are not sent yet are to come.
ToSend(o) ==
    \/ <<o, salla[o]>> \in audit.stale
    \/ stored[o] \in {salla[o], Delivered}
    \/ o \in audit.found[3].capped \cup audit.refused \cup unread
StagesSafe ==
    audit.pc = "stages" =>
        /\ Len(audit.found) = 6 /\ ListTrue(audit.stale)
        /\ \A o \in drift : ToSend(o)

\* The inductive invariant of the reconciliation.
RcSafe == ReconcileTypeOK /\ DriftStored /\ WeeksAgree /\ FindingsTrue /\ StagesSafe /\ DriftRepaired

\* The orders that go first are some of them.
LEMMA FirstSweptSome ==
  ASSUME NEW S, NEW n
  PROVE  FirstSwept(S, n) \subseteq S
  BY DEF FirstSwept

\* The finding on the properties is the third.
LEMMA PropertiesThird == DriftFound("properties") = audit.found[3] /\ Len(Phases) = 6
<1>1. Len(Phases) = 6 /\ Phases[1] # "properties" /\ Phases[2] # "properties" /\ Phases[3] = "properties"
      /\ Phases[4] # "properties" /\ Phases[5] # "properties" /\ Phases[6] # "properties"
  BY DEF Phases
<1>2. \A i \in 1..Len(Phases) : Phases[i] = "properties" <=> i = 3
  BY <1>1
<1>3. 3 \in 1..Len(Phases)
  BY <1>1
<1>4. (CHOOSE i \in 1..Len(Phases) : Phases[i] = "properties") = 3
  BY <1>2, <1>3
<1> QED  BY <1>1, <1>4 DEF DriftFound

\* What an audit has found stays true while no wrong order that stands still gets
\* another stage than its stage in Salla.
LEMMA FoundKept ==
  ASSUME RcSafe, UNCHANGED <<manifest, finished, unread>>, audit'.found = audit.found,
         audit'.pc # "idle" => audit.pc # "idle", drift' \subseteq drift,
         \A o \in drift' : salla'[o] = salla[o] /\ stored'[o] \in {stored[o], salla[o]}
  PROVE  FindingsTrue'
  BY DEF RcSafe, FindingsTrue, FoundTrue, FindingTrue, ListTrue, Told

\* The initial state: no audit, no manifest.
LEMMA RcInitSafe == RcInit => RcSafe
<1> SUFFICES ASSUME RcInit PROVE RcSafe
  OBVIOUS
<1>1. ReconcileTypeOK
  BY DEF RcInit, ReconcileTypeOK, NoAudit, AuditType, AuditPcs
<1>2. DriftStored /\ WeeksAgree
  BY DEF RcInit, DriftStored, WeeksAgree, NoAudit
<1>3. FindingsTrue /\ StagesSafe /\ DriftRepaired
  BY DEF RcInit, FindingsTrue, FoundTrue, StagesSafe, DriftRepaired, NoAudit
<1> QED  BY <1>1, <1>2, <1>3 DEF RcSafe

\* A report stays right while the wrong orders that stand still keep their stages.
LEMMA ReportKept ==
  ASSUME RcSafe, UNCHANGED <<audit, tier, unread>>, drift' \subseteq drift,
         \A o \in drift' : salla'[o] = salla[o] /\ stored'[o] = stored[o]
  PROVE  StagesSafe' /\ DriftRepaired'
<1>1. StagesSafe'
  BY DEF RcSafe, StagesSafe, ListTrue, ToSend
<1>2. Insane' <=> Insane
  BY DEF Insane, DriftFound
<1>3. DriftFound("properties")' = DriftFound("properties")
  BY DEF DriftFound
<1> QED
  BY <1>1, <1>2, <1>3 DEF RcSafe, DriftRepaired

\* An order that moves on in Salla does not stand still.
LEMMA SallaAdvancesSafe == ASSUME RcSafe, SallaAdvances PROVE RcSafe'
<1>1. PICK o \in SweptOrder, told \in BOOLEAN :
          /\ salla[o] < Delivered /\ salla' = [salla EXCEPT ![o] = @ + 1]
          /\ stored' = IF told /\ stored[o] # 0 THEN [stored EXCEPT ![o] = salla[o] + 1] ELSE stored
          /\ drift' = drift \ {o}
  BY DEF SallaAdvances
<1>2. UNCHANGED <<aged, tier, week, manifest, audit, finished, unread>>
  BY DEF SallaAdvances, rcBounds
<1>3. Delivered \in Nat /\ salla[o] + 1 \in 1..Delivered /\ salla[o] + 1 \in 0..Delivered
  BY <1>1, ReconcileAssumption DEF RcSafe, ReconcileTypeOK
<1>4. salla' \in [SweptOrder -> 1..Delivered] /\ stored' \in [SweptOrder -> 0..Delivered]
  BY <1>1, <1>3 DEF RcSafe, ReconcileTypeOK
<1>5. \A p \in SweptOrder : p # o => salla'[p] = salla[p] /\ stored'[p] = stored[p]
  BY <1>1 DEF RcSafe, ReconcileTypeOK
<1>6. drift' \subseteq drift /\ \A p \in drift' : p \in SweptOrder /\ salla'[p] = salla[p] /\ stored'[p] = stored[p]
  BY <1>1, <1>5 DEF RcSafe, DriftStored
<1>7. ReconcileTypeOK' /\ DriftStored' /\ WeeksAgree'
  BY <1>2, <1>4, <1>6 DEF RcSafe, ReconcileTypeOK, DriftStored, WeeksAgree
<1>8. FindingsTrue'
  BY <1>2, <1>6, FoundKept
<1> QED  BY <1>2, <1>6, <1>7, <1>8, ReportKept DEF RcSafe

\* An order that comes under the cutoff is none of those the audit found wrong.
LEMMA OrderAgesSafe == ASSUME RcSafe, OrderAges PROVE RcSafe'
<1>1. aged \subseteq aged' /\ (aged \subseteq SweptOrder => aged' \subseteq SweptOrder)
      /\ UNCHANGED <<salla, stored, tier, week, manifest, audit, drift, finished, unread>>
  BY DEF OrderAges, rcBounds
<1>2. ReconcileTypeOK' /\ DriftStored' /\ WeeksAgree'
  BY <1>1 DEF RcSafe, ReconcileTypeOK, DriftStored, WeeksAgree
<1> QED  BY <1>1, <1>2, FoundKept, ReportKept DEF RcSafe

\* A week that goes by leaves all as it is.
LEMMA NextWeekSafe == ASSUME RcSafe, NextWeek PROVE RcSafe'
<1>1. week = 1 /\ week' = 2 /\ UNCHANGED <<salla, stored, aged, tier, manifest, audit, drift, finished, unread>>
  BY DEF NextWeek, rcWorld
<1>2. ReconcileTypeOK' /\ DriftStored' /\ WeeksAgree'
  BY <1>1 DEF RcSafe, ReconcileTypeOK, DriftStored, WeeksAgree
<1> QED  BY <1>1, <1>2, FoundKept, ReportKept DEF RcSafe

\* An audit starts from the phases of its own week, or from none.
LEMMA StartAuditSafe == ASSUME RcSafe, StartAudit PROVE RcSafe'
<1> DEFINE fresh == finished.whole \/ finished.week # week
<1>0. PICK start : start = LoadManifest
  OBVIOUS
<1>1. /\ audit.pc = "idle" /\ UNCHANGED <<salla, stored, aged, tier, week, manifest, unread>>
      /\ audit' = [NoAudit EXCEPT !.pc = "phases", !.week = week, !.found = start]
      /\ drift' = IF fresh THEN Wrong \cap aged ELSE drift
      /\ finished' = [week |-> week, whole |-> FALSE]
  BY <1>0 DEF StartAudit, rcWorld
<1>2. start = (IF manifest.week = week THEN manifest.found ELSE <<>>)
  BY <1>0 DEF LoadManifest
<1>3. start \in Seq(FindingType) /\ Len(start) <= 6 /\ week \in 1..2
  BY <1>2 DEF RcSafe, ReconcileTypeOK, FindingsTrue
<1>4. /\ audit' \in AuditType /\ audit'.pc = "phases" /\ audit'.week = week /\ audit'.found = start
  <2>1. audit' = [pc |-> "phases", week |-> week, found |-> start, stale |-> {}, refused |-> {}]
    BY <1>1 DEF NoAudit
  <2> QED  BY <1>3, <2>1 DEF AuditType, AuditPcs
<1>5. finished'.week = week /\ ~finished'.whole /\ finished' \in [week : 0..2, whole : BOOLEAN]
  BY <1>1, <1>3
<1>6. ReconcileTypeOK' /\ WeeksAgree'
  BY <1>1, <1>3, <1>4, <1>5 DEF RcSafe, ReconcileTypeOK, WeeksAgree
<1>7. DriftStored'
  BY <1>1 DEF RcSafe, DriftStored, Wrong
<1>8. CASE fresh
  <2>1. manifest.week # week
    BY <1>3, <1>8 DEF RcSafe, WeeksAgree, ReconcileTypeOK
  <2>2. start = <<>>
    BY <1>2, <2>1
  <2>3. FindingsTrue'
    BY <1>1, <1>4, <1>5, <2>1, <2>2 DEF FindingsTrue, FoundTrue, RcSafe
  <2> QED  BY <1>4, <1>6, <1>7, <2>3 DEF RcSafe, StagesSafe, DriftRepaired
<1>9. CASE ~fresh
  <2>1. finished.week = week /\ drift' = drift /\ (manifest.week = week => FoundTrue(manifest.found)) /\ Len(manifest.found) <= 6
    BY <1>1, <1>9 DEF RcSafe, FindingsTrue
  <2>2. FoundTrue(start)
    BY <1>2, <2>1 DEF FoundTrue
  <2>3. \A list : ListTrue(list) => ListTrue(list)'
    BY <1>1, <2>1 DEF ListTrue
  <2>4. \A f : FindingTrue(f) => FindingTrue(f)'
    BY <1>1, <2>1, <2>3 DEF FindingTrue, Told
  <2>5. FoundTrue(start)' /\ (manifest'.week = week => FoundTrue(manifest.found)')
    BY <1>1, <2>1, <2>2, <2>4 DEF FoundTrue
  <2>6. FindingsTrue'
    BY <1>1, <1>3, <1>4, <1>5, <2>1, <2>5 DEF FindingsTrue, FoundTrue
  <2> QED  BY <1>4, <1>6, <1>7, <2>6 DEF RcSafe, StagesSafe, DriftRepaired
<1> QED  BY <1>8, <1>9

\* Which phase it is tells how many are over.
LEMMA PhaseAt ==
  ASSUME RcSafe, NEW p, InPhase(p)
  PROVE  audit.pc = "phases" /\ Len(audit.found) < 6 /\ (p # "properties" <=> Len(audit.found) # 2)
<1>1. Len(Phases) = 6 /\ Phases[3] = "properties"
  BY DEF Phases
<1>2. Len(audit.found) \in Nat
  BY DEF RcSafe, ReconcileTypeOK, AuditType
<1>3. PICK n \in Nat : n = Len(audit.found)
  BY <1>2
<1>4. audit.pc = "phases" /\ n < 6 /\ Phases[n + 1] = p
  BY <1>1, <1>3 DEF InPhase, NextPhase
<1>5. \A i \in 1..6 : Phases[i] = "properties" <=> i = 3
  <2>1. Phases[1] = "counts" /\ Phases[2] = "samples" /\ Phases[3] = "properties"
        /\ Phases[4] = "pipeline" /\ Phases[5] = "catalog" /\ Phases[6] = "make queue"
    BY DEF Phases
  <2>2. \A i \in 1..6 : i = 1 \/ i = 2 \/ i = 3 \/ i = 4 \/ i = 5 \/ i = 6
    OBVIOUS
  <2> QED  BY <2>1, <2>2
<1>6. n + 1 \in 1..6 /\ (n + 1 = 3 <=> n = 2)
  BY <1>4
<1> QED
  BY <1>3, <1>4, <1>5, <1>6

\* A finding is kept by the run and in its manifest.
LEMMA KeepSafe ==
  ASSUME RcSafe, audit.pc = "phases", Len(audit.found) < 6, NEW f \in FindingType, Keep(f),
         UNCHANGED <<salla, stored, aged, tier, week, drift, finished>>,
         Len(audit.found) = 2 => FindingTrue(f)',
         Len(audit.found) # 2 => UNCHANGED unread
  PROVE  RcSafe'
<1>0. PICK found : found = Append(audit.found, f)
  OBVIOUS
<1>1. audit' = [audit EXCEPT !.found = found] /\ manifest' = [week |-> audit.week, found |-> found]
  BY <1>0 DEF Keep
<1>2. audit \in AuditType /\ audit.found \in Seq(FindingType) /\ finished.week \in 0..2
  BY DEF RcSafe, ReconcileTypeOK, AuditType
<1>3. /\ found \in Seq(FindingType) /\ Len(found) = Len(audit.found) + 1 /\ Len(found) <= 6
      /\ \A i \in 1..Len(audit.found) : found[i] = audit.found[i]
      /\ found[Len(audit.found) + 1] = f
  BY <1>0, <1>2
<1>4. Len(audit.found) \in Nat
  BY <1>2
<1>5. ASSUME Len(found) >= 3 PROVE FindingTrue(found[3])'
  <2>1. CASE Len(audit.found) = 2
    BY <1>3, <2>1
  <2>2. CASE Len(audit.found) # 2
    <3>1. 3 \in 1..Len(audit.found)
      <4>1. PICK n \in Nat : n = Len(audit.found)
        BY <1>4
      <4>2. Len(found) = n + 1 /\ Len(found) >= 3
        BY <1>3, <1>5, <4>1
      <4>3. n + 1 >= 3 /\ n # 2
        BY <2>2, <4>1, <4>2
      <4>4. 3 \in 1..n
        BY <4>3
      <4> QED  BY <4>1, <4>4
    <3>2. FindingTrue(audit.found[3])
      BY <3>1, <1>4 DEF RcSafe, FindingsTrue, FoundTrue
    <3>3. FindingTrue(audit.found[3]) => FindingTrue(found[3])'
      BY <1>3, <2>2, <3>1 DEF FindingTrue, ListTrue, Told
    <3> QED  BY <3>2, <3>3
  <2> QED  BY <2>1, <2>2
<1>6. Len(found) >= 3 => found[3] \in FindingType
  BY <1>3, <1>4
<1>7. /\ audit'.pc = "phases" /\ audit'.week = audit.week /\ audit'.found = found /\ audit' \in AuditType
      /\ manifest'.week = audit.week /\ manifest'.found = found /\ manifest' \in [week : 0..2, found : Seq(FindingType)]
  BY <1>1, <1>2, <1>3 DEF AuditType, AuditPcs
<1>8. ReconcileTypeOK' /\ DriftStored'
  BY <1>7 DEF RcSafe, ReconcileTypeOK, DriftStored
<1>9. WeeksAgree'
  <2>1. audit.week = finished.week /\ audit.week # 0 /\ ~finished.whole /\ finished.week <= week
    BY DEF RcSafe, WeeksAgree
  <2> QED  BY <1>2, <1>7, <2>1 DEF WeeksAgree
<1>10. FindingsTrue'
  BY <1>3, <1>5, <1>7 DEF FindingsTrue, FoundTrue
<1> QED  BY <1>7, <1>8, <1>9, <1>10 DEF RcSafe, StagesSafe, DriftRepaired

\* The findings that tell nothing of the properties.
LEMMA PlainFinding ==
  /\ Unmeasured \in FindingType /\ ~Unmeasured.measured
  /\ Measured \in FindingType
  /\ \A S \in SUBSET SweptOrder : [Measured EXCEPT !.missing = S] \in FindingType
  BY DEF Unmeasured, Measured, FindingType

\* The counts are no finding on the properties.
LEMMA PhaseCountsSafe == ASSUME RcSafe, PhaseCounts PROVE RcSafe'
<1>1. PICK f : f = [Measured EXCEPT !.missing = {o \in SweptOrder : stored[o] = 0}] /\ Keep(f)
  BY DEF PhaseCounts
<1>2. f \in FindingType
  BY <1>1, PlainFinding
<1>3. InPhase("counts") /\ UNCHANGED <<salla, stored, aged, tier, week, drift, finished, unread>>
  BY DEF PhaseCounts, rcWorld, rcBounds
<1>4. audit.pc = "phases" /\ Len(audit.found) < 6 /\ Len(audit.found) # 2
  BY <1>3, PhaseAt
<1> QED  BY <1>1, <1>2, <1>3, <1>4, KeepSafe

\* Nor are the phases nothing is repaired from.
LEMMA ReportsSafe ==
  ASSUME RcSafe, NEW p \in {"samples", "pipeline", "catalog", "make queue"}, Reports(p)
  PROVE  RcSafe'
<1>1. PICK f \in {Measured, Unmeasured} : Keep(f)
  BY DEF Reports
<1>2. InPhase(p) /\ UNCHANGED <<salla, stored, aged, tier, week, drift, finished, unread>>
  BY DEF Reports, rcWorld, rcBounds
<1>3. audit.pc = "phases" /\ Len(audit.found) < 6 /\ Len(audit.found) # 2
  BY <1>2, PhaseAt
<1> QED  BY <1>1, <1>2, <1>3, KeepSafe, PlainFinding

\* A phase that could not be read has nothing to be true.
LEMMA PhaseUnreadableSafe == ASSUME RcSafe, PhaseUnreadable PROVE RcSafe'
<1>1. /\ Keep(Unmeasured) /\ UNCHANGED <<salla, stored, aged, tier, week, drift, finished, unread>>
      /\ audit.pc = "phases" /\ Len(audit.found) < 6
  BY PhaseAt DEF PhaseUnreadable, rcWorld, rcBounds
<1>2. PICK f : f = Unmeasured
  OBVIOUS
<1>3. f \in FindingType /\ ~f.measured /\ Keep(f)
  BY <1>1, <1>2, PlainFinding
<1>4. FindingTrue(f)'
  BY <1>3 DEF FindingTrue
<1> QED  BY <1>1, <1>3, <1>4, KeepSafe

\* The properties: every wrong order that is swept is fetched and listed, is beyond
\* the cap, or its payload was no use.
LEMMA PhasePropertiesSafe == ASSUME RcSafe, PhaseProperties PROVE RcSafe'
<1>1. PICK odd \in SUBSET Hydrated :
          /\ Keep([Measured EXCEPT !.stale = {<<o, salla[o]>> : o \in (Hydrated \ odd) \cap Wrong},
                                   !.capped = Candidates \ Hydrated])
          /\ unread' = odd
  BY DEF PhaseProperties
<1> DEFINE stale == {<<o, salla[o]>> : o \in (Hydrated \ odd) \cap Wrong}
           capped == Candidates \ Hydrated
<1>2. PICK s, c, f : s = stale /\ c = capped /\ f = [Measured EXCEPT !.stale = s, !.capped = c] /\ Keep(f)
  BY <1>1
<1>3. InPhase("properties") /\ UNCHANGED <<salla, stored, aged, tier, week, drift, finished>>
  BY DEF PhaseProperties, rcWorld, rcBounds
<1>4. Hydrated \subseteq Candidates
  BY FirstSweptSome DEF Hydrated
<1>5. Wrong \subseteq SweptOrder
  BY DEF Wrong
<1>6. ASSUME NEW o \in drift
      PROVE  <<o, salla[o]>> \in stale \/ stored[o] \in {salla[o], Delivered} \/ o \in capped \cup odd
  <2>1. o \in SweptOrder /\ o \in aged /\ stored[o] \in 1..Delivered /\ Delivered \in Nat
    BY ReconcileAssumption DEF RcSafe, DriftStored, ReconcileTypeOK
  <2>2. stored[o] = Delivered \/ o \in Candidates
    BY <2>1 DEF Candidates
  <2>3. stored[o] # salla[o] => o \in Wrong
    BY <2>1 DEF Wrong
  <2> QED  BY <2>2, <2>3
<1>7. s \subseteq SweptOrder \X (1..Delivered) /\ c \subseteq SweptOrder /\ \A x \in s : x[2] = salla[x[1]]
  BY <1>2, <1>5 DEF RcSafe, ReconcileTypeOK, Candidates
<1>8. \A o \in drift : <<o, salla[o]>> \in s \/ stored[o] \in {salla[o], Delivered} \/ o \in c \cup unread'
  BY <1>1, <1>2, <1>6
<1>9. f \in FindingType /\ f.stale = s /\ f.capped = c
  BY <1>2, <1>7 DEF Measured, Unmeasured, FindingType
<1>10. FindingTrue(f)'
  BY <1>3, <1>7, <1>8, <1>9 DEF FindingTrue, ListTrue, Told
<1>11. audit.pc = "phases" /\ Len(audit.found) < 6 /\ Len(audit.found) = 2
  BY <1>3, PhaseAt
<1> QED  BY <1>2, <1>3, <1>9, <1>10, <1>11, KeepSafe

\* The certificate: what was found is what is sent, if it is sent.
LEMMA CertifySafe == ASSUME RcSafe, Certify PROVE RcSafe'
<1> DEFINE stale == DriftFound("properties").stale
<1>1. /\ audit.pc = "phases" /\ Len(audit.found) = 6 /\ audit \in AuditType
      /\ UNCHANGED <<salla, stored, aged, tier, week, manifest, drift, finished, unread>>
      /\ \/ (Insane \/ tier = 0) /\ audit' = [audit EXCEPT !.pc = "report"]
         \/ ~Insane /\ audit' = [audit EXCEPT !.pc = "stages", !.stale = stale]
  BY PropertiesThird DEF Certify, rcWorld, rcBounds, RcSafe, ReconcileTypeOK
<1>2. audit.found[3] \in FindingType /\ stale = audit.found[3].stale
  BY <1>1, PropertiesThird DEF AuditType
<1> HIDE DEF stale
<1>3. CASE (Insane \/ tier = 0) /\ audit' = [audit EXCEPT !.pc = "report"]
  <2>1. audit' \in AuditType /\ audit'.pc = "report" /\ audit'.found = audit.found /\ audit'.week = audit.week
    BY <1>1, <1>3 DEF AuditType, AuditPcs
  <2>2. ReconcileTypeOK' /\ DriftStored' /\ WeeksAgree'
    BY <1>1, <2>1 DEF RcSafe, ReconcileTypeOK, DriftStored, WeeksAgree
  <2>3. FindingsTrue'
    <3>1. \A o \in drift' : salla'[o] = salla[o] /\ stored'[o] \in {stored[o], salla[o]}
      BY <1>1
    <3> QED  BY <1>1, <2>1, <3>1, FoundKept
  <2>4. Insane' <=> Insane
    BY <2>1 DEF Insane, DriftFound
  <2> QED  BY <1>1, <1>3, <2>1, <2>2, <2>3, <2>4 DEF RcSafe, StagesSafe, DriftRepaired
<1>4. CASE ~Insane /\ audit' = [audit EXCEPT !.pc = "stages", !.stale = stale]
  <2>1. audit' \in AuditType /\ audit'.pc = "stages" /\ audit'.found = audit.found /\ audit'.week = audit.week
        /\ audit'.stale = stale /\ audit'.refused = audit.refused
    BY <1>1, <1>2, <1>4 DEF AuditType, AuditPcs, FindingType
  <2>2. ReconcileTypeOK' /\ DriftStored' /\ WeeksAgree'
    BY <1>1, <2>1 DEF RcSafe, ReconcileTypeOK, DriftStored, WeeksAgree
  <2>3. FindingsTrue'
    <3>1. \A o \in drift' : salla'[o] = salla[o] /\ stored'[o] \in {stored[o], salla[o]}
      BY <1>1
    <3> QED  BY <1>1, <2>1, <3>1, FoundKept
  <2>4. "properties" \in Phase \ Advisory
    <3>1. 3 \in 1..Len(Phases) /\ Phases[3] = "properties"
      BY PropertiesThird DEF Phases
    <3> QED  BY <3>1 DEF Phase, Advisory
  <2>5. FindingTrue(audit.found[3]) /\ audit.found[3].measured
    BY <1>1, <1>4, <2>4, PropertiesThird DEF Insane, RcSafe, FindingsTrue, FoundTrue
  <2>6. StagesSafe'
    BY <1>1, <1>2, <2>1, <2>5 DEF StagesSafe, ListTrue, ToSend, FindingTrue, Told
  <2> QED  BY <2>1, <2>2, <2>3, <2>6 DEF RcSafe, DriftRepaired
<1> QED  BY <1>1, <1>3, <1>4

\* A batch of stages: the orders of it get their stage in Salla, or are refused.
LEMMA RepairStagesSafe == ASSUME RcSafe, RepairStages PROVE RcSafe'
<1> DEFINE sent == {x \in audit.stale : x[1] \in Batch1}
           To(o) == (CHOOSE x \in sent : x[1] = o)[2]
           rest == audit.stale \ sent
<1>1. /\ audit.pc = "stages" /\ audit \in AuditType
      /\ UNCHANGED <<salla, aged, tier, week, manifest, drift, finished, unread>>
      /\ \/ /\ stored' = [o \in SweptOrder |-> IF o \in Batch1 THEN To(o) ELSE stored[o]]
            /\ audit' = [audit EXCEPT !.stale = rest]
         \/ stored' = stored /\ audit' = [audit EXCEPT !.stale = rest, !.refused = audit.refused \cup Batch1]
  BY DEF RepairStages, rcBounds, RcSafe, ReconcileTypeOK
<1>2. Batch1 \subseteq {x[1] : x \in audit.stale} /\ Batch1 \subseteq SweptOrder
  BY <1>1, FirstSweptSome DEF Batch1, AuditType
<1>3. ASSUME NEW o \in Batch1
      PROVE  To(o) \in 1..Delivered /\ (o \in drift => To(o) = salla[o])
  <2>1. \E x \in sent : x[1] = o
    BY <1>2
  <2>2. (CHOOSE x \in sent : x[1] = o) \in sent /\ (CHOOSE x \in sent : x[1] = o)[1] = o
    BY <2>1
  <2>3. PICK y \in sent : y[1] = o /\ To(o) = y[2]
    BY <2>2
  <2>4. y \in SweptOrder \X (1..Delivered) /\ (o \in drift => y[2] = salla[o])
    BY <1>1, <2>3 DEF AuditType, RcSafe, StagesSafe, ListTrue
  <2> QED  BY <2>3, <2>4
<1>4. /\ rest \subseteq audit.stale
      /\ \A o : <<o, salla[o]>> \in audit.stale => <<o, salla[o]>> \in rest \/ o \in Batch1
  OBVIOUS
<1> HIDE DEF sent, To, rest
<1>5. ASSUME NEW refused, refused \in {audit.refused, audit.refused \cup Batch1},
             audit' = [audit EXCEPT !.stale = rest, !.refused = refused],
             stored' \in [SweptOrder -> 0..Delivered],
             \A o \in drift : stored'[o] # 0 /\ stored'[o] \in {stored[o], salla[o]},
             \A o \in drift \cap Batch1 : stored'[o] = salla[o] \/ o \in refused
      PROVE  RcSafe'
  <2>1. audit' \in AuditType /\ audit'.pc = "stages" /\ audit'.found = audit.found /\ audit'.week = audit.week
        /\ audit'.stale = rest /\ audit'.refused = refused
    BY <1>1, <1>2, <1>4, <1>5 DEF AuditType
  <2>2. ReconcileTypeOK' /\ DriftStored' /\ WeeksAgree'
    BY <1>1, <1>5, <2>1 DEF RcSafe, ReconcileTypeOK, DriftStored, WeeksAgree
  <2>3. FindingsTrue'
    <3>1. \A o \in drift' : salla'[o] = salla[o] /\ stored'[o] \in {stored[o], salla[o]}
      BY <1>1, <1>5
    <3> QED  BY <1>1, <2>1, <3>1, FoundKept
  <2>4. (\A x \in rest : x[1] \in drift => x[2] = salla[x[1]]) /\ Len(audit.found) = 6
    BY <1>1, <1>4 DEF RcSafe, StagesSafe, ListTrue
  <2>5. \A o \in drift : ToSend(o)'
    <3> TAKE o \in drift
    <3>1. ToSend(o)
      BY <1>1 DEF RcSafe, StagesSafe
    <3> QED  BY <1>1, <1>4, <1>5, <2>1, <3>1 DEF ToSend
  <2>6. StagesSafe'
    BY <1>1, <2>1, <2>4, <2>5 DEF StagesSafe, ListTrue
  <2> QED  BY <2>1, <2>2, <2>3, <2>6 DEF RcSafe, DriftRepaired
<1>6. Delivered \in Nat
  BY ReconcileAssumption
<1>7. CASE stored' = [o \in SweptOrder |-> IF o \in Batch1 THEN To(o) ELSE stored[o]] /\ audit' = [audit EXCEPT !.stale = rest]
  <2>1. audit' = [audit EXCEPT !.stale = rest, !.refused = audit.refused]
    BY <1>1, <1>7 DEF AuditType
  <2>2. stored' \in [SweptOrder -> 0..Delivered]
    BY <1>3, <1>6, <1>7 DEF RcSafe, ReconcileTypeOK
  <2>3. \A o \in drift : o \in SweptOrder /\ stored[o] # 0 /\ stored'[o] = IF o \in Batch1 THEN salla[o] ELSE stored[o]
    BY <1>3, <1>7 DEF RcSafe, DriftStored
  <2>4. \A o \in drift : salla[o] # 0
    BY <2>3 DEF RcSafe, ReconcileTypeOK
  <2> QED  BY <1>5, <2>1, <2>2, <2>3, <2>4
<1>8. CASE stored' = stored /\ audit' = [audit EXCEPT !.stale = rest, !.refused = audit.refused \cup Batch1]
  <2>1. stored' \in [SweptOrder -> 0..Delivered] /\ \A o \in drift : stored'[o] # 0
    BY <1>8 DEF RcSafe, ReconcileTypeOK, DriftStored
  <2> QED  BY <1>5, <1>8, <2>1
<1> QED  BY <1>1, <1>7, <1>8

\* The orders HubSpot lacked are created; none of them was one with a wrong stage.
LEMMA RepairMissingSafe == ASSUME RcSafe, RepairMissing PROVE RcSafe'
<1>1. /\ audit.pc = "stages" /\ audit.stale = {} /\ audit \in AuditType
      /\ audit' = [audit EXCEPT !.pc = "report"]
      /\ UNCHANGED <<salla, aged, tier, week, manifest, drift, finished, unread>>
  BY DEF RepairMissing, rcBounds, RcSafe, ReconcileTypeOK
<1>2. PICK created \in SUBSET {o \in SweptOrder : stored[o] = 0} :
          stored' = [o \in SweptOrder |-> IF o \in created THEN salla[o] ELSE stored[o]]
  <2> DEFINE missing == DriftFound("counts").missing
             big == tier = 2 /\ Cardinality(missing) <= BackfillMax
             lacking == {o \in missing : stored[o] = 0}
  <2>1. stored' = IF big THEN [o \in SweptOrder |-> IF o \in lacking THEN salla[o] ELSE stored[o]] ELSE stored
    BY DEF RepairMissing, SetTo
  <2>2. CASE big
    <3>1. stored' = [o \in SweptOrder |-> IF o \in lacking \cap SweptOrder THEN salla[o] ELSE stored[o]]
      BY <2>1, <2>2
    <3>2. lacking \cap SweptOrder \in SUBSET {o \in SweptOrder : stored[o] = 0}
      OBVIOUS
    <3> QED  BY <3>1, <3>2
  <2>3. CASE ~big
    <3>1. stored' = stored /\ stored = [o \in SweptOrder |-> stored[o]]
      BY <2>1, <2>3 DEF RcSafe, ReconcileTypeOK
    <3>2. stored' = [o \in SweptOrder |-> IF o \in {} THEN salla[o] ELSE stored[o]]
      BY <3>1
    <3>3. {} \in SUBSET {o \in SweptOrder : stored[o] = 0}
      OBVIOUS
    <3> QED  BY <3>2, <3>3
  <2> QED  BY <2>2, <2>3
<1>3. stored' \in [SweptOrder -> 0..Delivered]
  BY <1>2, ReconcileAssumption DEF RcSafe, ReconcileTypeOK
<1>4. \A o \in drift : o \in SweptOrder /\ stored[o] # 0 /\ stored'[o] = stored[o]
  BY <1>2 DEF RcSafe, DriftStored
<1>5. audit' \in AuditType /\ audit'.pc = "report" /\ audit'.found = audit.found /\ audit'.week = audit.week
      /\ audit'.refused = audit.refused
  BY <1>1 DEF AuditType, AuditPcs
<1>6. ReconcileTypeOK' /\ DriftStored' /\ WeeksAgree'
  BY <1>1, <1>3, <1>4, <1>5 DEF RcSafe, ReconcileTypeOK, DriftStored, WeeksAgree
<1>7. FindingsTrue'
  <2>1. \A o \in drift' : salla'[o] = salla[o] /\ stored'[o] \in {stored[o], salla[o]}
    BY <1>1, <1>4
  <2> QED  BY <1>1, <1>5, <2>1, FoundKept
<1>8. DriftRepaired'
  <2>1. DriftFound("properties")' = audit.found[3]
    BY <1>5, PropertiesThird DEF DriftFound
  <2>2. \A o \in drift : stored[o] \in {salla[o], Delivered} \/ o \in audit.found[3].capped \cup audit.refused \cup unread
    BY <1>1 DEF RcSafe, StagesSafe, ToSend
  <2> QED  BY <1>1, <1>4, <1>5, <2>1, <2>2 DEF DriftRepaired
<1> QED  BY <1>5, <1>6, <1>7, <1>8 DEF RcSafe, StagesSafe

\* An audit that is over leaves no manifest; one that is cut leaves it.
LEMMA AuditEndsSafe == ASSUME RcSafe, FinishAudit \/ AuditCut PROVE RcSafe'
<1>1. /\ audit' = NoAudit /\ UNCHANGED <<salla, stored, aged, tier, week, drift, unread>> /\ audit.pc # "idle"
      /\ \/ manifest' = [week |-> 0, found |-> <<>>] /\ finished' = [finished EXCEPT !.whole = TRUE]
         \/ UNCHANGED <<manifest, finished>>
  BY DEF FinishAudit, AuditCut, Cleared, rcWorld, rcBounds
<1>2. /\ audit'.pc = "idle" /\ audit'.found = <<>> /\ audit' \in AuditType
  BY <1>1 DEF NoAudit, AuditType, AuditPcs
<1>3. StagesSafe' /\ DriftRepaired'
  BY <1>2 DEF StagesSafe, DriftRepaired
<1>4. CASE manifest' = [week |-> 0, found |-> <<>>] /\ finished' = [finished EXCEPT !.whole = TRUE]
  <2>1. finished' \in [week : 0..2, whole : BOOLEAN] /\ finished'.week = finished.week /\ finished'.whole
    BY <1>4 DEF RcSafe, ReconcileTypeOK
  <2>2. manifest' \in [week : 0..2, found : Seq(FindingType)] /\ manifest'.week = 0 /\ manifest'.found = <<>>
    BY <1>4
  <2>3. ReconcileTypeOK' /\ DriftStored' /\ WeeksAgree'
    BY <1>1, <1>2, <2>1, <2>2 DEF RcSafe, ReconcileTypeOK, DriftStored, WeeksAgree
  <2>4. FindingsTrue'
    BY <1>2, <2>2 DEF FindingsTrue, FoundTrue
  <2> QED  BY <1>3, <2>3, <2>4 DEF RcSafe
<1>5. CASE UNCHANGED <<manifest, finished>>
  <2>1. ReconcileTypeOK' /\ DriftStored' /\ WeeksAgree'
    BY <1>1, <1>2, <1>5 DEF RcSafe, ReconcileTypeOK, DriftStored, WeeksAgree
  <2>2. FindingsTrue'
    BY <1>1, <1>2, <1>5 DEF RcSafe, FindingsTrue, FoundTrue, FindingTrue, ListTrue, Told
  <2> QED  BY <1>3, <2>1, <2>2 DEF RcSafe
<1> QED  BY <1>1, <1>4, <1>5

\* No step of the reconciliation leaves the invariant.
LEMMA RcStepSafe == RcSafe /\ [RcNext]_rcVars => RcSafe'
<1> SUFFICES ASSUME RcSafe, [RcNext]_rcVars PROVE RcSafe'
  OBVIOUS
<1>1. CASE UNCHANGED rcVars
  <2>1. UNCHANGED <<salla, stored, aged, tier, week, manifest, audit, drift, finished, unread>>
    BY <1>1 DEF rcVars
  <2>2. ReconcileTypeOK' /\ DriftStored' /\ WeeksAgree'
    BY <2>1 DEF RcSafe, ReconcileTypeOK, DriftStored, WeeksAgree
  <2> QED  BY <2>1, <2>2, FoundKept, ReportKept DEF RcSafe
<1>2. CASE SallaAdvances \/ OrderAges \/ NextWeek \/ StartAudit \/ PhaseCounts \/ PhaseProperties
  BY <1>2, SallaAdvancesSafe, OrderAgesSafe, NextWeekSafe, StartAuditSafe, PhaseCountsSafe, PhasePropertiesSafe
<1>3. CASE PhaseSamples \/ PhasePipeline \/ PhaseCatalog \/ PhaseMakeQueue
  BY <1>3, ReportsSafe DEF PhaseSamples, PhasePipeline, PhaseCatalog, PhaseMakeQueue
<1>4. CASE PhaseUnreadable \/ Certify \/ RepairStages \/ RepairMissing \/ FinishAudit \/ AuditCut
  BY <1>4, PhaseUnreadableSafe, CertifySafe, RepairStagesSafe, RepairMissingSafe, AuditEndsSafe
<1> QED  BY <1>1, <1>2, <1>3, <1>4 DEF RcNext

\* An order with a wrong stage when the week's audit began, whose Salla status
\* stands still since, is right when a run reports with nothing suppressed, or it
\* is named as left out or refused: for every set of orders, cap, batch size and
\* bound on runs and faults, however often runs of the week are cut short.
THEOREM DriftRepairedHolds == RcInit /\ [][RcNext]_rcVars => []DriftRepaired
<1>1. RcSafe => DriftRepaired
  BY DEF RcSafe
<1> QED  BY RcInitSafe, RcStepSafe, <1>1, PTL
=============================================================================

---------------------------- MODULE Engine_proof ----------------------------
(***************************************************************************)
(* Proofs about the parts the engines are built from: the backfill's page  *)
(* loop, the created ledger, the audit log, the catalog gate and the       *)
(* contact of an order. Each part has its own variables, its own inductive *)
(* invariant (BfSafe, LedgerSafe, AuditSafe, GateSafe, CtSafe) and a       *)
(* section here; the theorems are at the end of their sections and hold    *)
(* for any plan, engines, lanes, products and bounds.                      *)
(***************************************************************************)
EXTENDS BackfillRun, AuditLog, CatalogGate, ContactOf, CreatedLedger,
        SequenceTheorems, WellFoundedInduction, NaturalsInduction, TLAPS

(* A set of row numbers has a last one. *)
LEMMA MaxExists ==
  ASSUME NEW n \in Nat, NEW S \in SUBSET (1..n), S # {}
  PROVE  Max(S) \in S /\ \A x \in S : Max(S) >= x
<1> DEFINE T == {n - x : x \in S}
<1>0. \A x \in S : x \in 1..n /\ n - x \in Nat
  OBVIOUS
<1>1. T \subseteq Nat /\ T # {}
  BY <1>0
<1>2. PICK t \in T : \A u \in T : <<u, t>> \notin OpToRel(<, Nat)
  BY <1>1, NatLessThanWellFounded, WFMin
<1>3. PICK m \in S : t = n - m
  BY <1>2
<1>4. ASSUME NEW x \in S PROVE m >= x
  <2>1. n - x \in T /\ n - x \in Nat /\ t \in Nat
    BY <1>1, <1>2
  <2>2. ~(n - x < t)
    BY <1>2, <2>1 DEF OpToRel
  <2> QED
    BY <1>3, <2>2
<1> QED
  BY <1>3, <1>4 DEF Max

(***************************************************************************)
(* The backfill's page loop.                                               *)
(***************************************************************************)
BfSafe == BfTypeOK /\ AtCursor /\ PassedKept

(* A page of the plan is a set of orders. *)
LEMMA PageIsOrders ==
    /\ DOMAIN Pages = 1..Len(Pages) /\ Len(Pages) \in Nat \ {0}
    /\ \A s \in DOMAIN Pages : /\ DOMAIN Pages[s] = 1..Len(Pages[s]) /\ Len(Pages[s]) \in Nat
                               /\ \A p \in DOMAIN Pages[s] : Pages[s][p] \subseteq BfOrder
<1> USE BackfillAssumption
<1>1. DOMAIN Pages = 1..Len(Pages) /\ Len(Pages) \in Nat /\ Len(Pages) # 0
  BY LenProperties, EmptySeq
<1>2. ASSUME NEW s \in DOMAIN Pages
      PROVE  /\ DOMAIN Pages[s] = 1..Len(Pages[s]) /\ Len(Pages[s]) \in Nat
             /\ \A p \in DOMAIN Pages[s] : Pages[s][p] \subseteq BfOrder
  <2>1. Pages[s] \in Seq(SUBSET BfOrder)
    BY <1>1, ElementOfSeq
  <2>2. DOMAIN Pages[s] = 1..Len(Pages[s]) /\ Len(Pages[s]) \in Nat
    BY <2>1, LenProperties
  <2>3. ASSUME NEW p \in DOMAIN Pages[s] PROVE Pages[s][p] \subseteq BfOrder
    BY <2>1, <2>2, ElementOfSeq
  <2> QED  BY <2>2, <2>3
<1> QED  BY <1>1, <1>2

(* Moving the cursor passes the page it was at and no other. *)
LEMMA AdvancePasses ==
  ASSUME BfTypeOK, AtCursor, PassedKept, Advance
  PROVE  PassedKept'
<1> USE PageIsOrders
<1> DEFINE slot == Pages[cursor.slot]
<1>1. /\ run.pc # "idle" /\ run.todo = {} /\ cursor.slot \in DOMAIN Pages /\ run.total = Len(slot)
      /\ UNCHANGED outcomes
      /\ cursor.page \in DOMAIN slot => slot[cursor.page] \subseteq created \cup queueMirror \cup errors
  BY DEF Advance, PageThrough, AtCursor
<1>2. cursor.slot \in Nat /\ cursor.page \in Nat
  BY DEF BfTypeOK
<1>3. \/ cursor.page >= Len(slot) /\ cursor'.slot = cursor.slot + 1 /\ cursor'.page = 1
      \/ cursor'.slot = cursor.slot /\ cursor'.page = cursor.page + 1
  BY <1>1 DEF Advance, Advanced, SlotDone, BfTypeOK, BfRun
<1>4. ASSUME NEW s \in DOMAIN Pages, NEW q \in DOMAIN Pages[s], PageBefore(s, q)'
      PROVE  PageBefore(s, q) \/ (s = cursor.slot /\ q = cursor.page)
  BY <1>1, <1>2, <1>3, <1>4 DEF PageBefore
<1> QED
  BY <1>1, <1>4 DEF PassedKept, Passed, outcomes

(* The loop starts before its first page. *)
LEMMA BfSafeInit == ASSUME BfInit PROVE BfSafe
<1>1. BfTypeOK
  BY BackfillAssumption, PageIsOrders DEF BfInit, BfTypeOK, BfRun, Idle
<1>2. \A s \in DOMAIN Pages : \A q \in DOMAIN Pages[s] : ~PageBefore(s, q)
  BY PageIsOrders DEF BfInit, PageBefore
<1> QED
  BY <1>1, <1>2 DEF BfInit, BfSafe, AtCursor, PassedKept, Passed, Idle

(* One step per action: what it reads of a page, where it leaves the cursor. *)
LEMMA BfSafeStep == ASSUME BfSafe, [BfNext]_bfVars PROVE BfSafe'
<1> USE PageIsOrders DEF BfSafe
<1>p. ASSUME UNCHANGED cursor, created \cup queueMirror \cup errors
                              \subseteq created' \cup queueMirror' \cup errors'
      PROVE  PassedKept'
  <2>1. Passed' = Passed
    BY <1>p DEF Passed, PageBefore
  <2> QED
    BY <1>p, <2>1 DEF PassedKept
<1> USE DEF BfTypeOK, BfRun, AtCursor, outcomes, BfFault, Idle
<1>1. CASE ListPage
  BY <1>1, <1>p DEF ListPage
<1>2. CASE ScanPage
  <2>1. PICK missing \in SUBSET (run.todo \ created) :
          /\ run' = [run EXCEPT !.pc = "lanes", !.todo = (run.todo \ created) \ missing]
          /\ errors' = errors \cup missing
    BY <1>2 DEF ScanPage
  <2>2. /\ run.pc = "scan" /\ bfFaults' \in Nat
        /\ UNCHANGED <<cursor, created, queueLog, queueMirror>>
    BY <1>2 DEF ScanPage
  <2>3. /\ run'.pc = "lanes" /\ run'.total = run.total
        /\ run'.todo = (run.todo \ created) \ missing
    BY <2>1
  <2>4. run' \in BfRun
    BY <2>1
  <2> QED
    BY <2>1, <2>2, <2>3, <2>4, <1>p
<1>3. CASE StopRun
  <2>1. /\ run' = [run EXCEPT !.stop = TRUE]
        /\ UNCHANGED <<cursor, created, queueLog, queueMirror, errors>> /\ bfFaults' \in Nat
    BY <1>3 DEF StopRun
  <2>2. /\ run'.pc = run.pc /\ run'.total = run.total /\ run'.todo = run.todo
    BY <2>1
  <2>3. run' \in BfRun
    BY <2>1
  <2> QED
    BY <2>1, <2>2, <2>3, <1>p
<1>4. CASE Advance
  <2>1. PassedKept'
    BY <1>4, AdvancePasses
  <2>2. /\ run' = Idle /\ cursor' = Advanced /\ UNCHANGED <<outcomes, bfFaults>>
        /\ cursor.slot \in 1..Len(Pages)
    BY <1>4 DEF Advance, PageThrough
  <2>3. (cursor' \in [slot : Nat \ {0}, page : Nat \ {0},
                      status : {"running", "overflow", "done", "done_overflow"}]
         /\ (cursor'.slot > Len(Pages) => cursor'.status \in {"done", "done_overflow"}))
    <3>1. PICK st \in {"running", "overflow", "done", "done_overflow"} :
            /\ SlotDone /\ cursor.slot = Len(Pages) => st \in {"done", "done_overflow"}
            /\ IF SlotDone THEN cursor' = [slot |-> cursor.slot + 1, page |-> 1, status |-> st]
               ELSE cursor' = [slot |-> cursor.slot, page |-> cursor.page + 1, status |-> st]
      <4>1. CASE SlotDone
        <5> DEFINE st == NextStatus(cursor.slot = Len(Pages))
        <5>1. /\ cursor' = [slot |-> cursor.slot + 1, page |-> 1, status |-> st]
              /\ st \in {"running", "overflow", "done", "done_overflow"}
              /\ SlotDone /\ cursor.slot = Len(Pages) => st \in {"done", "done_overflow"}
          BY <2>2, <4>1 DEF Advanced, NextStatus
        <5> HIDE DEF st
        <5> QED
          BY <4>1, <5>1
      <4>2. CASE ~SlotDone
        <5> DEFINE st == NextStatus(FALSE)
        <5>1. /\ cursor' = [slot |-> cursor.slot, page |-> cursor.page + 1, status |-> st]
              /\ st \in {"running", "overflow"}
          BY <2>2, <4>2 DEF Advanced, NextStatus
        <5> HIDE DEF st
        <5> QED
          BY <2>2, <4>2, <5>1
      <4> QED
        BY <4>1, <4>2
    <3>2. CASE SlotDone
      BY <2>2, <3>1, <3>2
    <3>3. CASE ~SlotDone
      BY <2>2, <3>1, <3>3
    <3> QED
      BY <3>2, <3>3
  <2> QED
    BY <2>1, <2>2, <2>3
<1>5. CASE Halt
  BY <1>5, <1>p DEF Halt
<1>6. CASE KillRun
  BY <1>6, <1>p DEF KillRun
<1>7. ASSUME NEW o \in BfOrder, CreateOrder(o) PROVE BfSafe'
  BY <1>7, <1>p DEF CreateOrder, Through
<1>8. ASSUME NEW o \in BfOrder, HoldOrder(o) PROVE BfSafe'
  BY <1>8, <1>p DEF HoldOrder, Through, QueueAppend
<1>9. ASSUME NEW o \in BfOrder, FailOrder(o) PROVE BfSafe'
  BY <1>9, <1>p DEF FailOrder, Through
<1>10. CASE UNCHANGED bfVars
  BY <1>10, <1>p DEF bfVars
<1> QED
  BY <1>1, <1>2, <1>3, <1>4, <1>5, <1>6, <1>7, <1>8, <1>9, <1>10 DEF BfNext

(* Nothing is silently dropped by the backfill, whatever the plan of slots and
   pages: an order on a page the cursor has passed is in HubSpot, or in the
   mirror as held or failed (Engine.run). *)
THEOREM PassedKeptHolds == BfInit /\ [][BfNext]_bfVars => []PassedKept
<1>1. BfSafe => PassedKept
  BY DEF BfSafe
<1> QED
  BY <1>1, BfSafeInit, BfSafeStep, PTL

-----------------------------------------------------------------------------
(***************************************************************************)
(* The created ledger.                                                     *)
(***************************************************************************)
RowsOf(f, o) == {i \in DOMAIN f : f[i].oid = o}

(* An order's entry in a file is an id some row has, or none. *)
LEMMA EntryTyped ==
  ASSUME NEW f \in Seq(Row), NEW o \in Order
  PROVE  EntryIn(f, o) \in Entry
<1> DEFINE F == RowsOf(f, o)
<1>1. /\ DOMAIN f = 1..Len(f) /\ Len(f) \in Nat /\ \A i \in 1..Len(f) : f[i] \in Row
  BY LenProperties, ElementOfSeq
<1>2. F \in SUBSET (1..Len(f))
  BY <1>1 DEF RowsOf
<1>3. EntryIn(f, o) = IF F = {} THEN NoId ELSE f[Max(F)].hs
  BY DEF EntryIn, RowsOf
<1>4. CASE F = {}
  BY <1>3, <1>4 DEF Entry
<1>5. CASE F # {}
  <2>1. Max(F) \in 1..Len(f)
    BY <1>1, <1>2, <1>5, MaxExists
  <2> QED
    BY <1>1, <1>3, <1>5, <2>1 DEF Row
<1> QED
  BY <1>4, <1>5

(* The last row of an order decides, and an append to the file changes the
   entry of its own order only. *)
LEMMA EntryAfterAppend ==
  ASSUME NEW f \in Seq(Row), NEW r \in Row, NEW o \in Order
  PROVE  /\ r.oid = o => EntryIn(Append(f, r), o) = r.hs
         /\ r.oid # o => EntryIn(Append(f, r), o) = EntryIn(f, o)
<1> DEFINE g == Append(f, r)
           F == RowsOf(f, o)
           G == RowsOf(g, o)
<1>1. /\ DOMAIN f = 1..Len(f) /\ Len(f) \in Nat /\ DOMAIN g = 1..(Len(f) + 1)
      /\ g[Len(f) + 1] = r /\ \A i \in 1..Len(f) : g[i] = f[i] /\ f[i] \in Row
  BY LenProperties, AppendProperties, ElementOfSeq
<1>2. F \in SUBSET (1..Len(f)) /\ G \in SUBSET (1..(Len(f) + 1)) /\ Len(f) + 1 \in Nat
  BY <1>1 DEF RowsOf
<1>3. EntryIn(f, o) = IF F = {} THEN NoId ELSE f[Max(F)].hs
  BY DEF EntryIn, RowsOf
<1>4. EntryIn(g, o) = IF G = {} THEN NoId ELSE g[Max(G)].hs
  BY DEF EntryIn, RowsOf
<1> HIDE DEF g
<1>5. ASSUME r.oid = o PROVE EntryIn(g, o) = r.hs
  <2>1. Len(f) + 1 \in G
    BY <1>1, <1>5 DEF RowsOf
  <2>2. Max(G) = Len(f) + 1
    <3>1. Max(G) \in G /\ Max(G) >= Len(f) + 1
      BY <1>2, <2>1, MaxExists
    <3> QED
      BY <1>1, <1>2, <3>1
  <2> QED
    BY <1>1, <1>4, <2>1, <2>2
<1>6. ASSUME r.oid # o PROVE EntryIn(g, o) = EntryIn(f, o)
  <2>1. F = G
    BY <1>1, <1>6 DEF RowsOf
  <2>2. CASE F = {}
    BY <1>3, <1>4, <2>1, <2>2
  <2>3. CASE F # {}
    <3> Max(F) \in 1..Len(f)
      BY <1>1, <1>2, <2>3, MaxExists
    <3> QED
      BY <1>1, <1>3, <1>4, <2>1, <2>3
  <2> QED
    BY <2>2, <2>3
<1> QED
  BY <1>5, <1>6 DEF g

(* A process is the last writer of an order after a row that is not its own
   one of that order only if it was before. *)
LEMMA WriterAfterAppend ==
  ASSUME NEW f \in Seq(Row), NEW r \in Row, NEW o \in Order, NEW p \in Process,
         file = f, file' = Append(f, r), r.by # p \/ r.oid # o, p \in LastWriter(o)'
  PROVE  r.oid # o /\ p \in LastWriter(o)
<1> DEFINE g == Append(f, r)
           F == RowsOf(f, o)
           G == RowsOf(g, o)
<1>1. /\ DOMAIN f = 1..Len(f) /\ Len(f) \in Nat /\ DOMAIN g = 1..(Len(f) + 1)
      /\ g[Len(f) + 1] = r /\ \A i \in 1..Len(f) : g[i] = f[i]
  BY LenProperties, AppendProperties, ElementOfSeq
<1>2. F \in SUBSET (1..Len(f)) /\ G \in SUBSET (1..(Len(f) + 1)) /\ Len(f) + 1 \in Nat
  BY <1>1 DEF RowsOf
<1>3. LastWriter(o) = IF F = {} THEN {} ELSE {f[Max(F)].by}
  BY DEF LastWriter, RowsOf
<1>4. LastWriter(o)' = IF G = {} THEN {} ELSE {g[Max(G)].by}
  BY DEF LastWriter, RowsOf
<1> HIDE DEF g
<1>5. G # {} /\ g[Max(G)].by = p
  BY <1>4
<1>6. ASSUME r.oid = o PROVE FALSE
  <2>1. Len(f) + 1 \in G
    BY <1>1, <1>6 DEF RowsOf
  <2>2. Max(G) = Len(f) + 1
    <3>1. Max(G) \in G /\ Max(G) >= Len(f) + 1
      BY <1>2, <2>1, MaxExists
    <3> QED
      BY <1>1, <1>2, <3>1
  <2> QED
    BY <1>1, <1>5, <1>6, <2>2
<1>7. F = G
  BY <1>1, <1>6 DEF RowsOf
<1>8. Max(F) \in 1..Len(f)
  BY <1>2, <1>5, <1>7, MaxExists
<1> QED
  BY <1>1, <1>3, <1>5, <1>6, <1>7, <1>8

(* The entries a file had before a row was added are those of its prefixes. *)
LEMMA EntryOfPrefix ==
  ASSUME NEW f \in Seq(Row), NEW r \in Row
  PROVE  /\ SubSeq(f, 1, Len(f)) = f
         /\ \A n \in 0..Len(f) : SubSeq(Append(f, r), 1, n) = SubSeq(f, 1, n)
<1>1. Append(f, r) \in Seq(Row) /\ Len(Append(f, r)) = Len(f) + 1 /\ Len(f) \in Nat
      /\ \A i \in 1..Len(f) : Append(f, r)[i] = f[i]
  BY AppendProperties, LenProperties
<1>2. ASSUME NEW n \in 0..Len(f) PROVE SubSeq(Append(f, r), 1, n) = SubSeq(f, 1, n)
  <2>1. n \in 0..Len(Append(f, r))
    BY <1>1
  <2>2. SubSeq(f, 1, n) = Restrict(f, 1..n)
    BY SubSeqRestrict
  <2>3. SubSeq(Append(f, r), 1, n) = Restrict(Append(f, r), 1..n)
    BY <1>1, <2>1, SubSeqRestrict
  <2>4. Restrict(Append(f, r), 1..n) = Restrict(f, 1..n)
    BY <1>1, <2>1 DEF Restrict
  <2> QED
    BY <2>2, <2>3, <2>4
<1>3. SubSeq(f, 1, Len(f)) = f
  BY <1>1, SubSeqFull
<1> QED
  BY <1>2, <1>3

LedgerSafe ==
    LedgerTypeOK /\ AppendsWhatItKeeps /\ OwnWritesKept /\ MapBehindFile

(* An empty file, and maps that read it. *)
LEMMA LedgerSafeInit == ASSUME LedgerInit PROVE LedgerSafe
<1>1. << >> \in Seq(Row) /\ MapOf(<< >>) \in [Order -> Entry] /\ Len(<< >>) = 0
  BY DEF MapOf, EntryIn, Entry
<1>2. LedgerTypeOK
  BY <1>1 DEF LedgerInit, LedgerTypeOK, Entry
<1>3. \A o \in Order : EntryIn(SubSeq(<< >>, 1, 0), o) = NoId /\ MapOf(<< >>)[o] = NoId
  BY DEF EntryIn, MapOf
<1>4. \A o \in Order : LastWriter(o) = {}
  BY DEF LastWriter, LedgerInit
<1> QED
  BY <1>1, <1>2, <1>3, <1>4 DEF LedgerInit, LedgerSafe, AppendsWhatItKeeps, OwnWritesKept, MapBehindFile

(* Every step keeps the types. *)
LEMMA LedgerTypeStep ==
  ASSUME LedgerTypeOK, [LedgerNext]_ledgerVars PROVE LedgerTypeOK'
<1> USE DEF LedgerTypeOK
<1>0. MapOf(file) \in [Order -> Entry] /\ MapOf(<< >>) \in [Order -> Entry]
      /\ \A o \in Order : EntryIn(file, o) \in Entry
  <2>1. << >> \in Seq(Row)
    OBVIOUS
  <2> QED
    BY <2>1, EntryTyped DEF MapOf
<1>1. ASSUME NEW p \in Process, Call(p) PROVE LedgerTypeOK'
  BY <1>0, <1>1 DEF Call, Proceed, Entry
<1>2. ASSUME NEW p \in Process, RefreshStat(p) PROVE LedgerTypeOK'
  BY <1>2 DEF RefreshStat, Proceed
<1>3. ASSUME NEW p \in Process, LoadRead(p) PROVE LedgerTypeOK'
  BY <1>0, <1>3 DEF LoadRead, Proceed
<1>4. ASSUME NEW p \in Process, LoadStat(p) PROVE LedgerTypeOK'
  BY <1>4, LenProperties DEF LoadStat, Proceed
<1>5. ASSUME NEW p \in Process, Answer(p) PROVE LedgerTypeOK'
  BY <1>5 DEF Answer, Proceed
<1>6. ASSUME NEW p \in Process, Record(p) PROVE LedgerTypeOK'
  BY <1>6 DEF Record, Proceed
<1>7. ASSUME NEW p \in Process, AppendRow(p) PROVE LedgerTypeOK'
  BY <1>7, AppendProperties DEF AppendRow, Proceed, Row
<1>8. ASSUME NEW p \in Process, AppendStat(p) PROVE LedgerTypeOK'
  BY <1>8, LenProperties DEF AppendStat, Proceed
<1>9. ASSUME NEW p \in Process, Reopen(p) PROVE LedgerTypeOK'
  BY <1>0, <1>9 DEF Reopen, Entry
<1>10. ASSUME NEW p \in Process, InitRead(p) PROVE LedgerTypeOK'
  BY <1>0, <1>10 DEF InitRead, Proceed
<1>11. ASSUME NEW p \in Process, InitStat(p) PROVE LedgerTypeOK'
  BY <1>11, LenProperties DEF InitStat, Proceed
<1>12. CASE UNCHANGED ledgerVars
  BY <1>12 DEF ledgerVars
<1> QED
  BY <1>1, <1>2, <1>3, <1>4, <1>5, <1>6, <1>7, <1>8, <1>9, <1>10, <1>11, <1>12 DEF LedgerNext

(* add and revoke put the entry in the map before they append its row. *)
LEMMA AppendsStep ==
  ASSUME LedgerTypeOK, AppendsWhatItKeeps, [LedgerNext]_ledgerVars PROVE AppendsWhatItKeeps'
<1> USE DEF LedgerTypeOK, AppendsWhatItKeeps
<1>1. ASSUME NEW p \in Process, Call(p) PROVE AppendsWhatItKeeps'
  <2>1. /\ map' = map /\ phase' = [phase EXCEPT ![p] = "refresh"]
        /\ \A q \in Process \ {p} : asked'[q] = asked[q]
    BY <1>1 DEF Call, Proceed
  <2> QED
    BY <2>1
<1>2. ASSUME NEW p \in Process, RefreshStat(p) PROVE AppendsWhatItKeeps'
  BY <1>2 DEF RefreshStat, Proceed
<1>3. ASSUME NEW p \in Process, LoadRead(p) PROVE AppendsWhatItKeeps'
  BY <1>3 DEF LoadRead, Proceed
<1>4. ASSUME NEW p \in Process, LoadStat(p) PROVE AppendsWhatItKeeps'
  BY <1>4 DEF LoadStat, Proceed
<1>5. ASSUME NEW p \in Process, Answer(p) PROVE AppendsWhatItKeeps'
  BY <1>5 DEF Answer, Proceed
<1>6. ASSUME NEW p \in Process, Record(p) PROVE AppendsWhatItKeeps'
  BY <1>6 DEF Record, Proceed
<1>7. ASSUME NEW p \in Process, AppendRow(p) PROVE AppendsWhatItKeeps'
  BY <1>7 DEF AppendRow, Proceed
<1>8. ASSUME NEW p \in Process, AppendStat(p) PROVE AppendsWhatItKeeps'
  BY <1>8 DEF AppendStat, Proceed
<1>9. ASSUME NEW p \in Process, Reopen(p) PROVE AppendsWhatItKeeps'
  BY <1>9 DEF Reopen
<1>10. ASSUME NEW p \in Process, InitRead(p) PROVE AppendsWhatItKeeps'
  BY <1>10 DEF InitRead, Proceed
<1>11. ASSUME NEW p \in Process, InitStat(p) PROVE AppendsWhatItKeeps'
  BY <1>11 DEF InitStat, Proceed
<1>12. CASE UNCHANGED ledgerVars
  BY <1>12 DEF ledgerVars
<1> QED
  BY <1>1, <1>2, <1>3, <1>4, <1>5, <1>6, <1>7, <1>8, <1>9, <1>10, <1>11, <1>12 DEF LedgerNext

MapsKept == OwnWritesKept /\ MapBehindFile

(* While the file stays as it is, a map keeps an entry, takes it over from the
   file, or, at a restart, starts empty. *)
LEMMA KeptByMaps ==
  ASSUME LedgerTypeOK, MapsKept, UNCHANGED file,
         \A p \in Process, o \in Order :
            \/ Appending(p, o)'
            \/ map'[p][o] = EntryIn(file, o)
            \/ map'[p][o] = NoId /\ phase'[p] = "init"
            \/ /\ map'[p][o] = map[p][o] /\ ~Appending(p, o)
               /\ phase'[p] # "init" => phase[p] # "init"
  PROVE  MapsKept'
<1>1. \A o \in Order : LastWriter(o)' = LastWriter(o)
  BY DEF LastWriter
<1>2. OwnWritesKept'
  BY <1>1 DEF MapsKept, OwnWritesKept
<1>3. file \in Seq(Row) /\ Len(file) \in Nat
  BY LenProperties DEF LedgerTypeOK
<1>4. ASSUME NEW p \in Process, NEW o \in Order, ~Appending(p, o)'
      PROVE  \E n \in 0..Len(file) : map'[p][o] = EntryIn(SubSeq(file, 1, n), o)
  <2>1. CASE map'[p][o] = EntryIn(file, o)
    <3>1. Len(file) \in 0..Len(file) /\ SubSeq(file, 1, Len(file)) = file
      BY <1>3, SubSeqFull
    <3> QED
      BY <2>1, <3>1
  <2>2. CASE map'[p][o] = NoId
    <3>1. 0 \in 0..Len(file) /\ SubSeq(file, 1, 0) = << >>
      BY <1>3, SubSeqEmpty
    <3>2. EntryIn(<< >>, o) = NoId
      BY DEF EntryIn
    <3> QED
      BY <2>2, <3>1, <3>2
  <2>3. CASE map'[p][o] = map[p][o] /\ ~Appending(p, o)
    BY <2>3 DEF MapsKept, MapBehindFile
  <2> QED
    BY <1>4, <2>1, <2>2, <2>3
<1>5. MapBehindFile'
  BY <1>4 DEF MapBehindFile
<1> QED
  BY <1>2, <1>5 DEF MapsKept

(* A row appended makes its writer's map true of the file; the maps of the
   others stay entries of a prefix. *)
LEMMA KeptByAppend ==
  ASSUME LedgerTypeOK, AppendsWhatItKeeps, MapsKept, NEW p \in Process, AppendRow(p)
  PROVE  MapsKept'
<1> DEFINE r == [oid |-> asked[p].oid, hs |-> asked[p].hs, by |-> p]
<1>1. /\ phase[p] = "append" /\ phase' = [phase EXCEPT ![p] = "stat"]
      /\ file' = Append(file, r) /\ UNCHANGED <<map, asked>>
  BY DEF AppendRow, Proceed
<1>2. r \in Row /\ r.oid = asked[p].oid /\ r.hs = asked[p].hs /\ r.by = p /\ file \in Seq(Row)
  BY DEF LedgerTypeOK, Row
<1> HIDE DEF r
<1>3. /\ phase'[p] = "stat" /\ \A q \in Process \ {p} : phase'[q] = phase[q]
      /\ map[p][r.oid] = r.hs
  BY <1>1, <1>2 DEF LedgerTypeOK, AppendsWhatItKeeps
<1>4. ASSUME NEW q \in Process, NEW o \in Order, phase'[q] # "init", ~Appending(q, o)',
             q \in LastWriter(o)'
      PROVE  map'[q][o] = EntryIn(file', o)
  <2>1. CASE q = p /\ r.oid = o
    BY <1>1, <1>2, <1>3, <2>1, EntryAfterAppend
  <2>2. CASE ~(q = p /\ r.oid = o)
    <3>1. r.oid # o /\ q \in LastWriter(o)
      BY <1>1, <1>2, <1>4, <2>2, WriterAfterAppend
    <3>2. EntryIn(file', o) = EntryIn(file, o)
      BY <1>1, <1>2, <3>1, EntryAfterAppend
    <3>3. phase[q] # "init" /\ ~Appending(q, o)
      BY <1>1, <1>2, <1>3, <1>4, <3>1 DEF Appending
    <3> QED
      BY <1>1, <3>1, <3>2, <3>3 DEF MapsKept, OwnWritesKept
  <2> QED
    BY <2>1, <2>2
<1>5. ASSUME NEW q \in Process, NEW o \in Order, ~Appending(q, o)'
      PROVE  \E n \in 0..Len(file') : map'[q][o] = EntryIn(SubSeq(file', 1, n), o)
  <2>1. file' \in Seq(Row) /\ Len(file') = Len(file) + 1 /\ Len(file) \in Nat
    BY <1>1, <1>2, AppendProperties, LenProperties
  <2>2. CASE q = p /\ r.oid = o
    <3>1. SubSeq(file', 1, Len(file')) = file' /\ Len(file') \in 0..Len(file')
      BY <2>1, SubSeqFull
    <3>2. map'[q][o] = EntryIn(file', o)
      BY <1>1, <1>2, <1>3, <2>2, EntryAfterAppend
    <3> QED
      BY <3>1, <3>2
  <2>3. CASE ~(q = p /\ r.oid = o)
    <3>1. ~Appending(q, o)
      BY <1>1, <1>2, <1>3, <1>5, <2>3 DEF Appending
    <3>2. PICK n \in 0..Len(file) : map[q][o] = EntryIn(SubSeq(file, 1, n), o)
      BY <3>1 DEF MapsKept, MapBehindFile
    <3>3. n \in 0..Len(file') /\ SubSeq(file', 1, n) = SubSeq(file, 1, n)
      BY <1>1, <1>2, <2>1, EntryOfPrefix
    <3> QED
      BY <1>1, <3>2, <3>3
  <2> QED
    BY <2>2, <2>3
<1> QED
  BY <1>4, <1>5 DEF MapsKept, OwnWritesKept, MapBehindFile

(* Every other step loads an entry from the file, or leaves map and file alone. *)
LEMMA MapsKeptStep ==
  ASSUME LedgerTypeOK, AppendsWhatItKeeps, MapsKept, [LedgerNext]_ledgerVars
  PROVE  MapsKept'
<1> USE DEF LedgerTypeOK, Appending
<1>0. \A o \in Order : MapOf(file)[o] = EntryIn(file, o) /\ MapOf(<< >>)[o] = NoId
  BY DEF MapOf, EntryIn
<1>m. MapOf(file) \in [Order -> Entry] /\ MapOf(<< >>) \in [Order -> Entry]
  <2>1. << >> \in Seq(Row)
    OBVIOUS
  <2> QED
    BY <2>1, EntryTyped DEF MapOf
<1>1. ASSUME NEW p \in Process, Call(p) PROVE MapsKept'
  BY <1>1, <1>0, <1>m, KeptByMaps DEF Call, Proceed
<1>2. ASSUME NEW p \in Process, RefreshStat(p) PROVE MapsKept'
  BY <1>2, <1>0, <1>m, KeptByMaps DEF RefreshStat, Proceed
<1>3. ASSUME NEW p \in Process, LoadRead(p) PROVE MapsKept'
  BY <1>3, <1>0, <1>m, KeptByMaps DEF LoadRead, Proceed
<1>4. ASSUME NEW p \in Process, LoadStat(p) PROVE MapsKept'
  BY <1>4, <1>0, <1>m, KeptByMaps DEF LoadStat, Proceed
<1>5. ASSUME NEW p \in Process, Answer(p) PROVE MapsKept'
  BY <1>5, <1>0, <1>m, KeptByMaps DEF Answer, Proceed
<1>6. ASSUME NEW p \in Process, Record(p) PROVE MapsKept'
  BY <1>6, <1>0, <1>m, KeptByMaps DEF Record, Proceed
<1>7. ASSUME NEW p \in Process, AppendRow(p) PROVE MapsKept'
  BY <1>7, KeptByAppend
<1>8. ASSUME NEW p \in Process, AppendStat(p) PROVE MapsKept'
  BY <1>8, <1>0, <1>m, KeptByMaps DEF AppendStat, Proceed
<1>9. ASSUME NEW p \in Process, Reopen(p) PROVE MapsKept'
  BY <1>9, <1>0, <1>m, KeptByMaps DEF Reopen
<1>10. ASSUME NEW p \in Process, InitRead(p) PROVE MapsKept'
  BY <1>10, <1>0, <1>m, KeptByMaps DEF InitRead, Proceed
<1>11. ASSUME NEW p \in Process, InitStat(p) PROVE MapsKept'
  BY <1>11, <1>0, <1>m, KeptByMaps DEF InitStat, Proceed
<1>12. CASE UNCHANGED ledgerVars
  BY <1>12, KeptByMaps DEF ledgerVars
<1> QED
  BY <1>1, <1>2, <1>3, <1>4, <1>5, <1>6, <1>7, <1>8, <1>9, <1>10, <1>11, <1>12 DEF LedgerNext

(* What is known of the ledger in every reachable state: what a process takes
   for the newest entry of an order is one the file holds. *)
THEOREM LedgerSafeAlways == LedgerSpec => []LedgerSafe
<1>1. LedgerSafe /\ [LedgerNext]_ledgerVars => LedgerSafe'
  BY LedgerTypeStep, AppendsStep, MapsKeptStep DEF LedgerSafe, MapsKept
<1> QED
  BY <1>1, LedgerSafeInit, PTL DEF LedgerSpec

(* What a process itself recorded last it never forgets, whatever others write
   to the file and however late it rereads it (CreatedLedger.record, has). *)
THEOREM OwnWritesSeenHolds == LedgerSpec => []OwnWritesSeen
<1>1. LedgerSafe => OwnWritesSeen
  BY DEF LedgerSafe, OwnWritesKept, OwnWritesSeen, Appending
<1> QED
  BY <1>1, LedgerSafeAlways, PTL

(* What a process has in its map some row of the file says (_read_ledger,
   record). *)
THEOREM MapFromFileHolds == LedgerSpec => []MapFromFile
<1>1. LedgerSafe => MapFromFile
  BY DEF LedgerSafe, MapBehindFile, MapFromFile, Appending
<1> QED
  BY <1>1, LedgerSafeAlways, PTL

-----------------------------------------------------------------------------
(***************************************************************************)
(* The audit log.                                                          *)
(***************************************************************************)
AuditSafe ==
    /\ AuditTypeOK /\ SentOnceUnlessBlind /\ OneRowPerCall
    /\ KnownRow /\ MirroredOrInTab

(* The tab only grows, and a row stays the row of its order. *)
LEMMA RowsStay ==
  ASSUME AuditTypeOK,
         \/ tab' = tab
         \/ \E r \in TabRow : tab' = Append(tab, r)
         \/ \E rows \in SUBSET Nat : tab' = Mark(rows)
  PROVE  /\ tab' \in Seq(TabRow) /\ Len(tab) \in Nat
         /\ \A o : RowsWith(o) \subseteq RowsWith(o)' /\ (InTab(o) => InTab(o)')
<1> USE DEF AuditTypeOK
<1>1. DOMAIN tab = 1..Len(tab) /\ Len(tab) \in Nat /\ \A n \in 1..Len(tab) : tab[n] \in TabRow
  BY LenProperties, ElementOfSeq
<1>2. CASE tab' = tab
  BY <1>1, <1>2 DEF RowsWith, InTab
<1>3. ASSUME NEW r \in TabRow, tab' = Append(tab, r)
      PROVE  /\ tab' \in Seq(TabRow)
             /\ \A o : RowsWith(o) \subseteq RowsWith(o)' /\ (InTab(o) => InTab(o)')
  <2>1. /\ tab' \in Seq(TabRow) /\ Len(tab') = Len(tab) + 1
        /\ \A n \in 1..Len(tab) : tab'[n] = tab[n]
    BY <1>3, AppendProperties
  <2>2. DOMAIN tab' = 1..(Len(tab) + 1)
    BY <2>1, LenProperties
  <2> QED
    BY <1>1, <2>1, <2>2 DEF RowsWith, InTab
<1>4. ASSUME NEW rows \in SUBSET Nat, tab' = Mark(rows)
      PROVE  /\ tab' \in Seq(TabRow)
             /\ \A o : RowsWith(o) \subseteq RowsWith(o)' /\ (InTab(o) => InTab(o)')
  <2>1. /\ DOMAIN tab' = 1..Len(tab)
        /\ \A n \in 1..Len(tab) : tab'[n] \in TabRow /\ tab'[n].oid = tab[n].oid
    BY <1>1, <1>4 DEF Mark, TabRow
  <2>2. tab' \in [1..Len(tab) -> TabRow]
    BY <1>1, <1>4, <2>1 DEF Mark
  <2>3. tab' \in Seq(TabRow)
    <3>1. \E n \in Nat : tab' \in [1..n -> TabRow]
      BY <1>1, <2>2
    <3> QED
      BY <3>1, SeqDef
  <2> QED
    BY <1>1, <2>1, <2>3 DEF RowsWith, InTab
<1> QED
  BY <1>1, <1>2, <1>3, <1>4

(* Where a call is once the append returned, and before its next try. *)
LEMMA CallAfterTry ==
  ASSUME NEW c \in AuditCall, NEW row \in Nat, NEW refused \in BOOLEAN
  PROVE  /\ Returns(c, row) \in AuditCall /\ Returns(c, row).pc = "mirror"
         /\ Returns(c, row).row = row
         /\ TriesAgain(c, refused) \in AuditCall /\ TriesAgain(c, refused).pc = "wait"
<1>1. /\ Returns(c, row) \in AuditCall /\ Returns(c, row).pc = "mirror"
      /\ Returns(c, row).row = row
  BY DEF AuditCall, Returns
<1> DEFINE b == c.refused \/ refused
           d == [c EXCEPT !.pc = "wait", !.attempt = c.attempt + 1, !.refused = b]
<1>2. b \in BOOLEAN /\ c.attempt + 1 \in Nat
  BY DEF AuditCall
<1> HIDE DEF b
<1>3. d \in AuditCall /\ d.pc = "wait"
  BY <1>2 DEF AuditCall
<1> QED
  BY <1>1, <1>3 DEF b, TriesAgain

(* A try to send the row of a lane: the row is put there or not, and the lane
   knows the row, waits, or gives up. *)
LEMMA SendEffect ==
  ASSUME AuditTypeOK, NEW l \in AuditLane, NEW text \in {"full", "fallback"}, SendRow(l, text)
  PROVE  /\ call' \in [AuditLane -> AuditCall] /\ auditFaults' \in Nat
         /\ \A k \in AuditLane \ {l} : call'[k] = call[k]
         /\ call'[l].pc \in {"mirror", "wait"}
         /\ \/ UNCHANGED <<tab, landed>> /\ (call'[l].pc = "mirror" => call'[l].row = 0)
            \/ /\ tab' = Append(tab, RowOf(OrderIn[l], text))
               /\ landed' = [landed EXCEPT ![l] = @ \cup {Len(tab) + 1}]
               /\ call'[l].pc = "mirror" => call'[l].row \in {0, Len(tab) + 1}
<1> USE DEF AuditTypeOK
<1>1. ASSUME NEW refused \in BOOLEAN, NextTry(l, refused)
      PROVE  /\ call' \in [AuditLane -> AuditCall]
             /\ \A k \in AuditLane \ {l} : call'[k] = call[k]
             /\ call'[l].pc \in {"mirror", "wait"}
             /\ call'[l].pc = "mirror" => call'[l].row = 0
  <2>1. /\ call[l] \in AuditCall
        /\ \/ call' = [call EXCEPT ![l] = Returns(call[l], 0)]
           \/ call' = [call EXCEPT ![l] = TriesAgain(call[l], refused)]
    BY <1>1 DEF NextTry
  <2>2. /\ Returns(call[l], 0) \in AuditCall /\ Returns(call[l], 0).pc = "mirror"
        /\ Returns(call[l], 0).row = 0
        /\ TriesAgain(call[l], refused) \in AuditCall
        /\ TriesAgain(call[l], refused).pc = "wait"
    BY <2>1, CallAfterTry
  <2> QED
    BY <2>1, <2>2
<1>2. Len(tab) \in Nat
  BY LenProperties
<1>3. CASE AppendOk(l, text)
  <2> DEFINE c == Returns(call[l], Len(tab) + 1)
  <2>1. /\ call' = [call EXCEPT ![l] = c] /\ auditFaults' = auditFaults /\ Lands(l, text)
    BY <1>3 DEF AppendOk
  <2>2. call[l] \in AuditCall /\ Len(tab) + 1 \in Nat
    BY <1>2
  <2>3. c \in AuditCall /\ c.pc = "mirror" /\ c.row = Len(tab) + 1
    BY <2>2, CallAfterTry
  <2> HIDE DEF c
  <2>4. call' \in [AuditLane -> AuditCall] /\ call'[l] = c
        /\ \A k \in AuditLane \ {l} : call'[k] = call[k]
    BY <2>1, <2>3
  <2> QED
    BY <2>1, <2>3, <2>4 DEF Lands
<1>4. CASE AppendRefused(l, text)
  BY <1>1, <1>4 DEF AppendRefused
<1>5. CASE AppendErrs(l, text)
  <2>1. NextTry(l, FALSE)
    BY <1>5 DEF AppendErrs
  <2>2. auditFaults' \in Nat
    BY <1>5 DEF AppendErrs, AuditFault
  <2>3. Lands(l, text) \/ UNCHANGED <<tab, landed>>
    BY <1>5 DEF AppendErrs
  <2>4. /\ call' \in [AuditLane -> AuditCall]
        /\ \A k \in AuditLane \ {l} : call'[k] = call[k]
        /\ call'[l].pc \in {"mirror", "wait"} /\ (call'[l].pc = "mirror" => call'[l].row = 0)
    BY <1>1, <2>1
  <2> QED
    BY <2>2, <2>3, <2>4 DEF Lands
<1> QED
  BY <1>3, <1>4, <1>5 DEF SendRow

(* The look finds what landed while it is within the window. *)
LEMMA LookFinds ==
  ASSUME AuditTypeOK, SentOnceUnlessBlind, NEW l \in AuditLane, Found(OrderIn[l]) = {},
         ~(landed[l] \subseteq 1..(Len(tab) - DedupRows))
  PROVE  FALSE
<1>1. /\ DOMAIN tab = 1..Len(tab) /\ Len(tab) \in Nat /\ DedupRows \in Nat
      /\ landed[l] \subseteq RowsWith(OrderIn[l])
  BY AuditAssumption, LenProperties DEF AuditTypeOK, SentOnceUnlessBlind
<1>2. PICK n \in landed[l] : n \notin 1..(Len(tab) - DedupRows)
  OBVIOUS
<1>3. n \in 1..Len(tab) /\ tab[n].oid = OrderIn[l]
  BY <1>1, <1>2 DEF RowsWith
<1>4. n + DedupRows > Len(tab)
  BY <1>1, <1>2, <1>3
<1> QED
  BY <1>1, <1>3, <1>4 DEF Found, Window

(* A send puts a row in the tab only where none of the call has landed, or
   for a call that had to send without a look. *)
LEMMA SendKeeps ==
  ASSUME AuditSafe, NEW l \in AuditLane, NEW text \in {"full", "fallback"},
         call[l].pc \in {"send", "resend"}, SendRow(l, text),
         UNCHANGED <<amirror, buffer, others, blind>>
  PROVE  AuditSafe'
<1> USE DEF AuditSafe, AuditTypeOK
<1> DEFINE r == RowOf(OrderIn[l], text)
<1>1. r \in TabRow /\ r.oid = OrderIn[l]
  BY DEF RowOf, TabRow, AuditOrder
<1> HIDE DEF r
<1>2. /\ call' \in [AuditLane -> AuditCall] /\ auditFaults' \in Nat
      /\ \A k \in AuditLane \ {l} : call'[k] = call[k]
      /\ call'[l].pc \in {"mirror", "wait"}
      /\ \/ UNCHANGED <<tab, landed>> /\ (call'[l].pc = "mirror" => call'[l].row = 0)
         \/ /\ tab' = Append(tab, r)
            /\ landed' = [landed EXCEPT ![l] = @ \cup {Len(tab) + 1}]
            /\ call'[l].pc = "mirror" => call'[l].row \in {0, Len(tab) + 1}
  BY SendEffect DEF r
<1>3. /\ tab' \in Seq(TabRow) /\ Len(tab) \in Nat
      /\ \A o : RowsWith(o) \subseteq RowsWith(o)' /\ (InTab(o) => InTab(o)')
  BY <1>1, <1>2, RowsStay
<1>4. tab' = Append(tab, r) => Len(tab) + 1 \in RowsWith(OrderIn[l])'
  <2> SUFFICES ASSUME tab' = Append(tab, r) PROVE Len(tab) + 1 \in RowsWith(OrderIn[l])'
    OBVIOUS
  <2>1. Len(tab') = Len(tab) + 1 /\ tab'[Len(tab) + 1] = r
    BY <1>1, AppendProperties
  <2>2. DOMAIN tab' = 1..(Len(tab) + 1)
    BY <1>3, <2>1, LenProperties
  <2> QED
    BY <1>1, <1>3, <2>1, <2>2 DEF RowsWith
<1>5. l \notin blind => landed[l] = {}
  BY DEF SentOnceUnlessBlind
<1>t. landed' \in [AuditLane -> SUBSET Nat]
  BY <1>2, <1>3
<1>6. AuditTypeOK'
  BY <1>2, <1>3, <1>t
<1>7. SentOnceUnlessBlind'
  <2> SUFFICES ASSUME NEW k \in AuditLane
               PROVE  /\ landed'[k] \subseteq RowsWith(OrderIn[k])'
                      /\ call'[k].pc = "send" => landed'[k] = {}
                      /\ call'[k].pc = "resend" /\ k \notin blind' => landed'[k] = {}
    BY DEF SentOnceUnlessBlind
  <2>1. /\ landed[k] \subseteq RowsWith(OrderIn[k])'
        /\ call[k].pc = "send" => landed[k] = {}
        /\ call[k].pc = "resend" /\ k \notin blind => landed[k] = {}
    BY <1>3 DEF SentOnceUnlessBlind
  <2>2. CASE k = l
    BY <1>2, <1>4, <2>1, <2>2
  <2>3. CASE k # l
    BY <1>2, <2>1, <2>3
  <2> QED
    BY <2>2, <2>3
<1>8. OneRowPerCall'
  BY <1>2, <1>5 DEF OneRowPerCall
<1>9. KnownRow'
  BY <1>2, <1>3, <1>4 DEF KnownRow
<1>10. MirroredOrInTab'
  BY <1>3 DEF MirroredOrInTab
<1> QED
  BY <1>6, <1>7, <1>8, <1>9, <1>10

(* The look before a retry finds what an earlier try has landed. *)
LEMMA LookKeeps == ASSUME AuditSafe, NEW l \in AuditLane, Look(l) PROVE AuditSafe'
<1> USE DEF AuditSafe, AuditTypeOK
<1>1. /\ call[l].pc = "wait" /\ call[l] \in AuditCall /\ auditFaults' \in Nat
      /\ UNCHANGED <<tab, amirror, buffer, others, landed>>
  BY DEF Look, AuditFault
<1>2. \A o : RowsWith(o)' = RowsWith(o) /\ InTab(o)' = InTab(o)
  BY <1>1 DEF RowsWith, InTab
<1>3. ASSUME NEW n \in RowsWith(OrderIn[l]), call' = [call EXCEPT ![l] = Returns(@, n)],
             UNCHANGED blind
      PROVE  AuditSafe'
  <2> DEFINE c == Returns(call[l], n)
  <2>1. n \in Nat
    BY LenProperties DEF RowsWith
  <2>2. c \in AuditCall /\ c.pc = "mirror" /\ c.row = n
    BY <1>1, <2>1, CallAfterTry
  <2> HIDE DEF c
  <2>3. /\ call' \in [AuditLane -> AuditCall] /\ call'[l] = c
        /\ \A k \in AuditLane \ {l} : call'[k] = call[k]
    BY <1>3, <2>2 DEF c
  <2> QED
    BY <1>1, <1>2, <1>3, <2>2, <2>3
       DEF SentOnceUnlessBlind, OneRowPerCall, KnownRow, MirroredOrInTab
<1>4. ASSUME call' = [call EXCEPT ![l].pc = "resend"], blind' \in {blind, blind \cup {l}},
             l \notin blind' => landed[l] = {}
      PROVE  AuditSafe'
  <2>1. /\ call' \in [AuditLane -> AuditCall] /\ call'[l].pc = "resend"
        /\ \A k \in AuditLane \ {l} : call'[k] = call[k]
    BY <1>1, <1>4 DEF AuditCall
  <2> QED
    BY <1>1, <1>2, <1>4, <2>1
       DEF SentOnceUnlessBlind, OneRowPerCall, KnownRow, MirroredOrInTab
<1>5. \/ \E n \in Found(OrderIn[l]) : call' = [call EXCEPT ![l] = Returns(@, n)] /\ UNCHANGED blind
      \/ /\ Found(OrderIn[l]) = {} /\ call' = [call EXCEPT ![l].pc = "resend"]
         /\ blind' = IF landed[l] \subseteq 1..(Len(tab) - DedupRows) /\ landed[l] # {}
                     THEN blind \cup {l} ELSE blind
      \/ call' = [call EXCEPT ![l].pc = "resend"] /\ blind' = blind \cup {l}
  BY DEF Look
<1>6. Found(OrderIn[l]) \subseteq RowsWith(OrderIn[l])
  BY DEF Found, Window, RowsWith
<1>7. Found(OrderIn[l]) = {} => landed[l] \subseteq 1..(Len(tab) - DedupRows)
  BY LookFinds
<1> QED
  BY <1>3, <1>4, <1>5, <1>6, <1>7

(* The mirror records a row the tab has, or -1. *)
LEMMA MirrorKeeps == ASSUME AuditSafe, NEW l \in AuditLane, Mirror(l) PROVE AuditSafe'
<1> USE DEF AuditSafe, AuditTypeOK
<1> DEFINE o == OrderIn[l]
           row == call[l].row
           Triple == AuditOrder \X {"arrived", "replayed", "updated"} \X Nat
<1>1. /\ UNCHANGED <<tab, buffer, others, auditFaults, landed, blind>>
      /\ amirror' = amirror \cup EventsOf(l) /\ call[l].pc = "mirror" /\ call[l] \in AuditCall
  BY DEF Mirror
<1>2. \A q : RowsWith(q)' = RowsWith(q) /\ InTab(q)' = InTab(q)
  BY <1>1 DEF RowsWith, InTab
<1>3. /\ row \in Nat /\ o \in AuditOrder /\ row \in RowsWith(o) \cup {0}
      /\ \A n \in RowsWith(o) : InTab(o)
  BY <1>1 DEF AuditCall, AuditOrder, KnownRow, RowsWith, InTab
<1>4. /\ \A k \in AuditLane \ {l} : call'[k] = call[k]
      /\ call' \in [AuditLane -> AuditCall] /\ call'[l].pc \in {"idle", "update"}
      /\ call'[l].pc = "update" => call'[l].row = row /\ ~call[l].replay
  <2>1. CASE call[l].replay
    BY <1>1, <2>1 DEF Mirror, NoCall, AuditCall
  <2>2. CASE ~call[l].replay
    <3>1. call' = [call EXCEPT ![l] = [call[l] EXCEPT !.pc = "update"]]
      BY <2>2 DEF Mirror
    <3> QED
      BY <1>1, <2>2, <3>1 DEF AuditCall
  <2> QED
    BY <2>1, <2>2
<1>5. /\ EventsOf(l) \subseteq Triple
      /\ \A e \in EventsOf(l) : e[1] = o /\ (row \in RowsWith(o) \/ <<o, "arrived", 0>> \in EventsOf(l))
      /\ ~call[l].replay => \E e \in EventsOf(l) : e[1] = o
  <2>1. CASE call[l].replay /\ row = 0
    BY <2>1 DEF EventsOf
  <2>2. CASE call[l].replay /\ row # 0
    <3>1. EventsOf(l) = {<<o, "replayed", row>>}
      BY <2>2 DEF EventsOf
    <3> QED
      BY <1>3, <2>2, <3>1
  <2>3. CASE ~call[l].replay
    <3>1. EventsOf(l) = {<<o, "arrived", row>>}
      BY <2>3 DEF EventsOf
    <3> QED
      BY <1>3, <3>1
  <2> QED
    BY <2>1, <2>2, <2>3
<1>6. AuditTypeOK'
  BY <1>1, <1>4, <1>5
<1>7. SentOnceUnlessBlind' /\ OneRowPerCall'
  BY <1>1, <1>2, <1>4 DEF SentOnceUnlessBlind, OneRowPerCall
<1>8. KnownRow'
  BY <1>1, <1>2, <1>3, <1>4, <1>5 DEF KnownRow
<1>9. MirroredOrInTab'
  BY <1>1, <1>2, <1>3, <1>5 DEF MirroredOrInTab
<1> QED
  BY <1>6, <1>7, <1>8, <1>9

(* Every step keeps the invariant. *)
LEMMA AuditSafeStep == ASSUME AuditSafe, [AuditNext]_auditVars PROVE AuditSafe'
<1> USE DEF AuditSafe, AuditTypeOK, AuditCall, SentOnceUnlessBlind, OneRowPerCall, KnownRow,
            MirroredOrInTab, NoCall, AuditFault
<1>1. ASSUME NEW l \in AuditLane, Arrive(l) PROVE AuditSafe'
  <2>1. AuditTypeOK'
    BY <1>1, RowsStay DEF Arrive
  <2>2. SentOnceUnlessBlind' /\ OneRowPerCall'
    BY <1>1, RowsStay DEF Arrive
  <2>3. KnownRow'
    BY <1>1, RowsStay DEF Arrive
  <2>4. MirroredOrInTab'
    BY <1>1, RowsStay DEF Arrive
  <2> QED
    BY <2>1, <2>2, <2>3, <2>4
<1>2. ASSUME NEW l \in AuditLane, Replay(l) PROVE AuditSafe'
  <2>1. AuditTypeOK'
    BY <1>2, RowsStay DEF Replay
  <2>2. SentOnceUnlessBlind' /\ OneRowPerCall'
    BY <1>2, RowsStay DEF Replay
  <2>3. KnownRow'
    BY <1>2, RowsStay DEF Replay
  <2>4. MirroredOrInTab'
    BY <1>2, RowsStay DEF Replay
  <2> QED
    BY <2>1, <2>2, <2>3, <2>4
<1>3. ASSUME NEW l \in AuditLane, FirstAppend(l) PROVE AuditSafe'
  <2>1. /\ call[l].pc = "send" /\ SendRow(l, "full")
        /\ UNCHANGED <<amirror, buffer, others, blind>>
    BY <1>3 DEF FirstAppend
  <2> QED
    BY <2>1, SendKeeps
<1>4. ASSUME NEW l \in AuditLane, Look(l) PROVE AuditSafe'
  BY <1>4, LookKeeps
<1>5. ASSUME NEW l \in AuditLane, Resend(l) PROVE AuditSafe'
  <2>1. /\ call[l].pc = "resend" /\ (SendRow(l, "full") \/ SendRow(l, "fallback"))
        /\ UNCHANGED <<amirror, buffer, others, blind>>
    BY <1>5 DEF Resend
  <2> QED
    BY <2>1, SendKeeps
<1>6. ASSUME NEW l \in AuditLane, Mirror(l) PROVE AuditSafe'
  BY <1>6, MirrorKeeps
<1>7. ASSUME NEW l \in AuditLane, UpdateRow(l) PROVE AuditSafe'
  <2>1. AuditTypeOK'
    <3>1. OrderIn[l] \in AuditOrder /\ call[l].row \in Nat /\ call[l] \in AuditCall
      BY DEF AuditOrder
    <3>2. tab' \in Seq(TabRow)
      BY <1>7, <3>1, RowsStay DEF UpdateRow
    <3>3. <<OrderIn[l], "updated", call[l].row>> \in AuditOrder \X {"arrived", "replayed", "updated"} \X Nat
      BY <3>1
    <3>4. call' \in [AuditLane -> AuditCall]
      BY <1>7 DEF UpdateRow
    <3>5. /\ buffer' = buffer \/ buffer' = buffer \cup {call[l].row}
          /\ auditFaults' = auditFaults \/ (auditFaults > 0 /\ auditFaults' = auditFaults - 1)
      BY <1>7 DEF UpdateRow, Buffered
    <3>6. amirror' = amirror \cup {<<OrderIn[l], "updated", call[l].row>>}
          /\ UNCHANGED <<others, landed, blind>>
      BY <1>7 DEF UpdateRow
    <3>7. buffer' \subseteq Nat
      BY <3>1, <3>5
    <3>8. {others', auditFaults'} \subseteq Nat
      BY <3>5, <3>6
    <3>9. amirror' \subseteq AuditOrder \X {"arrived", "replayed", "updated"} \X Nat
      BY <3>3, <3>6
    <3>10. landed' \in [AuditLane -> SUBSET Nat] /\ blind' \subseteq AuditLane
      BY <3>6
    <3> HIDE DEF AuditCall
    <3> QED
      BY <3>2, <3>4, <3>7, <3>8, <3>9, <3>10
  <2>2. SentOnceUnlessBlind' /\ OneRowPerCall'
    BY <1>7, RowsStay DEF UpdateRow, Buffered
  <2>3. KnownRow'
    BY <1>7, RowsStay DEF UpdateRow, Buffered
  <2>4. MirroredOrInTab'
    BY <1>7, RowsStay DEF UpdateRow, Buffered
  <2> QED
    BY <2>1, <2>2, <2>3, <2>4
<1>8. CASE OtherWriter
  <2>1. AuditTypeOK'
    BY <1>8, RowsStay DEF OtherWriter, RowOf, TabRow, Other
  <2>2. SentOnceUnlessBlind' /\ OneRowPerCall'
    BY <1>8, RowsStay DEF OtherWriter, RowOf, TabRow, Other
  <2>3. KnownRow'
    BY <1>8, RowsStay DEF OtherWriter, RowOf, TabRow, Other
  <2>4. MirroredOrInTab'
    BY <1>8, RowsStay DEF OtherWriter, RowOf, TabRow, Other
  <2> QED
    BY <2>1, <2>2, <2>3, <2>4
<1>9. CASE FlushAudit
  <2>1. AuditTypeOK'
    BY <1>9, RowsStay DEF FlushAudit
  <2>2. SentOnceUnlessBlind' /\ OneRowPerCall'
    BY <1>9, RowsStay DEF FlushAudit
  <2>3. KnownRow'
    BY <1>9, RowsStay DEF FlushAudit
  <2>4. MirroredOrInTab'
    BY <1>9, RowsStay DEF FlushAudit
  <2> QED
    BY <2>1, <2>2, <2>3, <2>4
<1>10. CASE KillEngine
  <2>1. AuditTypeOK'
    BY <1>10, RowsStay DEF KillEngine
  <2>2. SentOnceUnlessBlind' /\ OneRowPerCall'
    BY <1>10, RowsStay DEF KillEngine
  <2>3. KnownRow'
    BY <1>10, RowsStay DEF KillEngine
  <2>4. MirroredOrInTab'
    BY <1>10, RowsStay DEF KillEngine
  <2> QED
    BY <2>1, <2>2, <2>3, <2>4
<1>11. CASE UNCHANGED auditVars
  BY <1>11, RowsStay DEF auditVars
<1> QED
  BY <1>1, <1>2, <1>3, <1>4, <1>5, <1>6, <1>7, <1>8, <1>9, <1>10, <1>11 DEF AuditNext

(* An empty tab, and no calls. *)
LEMMA AuditSafeInit == ASSUME AuditInit PROVE AuditSafe
<1>1. AuditTypeOK
  BY AuditAssumption DEF AuditInit, AuditTypeOK, AuditCall, NoCall
<1> QED
  BY <1>1 DEF AuditInit, NoCall, AuditSafe, SentOnceUnlessBlind, OneRowPerCall, KnownRow, MirroredOrInTab

(* For any number of lanes, tries and rows of others, a call that could look
   puts its order in the tab at most once (_audit_fallback, _audit_find). *)
THEOREM OneRowPerCallHolds == AuditInit /\ [][AuditNext]_auditVars => []OneRowPerCall
<1>1. AuditSafe => OneRowPerCall
  BY DEF AuditSafe
<1> QED
  BY <1>1, AuditSafeInit, AuditSafeStep, PTL

(* An order the mirror knows is in the tab, or stands there for the replay
   (audit_append's -1, audit_event, replay). *)
THEOREM LostIsReplayableHolds == AuditInit /\ [][AuditNext]_auditVars => []LostIsReplayable
<1>1. AuditSafe => LostIsReplayable
  BY DEF AuditSafe, MirroredOrInTab, LostIsReplayable, AuditOrder
<1> QED
  BY <1>1, AuditSafeInit, AuditSafeStep, PTL

-----------------------------------------------------------------------------
(***************************************************************************)
(* The catalog gate.                                                       *)
(***************************************************************************)
GateSafe == GateTypeOK /\ CountsCurrent /\ LetThrough /\ StrayBefore /\ LineFollowsGate

(* What the catalog counts for the product is a tally. *)
LEMMA CountsTyped == GateTypeOK => CountsNow \in Tally /\ NoCounts \in Tally
BY DEF CountsNow, NoCounts, Tally, Approved

(* Nothing is counted, judged or built. *)
LEMMA GateSafeInit == ASSUME GateInit PROVE GateSafe
<1> USE GateAssumption
<1>1. NoCounts \in Tally
  BY DEF NoCounts, Tally
<1> QED
  BY <1>1 DEF GateInit, GateSafe, GateTypeOK, CountsCurrent, LetThrough, StrayBefore,
              LineFollowsGate, NoOrder

(* What the use of a verdict does. *)
LEMMA VerdictUsed ==
  ASSUME GateTypeOK, StrayBefore, NEW v, StrayCached(v)
  PROVE  /\ v = "stray" => since.built < StrayTtl
         /\ v \in {"stray", "building", "unknown"}
         /\ verdict' \in [val : {"none", "stray", "building"}, age : 0..StrayTtl, newer : BOOLEAN]
         /\ failAge' \in 0..StrayFail
         /\ since' \in [built : 0..StrayTtl, still : 0..StrayTtl] /\ since'.built = since.built
         /\ verdict'.val = "stray" => since'.built <= verdict'.age
<1> USE GateAssumption DEF GateTypeOK, StrayBefore
<1>1. CASE StrayHit /\ v = verdict.val /\ UNCHANGED <<verdict, failAge, since>>
  BY <1>1 DEF StrayHit
<1>2. CASE /\ v = StrayNow /\ failAge' = StrayFail /\ UNCHANGED since
           /\ verdict' = [val |-> v, age |-> 0, newer |-> drains]
  <2>1. v \in {"stray", "building"} /\ (v = "stray" => product.bundle = "empty")
    BY <1>2 DEF StrayNow, EmptyRecord
  <2> QED
    BY <1>2, <2>1
<1>3. CASE /\ v = OldVerdict /\ UNCHANGED verdict
           /\ failAge' = IF failAge >= StrayFail THEN 0 ELSE failAge
           /\ since' = IF failAge >= StrayFail THEN [since EXCEPT !.still = 0] ELSE since
  BY <1>3 DEF OldVerdict
<1> QED
  BY <1>1, <1>2, <1>3 DEF StrayCached

(* As time passes, nothing is known to be younger than it is. *)
LEMMA TickKeeps == ASSUME GateSafe, GateTick PROVE GateSafe'
<1> USE GateAssumption DEF GateSafe
<1>1. \A n \in 0..StrayTtl : GateAged(n) \in 0..StrayTtl /\ GateAged(n) >= n
         /\ \A m \in 0..StrayTtl : m <= n => GateAged(m) <= GateAged(n)
  BY DEF GateAged
<1>2. GateTypeOK'
  BY <1>1 DEF GateTick, GateTypeOK
<1>3. CountsNow' = CountsNow /\ counts'.val = counts.val /\ counts'.known = counts.known
      /\ counts'.changed = counts.changed
  BY DEF GateTick, GateTypeOK, CountsNow, Approved
<1>4. CountsCurrent' /\ LetThrough' /\ LineFollowsGate'
  BY <1>3 DEF GateTick, CountsCurrent, LetThrough, LineFollowsGate, Exemptable, Fails
<1>5. StrayBefore'
  BY <1>1 DEF GateTick, StrayBefore, GateTypeOK
<1> QED
  BY <1>2, <1>4, <1>5

(* An edit of the catalog marks whatever was read before it. *)
LEMMA EditKeeps == ASSUME GateSafe, EditProduct PROVE GateSafe'
<1> USE GateAssumption DEF GateSafe
<1>1. GateTypeOK'
  <2> USE DEF GateTypeOK
  <2>1. \/ \E b \in {"none", "empty", "building", "active"} :
              product' = [product EXCEPT !.bundle = b]
        \/ \E r \in {"none", "pending", "approved"} : product' = [product EXCEPT !.record = r]
    BY DEF EditProduct
  <2>2. product' \in [record : {"none", "pending", "approved"},
                      bundle : {"none", "empty", "building", "active"}]
    BY <2>1
  <2>3. counts' \in [val : Tally, age : 0..StrayTtl, known : BOOLEAN, changed : BOOLEAN]
    BY DEF EditProduct
  <2>4. gateOf' \in [GateLane ->
          [pc : {"idle", "verdict", "again", "verdict2", "line"}, counts : Tally,
           exempt : BOOLEAN, changed : BOOLEAN,
           out : {"none", "held", "bundle", "standalone", "review"}]]
    BY DEF EditProduct
  <2>5. since' \in [built : 0..StrayTtl, still : 0..StrayTtl]
    BY DEF EditProduct
  <2> QED
    BY <2>2, <2>3, <2>4, <2>5 DEF EditProduct
<1>2. CountsCurrent' /\ LetThrough' /\ LineFollowsGate'
  BY DEF EditProduct, GateTypeOK, CountsCurrent, LetThrough, LineFollowsGate, Exemptable, Fails
<1>3. StrayBefore'
  BY DEF EditProduct, StrayBefore, GateTypeOK
<1> QED
  BY <1>1, <1>2, <1>3

Gated == [pc : {"idle", "verdict", "again", "verdict2", "line"}, counts : Tally, exempt : BOOLEAN,
          changed : BOOLEAN, out : {"none", "held", "bundle", "standalone", "review"}]

(* A step of one lane that leaves the product alone keeps the invariant if
   the lane's new state is right by itself. *)
LEMMA LaneKeeps ==
  ASSUME GateSafe, NEW l \in GateLane, NEW g \in Gated, gateOf' = [gateOf EXCEPT ![l] = g],
         UNCHANGED <<product, drains>>,
         failAge' \in 0..StrayFail,
         verdict' \in [val : {"none", "stray", "building"}, age : 0..StrayTtl, newer : BOOLEAN],
         counts' \in [val : Tally, age : 0..StrayTtl, known : BOOLEAN, changed : BOOLEAN],
         since' \in [built : 0..StrayTtl, still : 0..StrayTtl],
         since'.built = since.built, verdict'.val = "stray" => since'.built <= verdict'.age,
         counts'.known /\ ~counts'.changed => counts'.val = CountsNow,
         g.pc # "idle" /\ ~g.changed => g.counts = CountsNow,
         g.pc = "line" => IF g.exempt THEN Exemptable(g.counts)
                          ELSE ~Exemptable(g.counts) /\ ~Fails(g.counts),
         g.out = "review" => g.changed
  PROVE  GateSafe'
<1> USE DEF GateSafe, GateTypeOK, Gated
<1>1. gateOf'[l] = g /\ \A k \in GateLane \ {l} : gateOf'[k] = gateOf[k]
  OBVIOUS
<1>2. CountsNow' = CountsNow
  BY DEF CountsNow, Approved
<1>3. GateTypeOK'
  OBVIOUS
<1>4. CountsCurrent'
  BY <1>1, <1>2 DEF CountsCurrent
<1>5. LetThrough'
  BY <1>1 DEF LetThrough, Exemptable, Fails
<1>6. LineFollowsGate'
  BY <1>1 DEF LineFollowsGate
<1>7. StrayBefore'
  BY DEF StrayBefore
<1> QED
  BY <1>3, <1>4, <1>5, <1>6, <1>7

(* Counts in hand: cached ones with what happened since, or a new search. *)
LEMMA CountsKeep ==
  ASSUME GateSafe, NEW l \in GateLane, NEW pc \in {"verdict", "verdict2"},
         NEW older \in BOOLEAN, PidCounts(l, pc, older), UNCHANGED <<product, drains, failAge>>
  PROVE  GateSafe'
<1> USE GateAssumption DEF GateSafe, GateTypeOK
<1>n. CountsNow \in Tally
  BY CountsTyped
<1>1. PICK val \in Tally, changed \in BOOLEAN :
        /\ gateOf' = [gateOf EXCEPT ![l] = InGate(pc, val, changed)]
        /\ ~changed => val = CountsNow
  <2>1. counts.val \in Tally /\ counts.changed \in BOOLEAN
    OBVIOUS
  <2>2. CASE counts.known /\ gateOf' = [gateOf EXCEPT ![l] = InGate(pc, counts.val, counts.changed)]
    BY <2>1, <2>2 DEF CountsCurrent
  <2>3. CASE gateOf' = [gateOf EXCEPT ![l] = InGate(pc, CountsNow, FALSE)]
    BY <1>n, <2>3
  <2> QED
    BY <2>2, <2>3 DEF PidCounts, CountsFresh
<1> DEFINE g == InGate(pc, val, changed)
<1>2. g \in Gated /\ g.pc = pc /\ g.counts = val /\ g.changed = changed /\ g.out = "none"
  BY CountsTyped DEF NoOrder, Gated, InGate
<1> HIDE DEF g
<1>3. verdict' = verdict \/ verdict' = [verdict EXCEPT !.newer = FALSE]
  BY DEF PidCounts
<1>4. /\ verdict' \in [val : {"none", "stray", "building"}, age : 0..StrayTtl, newer : BOOLEAN]
      /\ verdict'.val = verdict.val /\ verdict'.age = verdict.age
  BY <1>3
<1>5. counts' = counts \/ counts' = CountsRead \/ counts' = [counts EXCEPT !.age = 0]
  BY DEF PidCounts
<1>6. /\ counts' \in [val : Tally, age : 0..StrayTtl, known : BOOLEAN, changed : BOOLEAN]
      /\ counts'.known /\ ~counts'.changed => counts'.val = CountsNow
  <2>1. CASE counts' = counts
    BY <2>1 DEF CountsCurrent
  <2>2. CASE counts' = CountsRead
    BY <1>n, <2>2 DEF CountsRead
  <2>3. CASE counts' = [counts EXCEPT !.age = 0]
    BY <2>3 DEF CountsCurrent
  <2> QED
    BY <1>5, <2>1, <2>2, <2>3
<1>7. since' = since \/ since' = [since EXCEPT !.still = 0]
  BY DEF PidCounts
<1>8. /\ since' \in [built : 0..StrayTtl, still : 0..StrayTtl] /\ since'.built = since.built
      /\ verdict'.val = "stray" => since'.built <= verdict'.age
  BY <1>4, <1>7 DEF StrayBefore
<1>9. gateOf' = [gateOf EXCEPT ![l] = g]
  BY <1>1 DEF g
<1>10. failAge' \in 0..StrayFail
  OBVIOUS
<1> HIDE DEF GateTypeOK, GateSafe
<1> QED
  BY <1>1, <1>2, <1>4, <1>6, <1>8, <1>9, <1>10, LaneKeeps

(* The verdict lets a line through on counts that are current, or marked. *)
LEMMA VerdictKeeps == ASSUME GateSafe, NEW l \in GateLane, GateVerdict(l) PROVE GateSafe'
<1> USE GateAssumption DEF GateSafe, GateTypeOK
<1> DEFINE c == gateOf[l].counts
<1>0. /\ gateOf[l] \in Gated /\ gateOf[l].pc \in {"verdict", "verdict2"}
      /\ UNCHANGED <<product, drains, counts>>
      /\ ~gateOf[l].changed => c = CountsNow
  BY DEF GateVerdict, Gated, CountsCurrent
<1>1. ASSUME NEW g \in Gated, gateOf' = [gateOf EXCEPT ![l] = g],
             \/ UNCHANGED <<verdict, failAge, since>>
             \/ \E v : StrayCached(v),
             g.pc # "idle" /\ ~g.changed => g.counts = CountsNow,
             g.pc = "line" => IF g.exempt THEN Exemptable(g.counts)
                              ELSE ~Exemptable(g.counts) /\ ~Fails(g.counts),
             g.out = "review" => g.changed
      PROVE  GateSafe'
  <2>1. /\ verdict' \in [val : {"none", "stray", "building"}, age : 0..StrayTtl, newer : BOOLEAN]
        /\ failAge' \in 0..StrayFail
        /\ since' \in [built : 0..StrayTtl, still : 0..StrayTtl] /\ since'.built = since.built
        /\ verdict'.val = "stray" => since'.built <= verdict'.age
    BY <1>1, VerdictUsed DEF StrayBefore
  <2>2. counts' \in [val : Tally, age : 0..StrayTtl, known : BOOLEAN, changed : BOOLEAN]
        /\ (counts'.known /\ ~counts'.changed => counts'.val = CountsNow)
    BY <1>0 DEF CountsCurrent
  <2> QED
    BY <1>0, <1>1, <2>1, <2>2, LaneKeeps
<1>2. ASSUME NEW exempt \in BOOLEAN, NEW held \in BOOLEAN, Decide(l, exempt, held),
             \/ UNCHANGED <<verdict, failAge, since>>
             \/ \E v : StrayCached(v),
             ~held => IF exempt THEN Exemptable(c) ELSE ~Exemptable(c) /\ ~Fails(c)
      PROVE  GateSafe'
  <2>1. CASE held
    <3> DEFINE g == [NoOrder EXCEPT !.out = "held"]
    <3>1. g \in Gated /\ g.pc = "idle" /\ g.out = "held"
      BY CountsTyped DEF NoOrder, Gated
    <3>2. gateOf' = [gateOf EXCEPT ![l] = g]
      BY <1>2, <2>1 DEF Decide
    <3> HIDE DEF g
    <3> QED
      BY <1>1, <1>2, <3>1, <3>2
  <2>2. CASE ~held
    <3> DEFINE g == [gateOf[l] EXCEPT !.pc = "line", !.exempt = exempt]
    <3>1. /\ g \in Gated /\ g.pc = "line" /\ g.exempt = exempt /\ g.counts = c
          /\ g.changed = gateOf[l].changed /\ g.out = gateOf[l].out
      BY <1>0 DEF Gated
    <3>2. gateOf' = [gateOf EXCEPT ![l] = g]
      BY <1>2, <2>2 DEF Decide
    <3>3. g.out = "review" => g.changed
      BY <1>0, <3>1 DEF LineFollowsGate
    <3> HIDE DEF g
    <3> QED
      BY <1>0, <1>1, <1>2, <2>2, <3>1, <3>2, <3>3
  <2> QED
    BY <2>1, <2>2
<1>3. CASE ~Exemptable(c) /\ Decide(l, FALSE, Fails(c)) /\ UNCHANGED <<verdict, failAge, since>>
  BY <1>2, <1>3 DEF Fails
<1>4. ASSUME Exemptable(c), NEW v \in {"stray", "building", "unknown"}, StrayCached(v),
             IF drains /\ v # "stray" /\ gateOf[l].pc = "verdict"
             THEN gateOf' = [gateOf EXCEPT ![l].pc = "again"]
             ELSE Decide(l, v = "stray", v # "stray")
      PROVE  GateSafe'
  <2>1. CASE gateOf' = [gateOf EXCEPT ![l].pc = "again"]
    <3> DEFINE g == [gateOf[l] EXCEPT !.pc = "again"]
    <3>1. /\ g \in Gated /\ g.pc = "again" /\ g.counts = c
          /\ g.changed = gateOf[l].changed /\ g.out = gateOf[l].out
      BY <1>0 DEF Gated
    <3>2. gateOf' = [gateOf EXCEPT ![l] = g]
      BY <2>1
    <3>3. g.out = "review" => g.changed
      BY <1>0, <3>1 DEF LineFollowsGate
    <3> HIDE DEF g
    <3> QED
      BY <1>0, <1>1, <1>4, <3>1, <3>2, <3>3
  <2>2. CASE Decide(l, v = "stray", v # "stray")
    BY <1>2, <1>4, <2>2
  <2> QED
    BY <1>4, <2>1, <2>2
<1> QED
  BY <1>3, <1>4 DEF GateVerdict

(* The line builder finds a line for what was let through, unless the catalog
   was edited in between. *)
LEMMA BuildKeeps == ASSUME GateSafe, NEW l \in GateLane, BuildLine(l) PROVE GateSafe'
<1> USE GateAssumption DEF GateSafe, GateTypeOK
<1> DEFINE c == gateOf[l].counts
<1>0. /\ gateOf[l] \in Gated /\ gateOf[l].pc = "line" /\ UNCHANGED <<product, drains, counts>>
      /\ ~gateOf[l].changed => c = CountsNow
      /\ IF gateOf[l].exempt THEN Exemptable(c) ELSE ~Exemptable(c) /\ ~Fails(c)
  BY DEF BuildLine, Gated, CountsCurrent, LetThrough
<1>1. PICK d \in Tally : /\ RouteLine(l, d)
                         /\ UNCHANGED <<verdict, failAge, since>> \/ \E v : StrayCached(v)
                         /\ ~gateOf[l].changed => d.te \/ (d.p /\ ~d.ta)
  <2>1. /\ LineCounts \in Tally /\ LineCounts.te = CountsNow.te /\ LineCounts.ta = CountsNow.ta
        /\ CountsNow.p => LineCounts.p
    BY DEF LineCounts, CountsNow, Tally, Approved
  <2>2. CASE /\ Exempted(l) \/ ~Exemptable(LineCounts)
             /\ RouteLine(l, [LineCounts EXCEPT !.ta = @ /\ ~Exempted(l)])
             /\ UNCHANGED <<verdict, failAge, since>>
    <3> DEFINE d == [LineCounts EXCEPT !.ta = LineCounts.ta /\ ~Exempted(l)]
    <3>1. /\ d \in Tally /\ d.p = LineCounts.p /\ d.te = LineCounts.te
          /\ d.ta = (LineCounts.ta /\ ~Exempted(l))
      BY <2>1 DEF Tally
    <3>2. ~gateOf[l].changed => d.te \/ (d.p /\ ~d.ta)
      BY <1>0, <2>1, <2>2, <3>1 DEF Exemptable, Fails, Exempted
    <3> QED
      BY <2>2, <3>1, <3>2
  <2>3. \/ /\ Exempted(l) \/ ~Exemptable(LineCounts)
           /\ RouteLine(l, [LineCounts EXCEPT !.ta = @ /\ ~Exempted(l)])
           /\ UNCHANGED <<verdict, failAge, since>>
        \/ /\ ~Exempted(l) /\ Exemptable(LineCounts)
           /\ \E v \in {"stray", "building", "unknown"} :
                StrayCached(v) /\ RouteLine(l, [LineCounts EXCEPT !.ta = v # "stray"])
    BY Zenon DEF BuildLine
  <2> HIDE DEF GateSafe, GateTypeOK
  <2>4. CASE ~Exempted(l) /\ Exemptable(LineCounts)
    <3>1. PICK v \in {"stray", "building", "unknown"} :
            StrayCached(v) /\ RouteLine(l, [LineCounts EXCEPT !.ta = v # "stray"])
      BY <2>3, <2>4, Zenon
    <3> DEFINE d == [LineCounts EXCEPT !.ta = v # "stray"]
    <3>2. d \in Tally
      BY <2>1 DEF Tally
    <3>3. gateOf[l].changed
      BY <1>0, <2>1, <2>4 DEF Exemptable, Fails, Exempted
    <3>4. RouteLine(l, d) /\ \E w : StrayCached(w)
      BY <3>1, Zenon
    <3> HIDE DEF d
    <3> QED
      BY <3>2, <3>3, <3>4
  <2> QED
    BY <2>2, <2>3, <2>4, Zenon
<1> DEFINE out == IF d.te THEN "bundle" ELSE IF d.p /\ ~d.ta THEN "standalone" ELSE "review"
           g == [NoOrder EXCEPT !.out = out, !.changed = gateOf[l].changed]
<1>2. out \in {"bundle", "standalone", "review"} /\ (out = "review" => gateOf[l].changed)
  BY <1>1
<1>3. gateOf' = [gateOf EXCEPT ![l] = g]
  BY <1>1 DEF RouteLine
<1> HIDE DEF out
<1>4. g \in Gated /\ g.pc = "idle" /\ g.out = out /\ g.changed = gateOf[l].changed
  BY <1>0, <1>2, CountsTyped DEF NoOrder, Gated
<1> HIDE DEF g
<1>5. /\ verdict' \in [val : {"none", "stray", "building"}, age : 0..StrayTtl, newer : BOOLEAN]
      /\ failAge' \in 0..StrayFail
      /\ since' \in [built : 0..StrayTtl, still : 0..StrayTtl] /\ since'.built = since.built
      /\ verdict'.val = "stray" => since'.built <= verdict'.age
  BY <1>1, VerdictUsed DEF StrayBefore
<1>6. counts' \in [val : Tally, age : 0..StrayTtl, known : BOOLEAN, changed : BOOLEAN]
      /\ (counts'.known /\ ~counts'.changed => counts'.val = CountsNow)
  BY <1>0 DEF CountsCurrent
<1> QED
  BY <1>0, <1>2, <1>3, <1>4, <1>5, <1>6, LaneKeeps

(* One step per action of the gate. *)
LEMMA GateSafeStep == ASSUME GateSafe, [GateNext]_gateVars PROVE GateSafe'
<1>1. CASE GateTick
  BY <1>1, TickKeeps
<1>2. CASE EditProduct
  BY <1>2, EditKeeps
<1>3. ASSUME NEW l \in GateLane, GateCounts(l) PROVE GateSafe'
  BY <1>3, CountsKeep DEF GateCounts
<1>4. ASSUME NEW l \in GateLane, GateVerdict(l) PROVE GateSafe'
  BY <1>4, VerdictKeeps
<1>5. ASSUME NEW l \in GateLane, GateAgain(l) PROVE GateSafe'
  BY <1>5, CountsKeep DEF GateAgain
<1>6. ASSUME NEW l \in GateLane, BuildLine(l) PROVE GateSafe'
  BY <1>6, BuildKeeps
<1>7. CASE UNCHANGED gateVars
  BY <1>7 DEF gateVars, GateSafe, GateTypeOK, CountsCurrent, CountsNow, Approved, LetThrough,
              Exemptable, Fails, StrayBefore, LineFollowsGate
<1> QED
  BY <1>1, <1>2, <1>3, <1>4, <1>5, <1>6, <1>7 DEF GateNext

(* What the gate let through the line builder can place, unless the catalog
   was edited in between (_line_ta, the gate's book). *)
THEOREM LineFollowsGateHolds == GateInit /\ [][GateNext]_gateVars => []LineFollowsGate
<1>1. GateSafe => LineFollowsGate
  BY DEF GateSafe
<1> QED
  BY <1>1, GateSafeInit, GateSafeStep, PTL

(* A bundle someone has been building for the life of a verdict is never taken
   for a stray (_stray_cached). *)
THEOREM BuildingHoldsAlways == GateInit /\ [][GateNext]_gateVars => BuildingHolds
<1> DEFINE Exempts == \A l \in GateLane :
                        ~gateOf[l].exempt /\ gateOf'[l].exempt => since.built < StrayTtl
<1>1. ASSUME GateSafe, [GateNext]_gateVars PROVE [Exempts]_gateVars
  <2> SUFFICES ASSUME GateNext, NEW l \in GateLane, ~gateOf[l].exempt, gateOf'[l].exempt
               PROVE  since.built < StrayTtl
    BY <1>1
  <2> USE <1>1 DEF GateSafe, GateTypeOK
  <2>1. CASE GateTick
    BY <2>1 DEF GateTick
  <2>2. CASE EditProduct
    BY <2>2 DEF EditProduct
  <2>3. ASSUME NEW k \in GateLane, GateCounts(k) \/ GateAgain(k) PROVE since.built < StrayTtl
    <3>1. ASSUME NEW pc, NEW older, PidCounts(k, pc, older) PROVE FALSE
      <4>0. /\ InGate(pc, counts.val, counts.changed).exempt = FALSE
            /\ InGate(pc, CountsNow, FALSE).exempt = FALSE
        BY DEF InGate, NoOrder
      <4>1. \/ gateOf' = [gateOf EXCEPT ![k] = InGate(pc, counts.val, counts.changed)]
            \/ gateOf' = [gateOf EXCEPT ![k] = InGate(pc, CountsNow, FALSE)]
        BY <3>1 DEF PidCounts
      <4> QED
        BY <4>0, <4>1
    <3> QED
      BY <2>3, <3>1 DEF GateCounts, GateAgain
  <2>4. ASSUME NEW k \in GateLane, GateVerdict(k) PROVE since.built < StrayTtl
    <3>1. ASSUME NEW exempt \in BOOLEAN, NEW held \in BOOLEAN, Decide(k, exempt, held)
          PROVE  exempt
      <4>1. CASE held
        BY <3>1, <4>1 DEF Decide, NoOrder
      <4>2. CASE ~held
        BY <3>1, <4>2 DEF Decide
      <4> QED
        BY <4>1, <4>2
    <3>2. ~Decide(k, FALSE, Fails(gateOf[k].counts))
      BY <3>1 DEF Fails
    <3>3. PICK v \in {"stray", "building", "unknown"} :
            /\ StrayCached(v)
            /\ IF drains /\ v # "stray" /\ gateOf[k].pc = "verdict"
               THEN gateOf' = [gateOf EXCEPT ![k].pc = "again"]
               ELSE Decide(k, v = "stray", v # "stray")
      BY <2>4, <3>2 DEF GateVerdict
    <3>4. gateOf' # [gateOf EXCEPT ![k].pc = "again"]
      OBVIOUS
    <3>5. Decide(k, v = "stray", v # "stray")
      BY <3>3, <3>4
    <3>6. v = "stray"
      BY <3>1, <3>5
    <3> QED
      BY <3>3, <3>6, VerdictUsed
  <2>5. ASSUME NEW k \in GateLane, BuildLine(k) PROVE since.built < StrayTtl
    <3>1. \E out : gateOf' = [gateOf EXCEPT ![k] =
                                [NoOrder EXCEPT !.out = out, !.changed = gateOf[k].changed]]
      BY <2>5 DEF BuildLine, RouteLine
    <3>2. \A out, changed : [NoOrder EXCEPT !.out = out, !.changed = changed].exempt = FALSE
      BY DEF NoOrder
    <3> QED
      BY <3>1, <3>2
  <2> QED
    BY <2>1, <2>2, <2>3, <2>4, <2>5 DEF GateNext
<1> QED
  BY <1>1, GateSafeInit, GateSafeStep, PTL DEF BuildingHolds

-----------------------------------------------------------------------------
(***************************************************************************)
(* The contact of an order.                                                *)
(***************************************************************************)
CtSafe == CtTypeOK /\ OneLookup /\ PlacedAsResolved /\ StampsEarned /\ BuyersApart

(* A lane belongs to one engine, and every buyer has a key. *)
LEMMA LaneOfEngine ==
    /\ \A l \in CtLane : EngineOf(l) \in CtEngine /\ l \in CtLanes[EngineOf(l)]
    /\ \A e \in CtEngine : \A l \in CtLanes[e] : l \in CtLane /\ EngineOf(l) = e
    /\ \A b \in Buyer : KeyOf(b) \in CtKey
<1>1. ASSUME NEW l \in CtLane PROVE EngineOf(l) \in CtEngine /\ l \in CtLanes[EngineOf(l)]
  <2>1. \E e \in CtEngine : l \in CtLanes[e]
    BY DEF CtLane
  <2> QED
    BY <2>1 DEF EngineOf
<1>2. ASSUME NEW e \in CtEngine, NEW l \in CtLanes[e] PROVE l \in CtLane /\ EngineOf(l) = e
  <2>1. l \in CtLane
    BY DEF CtLane
  <2>2. EngineOf(l) \in CtEngine /\ l \in CtLanes[EngineOf(l)]
    BY <1>1, <2>1
  <2> QED
    BY <2>1, <2>2, ContactAssumption
<1> QED
  BY <1>1, <1>2 DEF CtKey

(* MaxExists, as Newest asks for it. *)
LEMMA LastOf ==
  ASSUME NEW n \in Nat, NEW S \in SUBSET (1..n), S # {}
  PROVE  \E m \in S : \A x \in S : x <= m
<1> QED  BY MaxExists

(* No contacts, and no lane at work. *)
LEMMA CtSafeInit == ASSUME CtInit PROVE CtSafe
<1>1. CtTypeOK
  BY ContactAssumption DEF CtInit, CtTypeOK, NotTaken, Taken
<1> QED
  BY <1>1 DEF CtInit, NotTaken, CtSafe, OneLookup, PlacedAsResolved, StampsEarned, BuyersApart, UnderLock

(* Where a lane is after a step, field by field. *)
LaneOnTo(l, pc, c) ==
    /\ taken' \in [CtLane -> Taken] /\ \A k \in CtLane \ {l} : taken'[k] = taken[k]
    /\ taken'[l].pc = pc /\ taken'[l].contact = c /\ taken'[l].buyer = taken[l].buyer
    /\ taken'[l].device = taken[l].device /\ taken'[l].late = taken[l].late

LaneEnds(l) ==
    /\ taken' \in [CtLane -> Taken] /\ \A k \in CtLane \ {l} : taken'[k] = taken[k]
    /\ taken'[l].pc = "idle"

CachedAs(l, c) ==
    /\ cached' \in [CtEngine -> [CtKey -> Nat]]
    /\ \A e \in CtEngine, k \in CtKey :
         cached'[e][k] = IF e = EngineOf(l) /\ k = KeyOfLane(l) THEN c ELSE cached[e][k]

(* What the steps of a lane do, field by field. *)
LEMMA LaneMoves ==
  ASSUME CtTypeOK, NEW l \in CtLane, NEW c \in Nat,
         NEW pc \in {"idle", "wait", "search", "create", "again", "order", "items"}
  PROVE  /\ OnTo(l, pc, c) => LaneOnTo(l, pc, c)
         /\ Ends(l) => LaneEnds(l)
         /\ taken[l].pc # "idle" /\ Resolved(l, c) => LaneOnTo(l, "order", c) /\ CachedAs(l, c)
<1> USE DEF CtTypeOK
<1>1. ASSUME NEW p \in {"idle", "wait", "search", "create", "again", "order", "items"},
             OnTo(l, p, c)
      PROVE  LaneOnTo(l, p, c)
  <2> DEFINE t == [taken[l] EXCEPT !.pc = p, !.contact = c]
  <2>1. taken[l] \in Taken
    OBVIOUS
  <2>2. /\ t \in Taken /\ t.pc = p /\ t.contact = c /\ t.buyer = taken[l].buyer
        /\ t.device = taken[l].device /\ t.late = taken[l].late
    BY <2>1 DEF Taken
  <2>3. taken' = [taken EXCEPT ![l] = t]
    BY <1>1 DEF OnTo
  <2> HIDE DEF t
  <2> QED
    BY <2>2, <2>3 DEF LaneOnTo
<1>2. Ends(l) => LaneEnds(l)
  BY DEF Ends, LaneEnds, NotTaken, Taken
<1>3. ASSUME taken[l].pc # "idle", Resolved(l, c) PROVE LaneOnTo(l, "order", c) /\ CachedAs(l, c)
  <2>1. EngineOf(l) \in CtEngine /\ KeyOfLane(l) \in CtKey
    BY <1>3, LaneOfEngine DEF KeyOfLane
  <2>2. cached' = [cached EXCEPT ![EngineOf(l)][KeyOfLane(l)] = c]
    BY <1>3 DEF Resolved, KeyOfLane
  <2>3. CachedAs(l, c)
    BY <2>1, <2>2 DEF CachedAs
  <2> QED
    BY <1>1, <1>3, <2>3 DEF Resolved
<1> QED
  BY <1>1, <1>2, <1>3

(* A step of a lane that resolves nothing: the lane takes a lock only when no
   other holds it, and goes on to the order with the contact of the run. *)
LEMMA LaneKeepsContact ==
  ASSUME CtSafe, NEW l \in CtLane, CtTypeOK', UNCHANGED <<cached, placed>>,
         \A k \in CtLane \ {l} : taken'[k] = taken[k],
         earned \subseteq earned',
         taken'[l].pc # "idle" => KeyOfLane(l)' = KeyOfLane(l) \/ taken'[l].pc = "wait",
         taken'[l].pc \in UnderLock =>
            /\ KeyOfLane(l)' = KeyOfLane(l)
            /\ \/ taken[l].pc \in UnderLock
               \/ FreeKey(l) /\ cached[EngineOf(l)][KeyOfLane(l)] = 0,
         taken'[l].pc \in {"order", "items"} =>
            /\ taken'[l].contact # 0
            /\ taken'[l].contact = cached[EngineOf(l)][KeyOfLane(l)],
         taken'[l].pc = "items" /\ Signals(l)' => taken'[l].contact \in earned',
         \A c \in 1..Len(contacts') : contacts'[c].device => c \in earned'
  PROVE  CtSafe'
<1> USE LaneOfEngine DEF CtSafe, KeyOfLane
<1>1. OneLookup'
  <2> SUFFICES ASSUME NEW k \in CtLane, taken'[k].pc \in UnderLock
               PROVE  /\ \A m \in CtLane : m # k /\ EngineOf(m) = EngineOf(k)
                                            /\ taken'[m].pc \in UnderLock
                                            => KeyOfLane(m)' # KeyOfLane(k)'
                      /\ cached[EngineOf(k)][KeyOfLane(k)'] = 0
    BY DEF OneLookup
  <2>1. CASE k = l
    BY <2>1 DEF OneLookup, FreeKey
  <2>2. CASE k # l
    BY <2>2 DEF OneLookup, FreeKey
  <2> QED
    BY <2>1, <2>2
<1>2. PlacedAsResolved'
  BY DEF PlacedAsResolved, UnderLock
<1>3. StampsEarned'
  BY DEF StampsEarned, Signals
<1>4. BuyersApart'
  BY DEF BuyersApart
<1> QED
  BY <1>1, <1>2, <1>3, <1>4

(* A lane resolves its customer: nothing of the run was placed for it yet. *)
LEMMA LaneResolves ==
  ASSUME CtSafe, NEW l \in CtLane, NEW c \in Nat \ {0}, taken[l].pc \in UnderLock, CtTypeOK',
         LaneOnTo(l, "order", c), CachedAs(l, c), UNCHANGED <<placed, earned>>,
         \A d \in 1..Len(contacts') : contacts'[d].device => d \in earned
  PROVE  CtSafe'
<1> USE LaneOfEngine DEF CtSafe, KeyOfLane, LaneOnTo, CachedAs
<1>0. /\ taken[l].pc # "idle" /\ KeyOfLane(l) \in CtKey /\ KeyOfLane(l)' = KeyOfLane(l)
      /\ cached[EngineOf(l)][KeyOfLane(l)] = 0 /\ EngineOf(l) \in CtEngine
      /\ cached'[EngineOf(l)][KeyOfLane(l)] = c
  BY DEF OneLookup, UnderLock, CtTypeOK
<1>k. ASSUME NEW k \in CtLane, taken[k].pc # "idle"
      PROVE  KeyOfLane(k) \in CtKey /\ EngineOf(k) \in CtEngine
  BY <1>k DEF CtTypeOK
<1>1. OneLookup'
  <2> SUFFICES ASSUME NEW k \in CtLane, taken'[k].pc \in UnderLock
               PROVE  /\ \A m \in CtLane : m # k /\ EngineOf(m) = EngineOf(k)
                                            /\ taken'[m].pc \in UnderLock
                                            => KeyOfLane(m)' # KeyOfLane(k)'
                      /\ cached'[EngineOf(k)][KeyOfLane(k)'] = 0
    BY DEF OneLookup
  <2>1. k # l /\ taken[k].pc \in UnderLock /\ taken[k].pc # "idle"
    BY DEF UnderLock
  <2>2. ~(EngineOf(k) = EngineOf(l) /\ KeyOfLane(k) = KeyOfLane(l))
    BY <2>1 DEF OneLookup
  <2>3. cached'[EngineOf(k)][KeyOfLane(k)] = cached[EngineOf(k)][KeyOfLane(k)]
    BY <1>k, <2>1, <2>2
  <2> QED
    BY <2>1, <2>3 DEF OneLookup, UnderLock
<1>2. PlacedAsResolved'
  <2>1. ASSUME NEW k \in CtLane, taken'[k].pc \in {"order", "items"}
        PROVE  /\ taken'[k].contact # 0
               /\ taken'[k].contact = cached'[EngineOf(k)][KeyOfLane(k)']
    <3>1. CASE k = l
      BY <1>0, <3>1
    <3>2. CASE k # l
      <4>1. /\ taken[k].contact # 0 /\ taken[k].contact = cached[EngineOf(k)][KeyOfLane(k)]
            /\ taken[k].pc # "idle" /\ taken'[k] = taken[k]
        BY <2>1, <3>2 DEF PlacedAsResolved
      <4>2. ~(EngineOf(k) = EngineOf(l) /\ KeyOfLane(k) = KeyOfLane(l))
        BY <1>0, <4>1
      <4> QED
        BY <1>k, <4>1, <4>2
    <3> QED
      BY <3>1, <3>2
  <2>2. ASSUME NEW e \in CtEngine, NEW x \in placed[e]
        PROVE  x[2] # 0 /\ x[2] = cached'[e][KeyOf(x[1])]
    <3>1. x[2] # 0 /\ x[2] = cached[e][KeyOf(x[1])] /\ x[1] \in Buyer
      BY DEF PlacedAsResolved, CtTypeOK
    <3>2. KeyOf(x[1]) \in CtKey /\ ~(e = EngineOf(l) /\ KeyOf(x[1]) = KeyOfLane(l))
      BY <1>0, <3>1
    <3> QED
      BY <3>1, <3>2
  <2> QED
    BY <2>1, <2>2 DEF PlacedAsResolved
<1>3. StampsEarned'
  BY DEF StampsEarned, Signals
<1>4. BuyersApart'
  BY DEF BuyersApart
<1> QED
  BY <1>1, <1>2, <1>3, <1>4

(* What a search returns is a contact, or 0. *)
LEMMA NewestTyped ==
  ASSUME CtTypeOK PROVE \A b : ByPhone(b) \in Nat /\ ByPhoneOrId(b) \in Nat
<1>1. DOMAIN contacts = 1..Len(contacts) /\ Len(contacts) \in Nat
  BY LenProperties DEF CtTypeOK
<1>2. ASSUME NEW S \in SUBSET (1..Len(contacts)) PROVE Newest(S) \in Nat
  <2>1. CASE S = {}
    BY <2>1 DEF Newest
  <2>2. CASE S # {}
    <3> DEFINE c == CHOOSE m \in S : \A d \in S : d <= m
    <3>1. \E m \in S : \A d \in S : d <= m
      BY <1>1, <2>2, LastOf
    <3>2. c \in S
      BY <3>1
    <3>3. Newest(S) = c
      BY <2>2 DEF Newest
    <3>4. c \in Nat
      <4> HIDE DEF c
      <4> QED
        BY <1>1, <3>2
    <3> QED
      BY <3>3, <3>4
  <2> QED
    BY <2>1, <2>2
<1>3. \A b : ShownOf(b) \in SUBSET (1..Len(contacts))
  BY DEF ShownOf
<1> QED
  BY <1>2, <1>3 DEF ByPhone, ByPhoneOrId

(* A new contact has no flag, and the others stay as they are. *)
LEMMA ContactsGrow ==
  ASSUME CtTypeOK, NEW b \in Buyer, NewContact(b)
  PROVE  /\ contacts' \in Seq(Contact) /\ Len(contacts') = Len(contacts) + 1
         /\ Len(contacts) \in Nat
         /\ \A c \in 1..Len(contacts') : contacts'[c].device => c \in 1..Len(contacts) /\ contacts[c].device
<1> DEFINE r == [buyer |-> b, shown |-> FALSE, device |-> FALSE]
<1>1. r \in Contact /\ contacts' = Append(contacts, r) /\ contacts \in Seq(Contact) /\ ~r.device
  BY DEF NewContact, CtTypeOK, Contact
<1> HIDE DEF r
<1>2. /\ contacts' \in Seq(Contact) /\ Len(contacts') = Len(contacts) + 1 /\ Len(contacts) \in Nat
      /\ contacts'[Len(contacts) + 1] = r
      /\ \A c \in 1..Len(contacts) : contacts'[c] = contacts[c]
  BY <1>1, AppendProperties, LenProperties
<1> QED
  BY <1>1, <1>2

(* One step per action, each by the lemma of what its lane does. *)
LEMMA CtSafeStep == ASSUME CtSafe, [CtNext]_ctVars PROVE CtSafe'
<1> USE LaneOfEngine DEF CtSafe
<1>u. UnderLock = {"search", "create", "again"}
  BY DEF UnderLock
<1>1. CASE ShowContact
  <2>1. PICK c \in 1..Len(contacts) : contacts' = [contacts EXCEPT ![c].shown = TRUE]
    BY <1>1 DEF ShowContact
  <2>2. /\ DOMAIN contacts = 1..Len(contacts) /\ Len(contacts) \in Nat
        /\ \A d \in 1..Len(contacts) : contacts[d] \in Contact
    BY LenProperties, ElementOfSeq DEF CtTypeOK
  <2>3. [contacts[c] EXCEPT !.shown = TRUE] \in Contact /\ contacts \in Seq(Contact)
    BY <2>2 DEF Contact, CtTypeOK
  <2>4. /\ contacts' \in Seq(Contact) /\ Len(contacts') = Len(contacts)
        /\ \A d \in 1..Len(contacts) : contacts'[d].device = contacts[d].device
    BY <2>1, <2>2, <2>3, ExceptSeq DEF Contact
  <2>5. CtTypeOK'
    BY <1>1, <2>4 DEF ShowContact, CtTypeOK, ctHistory
  <2> QED
    BY <1>1, <2>2, <2>4, <2>5
       DEF ShowContact, ctHistory, OneLookup, PlacedAsResolved, StampsEarned, BuyersApart,
           KeyOfLane, Signals
<1>2. CASE ScenarioCreates
  <2>1. PICK b \in WithId : NewContact(b)
    BY <1>2 DEF ScenarioCreates
  <2>2. b \in Buyer
    BY <2>1, ContactAssumption
  <2>3. CtTypeOK'
    BY <1>2, <2>1, <2>2, ContactsGrow DEF ScenarioCreates, CtTypeOK, ctHistory
  <2> QED
    BY <1>2, <2>1, <2>2, <2>3, ContactsGrow
       DEF ScenarioCreates, ctHistory, OneLookup, PlacedAsResolved, StampsEarned, BuyersApart,
           KeyOfLane, Signals
<1>3. ASSUME NEW l \in CtLane, TakeOrder(l) PROVE CtSafe'
  <2>1. PICK t \in Taken : /\ taken' = [taken EXCEPT ![l] = t] /\ t.pc = "wait" /\ t.buyer \in Buyer
                            /\ halfway' \subseteq halfway /\ ctOrders' \in Nat
    <3>1. CASE \E b \in Buyer, d \in BOOLEAN :
                 /\ ctOrders > 0 /\ ctOrders' = ctOrders - 1 /\ UNCHANGED halfway
                 /\ taken' = [taken EXCEPT ![l] = [NotTaken EXCEPT !.pc = "wait", !.buyer = b,
                                                                   !.device = d]]
      <4>1. PICK b \in Buyer, d \in BOOLEAN :
                 /\ ctOrders > 0 /\ ctOrders' = ctOrders - 1 /\ UNCHANGED halfway
                 /\ taken' = [taken EXCEPT ![l] = [NotTaken EXCEPT !.pc = "wait", !.buyer = b,
                                                                   !.device = d]]
        BY <3>1
      <4> DEFINE s == [NotTaken EXCEPT !.pc = "wait", !.buyer = b, !.device = d]
      <4>2. s \in Taken /\ s.pc = "wait" /\ s.buyer \in Buyer
        BY DEF NotTaken, Taken
      <4>3. taken' = [taken EXCEPT ![l] = s] /\ halfway' = halfway /\ ctOrders' \in Nat
        BY <4>1 DEF CtTypeOK
      <4> HIDE DEF s
      <4> QED
        BY <4>2, <4>3
    <3>2. CASE \E o \in halfway : /\ halfway' = halfway \ {o} /\ UNCHANGED ctOrders
                                  /\ taken' = [taken EXCEPT ![l] = [o EXCEPT !.pc = "wait"]]
      <4>1. PICK o \in halfway : /\ halfway' = halfway \ {o} /\ UNCHANGED ctOrders
                                 /\ taken' = [taken EXCEPT ![l] = [o EXCEPT !.pc = "wait"]]
        BY <3>2
      <4> DEFINE s == [o EXCEPT !.pc = "wait"]
      <4>2. o \in Taken /\ o.buyer \in Buyer
        BY DEF CtTypeOK
      <4>3. s \in Taken /\ s.pc = "wait" /\ s.buyer \in Buyer
        BY <4>2 DEF Taken
      <4>4. taken' = [taken EXCEPT ![l] = s] /\ halfway' \subseteq halfway /\ ctOrders' \in Nat
        BY <4>1 DEF CtTypeOK
      <4> HIDE DEF s
      <4> QED
        BY <4>3, <4>4
    <3> QED
      BY <1>3, <3>1, <3>2 DEF TakeOrder
  <2>2. UNCHANGED <<contacts, cached, placed, earned, owed, ctFaults>>
    BY <1>3 DEF TakeOrder, ctHistory
  <2>3. CtTypeOK'
    BY <2>1, <2>2 DEF CtTypeOK
  <2>4. taken'[l] = t /\ \A k \in CtLane \ {l} : taken'[k] = taken[k]
    BY <2>1 DEF CtTypeOK
  <2>5. \A c \in 1..Len(contacts') : contacts'[c].device => c \in earned'
    BY <2>2 DEF BuyersApart
  <2> HIDE DEF CtSafe
  <2> QED
    BY <1>u, <2>1, <2>2, <2>3, <2>4, <2>5, LaneKeepsContact
<1>4. ASSUME NEW l \in CtLane, EnterLock(l) PROVE CtSafe'
  <2> DEFINE known == cached[EngineOf(l)][KeyOfLane(l)]
  <2>1. /\ taken[l].pc = "wait" /\ FreeKey(l)
        /\ OnTo(l, IF known = 0 THEN "search" ELSE "order", known)
        /\ UNCHANGED <<contacts, cached, halfway, placed, earned, owed, ctOrders, ctFaults>>
    BY <1>4 DEF EnterLock, ctHistory, KeyOfLane
  <2>2. known \in Nat
    BY <2>1 DEF CtTypeOK, KeyOfLane
  <2>3. LaneOnTo(l, IF known = 0 THEN "search" ELSE "order", known)
    BY <2>1, <2>2, LaneMoves
  <2>4. CtTypeOK'
    BY <2>1, <2>3 DEF CtTypeOK, LaneOnTo
  <2>5. \A c \in 1..Len(contacts') : contacts'[c].device => c \in earned'
    BY <2>1 DEF BuyersApart
  <2>6. KeyOfLane(l)' = KeyOfLane(l)
    BY <2>3 DEF LaneOnTo, KeyOfLane
  <2> HIDE DEF CtSafe
  <2> QED
    BY <1>u, <2>1, <2>2, <2>3, <2>4, <2>5, <2>6, LaneKeepsContact DEF LaneOnTo
<1>5. ASSUME NEW l \in CtLane, SearchContact(l) PROVE CtSafe'
  <2> DEFINE c == ByPhone(taken[l].buyer)
  <2>1. /\ c \in Nat /\ taken[l].pc = "search" /\ taken[l].pc \in UnderLock
        /\ taken[l].pc # "idle"
        /\ UNCHANGED <<contacts, halfway, placed, earned, owed, ctOrders>>
        /\ \/ c # 0 /\ Resolved(l, c) /\ UNCHANGED ctFaults
           \/ /\ IF c = 0 THEN UNCHANGED ctFaults ELSE CtFault
              /\ OnTo(l, "create", 0) /\ UNCHANGED cached
    BY <1>5, <1>u, NewestTyped DEF SearchContact, ctHistory
  <2> HIDE DEF c
  <2>2. ctFaults' \in Nat
    BY <2>1 DEF CtFault, CtTypeOK
  <2>3. \A d \in 1..Len(contacts') : contacts'[d].device => d \in earned
    BY <2>1 DEF BuyersApart
  <2>4. CASE c # 0 /\ Resolved(l, c)
    <3>1. LaneOnTo(l, "order", c) /\ CachedAs(l, c)
      BY <2>1, <2>4, LaneMoves
    <3>2. CtTypeOK'
      BY <2>1, <2>2, <3>1 DEF CtTypeOK, LaneOnTo, CachedAs
    <3> HIDE DEF CtSafe
    <3> QED
      BY <2>1, <2>3, <2>4, <3>1, <3>2, LaneResolves
  <2>5. CASE OnTo(l, "create", 0) /\ UNCHANGED cached
    <3>1. LaneOnTo(l, "create", 0)
      BY <2>5, LaneMoves
    <3>2. CtTypeOK'
      BY <2>1, <2>2, <2>5, <3>1 DEF CtTypeOK, LaneOnTo
    <3>3. KeyOfLane(l)' = KeyOfLane(l)
      BY <3>1 DEF LaneOnTo, KeyOfLane
    <3> HIDE DEF CtSafe
    <3> QED
      BY <1>u, <2>1, <2>3, <2>5, <3>1, <3>2, <3>3, LaneKeepsContact DEF LaneOnTo
  <2> QED
    BY <2>1, <2>4, <2>5
<1>6. ASSUME NEW l \in CtLane, CreateContact(l) PROVE CtSafe'
  <2> DEFINE b == taken[l].buyer
             c == Len(contacts) + 1
  <2>1. /\ taken[l].pc = "create" /\ taken[l].pc \in UnderLock /\ taken[l].pc # "idle"
        /\ UNCHANGED <<halfway, placed, earned, owed, ctOrders>>
        /\ \/ NewContact(b) /\ Resolved(l, c) /\ UNCHANGED ctFaults
           \/ /\ IF HasPhoneOf(b) THEN UNCHANGED ctFaults ELSE CtFault
              /\ OnTo(l, "again", 0) /\ UNCHANGED <<contacts, cached>>
    BY <1>6, <1>u DEF CreateContact, ctHistory
  <2>2. ctFaults' \in Nat
    BY <2>1 DEF CtFault, CtTypeOK
  <2>3. b \in Buyer /\ c \in Nat \ {0}
    BY <2>1, LenProperties DEF CtTypeOK
  <2>4. CASE NewContact(b) /\ Resolved(l, c)
    <3>1. /\ contacts' \in Seq(Contact)
          /\ \A d \in 1..Len(contacts') : contacts'[d].device => d \in earned
      BY <2>3, <2>4, ContactsGrow DEF BuyersApart
    <3> HIDE DEF b, c
    <3>2. LaneOnTo(l, "order", c) /\ CachedAs(l, c)
      BY <2>1, <2>3, <2>4, LaneMoves
    <3>3. CtTypeOK'
      BY <2>1, <2>2, <3>1, <3>2 DEF CtTypeOK, LaneOnTo, CachedAs
    <3> HIDE DEF CtSafe
    <3> QED
      BY <2>1, <2>3, <3>1, <3>2, <3>3, LaneResolves
  <2>5. CASE OnTo(l, "again", 0) /\ UNCHANGED <<contacts, cached>>
    <3>1. LaneOnTo(l, "again", 0)
      BY <2>5, LaneMoves
    <3>2. CtTypeOK'
      BY <2>1, <2>2, <2>5, <3>1 DEF CtTypeOK, LaneOnTo
    <3>3. KeyOfLane(l)' = KeyOfLane(l)
      BY <3>1 DEF LaneOnTo, KeyOfLane
    <3>4. \A d \in 1..Len(contacts') : contacts'[d].device => d \in earned'
      BY <2>1, <2>5 DEF BuyersApart
    <3> HIDE DEF CtSafe
    <3> QED
      BY <1>u, <2>1, <2>5, <3>1, <3>2, <3>3, <3>4, LaneKeepsContact DEF LaneOnTo
  <2> QED
    BY <2>1, <2>4, <2>5
<1>7. ASSUME NEW l \in CtLane, SearchAgain(l) PROVE CtSafe'
  <2> DEFINE c == ByPhoneOrId(taken[l].buyer)
  <2>1. /\ c \in Nat /\ taken[l].pc = "again" /\ taken[l].pc \in UnderLock
        /\ taken[l].pc # "idle"
        /\ UNCHANGED <<contacts, halfway, placed, earned, owed, ctOrders, ctFaults>>
        /\ IF c # 0 THEN Resolved(l, c) ELSE Ends(l) /\ UNCHANGED cached
    BY <1>7, <1>u, NewestTyped DEF SearchAgain, ctHistory
  <2> HIDE DEF c
  <2>2. \A d \in 1..Len(contacts') : contacts'[d].device => d \in earned
    BY <2>1 DEF BuyersApart
  <2>3. CASE c # 0 /\ Resolved(l, c)
    <3>1. LaneOnTo(l, "order", c) /\ CachedAs(l, c)
      BY <2>1, <2>3, LaneMoves
    <3>2. CtTypeOK'
      BY <2>1, <3>1 DEF CtTypeOK, LaneOnTo, CachedAs
    <3> HIDE DEF CtSafe
    <3> QED
      BY <2>1, <2>2, <2>3, <3>1, <3>2, LaneResolves
  <2>4. CASE Ends(l) /\ UNCHANGED cached
    <3>1. LaneEnds(l)
      BY <2>4, LaneMoves
    <3>2. CtTypeOK'
      BY <2>1, <2>4, <3>1 DEF CtTypeOK, LaneEnds
    <3> HIDE DEF CtSafe
    <3> QED
      BY <1>u, <2>1, <2>2, <2>4, <3>1, <3>2, LaneKeepsContact DEF LaneEnds
  <2> QED
    BY <2>1, <2>3, <2>4
<1>8. ASSUME NEW l \in CtLane, PlaceOrder(l) PROVE CtSafe'
  <2> DEFINE e == EngineOf(l)
             o == taken[l]
             x == <<o.buyer, o.contact>>
  <2>1. /\ o.pc = "order" /\ OnTo(l, "items", o.contact)
        /\ UNCHANGED <<contacts, cached, halfway, owed, ctOrders, ctFaults>>
        /\ IF o.late THEN UNCHANGED <<placed, earned>>
           ELSE /\ placed' = [placed EXCEPT ![e] = @ \cup {x}]
                /\ earned' = IF o.device THEN earned \cup {o.contact} ELSE earned
    BY <1>8 DEF PlaceOrder
  <2>2. /\ e \in CtEngine /\ o \in Taken /\ o.buyer \in Buyer /\ o.contact \in Nat
        /\ o.contact # 0 /\ o.contact = cached[e][KeyOf(o.buyer)]
    BY <2>1 DEF CtTypeOK, PlacedAsResolved, KeyOfLane, Taken
  <2>3. LaneOnTo(l, "items", o.contact)
    BY <2>1, <2>2, LaneMoves
  <2>4. /\ placed' \in [CtEngine -> SUBSET (Buyer \X Nat)]
        /\ \A f \in CtEngine : \A y \in placed'[f] : y \in placed[f] \/ (f = e /\ y = x)
    <3>1. x \in Buyer \X Nat /\ placed \in [CtEngine -> SUBSET (Buyer \X Nat)] /\ e \in CtEngine
      BY <2>2 DEF CtTypeOK
    <3>2. placed' = placed \/ placed' = [placed EXCEPT ![e] = placed[e] \cup {x}]
      BY <2>1
    <3> HIDE DEF x, e
    <3>3. CASE placed' = placed
      BY <3>1, <3>3
    <3>4. CASE placed' = [placed EXCEPT ![e] = placed[e] \cup {x}]
      BY <3>1, <3>4
    <3> QED
      BY <3>2, <3>3, <3>4
  <2>5. /\ earned' \subseteq Nat /\ earned \subseteq earned'
        /\ o.device /\ ~o.late => o.contact \in earned'
    BY <2>1, <2>2 DEF CtTypeOK
  <2>6. x[1] = o.buyer /\ x[2] = o.contact
    OBVIOUS
  <2>7. CtTypeOK'
    BY <2>1, <2>2, <2>3, <2>4, <2>5 DEF CtTypeOK, LaneOnTo
  <2>8. \A k \in CtLane : KeyOfLane(k)' = KeyOfLane(k)
    BY <2>3 DEF LaneOnTo, KeyOfLane
  <2>9. \A k \in CtLane : taken'[k].pc \in UnderLock => k # l /\ taken[k].pc \in UnderLock
    BY <1>u, <2>3 DEF LaneOnTo
  <2> HIDE DEF x, e
  <2>10. OneLookup'
    BY <2>1, <2>8, <2>9 DEF OneLookup
  <2>11. PlacedAsResolved'
    <3>1. ASSUME NEW k \in CtLane, taken'[k].pc \in {"order", "items"}
          PROVE  /\ taken'[k].contact # 0
                 /\ taken'[k].contact = cached'[EngineOf(k)][KeyOfLane(k)']
      BY <2>1, <2>2, <2>3, <2>8, <3>1 DEF LaneOnTo, PlacedAsResolved, KeyOfLane, e
    <3>2. ASSUME NEW f \in CtEngine, NEW y \in placed'[f]
          PROVE  y[2] # 0 /\ y[2] = cached'[f][KeyOf(y[1])]
      BY <2>1, <2>2, <2>4, <2>6 DEF PlacedAsResolved
    <3> QED
      BY <3>1, <3>2 DEF PlacedAsResolved
  <2>12. StampsEarned'
    BY <2>3, <2>5 DEF StampsEarned, Signals, LaneOnTo
  <2>13. BuyersApart'
    <3>1. ASSUME NEW f \in CtEngine, NEW y \in placed'[f], NEW z \in placed'[f], y[1] = z[1]
          PROVE  y[2] = z[2]
      BY <2>11, <3>1 DEF PlacedAsResolved
    <3> QED
      BY <2>1, <2>5, <3>1 DEF BuyersApart
  <2> QED
    BY <2>7, <2>10, <2>11, <2>12, <2>13
<1>9. ASSUME NEW l \in CtLane, StampSignals(l) PROVE CtSafe'
  <2> DEFINE c == taken[l].contact
  <2>1. /\ taken[l].pc = "items" /\ Ends(l)
        /\ \/ contacts' = [contacts EXCEPT ![c].device = @ \/ Signals(l)] /\ UNCHANGED ctFaults
           \/ CtFault /\ UNCHANGED contacts
        /\ owed' = IF taken[l].device THEN owed \cup {c} ELSE owed
        /\ UNCHANGED <<cached, halfway, placed, earned, ctOrders>>
    BY <1>9 DEF StampSignals
  <2>2. c \in Nat /\ (Signals(l) => c \in earned)
    BY <2>1 DEF StampsEarned, CtTypeOK, Taken
  <2>3. /\ contacts' \in Seq(Contact) /\ Len(contacts') = Len(contacts)
        /\ \A d \in 1..Len(contacts) : contacts'[d].device => d \in earned
    <3>0. /\ DOMAIN contacts = 1..Len(contacts) /\ Len(contacts) \in Nat
          /\ \A d \in 1..Len(contacts) : contacts[d] \in Contact
          /\ contacts \in Seq(Contact)
          /\ \A d \in 1..Len(contacts) : contacts[d].device => d \in earned
      BY LenProperties, ElementOfSeq DEF CtTypeOK, BuyersApart
    <3>1. CASE contacts' = contacts
      BY <3>0, <3>1
    <3>2. CASE contacts' = [contacts EXCEPT ![c].device = @ \/ Signals(l)]
      <4> DEFINE r == [contacts[c] EXCEPT !.device = @ \/ Signals(l)]
      <4>1. contacts' = [contacts EXCEPT ![c] = r]
        BY <3>2
      <4>2. CASE c \in 1..Len(contacts)
        <5>1. r \in Contact /\ (r.device => contacts[c].device \/ Signals(l))
          BY <3>0, <4>2 DEF Contact, Signals
        <5>e. r.device => c \in earned
          BY <2>2, <3>0, <4>2, <5>1
        <5> HIDE DEF r, c
        <5>2. /\ contacts' \in Seq(Contact) /\ Len(contacts') = Len(contacts)
              /\ contacts'[c] = r /\ \A d \in 1..Len(contacts) : d # c => contacts'[d] = contacts[d]
          BY <3>0, <4>1, <4>2, <5>1, ExceptSeq
        <5> QED
          BY <3>0, <5>e, <5>2
      <4>3. CASE c \notin 1..Len(contacts)
        <5> HIDE DEF r, c
        <5>1. contacts' = contacts
          BY <3>0, <4>1, <4>3
        <5> QED
          BY <3>1, <5>1
      <4> QED
        BY <4>2, <4>3
    <3> QED
      BY <2>1, <3>1, <3>2
  <2>4. LaneEnds(l)
    BY <2>1, LaneMoves
  <2>5. ctFaults' \in Nat
    BY <2>1 DEF CtFault, CtTypeOK
  <2>6. CtTypeOK'
    BY <2>1, <2>2, <2>3, <2>4, <2>5 DEF CtTypeOK, LaneEnds
  <2>7. \A d \in 1..Len(contacts') : contacts'[d].device => d \in earned'
    BY <2>1, <2>2, <2>3 DEF BuyersApart
  <2> HIDE DEF CtSafe
  <2> QED
    BY <1>u, <2>1, <2>4, <2>6, <2>7, LaneKeepsContact DEF LaneEnds
<1>10. ASSUME NEW l \in CtLane, ItemFails(l) PROVE CtSafe'
  <2> DEFINE left == [taken[l] EXCEPT !.pc = "idle", !.late = TRUE, !.contact = 0]
  <2>1. /\ taken[l].pc = "items" /\ CtFault /\ Ends(l)
        /\ halfway' = halfway \cup {left}
        /\ UNCHANGED <<contacts, cached, placed, earned, owed, ctOrders>>
    BY <1>10 DEF ItemFails, ctHistory
  <2>2. left \in Taken /\ left.late /\ left.buyer \in Buyer
    <3>1. taken[l] \in Taken /\ taken[l].buyer \in Buyer
      BY <2>1 DEF CtTypeOK
    <3> QED
      BY <3>1 DEF Taken
  <2> HIDE DEF left
  <2>3. LaneEnds(l)
    BY <2>1, LaneMoves
  <2>4. ctFaults' \in Nat
    BY <2>1 DEF CtFault, CtTypeOK
  <2>5. CtTypeOK'
    BY <2>1, <2>2, <2>3, <2>4 DEF CtTypeOK, LaneEnds
  <2>6. \A d \in 1..Len(contacts') : contacts'[d].device => d \in earned'
    BY <2>1 DEF BuyersApart
  <2> HIDE DEF CtSafe
  <2> QED
    BY <1>u, <2>1, <2>3, <2>5, <2>6, LaneKeepsContact DEF LaneEnds
<1>11. ASSUME NEW e \in CtEngine, KillResolver(e) PROVE CtSafe'
  <2>1. /\ CtFault /\ UNCHANGED <<contacts, halfway, earned, owed, ctOrders>>
        /\ taken' = [l \in CtLane |-> IF l \in CtLanes[e] THEN NotTaken ELSE taken[l]]
        /\ cached' = [cached EXCEPT ![e] = [k \in CtKey |-> 0]]
        /\ placed' = [placed EXCEPT ![e] = {}]
    BY <1>11 DEF KillResolver
  <2>2. NotTaken \in Taken /\ NotTaken.pc = "idle"
    BY DEF NotTaken, Taken
  <2>3. /\ taken' \in [CtLane -> Taken]
        /\ \A l \in CtLane : IF EngineOf(l) = e THEN taken'[l].pc = "idle" ELSE taken'[l] = taken[l]
    BY <2>1, <2>2 DEF CtTypeOK
  <2>4. /\ cached' \in [CtEngine -> [CtKey -> Nat]]
        /\ \A f \in CtEngine \ {e} : cached'[f] = cached[f]
    BY <2>1 DEF CtTypeOK
  <2>5. /\ placed' \in [CtEngine -> SUBSET (Buyer \X Nat)] /\ placed'[e] = {}
        /\ \A f \in CtEngine \ {e} : placed'[f] = placed[f]
    BY <2>1 DEF CtTypeOK
  <2>6. CtTypeOK'
    BY <2>1, <2>3, <2>4, <2>5 DEF CtTypeOK, CtFault
  <2>7. OneLookup'
    BY <1>u, <2>3, <2>4 DEF OneLookup, KeyOfLane
  <2>8. PlacedAsResolved'
    BY <2>3, <2>4, <2>5 DEF PlacedAsResolved, KeyOfLane
  <2>9. StampsEarned'
    BY <2>1, <2>3 DEF StampsEarned, Signals
  <2>10. BuyersApart'
    BY <2>1, <2>5 DEF BuyersApart
  <2> QED
    BY <2>6, <2>7, <2>8, <2>9, <2>10
<1>12. CASE UNCHANGED ctVars
  BY <1>12 DEF ctVars, CtTypeOK, OneLookup, PlacedAsResolved, StampsEarned, BuyersApart,
               KeyOfLane, Signals
<1> QED
  BY <1>1, <1>2, <1>3, <1>4, <1>5, <1>6, <1>7, <1>8, <1>9, <1>10, <1>11, <1>12 DEF CtNext

(* Orders of one buyer in one run are placed under one contact, whatever the
   search lags and whoever else creates contacts (_contact_lock, _contact_key
   and the cache of route_create); and a device flag is on a contact an order
   with a device was placed under. *)
THEOREM BuyersApartHolds == CtInit /\ [][CtNext]_ctVars => []BuyersApart
<1>1. CtSafe => BuyersApart
  BY DEF CtSafe
<1> QED
  BY CtSafeInit, CtSafeStep, <1>1, PTL
=============================================================================

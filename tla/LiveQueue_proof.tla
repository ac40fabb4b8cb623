-------------------------- MODULE LiveQueue_proof --------------------------
(***************************************************************************)
(* Proofs about LiveQueue: for any number of orders, rows, crashes and     *)
(* failed cycles, no open row lies before the pointer, the sweep enqueues  *)
(* no order again that has a settled row, and every row lives as RowLife   *)
(* says.  The argument is Safe: a row in hand is open, at or after the     *)
(* pointer and in hand once (Hands); what the trim is about to delete is   *)
(* closed and the pointer is back at the first row by then (Doomed,        *)
(* Phases); and no two rows are the same one (Numbered).                   *)
(*                                                                         *)
(* The sheet is a sequence of rows; the lemmas first say what the writes,  *)
(* the appends and the deletes of the Sheets API leave of it.              *)
(***************************************************************************)
EXTENDS LiveQueue, FiniteSetTheorems, SequenceTheorems, WellFoundedInduction, TLAPS

\* What a batch of marks M leaves of the sheet: the same rows, each as it was or
\* with what a mark of its number says.
Rewrites(M, s) ==
    /\ s \in Seq(Row) /\ Len(s) = Len(sheet)
    /\ \A n \in 1..Len(sheet) :
         /\ s[n].id = sheet[n].id /\ s[n].oid = sheet[n].oid
         /\ \/ s[n] = sheet[n]
            \/ \E m \in M : m.n = n /\ s[n].status = m.status /\ s[n].att = m.att

\* queue_mark_batch: a batch of marks leaves the same rows, and touches the rows
\* of its numbers only.
LEMMA WrittenRewrites ==
  ASSUME TypeOK, NEW M, M \subseteq Marking
  PROVE  Rewrites(M, Written(M))
<1>1. sheet \in Seq(Row) /\ Len(sheet) \in Nat /\ DOMAIN sheet = 1..Len(sheet)
  BY LenProperties DEF TypeOK
<1>2. ASSUME NEW n \in 1..Len(sheet)
      PROVE  LET w == Written(M)[n]
             IN  /\ w \in Row /\ w.id = sheet[n].id /\ w.oid = sheet[n].oid
                 /\ \/ w = sheet[n]
                    \/ \E m \in M : m.n = n /\ w.status = m.status /\ w.att = m.att
  <2>0. sheet[n] \in Row
    BY <1>1, ElementOfSeq
  <2>1. CASE \E m \in M : m.n = n /\ m.oid = sheet[n].oid
    <3> DEFINE m == CHOOSE m \in M : m.n = n
    <3>1. m \in M /\ m.n = n
      BY <2>1
    <3>2. Written(M)[n] = [sheet[n] EXCEPT !.status = m.status, !.att = m.att]
      BY <1>1, <2>1 DEF Written
    <3>3. m.status \in Status /\ m.att \in Nat
      BY <3>1 DEF Marking
    <3> HIDE DEF m
    <3> QED
      BY <2>0, <3>1, <3>2, <3>3 DEF Row
  <2>2. CASE ~\E m \in M : m.n = n /\ m.oid = sheet[n].oid
    BY <1>1, <2>0, <2>2 DEF Written
  <2> QED
    BY <2>1, <2>2
<1>3. Written(M) \in [1..Len(sheet) -> Row]
  BY <1>1, <1>2 DEF Written
<1>4. Written(M) \in Seq(Row)
  BY <1>1, <1>3, SeqDef
<1>5. Len(Written(M)) = Len(sheet)
  BY <1>1, <1>3, <1>4, LenProperties
<1> QED
  BY <1>2, <1>4, <1>5 DEF Rewrites

\* Appended rows are new and queued.
Extends(k, s) ==
    /\ s \in Seq(Row) /\ Len(s) = Len(sheet) + k
    /\ \A n \in 1..Len(sheet) : s[n] = sheet[n]
    /\ \A n \in Len(sheet)+1..Len(s) :
         s[n].id = ids + (n - Len(sheet)) /\ s[n].status = "queued" /\ s[n].att = 0

\* Make appends one row,
LEMMA AppendExtends ==
  ASSUME TypeOK, NEW o \in Order
  PROVE  Extends(1, Append(sheet, NewRow(ids + 1, o)))
<1>1. sheet \in Seq(Row) /\ Len(sheet) \in Nat
  BY LenProperties DEF TypeOK
<1>2. NewRow(ids + 1, o) \in Row /\ NewRow(ids + 1, o).oid = o
  BY DEF NewRow, Row, TypeOK, Status, Counting
<1> DEFINE s == Append(sheet, NewRow(ids + 1, o))
<1>3. /\ s \in Seq(Row) /\ Len(s) = Len(sheet) + 1
      /\ \A n \in 1..Len(sheet) : s[n] = sheet[n]
      /\ s[Len(sheet) + 1] = NewRow(ids + 1, o)
  BY <1>1, <1>2, AppendProperties
<1> HIDE DEF s
<1>4. ASSUME NEW n \in Len(sheet)+1..Len(s) 
      PROVE  s[n].id = ids + (n - Len(sheet)) /\ s[n].status = "queued" /\ s[n].att = 0
  <2>1. n = Len(sheet) + 1 /\ ids + (n - Len(sheet)) = ids + 1
    BY <1>1, <1>3 DEF TypeOK
  <2> QED
    BY <2>1, <1>3 DEF NewRow
<1> QED
  BY <1>3, <1>4 DEF Extends, s

\* and the sweep a page of them.
LEMMA PageExtends ==
  ASSUME TypeOK, NEW k \in Nat, NEW page \in [1..k -> Order]
  PROVE  Extends(k, sheet \o [i \in 1..k |-> NewRow(ids + i, page[i])])
<1> DEFINE t == [i \in 1..k |-> NewRow(ids + i, page[i])]
           s == sheet \o t
<1>1. sheet \in Seq(Row) /\ Len(sheet) \in Nat
  BY LenProperties DEF TypeOK
<1>2. ASSUME NEW i \in 1..k 
      PROVE  /\ t[i] \in Row /\ t[i].id = ids + i
             /\ t[i].status = "queued" /\ t[i].att = 0
  BY <1>2 DEF NewRow, Row, TypeOK, Status, Counting
<1>3. t \in [1..k -> Row]
  BY <1>2
<1>4. t \in Seq(Row) /\ Len(t) = k
  BY <1>3, SeqDef, LenProperties
<1> HIDE DEF t
<1>5. /\ s \in Seq(Row) /\ Len(s) = Len(sheet) + k
      /\ \A n \in 1..Len(sheet)+k : s[n] = IF n <= Len(sheet) THEN sheet[n] ELSE t[n - Len(sheet)]
  BY <1>1, <1>4, ConcatProperties
<1> HIDE DEF s
<1>6. ASSUME NEW n \in Len(sheet)+1..Len(s) 
      PROVE  s[n].id = ids + (n - Len(sheet)) /\ s[n].status = "queued" /\ s[n].att = 0
  <2>1. s[n] = t[n - Len(sheet)] /\ n - Len(sheet) \in 1..k
    BY <1>1, <1>5
  <2> QED
    BY <2>1, <1>2
<1>7. \A n \in 1..Len(sheet) : s[n] = sheet[n]
  BY <1>1, <1>5
<1>8. Extends(k, s)
  BY <1>5, <1>6, <1>7 DEF Extends
<1> QED
  BY <1>8 DEF s, t

\* After a range goes, the rows above stay and those below move up.
CutsOut(a, b, s) ==
    /\ s \in Seq(Row) /\ Len(s) = Len(sheet) - (b - a + 1)
    /\ \A n \in 1..Len(s) : s[n] = sheet[IF n < a THEN n ELSE n + (b - a + 1)]

\* deleteDimension takes a range out.
LEMMA CutCutsOut ==
  ASSUME TypeOK, NEW a \in 1..Len(sheet), NEW b \in a..Len(sheet)
  PROVE  CutsOut(a, b, Cut(a, b))
<1> DEFINE s == SubSeq(sheet, 1, a - 1)
           t == SubSeq(sheet, b + 1, Len(sheet))
<1>1. sheet \in Seq(Row) /\ Len(sheet) \in Nat
  BY LenProperties DEF TypeOK
<1>2. a \in Int /\ b \in Int /\ 1 <= a /\ a <= b /\ b <= Len(sheet)
  BY <1>1
<1>3. \A i \in 1..a-1 : sheet[i] \in Row
  BY <1>1, <1>2, ElementOfSeq
<1>4. \A i \in b+1..Len(sheet) : sheet[i] \in Row
  BY <1>1, <1>2, ElementOfSeq
<1>5. s \in Seq(Row) /\ Len(s) = a - 1 /\ \A i \in 1..a-1 : s[i] = sheet[i]
  <2>1. /\ s \in Seq(Row) /\ Len(s) = IF 1 <= a - 1 THEN (a - 1) - 1 + 1 ELSE 0
        /\ \A i \in 1..(a-1)-1+1 : s[i] = sheet[1+i-1]
    BY <1>2, <1>3, SubSeqProperties
  <2> HIDE DEF s
  <2> QED
    BY <1>2, <2>1
<1>6. /\ t \in Seq(Row) /\ Len(t) = Len(sheet) - b
      /\ \A i \in 1..Len(sheet)-b : t[i] = sheet[b + i]
  <2>1. /\ t \in Seq(Row) /\ Len(t) = IF b + 1 <= Len(sheet) THEN Len(sheet) - (b+1) + 1 ELSE 0
        /\ \A i \in 1..Len(sheet)-(b+1)+1 : t[i] = sheet[(b+1)+i-1]
    BY <1>1, <1>2, <1>4, SubSeqProperties
  <2> HIDE DEF t
  <2> QED
    BY <1>1, <1>2, <2>1
<1> HIDE DEF s, t
<1>7. /\ s \o t \in Seq(Row) /\ Len(s \o t) = Len(s) + Len(t)
      /\ \A i \in 1..Len(s) + Len(t) : (s \o t)[i] = IF i <= Len(s) THEN s[i] ELSE t[i - Len(s)]
  BY <1>5, <1>6, ConcatProperties
<1>8. Len(s \o t) = Len(sheet) - (b - a + 1)
  BY <1>1, <1>2, <1>5, <1>6, <1>7
<1>9. ASSUME NEW n \in 1..Len(s \o t) PROVE (s \o t)[n] = sheet[IF n < a THEN n ELSE n + (b - a + 1)]
  <2>1. CASE n < a
    BY <1>1, <1>2, <1>5, <1>6, <1>7, <1>8, <2>1
  <2>2. CASE n >= a
    <3>1. n - Len(s) \in 1..Len(sheet) - b /\ ~(n <= Len(s)) /\ b + (n - Len(s)) = n + (b - a + 1)
      BY <1>1, <1>2, <1>5, <1>8, <2>2
    <3>2. (s \o t)[n] = t[n - Len(s)]
      BY <1>7, <3>1
    <3>3. t[n - Len(s)] = sheet[b + (n - Len(s))]
      BY <1>6, <3>1
    <3>4. ~(n < a)
      BY <1>2, <1>8, <2>2
    <3> QED
      BY <3>1, <3>2, <3>3, <3>4
  <2> QED
    BY <1>2, <1>8, <2>1, <2>2
<1> QED
  BY <1>7, <1>8, <1>9 DEF Cut, CutsOut, s, t

\* A set of numbers that is not empty has a least one.
LEMMA Least ==
  ASSUME NEW S, S \subseteq Nat, S # {}
  PROVE  \E n \in S : \A m \in S : n <= m
<1>1. PICK n \in S : \A m \in S : ~(<<m, n>> \in OpToRel(<, Nat))
  BY NatLessThanWellFounded, WFMin
<1>2. ASSUME NEW m \in S PROVE n <= m
  <2>1. m \in Nat /\ n \in Nat
    OBVIOUS
  <2>2. ~(<<m, n>> \in OpToRel(<, Nat))
    BY <1>1
  <2>3. ~(m < n)
    BY <2>1, <2>2 DEF OpToRel
  <2> QED
    BY <2>1, <2>3
<1> QED
  BY <1>2

\* No row from the pointer on that is still to be worked on lies before the
\* frontier.
LEMMA FrontierHolds ==
  ASSUME TypeOK
  PROVE  /\ Frontier \in Counting /\ Frontier <= Len(sheet) + 1
         /\ \A n \in start..Len(sheet) : sheet[n].status \notin Terminal => Frontier <= n
<1> DEFINE open == {n \in start..Len(sheet) : sheet[n].status \notin Terminal}
<1>1. Len(sheet) \in Nat /\ start \in Nat /\ start >= 1
  BY LenProperties DEF TypeOK, Counting
<1>2. open \subseteq Nat /\ \A n \in open : n >= 1
  BY <1>1
<1>3. CASE open = {}
  BY <1>1, <1>3 DEF Frontier, Counting
<1>4. CASE open # {}
  <2> HIDE DEF open
  <2>1. \E n \in open : \A m \in open : n <= m
    BY <1>2, <1>4, Least
  <2>2. Frontier = CHOOSE n \in open : \A m \in open : n <= m
    BY <1>4 DEF Frontier, open
  <2>3. Frontier \in open /\ \A m \in open : Frontier <= m
    BY <2>1, <2>2
  <2>4. Frontier \in start..Len(sheet)
    BY <2>3 DEF open
  <2> QED
    BY <1>1, <1>2, <2>3, <2>4 DEF Counting, open
<1> QED
  BY <1>3, <1>4

\* What is made of a row in hand is a mark; a claimed row is a row in hand.
LEMMA MarksTyped ==
  /\ \A r \in InHand, st \in Status : Same(r, st) \in Marking /\ Outcome(r, st) \in Marking
  /\ \A n \in 1..Len(sheet), st \in Status : TypeOK => Claimed(n) \in InHand
<1>1. ASSUME NEW r \in InHand, NEW st \in Status
      PROVE  Same(r, st) \in Marking /\ Outcome(r, st) \in Marking
  BY DEF InHand, Marking, Same, Outcome, MarkOf
<1>2. ASSUME NEW n \in 1..Len(sheet), TypeOK PROVE Claimed(n) \in InHand
  <2>1. sheet[n] \in Row /\ n \in Counting
    BY <1>2, ElementOfSeq, LenProperties DEF TypeOK, Counting
  <2> QED
    BY <2>1 DEF Claimed, InHand, Row
<1> QED
  BY <1>1, <1>2

\* What a cycle stamps, what it marks of twins, and what the settle marks.
Stamps == {Same(r, "processing") : r \in fetch}
TwinMarks == {Same(r, IF r.oid \in ledger THEN "done" ELSE "error") : r \in twins}
Settling ==
    {Same(Claimed(n), "done") : n \in CreatedLater}
      \cup {Same(Claimed(n), "closed") : n \in DrainClosed}

\* Each step that writes marks rewrites the sheet with them.
LEMMA BatchSheet ==
  ASSUME TypeOK
  PROVE  /\ MarkResolved => Rewrites(marks, sheet')
         /\ Stamp => Rewrites(Stamps, sheet')
         /\ \A m \in marks : MarkLane(m) => Rewrites({m}, sheet')
         /\ MarkTwins => Rewrites(TwinMarks, sheet')
         /\ SettleHeld => Rewrites(Settling, sheet')
<1>a. /\ marks \subseteq Marking /\ fetch \subseteq InHand /\ twins \subseteq InHand
      /\ {"processing", "done", "error", "closed"} \subseteq Status
  BY DEF TypeOK, Status
<1>1. ASSUME MarkResolved PROVE Rewrites(marks, sheet')
  BY <1>a, <1>1, WrittenRewrites DEF MarkResolved
<1>2. ASSUME Stamp PROVE Rewrites(Stamps, sheet')
  <2>1. Stamps \subseteq Marking
    BY <1>a, MarksTyped DEF Stamps, TwinMarks
  <2> QED
    BY <1>2, <2>1, WrittenRewrites DEF Stamp, Stamps
<1>3. ASSUME NEW m \in marks, MarkLane(m) PROVE Rewrites({m}, sheet')
  BY <1>a, <1>3, WrittenRewrites DEF MarkLane
<1>4. ASSUME MarkTwins
      PROVE  Rewrites(TwinMarks, sheet')
  <2>1. TwinMarks \subseteq Marking
    BY <1>a, MarksTyped DEF Stamps, TwinMarks
  <2> QED
    BY <1>4, <2>1, WrittenRewrites DEF MarkTwins, TwinMarks
<1>5. ASSUME SettleHeld PROVE Rewrites(Settling, sheet')
  <2>1. CreatedLater \subseteq 1..Len(sheet) /\ DrainClosed \subseteq 1..Len(sheet)
    BY LenProperties DEF TypeOK, CreatedLater, DrainClosed, SettleView
  <2>2. Settling \subseteq Marking
    BY <1>a, <2>1, MarksTyped DEF Settling
  <2> QED
    BY <1>5, <2>2, WrittenRewrites DEF SettleHeld, Settling
<1> QED
  BY <1>1, <1>2, <1>3, <1>4, <1>5

\* The same rows, older.
Ages(s) ==
    /\ s \in Seq(Row) /\ Len(s) = Len(sheet)
    /\ \A n \in 1..Len(sheet) :
         /\ s[n].id = sheet[n].id /\ s[n].oid = sheet[n].oid
         /\ s[n].status = sheet[n].status /\ s[n].att = sheet[n].att

\* Rows grow old and stay as they are otherwise.
LEMMA DaysSheet ==
  ASSUME TypeOK, Days
  PROVE  Ages(sheet')
<1>1. sheet \in Seq(Row) /\ Len(sheet) \in Nat /\ DOMAIN sheet = 1..Len(sheet)
  BY LenProperties DEF TypeOK
<1>2. ASSUME NEW n \in 1..Len(sheet) 
      PROVE  LET w == [sheet[n] EXCEPT !.old = TRUE]
             IN  /\ w \in Row /\ w.id = sheet[n].id /\ w.oid = sheet[n].oid
                 /\ w.status = sheet[n].status /\ w.att = sheet[n].att
  <2>1. sheet[n] \in Row
    BY <1>1, ElementOfSeq
  <2> QED
    BY <2>1 DEF Row
<1>3. sheet' = [n \in 1..Len(sheet) |-> [sheet[n] EXCEPT !.old = TRUE]]
  BY <1>1 DEF Days
<1>4. sheet' \in [1..Len(sheet) -> Row]
  BY <1>2, <1>3
<1>5. sheet' \in Seq(Row)
  BY <1>1, <1>4, SeqDef
<1>6. Len(sheet') = Len(sheet)
  BY <1>1, <1>4, <1>5, LenProperties
<1> QED
  BY <1>2, <1>3, <1>5, <1>6 DEF Ages

\* A webhook appends one row; the sweep as many as it has missed orders, none of
\* which it knows; the trim takes out a range of the rows it has chosen.
LEMMA WebhookSheet ==
  ASSUME TypeOK, NEW o \in Order, Webhook(o)
  PROVE  Extends(1, sheet') /\ ids' = ids + 1
  BY AppendExtends DEF Webhook

\* See WebhookSheet.
LEMMA SweepAppendSheet ==
  ASSUME TypeOK, SweepAppend
  PROVE  \E k \in Nat : /\ Extends(k, sheet') /\ ids' = ids + k
                        /\ \A n \in Len(sheet)+1..Len(sheet)+k : sheet'[n].oid \notin known
<1> DEFINE missed == (listed \ known) \ ledger
           count == Cardinality(missed)
<1>1. missed \in SUBSET Order /\ IsFiniteSet(Order)
  BY LiveQueueAssumption DEF TypeOK
<1>2. count \in Nat
  BY <1>1, FS_Subset, FS_CardinalityType
<1>3. PICK page \in [1..count -> missed] :
         sheet' = sheet \o [k \in 1..count |-> NewRow(ids + k, page[k])]
  BY DEF SweepAppend
<1>4. ids' = ids + count
  BY DEF SweepAppend
<1> HIDE DEF count
<1>5. page \in [1..count -> Order]
  BY <1>1, <1>3
<1>6. Extends(count, sheet')
  BY <1>2, <1>3, <1>5, PageExtends
<1>7. ASSUME NEW n \in Len(sheet)+1..Len(sheet)+count PROVE sheet'[n].oid \notin known
  <2>1. sheet \in Seq(Row) /\ Len(sheet) \in Nat
    BY LenProperties DEF TypeOK
  <2> DEFINE t == [k \in 1..count |-> NewRow(ids + k, page[k])]
  <2>2. ASSUME NEW i \in 1..count PROVE t[i] \in Row /\ t[i].oid \notin known
    <3>1. page[i] \in missed /\ page[i] \in Order /\ ids + i \in Counting
      BY <1>2, <1>3, <1>5 DEF TypeOK, Counting
    <3> QED
      BY <3>1 DEF NewRow, Row, Status
  <2>3. t \in [1..count -> Row]
    BY <2>2
  <2>4. t \in Seq(Row) /\ Len(t) = count
    BY <1>2, <2>3, SeqDef, LenProperties
  <2>5. n - Len(sheet) \in 1..count /\ n \in 1..Len(sheet) + Len(t) /\ ~(n <= Len(sheet))
    BY <1>2, <2>1, <2>4
  <2> HIDE DEF t
  <2>6. (sheet \o t)[n] = t[n - Len(sheet)]
    BY <2>1, <2>4, <2>5, ConcatProperties
  <2>7. sheet' = sheet \o t
    BY <1>3 DEF t
  <2> QED
    BY <2>2, <2>5, <2>6, <2>7
<1> QED
  BY <1>2, <1>4, <1>6, <1>7

\* See WebhookSheet.
LEMMA TrimDeleteSheet ==
  ASSUME TypeOK, Doomed, TrimDelete
  PROVE  \E a \in 1..Len(sheet), b \in 1..Len(sheet) :
           /\ a <= b /\ CutsOut(a, b, sheet')
           /\ a..b \subseteq doomed /\ doomed' = doomed \ (a..b)
           /\ \A n \in doomed' : n < a
<1>1. DOMAIN sheet = 1..Len(sheet) /\ Len(sheet) \in Nat
  BY LenProperties DEF TypeOK
<1>2. PICK a, b \in doomed :
         /\ a <= b /\ a..b \subseteq doomed /\ a - 1 \notin doomed
         /\ \A n \in doomed : n <= b
         /\ sheet' = Cut(a, b)
         /\ doomed' = doomed \ (a..b)
  BY DEF TrimDelete
<1>3. a \in 1..Len(sheet) /\ b \in 1..Len(sheet) /\ b \in a..Len(sheet)
  BY <1>1, <1>2 DEF Doomed, TrimDelete
<1>4. CutsOut(a, b, sheet')
  BY <1>2, <1>3, CutCutsOut
<1>5. \A n \in doomed' : n < a
  BY <1>2, <1>3 DEF TypeOK, Counting
<1> QED
  BY <1>2, <1>3, <1>4, <1>5

-----------------------------------------------------------------------------
\* Every step keeps the types.
LEMMA TypeStep == TypeOK /\ Doomed /\ [Next]_vars => TypeOK'
<1> SUFFICES ASSUME TypeOK, Doomed, [Next]_vars PROVE TypeOK'
  OBVIOUS
<1>s. DOMAIN sheet = 1..Len(sheet) /\ \A n \in 1..Len(sheet) : sheet[n] \in Row /\ sheet[n].oid \in Order
  <2>1. DOMAIN sheet = 1..Len(sheet) /\ \A n \in 1..Len(sheet) : sheet[n] \in Row
    BY LenProperties, ElementOfSeq DEF TypeOK
  <2> QED
    BY <2>1 DEF Row
<1>f. Frontier \in Counting
  BY FrontierHolds
<1> USE LiveQueueAssumption DEF TypeOK, Pcs, store, cycle, bounds
<1>1. ASSUME NEW retry \in BOOLEAN, Poll(retry) PROVE TypeOK'
  <2> DEFINE claim == {n \in start..Len(sheet) : Claimable(n, retry)}
             first == {n \in claim : \A m \in claim : sheet[m].oid = sheet[n].oid => n <= m}
  <2>1. claim \subseteq 1..Len(sheet) /\ first \subseteq claim
    BY LenProperties DEF Counting
  <2>2. /\ todo' = {Claimed(n) : n \in first} /\ twins' = {Claimed(n) : n \in claim \ first}
        /\ start' = Frontier /\ saved' = Frontier /\ drained' \in BOOLEAN
        /\ pc' \in {"sweep", "resolve"}
        /\ UNCHANGED <<sheet, ids, store, fetch, marks, known, doomed, bounds>>
    BY <1>1 DEF Poll
  <2> HIDE DEF claim, first
  <2>3. todo' \subseteq InHand /\ twins' \subseteq InHand
    BY <2>1, <2>2, MarksTyped, <1>s DEF Status
  <2>4. Frontier \in Counting
    BY <1>f
  <2> QED
    BY <2>2, <2>3, <2>4
<1>2. ASSUME NEW r \in todo, Resolve(r) PROVE TypeOK'
  <2>1. r \in InHand /\ r.oid \in Order
    BY DEF InHand
  <2>2. \A out \in {"done", "held", "error"} : Outcome(r, out) \in Marking
    BY <2>1, MarksTyped DEF Status
  <2>3. todo' \subseteq InHand /\ marks' \subseteq Marking /\ ledger' \subseteq Order /\ fetch' \subseteq InHand
    BY <1>2, <2>1, <2>2 DEF Resolve
  <2> QED
    BY <1>2, <2>3 DEF Resolve
<1>3. CASE MarkResolved
  <2>1. Rewrites(marks, sheet')
    BY <1>3, BatchSheet
  <2> QED
    BY <1>3, <2>1 DEF MarkResolved, Goto, Rewrites
<1>4. CASE Stamp
  <2>1. Rewrites(Stamps, sheet')
    BY <1>4, BatchSheet
  <2> QED
    BY <1>4, <2>1 DEF Stamp, Goto, Rewrites
<1>5. ASSUME NEW r \in todo, Lane(r) PROVE TypeOK'
  <2>1. r \in InHand /\ r.oid \in Order
    BY DEF InHand
  <2>2. \A out \in {"done", "held", "error", "gone"} : Outcome(r, out) \in Marking
    BY <2>1, MarksTyped DEF Status
  <2>3. todo' \subseteq InHand /\ marks' \subseteq Marking /\ ledger' \subseteq Order
    BY <1>5, <2>1, <2>2 DEF Lane
  <2> QED
    BY <1>5, <2>3 DEF Lane
<1>6. ASSUME NEW m \in marks, MarkLane(m) PROVE TypeOK'
  <2>1. Rewrites({m}, sheet')
    BY <1>6, BatchSheet
  <2> QED
    BY <1>6, <2>1 DEF MarkLane, Rewrites
<1>7. CASE LanesDone
  BY <1>7 DEF LanesDone, Goto
<1>8. CASE MarkTwins
  <2>1. Rewrites(TwinMarks, sheet')
    BY <1>8, BatchSheet
  <2> QED
    BY <1>8, <2>1 DEF MarkTwins, Goto, Rewrites
<1>9. CASE SweepRead
  <2>1. known' \subseteq Order
    BY <1>9, <1>s DEF SweepRead, SweepKnown
  <2> QED
    BY <1>9, <2>1 DEF SweepRead, Goto
<1>10. CASE SweepAppend
  <2>1. PICK k \in Nat : /\ Extends(k, sheet') /\ ids' = ids + k
                          /\ \A n \in Len(sheet)+1..Len(sheet)+k : sheet'[n].oid \notin known
    BY <1>10, SweepAppendSheet
  <2> QED
    BY <1>10, <2>1 DEF SweepAppend, Goto, Extends
<1>11. CASE SweepNot
  BY <1>11 DEF SweepNot
<1>12. CASE TrimBegin
  <2>1. doomed' \subseteq Counting
    <3>1. 1..Len(sheet) \subseteq Counting
      BY LenProperties DEF TypeOK, Counting
    <3> QED
      BY <1>12, <3>1, <1>s DEF TrimBegin
  <2>2. start' \in Counting /\ saved' \in Counting
    BY <1>12 DEF TrimBegin, Reset, Counting
  <2> QED
    BY <1>12, <2>1, <2>2 DEF TrimBegin, Goto
<1>13. CASE TrimNot
  BY <1>13 DEF TrimNot, Goto
<1>14. CASE TrimDelete
  <2>1. PICK a \in 1..Len(sheet), b \in 1..Len(sheet) :
           /\ a <= b /\ CutsOut(a, b, sheet')
           /\ a..b \subseteq doomed /\ doomed' = doomed \ (a..b)
           /\ \A n \in doomed' : n < a
    BY <1>14, TrimDeleteSheet
  <2> QED
    BY <1>14, <2>1 DEF TrimDelete, CutsOut
<1>15. CASE TrimEnd
  <2>1. faults' \in 0..MaxFaults
    BY <1>15 DEF TrimEnd
  <2>2. start' \in Counting /\ saved' \in Counting
    BY <1>15 DEF TrimEnd, Counting
  <2> QED
    BY <1>15, <2>1, <2>2 DEF TrimEnd, Goto
<1>16. CASE SettleHeld
  <2>1. Rewrites(Settling, sheet')
    BY <1>16, BatchSheet
  <2> QED
    BY <1>16, <2>1 DEF SettleHeld, Goto, Forget, Rewrites
<1>17. CASE SettleNot
  BY <1>17 DEF SettleNot, Goto, Forget
<1>18. CASE Restart
  BY <1>18 DEF Restart, Goto
<1>19. CASE CycleFails
  BY <1>19 DEF CycleFails, Forget
<1>20. CASE Stop
  BY <1>20 DEF Stop, Forget
<1>21. CASE Days
  <2>1. Ages(sheet')
    BY <1>21, DaysSheet
  <2> QED
    BY <1>21, <2>1 DEF Days, Ages
<1>22. ASSUME NEW o \in Order, Webhook(o) PROVE TypeOK'
  <2>1. Extends(1, sheet') /\ ids' = ids + 1
    BY <1>22, WebhookSheet
  <2> QED
    BY <1>22, <2>1 DEF Webhook, Extends
<1>23. ASSUME NEW o \in Order, CreateElsewhere(o) PROVE TypeOK'
  BY <1>23 DEF CreateElsewhere
<1>24. ASSUME NEW o \in Order, CloseElsewhere(o) PROVE TypeOK'
  BY <1>24 DEF CloseElsewhere
<1>25. CASE UNCHANGED vars
  BY <1>25 DEF vars, store, cycle, bounds
<1> QED
  BY <1>1, <1>2, <1>3, <1>4, <1>5, <1>6, <1>7, <1>8, <1>9, <1>10, <1>11, <1>12, <1>13,
     <1>14, <1>15, <1>16, <1>17, <1>18, <1>19, <1>20, <1>21, <1>22, <1>23, <1>24, <1>25
     DEF Next, Engine

\* The phases of a cycle: what it holds, and where the pointer is.
LEMMA PhasesStep == TypeOK /\ TypeOK' /\ Doomed /\ Phases /\ [Next]_vars => Phases'
<1> SUFFICES ASSUME TypeOK, TypeOK', Doomed, Phases, [Next]_vars PROVE Phases'
  OBVIOUS
<1>a. /\ DOMAIN sheet = 1..Len(sheet) /\ Len(sheet) \in Nat
      /\ DOMAIN sheet' = 1..Len(sheet') /\ Len(sheet') \in Nat
  BY LenProperties DEF TypeOK
<1>b. start \in Nat /\ start >= 1
  BY DEF TypeOK, Counting
<1> USE DEF Phases, store, cycle, bounds
<1>1. ASSUME NEW retry \in BOOLEAN, Poll(retry) PROVE Phases'
  <2>1. Frontier <= Len(sheet) + 1
    BY FrontierHolds
  <2> QED
    BY <1>1, <2>1 DEF Poll
<1>2. ASSUME NEW r \in todo, Resolve(r) PROVE Phases'
  BY <1>2, <1>a, <1>b DEF Resolve
<1>3. CASE MarkResolved
  <2>1. Rewrites(marks, sheet')
    BY <1>3, BatchSheet
  <2>2. /\ todo = {} /\ pc = "resolve" /\ pc' = (IF fetch = {} THEN "twins" ELSE "fetch")
        /\ marks' = {}
        /\ UNCHANGED <<ids, saved, start, todo, fetch, twins, known, doomed>>
    BY <1>3 DEF MarkResolved, Goto
  <2> QED
    BY <2>1, <2>2, <1>a, <1>b DEF Rewrites
<1>4. CASE Stamp
  <2>1. Rewrites(Stamps, sheet')
    BY <1>4, BatchSheet
  <2>2. /\ pc = "fetch" /\ pc' = "lanes" /\ todo' = fetch /\ fetch' = {}
        /\ UNCHANGED <<ids, saved, start, twins, marks, known, doomed>>
    BY <1>4 DEF Stamp, Goto
  <2> QED
    BY <2>1, <2>2, <1>a, <1>b DEF Rewrites
<1>5. ASSUME NEW r \in todo, Lane(r) PROVE Phases'
  BY <1>5, <1>a, <1>b DEF Lane
<1>6. ASSUME NEW m \in marks, MarkLane(m) PROVE Phases'
  <2>1. Rewrites({m}, sheet')
    BY <1>6, BatchSheet
  <2>2. /\ pc = "lanes" /\ marks' = marks \ {m}
        /\ UNCHANGED <<ids, saved, start, pc, todo, fetch, twins, known, doomed>>
    BY <1>6 DEF MarkLane
  <2> QED
    BY <2>1, <2>2, <1>a, <1>b DEF Rewrites
<1>7. CASE LanesDone
  BY <1>7, <1>a, <1>b DEF LanesDone, Goto
<1>8. CASE MarkTwins
  <2>1. Rewrites(TwinMarks, sheet')
    BY <1>8, BatchSheet
  <2>2. /\ pc = "twins" /\ pc' = "sweep" /\ twins' = {}
        /\ UNCHANGED <<ids, saved, start, todo, fetch, marks, known, doomed>>
    BY <1>8 DEF MarkTwins, Goto
  <2> QED
    BY <2>1, <2>2, <1>a, <1>b DEF Rewrites
<1>9. CASE SweepRead
  BY <1>9, <1>a, <1>b DEF SweepRead, Goto
<1>10. CASE SweepAppend
  <2>1. PICK k \in Nat : /\ Extends(k, sheet') /\ ids' = ids + k
                          /\ \A n \in Len(sheet)+1..Len(sheet)+k : sheet'[n].oid \notin known
    BY <1>10, SweepAppendSheet
  <2>2. /\ pc = "append" /\ pc' = "trim"
        /\ UNCHANGED <<saved, start, todo, fetch, twins, marks, doomed>>
    BY <1>10 DEF SweepAppend, Goto
  <2> QED
    BY <2>1, <2>2, <1>a, <1>b DEF Extends
<1>11. CASE SweepNot
  BY <1>11, <1>a, <1>b DEF SweepNot
<1>12. CASE TrimBegin
  BY <1>12, <1>a, <1>b DEF TrimBegin, Goto, Reset
<1>13. CASE TrimNot
  BY <1>13, <1>a, <1>b DEF TrimNot, Goto
<1>14. CASE TrimDelete
  <2>1. PICK a \in 1..Len(sheet), b \in 1..Len(sheet) :
           /\ a <= b /\ CutsOut(a, b, sheet')
           /\ a..b \subseteq doomed /\ doomed' = doomed \ (a..b)
           /\ \A n \in doomed' : n < a
    BY <1>14, TrimDeleteSheet
  <2>2. pc = "delete" /\ UNCHANGED <<ids, saved, start, pc, todo, fetch, twins, marks, known>>
    BY <1>14 DEF TrimDelete
  <2> QED
    BY <2>1, <2>2, <1>a, <1>b DEF CutsOut
<1>15. CASE TrimEnd
  BY <1>15, <1>a, <1>b DEF TrimEnd, Goto
<1>16. CASE SettleHeld
  <2>1. Rewrites(Settling, sheet')
    BY <1>16, BatchSheet
  <2>2. /\ pc = "settle" /\ pc' = "poll" /\ todo' = {} /\ fetch' = {} /\ twins' = {} /\ marks' = {}
        /\ UNCHANGED <<ids, saved, start>>
    BY <1>16 DEF SettleHeld, Goto, Forget
  <2> QED
    BY <2>1, <2>2, <1>a, <1>b DEF Rewrites
<1>17. CASE SettleNot
  BY <1>17, <1>a, <1>b DEF SettleNot, Goto, Forget
<1>18. CASE Restart
  BY <1>18, <1>a, <1>b DEF Restart, Goto
<1>19. CASE CycleFails
  BY <1>19, <1>a, <1>b DEF CycleFails, Forget
<1>20. CASE Stop
  BY <1>20, <1>a, <1>b DEF Stop, Forget
<1>21. CASE Days
  <2>1. Ages(sheet')
    BY <1>21, DaysSheet
  <2>2. UNCHANGED <<ids, saved, start, pc, todo, fetch, twins, marks, known, doomed>>
    BY <1>21 DEF Days
  <2> QED
    BY <2>1, <2>2, <1>a, <1>b DEF Ages
<1>22. ASSUME NEW o \in Order, Webhook(o) PROVE Phases'
  <2>1. Extends(1, sheet') /\ ids' = ids + 1
    BY <1>22, WebhookSheet
  <2>2. UNCHANGED <<saved, start, pc, todo, fetch, twins, marks, known, doomed>>
    BY <1>22 DEF Webhook
  <2> QED
    BY <2>1, <2>2, <1>a, <1>b DEF Extends
<1>23. ASSUME NEW o \in Order, CreateElsewhere(o) PROVE Phases'
  BY <1>23, <1>a, <1>b DEF CreateElsewhere
<1>24. ASSUME NEW o \in Order, CloseElsewhere(o) PROVE Phases'
  BY <1>24, <1>a, <1>b DEF CloseElsewhere
<1>25. CASE UNCHANGED vars
  BY <1>25, <1>a, <1>b DEF vars, store, cycle, bounds
<1> QED
  BY <1>1, <1>2, <1>3, <1>4, <1>5, <1>6, <1>7, <1>8, <1>9, <1>10, <1>11, <1>12, <1>13,
     <1>14, <1>15, <1>16, <1>17, <1>18, <1>19, <1>20, <1>21, <1>22, <1>23, <1>24, <1>25
     DEF Next, Engine

\* The rows chosen for the trim stay closed and, as ranges go bottom-up, where
\* they were.
LEMMA DoomedStep == TypeOK /\ TypeOK' /\ Doomed /\ [Next]_vars => Doomed'
<1> SUFFICES ASSUME TypeOK, TypeOK', Doomed, [Next]_vars PROVE Doomed'
  OBVIOUS
<1>a. /\ DOMAIN sheet = 1..Len(sheet) /\ Len(sheet) \in Nat
      /\ DOMAIN sheet' = 1..Len(sheet') /\ Len(sheet') \in Nat
  BY LenProperties DEF TypeOK
<1> USE DEF Doomed, Stage, Deletable, NewRow, store, cycle, bounds
<1>1. ASSUME NEW retry \in BOOLEAN, Poll(retry) PROVE Doomed'
  BY <1>1, <1>a DEF Poll
<1>2. ASSUME NEW r \in todo, Resolve(r) PROVE Doomed'
  BY <1>2, <1>a DEF Resolve
<1>3. CASE MarkResolved
  BY <1>3, <1>a DEF MarkResolved, Goto
<1>4. CASE Stamp
  BY <1>4, <1>a DEF Stamp, Goto
<1>5. ASSUME NEW r \in todo, Lane(r) PROVE Doomed'
  BY <1>5, <1>a DEF Lane
<1>6. ASSUME NEW m \in marks, MarkLane(m) PROVE Doomed'
  BY <1>6, <1>a DEF MarkLane
<1>7. CASE LanesDone
  BY <1>7, <1>a DEF LanesDone, Goto
<1>8. CASE MarkTwins
  BY <1>8, <1>a DEF MarkTwins, Goto
<1>9. CASE SweepRead
  BY <1>9, <1>a DEF SweepRead, Goto
<1>10. CASE SweepAppend
  BY <1>10, <1>a DEF SweepAppend, Goto
<1>11. CASE SweepNot
  BY <1>11, <1>a DEF SweepNot
<1>12. CASE TrimBegin
  BY <1>12, <1>a DEF TrimBegin, Goto
<1>13. CASE TrimNot
  BY <1>13, <1>a DEF TrimNot, Goto
<1>14. CASE TrimDelete
  <2>1. PICK a \in 1..Len(sheet), b \in 1..Len(sheet) :
           a <= b /\ CutsOut(a, b, sheet') /\ doomed' \subseteq doomed /\ \A n \in doomed' : n < a
    BY <1>14, TrimDeleteSheet
  <2>2. pc = "delete"
    BY <1>14 DEF TrimDelete
  <2>3. \A n \in doomed' : n \in 1..Len(sheet) /\ n < a /\ n \in 1..Len(sheet')
    BY <2>1, <2>2, <1>a DEF CutsOut
  <2>4. \A n \in doomed' : sheet'[n] = sheet[n]
    BY <2>1, <2>3 DEF CutsOut
  <2> QED
    BY <2>1, <2>2, <2>3, <2>4, <1>a
<1>15. CASE TrimEnd
  BY <1>15, <1>a DEF TrimEnd, Goto
<1>16. CASE SettleHeld
  BY <1>16, <1>a DEF SettleHeld, Goto, Forget
<1>17. CASE SettleNot
  BY <1>17, <1>a DEF SettleNot, Goto, Forget
<1>18. CASE Restart
  BY <1>18, <1>a DEF Restart, Goto
<1>19. CASE CycleFails
  BY <1>19, <1>a DEF CycleFails, Forget
<1>20. CASE Stop
  BY <1>20, <1>a DEF Stop, Forget
<1>21. CASE Days
  <2>1. Ages(sheet')
    BY <1>21, DaysSheet
  <2>2. UNCHANGED <<ids, saved, start, pc, todo, fetch, twins, marks, known, doomed>>
    BY <1>21 DEF Days
  <2> QED
    BY <2>1, <2>2, <1>a DEF Ages
<1>22. ASSUME NEW o \in Order, Webhook(o) PROVE Doomed'
  <2>1. Extends(1, sheet') /\ ids' = ids + 1
    BY <1>22, WebhookSheet
  <2>2. UNCHANGED <<saved, start, pc, todo, fetch, twins, marks, known, doomed>>
    BY <1>22 DEF Webhook
  <2> QED
    BY <2>1, <2>2, <1>a DEF Extends
<1>23. ASSUME NEW o \in Order, CreateElsewhere(o) PROVE Doomed'
  BY <1>23, <1>a DEF CreateElsewhere
<1>24. ASSUME NEW o \in Order, CloseElsewhere(o) PROVE Doomed'
  BY <1>24, <1>a DEF CloseElsewhere
<1>25. CASE UNCHANGED vars
  BY <1>25, <1>a DEF vars, store, cycle, bounds
<1> QED
  BY <1>1, <1>2, <1>3, <1>4, <1>5, <1>6, <1>7, <1>8, <1>9, <1>10, <1>11, <1>12, <1>13,
     <1>14, <1>15, <1>16, <1>17, <1>18, <1>19, <1>20, <1>21, <1>22, <1>23, <1>24, <1>25
     DEF Next, Engine

\* No settled row is unknown to a sweep: until it appends, only queued rows come in.
LEMMA KnownStep == TypeOK /\ TypeOK' /\ Known /\ [Next]_vars => Known'
<1> SUFFICES ASSUME TypeOK, TypeOK', Known, [Next]_vars PROVE Known'
  OBVIOUS
<1>a. /\ DOMAIN sheet = 1..Len(sheet) /\ Len(sheet) \in Nat
      /\ DOMAIN sheet' = 1..Len(sheet') /\ Len(sheet') \in Nat
  BY LenProperties DEF TypeOK
<1> USE DEF Known, Terminal, NewRow, store, cycle, bounds
<1>1. ASSUME NEW retry \in BOOLEAN, Poll(retry) PROVE Known'
  BY <1>1, <1>a DEF Poll
<1>2. ASSUME NEW r \in todo, Resolve(r) PROVE Known'
  BY <1>2, <1>a DEF Resolve
<1>3. CASE MarkResolved
  BY <1>3, <1>a DEF MarkResolved, Goto
<1>4. CASE Stamp
  BY <1>4, <1>a DEF Stamp, Goto
<1>5. ASSUME NEW r \in todo, Lane(r) PROVE Known'
  BY <1>5, <1>a DEF Lane
<1>6. ASSUME NEW m \in marks, MarkLane(m) PROVE Known'
  BY <1>6, <1>a DEF MarkLane
<1>7. CASE LanesDone
  BY <1>7, <1>a DEF LanesDone, Goto
<1>8. CASE MarkTwins
  BY <1>8, <1>a DEF MarkTwins, Goto
<1>9. CASE SweepRead
  BY <1>9, <1>a DEF SweepRead, Goto, SweepKnown
<1>10. CASE SweepAppend
  BY <1>10, <1>a DEF SweepAppend, Goto
<1>11. CASE SweepNot
  BY <1>11, <1>a DEF SweepNot
<1>12. CASE TrimBegin
  BY <1>12, <1>a DEF TrimBegin, Goto
<1>13. CASE TrimNot
  BY <1>13, <1>a DEF TrimNot, Goto
<1>14. CASE TrimDelete
  BY <1>14, <1>a DEF TrimDelete
<1>15. CASE TrimEnd
  BY <1>15, <1>a DEF TrimEnd, Goto
<1>16. CASE SettleHeld
  BY <1>16, <1>a DEF SettleHeld, Goto, Forget
<1>17. CASE SettleNot
  BY <1>17, <1>a DEF SettleNot, Goto, Forget
<1>18. CASE Restart
  BY <1>18, <1>a DEF Restart, Goto
<1>19. CASE CycleFails
  BY <1>19, <1>a DEF CycleFails, Forget
<1>20. CASE Stop
  BY <1>20, <1>a DEF Stop, Forget
<1>21. CASE Days
  <2>1. Ages(sheet')
    BY <1>21, DaysSheet
  <2>2. UNCHANGED <<ids, saved, start, pc, todo, fetch, twins, marks, known, doomed>>
    BY <1>21 DEF Days
  <2> QED
    BY <2>1, <2>2, <1>a DEF Ages
<1>22. ASSUME NEW o \in Order, Webhook(o) PROVE Known'
  <2>1. Extends(1, sheet') /\ ids' = ids + 1
    BY <1>22, WebhookSheet
  <2>2. UNCHANGED <<saved, start, pc, todo, fetch, twins, marks, known, doomed>>
    BY <1>22 DEF Webhook
  <2> QED
    BY <2>1, <2>2, <1>a DEF Extends
<1>23. ASSUME NEW o \in Order, CreateElsewhere(o) PROVE Known'
  BY <1>23, <1>a DEF CreateElsewhere
<1>24. ASSUME NEW o \in Order, CloseElsewhere(o) PROVE Known'
  BY <1>24, <1>a DEF CloseElsewhere
<1>25. CASE UNCHANGED vars
  BY <1>25, <1>a DEF vars, store, cycle, bounds
<1> QED
  BY <1>1, <1>2, <1>3, <1>4, <1>5, <1>6, <1>7, <1>8, <1>9, <1>10, <1>11, <1>12, <1>13,
     <1>14, <1>15, <1>16, <1>17, <1>18, <1>19, <1>20, <1>21, <1>22, <1>23, <1>24, <1>25
     DEF Next, Engine

\* Rows keep their identity when others are cut out above them.
LEMMA NumberedStep ==
  TypeOK /\ TypeOK' /\ Doomed /\ Numbered /\ [Next]_vars
    => Numbered'
<1> SUFFICES ASSUME TypeOK, TypeOK', Doomed, Numbered, [Next]_vars PROVE Numbered'
  OBVIOUS
<1>a. /\ DOMAIN sheet = 1..Len(sheet) /\ Len(sheet) \in Nat
      /\ DOMAIN sheet' = 1..Len(sheet') /\ Len(sheet') \in Nat
  BY LenProperties DEF TypeOK
<1>b. ids \in Nat /\ start \in Nat /\ \A n \in 1..Len(sheet) : sheet[n].id \in Nat
  <2>1. \A n \in 1..Len(sheet) : sheet[n] \in Row
    BY ElementOfSeq DEF TypeOK
  <2> QED
    BY <2>1 DEF TypeOK, Row, Counting
<1> USE DEF Numbered, NewRow, store, cycle, bounds
<1>1. ASSUME NEW retry \in BOOLEAN, Poll(retry) PROVE Numbered'
  BY <1>1, <1>a, <1>b DEF Poll
<1>2. ASSUME NEW r \in todo, Resolve(r) PROVE Numbered'
  BY <1>2, <1>a, <1>b DEF Resolve
<1>3. CASE MarkResolved
  <2>1. Rewrites(marks, sheet')
    BY <1>3, BatchSheet
  <2>2. /\ todo = {} /\ pc = "resolve" /\ pc' = (IF fetch = {} THEN "twins" ELSE "fetch")
        /\ marks' = {}
        /\ UNCHANGED <<ids, saved, start, todo, fetch, twins, known, doomed>>
    BY <1>3 DEF MarkResolved, Goto
  <2> QED
    BY <2>1, <2>2, <1>a, <1>b DEF Rewrites
<1>4. CASE Stamp
  <2>1. Rewrites(Stamps, sheet')
    BY <1>4, BatchSheet
  <2>2. /\ pc = "fetch" /\ pc' = "lanes" /\ todo' = fetch /\ fetch' = {}
        /\ UNCHANGED <<ids, saved, start, twins, marks, known, doomed>>
    BY <1>4 DEF Stamp, Goto
  <2> QED
    BY <2>1, <2>2, <1>a, <1>b DEF Rewrites
<1>5. ASSUME NEW r \in todo, Lane(r) PROVE Numbered'
  BY <1>5, <1>a, <1>b DEF Lane
<1>6. ASSUME NEW m \in marks, MarkLane(m) PROVE Numbered'
  <2>1. Rewrites({m}, sheet')
    BY <1>6, BatchSheet
  <2>2. /\ pc = "lanes" /\ marks' = marks \ {m}
        /\ UNCHANGED <<ids, saved, start, pc, todo, fetch, twins, known, doomed>>
    BY <1>6 DEF MarkLane
  <2> QED
    BY <2>1, <2>2, <1>a, <1>b DEF Rewrites
<1>7. CASE LanesDone
  BY <1>7, <1>a, <1>b DEF LanesDone, Goto
<1>8. CASE MarkTwins
  <2>1. Rewrites(TwinMarks, sheet')
    BY <1>8, BatchSheet
  <2>2. /\ pc = "twins" /\ pc' = "sweep" /\ twins' = {}
        /\ UNCHANGED <<ids, saved, start, todo, fetch, marks, known, doomed>>
    BY <1>8 DEF MarkTwins, Goto
  <2> QED
    BY <2>1, <2>2, <1>a, <1>b DEF Rewrites
<1>9. CASE SweepRead
  BY <1>9, <1>a, <1>b DEF SweepRead, Goto
<1>10. CASE SweepAppend
  <2>1. PICK k \in Nat : Extends(k, sheet') /\ ids' = ids + k
    BY <1>10, SweepAppendSheet
  <2>2. \A n \in 1..Len(sheet') :
          sheet'[n].id = IF n <= Len(sheet) THEN sheet[n].id ELSE ids + (n - Len(sheet))
    BY <2>1, <1>a DEF Extends
  <2>3. \A n \in 1..Len(sheet) : sheet[n].id <= ids
    BY <1>a
  <2>4. \A n \in 1..Len(sheet') : sheet'[n].id <= ids'
    BY <2>1, <2>2, <2>3, <1>a, <1>b DEF Extends
  <2>5. \A m, n \in 1..Len(sheet') : sheet'[m].id = sheet'[n].id => m = n
    BY <2>1, <2>2, <2>3, <1>a, <1>b DEF Extends
  <2> QED
    BY <2>4, <2>5, <1>a
<1>11. CASE SweepNot
  BY <1>11, <1>a, <1>b DEF SweepNot
<1>12. CASE TrimBegin
  BY <1>12, <1>a, <1>b DEF TrimBegin, Goto
<1>13. CASE TrimNot
  BY <1>13, <1>a, <1>b DEF TrimNot, Goto
<1>14. CASE TrimDelete
  <2>1. PICK a \in 1..Len(sheet), b \in 1..Len(sheet) : a <= b /\ CutsOut(a, b, sheet')
    BY <1>14, TrimDeleteSheet
  <2>2. UNCHANGED ids
    BY <1>14 DEF TrimDelete
  <2> DEFINE up(n) == IF n < a THEN n ELSE n + (b - a + 1)
  <2>3. \A n \in 1..Len(sheet') : up(n) \in 1..Len(sheet) /\ sheet'[n] = sheet[up(n)]
    BY <2>1, <1>a DEF CutsOut
  <2>4. \A m, n \in 1..Len(sheet') : up(m) = up(n) => m = n
    BY <2>1, <1>a
  <2> HIDE DEF up
  <2> QED
    BY <2>2, <2>3, <2>4, <1>a
<1>15. CASE TrimEnd
  BY <1>15, <1>a, <1>b DEF TrimEnd, Goto
<1>16. CASE SettleHeld
  <2>1. Rewrites(Settling, sheet')
    BY <1>16, BatchSheet
  <2>2. /\ pc = "settle" /\ pc' = "poll" /\ todo' = {} /\ fetch' = {} /\ twins' = {} /\ marks' = {}
        /\ UNCHANGED <<ids, saved, start>>
    BY <1>16 DEF SettleHeld, Goto, Forget
  <2> QED
    BY <2>1, <2>2, <1>a, <1>b DEF Rewrites
<1>17. CASE SettleNot
  BY <1>17, <1>a, <1>b DEF SettleNot, Goto, Forget
<1>18. CASE Restart
  BY <1>18, <1>a, <1>b DEF Restart, Goto
<1>19. CASE CycleFails
  BY <1>19, <1>a, <1>b DEF CycleFails, Forget
<1>20. CASE Stop
  BY <1>20, <1>a, <1>b DEF Stop, Forget
<1>21. CASE Days
  <2>1. Ages(sheet')
    BY <1>21, DaysSheet
  <2>2. UNCHANGED <<ids, saved, start, pc, todo, fetch, twins, marks, known, doomed>>
    BY <1>21 DEF Days
  <2> QED
    BY <2>1, <2>2, <1>a, <1>b DEF Ages
<1>22. ASSUME NEW o \in Order, Webhook(o) PROVE Numbered'
  <2>1. Extends(1, sheet') /\ ids' = ids + 1
    BY <1>22, WebhookSheet
  <2>2. UNCHANGED <<saved, start, pc, todo, fetch, twins, marks, known, doomed>>
    BY <1>22 DEF Webhook
  <2> QED
    BY <2>1, <2>2, <1>a, <1>b DEF Extends
<1>23. ASSUME NEW o \in Order, CreateElsewhere(o) PROVE Numbered'
  BY <1>23, <1>a, <1>b DEF CreateElsewhere
<1>24. ASSUME NEW o \in Order, CloseElsewhere(o) PROVE Numbered'
  BY <1>24, <1>a, <1>b DEF CloseElsewhere
<1>25. CASE UNCHANGED vars
  BY <1>25, <1>a, <1>b DEF vars, store, cycle, bounds
<1> QED
  BY <1>1, <1>2, <1>3, <1>4, <1>5, <1>6, <1>7, <1>8, <1>9, <1>10, <1>11, <1>12, <1>13,
     <1>14, <1>15, <1>16, <1>17, <1>18, <1>19, <1>20, <1>21, <1>22, <1>23, <1>24, <1>25
     DEF Next, Engine

\* A row in hand stays open until its own mark: marks of other rows touch other
\* rows, and nothing is deleted while rows are in hand.
LEMMA HandsStep ==
  TypeOK /\ TypeOK' /\ Phases /\ Hands /\ Doomed /\ [Next]_vars
    => Hands'
<1> SUFFICES ASSUME TypeOK, TypeOK', Phases, Hands, Doomed, [Next]_vars PROVE Hands'
  OBVIOUS
<1>a. /\ DOMAIN sheet = 1..Len(sheet) /\ Len(sheet) \in Nat
      /\ DOMAIN sheet' = 1..Len(sheet') /\ Len(sheet') \in Nat
  BY LenProperties DEF TypeOK
<1>b. start \in Nat /\ start >= 1
  BY DEF TypeOK, Counting
<1> USE DEF Hands, Held, Lone, Apart, Phases, store, cycle, bounds
<1>1. ASSUME NEW retry \in BOOLEAN, Poll(retry) PROVE Hands'
  <2> DEFINE claim == {n \in start..Len(sheet) : Claimable(n, retry)}
             first == {n \in claim : \A m \in claim : sheet[m].oid = sheet[n].oid => n <= m}
  <2>1. first \subseteq claim
    OBVIOUS
  <2>2. /\ todo' = {Claimed(n) : n \in first} /\ twins' = {Claimed(n) : n \in claim \ first}
        /\ start' = Frontier /\ fetch' = {} /\ marks' = {} /\ UNCHANGED sheet
    BY <1>1 DEF Poll
  <2>3. ASSUME NEW n \in claim
        PROVE  n \in Frontier..Len(sheet) /\ Stage(sheet[n]) = "open"
    <3>1. n \in start..Len(sheet) /\ Claimable(n, retry)
      OBVIOUS
    <3>0. sheet[n] \in Row /\ MaxAttempts \in Nat
      BY <3>1, <1>a, <1>b, ElementOfSeq, LiveQueueAssumption DEF TypeOK
    <3>2. sheet[n].status \notin Terminal /\ Stage(sheet[n]) = "open"
      BY <3>0, <3>1 DEF Row, Claimable, Terminal, Stage, Deletable
    <3>3. Frontier <= n /\ Frontier \in Nat
      BY <3>1, <3>2, FrontierHolds DEF Counting
    <3> QED
      BY <3>1, <3>2, <3>3, <1>a, <1>b
  <2> HIDE DEF claim, first
  <2>4. \A n : Claimed(n).n = n /\ Claimed(n).oid = sheet[n].oid
    BY DEF Claimed
  <2> QED
    BY <2>1, <2>2, <2>3, <2>4
<1>2. ASSUME NEW r \in todo, Resolve(r) PROVE Hands'
  <2>1. \A out \in Status : Outcome(r, out).n = r.n /\ Outcome(r, out).oid = r.oid
    BY DEF Outcome, MarkOf
  <2>2. todo' = todo \ {r} /\ UNCHANGED <<sheet, start, twins>>
    BY <1>2 DEF Resolve
  <2>3. CASE \E out \in Status : marks' = marks \cup {Outcome(r, out)} /\ fetch' = fetch
    <3>1. PICK m : m.n = r.n /\ m.oid = r.oid /\ marks' = marks \cup {m} /\ fetch' = fetch
      BY <2>1, <2>3
    <3> QED
      BY <2>2, <3>1
  <2>4. CASE fetch' = fetch \cup {r} /\ marks' = marks
    BY <2>2, <2>4
  <2> QED
    BY <1>2, <2>3, <2>4 DEF Resolve, Status
<1>3. CASE MarkResolved
  <2>1. Rewrites(marks, sheet')
    BY <1>3, BatchSheet
  <2>2. todo' = {} /\ marks' = {} /\ UNCHANGED <<start, fetch, twins>>
    BY <1>3 DEF MarkResolved, Goto
  <2>3. \A r \in fetch \cup twins : sheet'[r.n] = sheet[r.n]
    BY <2>1, <1>a, <1>b DEF Rewrites
  <2>4. Len(sheet') = Len(sheet)
    BY <2>1 DEF Rewrites
  <2> QED
    BY <2>2, <2>3, <2>4
<1>4. CASE Stamp
  <2>1. Rewrites(Stamps, sheet')
    BY <1>4, BatchSheet
  <2>2. todo' = fetch /\ fetch' = {} /\ marks = {} /\ UNCHANGED <<start, twins, marks>>
    BY <1>4 DEF Stamp, Goto
  <2>3. \A r \in fetch : Same(r, "processing").n = r.n /\ Same(r, "processing").status = "processing"
    BY DEF Same, MarkOf
  <2>4. \A r \in twins : sheet'[r.n] = sheet[r.n]
    BY <2>1, <2>3, <1>a, <1>b DEF Rewrites, Stamps
  <2>5. ASSUME NEW r \in fetch
        PROVE  sheet'[r.n].oid = sheet[r.n].oid /\ Stage(sheet'[r.n]) = "open"
    <3>1. r.n \in 1..Len(sheet) /\ Stage(sheet[r.n]) = "open"
      BY <1>a, <1>b
    <3>2. \/ sheet'[r.n] = sheet[r.n]
          \/ sheet'[r.n].status = "processing" /\ sheet'[r.n].oid = sheet[r.n].oid
      BY <2>1, <2>3, <3>1 DEF Rewrites, Stamps
    <3> QED
      BY <3>1, <3>2 DEF Stage, Deletable
  <2>6. Len(sheet') = Len(sheet)
    BY <2>1 DEF Rewrites
  <2> QED
    BY <2>2, <2>4, <2>5, <2>6
<1>5. ASSUME NEW r \in todo, Lane(r) PROVE Hands'
  <2>1. \A out \in Status : Outcome(r, out).n = r.n /\ Outcome(r, out).oid = r.oid
    BY DEF Outcome, MarkOf
  <2>2. todo' = todo \ {r} /\ UNCHANGED <<sheet, start, twins>>
    BY <1>5 DEF Lane
  <2>3. CASE \E out \in Status : marks' = marks \cup {Outcome(r, out)} /\ fetch' = fetch
    <3>1. PICK m : m.n = r.n /\ m.oid = r.oid /\ marks' = marks \cup {m} /\ fetch' = fetch
      BY <2>1, <2>3
    <3> QED
      BY <2>2, <3>1
  <2> QED
    BY <1>5, <2>3 DEF Lane, Status
<1>6. ASSUME NEW m \in marks, MarkLane(m) PROVE Hands'
  <2>1. Rewrites({m}, sheet')
    BY <1>6, BatchSheet
  <2>2. marks' = marks \ {m} /\ UNCHANGED <<start, todo, fetch, twins>>
    BY <1>6 DEF MarkLane
  <2>3. \A r \in todo \cup fetch \cup twins \cup (marks \ {m}) : r.n \in 1..Len(sheet) /\ r.n # m.n
    BY <1>a, <1>b
  <2>4. \A r \in todo \cup fetch \cup twins \cup (marks \ {m}) : sheet'[r.n] = sheet[r.n]
    BY <2>1, <2>3 DEF Rewrites
  <2>5. Len(sheet') = Len(sheet)
    BY <2>1 DEF Rewrites
  <2> QED
    BY <2>2, <2>4, <2>5
<1>7. CASE LanesDone
  BY <1>7, <1>a, <1>b DEF LanesDone, Goto
<1>8. CASE MarkTwins
  <2>1. Rewrites(TwinMarks, sheet')
    BY <1>8, BatchSheet
  <2>2. /\ pc = "twins" /\ pc' = "sweep" /\ twins' = {}
        /\ UNCHANGED <<ids, saved, start, todo, fetch, marks, known, doomed>>
    BY <1>8 DEF MarkTwins, Goto
  <2> QED
    BY <2>1, <2>2, <1>a, <1>b DEF Rewrites
<1>9. CASE SweepRead
  BY <1>9, <1>a, <1>b DEF SweepRead, Goto
<1>10. CASE SweepAppend
  <2>1. PICK k \in Nat : /\ Extends(k, sheet') /\ ids' = ids + k
                          /\ \A n \in Len(sheet)+1..Len(sheet)+k : sheet'[n].oid \notin known
    BY <1>10, SweepAppendSheet
  <2>2. /\ pc = "append" /\ pc' = "trim"
        /\ UNCHANGED <<saved, start, todo, fetch, twins, marks, doomed>>
    BY <1>10 DEF SweepAppend, Goto
  <2> QED
    BY <2>1, <2>2, <1>a, <1>b DEF Extends
<1>11. CASE SweepNot
  BY <1>11, <1>a, <1>b DEF SweepNot
<1>12. CASE TrimBegin
  BY <1>12, <1>a, <1>b DEF TrimBegin, Goto
<1>13. CASE TrimNot
  BY <1>13, <1>a, <1>b DEF TrimNot, Goto
<1>14. CASE TrimDelete
  <2>1. PICK a \in 1..Len(sheet), b \in 1..Len(sheet) :
           /\ a <= b /\ CutsOut(a, b, sheet')
           /\ a..b \subseteq doomed /\ doomed' = doomed \ (a..b)
           /\ \A n \in doomed' : n < a
    BY <1>14, TrimDeleteSheet
  <2>2. pc = "delete" /\ UNCHANGED <<ids, saved, start, pc, todo, fetch, twins, marks, known>>
    BY <1>14 DEF TrimDelete
  <2> QED
    BY <2>1, <2>2, <1>a, <1>b DEF CutsOut
<1>15. CASE TrimEnd
  BY <1>15, <1>a, <1>b DEF TrimEnd, Goto
<1>16. CASE SettleHeld
  <2>1. Rewrites(Settling, sheet')
    BY <1>16, BatchSheet
  <2>2. /\ pc = "settle" /\ pc' = "poll" /\ todo' = {} /\ fetch' = {} /\ twins' = {} /\ marks' = {}
        /\ UNCHANGED <<ids, saved, start>>
    BY <1>16 DEF SettleHeld, Goto, Forget
  <2> QED
    BY <2>1, <2>2, <1>a, <1>b DEF Rewrites
<1>17. CASE SettleNot
  BY <1>17, <1>a, <1>b DEF SettleNot, Goto, Forget
<1>18. CASE Restart
  BY <1>18, <1>a, <1>b DEF Restart, Goto
<1>19. CASE CycleFails
  BY <1>19, <1>a, <1>b DEF CycleFails, Forget
<1>20. CASE Stop
  BY <1>20, <1>a, <1>b DEF Stop, Forget
<1>21. CASE Days
  <2>1. Ages(sheet')
    BY <1>21, DaysSheet
  <2>2. UNCHANGED <<start, todo, fetch, twins, marks>>
    BY <1>21 DEF Days
  <2>3. \A n \in 1..Len(sheet) : sheet'[n].oid = sheet[n].oid /\ Stage(sheet'[n]) = Stage(sheet[n])
    BY <2>1 DEF Ages, Stage
  <2>4. Len(sheet') = Len(sheet)
    BY <2>1 DEF Ages
  <2> QED
    BY <2>2, <2>3, <2>4, <1>a, <1>b
<1>22. ASSUME NEW o \in Order, Webhook(o) PROVE Hands'
  <2>1. Extends(1, sheet')
    BY <1>22, WebhookSheet
  <2>2. UNCHANGED <<start, todo, fetch, twins, marks>>
    BY <1>22 DEF Webhook
  <2>3. Len(sheet') >= Len(sheet) /\ \A n \in 1..Len(sheet) : sheet'[n] = sheet[n]
    BY <2>1, <1>a DEF Extends
  <2> QED
    BY <2>2, <2>3, <1>a, <1>b
<1>23. ASSUME NEW o \in Order, CreateElsewhere(o) PROVE Hands'
  BY <1>23, <1>a, <1>b DEF CreateElsewhere
<1>24. ASSUME NEW o \in Order, CloseElsewhere(o) PROVE Hands'
  BY <1>24, <1>a, <1>b DEF CloseElsewhere
<1>25. CASE UNCHANGED vars
  BY <1>25, <1>a, <1>b DEF vars, store, cycle, bounds
<1> QED
  BY <1>1, <1>2, <1>3, <1>4, <1>5, <1>6, <1>7, <1>8, <1>9, <1>10, <1>11, <1>12, <1>13,
     <1>14, <1>15, <1>16, <1>17, <1>18, <1>19, <1>20, <1>21, <1>22, <1>23, <1>24, <1>25
     DEF Next, Engine

\* Behind the pointer rows stay settled: marks go to rows in hand, at or after it.
LEMMA BehindStep ==
  TypeOK /\ TypeOK' /\ Phases /\ Phases' /\ Hands /\ Doomed /\ NothingBehind /\ [Next]_vars
    => NothingBehind'
<1> SUFFICES ASSUME TypeOK, TypeOK', Phases, Phases', Hands, Doomed, NothingBehind, [Next]_vars
             PROVE  NothingBehind'
  OBVIOUS
<1>a. /\ DOMAIN sheet = 1..Len(sheet) /\ Len(sheet) \in Nat
      /\ DOMAIN sheet' = 1..Len(sheet') /\ Len(sheet') \in Nat
  BY LenProperties DEF TypeOK
<1>b. ids \in Nat /\ start \in Nat /\ \A n \in 1..Len(sheet) : sheet[n].id \in Nat
  <2>1. \A n \in 1..Len(sheet) : sheet[n] \in Row
    BY ElementOfSeq DEF TypeOK
  <2> QED
    BY <2>1 DEF TypeOK, Row, Counting
<1>c. \A n \in 1..Len(sheet) : n < start => sheet[n].status \in Terminal
  BY <1>a, <1>b DEF NothingBehind, Phases
<1> SUFFICES ASSUME NEW n \in 1..Len(sheet'), n < start'
             PROVE  sheet'[n].status \in Terminal
  BY <1>a DEF NothingBehind, Phases
<1> USE DEF Phases, store, cycle, bounds
<1>1. ASSUME NEW retry \in BOOLEAN, Poll(retry) PROVE sheet'[n].status \in Terminal
  <2>1. start' = Frontier /\ UNCHANGED sheet
    BY <1>1 DEF Poll
  <2>2. \A m \in start..Len(sheet) : sheet[m].status \notin Terminal => Frontier <= m
    BY FrontierHolds
  <2>3. Frontier \in Nat
    BY FrontierHolds DEF Counting
  <2>4. n \in 1..Len(sheet) /\ n < Frontier /\ (n < start \/ n \in start..Len(sheet))
    BY <2>1, <1>a, <1>b
  <2> QED
    BY <2>1, <2>2, <2>3, <2>4, <1>c
<1>2. ASSUME NEW r \in todo, Resolve(r) PROVE sheet'[n].status \in Terminal
  BY <1>2, <1>a, <1>b, <1>c DEF Resolve
<1>3. CASE MarkResolved
  <2>1. Rewrites(marks, sheet')
    BY <1>3, BatchSheet
  <2>2. /\ todo = {} /\ pc = "resolve" /\ pc' = (IF fetch = {} THEN "twins" ELSE "fetch")
        /\ marks' = {}
        /\ UNCHANGED <<ids, saved, start, todo, fetch, twins, known, doomed>>
    BY <1>3 DEF MarkResolved, Goto
  <2> QED
    BY <2>1, <2>2, <1>a, <1>b, <1>c DEF Hands, Held, Rewrites
<1>4. CASE Stamp
  <2>1. Rewrites(Stamps, sheet')
    BY <1>4, BatchSheet
  <2>2. /\ pc = "fetch" /\ pc' = "lanes" /\ todo' = fetch /\ fetch' = {}
        /\ UNCHANGED <<ids, saved, start, twins, marks, known, doomed>>
    BY <1>4 DEF Stamp, Goto
  <2> QED
    BY <2>1, <2>2, <1>a, <1>b, <1>c DEF Same, MarkOf, Stamps, TwinMarks, Hands, Held,
       Rewrites
<1>5. ASSUME NEW r \in todo, Lane(r) PROVE sheet'[n].status \in Terminal
  BY <1>5, <1>a, <1>b, <1>c DEF Lane
<1>6. ASSUME NEW m \in marks, MarkLane(m) PROVE sheet'[n].status \in Terminal
  <2>1. Rewrites({m}, sheet')
    BY <1>6, BatchSheet
  <2>2. /\ pc = "lanes" /\ marks' = marks \ {m}
        /\ UNCHANGED <<ids, saved, start, pc, todo, fetch, twins, known, doomed>>
    BY <1>6 DEF MarkLane
  <2> QED
    BY <2>1, <2>2, <1>a, <1>b, <1>c DEF Hands, Held, Rewrites
<1>7. CASE LanesDone
  BY <1>7, <1>a, <1>b, <1>c DEF LanesDone, Goto
<1>8. CASE MarkTwins
  <2>1. Rewrites(TwinMarks, sheet')
    BY <1>8, BatchSheet
  <2>2. /\ pc = "twins" /\ pc' = "sweep" /\ twins' = {}
        /\ UNCHANGED <<ids, saved, start, todo, fetch, marks, known, doomed>>
    BY <1>8 DEF MarkTwins, Goto
  <2> QED
    BY <2>1, <2>2, <1>a, <1>b, <1>c DEF Same, MarkOf, Stamps, TwinMarks, Hands, Held,
       Rewrites
<1>9. CASE SweepRead
  BY <1>9, <1>a, <1>b, <1>c DEF SweepRead, Goto
<1>10. CASE SweepAppend
  <2>1. PICK k \in Nat : Extends(k, sheet')
    BY <1>10, SweepAppendSheet
  <2>2. UNCHANGED start
    BY <1>10 DEF SweepAppend
  <2>3. n <= Len(sheet)
    BY <2>1, <2>2, <1>a, <1>b DEF Extends
  <2>4. n \in 1..Len(sheet) /\ sheet'[n] = sheet[n]
    BY <2>1, <2>3, <1>a DEF Extends
  <2> QED
    BY <2>2, <2>4, <1>c
<1>11. CASE SweepNot
  BY <1>11, <1>a, <1>b, <1>c DEF SweepNot
<1>12. CASE TrimBegin
  BY <1>12, <1>a DEF TrimBegin, Reset
<1>13. CASE TrimNot
  BY <1>13, <1>a, <1>b, <1>c DEF TrimNot, Goto
<1>14. CASE TrimDelete
  <2>1. PICK a \in 1..Len(sheet), b \in 1..Len(sheet) :
           /\ a <= b /\ CutsOut(a, b, sheet')
           /\ a..b \subseteq doomed /\ doomed' = doomed \ (a..b)
           /\ \A d \in doomed' : d < a
    BY <1>14, TrimDeleteSheet
  <2>2. pc = "delete" /\ UNCHANGED <<ids, saved, start, pc, todo, fetch, twins, marks, known>>
    BY <1>14 DEF TrimDelete
  <2> QED
    BY <2>1, <2>2, <1>a, <1>b, <1>c DEF CutsOut
<1>15. CASE TrimEnd
  BY <1>15, <1>a, <1>b, <1>c DEF TrimEnd, Goto
<1>16. CASE SettleHeld
  <2>1. Rewrites(Settling, sheet')
    BY <1>16, BatchSheet
  <2>2. /\ pc = "settle" /\ pc' = "poll" /\ todo' = {} /\ fetch' = {} /\ twins' = {} /\ marks' = {}
        /\ UNCHANGED <<ids, saved, start>>
    BY <1>16 DEF SettleHeld, Goto, Forget
  <2> QED
    BY <2>1, <2>2, <1>a, <1>b, <1>c DEF Settling, Same, MarkOf, Terminal, Rewrites
<1>17. CASE SettleNot
  BY <1>17, <1>a, <1>b, <1>c DEF SettleNot, Goto, Forget
<1>18. CASE Restart
  BY <1>18, <1>a, <1>b, <1>c DEF Restart, Goto
<1>19. CASE CycleFails
  BY <1>19, <1>a, <1>b, <1>c DEF CycleFails, Forget
<1>20. CASE Stop
  BY <1>20, <1>a, <1>b, <1>c DEF Stop, Forget
<1>21. CASE Days
  <2>1. Ages(sheet')
    BY <1>21, DaysSheet
  <2>2. UNCHANGED <<ids, saved, start, pc, todo, fetch, twins, marks, known, doomed>>
    BY <1>21 DEF Days
  <2> QED
    BY <2>1, <2>2, <1>a, <1>b, <1>c DEF Ages
<1>22. ASSUME NEW o \in Order, Webhook(o) PROVE sheet'[n].status \in Terminal
  <2>1. Extends(1, sheet') /\ ids' = ids + 1
    BY <1>22, WebhookSheet
  <2>2. UNCHANGED <<saved, start, pc, todo, fetch, twins, marks, known, doomed>>
    BY <1>22 DEF Webhook
  <2> QED
    BY <2>1, <2>2, <1>a, <1>b, <1>c DEF Extends
<1>23. ASSUME NEW o \in Order, CreateElsewhere(o) PROVE sheet'[n].status \in Terminal
  BY <1>23, <1>a, <1>b, <1>c DEF CreateElsewhere
<1>24. ASSUME NEW o \in Order, CloseElsewhere(o) PROVE sheet'[n].status \in Terminal
  BY <1>24, <1>a, <1>b, <1>c DEF CloseElsewhere
<1>25. CASE UNCHANGED vars
  BY <1>25, <1>a, <1>b, <1>c DEF vars, store, cycle, bounds
<1> QED
  BY <1>1, <1>2, <1>3, <1>4, <1>5, <1>6, <1>7, <1>8, <1>9, <1>10, <1>11, <1>12, <1>13,
     <1>14, <1>15, <1>16, <1>17, <1>18, <1>19, <1>20, <1>21, <1>22, <1>23, <1>24, <1>25
     DEF Next, Engine

\* What every step of the engine, the webhook and the trim keeps; NothingBehind
\* needs all of the others.
Safe == TypeOK /\ Phases /\ Hands /\ Known /\ Doomed /\ Numbered /\ NothingBehind

\* The sheet is empty at first.
LEMMA InitSafe == Init => Safe
<1> SUFFICES ASSUME Init PROVE Safe
  OBVIOUS
<1>1. sheet = <<>> /\ sheet \in Seq(Row) /\ Len(sheet) = 0 /\ DOMAIN sheet = {}
  BY EmptySeq DEF Init
<1>2. TypeOK
  BY <1>1, LiveQueueAssumption DEF Init, TypeOK, Counting, Pcs
<1>3. Phases /\ Hands /\ Known /\ Doomed /\ Numbered /\ NothingBehind
  BY <1>1 DEF Init, Phases, Hands, Held, Lone, Apart, Known, Doomed, Numbered, NothingBehind
<1> QED
  BY <1>2, <1>3 DEF Safe

\* The engine keeps the inductive invariant, whatever the webhook appends, the trim
\* deletes and the kills cut short.
THEOREM SafeAlways == Spec => []Safe
<1>1. Safe /\ [Next]_vars => Safe'
  <2> SUFFICES ASSUME Safe, [Next]_vars PROVE Safe'
    OBVIOUS
  <2>1. TypeOK' /\ Doomed'
    BY TypeStep, DoomedStep DEF Safe
  <2>2. Phases' /\ Known' /\ Numbered' /\ Hands'
    BY <2>1, PhasesStep, KnownStep, NumberedStep, HandsStep DEF Safe
  <2>3. NothingBehind'
    BY <2>1, <2>2, BehindStep DEF Safe
  <2> QED
    BY <2>1, <2>2, <2>3 DEF Safe
<1> QED
  BY InitSafe, <1>1, PTL DEF Spec

\* The variables keep their types; the bounds of the model play no part in it.
THEOREM TypeCorrect == Spec => []TypeOK
<1>1. Safe => TypeOK
  BY DEF Safe
<1> QED
  BY SafeAlways, <1>1, PTL

\* No row that is still to be worked on lies before the pointer, the engine's or
\* the saved one.
THEOREM NothingBehindHolds == Spec => []NothingBehind
<1>1. Safe => NothingBehind
  BY DEF Safe
<1> QED
  BY SafeAlways, <1>1, PTL

\* The step that NoSecondEnqueue is about.
EnqueuesNew ==
    pc = "append" /\ pc' = "trim" =>
        \A n \in DOMAIN sheet' : n > Len(sheet) =>
            \A m \in RowsOf(sheet'[n].oid) : sheet[m].status \notin Terminal

\* What the sweep appends it did not know, and it knows every settled row.
LEMMA EnqueueStep == TypeOK /\ Known /\ [Next]_vars => EnqueuesNew
<1> SUFFICES ASSUME TypeOK, Known, [Next]_vars PROVE EnqueuesNew
  OBVIOUS
<1> USE DEF EnqueuesNew, store, cycle, bounds
<1>1. ASSUME NEW retry \in BOOLEAN, Poll(retry) PROVE EnqueuesNew
  BY <1>1 DEF Poll
<1>2. ASSUME NEW r \in todo, Resolve(r) PROVE EnqueuesNew
  BY <1>2 DEF Resolve
<1>3. CASE MarkResolved
  BY <1>3 DEF MarkResolved, Goto
<1>4. CASE Stamp
  BY <1>4 DEF Stamp, Goto
<1>5. ASSUME NEW r \in todo, Lane(r) PROVE EnqueuesNew
  BY <1>5 DEF Lane
<1>6. ASSUME NEW m \in marks, MarkLane(m) PROVE EnqueuesNew
  BY <1>6 DEF MarkLane
<1>7. CASE LanesDone
  BY <1>7 DEF LanesDone, Goto
<1>8. CASE MarkTwins
  BY <1>8 DEF MarkTwins, Goto
<1>9. CASE SweepRead
  BY <1>9 DEF SweepRead, Goto
<1>10. CASE SweepAppend
  <2>1. PICK k \in Nat : /\ Extends(k, sheet')
                         /\ \A n \in Len(sheet)+1..Len(sheet)+k : sheet'[n].oid \notin known
    BY <1>10, SweepAppendSheet
  <2>2. pc = "append" /\ DOMAIN sheet = 1..Len(sheet) /\ Len(sheet) \in Nat
    BY <1>10, LenProperties DEF SweepAppend, Goto, TypeOK
  <2>3. DOMAIN sheet' = 1..Len(sheet') /\ Len(sheet') = Len(sheet) + k
    BY <2>1, LenProperties DEF Extends
  <2>4. ASSUME NEW n \in DOMAIN sheet', n > Len(sheet), NEW m \in RowsOf(sheet'[n].oid)
        PROVE  sheet[m].status \notin Terminal
    <3>1. n \in Len(sheet)+1..Len(sheet)+k
      BY <2>2, <2>3, <2>4
    <3>2. sheet'[n].oid \notin known
      BY <2>1, <3>1
    <3>3. m \in DOMAIN sheet /\ sheet[m].oid = sheet'[n].oid
      BY DEF RowsOf
    <3> QED
      BY <2>2, <3>2, <3>3 DEF Known
  <2> QED
    BY <2>4 DEF EnqueuesNew
<1>11. CASE SweepNot
  <2>1. DOMAIN sheet = 1..Len(sheet) /\ Len(sheet) \in Nat /\ UNCHANGED sheet
    BY <1>11, LenProperties DEF SweepNot, TypeOK
  <2> QED
    BY <2>1 DEF EnqueuesNew
<1>12. CASE TrimBegin
  BY <1>12 DEF TrimBegin, Goto
<1>13. CASE TrimNot
  BY <1>13 DEF TrimNot, Goto
<1>14. CASE TrimDelete
  BY <1>14 DEF TrimDelete
<1>15. CASE TrimEnd
  BY <1>15 DEF TrimEnd, Goto
<1>16. CASE SettleHeld
  BY <1>16 DEF SettleHeld, Goto, Forget
<1>17. CASE SettleNot
  BY <1>17 DEF SettleNot, Goto, Forget
<1>18. CASE Restart
  BY <1>18 DEF Restart, Goto
<1>19. CASE CycleFails
  BY <1>19 DEF CycleFails, Forget
<1>20. CASE Stop
  BY <1>20 DEF Stop, Forget
<1>21. CASE Days
  BY <1>21 DEF Days
<1>22. ASSUME NEW o \in Order, Webhook(o) PROVE EnqueuesNew
  BY <1>22 DEF Webhook
<1>23. ASSUME NEW o \in Order, CreateElsewhere(o) PROVE EnqueuesNew
  BY <1>23 DEF CreateElsewhere
<1>24. ASSUME NEW o \in Order, CloseElsewhere(o) PROVE EnqueuesNew
  BY <1>24 DEF CloseElsewhere
<1>25. CASE UNCHANGED vars
  BY <1>25 DEF vars, store, cycle, bounds
<1> QED
  BY <1>1, <1>2, <1>3, <1>4, <1>5, <1>6, <1>7, <1>8, <1>9, <1>10, <1>11, <1>12, <1>13,
     <1>14, <1>15, <1>16, <1>17, <1>18, <1>19, <1>20, <1>21, <1>22, <1>23, <1>24, <1>25
     DEF Next, Engine

\* The sweep never enqueues an order again that has a settled row.
THEOREM NoSecondEnqueueHolds == Spec => NoSecondEnqueue
<1>1. Safe /\ [Next]_vars => [EnqueuesNew]_vars
  BY EnqueueStep DEF Safe
<1> QED
  BY SafeAlways, <1>1, PTL DEF Spec, NoSecondEnqueue, EnqueuesNew

-----------------------------------------------------------------------------
\* Where a row is in its life, by what the sheet has of it, before a step
LEMMA LifeOf ==
  TypeOK /\ Numbered =>
    /\ \A n \in 1..Len(sheet) : sheet[n].id \in 1..ids /\ Life(sheet[n].id) = Stage(sheet[n])
    /\ \A k \in Nat : k > ids => Life(k) = "absent"
    /\ \A k \in Nat : k <= ids /\ (\A n \in 1..Len(sheet) : sheet[n].id # k) => Life(k) = "removed"
<1> SUFFICES ASSUME TypeOK, Numbered
             PROVE  /\ \A n \in 1..Len(sheet) : sheet[n].id \in 1..ids /\ Life(sheet[n].id) = Stage(sheet[n])
                    /\ \A k \in Nat : k > ids => Life(k) = "absent"
                    /\ \A k \in Nat : k <= ids /\ (\A n \in 1..Len(sheet) : sheet[n].id # k)
                                        => Life(k) = "removed"
  OBVIOUS
<1>1. DOMAIN sheet = 1..Len(sheet) /\ ids \in Nat
  BY LenProperties DEF TypeOK
<1>2. ASSUME NEW n \in 1..Len(sheet)
      PROVE  sheet[n].id \in 1..ids /\ Life(sheet[n].id) = Stage(sheet[n])
  <2>1. sheet[n] \in Row
    BY ElementOfSeq DEF TypeOK
  <2>2. sheet[n].id \in 1..ids
    BY <1>1, <2>1 DEF Row, Counting, Numbered
  <2>3. (CHOOSE m \in DOMAIN sheet : sheet[m].id = sheet[n].id) = n
    BY <1>1 DEF Numbered
  <2>4. ~(sheet[n].id > ids) /\ ~(\A m \in DOMAIN sheet : sheet[m].id # sheet[n].id)
    BY <1>1, <2>2
  <2> QED
    BY <2>2, <2>3, <2>4 DEF Life
<1>3. \A k \in Nat : k > ids => Life(k) = "absent"
  BY DEF Life
<1>4. \A k \in Nat : k <= ids /\ (\A n \in 1..Len(sheet) : sheet[n].id # k) => Life(k) = "removed"
  BY <1>1 DEF Life
<1> QED
  BY <1>2, <1>3, <1>4

\* and after it.
LEMMA LifeOfNext ==
  (TypeOK /\ Numbered)' =>
    (/\ \A n \in 1..Len(sheet) : sheet[n].id \in 1..ids /\ Life(sheet[n].id) = Stage(sheet[n])
     /\ \A k \in Nat : k > ids => Life(k) = "absent"
     /\ \A k \in Nat : k <= ids /\ (\A n \in 1..Len(sheet) : sheet[n].id # k) => Life(k) = "removed")'
BY LifeOf, PTL

\* The lives RowLife speaks of.
Lives == [k \in RowNo |-> Life(k)]

\* A rewritten sheet is a Mark of RowLife,
LEMMA RowsMark ==
  ASSUME TypeOK, TypeOK', Numbered, Numbered', UNCHANGED ids, Len(sheet') = Len(sheet),
         \A n \in 1..Len(sheet) :
            /\ sheet'[n].id = sheet[n].id
            /\ \/ Stage(sheet'[n]) = Stage(sheet[n])
               \/ Stage(sheet[n]) = "open"
               \/ Stage(sheet[n]) = "parked" /\ Stage(sheet'[n]) = "closed"
  PROVE  Rows!Mark
<1>a. ids \in Nat /\ \A r : Stage(r) \in {"open", "parked", "closed"}
  BY DEF TypeOK, Stage
<1>1. ASSUME NEW k \in RowNo
      PROVE  /\ Life(k)' \in {"absent", "open", "parked", "closed", "removed"}
             /\ \/ Life(k)' = Life(k)
                \/ Life(k) = "open" /\ Life(k)' \in {"parked", "closed"}
                \/ Life(k) = "parked" /\ Life(k)' = "closed"
  <2>0. k \in Nat
    BY DEF RowNo
  <2>1. CASE k > ids
    BY <2>0, <2>1, LifeOf, LifeOfNext
  <2>2. CASE k <= ids /\ \A n \in 1..Len(sheet) : sheet[n].id # k
    BY <2>0, <2>2, LifeOf, LifeOfNext
  <2>3. ASSUME NEW n \in 1..Len(sheet), sheet[n].id = k
        PROVE  Life(k) = Stage(sheet[n]) /\ Life(k)' = Stage(sheet'[n])
    BY <2>3, LifeOf, LifeOfNext
  <2>4. CASE \E n \in 1..Len(sheet) : sheet[n].id = k
    BY <2>3, <2>4, <1>a
  <2> QED
    BY <1>a, <2>0, <2>1, <2>2, <2>4
<1> QED
  BY <1>1 DEF Rows!Mark

\* appended rows are an Enqueue,
LEMMA RowsEnqueue ==
  ASSUME TypeOK, TypeOK', Numbered, Numbered', NEW k \in Nat, Extends(k, sheet'), ids' = ids + k
  PROVE  Rows!Enqueue
<1> DEFINE New == {j \in RowNo : j > ids /\ j <= ids + k}
<1>a. ids \in Nat /\ Len(sheet) \in Nat
  BY LenProperties DEF TypeOK
<1>1. ASSUME NEW j \in RowNo
      PROVE  Life(j)' = IF j \in New THEN "open" ELSE Life(j)
  <2>0. j \in Nat
    BY DEF RowNo
  <2>1. CASE j > ids + k
    <3>1. ~(j <= ids) /\ j > ids /\ j > ids'
      BY <1>a, <2>0, <2>1
    <3> QED
      BY <2>0, <2>1, <3>1, LifeOf, LifeOfNext
  <2>2. CASE j \in New
    <3> DEFINE n == Len(sheet) + (j - ids)
    <3>1. n \in Len(sheet)+1..Len(sheet') /\ n \in 1..Len(sheet') /\ ids + (n - Len(sheet)) = j
      BY <1>a, <2>0, <2>2 DEF Extends
    <3>2. sheet'[n].id = j /\ sheet'[n].status = "queued"
      BY <3>1 DEF Extends
    <3>3. Stage(sheet'[n]) = "open"
      BY <3>2 DEF Stage, Deletable
    <3> HIDE DEF n
    <3> QED
      BY <2>2, <3>1, <3>2, <3>3, LifeOfNext
  <2>3. CASE j <= ids /\ \E n \in 1..Len(sheet) : sheet[n].id = j
    <3>1. PICK n \in 1..Len(sheet) : sheet[n].id = j
      BY <2>3
    <3>2. n \in 1..Len(sheet') /\ sheet'[n] = sheet[n]
      BY <1>a, <3>1 DEF Extends
    <3>3. Life(j) = Stage(sheet[n]) /\ Life(j)' = Stage(sheet'[n])
      BY <3>1, <3>2, LifeOf, LifeOfNext
    <3> QED
      BY <1>a, <2>0, <2>3, <3>2, <3>3
  <2>4. CASE j <= ids /\ \A n \in 1..Len(sheet) : sheet[n].id # j
    <3>1. ASSUME NEW n \in 1..Len(sheet') PROVE sheet'[n].id # j
      <4>1. CASE n <= Len(sheet)
        BY <1>a, <2>4, <4>1 DEF Extends
      <4>2. CASE n > Len(sheet)
        <5>1. n \in Len(sheet)+1..Len(sheet') /\ Len(sheet') \in Nat
          BY <1>a, <4>2 DEF Extends
        <5>2. sheet'[n].id = ids + (n - Len(sheet))
          BY <5>1 DEF Extends
        <5> QED
          BY <1>a, <2>0, <2>4, <5>1, <5>2
      <4> QED
        BY <1>a, <4>1, <4>2 DEF Extends
    <3>2. j <= ids'
      BY <1>a, <2>0, <2>4
    <3> QED
      BY <1>a, <2>0, <2>4, <3>1, <3>2, LifeOf, LifeOfNext
  <2> QED
    BY <1>a, <2>0, <2>1, <2>2, <2>3, <2>4
<1>2. \A j \in New : Life(j) = "absent"
  BY LifeOf DEF RowNo
<1>3. New \in SUBSET RowNo
  OBVIOUS
<1> HIDE DEF New
<1>4. Rows!Move(New, {"absent"}, "open")
  BY <1>1, <1>2, <1>3 DEF Rows!Move
<1> QED
  BY <1>3, <1>4 DEF Rows!Enqueue

\* and closed rows cut out are a Remove.
LEMMA RowsRemove ==
  ASSUME TypeOK, TypeOK', Numbered, Numbered', UNCHANGED ids,
         NEW a \in 1..Len(sheet), NEW b \in 1..Len(sheet), a <= b, CutsOut(a, b, sheet'),
         \A n \in a..b : Stage(sheet[n]) = "closed"
  PROVE  Rows!Remove
<1> DEFINE Gone == {j \in RowNo : \E n \in a..b : sheet[n].id = j}
           up(n) == IF n < a THEN n ELSE n + (b - a + 1)
           down(n) == IF n < a THEN n ELSE n - (b - a + 1)
<1>a. ids \in Nat /\ Len(sheet) \in Nat /\ DOMAIN sheet = 1..Len(sheet) /\ a..b \subseteq 1..Len(sheet)
  BY LenProperties DEF TypeOK
<1>1. \A n \in 1..Len(sheet') : up(n) \in (1..Len(sheet)) \ (a..b) /\ sheet'[n] = sheet[up(n)]
  BY <1>a DEF CutsOut
<1>2. \A n \in (1..Len(sheet)) \ (a..b) : down(n) \in 1..Len(sheet') /\ up(down(n)) = n
  BY <1>a DEF CutsOut
<1> HIDE DEF up, down
<1>3. ASSUME NEW j \in RowNo
      PROVE  Life(j)' = IF j \in Gone THEN "removed" ELSE Life(j)
  <2>0. j \in Nat
    BY DEF RowNo
  <2>1. CASE j > ids
    <3>1. j \notin Gone
      BY <1>a, <2>0, <2>1 DEF Numbered
    <3> QED
      BY <2>0, <2>1, <3>1, LifeOf, LifeOfNext
  <2>2. CASE j <= ids /\ \A n \in 1..Len(sheet) : sheet[n].id # j
    <3>1. j \notin Gone /\ \A n \in 1..Len(sheet') : sheet'[n].id # j
      BY <1>a, <1>1, <2>2
    <3> QED
      BY <2>0, <2>2, <3>1, LifeOf, LifeOfNext
  <2>3. CASE j <= ids /\ \E n \in a..b : sheet[n].id = j
    <3>1. PICK n \in a..b : sheet[n].id = j
      BY <2>3
    <3>2. \A m \in 1..Len(sheet') : sheet'[m].id # j
      BY <1>a, <1>1, <3>1 DEF Numbered
    <3>3. j \in Gone
      BY <3>1
    <3> QED
      BY <2>0, <2>3, <3>2, <3>3, LifeOfNext
  <2>4. CASE \E n \in (1..Len(sheet)) \ (a..b) : sheet[n].id = j
    <3>1. PICK n \in (1..Len(sheet)) \ (a..b) : sheet[n].id = j
      BY <2>4
    <3>2. j \notin Gone
      BY <1>a, <3>1 DEF Numbered
    <3>3. down(n) \in 1..Len(sheet') /\ sheet'[down(n)] = sheet[n]
      BY <1>1, <1>2
    <3>4. Life(j) = Stage(sheet[n]) /\ Life(j)' = Stage(sheet'[down(n)])
      BY <3>1, <3>3, LifeOf, LifeOfNext
    <3> QED
      BY <3>2, <3>3, <3>4
  <2> QED
    BY <1>a, <2>0, <2>1, <2>2, <2>3, <2>4
<1>4. \A j \in Gone : Life(j) = "closed"
  BY <1>a, LifeOf
<1>5. Gone \in SUBSET RowNo
  OBVIOUS
<1> HIDE DEF Gone
<1>6. Rows!Move(Gone, {"closed"}, "removed")
  BY <1>3, <1>4, <1>5 DEF Rows!Move
<1> QED
  BY <1>5, <1>6 DEF Rows!Remove

\* Every step of the queue is one of RowLife, or changes no row's life.
LEMMA RowsStep ==
  TypeOK /\ TypeOK' /\ Phases /\ Hands /\ Doomed /\ Numbered /\ Numbered' /\ [Next]_vars
    => [Rows!Next]_Lives
<1> SUFFICES ASSUME TypeOK, TypeOK', Phases, Hands, Doomed, Numbered, Numbered', [Next]_vars
             PROVE  [Rows!Next]_Lives
  OBVIOUS
<1>a. /\ DOMAIN sheet = 1..Len(sheet) /\ Len(sheet) \in Nat
      /\ DOMAIN sheet' = 1..Len(sheet') /\ Len(sheet') \in Nat
  BY LenProperties DEF TypeOK
<1>b. start \in Nat /\ start >= 1
  BY DEF TypeOK, Counting
<1>c. (UNCHANGED <<sheet, ids>>) => UNCHANGED Lives
  BY DEF Lives, Life, Stage
<1> USE DEF store, cycle, bounds
<1>1. ASSUME NEW retry \in BOOLEAN, Poll(retry) PROVE [Rows!Next]_Lives
  BY <1>1, <1>a, <1>b, <1>c DEF Poll
<1>2. ASSUME NEW r \in todo, Resolve(r) PROVE [Rows!Next]_Lives
  BY <1>2, <1>a, <1>b, <1>c DEF Resolve
<1>3. CASE MarkResolved
  <2>1. Rewrites(marks, sheet') /\ UNCHANGED ids
    BY <1>3, BatchSheet DEF MarkResolved
  <2>2. \A m \in marks : m.n \in 1..Len(sheet) => Stage(sheet[m.n]) = "open"
    BY <1>a DEF Hands, Held
  <2>3. Rows!Mark
    <3>1. Len(sheet') = Len(sheet) /\ \A n \in 1..Len(sheet) :
             sheet'[n].id = sheet[n].id /\ (sheet'[n] = sheet[n] \/ Stage(sheet[n]) = "open")
      BY <2>1, <2>2 DEF Rewrites
    <3> QED
      BY <2>1, <3>1, RowsMark
  <2> QED
    BY <2>3 DEF Rows!Next
<1>4. CASE Stamp
  <2>1. Rewrites(Stamps, sheet') /\ UNCHANGED ids
    BY <1>4, BatchSheet DEF Stamp
  <2>2. \A m \in Stamps : m.n \in 1..Len(sheet) => Stage(sheet[m.n]) = "open"
    BY <1>a DEF Hands, Held, Same, MarkOf, Stamps, TwinMarks
  <2>3. Rows!Mark
    <3>1. Len(sheet') = Len(sheet) /\ \A n \in 1..Len(sheet) :
             sheet'[n].id = sheet[n].id /\ (sheet'[n] = sheet[n] \/ Stage(sheet[n]) = "open")
      BY <2>1, <2>2 DEF Rewrites
    <3> QED
      BY <2>1, <3>1, RowsMark
  <2> QED
    BY <2>3 DEF Rows!Next
<1>5. ASSUME NEW r \in todo, Lane(r) PROVE [Rows!Next]_Lives
  BY <1>5, <1>a, <1>b, <1>c DEF Lane
<1>6. ASSUME NEW m \in marks, MarkLane(m) PROVE [Rows!Next]_Lives
  <2>1. Rewrites({m}, sheet') /\ UNCHANGED ids
    BY <1>6, BatchSheet DEF MarkLane
  <2>2. \A r \in {m} : r.n \in 1..Len(sheet) => Stage(sheet[r.n]) = "open"
    BY <1>a DEF Hands, Held
  <2>3. Rows!Mark
    <3>1. Len(sheet') = Len(sheet) /\ \A n \in 1..Len(sheet) :
             sheet'[n].id = sheet[n].id /\ (sheet'[n] = sheet[n] \/ Stage(sheet[n]) = "open")
      BY <2>1, <2>2 DEF Rewrites
    <3> QED
      BY <2>1, <3>1, RowsMark
  <2> QED
    BY <2>3 DEF Rows!Next
<1>7. CASE LanesDone
  BY <1>7, <1>a, <1>b, <1>c DEF LanesDone, Goto
<1>8. CASE MarkTwins
  <2>1. Rewrites(TwinMarks, sheet') /\ UNCHANGED ids
    BY <1>8, BatchSheet DEF MarkTwins
  <2>2. \A m \in TwinMarks : m.n \in 1..Len(sheet) => Stage(sheet[m.n]) = "open"
    BY <1>a DEF Hands, Held, Same, MarkOf, Stamps, TwinMarks
  <2>3. Rows!Mark
    <3>1. Len(sheet') = Len(sheet) /\ \A n \in 1..Len(sheet) :
             sheet'[n].id = sheet[n].id /\ (sheet'[n] = sheet[n] \/ Stage(sheet[n]) = "open")
      BY <2>1, <2>2 DEF Rewrites
    <3> QED
      BY <2>1, <3>1, RowsMark
  <2> QED
    BY <2>3 DEF Rows!Next
<1>9. CASE SweepRead
  BY <1>9, <1>a, <1>b, <1>c DEF SweepRead, Goto
<1>10. CASE SweepAppend
  <2>1. PICK k \in Nat : Extends(k, sheet') /\ ids' = ids + k
    BY <1>10, SweepAppendSheet
  <2>2. Rows!Enqueue
    BY <2>1, RowsEnqueue
  <2> QED
    BY <2>2 DEF Rows!Next
<1>11. CASE SweepNot
  BY <1>11, <1>a, <1>b, <1>c DEF SweepNot
<1>12. CASE TrimBegin
  BY <1>12, <1>a, <1>b, <1>c DEF TrimBegin, Goto
<1>13. CASE TrimNot
  BY <1>13, <1>a, <1>b, <1>c DEF TrimNot, Goto
<1>14. CASE TrimDelete
  <2>1. PICK a \in 1..Len(sheet), b \in 1..Len(sheet) :
           a <= b /\ CutsOut(a, b, sheet') /\ a..b \subseteq doomed
    BY <1>14, TrimDeleteSheet
  <2>2. pc = "delete" /\ UNCHANGED ids
    BY <1>14 DEF TrimDelete
  <2>3. \A n \in a..b : Stage(sheet[n]) = "closed"
    BY <2>1, <2>2 DEF Doomed
  <2>4. Rows!Remove
    BY <2>1, <2>2, <2>3, RowsRemove
  <2> QED
    BY <2>4 DEF Rows!Next
<1>15. CASE TrimEnd
  BY <1>15, <1>a, <1>b, <1>c DEF TrimEnd, Goto
<1>16. CASE SettleHeld
  <2>1. Rewrites(Settling, sheet') /\ UNCHANGED ids
    BY <1>16, BatchSheet DEF SettleHeld
  <2>2. \A n \in CreatedLater \cup DrainClosed : Stage(sheet[n]) \in {"parked", "closed"}
    BY DEF CreatedLater, DrainClosed, SettleView, Stage, Deletable
  <2>3. \A m \in Settling : m.n \in CreatedLater \cup DrainClosed /\ m.status \in {"done", "closed"}
    BY DEF Settling, Same, MarkOf, Claimed
  <2>4. \A n \in 1..Len(sheet) :
          /\ sheet'[n].id = sheet[n].id
          /\ \/ sheet'[n] = sheet[n]
             \/ Stage(sheet[n]) \in {"parked", "closed"} /\ Stage(sheet'[n]) = "closed"
    BY <2>1, <2>2, <2>3 DEF Rewrites, Stage, Deletable
  <2>5. Rows!Mark
    BY <2>1, <2>4, RowsMark DEF Rewrites
  <2> QED
    BY <2>5 DEF Rows!Next
<1>17. CASE SettleNot
  BY <1>17, <1>a, <1>b, <1>c DEF SettleNot, Goto, Forget
<1>18. CASE Restart
  BY <1>18, <1>a, <1>b, <1>c DEF Restart, Goto
<1>19. CASE CycleFails
  BY <1>19, <1>a, <1>b, <1>c DEF CycleFails, Forget
<1>20. CASE Stop
  BY <1>20, <1>a, <1>b, <1>c DEF Stop, Forget
<1>21. CASE Days
  <2>1. Ages(sheet') /\ UNCHANGED ids
    BY <1>21, DaysSheet DEF Days
  <2>2. \A n \in 1..Len(sheet) : sheet'[n].id = sheet[n].id /\ Stage(sheet'[n]) = Stage(sheet[n])
    BY <2>1 DEF Ages, Stage
  <2>3. Rows!Mark
    BY <2>1, <2>2, RowsMark DEF Ages
  <2> QED
    BY <2>3 DEF Rows!Next
<1>22. ASSUME NEW o \in Order, Webhook(o) PROVE [Rows!Next]_Lives
  <2>1. Extends(1, sheet') /\ ids' = ids + 1
    BY <1>22, WebhookSheet
  <2>2. Rows!Enqueue
    BY <2>1, RowsEnqueue
  <2> QED
    BY <2>2 DEF Rows!Next
<1>23. ASSUME NEW o \in Order, CreateElsewhere(o) PROVE [Rows!Next]_Lives
  BY <1>23, <1>a, <1>b, <1>c DEF CreateElsewhere
<1>24. ASSUME NEW o \in Order, CloseElsewhere(o) PROVE [Rows!Next]_Lives
  BY <1>24, <1>a, <1>b, <1>c DEF CloseElsewhere
<1>25. CASE UNCHANGED vars
  BY <1>25, <1>a, <1>b, <1>c DEF vars, store, cycle, bounds
<1> QED
  BY <1>1, <1>2, <1>3, <1>4, <1>5, <1>6, <1>7, <1>8, <1>9, <1>10, <1>11, <1>12, <1>13,
     <1>14, <1>15, <1>16, <1>17, <1>18, <1>19, <1>20, <1>21, <1>22, <1>23, <1>24, <1>25
     DEF Next, Engine

\* The live queue implements RowLife: only closed rows are ever removed, although
\* rows move up under the numbers the engine holds, and no settled row reopens.
THEOREM RowsLiveHolds == Spec => RowsLive
<1>1. Init => Rows!Init
  <2> SUFFICES ASSUME Init, NEW k \in RowNo PROVE Life(k) = "absent"
    BY DEF Rows!Init
  <2> QED
    BY DEF Init, Life, RowNo
<1>2. Safe /\ Safe' /\ [Next]_vars => [Rows!Next]_Lives
  BY RowsStep DEF Safe
<1> QED
  BY SafeAlways, <1>1, <1>2, PTL DEF Spec, RowsLive, Rows!Spec, Lives
=============================================================================

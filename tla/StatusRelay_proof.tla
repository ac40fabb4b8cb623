------------------------- MODULE StatusRelay_proof --------------------------
(***************************************************************************)
(* Proofs about the status relay: types, the cursor, and the stage that is *)
(* kept, for any orders, stage map, ladder and bounds.                     *)
(***************************************************************************)
EXTENDS StatusRelay, SequenceTheorems, TLAPS

-----------------------------------------------------------------------------
(* The inductive invariant. *)

\* What is claimed lies at or after the cursor, a row once, and only in a cycle.
ClaimInv ==
    /\ \A r, q \in claim : r.n = q.n => r = q
    /\ \A r \in claim : start <= r.n
    /\ pc \in {"poll", "cut"} => claim = {}

\* The saved cursor is the cursor, which is within the tab, and reset in a trim.
CursorInv ==
    /\ disk = start /\ start <= Len(sheet) + 1
    /\ pc = "cut" => start = 1

\* A decision there is to mark; a PATCH there is to record, of an event that is
\* not older than the last applied.
DecisionInv ==
    /\ pc = "mark" => outcome # "none"
    /\ pc = "record" => \A r \in claim : InHand(r) => hs[r.o] = r.k /\ r.k >= ledger[r.o]

\* An order that is not there has not been found, nor updated; one that is
\* there is not created again.
WorldInv ==
    \A o \in Order :
        /\ lane[o] # 0 => hs[o] = 0
        /\ hs[o] = 0 => index[o] = 0 /\ ledger[o] = 0

\* The search shows the stage there is, unless it may be stale.
SearchInv == ~StaleStage => \A o \in Order : index[o] # 0 => index[o] = hs[o]

IInv == TypeOK /\ NothingBehind /\ ClaimInv /\ CursorInv /\ DecisionInv /\ WorldInv
-----------------------------------------------------------------------------
(* Facts about sequences. *)

\* The events of an order are numbered from 1.
LEMMA EventNumbers == Event \subseteq Nat \ {0} /\ \A k \in Event : 1..k \subseteq Event
  BY StatusRelayAssumption DEF StatusRelayAssumption, Event

\* Taking one row out of a sheet leaves a sheet, shorter by that row.
LEMMA RowTaken ==
  ASSUME NEW S, NEW s \in Seq(S), NEW d \in DOMAIN s,
         NEW t, t = SubSeq(s, 1, d - 1) \o SubSeq(s, d + 1, Len(s))
  PROVE  t \in Seq(S) /\ Len(t) = Len(s) - 1
  <1> DEFINE a == SubSeq(s, 1, d - 1)
             b == SubSeq(s, d + 1, Len(s))
  <1>1. /\ Len(s) \in Nat /\ d \in Nat /\ 1 <= d /\ d <= Len(s)
        /\ \A i \in 1..Len(s) : s[i] \in S
    OBVIOUS
  <1>2. a \in Seq(S) /\ Len(a) = d - 1
    <2>1. 1 \in Int /\ d - 1 \in Int /\ \A i \in 1..(d - 1) : s[i] \in S
      BY <1>1
    <2> QED
      BY <1>1, <2>1, SubSeqProperties
  <1>3. b \in Seq(S) /\ Len(b) = Len(s) - d
    <2>1. d + 1 \in Int /\ Len(s) \in Int /\ \A i \in (d + 1)..Len(s) : s[i] \in S
      BY <1>1
    <2> QED
      BY <1>1, <2>1, SubSeqProperties
  <1>4. t = a \o b
    OBVIOUS
  <1> HIDE DEF a, b
  <1>5. t \in Seq(S) /\ Len(t) = Len(a) + Len(b)
    BY <1>2, <1>3, <1>4, ConcatProperties
  <1>6. Len(a) + Len(b) = Len(s) - 1
    BY <1>1, <1>2, <1>3
  <1> QED
    BY <1>5, <1>6

\* Changing a row in place leaves a sheet of the same length.
LEMMA RowChanged ==
  ASSUME NEW S, NEW s \in Seq(S), NEW n \in DOMAIN s, NEW e \in S,
         NEW t, t = [s EXCEPT ![n] = e]
  PROVE  t \in Seq(S) /\ Len(t) = Len(s) /\ DOMAIN t = DOMAIN s
  BY ExceptSeq

\* A row with its state, its attempts and its marks changed is a row.
LEMMA RowMarked ==
  ASSUME NEW e \in Row, NEW a \in Nat, NEW st \in Terminal \union {"deferred", "error"}
  PROVE  [e EXCEPT !.status = st, !.ripe = FALSE, !.hand = FALSE, !.att = a] \in Row
  <1> DEFINE States == {"queued", "deferred", "error"} \union Terminal
  <1>1. st \in States
    OBVIOUS
  <1>2. e \in [id : 1..MaxRows, o : Order, k : Event, status : States,
               att : Nat, ripe : BOOLEAN, hand : BOOLEAN]
    BY DEF Row
  <1> HIDE DEF States
  <1>3. [e EXCEPT !.status = st, !.ripe = FALSE, !.hand = FALSE, !.att = a]
          \in [id : 1..MaxRows, o : Order, k : Event, status : States,
               att : Nat, ripe : BOOLEAN, hand : BOOLEAN]
    BY <1>1, <1>2
  <1> QED
    BY <1>3 DEF Row, States

-----------------------------------------------------------------------------
(* The invariant is inductive. *)

\* What happens outside the consumer keeps the invariant.
LEMMA EnvironmentStep ==
  ASSUME IInv,
         Environment
  PROVE  IInv'
  <1> USE DEF world, hubspot, queue, memory, daily, bounds
  <1>0. TypeOK /\ NothingBehind /\ ClaimInv /\ CursorInv /\ DecisionInv /\ WorldInv
    BY DEF IInv
  <1>1. ASSUME NEW o \in Order, StatusChange(o) PROVE IInv'
    <2>1. TypeOK'
      BY <1>0, <1>1, StatusRelayAssumption, EventNumbers
         DEF StatusRelayAssumption, TypeOK, EventOrNone, Terminal, StatusChange
    <2> QED
      BY <1>0, <1>1, <2>1
         DEF IInv, NothingBehind, ClaimInv, CursorInv, DecisionInv, WorldInv, InHand,
             StatusChange
  <1>2. ASSUME NEW o \in Order, FetchOrder(o) PROVE IInv'
    <2>1. TypeOK'
      BY <1>0, <1>2, StatusRelayAssumption, EventNumbers
         DEF StatusRelayAssumption, TypeOK, EventOrNone, Terminal, FetchOrder
    <2>2. WorldInv'
      BY <1>0, <1>2, EventNumbers
         DEF TypeOK, EventOrNone, WorldInv, DecisionInv, FetchOrder
    <2> QED
      BY <1>0, <1>2, <2>1, <2>2
         DEF IInv, NothingBehind, ClaimInv, CursorInv, DecisionInv, InHand, FetchOrder
  <1>3. ASSUME NEW o \in Order, CreateOrder(o) PROVE IInv'
    <2>1. TypeOK'
      BY <1>0, <1>3, StatusRelayAssumption, EventNumbers
         DEF StatusRelayAssumption, TypeOK, EventOrNone, Terminal, CreateOrder
    <2>2. DecisionInv'
      BY <1>0, <1>3, EventNumbers
         DEF TypeOK, EventOrNone, DecisionInv, ClaimInv, WorldInv, InHand, CreateOrder
    <2>3. WorldInv'
      BY <1>0, <1>3, EventNumbers
         DEF TypeOK, EventOrNone, WorldInv, DecisionInv, CreateOrder
    <2> QED
      BY <1>0, <1>3, <2>1, <2>2, <2>3
         DEF IInv, NothingBehind, ClaimInv, CursorInv, CreateOrder
  <1>4. ASSUME NEW o \in Order, NEW k \in Event, Capture(o, k) PROVE IInv'
    <2>1. TypeOK'
      <3> DEFINE e == [id |-> ids + 1, o |-> o, k |-> k, status |-> "queued",
                       att |-> 0, ripe |-> FALSE, hand |-> FALSE]
      <3>1. e \in Row /\ ids + 1 \in 0..MaxRows
        BY <1>0, <1>4, StatusRelayAssumption DEF StatusRelayAssumption, TypeOK, Row, Capture
      <3>2. sheet' = Append(sheet, e)
        BY <1>4 DEF Capture
      <3>3. sheet' \in Seq(Row) /\ Len(sheet') = Len(sheet) + 1
            /\ \A m \in DOMAIN sheet : m \in DOMAIN sheet' /\ sheet'[m] = sheet[m]
        BY <1>0, <3>1, <3>2, AppendProperties DEF TypeOK
      <3> QED
        BY <1>0, <1>4, <3>1, <3>3 DEF TypeOK, Capture
    <2>2. NothingBehind'
      BY <1>0, <1>4
         DEF TypeOK, NothingBehind, Terminal, CursorInv, ClaimInv, Capture
    <2>3. ClaimInv'
      BY <1>0, <1>4
         DEF TypeOK, ClaimInv, CursorInv, Capture
    <2>4. CursorInv'
      BY <1>0, <1>4
         DEF TypeOK, CursorInv, ClaimInv, Capture
    <2> QED
      BY <1>0, <1>4, <2>1, <2>2, <2>3, <2>4
         DEF IInv, DecisionInv, WorldInv, InHand, Capture
  <1>5. ASSUME NEW n \in DOMAIN sheet, Ripen(n) PROVE IInv'
    <2>1. TypeOK'
      <3> DEFINE e == [sheet[n] EXCEPT !.ripe = TRUE]
      <3>0. sheet[n] \in Row
        BY <1>0, <1>5 DEF TypeOK, DecisionInv, Ripen
      <3>1. e \in Row
        BY <3>0 DEF Row, Terminal
      <3>2. sheet' = [sheet EXCEPT ![n] = e]
        BY <1>5 DEF Ripen
      <3>3. sheet' \in Seq(Row) /\ Len(sheet') = Len(sheet) /\ DOMAIN sheet' = DOMAIN sheet
        BY <1>0, <3>1, <3>2, RowChanged DEF TypeOK
      <3>4. \A m \in DOMAIN sheet : sheet'[m].o = sheet[m].o /\ sheet'[m].k = sheet[m].k
        BY <1>0, <1>5 DEF TypeOK, Ripen
      <3> QED
        BY <1>0, <1>5, <3>3, <3>4, StatusRelayAssumption
           DEF StatusRelayAssumption, TypeOK, Ripen
    <2>2. NothingBehind'
      BY <1>0, <1>5
         DEF TypeOK, NothingBehind, Terminal, CursorInv, ClaimInv, Ripen
    <2>3. CursorInv'
      BY <1>0, <1>5
         DEF TypeOK, CursorInv, ClaimInv, Ripen
    <2> QED
      BY <1>0, <1>5, <2>1, <2>2, <2>3
         DEF IInv, ClaimInv, DecisionInv, WorldInv, InHand, Ripen
  <1>6. ASSUME NEW n \in DOMAIN sheet, Requeue(n) PROVE IInv'
    <2>1. TypeOK'
      <3> DEFINE e == [sheet[n] EXCEPT !.status = "queued", !.hand = TRUE]
      <3>0. sheet[n] \in Row
        BY <1>0, <1>6 DEF TypeOK, DecisionInv, Requeue
      <3>1. e \in Row
        BY <3>0 DEF Row, Terminal
      <3>2. sheet' = [sheet EXCEPT ![n] = e]
        BY <1>6 DEF Requeue
      <3>3. sheet' \in Seq(Row) /\ Len(sheet') = Len(sheet) /\ DOMAIN sheet' = DOMAIN sheet
        BY <1>0, <3>1, <3>2, RowChanged DEF TypeOK
      <3>4. \A m \in DOMAIN sheet : sheet'[m].o = sheet[m].o /\ sheet'[m].k = sheet[m].k
        BY <1>0, <1>6 DEF TypeOK, Requeue
      <3> QED
        BY <1>0, <1>6, <3>3, <3>4, StatusRelayAssumption
           DEF StatusRelayAssumption, TypeOK, Requeue
    <2>2. NothingBehind'
      BY <1>0, <1>6
         DEF TypeOK, NothingBehind, Terminal, CursorInv, ClaimInv, Requeue
    <2>3. CursorInv'
      BY <1>0, <1>6
         DEF TypeOK, CursorInv, ClaimInv, Requeue
    <2> QED
      BY <1>0, <1>6, <2>1, <2>2, <2>3
         DEF IInv, ClaimInv, DecisionInv, WorldInv, InHand, Requeue
  <1>7. ASSUME Reindex PROVE IInv'
    <2>1. TypeOK'
      BY <1>0, <1>7, StatusRelayAssumption, EventNumbers
         DEF StatusRelayAssumption, TypeOK, EventOrNone, Terminal, Reindex
    <2>2. WorldInv'
      BY <1>0, <1>7, EventNumbers
         DEF TypeOK, EventOrNone, WorldInv, DecisionInv, Reindex
    <2> QED
      BY <1>0, <1>7, <2>1, <2>2
         DEF IInv, NothingBehind, ClaimInv, CursorInv, DecisionInv, InHand, Reindex
  <1>8. ASSUME NewDay PROVE IInv'
    <2>1. TypeOK'
      BY <1>0, <1>8, StatusRelayAssumption, EventNumbers
         DEF StatusRelayAssumption, TypeOK, EventOrNone, Terminal, NewDay
    <2> QED
      BY <1>0, <1>8, <2>1
         DEF IInv, NothingBehind, ClaimInv, CursorInv, DecisionInv, WorldInv, InHand, NewDay
  <1> QED
    BY <1>1, <1>2, <1>3, <1>4, <1>5, <1>6, <1>7, <1>8 DEF Environment

\* So does every step of handle_row, the mark of a row, and a failed call.
LEMMA HandleStep ==
  ASSUME IInv,
         (\E r \in claim : Handle(r) \/ CallFails(r))
  PROVE  IInv'
  <1> USE DEF world, hubspot, queue, memory, daily, bounds
  <1>0. TypeOK /\ NothingBehind /\ ClaimInv /\ CursorInv /\ DecisionInv /\ WorldInv
    BY DEF IInv
  <1>1. ASSUME NEW r \in claim, Unmapped(r) PROVE IInv'
    <2>1. TypeOK'
      BY <1>0, <1>1, StatusRelayAssumption, EventNumbers
         DEF StatusRelayAssumption, TypeOK, EventOrNone, Terminal, Unmapped, Handling,
             Decide
    <2>2. DecisionInv'
      BY <1>0, <1>1, EventNumbers
         DEF TypeOK, EventOrNone, DecisionInv, ClaimInv, WorldInv, InHand, Unmapped,
             Handling, Decide
    <2> QED
      BY <1>0, <1>1, <2>1, <2>2
         DEF IInv, NothingBehind, ClaimInv, CursorInv, WorldInv, Unmapped, Decide, Handling
  <1>2. ASSUME NEW r \in claim, Older(r) PROVE IInv'
    <2>1. TypeOK'
      BY <1>0, <1>2, StatusRelayAssumption, EventNumbers
         DEF StatusRelayAssumption, TypeOK, EventOrNone, Terminal, Older, Handling, Decide
    <2>2. DecisionInv'
      BY <1>0, <1>2, EventNumbers
         DEF TypeOK, EventOrNone, DecisionInv, ClaimInv, WorldInv, InHand, Older, Handling,
             Decide
    <2> QED
      BY <1>0, <1>2, <2>1, <2>2
         DEF IInv, NothingBehind, ClaimInv, CursorInv, WorldInv, Older, Decide, Handling
  <1>3. ASSUME NEW r \in claim, Absent(r) PROVE IInv'
    <2>1. TypeOK'
      BY <1>0, <1>3, StatusRelayAssumption, EventNumbers
         DEF StatusRelayAssumption, TypeOK, EventOrNone, Terminal, Absent, Searching,
             Handling, Decide
    <2>2. DecisionInv'
      BY <1>0, <1>3, EventNumbers
         DEF TypeOK, EventOrNone, DecisionInv, ClaimInv, WorldInv, InHand, Absent,
             Searching, Handling, Decide
    <2> QED
      BY <1>0, <1>3, <2>1, <2>2
         DEF IInv, NothingBehind, ClaimInv, CursorInv, WorldInv, Absent, Decide, Handling,
             Searching
  <1>4. ASSUME NEW r \in claim, BakedIn(r) PROVE IInv'
    <2>1. TypeOK'
      BY <1>0, <1>4, StatusRelayAssumption, EventNumbers
         DEF StatusRelayAssumption, TypeOK, EventOrNone, Terminal, BakedIn, Searching,
             Handling, Decide, NewerThanApplied
    <2>2. DecisionInv'
      BY <1>0, <1>4, EventNumbers
         DEF TypeOK, EventOrNone, DecisionInv, ClaimInv, WorldInv, InHand, BakedIn,
             Searching, Handling, Decide, NewerThanApplied
    <2>3. WorldInv'
      BY <1>0, <1>4, EventNumbers
         DEF TypeOK, EventOrNone, WorldInv, DecisionInv, BakedIn, Searching, Handling,
             Decide, NewerThanApplied
    <2> QED
      BY <1>0, <1>4, <2>1, <2>2, <2>3
         DEF IInv, NothingBehind, ClaimInv, CursorInv, BakedIn, Decide, Handling, Searching
  <1>5. ASSUME NEW r \in claim, Patch(r) PROVE IInv'
    <2>1. TypeOK'
      BY <1>0, <1>5, StatusRelayAssumption, EventNumbers
         DEF StatusRelayAssumption, TypeOK, EventOrNone, Terminal, Patch, Patching,
             Searching, Handling, SetStage, NewerThanApplied
    <2>2. DecisionInv'
      BY <1>0, <1>5, EventNumbers
         DEF TypeOK, EventOrNone, DecisionInv, ClaimInv, WorldInv, InHand, Patch, Patching,
             Searching, Handling, SetStage, NewerThanApplied
    <2>3. WorldInv'
      BY <1>0, <1>5, EventNumbers
         DEF TypeOK, EventOrNone, WorldInv, DecisionInv, Patch, Patching, Searching,
             Handling, SetStage, NewerThanApplied
    <2> QED
      BY <1>0, <1>5, <2>1, <2>2, <2>3
         DEF IInv, NothingBehind, ClaimInv, CursorInv, Patch, Handling, Searching, Patching
  <1>6. ASSUME NEW r \in claim, Record(r) PROVE IInv'
    <2>1. TypeOK'
      BY <1>0, <1>6, StatusRelayAssumption, EventNumbers
         DEF StatusRelayAssumption, TypeOK, EventOrNone, Terminal, Record, Decide
    <2>2. DecisionInv'
      BY <1>0, <1>6, EventNumbers
         DEF TypeOK, EventOrNone, DecisionInv, ClaimInv, WorldInv, InHand, Record, Decide
    <2>3. WorldInv'
      BY <1>0, <1>6, EventNumbers
         DEF TypeOK, EventOrNone, WorldInv, DecisionInv, Record, Decide
    <2> QED
      BY <1>0, <1>6, <2>1, <2>2, <2>3
         DEF IInv, NothingBehind, ClaimInv, CursorInv, Record, Decide
  <1>7. ASSUME NEW r \in claim, Mark(r) PROVE IInv'
    <2>1. TypeOK'
      <3> DEFINE e == [sheet[r.n] EXCEPT !.status = outcome, !.ripe = FALSE,
                                    !.hand = FALSE, !.att = r.att + 1]
      <3>0. sheet[r.n] \in Row /\ r.att \in Nat /\ outcome \in Terminal \union {"deferred",
      "error"}
        BY <1>0, <1>7 DEF TypeOK, DecisionInv, Mark, Attempts, InHand
      <3>1. e \in Row
        <4>1. r.att + 1 \in Nat
          BY <3>0
        <4> QED
          BY <3>0, <4>1, RowMarked
      <3>2. sheet' = [sheet EXCEPT ![r.n] = e]
        BY <1>7 DEF Mark, Attempts, InHand
      <3>3. sheet' \in Seq(Row) /\ Len(sheet') = Len(sheet) /\ DOMAIN sheet' = DOMAIN sheet
        BY <1>0, <3>1, <3>2, RowChanged DEF TypeOK
      <3>4. \A m \in DOMAIN sheet : sheet'[m].o = sheet[m].o /\ sheet'[m].k = sheet[m].k
        BY <1>0, <1>7 DEF TypeOK, Mark, Attempts, InHand
      <3> QED
        BY <1>0, <1>7, <3>3, <3>4, StatusRelayAssumption
           DEF StatusRelayAssumption, TypeOK, Mark, Attempts, InHand
    <2>2. NothingBehind'
      BY <1>0, <1>7
         DEF TypeOK, NothingBehind, Terminal, CursorInv, ClaimInv, Mark, InHand, Attempts
    <2>3. ClaimInv'
      BY <1>0, <1>7
         DEF TypeOK, ClaimInv, CursorInv, Mark, InHand, Attempts
    <2>4. CursorInv'
      BY <1>0, <1>7
         DEF TypeOK, CursorInv, ClaimInv, Mark, InHand, Attempts
    <2>5. DecisionInv'
      BY <1>0, <1>7, EventNumbers
         DEF TypeOK, EventOrNone, DecisionInv, ClaimInv, WorldInv, InHand, Mark, InHand,
             Attempts
    <2> QED
      BY <1>0, <1>7, <2>1, <2>2, <2>3, <2>4, <2>5
         DEF IInv, WorldInv, Mark
  <1>8. ASSUME NEW r \in claim, CallFails(r) PROVE IInv'
    <2>1. TypeOK'
      <3>1. hs' \in [Order -> EventOrNone] /\ index' \in [Order -> EventOrNone]
        BY <1>0, <1>8 DEF TypeOK, EventOrNone, CallFails, SetStage
      <3>2. faults' \in 0..MaxFaults /\ outcome' \in {"error"} \union Terminal
        BY <1>0, <1>8, StatusRelayAssumption
           DEF StatusRelayAssumption, TypeOK, CallFails, Decide, Settle, Terminal
      <3> QED
        BY <1>0, <1>8, <3>1, <3>2 DEF TypeOK, CallFails, Decide
    <2>2. DecisionInv'
      BY <1>0, <1>8, EventNumbers
         DEF TypeOK, EventOrNone, DecisionInv, ClaimInv, WorldInv, InHand, CallFails,
             Patching, Searching, Handling, SetStage, NewerThanApplied, Decide, Settle
    <2>3. WorldInv'
      BY <1>0, <1>8, EventNumbers
         DEF TypeOK, EventOrNone, WorldInv, DecisionInv, CallFails, Patching, Searching,
             Handling, SetStage, NewerThanApplied, Decide, Settle
    <2> QED
      BY <1>0, <1>8, <2>1, <2>2, <2>3
         DEF IInv, NothingBehind, ClaimInv, CursorInv, CallFails, Decide, Handling,
             Searching, Patching
  <1> QED
    BY <1>1, <1>2, <1>3, <1>4, <1>5, <1>6, <1>7, <1>8 DEF Handle

\* So do the polls, the trim, and what cuts a cycle short.
LEMMA CycleStep ==
  ASSUME IInv,
         TrimNot \/ TrimEnd \/ (\E retry \in BOOLEAN : Poll(retry)) \/ TrimBegin
         \/ TrimDelete \/ CycleFails \/ Stop \/ Restart
  PROVE  IInv'
  <1> USE DEF world, hubspot, queue, memory, daily, bounds
  <1>0. TypeOK /\ NothingBehind /\ ClaimInv /\ CursorInv /\ DecisionInv /\ WorldInv
    BY DEF IInv
  <1>1. ASSUME TrimNot PROVE IInv'
    <2>1. TypeOK'
      BY <1>0, <1>1, StatusRelayAssumption, EventNumbers
         DEF StatusRelayAssumption, TypeOK, EventOrNone, Terminal, TrimNot
    <2>2. ClaimInv'
      BY <1>0, <1>1
         DEF TypeOK, ClaimInv, CursorInv, TrimNot
    <2> QED
      BY <1>0, <1>1, <2>1, <2>2
         DEF IInv, NothingBehind, CursorInv, DecisionInv, WorldInv, InHand, TrimNot
  <1>2. ASSUME TrimEnd PROVE IInv'
    <2>1. TypeOK'
      BY <1>0, <1>2, StatusRelayAssumption, EventNumbers
         DEF StatusRelayAssumption, TypeOK, EventOrNone, Terminal, TrimEnd, Reset
    <2>2. NothingBehind'
      BY <1>0, <1>2
         DEF TypeOK, NothingBehind, Terminal, CursorInv, ClaimInv, TrimEnd, Reset
    <2>3. ClaimInv'
      BY <1>0, <1>2
         DEF TypeOK, ClaimInv, CursorInv, TrimEnd, Reset
    <2>4. CursorInv'
      BY <1>0, <1>2
         DEF TypeOK, CursorInv, ClaimInv, TrimEnd, Reset
    <2> QED
      BY <1>0, <1>2, <2>1, <2>2, <2>3, <2>4
         DEF IInv, DecisionInv, WorldInv, InHand, TrimEnd, Reset
  <1>3. ASSUME NEW retry \in BOOLEAN, Poll(retry) PROVE IInv'
    <2>1. TypeOK'
      <3>1. claim' \subseteq [n : DOMAIN sheet, o : Order, k : Event, att : Nat]
            /\ \A r \in claim' : sheet[r.n].o = r.o /\ sheet[r.n].k = r.k
        <4>1. WalkFrom \in Nat /\ WalkFrom >= 1
          BY <1>0 DEF TypeOK, WalkFrom
        <4>2. WalkFrom..Len(sheet) \subseteq DOMAIN sheet /\ \A n \in DOMAIN sheet : sheet[n] \in Row
          BY <1>0, <4>1 DEF TypeOK
        <4>3. ASSUME NEW n \in DOMAIN sheet
              PROVE  sheet[n].o \in Order /\ sheet[n].k \in Event /\ sheet[n].att \in Nat
          BY <4>2, <4>3 DEF Row
        <4> QED
          BY <4>2, <4>3, <1>3 DEF Poll
      <3>2. start' \in 1..(MaxRows + 1) /\ disk' = start'
        <4>1. PICK f \in WalkFrom..(Len(sheet) + 1) : start' = f /\ disk' = f
          BY <1>3 DEF Poll
        <4>2. WalkFrom \in Nat /\ WalkFrom >= 1 /\ Len(sheet) \in Nat /\ Len(sheet) <= MaxRows
          BY <1>0, StatusRelayAssumption DEF StatusRelayAssumption, TypeOK, WalkFrom
        <4> QED
          BY <4>1, <4>2, StatusRelayAssumption DEF StatusRelayAssumption
      <3> QED
        BY <1>0, <1>3, <3>1, <3>2 DEF TypeOK, Poll
    <2>2. NothingBehind'
      BY <1>0, <1>3
         DEF TypeOK, NothingBehind, Terminal, CursorInv, ClaimInv, Poll, WalkFrom,
             Frontier, Claimable
    <2>3. ClaimInv'
      <3>1. PICK f \in WalkFrom..(Len(sheet) + 1) :
                Frontier(WalkFrom, f) /\ start' = f
        BY <1>3 DEF Poll
      <3>2. WalkFrom \in Nat /\ Len(sheet) \in Nat
        BY <1>0 DEF TypeOK, WalkFrom
      <3>3. ASSUME NEW n \in WalkFrom..Len(sheet), \E x \in BOOLEAN : Claimable(n, x)
            PROVE  f <= n
        BY <3>1, <3>2, <3>3 DEF Frontier, Claimable, Terminal
      <3> QED
        BY <3>1, <3>3, <1>3 DEF ClaimInv, Poll
    <2>4. CursorInv'
      BY <1>0, <1>3
         DEF TypeOK, CursorInv, ClaimInv, Poll, WalkFrom, Frontier, Claimable
    <2> QED
      BY <1>0, <1>3, <2>1, <2>2, <2>3, <2>4
         DEF IInv, DecisionInv, WorldInv, InHand, Poll
  <1>4. ASSUME TrimBegin PROVE IInv'
    <2>1. TypeOK'
      BY <1>0, <1>4, StatusRelayAssumption, EventNumbers
         DEF StatusRelayAssumption, TypeOK, EventOrNone, Terminal, TrimBegin, Reset
    <2>2. NothingBehind'
      BY <1>0, <1>4
         DEF TypeOK, NothingBehind, Terminal, CursorInv, ClaimInv, TrimBegin, Reset
    <2>3. ClaimInv'
      BY <1>0, <1>4
         DEF TypeOK, ClaimInv, CursorInv, TrimBegin, Reset
    <2>4. CursorInv'
      BY <1>0, <1>4
         DEF TypeOK, CursorInv, ClaimInv, TrimBegin, Reset
    <2> QED
      BY <1>0, <1>4, <2>1, <2>2, <2>3, <2>4
         DEF IInv, DecisionInv, WorldInv, InHand, TrimBegin, Reset
  <1>5. ASSUME TrimDelete PROVE IInv'
    <2>1. TypeOK'
      <3>1. PICK d \in doomed :
                /\ \A n \in doomed : n <= d
                /\ sheet' = SubSeq(sheet, 1, d - 1) \o SubSeq(sheet, d + 1, Len(sheet))
                /\ doomed' = doomed \ {d}
        BY <1>5 DEF TrimDelete
      <3>2. sheet' \in Seq(Row) /\ Len(sheet') = Len(sheet) - 1
        BY <1>0, <3>1, RowTaken DEF TypeOK
      <3>3. DOMAIN sheet = 1..Len(sheet) /\ DOMAIN sheet' = 1..Len(sheet') /\ Len(sheet) \in Nat
        BY <1>0, <3>2 DEF TypeOK
      <3>4. doomed' \subseteq DOMAIN sheet'
        <4>1. ASSUME NEW n \in doomed' PROVE n \in 1..(Len(sheet) - 1)
          <5>1. n \in 1..Len(sheet) /\ d \in 1..Len(sheet) /\ n <= d /\ n # d
            BY <1>0, <3>1, <3>3, <4>1 DEF TypeOK
          <5> QED
            BY <5>1, <3>3
        <4> QED
          BY <3>2, <3>3, <4>1
      <3>5. Len(sheet') <= ids
        BY <1>0, <3>2, <3>3 DEF TypeOK
      <3> QED
        BY <1>0, <1>5, <3>2, <3>4, <3>5 DEF TypeOK, ClaimInv, TrimDelete
    <2>2. NothingBehind'
      BY <1>0, <1>5
         DEF TypeOK, NothingBehind, Terminal, CursorInv, ClaimInv, TrimDelete
    <2>3. ClaimInv'
      BY <1>0, <1>5
         DEF TypeOK, ClaimInv, CursorInv, TrimDelete
    <2>4. CursorInv'
      <3>1. Len(sheet') \in Nat
        BY <2>1 DEF TypeOK
      <3> QED
        BY <1>0, <1>5, <3>1 DEF TypeOK, CursorInv, TrimDelete
    <2> QED
      BY <1>0, <1>5, <2>1, <2>2, <2>3, <2>4
         DEF IInv, DecisionInv, WorldInv, InHand, TrimDelete
  <1>6. ASSUME CycleFails PROVE IInv'
    <2>1. TypeOK'
      BY <1>0, <1>6, StatusRelayAssumption, EventNumbers
         DEF StatusRelayAssumption, TypeOK, EventOrNone, Terminal, CycleFails
    <2>2. ClaimInv'
      BY <1>0, <1>6
         DEF TypeOK, ClaimInv, CursorInv, CycleFails
    <2>3. DecisionInv'
      BY <1>0, <1>6, EventNumbers
         DEF TypeOK, EventOrNone, DecisionInv, ClaimInv, WorldInv, InHand, CycleFails
    <2> QED
      BY <1>0, <1>6, <2>1, <2>2, <2>3
         DEF IInv, NothingBehind, CursorInv, WorldInv, CycleFails
  <1>7. ASSUME Stop PROVE IInv'
    <2>1. TypeOK'
      BY <1>0, <1>7, StatusRelayAssumption, EventNumbers
         DEF StatusRelayAssumption, TypeOK, EventOrNone, Terminal, Stop
    <2>2. ClaimInv'
      BY <1>0, <1>7
         DEF TypeOK, ClaimInv, CursorInv, Stop
    <2>3. DecisionInv'
      BY <1>0, <1>7, EventNumbers
         DEF TypeOK, EventOrNone, DecisionInv, ClaimInv, WorldInv, InHand, Stop
    <2> QED
      BY <1>0, <1>7, <2>1, <2>2, <2>3
         DEF IInv, NothingBehind, CursorInv, WorldInv, Stop
  <1>8. ASSUME Restart PROVE IInv'
    <2>1. TypeOK'
      <3>1. faults' \in 0..MaxFaults /\ start' \in 1..(MaxRows + 1)
        BY <1>0, <1>8, StatusRelayAssumption
           DEF StatusRelayAssumption, TypeOK, Restart, NewProcess
      <3> QED
        BY <1>0, <1>8, <3>1 DEF TypeOK, Restart, NewProcess
    <2>2. NothingBehind'
      BY <1>0, <1>8
         DEF TypeOK, NothingBehind, Terminal, CursorInv, ClaimInv, Restart, NewProcess
    <2>3. ClaimInv'
      BY <1>0, <1>8
         DEF TypeOK, ClaimInv, CursorInv, Restart, NewProcess
    <2>4. CursorInv'
      BY <1>0, <1>8
         DEF TypeOK, CursorInv, ClaimInv, Restart, NewProcess
    <2>5. DecisionInv'
      BY <1>0, <1>8, EventNumbers
         DEF TypeOK, EventOrNone, DecisionInv, ClaimInv, WorldInv, InHand, Restart,
             NewProcess
    <2> QED
      BY <1>0, <1>8, <2>1, <2>2, <2>3, <2>4, <2>5
         DEF IInv, WorldInv, Restart, NewProcess
  <1> QED
    BY <1>1, <1>2, <1>3, <1>4, <1>5, <1>6, <1>7, <1>8

-----------------------------------------------------------------------------
(* The theorems. *)

\* The program starts in the invariant.
LEMMA Start == Init => IInv
  <1> SUFFICES ASSUME Init PROVE IInv
    OBVIOUS
  <1>1. TypeOK
    <2>1. sheet \in Seq(Row) /\ Len(sheet) = 0 /\ DOMAIN sheet = {}
      BY DEF Init
    <2>2. 0 \in EventOrNone /\ [o \in Order |-> 0] \in [Order -> EventOrNone]
      BY DEF EventOrNone
    <2>3. /\ salla \in [Order -> EventOrNone] /\ lane \in [Order -> EventOrNone]
          /\ hs \in [Order -> EventOrNone] /\ index \in [Order -> EventOrNone]
          /\ ledger \in [Order -> EventOrNone] /\ zid \subseteq Order
      BY <2>2, Zenon DEF Init
    <2>4. claim \subseteq [n : DOMAIN sheet, o : Order, k : Event, att : Nat]
          /\ \A r \in claim : sheet[r.n].o = r.o /\ sheet[r.n].k = r.k
      BY DEF Init
    <2>5. /\ ids \in 0..MaxRows /\ Len(sheet) <= ids
          /\ start \in 1..(MaxRows + 1) /\ disk \in 1..(MaxRows + 1)
          /\ faults \in 0..MaxFaults /\ requeues \in 0..MaxRequeues
      BY <2>1, StatusRelayAssumption DEF StatusRelayAssumption, Init
    <2>6. /\ pc = "poll" /\ outcome = "none" /\ doomed = {}
          /\ walked \in BOOLEAN /\ trimmed \in BOOLEAN
      BY DEF Init
    <2> QED
      BY <2>1, <2>3, <2>4, <2>5, <2>6 DEF TypeOK
  <1> QED
    BY <1>1 DEF Init, IInv, NothingBehind, ClaimInv, CursorInv, DecisionInv, WorldInv

\* Every step keeps it, a stuttering step too.
LEMMA Step == IInv /\ [Next]_vars => IInv'
  <1> SUFFICES ASSUME IInv, [Next]_vars PROVE IInv'
    OBVIOUS
  <1>1. CASE Environment
    BY <1>1, EnvironmentStep
  <1>2. CASE \E r \in claim : Handle(r) \/ CallFails(r)
    BY <1>2, HandleStep
  <1>3. CASE TrimNot \/ TrimEnd \/ (\E retry \in BOOLEAN : Poll(retry))
             \/ TrimBegin \/ TrimDelete \/ CycleFails \/ Stop \/ Restart
    BY <1>3, CycleStep
  <1>4. CASE UNCHANGED vars
    BY <1>4 DEF vars, world, hubspot, queue, memory, daily, bounds, IInv, TypeOK,
                NothingBehind, ClaimInv, CursorInv, DecisionInv, WorldInv, InHand
  <1> QED
    BY <1>1, <1>2, <1>3, <1>4 DEF Next, Work

\* The invariant holds in every reachable state.
THEOREM Invariance == Spec => []IInv
  BY Start, Step, PTL DEF Spec

\* Types, and the row in hand is the row that was claimed: it stays where the
\* poll saw it until it is marked (realtime_base.py: run, _maybe_trim).
THEOREM TypeCorrect == Spec => []TypeOK
  <1>1. IInv => TypeOK
    BY DEF IInv
  <1> QED
    BY <1>1, Invariance, PTL

\* No open row is ever behind the cursor, in memory or on disk, through trims,
\* failed cycles and kills (realtime_base.py: _poll, _maybe_trim, _load_state).
THEOREM CursorBehindOpenRows == Spec => []NothingBehind
  <1>1. IInv => NothingBehind
    BY DEF IInv
  <1> QED
    BY <1>1, Invariance, PTL

\* No step takes an order's entry in the ledger back to an older event, a
\* restart least of all (status_relay.py: StatusLedger, handle_row).
THEOREM LedgerOnward == Spec => LedgerForward
  <1>1. IInv /\ [Next]_vars => [\A o \in Order : ledger'[o] >= ledger[o]]_vars
    <2> SUFFICES ASSUME IInv, Next PROVE \A o \in Order : ledger'[o] >= ledger[o]
      OBVIOUS
    <2> USE DEF world, hubspot, queue, memory, daily, bounds
    <2>0. /\ TypeOK /\ DecisionInv
          /\ ledger \in [Order -> EventOrNone]
          /\ \A o \in Order : ledger[o] \in Nat
      <3>1. TypeOK /\ DecisionInv /\ ledger \in [Order -> EventOrNone]
        BY DEF IInv, TypeOK
      <3>2. EventOrNone \subseteq Nat
        BY EventNumbers DEF EventOrNone
      <3> QED
        BY <3>1, <3>2
    <2>1. CASE UNCHANGED ledger
      BY <2>0, <2>1
    <2>2. ASSUME NEW r \in claim, BakedIn(r) PROVE \A o \in Order : ledger'[o] >= ledger[o]
      <3>1. r.o \in Order /\ r.k \in Nat /\ r.k >= ledger[r.o]
        BY <2>0, <2>2, EventNumbers DEF TypeOK, BakedIn, Searching, NewerThanApplied
      <3> QED
        BY <2>0, <2>2, <3>1 DEF BakedIn
    <2>3. ASSUME NEW r \in claim, Record(r) PROVE \A o \in Order : ledger'[o] >= ledger[o]
      <3>1. r.o \in Order /\ r.k \in Nat /\ r.k >= ledger[r.o]
        BY <2>0, <2>3, EventNumbers DEF TypeOK, DecisionInv, Record
      <3> QED
        BY <2>0, <2>3, <3>1 DEF Record
    <2>4. CASE Environment
      <3>1. UNCHANGED ledger
        BY <2>4 DEF Environment, StatusChange, FetchOrder, CreateOrder, Capture, Ripen,
                    Requeue, Reindex, NewDay
      <3> QED
        BY <2>1, <3>1
    <2>5. ASSUME NEW r \in claim,
                 Unmapped(r) \/ Older(r) \/ Absent(r) \/ Patch(r) \/ Mark(r) \/ CallFails(r)
          PROVE  UNCHANGED ledger
      BY <2>5 DEF Unmapped, Older, Absent, Patch, Mark, CallFails
    <2>6. ASSUME TrimNot \/ TrimEnd \/ (\E retry \in BOOLEAN : Poll(retry))
                 \/ TrimBegin \/ TrimDelete \/ CycleFails \/ Stop \/ Restart
          PROVE  UNCHANGED ledger
      BY <2>6 DEF TrimNot, TrimEnd, Poll, TrimBegin, TrimDelete, CycleFails, Stop, Restart
    <2> QED
      BY <2>1, <2>2, <2>3, <2>4, <2>5, <2>6 DEF Next, Work, Handle
  <1> QED
    BY <1>1, Invariance, PTL DEF Spec, LedgerForward

\* If the search shows the stage there is, what it shows stays true.
LEMMA SearchStep == IInv /\ SearchInv /\ [Next]_vars => SearchInv'
  <1> SUFFICES ASSUME IInv, SearchInv, [Next]_vars, ~StaleStage,
                      NEW o \in Order, index'[o] # 0
               PROVE  index'[o] = hs'[o]
    BY DEF SearchInv
  <1> USE DEF world, hubspot, queue, memory, daily, bounds
  <1>0. /\ index[o] # 0 => index[o] = hs[o]
        /\ \A p \in Order : lane[p] # 0 => hs[p] = 0
        /\ \A p \in Order : hs[p] = 0 => index[p] = 0
        /\ hs \in [Order -> EventOrNone]
    BY DEF SearchInv, IInv, WorldInv, TypeOK
  <1>1. CASE UNCHANGED <<hs, index>>
    BY <1>0, <1>1
  <1>2. CASE index' = hs'
    BY <1>2
  <1>3. ASSUME NEW p \in Order, CreateOrder(p) PROVE index'[o] = hs'[o]
    BY <1>0, <1>3 DEF CreateOrder
  <1>4. CASE Environment
    <2>1. ASSUME NEW p \in Order, StatusChange(p) \/ FetchOrder(p) \/ CreateOrder(p)
          PROVE  index'[o] = hs'[o]
      BY <1>1, <1>3, <2>1 DEF StatusChange, FetchOrder
    <2>2. ASSUME (\E p \in Order, k \in Event : Capture(p, k))
                 \/ (\E n \in DOMAIN sheet : Ripen(n) \/ Requeue(n)) \/ NewDay
          PROVE  UNCHANGED <<hs, index>>
      BY <2>2 DEF Capture, Ripen, Requeue, NewDay
    <2>3. CASE Reindex
      BY <2>3 DEF Reindex
    <2> QED
      BY <1>1, <1>4, <2>1, <2>2, <2>3 DEF Environment
  <1>5. ASSUME NEW r \in claim, Handle(r) \/ CallFails(r) PROVE index'[o] = hs'[o]
    <2>1. UNCHANGED <<hs, index>> \/ SetStage(r)
      BY <1>5 DEF Handle, Unmapped, Older, Absent, BakedIn, Patch, Record, Mark, CallFails
    <2> QED
      BY <1>1, <1>2, <2>1 DEF SetStage
  <1>6. ASSUME TrimNot \/ TrimEnd \/ (\E retry \in BOOLEAN : Poll(retry))
               \/ TrimBegin \/ TrimDelete \/ CycleFails \/ Stop \/ Restart
        PROVE  UNCHANGED <<hs, index>>
    BY <1>6 DEF TrimNot, TrimEnd, Poll, TrimBegin, TrimDelete, CycleFails, Stop, Restart,
                NewProcess
  <1>7. CASE UNCHANGED vars
    BY <1>1, <1>7 DEF vars
  <1> QED
    BY <1>1, <1>4, <1>5, <1>6, <1>7 DEF Next, Work

\* As long as the search shows the stage there is, a stage is only moved past
\* what is recorded, and only recorded once it is there.
LEMMA StageStep ==
  IInv /\ SearchInv /\ ~StaleStage /\ StageKept /\ [Next]_vars => StageKept'
  <1> SUFFICES ASSUME IInv, SearchInv, ~StaleStage, StageKept, [Next]_vars,
                      NEW o \in Order, ledger'[o] # 0
               PROVE  \E k \in Event : k >= ledger'[o] /\ Stage[k] = Stage[hs'[o]]
    BY DEF StageKept
  <1> USE DEF world, hubspot, queue, memory, daily, bounds
  <1> DEFINE Goal == \E k \in Event : k >= ledger'[o] /\ Stage[k] = Stage[hs'[o]]
  <1>0. /\ TypeOK /\ DecisionInv
        /\ hs \in [Order -> EventOrNone] /\ ledger \in [Order -> EventOrNone]
        /\ \A p \in Order : index[p] # 0 => index[p] = hs[p]
        /\ \A p \in Order : lane[p] # 0 => hs[p] = 0
        /\ \A p \in Order : hs[p] = 0 => ledger[p] = 0
    BY DEF IInv, TypeOK, SearchInv, WorldInv
  <1>1. CASE hs'[o] = hs[o] /\ ledger'[o] = ledger[o]
    BY <1>1 DEF StageKept
  <1>2. ASSUME NEW k \in Event, k >= ledger'[o], hs'[o] = k \/ Stage[hs'[o]] = Stage[k]
        PROVE  Goal
    BY <1>2
  <1>3. CASE UNCHANGED <<hs, ledger>>
    BY <1>1, <1>3
  <1>4. ASSUME NEW r \in claim PROVE r.o \in Order /\ r.k \in Event /\ r.k \in Nat
    BY <1>0, <1>4, EventNumbers DEF TypeOK
  <1>5. ASSUME NEW p \in Order, CreateOrder(p) PROVE Goal
    <2>1. o # p
      BY <1>0, <1>5 DEF CreateOrder
    <2> QED
      BY <1>0, <1>1, <1>5, <2>1 DEF CreateOrder
  <1>6. ASSUME NEW r \in claim, SetStage(r), Searching(r), UNCHANGED ledger PROVE Goal
    <2>1. CASE o = r.o
      <3>1. hs'[o] = r.k /\ r.k >= ledger'[o]
        BY <1>0, <1>6, <2>1 DEF SetStage, Searching, NewerThanApplied
      <3> QED
        BY <1>2, <1>4, <3>1
    <2>2. CASE o # r.o
      BY <1>0, <1>1, <1>4, <1>6, <2>2 DEF SetStage
    <2> QED
      BY <2>1, <2>2
  <1>7. ASSUME NEW r \in claim, BakedIn(r) PROVE Goal
    <2>1. CASE o = r.o
      <3>1. ledger'[o] = r.k /\ Stage[hs'[o]] = Stage[r.k]
        BY <1>0, <1>4, <1>7, <2>1 DEF BakedIn
      <3> QED
        BY <1>2, <1>4, <3>1
    <2>2. CASE o # r.o
      BY <1>0, <1>1, <1>4, <1>7, <2>2 DEF BakedIn
    <2> QED
      BY <2>1, <2>2
  <1>8. ASSUME NEW r \in claim, Record(r) PROVE Goal
    <2>1. CASE o = r.o
      <3>1. ledger'[o] = r.k /\ hs'[o] = r.k
        BY <1>0, <1>4, <1>8, <2>1 DEF Record, DecisionInv
      <3> QED
        BY <1>2, <1>4, <3>1
    <2>2. CASE o # r.o
      BY <1>0, <1>1, <1>4, <1>8, <2>2 DEF Record
    <2> QED
      BY <2>1, <2>2
  <1>9. CASE Environment
    <2>1. ASSUME NEW p \in Order, StatusChange(p)
    \/ FetchOrder(p) PROVE UNCHANGED <<hs, ledger>>
      BY <2>1 DEF StatusChange, FetchOrder
    <2>2. ASSUME (\E p \in Order, k \in Event : Capture(p, k))
                 \/ (\E n \in DOMAIN sheet : Ripen(n) \/ Requeue(n)) \/ NewDay \/ Reindex
          PROVE  UNCHANGED <<hs, ledger>>
      BY <2>2 DEF Capture, Ripen, Requeue, NewDay, Reindex
    <2> QED
      BY <1>3, <1>5, <1>9, <2>1, <2>2 DEF Environment
  <1>10. ASSUME NEW r \in claim, Handle(r) \/ CallFails(r) PROVE Goal
    <2>1. CASE Unmapped(r) \/ Older(r) \/ Absent(r) \/ Mark(r)
      BY <1>3, <2>1 DEF Unmapped, Older, Absent, Mark
    <2>2. CASE Patch(r)
      BY <1>6, <2>2 DEF Patch, Patching
    <2>3. CASE CallFails(r)
      BY <1>3, <1>6, <2>3 DEF CallFails, Patching
    <2> QED
      BY <1>7, <1>8, <1>10, <2>1, <2>2, <2>3 DEF Handle
  <1>11. ASSUME TrimNot \/ TrimEnd \/ (\E retry \in BOOLEAN : Poll(retry))
                \/ TrimBegin \/ TrimDelete \/ CycleFails \/ Stop \/ Restart
         PROVE  UNCHANGED <<hs, ledger>>
    BY <1>11 DEF TrimNot, TrimEnd, Poll, TrimBegin, TrimDelete, CycleFails, Stop, Restart,
                 NewProcess
  <1>12. CASE UNCHANGED vars
    BY <1>3, <1>12 DEF vars
  <1>13. (\E r \in claim : Handle(r) \/ CallFails(r)) => Goal
    BY <1>10
  <1>14. \/ Environment
         \/ \E r \in claim : Handle(r) \/ CallFails(r)
         \/ TrimNot \/ TrimEnd \/ (\E retry \in BOOLEAN : Poll(retry))
         \/ TrimBegin \/ TrimDelete \/ CycleFails \/ Stop \/ Restart
         \/ UNCHANGED vars
    BY DEF Next, Work
  <1> QED
    BY <1>3, <1>9, <1>11, <1>12, <1>13, <1>14, Zenon

\* Where the search does not lag, HubSpot's stage is never older than the last
\* event recorded as applied, in any order of rows, through kills and failed
\* calls (status_relay.py: handle_row).
THEOREM StageIsKept == ~StaleStage => (Spec => []StageKept)
  <1> SUFFICES ASSUME ~StaleStage PROVE Spec => []StageKept
    OBVIOUS
  <1>1. Init => SearchInv /\ StageKept
    BY DEF Init, SearchInv, StageKept
  <1>2. IInv /\ (SearchInv /\ StageKept) /\ [Next]_vars => (SearchInv /\ StageKept)'
    BY SearchStep, StageStep
  <1> QED
    BY <1>1, <1>2, Invariance, PTL DEF Spec

=============================================================================

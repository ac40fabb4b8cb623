-------------------------- MODULE OrderSync_proof --------------------------
(***************************************************************************)
(* Proofs about OrderSync: for any number of orders, items and lanes, and  *)
(* any faults, what a lane writes is written under a number the Salla      *)
(* order holds, and a row is done only for an order on record. The         *)
(* argument is Safe: which step a lane is at tells whose number it is      *)
(* (Ours) and what has been recorded (Recorded), and InHand ties what the  *)
(* lane remembers to the step it is at.                                    *)
(*                                                                         *)
(* A ledgered order lacks only what HubSpot refused (Accounted) under what *)
(* the runs of OrderSync show to be needed: plain products, no association *)
(* write that fails unseen and a relay that answers. There the argument is *)
(* Looped, a lane's account of what it is through with, and Alone: nobody  *)
(* else resets the status of an order in the middle of its create.         *)
(***************************************************************************)
EXTENDS OrderSync, FiniteSetTheorems, TLAPS

\* The line a lane is at is one of the order's.
LEMMA LineInHand ==
  ASSUME InHand, NEW l \in Lane, lane[l].pc \in {"line", "flag", "link"}
  PROVE  lane[l].line \in AllLines /\ Oid(l) \in Order
<1>1. PICK i \in Item : lane[l].line \in LinesOf(i)
  BY DEF InHand
<1> QED
  BY <1>1 DEF InHand, AllLines, At

\* Lane l goes on to r: the loop, or another line of the same bundle.
Onward(l, r) ==
    /\ lane' = [lane EXCEPT ![l] = r]
    /\ r.pc \in {"loop", "line"}
    /\ r.oid = lane[l].oid /\ r.way = lane[l].way /\ r.todo = lane[l].todo
    /\ r.err = lane[l].err
    /\ r.pc = "line" =>
         /\ r.line[1] = lane[l].line[1] /\ lane[l].comps # {}
         /\ \E i \in Item : r.line \in LinesOf(i) /\ r.comps \subseteq Comps[i]

\* NextLine leaves the order, the items to come and the failures as they are, and
\* a line that follows is a component of a bundle.
LEMMA NextLineKeeps ==
  ASSUME TypeOK, InHand, NEW l \in Lane, lane[l].pc \in {"line", "flag", "link"}, NextLine(l)
  PROVE  \E r \in LaneState : Onward(l, r)
<1>0. lane[l] \in LaneState
  BY DEF TypeOK
<1>1. CASE lane' = [lane EXCEPT ![l].pc = "loop", ![l].line = Idle.line]
  <2> DEFINE r == [lane[l] EXCEPT !.pc = "loop", !.line = Idle.line]
  <2>1. r \in LaneState
    BY <1>0 DEF LaneState, Pcs, Line, Idle
  <2>2. /\ lane' = [lane EXCEPT ![l] = r] /\ r.pc = "loop" /\ r.oid = lane[l].oid
        /\ r.way = lane[l].way /\ r.todo = lane[l].todo /\ r.err = lane[l].err
    BY <1>0, <1>1 DEF LaneState
  <2> QED
    BY <2>1, <2>2 DEF Onward
<1>2. ASSUME NEW c \in lane[l].comps,
             lane' = [lane EXCEPT ![l].pc = "line", ![l].line = <<lane[l].line[1], c>>,
                                  ![l].comps = @ \ {c}]
      PROVE  \E s \in LaneState : Onward(l, s)
  <2> DEFINE r == [lane[l] EXCEPT !.pc = "line", !.line = <<lane[l].line[1], c>>,
                                  !.comps = @ \ {c}]
  <2>1. PICK i \in Item : lane[l].line \in LinesOf(i) /\ lane[l].comps \subseteq Comps[i]
    BY DEF InHand
  <2>2. <<lane[l].line[1], c>> \in LinesOf(i)
    BY <2>1 DEF LinesOf
  <2>3. <<lane[l].line[1], c>> \in Line
    BY <2>2 DEF Line, AllLines
  <2>4. r \in LaneState
    BY <1>0, <2>3 DEF LaneState, Pcs
  <2>5. /\ lane' = [lane EXCEPT ![l] = r] /\ r.pc = "line" /\ r.oid = lane[l].oid
        /\ r.way = lane[l].way /\ r.todo = lane[l].todo /\ r.err = lane[l].err
        /\ r.line = <<lane[l].line[1], c>> /\ r.comps = lane[l].comps \ {c}
    BY <1>0, <1>2 DEF LaneState
  <2>6. r.line[1] = lane[l].line[1] /\ lane[l].comps # {} /\ r.comps \subseteq Comps[i]
    BY <2>1, <2>5
  <2>7. r.line \in LinesOf(i)
    BY <2>2, <2>5
  <2> HIDE DEF r
  <2> QED
    BY <2>1, <2>4, <2>5, <2>6, <2>7 DEF Onward
<1> QED
  BY <1>1, <1>2 DEF NextLine

\* Every step keeps the types.
LEMMA TypeStep == TypeOK /\ InHand /\ [Next]_vars => TypeOK'
<1> SUFFICES ASSUME TypeOK, InHand, [Next]_vars PROVE TypeOK'
    OBVIOUS
<1>0. \A l \in Lane : lane[l].pc \in {"line", "flag", "link"} /\ NextLine(l) =>
         \E r \in LaneState : Onward(l, r)
    BY NextLineKeeps
<1> USE OrderSyncAssumption DEF TypeOK, InHand, Pcs, RowStates, LaneState, Line, Idle,
        NoOrder, NoItem, Lane, At, Goto, Oid, Fault, Outcome, Flag, hubspot, queue, status
<1>1. ASSUME NEW l \in Lane, LedgerHit(l) PROVE TypeOK'
    BY <1>1 DEF LedgerHit
<1>2. ASSUME NEW l \in Lane, Search(l) PROVE TypeOK'
    BY <1>2 DEF Search, AfterSearch, Hits
<1>3. ASSUME NEW l \in Lane, Rekey(l) PROVE TypeOK'
    BY <1>3 DEF Rekey
<1>4. ASSUME NEW l \in Lane, Verify(l) PROVE TypeOK'
    BY <1>4 DEF Verify, Judge, CountComplete, ItemKeys
<1>5. ASSUME NEW l \in Lane, Count(l) PROVE TypeOK'
    BY <1>5 DEF Count, Judge, CountComplete, ItemKeys
<1>6. ASSUME NEW l \in Lane, Fetch(l) PROVE TypeOK'
    BY <1>6 DEF Fetch
<1>7. ASSUME NEW l \in Lane, FetchMiss(l) PROVE TypeOK'
    BY <1>7 DEF FetchMiss
<1>8. ASSUME NEW l \in Lane, FetchFails(l) PROVE TypeOK'
    BY <1>8 DEF FetchFails
<1>9. ASSUME NEW l \in Lane, Gate(l) PROVE TypeOK'
    BY <1>9 DEF Gate
<1>10. ASSUME NEW l \in Lane, Create(l) PROVE TypeOK'
    BY <1>10 DEF Create
<1>11. ASSUME NEW l \in Lane, CreateFails(l) PROVE TypeOK'
    BY <1>11 DEF CreateFails
<1>12. ASSUME NEW l \in Lane, Duplicate(l) PROVE TypeOK'
    BY <1>12 DEF Duplicate, Resolved, HolderOf, Hits
<1>13. ASSUME NEW l \in Lane, Present(l) PROVE TypeOK'
  <2>1. lane' \in [Lane -> LaneState]
    <3>1. Missing(Oid(l)) \in SUBSET Item
      BY DEF Missing
    <3>2. CASE lane' = [lane EXCEPT ![l].pc = "loop", ![l].todo = Missing(Oid(l))]
      BY <3>1, <3>2
    <3>3. CASE NotAttempted(l)
      BY <3>3 DEF NotAttempted
    <3>4. CASE FoundWhole(l)
      BY <3>4 DEF FoundWhole
    <3>5. CASE lane' = [lane EXCEPT ![l] = Idle]
      BY <3>5
    <3> QED
      BY <1>13, <3>2, <3>3, <3>4, <3>5 DEF Present
  <2> QED
    BY <1>13, <2>1 DEF Present, NotAttempted
<1>14. ASSUME NEW l \in Lane, Reread(l) PROVE TypeOK'
    BY <1>14 DEF Reread, FoundWhole, Missing, OnOrder, ItemKeys
<1>15. ASSUME NEW l \in Lane, StartItem(l) PROVE TypeOK'
    BY <1>15 DEF StartItem
<1>16. ASSUME NEW l \in Lane, ItemRaises(l) PROVE TypeOK'
  <2>1. PICK i \in lane[l].todo :
           lane' = [lane EXCEPT ![l].todo = @ \ {i}, ![l].err = TRUE]
    BY <1>16 DEF ItemRaises
  <2>2. [lane[l] EXCEPT !.todo = @ \ {i}, !.err = TRUE] \in LaneState
    <3>1. lane[l] \in LaneState
      BY DEF TypeOK
    <3> QED
      BY <3>1 DEF LaneState
  <2>3. lane' \in [Lane -> LaneState]
    BY <2>1, <2>2
  <2> QED
    BY <1>16, <2>3 DEF ItemRaises
<1>17. ASSUME NEW l \in Lane, MakeLine(l) PROVE TypeOK'
  <2>1. lane[l].line \in AllLines /\ Oid(l) \in Order
    BY <1>17, LineInHand DEF MakeLine
  <2> QED
    BY <1>17, <2>1 DEF MakeLine
<1>18. ASSUME NEW l \in Lane, RefuseLine(l) PROVE TypeOK'
  <2>1. lane[l].line \in AllLines /\ Oid(l) \in Order
    BY <1>18, LineInHand DEF RefuseLine
  <2> QED
    BY <1>18, <2>1 DEF RefuseLine
<1>19. ASSUME NEW l \in Lane, Link(l) PROVE TypeOK'
  <2>1. lane' \in [Lane -> LaneState]
    <3>1. PICK r \in LaneState : Onward(l, r)
      BY <1>19, <1>0 DEF Link
    <3> QED
      BY <3>1 DEF Onward
  <2>2. lane[l].line \in AllLines /\ Oid(l) \in Order
    BY <1>19, LineInHand DEF Link
  <2> QED
    BY <1>19, <2>1, <2>2 DEF Link
<1>20. ASSUME NEW l \in Lane, ComponentsRaise(l) PROVE TypeOK'
    BY <1>20 DEF ComponentsRaise
<1>21. ASSUME NEW l \in Lane, Finish(l) PROVE TypeOK'
    BY <1>21 DEF Finish
<1>22. ASSUME NEW l \in Lane, Settle(l) PROVE TypeOK'
    BY <1>22 DEF Settle
<1>23. ASSUME NEW l \in Lane, Mark(l) PROVE TypeOK'
    BY <1>23 DEF Mark
<1>24. ASSUME NEW l \in Lane, NEW o \in Order, Claim(l, o) PROVE TypeOK'
    BY <1>24 DEF Claim, Claimable
<1>25. ASSUME NEW l \in Lane, NEW o \in Order, ScanSkip(l, o) PROVE TypeOK'
    BY <1>25 DEF ScanSkip, Hits
<1>26. ASSUME NEW l \in Lane, NEW o \in Order, ScanNew(l, o) PROVE TypeOK'
    BY <1>26 DEF ScanNew, Hits
<1>27. ASSUME NEW engine \in {Live, Backfill}, Crash(engine) PROVE TypeOK'
    BY <1>27 DEF Crash
<1>28. ASSUME NEW o \in Order, SettleHeld(o) PROVE TypeOK'
    BY <1>28 DEF SettleHeld
<1>29. ASSUME NEW o \in Order, Reindex(o) PROVE TypeOK'
    BY <1>29 DEF Reindex
<1>30. ASSUME NEW o \in Order, Approve(o) PROVE TypeOK'
    BY <1>30 DEF Approve
<1>31. ASSUME NEW o \in Order, Withdraw(o) PROVE TypeOK'
    BY <1>31 DEF Withdraw
<1>32. CASE UNCHANGED vars
    BY <1>32 DEF vars, hubspot, queue, status
<1>33. ASSUME NEW l \in Lane, SetSynced(l) PROVE TypeOK'
    BY <1>33 DEF SetSynced
<1>34. ASSUME NEW l \in Lane, FlagPartial(l) PROVE TypeOK'
  <2>1. lane' \in [Lane -> LaneState]
    <3>1. CASE lane[l].line[2] = Whole
      BY <1>34, <3>1 DEF FlagPartial
    <3>2. CASE lane[l].line[2] # Whole
      <4>1. PICK r \in LaneState : Onward(l, r)
        BY <1>34, <3>2, <1>0 DEF FlagPartial
      <4> QED
        BY <4>1 DEF Onward
    <3> QED
      BY <3>1, <3>2
  <2> QED
    BY <1>34, <2>1 DEF FlagPartial
<1> QED
    BY <1>1, <1>2, <1>3, <1>4, <1>5, <1>6, <1>7, <1>8, <1>9, <1>10, <1>11, <1>12, <1>13,
       <1>14, <1>15, <1>16, <1>17, <1>18, <1>19, <1>20, <1>21, <1>22, <1>23, <1>24, <1>25,
       <1>26, <1>27, <1>28, <1>29, <1>30, <1>31, <1>32, <1>33,
       <1>34 DEF Next, Work

\* Every step keeps a lane's memory in line with its step.
LEMMA InHandStep == TypeOK /\ InHand /\ [Next]_vars => InHand'
<1> SUFFICES ASSUME TypeOK, InHand, [Next]_vars PROVE InHand'
    OBVIOUS
<1>0. \A l \in Lane : lane[l].pc \in {"line", "flag", "link"} /\ NextLine(l) =>
         \E r \in LaneState : Onward(l, r)
    BY NextLineKeeps
<1> USE OrderSyncAssumption DEF TypeOK, InHand, Pcs, LaneState, Idle, NoOrder, NoItem, Lane,
        LinesOf, At, Goto, Oid, Fault, Outcome, Flag, hubspot, queue, status
<1>1. ASSUME NEW l \in Lane, LedgerHit(l) PROVE InHand'
    BY <1>1 DEF LedgerHit
<1>2. ASSUME NEW l \in Lane, Search(l) PROVE InHand'
    BY <1>2 DEF Search, AfterSearch, Hits
<1>3. ASSUME NEW l \in Lane, Rekey(l) PROVE InHand'
    BY <1>3 DEF Rekey
<1>4. ASSUME NEW l \in Lane, Verify(l) PROVE InHand'
    BY <1>4 DEF Verify, Judge, CountComplete, ItemKeys
<1>5. ASSUME NEW l \in Lane, Count(l) PROVE InHand'
    BY <1>5 DEF Count, Judge, CountComplete, ItemKeys
<1>6. ASSUME NEW l \in Lane, Fetch(l) PROVE InHand'
    BY <1>6 DEF Fetch
<1>7. ASSUME NEW l \in Lane, FetchMiss(l) PROVE InHand'
    BY <1>7 DEF FetchMiss
<1>8. ASSUME NEW l \in Lane, FetchFails(l) PROVE InHand'
    BY <1>8 DEF FetchFails
<1>9. ASSUME NEW l \in Lane, Gate(l) PROVE InHand'
    BY <1>9 DEF Gate
<1>10. ASSUME NEW l \in Lane, Create(l) PROVE InHand'
    BY <1>10 DEF Create
<1>11. ASSUME NEW l \in Lane, CreateFails(l) PROVE InHand'
    BY <1>11 DEF CreateFails
<1>12. ASSUME NEW l \in Lane, Duplicate(l) PROVE InHand'
    BY <1>12 DEF Duplicate, Resolved, HolderOf, Hits
<1>13. ASSUME NEW l \in Lane, Present(l) PROVE InHand'
    BY <1>13 DEF Present, FoundWhole, NotAttempted, Missing, OnOrder, ItemKeys
<1>14. ASSUME NEW l \in Lane, Reread(l) PROVE InHand'
    BY <1>14 DEF Reread, FoundWhole, Missing, OnOrder, ItemKeys
<1>15. ASSUME NEW l \in Lane, StartItem(l) PROVE InHand'
    BY <1>15 DEF StartItem
<1>16. ASSUME NEW l \in Lane, ItemRaises(l) PROVE InHand'
    BY <1>16 DEF ItemRaises
<1>17. ASSUME NEW l \in Lane, MakeLine(l) PROVE InHand'
    BY <1>17 DEF MakeLine
<1>18. ASSUME NEW l \in Lane, RefuseLine(l) PROVE InHand'
    BY <1>18 DEF RefuseLine
<1>19. ASSUME NEW l \in Lane, Link(l) PROVE InHand'
  <2>1. PICK r \in LaneState : Onward(l, r)
    BY <1>19, <1>0 DEF Link
  <2> QED
    BY <1>19, <2>1 DEF Link, Onward
<1>20. ASSUME NEW l \in Lane, ComponentsRaise(l) PROVE InHand'
  <2>1. /\ lane' = [lane EXCEPT ![l].pc = "loop", ![l].line = Idle.line, ![l].comps = {},
                                ![l].err = TRUE]
        /\ At(l, "link")
    BY <1>20 DEF ComponentsRaise
  <2>2. lane'[l].pc = "loop" /\ lane'[l].oid = lane[l].oid
    BY <2>1
  <2>3. \A m \in Lane : m # l => lane'[m] = lane[m]
    BY <2>1
  <2> QED
    BY <2>1, <2>2, <2>3
<1>21. ASSUME NEW l \in Lane, Finish(l) PROVE InHand'
    BY <1>21 DEF Finish
<1>22. ASSUME NEW l \in Lane, Settle(l) PROVE InHand'
  <2>1. lane'[l].pc = "mark" /\ lane'[l].oid = lane[l].oid /\ lane'[l].out = "done"
    BY <1>22 DEF Settle
  <2>2. \A m \in Lane : m # l => lane'[m] = lane[m]
    BY <1>22 DEF Settle
  <2>3. lane[l].oid \in Order
    BY <1>22 DEF Settle
  <2> QED
    BY <2>1, <2>2, <2>3
<1>23. ASSUME NEW l \in Lane, Mark(l) PROVE InHand'
    BY <1>23 DEF Mark
<1>24. ASSUME NEW l \in Lane, NEW o \in Order, Claim(l, o) PROVE InHand'
    BY <1>24 DEF Claim, Claimable
<1>25. ASSUME NEW l \in Lane, NEW o \in Order, ScanSkip(l, o) PROVE InHand'
    BY <1>25 DEF ScanSkip, Hits
<1>26. ASSUME NEW l \in Lane, NEW o \in Order, ScanNew(l, o) PROVE InHand'
    BY <1>26 DEF ScanNew, Hits
<1>27. ASSUME NEW engine \in {Live, Backfill}, Crash(engine) PROVE InHand'
    BY <1>27 DEF Crash
<1>28. ASSUME NEW o \in Order, SettleHeld(o) PROVE InHand'
    BY <1>28 DEF SettleHeld
<1>29. ASSUME NEW o \in Order, Reindex(o) PROVE InHand'
    BY <1>29 DEF Reindex
<1>30. ASSUME NEW o \in Order, Approve(o) PROVE InHand'
    BY <1>30 DEF Approve
<1>31. ASSUME NEW o \in Order, Withdraw(o) PROVE InHand'
    BY <1>31 DEF Withdraw
<1>32. CASE UNCHANGED vars
    BY <1>32 DEF vars, hubspot, queue, status
<1>33. ASSUME NEW l \in Lane, SetSynced(l) PROVE InHand'
    BY <1>33 DEF SetSynced
<1>34. ASSUME NEW l \in Lane, FlagPartial(l) PROVE InHand'
  <2>1. CASE lane[l].line[2] = Whole
    BY <1>34, <2>1 DEF FlagPartial
  <2>2. CASE lane[l].line[2] # Whole
    <3>1. PICK r \in LaneState : Onward(l, r)
      BY <1>34, <2>2, <1>0 DEF FlagPartial
    <3> QED
      BY <1>34, <3>1 DEF FlagPartial, Onward
  <2> QED
    BY <2>1, <2>2
<1> QED
    BY <1>1, <1>2, <1>3, <1>4, <1>5, <1>6, <1>7, <1>8, <1>9, <1>10, <1>11, <1>12, <1>13,
       <1>14, <1>15, <1>16, <1>17, <1>18, <1>19, <1>20, <1>21, <1>22, <1>23, <1>24, <1>25,
       <1>26, <1>27, <1>28, <1>29, <1>30, <1>31, <1>32, <1>33,
       <1>34 DEF Next, Work

\* A lane is past the create or the verification only when the Salla order holds
\* the number: nothing takes the number away from it, and the search never runs
\* ahead of the records.
LEMMA OursStep == TypeOK /\ InHand /\ Ours /\ OnlyOurOrder /\ [Next]_vars => Ours'
<1> SUFFICES ASSUME TypeOK, InHand, Ours, OnlyOurOrder, [Next]_vars PROVE Ours'
    OBVIOUS
<1>0. \A l \in Lane : lane[l].pc \in {"line", "flag", "link"} /\ NextLine(l) =>
         \E r \in LaneState : Onward(l, r)
    BY NextLineKeeps
<1> USE OrderSyncAssumption DEF TypeOK, InHand, Ours, OnlyOurOrder, Pcs, LaneState, Idle,
        NoOrder, NoItem, Lane, At, Goto, Oid, Fault, Outcome, Flag, hubspot, queue, status
<1>1. ASSUME NEW l \in Lane, LedgerHit(l) PROVE Ours'
    BY <1>1 DEF LedgerHit
<1>2. ASSUME NEW l \in Lane, Search(l) PROVE Ours'
    BY <1>2 DEF Search, AfterSearch, Hits
<1>3. ASSUME NEW l \in Lane, Rekey(l) PROVE Ours'
    BY <1>3 DEF Rekey
<1>4. ASSUME NEW l \in Lane, Verify(l) PROVE Ours'
    BY <1>4 DEF Verify, Judge, CountComplete, ItemKeys
<1>5. ASSUME NEW l \in Lane, Count(l) PROVE Ours'
    BY <1>5 DEF Count, Judge, CountComplete, ItemKeys
<1>6. ASSUME NEW l \in Lane, Fetch(l) PROVE Ours'
    BY <1>6 DEF Fetch
<1>7. ASSUME NEW l \in Lane, FetchMiss(l) PROVE Ours'
    BY <1>7 DEF FetchMiss
<1>8. ASSUME NEW l \in Lane, FetchFails(l) PROVE Ours'
    BY <1>8 DEF FetchFails
<1>9. ASSUME NEW l \in Lane, Gate(l) PROVE Ours'
    BY <1>9 DEF Gate
<1>10. ASSUME NEW l \in Lane, Create(l) PROVE Ours'
    BY <1>10 DEF Create
<1>11. ASSUME NEW l \in Lane, CreateFails(l) PROVE Ours'
    BY <1>11 DEF CreateFails
<1>12. ASSUME NEW l \in Lane, Duplicate(l) PROVE Ours'
    BY <1>12 DEF Duplicate, Resolved, HolderOf, Hits
<1>13. ASSUME NEW l \in Lane, Present(l) PROVE Ours'
    BY <1>13 DEF Present, FoundWhole, NotAttempted, Missing, OnOrder, ItemKeys
<1>14. ASSUME NEW l \in Lane, Reread(l) PROVE Ours'
    BY <1>14 DEF Reread, FoundWhole, Missing, OnOrder, ItemKeys
<1>15. ASSUME NEW l \in Lane, StartItem(l) PROVE Ours'
    BY <1>15 DEF StartItem
<1>16. ASSUME NEW l \in Lane, ItemRaises(l) PROVE Ours'
    BY <1>16 DEF ItemRaises
<1>17. ASSUME NEW l \in Lane, MakeLine(l) PROVE Ours'
    BY <1>17 DEF MakeLine
<1>18. ASSUME NEW l \in Lane, RefuseLine(l) PROVE Ours'
    BY <1>18 DEF RefuseLine
<1>19. ASSUME NEW l \in Lane, Link(l) PROVE Ours'
  <2>1. PICK r \in LaneState : Onward(l, r)
    BY <1>19, <1>0 DEF Link
  <2> QED
    BY <1>19, <2>1 DEF Link, Onward
<1>20. ASSUME NEW l \in Lane, ComponentsRaise(l) PROVE Ours'
    BY <1>20 DEF ComponentsRaise
<1>21. ASSUME NEW l \in Lane, Finish(l) PROVE Ours'
    BY <1>21 DEF Finish
<1>22. ASSUME NEW l \in Lane, Settle(l) PROVE Ours'
    BY <1>22 DEF Settle
<1>23. ASSUME NEW l \in Lane, Mark(l) PROVE Ours'
    BY <1>23 DEF Mark
<1>24. ASSUME NEW l \in Lane, NEW o \in Order, Claim(l, o) PROVE Ours'
    BY <1>24 DEF Claim, Claimable
<1>25. ASSUME NEW l \in Lane, NEW o \in Order, ScanSkip(l, o) PROVE Ours'
    BY <1>25 DEF ScanSkip, Hits
<1>26. ASSUME NEW l \in Lane, NEW o \in Order, ScanNew(l, o) PROVE Ours'
    BY <1>26 DEF ScanNew, Hits
<1>27. ASSUME NEW engine \in {Live, Backfill}, Crash(engine) PROVE Ours'
    BY <1>27 DEF Crash
<1>28. ASSUME NEW o \in Order, SettleHeld(o) PROVE Ours'
    BY <1>28 DEF SettleHeld
<1>29. ASSUME NEW o \in Order, Reindex(o) PROVE Ours'
    BY <1>29 DEF Reindex
<1>30. ASSUME NEW o \in Order, Approve(o) PROVE Ours'
    BY <1>30 DEF Approve
<1>31. ASSUME NEW o \in Order, Withdraw(o) PROVE Ours'
    BY <1>31 DEF Withdraw
<1>32. CASE UNCHANGED vars
    BY <1>32 DEF vars, hubspot, queue, status
<1>33. ASSUME NEW l \in Lane, SetSynced(l) PROVE Ours'
    BY <1>33 DEF SetSynced
<1>34. ASSUME NEW l \in Lane, FlagPartial(l) PROVE Ours'
  <2>1. CASE lane[l].line[2] = Whole
    BY <1>34, <2>1 DEF FlagPartial
  <2>2. CASE lane[l].line[2] # Whole
    <3>1. PICK r \in LaneState : Onward(l, r)
      BY <1>34, <2>2, <1>0 DEF FlagPartial
    <3> QED
      BY <1>34, <3>1 DEF FlagPartial, Onward
  <2> QED
    BY <2>1, <2>2
<1> QED
    BY <1>1, <1>2, <1>3, <1>4, <1>5, <1>6, <1>7, <1>8, <1>9, <1>10, <1>11, <1>12, <1>13,
       <1>14, <1>15, <1>16, <1>17, <1>18, <1>19, <1>20, <1>21, <1>22, <1>23, <1>24, <1>25,
       <1>26, <1>27, <1>28, <1>29, <1>30, <1>31, <1>32, <1>33,
       <1>34 DEF Next, Work

\* So what is written under the number is the Salla order's (create_line_item,
\* associate, the ledger append, queue_mark).
LEMMA OnlyOurOrderStep == TypeOK /\ InHand /\ Ours /\ OnlyOurOrder /\ [Next]_vars => OnlyOurOrder'
<1> SUFFICES ASSUME TypeOK, InHand, Ours, OnlyOurOrder, [Next]_vars PROVE OnlyOurOrder'
    OBVIOUS
<1>0. \A l \in Lane : lane[l].pc \in {"line", "flag", "link"} /\ NextLine(l) =>
         \E r \in LaneState : Onward(l, r)
    BY NextLineKeeps
<1> USE OrderSyncAssumption DEF TypeOK, LinesOf, InHand, Ours, OnlyOurOrder, Pcs, LaneState,
        Idle, NoOrder, NoItem, Lane, At, Goto, Oid, Fault, Outcome, Flag, hubspot, queue, status
<1>1. ASSUME NEW l \in Lane, LedgerHit(l) PROVE OnlyOurOrder'
    BY <1>1 DEF LedgerHit
<1>2. ASSUME NEW l \in Lane, Search(l) PROVE OnlyOurOrder'
    BY <1>2 DEF Search, AfterSearch, Hits
<1>3. ASSUME NEW l \in Lane, Rekey(l) PROVE OnlyOurOrder'
    BY <1>3 DEF Rekey
<1>4. ASSUME NEW l \in Lane, Verify(l) PROVE OnlyOurOrder'
    BY <1>4 DEF Verify, Judge, CountComplete, ItemKeys
<1>5. ASSUME NEW l \in Lane, Count(l) PROVE OnlyOurOrder'
    BY <1>5 DEF Count, Judge, CountComplete, ItemKeys
<1>6. ASSUME NEW l \in Lane, Fetch(l) PROVE OnlyOurOrder'
    BY <1>6 DEF Fetch
<1>7. ASSUME NEW l \in Lane, FetchMiss(l) PROVE OnlyOurOrder'
    BY <1>7 DEF FetchMiss
<1>8. ASSUME NEW l \in Lane, FetchFails(l) PROVE OnlyOurOrder'
    BY <1>8 DEF FetchFails
<1>9. ASSUME NEW l \in Lane, Gate(l) PROVE OnlyOurOrder'
    BY <1>9 DEF Gate
<1>10. ASSUME NEW l \in Lane, Create(l) PROVE OnlyOurOrder'
    BY <1>10 DEF Create
<1>11. ASSUME NEW l \in Lane, CreateFails(l) PROVE OnlyOurOrder'
    BY <1>11 DEF CreateFails
<1>12. ASSUME NEW l \in Lane, Duplicate(l) PROVE OnlyOurOrder'
    BY <1>12 DEF Duplicate, Resolved, HolderOf, Hits
<1>13. ASSUME NEW l \in Lane, Present(l) PROVE OnlyOurOrder'
    BY <1>13 DEF Present, FoundWhole, NotAttempted, Missing, OnOrder, ItemKeys
<1>14. ASSUME NEW l \in Lane, Reread(l) PROVE OnlyOurOrder'
    BY <1>14 DEF Reread, FoundWhole, Missing, OnOrder, ItemKeys
<1>15. ASSUME NEW l \in Lane, StartItem(l) PROVE OnlyOurOrder'
    BY <1>15 DEF StartItem
<1>16. ASSUME NEW l \in Lane, ItemRaises(l) PROVE OnlyOurOrder'
    BY <1>16 DEF ItemRaises
<1>17. ASSUME NEW l \in Lane, MakeLine(l) PROVE OnlyOurOrder'
    BY <1>17 DEF MakeLine
<1>18. ASSUME NEW l \in Lane, RefuseLine(l) PROVE OnlyOurOrder'
    BY <1>18 DEF RefuseLine
<1>19. ASSUME NEW l \in Lane, Link(l) PROVE OnlyOurOrder'
  <2>1. PICK r \in LaneState : Onward(l, r)
    BY <1>19, <1>0 DEF Link
  <2> QED
    BY <1>19, <2>1 DEF Link, Onward
<1>20. ASSUME NEW l \in Lane, ComponentsRaise(l) PROVE OnlyOurOrder'
    BY <1>20 DEF ComponentsRaise
<1>21. ASSUME NEW l \in Lane, Finish(l) PROVE OnlyOurOrder'
    BY <1>21 DEF Finish
<1>22. ASSUME NEW l \in Lane, Settle(l) PROVE OnlyOurOrder'
    BY <1>22 DEF Settle
<1>23. ASSUME NEW l \in Lane, Mark(l) PROVE OnlyOurOrder'
    BY <1>23 DEF Mark
<1>24. ASSUME NEW l \in Lane, NEW o \in Order, Claim(l, o) PROVE OnlyOurOrder'
    BY <1>24 DEF Claim, Claimable
<1>25. ASSUME NEW l \in Lane, NEW o \in Order, ScanSkip(l, o) PROVE OnlyOurOrder'
    BY <1>25 DEF ScanSkip, Hits
<1>26. ASSUME NEW l \in Lane, NEW o \in Order, ScanNew(l, o) PROVE OnlyOurOrder'
    BY <1>26 DEF ScanNew, Hits
<1>27. ASSUME NEW engine \in {Live, Backfill}, Crash(engine) PROVE OnlyOurOrder'
    BY <1>27 DEF Crash
<1>28. ASSUME NEW o \in Order, SettleHeld(o) PROVE OnlyOurOrder'
    BY <1>28 DEF SettleHeld
<1>29. ASSUME NEW o \in Order, Reindex(o) PROVE OnlyOurOrder'
    BY <1>29 DEF Reindex
<1>30. ASSUME NEW o \in Order, Approve(o) PROVE OnlyOurOrder'
    BY <1>30 DEF Approve
<1>31. ASSUME NEW o \in Order, Withdraw(o) PROVE OnlyOurOrder'
    BY <1>31 DEF Withdraw
<1>32. CASE UNCHANGED vars
    BY <1>32 DEF vars, hubspot, queue, status
<1>33. ASSUME NEW l \in Lane, SetSynced(l) PROVE OnlyOurOrder'
    BY <1>33 DEF SetSynced
<1>34. ASSUME NEW l \in Lane, FlagPartial(l) PROVE OnlyOurOrder'
  <2>1. CASE lane[l].line[2] = Whole
    BY <1>34, <2>1 DEF FlagPartial
  <2>2. CASE lane[l].line[2] # Whole
    <3>1. PICK r \in LaneState : Onward(l, r)
      BY <1>34, <2>2, <1>0 DEF FlagPartial
    <3> QED
      BY <1>34, <3>1 DEF FlagPartial, Onward
  <2> QED
    BY <2>1, <2>2
<1> QED
    BY <1>1, <1>2, <1>3, <1>4, <1>5, <1>6, <1>7, <1>8, <1>9, <1>10, <1>11, <1>12, <1>13,
       <1>14, <1>15, <1>16, <1>17, <1>18, <1>19, <1>20, <1>21, <1>22, <1>23, <1>24, <1>25,
       <1>26, <1>27, <1>28, <1>29, <1>30, <1>31, <1>32, <1>33,
       <1>34 DEF Next, Work

\* An item that raises is recorded before the lane goes on, and a lane that is done
\* has a ledger row or such a record.
LEMMA RecordedStep == TypeOK /\ InHand /\ Recorded /\ [Next]_vars => Recorded'
<1> SUFFICES ASSUME TypeOK, InHand, Recorded, [Next]_vars PROVE Recorded'
    OBVIOUS
<1>0. \A l \in Lane : lane[l].pc \in {"line", "flag", "link"} /\ NextLine(l) =>
         \E r \in LaneState : Onward(l, r)
    BY NextLineKeeps
<1> USE OrderSyncAssumption DEF TypeOK, InHand, Recorded, Pcs, LaneState, Idle, NoOrder,
        NoItem, Lane, At, Goto, Oid, Fault, Outcome, Flag, hubspot, queue, status
<1>1. ASSUME NEW l \in Lane, LedgerHit(l) PROVE Recorded'
    BY <1>1 DEF LedgerHit
<1>2. ASSUME NEW l \in Lane, Search(l) PROVE Recorded'
    BY <1>2 DEF Search, AfterSearch, Hits
<1>3. ASSUME NEW l \in Lane, Rekey(l) PROVE Recorded'
    BY <1>3 DEF Rekey
<1>4. ASSUME NEW l \in Lane, Verify(l) PROVE Recorded'
    BY <1>4 DEF Verify, Judge, CountComplete, ItemKeys
<1>5. ASSUME NEW l \in Lane, Count(l) PROVE Recorded'
    BY <1>5 DEF Count, Judge, CountComplete, ItemKeys
<1>6. ASSUME NEW l \in Lane, Fetch(l) PROVE Recorded'
    BY <1>6 DEF Fetch
<1>7. ASSUME NEW l \in Lane, FetchMiss(l) PROVE Recorded'
    BY <1>7 DEF FetchMiss
<1>8. ASSUME NEW l \in Lane, FetchFails(l) PROVE Recorded'
    BY <1>8 DEF FetchFails
<1>9. ASSUME NEW l \in Lane, Gate(l) PROVE Recorded'
    BY <1>9 DEF Gate
<1>10. ASSUME NEW l \in Lane, Create(l) PROVE Recorded'
    BY <1>10 DEF Create
<1>11. ASSUME NEW l \in Lane, CreateFails(l) PROVE Recorded'
    BY <1>11 DEF CreateFails
<1>12. ASSUME NEW l \in Lane, Duplicate(l) PROVE Recorded'
    BY <1>12 DEF Duplicate, Resolved, HolderOf, Hits
<1>13. ASSUME NEW l \in Lane, Present(l) PROVE Recorded'
    BY <1>13 DEF Present, FoundWhole, NotAttempted, Missing, OnOrder, ItemKeys
<1>14. ASSUME NEW l \in Lane, Reread(l) PROVE Recorded'
    BY <1>14 DEF Reread, FoundWhole, Missing, OnOrder, ItemKeys
<1>15. ASSUME NEW l \in Lane, StartItem(l) PROVE Recorded'
    BY <1>15 DEF StartItem
<1>16. ASSUME NEW l \in Lane, ItemRaises(l) PROVE Recorded'
    BY <1>16 DEF ItemRaises
<1>17. ASSUME NEW l \in Lane, MakeLine(l) PROVE Recorded'
    BY <1>17 DEF MakeLine
<1>18. ASSUME NEW l \in Lane, RefuseLine(l) PROVE Recorded'
    BY <1>18 DEF RefuseLine
<1>19. ASSUME NEW l \in Lane, Link(l) PROVE Recorded'
  <2>1. PICK r \in LaneState : Onward(l, r)
    BY <1>19, <1>0 DEF Link
  <2> QED
    BY <1>19, <2>1 DEF Link, Onward
<1>20. ASSUME NEW l \in Lane, ComponentsRaise(l) PROVE Recorded'
    BY <1>20 DEF ComponentsRaise
<1>21. ASSUME NEW l \in Lane, Finish(l) PROVE Recorded'
    BY <1>21 DEF Finish
<1>22. ASSUME NEW l \in Lane, Settle(l) PROVE Recorded'
    BY <1>22 DEF Settle
<1>23. ASSUME NEW l \in Lane, Mark(l) PROVE Recorded'
    BY <1>23 DEF Mark
<1>24. ASSUME NEW l \in Lane, NEW o \in Order, Claim(l, o) PROVE Recorded'
    BY <1>24 DEF Claim, Claimable
<1>25. ASSUME NEW l \in Lane, NEW o \in Order, ScanSkip(l, o) PROVE Recorded'
    BY <1>25 DEF ScanSkip, Hits
<1>26. ASSUME NEW l \in Lane, NEW o \in Order, ScanNew(l, o) PROVE Recorded'
    BY <1>26 DEF ScanNew, Hits
<1>27. ASSUME NEW engine \in {Live, Backfill}, Crash(engine) PROVE Recorded'
    BY <1>27 DEF Crash
<1>28. ASSUME NEW o \in Order, SettleHeld(o) PROVE Recorded'
    BY <1>28 DEF SettleHeld
<1>29. ASSUME NEW o \in Order, Reindex(o) PROVE Recorded'
    BY <1>29 DEF Reindex
<1>30. ASSUME NEW o \in Order, Approve(o) PROVE Recorded'
    BY <1>30 DEF Approve
<1>31. ASSUME NEW o \in Order, Withdraw(o) PROVE Recorded'
    BY <1>31 DEF Withdraw
<1>32. CASE UNCHANGED vars
    BY <1>32 DEF vars, hubspot, queue, status
<1>33. ASSUME NEW l \in Lane, SetSynced(l) PROVE Recorded'
    BY <1>33 DEF SetSynced
<1>34. ASSUME NEW l \in Lane, FlagPartial(l) PROVE Recorded'
  <2>1. CASE lane[l].line[2] = Whole
    BY <1>34, <2>1 DEF FlagPartial
  <2>2. CASE lane[l].line[2] # Whole
    <3>1. PICK r \in LaneState : Onward(l, r)
      BY <1>34, <2>2, <1>0 DEF FlagPartial
    <3> QED
      BY <1>34, <3>1 DEF FlagPartial, Onward
  <2> QED
    BY <2>1, <2>2
<1> QED
    BY <1>1, <1>2, <1>3, <1>4, <1>5, <1>6, <1>7, <1>8, <1>9, <1>10, <1>11, <1>12, <1>13,
       <1>14, <1>15, <1>16, <1>17, <1>18, <1>19, <1>20, <1>21, <1>22, <1>23, <1>24, <1>25,
       <1>26, <1>27, <1>28, <1>29, <1>30, <1>31, <1>32, <1>33,
       <1>34 DEF Next, Work

\* A row is marked done by such a lane, or settled from the ledger.
LEMMA DoneStep == TypeOK /\ InHand /\ Recorded /\ DoneAccounted /\ [Next]_vars => DoneAccounted'
<1> SUFFICES ASSUME TypeOK, InHand, Recorded, DoneAccounted, [Next]_vars PROVE DoneAccounted'
    OBVIOUS
<1>0. \A l \in Lane : lane[l].pc \in {"line", "flag", "link"} /\ NextLine(l) =>
         \E r \in LaneState : Onward(l, r)
    BY NextLineKeeps
<1> USE OrderSyncAssumption DEF TypeOK, Recorded, DoneAccounted, Pcs, LaneState, Idle,
        NoOrder, NoItem, Lane, At, Goto, Oid, Fault, Outcome, Flag, hubspot, queue, status
<1>1. ASSUME NEW l \in Lane, LedgerHit(l) PROVE DoneAccounted'
    BY <1>1 DEF LedgerHit
<1>2. ASSUME NEW l \in Lane, Search(l) PROVE DoneAccounted'
    BY <1>2 DEF Search, AfterSearch, Hits
<1>3. ASSUME NEW l \in Lane, Rekey(l) PROVE DoneAccounted'
    BY <1>3 DEF Rekey
<1>4. ASSUME NEW l \in Lane, Verify(l) PROVE DoneAccounted'
    BY <1>4 DEF Verify, Judge, CountComplete, ItemKeys
<1>5. ASSUME NEW l \in Lane, Count(l) PROVE DoneAccounted'
    BY <1>5 DEF Count, Judge, CountComplete, ItemKeys
<1>6. ASSUME NEW l \in Lane, Fetch(l) PROVE DoneAccounted'
    BY <1>6 DEF Fetch
<1>7. ASSUME NEW l \in Lane, FetchMiss(l) PROVE DoneAccounted'
    BY <1>7 DEF FetchMiss
<1>8. ASSUME NEW l \in Lane, FetchFails(l) PROVE DoneAccounted'
    BY <1>8 DEF FetchFails
<1>9. ASSUME NEW l \in Lane, Gate(l) PROVE DoneAccounted'
    BY <1>9 DEF Gate
<1>10. ASSUME NEW l \in Lane, Create(l) PROVE DoneAccounted'
    BY <1>10 DEF Create
<1>11. ASSUME NEW l \in Lane, CreateFails(l) PROVE DoneAccounted'
    BY <1>11 DEF CreateFails
<1>12. ASSUME NEW l \in Lane, Duplicate(l) PROVE DoneAccounted'
    BY <1>12 DEF Duplicate, Resolved, HolderOf, Hits
<1>13. ASSUME NEW l \in Lane, Present(l) PROVE DoneAccounted'
    BY <1>13 DEF Present, FoundWhole, NotAttempted, Missing, OnOrder, ItemKeys
<1>14. ASSUME NEW l \in Lane, Reread(l) PROVE DoneAccounted'
    BY <1>14 DEF Reread, FoundWhole, Missing, OnOrder, ItemKeys
<1>15. ASSUME NEW l \in Lane, StartItem(l) PROVE DoneAccounted'
    BY <1>15 DEF StartItem
<1>16. ASSUME NEW l \in Lane, ItemRaises(l) PROVE DoneAccounted'
    BY <1>16 DEF ItemRaises
<1>17. ASSUME NEW l \in Lane, MakeLine(l) PROVE DoneAccounted'
    BY <1>17 DEF MakeLine
<1>18. ASSUME NEW l \in Lane, RefuseLine(l) PROVE DoneAccounted'
    BY <1>18 DEF RefuseLine
<1>19. ASSUME NEW l \in Lane, Link(l) PROVE DoneAccounted'
  <2>1. PICK r \in LaneState : Onward(l, r)
    BY <1>19, <1>0 DEF Link
  <2> QED
    BY <1>19, <2>1 DEF Link, Onward
<1>20. ASSUME NEW l \in Lane, ComponentsRaise(l) PROVE DoneAccounted'
    BY <1>20 DEF ComponentsRaise
<1>21. ASSUME NEW l \in Lane, Finish(l) PROVE DoneAccounted'
    BY <1>21 DEF Finish
<1>22. ASSUME NEW l \in Lane, Settle(l) PROVE DoneAccounted'
    BY <1>22 DEF Settle
<1>23. ASSUME NEW l \in Lane, Mark(l) PROVE DoneAccounted'
    BY <1>23 DEF Mark
<1>24. ASSUME NEW l \in Lane, NEW o \in Order, Claim(l, o) PROVE DoneAccounted'
    BY <1>24 DEF Claim, Claimable
<1>25. ASSUME NEW l \in Lane, NEW o \in Order, ScanSkip(l, o) PROVE DoneAccounted'
    BY <1>25 DEF ScanSkip, Hits
<1>26. ASSUME NEW l \in Lane, NEW o \in Order, ScanNew(l, o) PROVE DoneAccounted'
    BY <1>26 DEF ScanNew, Hits
<1>27. ASSUME NEW engine \in {Live, Backfill}, Crash(engine) PROVE DoneAccounted'
    BY <1>27 DEF Crash
<1>28. ASSUME NEW o \in Order, SettleHeld(o) PROVE DoneAccounted'
    BY <1>28 DEF SettleHeld
<1>29. ASSUME NEW o \in Order, Reindex(o) PROVE DoneAccounted'
    BY <1>29 DEF Reindex
<1>30. ASSUME NEW o \in Order, Approve(o) PROVE DoneAccounted'
    BY <1>30 DEF Approve
<1>31. ASSUME NEW o \in Order, Withdraw(o) PROVE DoneAccounted'
    BY <1>31 DEF Withdraw
<1>32. CASE UNCHANGED vars
    BY <1>32 DEF vars, hubspot, queue, status
<1>33. ASSUME NEW l \in Lane, SetSynced(l) PROVE DoneAccounted'
    BY <1>33 DEF SetSynced
<1>34. ASSUME NEW l \in Lane, FlagPartial(l) PROVE DoneAccounted'
  <2>1. CASE lane[l].line[2] = Whole
    BY <1>34, <2>1 DEF FlagPartial
  <2>2. CASE lane[l].line[2] # Whole
    <3>1. PICK r \in LaneState : Onward(l, r)
      BY <1>34, <2>2, <1>0 DEF FlagPartial
    <3> QED
      BY <1>34, <3>1 DEF FlagPartial, Onward
  <2> QED
    BY <2>1, <2>2
<1> QED
    BY <1>1, <1>2, <1>3, <1>4, <1>5, <1>6, <1>7, <1>8, <1>9, <1>10, <1>11, <1>12, <1>13,
       <1>14, <1>15, <1>16, <1>17, <1>18, <1>19, <1>20, <1>21, <1>22, <1>23, <1>24, <1>25,
       <1>26, <1>27, <1>28, <1>29, <1>30, <1>31, <1>32, <1>33,
       <1>34 DEF Next, Work

\* What every step of the lanes keeps: the invariants hold together, each proved
\* from the ones before it.
Safe == TypeOK /\ InHand /\ Ours /\ OnlyOurOrder /\ Recorded /\ DoneAccounted

\* No lane has anything in hand at first, and no record but a Zid order's exists.
LEMMA InitSafe == Init => Safe
<1> SUFFICES ASSUME Init PROVE Safe
    OBVIOUS
<1> USE OrderSyncAssumption DEF Init, Idle
<1>1. lane \in [Lane -> LaneState]
    BY DEF LaneState, Pcs, Line
<1>2. faults \in [n : 0..MaxFaults, kinds : SUBSET Faults]
    OBVIOUS
<1>3. TypeOK
    BY <1>1, <1>2 DEF TypeOK, RowStates
<1>4. InHand /\ Ours /\ Recorded
    BY DEF InHand, Ours, Recorded, At
<1>5. OnlyOurOrder /\ DoneAccounted
    BY DEF OnlyOurOrder, DoneAccounted
<1> QED
    BY <1>3, <1>4, <1>5 DEF Safe

\* The lanes keep the inductive invariant, in any interleaving of their steps with
\* kills and restarts, failing calls and a late search index.
THEOREM SafeAlways == Spec => []Safe
<1>1. Safe /\ [Next]_vars => Safe'
    BY TypeStep, InHandStep, OursStep, OnlyOurOrderStep, RecordedStep, DoneStep DEF Safe
<1> QED
    BY InitSafe, <1>1, PTL DEF Spec

\* The variables keep their types.
THEOREM TypeCorrect == Spec => []TypeOK
<1>1. Safe => TypeOK
    BY DEF Safe
<1> QED
    BY SafeAlways, <1>1, PTL

\* Line items, ledger entries and "done" rows only ever belong to the Salla
\* order of the number, whatever fails and however late the search index is.
THEOREM OnlyOurOrderHolds == Spec => []OnlyOurOrder
<1>1. Safe => OnlyOurOrder
    BY DEF Safe
<1> QED
    BY SafeAlways, <1>1, PTL

\* A row is marked done only for an order in the ledger or with an error record.
THEOREM DoneAccountedHolds == Spec => []DoneAccounted
<1>1. Safe => DoneAccounted
    BY DEF Safe
<1> QED
    BY SafeAlways, <1>1, PTL

-----------------------------------------------------------------------------
\* Items are plain products, and neither an association write nor the relay's
\* answer is among the faults.
Plain == \A i \in Item : Comps[i] = {}
Counted == "link" \notin Faults /\ "relay" \notin Faults

\* Then an order's lines are its items,
LEMMA PlainLines ==
  ASSUME Plain
  PROVE  AllLines = {<<i, Whole>> : i \in Item}
  BY DEF Plain, AllLines, LinesOf

\* an order with a line of each item is complete (top_up_items.on_order),
LEMMA NothingMissing ==
  ASSUME TypeOK, Plain, NEW o \in Order, Missing(o) = {}
  PROVE  Complete(o)
<1>1. SUFFICES ASSUME NEW i \in Item PROVE <<i, Whole>> \in keys[o]
  BY PlainLines DEF Complete
<1>2. PICK k \in keys[o] : k[1] = i
  BY DEF Missing, OnOrder, ItemKeys
<1>3. k \in AllLines
  BY DEF TypeOK
<1>4. PICK j \in Item : k = <<j, Whole>>
  BY <1>3, PlainLines
<1> QED
  BY <1>2, <1>4

\* and so is one with as many line items as the source has (order_line_item_count).
LEMMA CountTells ==
  ASSUME TypeOK, Plain, NEW o \in Order, CountComplete(o, Cardinality(Item))
  PROVE  Complete(o)
<1> DEFINE f == [i \in Item |-> <<i, Whole>>]
<1>1. f \in Surjection(Item, AllLines)
  BY PlainLines DEF Surjection
<1>2. IsFiniteSet(AllLines) /\ Cardinality(AllLines) <= Cardinality(Item)
  BY <1>1, FS_Surjection, OrderSyncAssumption
<1>3. keys[o] \in SUBSET AllLines
  BY DEF TypeOK
<1>4. /\ IsFiniteSet(keys[o]) /\ Cardinality(keys[o]) <= Cardinality(AllLines)
      /\ Cardinality(AllLines) = Cardinality(keys[o]) => AllLines = keys[o]
  BY <1>2, <1>3, FS_Subset
<1>5. Cardinality(keys[o]) \in Nat /\ Cardinality(AllLines) \in Nat /\ Cardinality(Item) \in Nat
  BY <1>2, <1>4, FS_CardinalityType, OrderSyncAssumption
<1>6. Cardinality(keys[o]) >= Cardinality(Item)
  BY DEF CountComplete, ItemKeys
<1>7. Cardinality(AllLines) = Cardinality(keys[o])
  BY <1>2, <1>4, <1>5, <1>6
<1> QED
  BY <1>4, <1>7 DEF Complete

\* A fresh create belongs to one lane: the order of another one exists by then.
LEMMA AloneStep == TypeOK /\ InHand /\ Ours /\ Alone /\ [Next]_vars => Alone'
<1> SUFFICES ASSUME TypeOK, InHand, Ours, Alone, [Next]_vars PROVE Alone'
    OBVIOUS
<1> DEFINE Same == \A m \in Lane : Creating(m)' => Creating(m) /\ Oid(m)' = Oid(m)
<1>s. Same => Alone'
    BY DEF Alone
<1>0. \A l \in Lane : lane[l].pc \in {"line", "flag", "link"} /\ NextLine(l) =>
         \E r \in LaneState : Onward(l, r)
    BY NextLineKeeps
<1> USE OrderSyncAssumption DEF TypeOK, InHand, Creating, Pcs, LaneState, Idle,
        NoOrder, NoItem, Lane, At, Goto, Oid, Fault, Outcome, Flag, hubspot, queue, status
<1>1. ASSUME NEW l \in Lane, LedgerHit(l) PROVE Alone'
    BY <1>1, <1>s DEF LedgerHit
<1>2. ASSUME NEW l \in Lane, Search(l) PROVE Alone'
    BY <1>2, <1>s DEF Search, AfterSearch, Hits
<1>3. ASSUME NEW l \in Lane, Rekey(l) PROVE Alone'
    BY <1>3, <1>s DEF Rekey
<1>4. ASSUME NEW l \in Lane, Verify(l) PROVE Alone'
  <2>1. lane[l].way # "fresh" /\ lane'[l].way = lane[l].way
    BY <1>4 DEF Verify, Judge
  <2>2. \A m \in Lane : m # l => lane'[m] = lane[m]
    BY <1>4 DEF Verify, Judge
  <2> QED
    BY <2>1, <2>2, <1>s
<1>5. ASSUME NEW l \in Lane, Count(l) PROVE Alone'
    BY <1>5, <1>s DEF Count, Judge, CountComplete, ItemKeys
<1>6. ASSUME NEW l \in Lane, Fetch(l) PROVE Alone'
    BY <1>6, <1>s DEF Fetch
<1>7. ASSUME NEW l \in Lane, FetchMiss(l) PROVE Alone'
    BY <1>7, <1>s DEF FetchMiss
<1>8. ASSUME NEW l \in Lane, FetchFails(l) PROVE Alone'
    BY <1>8, <1>s DEF FetchFails
<1>9. ASSUME NEW l \in Lane, Gate(l) PROVE Alone'
    BY <1>9, <1>s DEF Gate
<1>10. ASSUME NEW l \in Lane, Create(l) PROVE Alone'
  <2>1. CASE UNCHANGED lane
    BY <2>1, <1>s
  <2>2. CASE lane' = [lane EXCEPT ![l].pc = "sync", ![l].todo = Item, ![l].err = FALSE]
    <3>1. \A m \in Lane : m # l => lane'[m] = lane[m]
      BY <2>2
    <3>2. lane'[l].oid = lane[l].oid
      BY <2>2
    <3>3. holder[Oid(l)] = "none"
      BY <1>10 DEF Create
    <3>4. \A m \in Lane : Creating(m) => holder[Oid(m)] = "salla"
      BY DEF Ours
    <3>5. \A m \in Lane : m # l /\ Creating(m)' => Oid(m)' # Oid(l)'
      BY <3>1, <3>2, <3>3, <3>4
    <3> QED
      BY <3>1, <3>5 DEF Alone
  <2> QED
    BY <1>10, <2>1, <2>2 DEF Create
<1>11. ASSUME NEW l \in Lane, CreateFails(l) PROVE Alone'
    BY <1>11, <1>s DEF CreateFails
<1>12. ASSUME NEW l \in Lane, Duplicate(l) PROVE Alone'
    BY <1>12, <1>s DEF Duplicate, Resolved, HolderOf, Hits
<1>13. ASSUME NEW l \in Lane, Present(l) PROVE Alone'
    BY <1>13, <1>s DEF Present, FoundWhole, NotAttempted, Missing, OnOrder, ItemKeys
<1>14. ASSUME NEW l \in Lane, Reread(l) PROVE Alone'
    BY <1>14, <1>s DEF Reread, FoundWhole, Missing, OnOrder, ItemKeys
<1>15. ASSUME NEW l \in Lane, StartItem(l) PROVE Alone'
    BY <1>15, <1>s DEF StartItem
<1>16. ASSUME NEW l \in Lane, ItemRaises(l) PROVE Alone'
    BY <1>16, <1>s DEF ItemRaises
<1>17. ASSUME NEW l \in Lane, MakeLine(l) PROVE Alone'
    BY <1>17, <1>s DEF MakeLine
<1>18. ASSUME NEW l \in Lane, RefuseLine(l) PROVE Alone'
    BY <1>18, <1>s DEF RefuseLine
<1>19. ASSUME NEW l \in Lane, Link(l) PROVE Alone'
  <2>1. PICK r \in LaneState : Onward(l, r)
    BY <1>19, <1>0 DEF Link
  <2> QED
    BY <1>19, <2>1, <1>s DEF Link, Onward
<1>20. ASSUME NEW l \in Lane, ComponentsRaise(l) PROVE Alone'
    BY <1>20, <1>s DEF ComponentsRaise
<1>21. ASSUME NEW l \in Lane, Finish(l) PROVE Alone'
    BY <1>21, <1>s DEF Finish
<1>22. ASSUME NEW l \in Lane, Settle(l) PROVE Alone'
    BY <1>22, <1>s DEF Settle
<1>23. ASSUME NEW l \in Lane, Mark(l) PROVE Alone'
    BY <1>23, <1>s DEF Mark
<1>24. ASSUME NEW l \in Lane, NEW o \in Order, Claim(l, o) PROVE Alone'
    BY <1>24, <1>s DEF Claim, Claimable
<1>25. ASSUME NEW l \in Lane, NEW o \in Order, ScanSkip(l, o) PROVE Alone'
    BY <1>25, <1>s DEF ScanSkip, Hits
<1>26. ASSUME NEW l \in Lane, NEW o \in Order, ScanNew(l, o) PROVE Alone'
    BY <1>26, <1>s DEF ScanNew, Hits
<1>27. ASSUME NEW engine \in {Live, Backfill}, Crash(engine) PROVE Alone'
    BY <1>27, <1>s DEF Crash
<1>28. ASSUME NEW o \in Order, SettleHeld(o) PROVE Alone'
    BY <1>28, <1>s DEF SettleHeld
<1>29. ASSUME NEW o \in Order, Reindex(o) PROVE Alone'
    BY <1>29, <1>s DEF Reindex
<1>30. ASSUME NEW o \in Order, Approve(o) PROVE Alone'
    BY <1>30, <1>s DEF Approve
<1>31. ASSUME NEW o \in Order, Withdraw(o) PROVE Alone'
    BY <1>31, <1>s DEF Withdraw
<1>32. CASE UNCHANGED vars
    BY <1>32, <1>s DEF vars, hubspot, queue, status
<1>33. ASSUME NEW l \in Lane, SetSynced(l) PROVE Alone'
    BY <1>33, <1>s DEF SetSynced
<1>34. ASSUME NEW l \in Lane, FlagPartial(l) PROVE Alone'
  <2>1. CASE lane[l].line[2] = Whole
    BY <1>34, <2>1, <1>s DEF FlagPartial
  <2>2. CASE lane[l].line[2] # Whole
    <3>1. PICK r \in LaneState : Onward(l, r)
      BY <1>34, <2>2, <1>0 DEF FlagPartial
    <3> QED
      BY <1>34, <3>1, <1>s DEF FlagPartial, Onward
  <2> QED
    BY <2>1, <2>2
<1> QED
    BY <1>1, <1>2, <1>3, <1>4, <1>5, <1>6, <1>7, <1>8, <1>9, <1>10, <1>11, <1>12, <1>13,
       <1>14, <1>15, <1>16, <1>17, <1>18, <1>19, <1>20, <1>21, <1>22, <1>23, <1>24, <1>25,
       <1>26, <1>27, <1>28, <1>29, <1>30, <1>31, <1>32, <1>33,
       <1>34 DEF Next, Work

\* The lines an order has or was refused only ever grow.
Grown == \A o \in Order : keys[o] \subseteq keys'[o] /\ refused[o] \subseteq refused'[o]

\* A step elsewhere leaves what a lane is through with as it is, unless it hides
\* what is short of the order or ledgers it.
LEMMA LoopedElsewhere ==
  ASSUME InHand, NEW m \in Lane, LoopedAt(m), lane'[m] = lane[m], Grown,
         Oid(m) \in Order /\ Creating(m) /\ Oid(m) \in partial \cup unflagged =>
           Complete(Oid(m)) \/ Oid(m) \in (partial \cup unflagged)',
         At(m, "sync") /\ Oid(m) \in ledger' => Complete(Oid(m)) \/ Oid(m) \in ledger
  PROVE  LoopedAt(m)'
<1>1. CASE ~(lane[m].pc \in {"loop", "line", "flag", "link", "sync", "settle"})
  BY <1>1 DEF LoopedAt, At
<1>2. CASE lane[m].pc \in {"loop", "line", "flag", "link", "sync", "settle"}
  <2>1. Oid(m) \in Order /\ Oid(m)' = Oid(m)
    BY <1>2 DEF InHand, At, Oid
  <2>2. Complete(Oid(m)) => Complete(Oid(m))'
    BY <2>1 DEF Grown, Complete
  <2>3. keys[Oid(m)] \subseteq keys'[Oid(m)] /\ refused[Oid(m)] \subseteq refused'[Oid(m)]
    BY <2>1 DEF Grown
  <2>4. \A k \in AllLines : Creating(m) /\ Through(Oid(m), k) => Through(Oid(m), k)'
    <3> SUFFICES ASSUME NEW k \in AllLines, Creating(m), Through(Oid(m), k)
                 PROVE  Through(Oid(m), k)'
      OBVIOUS
    <3>1. CASE Complete(Oid(m))
      BY <3>1, <2>1, <2>2 DEF Complete, Through
    <3>2. CASE ~Complete(Oid(m))
      BY <3>2, <2>1, <2>3 DEF Through
    <3> QED
      BY <3>1, <3>2
  <2>5. \A i \in Item : <<i, Whole>> \in AllLines
    BY DEF AllLines, LinesOf
  <2>6. At(m, "flag")' => (lane[m].line \in refused[Oid(m)])'
    BY <2>1, <2>3 DEF LoopedAt, At
  <2>7. At(m, "settle")' => (IF lane[m].way = "fresh" THEN \A k \in AllLines : Through(Oid(m), k)
                                                     ELSE Complete(Oid(m)))'
    BY <2>2, <2>4 DEF LoopedAt, At, Creating
  <2>8. /\ At(m, "sync")' /\ (lane[m].way = "fresh")' => (lane[m].todo = Item)'
        /\ At(m, "sync")' /\ (lane[m].way # "fresh" \/ Oid(m) \in ledger)' => Complete(Oid(m))'
    BY <2>1, <2>2 DEF LoopedAt, At
  <2>9. ASSUME (lane[m].pc \in {"loop", "line", "flag", "link"} /\ lane[m].way = "fresh"
                 /\ ~lane[m].err)', NEW i \in Item \ lane'[m].todo
        PROVE  Through(Oid(m), <<i, Whole>>)' \/ (~At(m, "loop") /\ lane[m].line[1] = i)'
    <3>1. Creating(m)
      BY <2>9 DEF Creating
    <3>2. Through(Oid(m), <<i, Whole>>) \/ (~At(m, "loop") /\ lane[m].line[1] = i)
      BY <2>9 DEF LoopedAt
    <3> QED
      BY <3>1, <3>2, <2>4, <2>5 DEF At
  <2> QED
    BY <2>6, <2>7, <2>8, <2>9 DEF LoopedAt
<1> QED
  BY <1>1, <1>2

\* Nothing but lane l changes that Looped depends on, or it only grows.
Alongside(l) ==
    /\ \A m \in Lane : m # l => lane'[m] = lane[m]
    /\ Grown /\ partial \cup unflagged \subseteq (partial \cup unflagged)'
    /\ UNCHANGED ledger

LEMMA LoopedAlongside ==
  ASSUME InHand, Looped, NEW l \in Lane, Alongside(l), LoopedAt(l)'
  PROVE  Looped'
<1>1. ASSUME NEW m \in Lane, m # l PROVE LoopedAt(m)'
  <2>1. LoopedAt(m) /\ lane'[m] = lane[m]
    BY <1>1 DEF Looped, Alongside
  <2> QED
    BY <2>1, LoopedElsewhere DEF Alongside
<1> QED
  BY <1>1 DEF Looped

\* A lane at no such step has nothing to keep.
LEMMA LoopedAway ==
  ASSUME NEW l \in Lane,
         ~(lane'[l].pc \in {"sync", "loop", "line", "flag", "link", "settle"})
  PROVE  LoopedAt(l)'
  BY DEF LoopedAt, At

\* A fresh create has linked every item it is through with, unless HubSpot refused
\* its line: then the partial flag shows it, or its write failed. A lane about to
\* write the ledger row is through with all of them, or has a complete order.
LEMMA LoopedStep ==
  Plain /\ Counted /\ TypeOK /\ InHand /\ Ours /\ OnlyOurOrder /\ Alone /\ Looped
    /\ [Next]_vars => Looped'
<1> SUFFICES ASSUME Plain, Counted, TypeOK, InHand, Ours, OnlyOurOrder, Alone, Looped,
                    [Next]_vars
             PROVE  Looped'
    OBVIOUS
<1>p. AllLines = {<<i, Whole>> : i \in Item}
    BY PlainLines
<1>m. \A o \in Order : Missing(o) = {} => Complete(o)
    BY NothingMissing
<1>c. \A o \in Order : CountComplete(o, Cardinality(Item)) => Complete(o)
    BY CountTells
<1>a. \A l \in Lane : Alongside(l) /\ LoopedAt(l)' => Looped'
    BY LoopedAlongside
<1>w. \A l \in Lane :
         ~(lane'[l].pc \in {"sync", "loop", "line", "flag", "link", "settle"}) => LoopedAt(l)'
    BY LoopedAway
<1>u. ASSUME UNCHANGED lane, UNCHANGED <<keys, ledger, partial, refused, unflagged>> PROVE Looped'
    <2>1. Grown
      BY <1>u DEF Grown
    <2> QED
      BY <1>u, <2>1, LoopedElsewhere DEF Looped
<1> USE OrderSyncAssumption DEF TypeOK, InHand, Pcs, LaneState, Idle, NoOrder, NoItem, Lane,
        Counted, At, Goto, Oid, Fault, Outcome, Flag, hubspot, queue, status
<1>1. ASSUME NEW l \in Lane, LedgerHit(l) PROVE Looped'
  <2>1. Alongside(l)
    BY <1>1 DEF LedgerHit, Alongside, Grown
  <2>2. ~(lane'[l].pc \in {"sync", "loop", "line", "flag", "link", "settle"})
    BY <1>1 DEF LedgerHit
  <2> QED
    BY <2>1, <2>2, <1>a, <1>w
<1>2. ASSUME NEW l \in Lane, Search(l) PROVE Looped'
  <2>1. Alongside(l)
    BY <1>2 DEF Search, AfterSearch, Hits, Alongside, Grown
  <2>2. ~(lane'[l].pc \in {"sync", "loop", "line", "flag", "link", "settle"})
    BY <1>2 DEF Search, AfterSearch, Hits
  <2> QED
    BY <2>1, <2>2, <1>a, <1>w
<1>3. ASSUME NEW l \in Lane, Rekey(l) PROVE Looped'
  <2>1. Alongside(l)
    BY <1>3 DEF Rekey, Alongside, Grown
  <2>2. ~(lane'[l].pc \in {"sync", "loop", "line", "flag", "link", "settle"})
    BY <1>3 DEF Rekey
  <2> QED
    BY <2>1, <2>2, <1>a, <1>w
<1>4. ASSUME NEW l \in Lane, Verify(l) PROVE Looped'
  <2>1. Alongside(l)
    BY <1>4 DEF Verify, Judge, Alongside, Grown
  <2>2. CASE lane'[l].pc = "settle"
    <3>1. Complete(Oid(l)) /\ Oid(l)' = Oid(l) /\ lane'[l].way # "fresh" /\ UNCHANGED keys
      BY <1>4, <2>2, <1>c DEF Verify, Judge
    <3> QED
      BY <2>1, <2>2, <3>1, <1>a DEF LoopedAt, Complete
  <2>3. CASE lane'[l].pc # "settle"
    <3>1. ~(lane'[l].pc \in {"sync", "loop", "line", "flag", "link"})
      BY <1>4, <2>3 DEF Verify, Judge
    <3> QED
      BY <2>1, <2>3, <3>1, <1>a, <1>w
  <2> QED
    BY <2>2, <2>3
<1>5. ASSUME NEW l \in Lane, Count(l) PROVE Looped'
  <2>1. Alongside(l)
    BY <1>5 DEF Count, Judge, Alongside, Grown
  <2>2. CASE lane'[l].pc = "settle"
    <3>1. Complete(Oid(l)) /\ Oid(l)' = Oid(l) /\ lane'[l].way # "fresh" /\ UNCHANGED keys
      BY <1>5, <2>2, <1>c DEF Count, Judge
    <3> QED
      BY <2>1, <2>2, <3>1, <1>a DEF LoopedAt, Complete
  <2>3. CASE lane'[l].pc # "settle"
    <3>1. ~(lane'[l].pc \in {"sync", "loop", "line", "flag", "link"})
      BY <1>5, <2>3 DEF Count, Judge
    <3> QED
      BY <2>1, <2>3, <3>1, <1>a, <1>w
  <2> QED
    BY <2>2, <2>3
<1>6. ASSUME NEW l \in Lane, Fetch(l) PROVE Looped'
  <2>1. Alongside(l)
    BY <1>6 DEF Fetch, Alongside, Grown
  <2>2. ~(lane'[l].pc \in {"sync", "loop", "line", "flag", "link", "settle"})
    BY <1>6 DEF Fetch
  <2> QED
    BY <2>1, <2>2, <1>a, <1>w
<1>7. ASSUME NEW l \in Lane, FetchMiss(l) PROVE Looped'
  <2>1. Alongside(l)
    BY <1>7 DEF FetchMiss, Alongside, Grown
  <2>2. ~(lane'[l].pc \in {"sync", "loop", "line", "flag", "link", "settle"})
    BY <1>7 DEF FetchMiss
  <2> QED
    BY <2>1, <2>2, <1>a, <1>w
<1>8. ASSUME NEW l \in Lane, FetchFails(l) PROVE Looped'
  <2>1. Alongside(l)
    BY <1>8 DEF FetchFails, Alongside, Grown
  <2>2. ~(lane'[l].pc \in {"sync", "loop", "line", "flag", "link", "settle"})
    BY <1>8 DEF FetchFails
  <2> QED
    BY <2>1, <2>2, <1>a, <1>w
<1>9. ASSUME NEW l \in Lane, Gate(l) PROVE Looped'
  <2>1. Alongside(l)
    BY <1>9 DEF Gate, Alongside, Grown
  <2>2. ~(lane'[l].pc \in {"sync", "loop", "line", "flag", "link", "settle"})
    BY <1>9 DEF Gate
  <2> QED
    BY <2>1, <2>2, <1>a, <1>w
<1>10. ASSUME NEW l \in Lane, Create(l) PROVE Looped'
  <2>1. Oid(l) \notin ledger /\ UNCHANGED <<keys, ledger, partial, refused, unflagged>>
    BY <1>10 DEF Create, OnlyOurOrder
  <2>2. CASE UNCHANGED lane
    BY <2>1, <2>2, <1>u
  <2>3. CASE lane' = [lane EXCEPT ![l].pc = "sync", ![l].todo = Item, ![l].err = FALSE]
    <3>1. Alongside(l)
      BY <2>1, <2>3 DEF Alongside, Grown
    <3>2. /\ lane'[l].pc = "sync" /\ lane'[l].todo = Item /\ lane'[l].way = "fresh"
          /\ lane'[l].oid = lane[l].oid
      BY <1>10, <2>3 DEF Create
    <3> QED
      BY <2>1, <3>1, <3>2, <1>a DEF LoopedAt
  <2> QED
    BY <1>10, <2>2, <2>3 DEF Create
<1>11. ASSUME NEW l \in Lane, CreateFails(l) PROVE Looped'
  <2>1. Alongside(l)
    BY <1>11 DEF CreateFails, Alongside, Grown
  <2>2. ~(lane'[l].pc \in {"sync", "loop", "line", "flag", "link", "settle"})
    BY <1>11 DEF CreateFails
  <2> QED
    BY <2>1, <2>2, <1>a, <1>w
<1>12. ASSUME NEW l \in Lane, Duplicate(l) PROVE Looped'
  <2>1. Alongside(l)
    BY <1>12 DEF Duplicate, Resolved, HolderOf, Hits, Alongside, Grown
  <2>2. ~(lane'[l].pc \in {"sync", "loop", "line", "flag", "link", "settle"})
    BY <1>12 DEF Duplicate, Resolved, HolderOf, Hits
  <2> QED
    BY <2>1, <2>2, <1>a, <1>w
<1>13. ASSUME NEW l \in Lane, Present(l) PROVE Looped'
  <2>1. Alongside(l)
    BY <1>13 DEF Present, FoundWhole, NotAttempted, Alongside, Grown
  <2>2. lane[l].way # "fresh" /\ Oid(l) \in Order /\ UNCHANGED keys
    BY <1>13 DEF Present
  <2>3. CASE FoundWhole(l) /\ Missing(Oid(l)) = {}
    <3>1. Complete(Oid(l))
      BY <2>2, <2>3, <1>m
    <3>2. lane'[l].pc \in {"sync", "settle"} /\ lane'[l].way # "fresh" /\ Oid(l)' = Oid(l)
      BY <2>2, <2>3 DEF FoundWhole
    <3> QED
      BY <2>1, <2>2, <3>1, <3>2, <1>a DEF LoopedAt, Complete
  <2>4. CASE lane' = [lane EXCEPT ![l].pc = "loop", ![l].todo = Missing(Oid(l))]
    <3>1. lane'[l].pc = "loop" /\ lane'[l].way # "fresh"
      BY <2>2, <2>4
    <3> QED
      BY <2>1, <3>1, <1>a DEF LoopedAt
  <2>5. CASE NotAttempted(l) \/ lane' = [lane EXCEPT ![l] = Idle]
    <3>1. ~(lane'[l].pc \in {"sync", "loop", "line", "flag", "link", "settle"})
      BY <2>5 DEF NotAttempted
    <3> QED
      BY <2>1, <3>1, <1>a, <1>w
  <2> QED
    BY <1>13, <2>3, <2>4, <2>5 DEF Present
<1>14. ASSUME NEW l \in Lane, Reread(l) PROVE Looped'
  <2>1. Alongside(l)
    BY <1>14 DEF Reread, FoundWhole, Alongside, Grown
  <2>2. lane[l].way # "fresh" /\ Oid(l) \in Order /\ UNCHANGED keys
    BY <1>14 DEF Reread
  <2>3. CASE FoundWhole(l) /\ Missing(Oid(l)) = {}
    <3>1. Complete(Oid(l))
      BY <2>2, <2>3, <1>m
    <3>2. lane'[l].pc \in {"sync", "settle"} /\ lane'[l].way # "fresh" /\ Oid(l)' = Oid(l)
      BY <2>2, <2>3 DEF FoundWhole
    <3> QED
      BY <2>1, <2>2, <3>1, <3>2, <1>a DEF LoopedAt, Complete
  <2>4. CASE Outcome(l, "error")
    <3>1. lane'[l].pc = "mark"
      BY <2>4
    <3> QED
      BY <2>1, <3>1, <1>a, <1>w
  <2> QED
    BY <1>14, <2>3, <2>4 DEF Reread
<1>15. ASSUME NEW l \in Lane, StartItem(l) PROVE Looped'
  <2>1. Alongside(l)
    BY <1>15 DEF StartItem, Alongside, Grown
  <2>2. PICK i \in lane[l].todo :
           lane' = [lane EXCEPT ![l].pc = "line", ![l].todo = @ \ {i},
                                ![l].line = <<i, Whole>>, ![l].comps = Comps[i]]
    BY <1>15 DEF StartItem
  <2>3. /\ lane'[l].pc = "line" /\ lane'[l].todo = lane[l].todo \ {i}
        /\ lane'[l].line[1] = i /\ lane'[l].way = lane[l].way /\ lane'[l].err = lane[l].err
        /\ lane'[l].oid = lane[l].oid
    BY <2>2
  <2>4. LoopedAt(l) /\ At(l, "loop") /\ UNCHANGED <<keys, partial, refused, unflagged>>
    BY <1>15 DEF StartItem, Looped
  <2>5. LoopedAt(l)'
    BY <2>3, <2>4 DEF LoopedAt, Through
  <2> QED
    BY <2>1, <2>5, <1>a
<1>16. ASSUME NEW l \in Lane, ItemRaises(l) PROVE Looped'
  <2>1. Alongside(l)
    BY <1>16 DEF ItemRaises, Alongside, Grown
  <2>2. lane'[l].pc = "loop" /\ lane'[l].err
    BY <1>16 DEF ItemRaises
  <2> QED
    BY <2>1, <2>2, <1>a DEF LoopedAt
<1>17. ASSUME NEW l \in Lane, MakeLine(l) PROVE Looped'
  <2>1. Alongside(l)
    BY <1>17 DEF MakeLine, Alongside, Grown
  <2>2. LoopedAt(l) /\ At(l, "line") /\ UNCHANGED <<keys, partial, refused, unflagged>>
    BY <1>17 DEF MakeLine, Looped
  <2>3. lane'[l] = [lane[l] EXCEPT !.pc = "link"]
    BY <1>17 DEF MakeLine
  <2>4. LoopedAt(l)'
    BY <2>2, <2>3 DEF LoopedAt, Through
  <2> QED
    BY <2>1, <2>4, <1>a
<1>18. ASSUME NEW l \in Lane, RefuseLine(l) PROVE Looped'
  <2>1. Alongside(l)
    BY <1>18 DEF RefuseLine, Alongside, Grown
  <2>2. LoopedAt(l) /\ At(l, "line") /\ UNCHANGED <<keys, partial, unflagged>> /\ Oid(l) \in Order
    BY <1>18 DEF RefuseLine, Looped
  <2>3. lane'[l] = [lane[l] EXCEPT !.pc = "flag"]
    BY <1>18 DEF RefuseLine
  <2>4. refused'[Oid(l)] = refused[Oid(l)] \cup {lane[l].line}
    BY <1>18, <2>2 DEF RefuseLine
  <2>5. LoopedAt(l)'
    BY <2>2, <2>3, <2>4 DEF LoopedAt, Through
  <2> QED
    BY <2>1, <2>5, <1>a
<1>19. ASSUME NEW l \in Lane, Link(l) PROVE Looped'
  <2>1. PICK i \in Item : lane[l].line \in LinesOf(i) /\ lane[l].comps \subseteq Comps[i]
    BY <1>19 DEF Link
  <2>2. lane[l].line = <<i, Whole>> /\ lane[l].comps = {} /\ Oid(l) \in Order /\ At(l, "link")
    BY <1>19, <2>1 DEF Plain, LinesOf, Link
  <2>3. lane' = [lane EXCEPT ![l].pc = "loop", ![l].line = Idle.line]
    BY <1>19, <2>2 DEF Link, NextLine
  <2>4. keys' = [keys EXCEPT ![Oid(l)] = @ \cup {<<i, Whole>>}]
    BY <1>19, <2>2 DEF Link
  <2>5. UNCHANGED <<ledger, partial, refused, unflagged>>
    BY <1>19 DEF Link
  <2>6. Alongside(l)
    BY <2>3, <2>4, <2>5 DEF Alongside, Grown
  <2>7. /\ lane'[l].pc = "loop" /\ lane'[l].todo = lane[l].todo /\ lane'[l].way = lane[l].way
        /\ lane'[l].err = lane[l].err /\ lane'[l].oid = lane[l].oid
    BY <2>3
  <2>8. keys'[Oid(l)] = keys[Oid(l)] \cup {<<i, Whole>>} /\ lane[l].line[1] = i /\ LoopedAt(l)
    BY <2>2, <2>4 DEF Looped
  <2>9. LoopedAt(l)'
    BY <2>2, <2>5, <2>7, <2>8 DEF LoopedAt, Through
  <2> QED
    BY <2>6, <2>9, <1>a
<1>20. ASSUME NEW l \in Lane, ComponentsRaise(l) PROVE Looped'
  <2>1. Alongside(l)
    BY <1>20 DEF ComponentsRaise, Alongside, Grown
  <2>2. lane'[l].pc = "loop" /\ lane'[l].err
    BY <1>20 DEF ComponentsRaise
  <2> QED
    BY <2>1, <2>2, <1>a DEF LoopedAt
<1>21. ASSUME NEW l \in Lane, Finish(l) PROVE Looped'
  <2>1. Alongside(l)
    BY <1>21 DEF Finish, Alongside, Grown
  <2>2. CASE lane[l].err
    <3>1. lane'[l].pc = "mark"
      BY <1>21, <2>2 DEF Finish
    <3> QED
      BY <2>1, <3>1, <1>a, <1>w
  <2>3. CASE ~lane[l].err
    <3>1. At(l, "loop") /\ lane[l].todo = {} /\ lane[l].way = "fresh" /\ LoopedAt(l)
      BY <1>21 DEF Finish, Looped
    <3>2. \A i \in Item : Through(Oid(l), <<i, Whole>>)
      BY <2>3, <3>1 DEF LoopedAt
    <3>3. lane'[l].pc = "settle" /\ lane'[l].way = "fresh" /\ lane'[l].oid = lane[l].oid
      BY <1>21, <2>3, <3>1 DEF Finish
    <3>4. UNCHANGED <<keys, partial, refused, unflagged>>
      BY <1>21 DEF Finish
    <3>5. \A k \in AllLines : Through(Oid(l), k)'
      BY <3>2, <3>3, <3>4, <1>p DEF Through
    <3>6. LoopedAt(l)'
      BY <3>3, <3>5 DEF LoopedAt
    <3> QED
      BY <2>1, <3>6, <1>a
  <2> QED
    BY <2>2, <2>3
<1>22. ASSUME NEW l \in Lane, Settle(l) PROVE Looped'
  <2>1. Grown /\ \A m \in Lane : m # l => lane'[m] = lane[m]
    BY <1>22 DEF Settle, Grown
  <2>2. At(l, "settle") /\ lane'[l].pc = "mark" /\ UNCHANGED <<partial, unflagged>>
    BY <1>22 DEF Settle
  <2>3. ledger' = ledger \cup {Oid(l)}
    BY <1>22 DEF Settle
  <2>4. ASSUME NEW m \in Lane, m # l, At(m, "sync"), Oid(m) = Oid(l) PROVE Complete(Oid(m))
    <3>1. LoopedAt(l) /\ LoopedAt(m)
      BY DEF Looped
    <3>2. ~(lane[l].way = "fresh" /\ lane[m].way = "fresh")
      BY <2>2, <2>4 DEF Alone, Creating
    <3> QED
      BY <2>2, <2>4, <3>1, <3>2 DEF LoopedAt
  <2>5. ASSUME NEW m \in Lane, m # l PROVE LoopedAt(m)'
    <3>1. At(m, "sync") /\ Oid(m) \in ledger' => Complete(Oid(m)) \/ Oid(m) \in ledger
      BY <2>3, <2>4, <2>5
    <3>2. LoopedAt(m) /\ lane'[m] = lane[m]
      BY <2>1, <2>5 DEF Looped
    <3> QED
      BY <2>1, <2>2, <3>1, <3>2, LoopedElsewhere
  <2>6. LoopedAt(l)'
    BY <2>2, <1>w
  <2> QED
    BY <2>5, <2>6 DEF Looped
<1>23. ASSUME NEW l \in Lane, Mark(l) PROVE Looped'
  <2>1. Alongside(l)
    BY <1>23 DEF Mark, Alongside, Grown
  <2>2. ~(lane'[l].pc \in {"sync", "loop", "line", "flag", "link", "settle"})
    BY <1>23 DEF Mark
  <2> QED
    BY <2>1, <2>2, <1>a, <1>w
<1>24. ASSUME NEW l \in Lane, NEW o \in Order, Claim(l, o) PROVE Looped'
  <2>1. Alongside(l)
    BY <1>24 DEF Claim, Alongside, Grown
  <2>2. ~(lane'[l].pc \in {"sync", "loop", "line", "flag", "link", "settle"})
    BY <1>24 DEF Claim
  <2> QED
    BY <2>1, <2>2, <1>a, <1>w
<1>25. ASSUME NEW l \in Lane, NEW o \in Order, ScanSkip(l, o) PROVE Looped'
    BY <1>25, <1>u DEF ScanSkip
<1>26. ASSUME NEW l \in Lane, NEW o \in Order, ScanNew(l, o) PROVE Looped'
  <2>1. Alongside(l)
    BY <1>26 DEF ScanNew, Alongside, Grown
  <2>2. ~(lane'[l].pc \in {"sync", "loop", "line", "flag", "link", "settle"})
    BY <1>26 DEF ScanNew
  <2> QED
    BY <2>1, <2>2, <1>a, <1>w
<1>27. ASSUME NEW engine \in {Live, Backfill}, Crash(engine) PROVE Looped'
  <2>1. ASSUME NEW m \in Lane PROVE LoopedAt(m)'
    <3>1. CASE m \in engine
      <4>1. lane'[m] = Idle
        BY <1>27, <3>1 DEF Crash
      <4> QED
        BY <4>1, <1>w
    <3>2. CASE m \notin engine
      <4>1. lane'[m] = lane[m] /\ Grown /\ UNCHANGED <<ledger, partial, unflagged>>
        BY <1>27, <3>2 DEF Crash, Grown
      <4>2. LoopedAt(m)
        BY DEF Looped
      <4> QED
        BY <4>1, <4>2, LoopedElsewhere
    <3> QED
      BY <3>1, <3>2
  <2> QED
    BY <2>1 DEF Looped
<1>28. ASSUME NEW o \in Order, SettleHeld(o) PROVE Looped'
    BY <1>28, <1>u DEF SettleHeld
<1>29. ASSUME NEW o \in Order, Reindex(o) PROVE Looped'
    BY <1>29, <1>u DEF Reindex
<1>30. ASSUME NEW o \in Order, Approve(o) PROVE Looped'
    BY <1>30, <1>u DEF Approve
<1>31. ASSUME NEW o \in Order, Withdraw(o) PROVE Looped'
    BY <1>31, <1>u DEF Withdraw
<1>32. CASE UNCHANGED vars
    BY <1>32, <1>u DEF vars
<1>33. ASSUME NEW l \in Lane, SetSynced(l) PROVE Looped'
  <2>1. At(l, "sync") /\ Oid(l) \in Order /\ LoopedAt(l)
    BY <1>33 DEF SetSynced, Looped
  <2>2. Grown /\ (\A m \in Lane : m # l => lane'[m] = lane[m])
        /\ UNCHANGED <<keys, ledger, refused, unflagged>>
    BY <1>33 DEF SetSynced, Grown
  <2>3. partial \ {Oid(l)} \subseteq partial'
    BY <1>33 DEF SetSynced
  <2>4. ASSUME NEW m \in Lane, m # l, Creating(m), Oid(m) = Oid(l) PROVE Complete(Oid(m))
    <3>1. lane[l].way # "fresh"
      BY <2>1, <2>4 DEF Alone, Creating
    <3> QED
      BY <2>1, <2>4, <3>1 DEF LoopedAt
  <2>5. ASSUME NEW m \in Lane, m # l PROVE LoopedAt(m)'
    <3>1. Creating(m) /\ Oid(m) \in partial \cup unflagged =>
            Complete(Oid(m)) \/ Oid(m) \in (partial \cup unflagged)'
      BY <2>2, <2>3, <2>4, <2>5
    <3>2. LoopedAt(m) /\ lane'[m] = lane[m]
      BY <2>2, <2>5 DEF Looped
    <3> QED
      BY <2>2, <3>1, <3>2, LoopedElsewhere
  <2>6. LoopedAt(l)'
    <3>1. /\ lane'[l].pc = IF lane[l].way = "fresh" THEN "loop" ELSE "settle"
          /\ lane'[l].way = lane[l].way /\ lane'[l].todo = lane[l].todo
          /\ lane'[l].oid = lane[l].oid
      BY <1>33 DEF SetSynced
    <3>2. CASE lane[l].way = "fresh"
      BY <2>1, <3>1, <3>2 DEF LoopedAt
    <3>3. CASE lane[l].way # "fresh"
      BY <2>1, <2>2, <3>1, <3>3 DEF LoopedAt, Complete
    <3> QED
      BY <3>2, <3>3
  <2> QED
    BY <2>5, <2>6 DEF Looped
<1>34. ASSUME NEW l \in Lane, FlagPartial(l) PROVE Looped'
  <2>1. PICK i \in Item : lane[l].line \in LinesOf(i)
    BY <1>34 DEF FlagPartial
  <2>2. lane[l].line = <<i, Whole>> /\ Oid(l) \in Order /\ At(l, "flag") /\ LoopedAt(l)
    BY <1>34, <2>1 DEF Plain, LinesOf, FlagPartial, Looped
  <2>3. lane' = [lane EXCEPT ![l].pc = "loop", ![l].line = Idle.line, ![l].comps = {}]
    BY <1>34, <2>2 DEF FlagPartial
  <2>4. partial' \cup unflagged' = partial \cup unflagged \cup {Oid(l)}
    BY <1>34 DEF FlagPartial
  <2>5. UNCHANGED <<keys, ledger, refused>>
    BY <1>34 DEF FlagPartial
  <2>6. Alongside(l)
    BY <2>3, <2>4, <2>5 DEF Alongside, Grown
  <2>7. /\ lane'[l].pc = "loop" /\ lane'[l].todo = lane[l].todo /\ lane'[l].way = lane[l].way
        /\ lane'[l].err = lane[l].err /\ lane'[l].oid = lane[l].oid
    BY <2>3
  <2>8. <<i, Whole>> \in refused[Oid(l)] /\ lane[l].line[1] = i
    BY <2>2 DEF LoopedAt
  <2>9. LoopedAt(l)'
    BY <2>2, <2>4, <2>5, <2>7, <2>8 DEF LoopedAt, Through
  <2> QED
    BY <2>6, <2>9, <1>a
<1> QED
    BY <1>1, <1>2, <1>3, <1>4, <1>5, <1>6, <1>7, <1>8, <1>9, <1>10, <1>11, <1>12, <1>13,
       <1>14, <1>15, <1>16, <1>17, <1>18, <1>19, <1>20, <1>21, <1>22, <1>23, <1>24, <1>25,
       <1>26, <1>27, <1>28, <1>29, <1>30, <1>31, <1>32, <1>33,
       <1>34 DEF Next, Work

\* The ledger gets the order of a lane that settles; line items are never taken
\* away, and nobody resets the status of a ledgered order that is short.
LEMMA AccountedStep ==
  TypeOK /\ InHand /\ Looped /\ Accounted /\ [Next]_vars => Accounted'
<1> SUFFICES ASSUME TypeOK, InHand, Looped, Accounted, [Next]_vars PROVE Accounted'
    OBVIOUS
<1>g. ASSUME Grown, partial \cup unflagged \subseteq (partial \cup unflagged)', UNCHANGED ledger
      PROVE  Accounted'
    BY <1>g DEF Accounted, Grown, Complete, TypeOK
<1> USE OrderSyncAssumption DEF TypeOK, InHand, Grown, Lane, At, Oid, Fault, hubspot, queue, status
<1>1. ASSUME NEW l \in Lane, LedgerHit(l) PROVE Accounted'
    BY <1>1, <1>g DEF LedgerHit
<1>2. ASSUME NEW l \in Lane, Search(l) PROVE Accounted'
    BY <1>2, <1>g DEF Search
<1>3. ASSUME NEW l \in Lane, Rekey(l) PROVE Accounted'
    BY <1>3, <1>g DEF Rekey
<1>4. ASSUME NEW l \in Lane, Verify(l) PROVE Accounted'
    BY <1>4, <1>g DEF Verify
<1>5. ASSUME NEW l \in Lane, Count(l) PROVE Accounted'
    BY <1>5, <1>g DEF Count
<1>6. ASSUME NEW l \in Lane, Fetch(l) PROVE Accounted'
    BY <1>6, <1>g DEF Fetch
<1>7. ASSUME NEW l \in Lane, FetchMiss(l) PROVE Accounted'
    BY <1>7, <1>g DEF FetchMiss
<1>8. ASSUME NEW l \in Lane, FetchFails(l) PROVE Accounted'
    BY <1>8, <1>g DEF FetchFails
<1>9. ASSUME NEW l \in Lane, Gate(l) PROVE Accounted'
    BY <1>9, <1>g DEF Gate
<1>10. ASSUME NEW l \in Lane, Create(l) PROVE Accounted'
    BY <1>10, <1>g DEF Create
<1>11. ASSUME NEW l \in Lane, CreateFails(l) PROVE Accounted'
    BY <1>11, <1>g DEF CreateFails
<1>12. ASSUME NEW l \in Lane, Duplicate(l) PROVE Accounted'
    BY <1>12, <1>g DEF Duplicate
<1>13. ASSUME NEW l \in Lane, Present(l) PROVE Accounted'
    BY <1>13, <1>g DEF Present
<1>14. ASSUME NEW l \in Lane, Reread(l) PROVE Accounted'
    BY <1>14, <1>g DEF Reread
<1>15. ASSUME NEW l \in Lane, StartItem(l) PROVE Accounted'
    BY <1>15, <1>g DEF StartItem
<1>16. ASSUME NEW l \in Lane, ItemRaises(l) PROVE Accounted'
    BY <1>16, <1>g DEF ItemRaises
<1>17. ASSUME NEW l \in Lane, MakeLine(l) PROVE Accounted'
    BY <1>17, <1>g DEF MakeLine
<1>18. ASSUME NEW l \in Lane, RefuseLine(l) PROVE Accounted'
    BY <1>18, <1>g DEF RefuseLine
<1>19. ASSUME NEW l \in Lane, Link(l) PROVE Accounted'
    BY <1>19, <1>g DEF Link
<1>20. ASSUME NEW l \in Lane, ComponentsRaise(l) PROVE Accounted'
    BY <1>20, <1>g DEF ComponentsRaise
<1>21. ASSUME NEW l \in Lane, Finish(l) PROVE Accounted'
    BY <1>21, <1>g DEF Finish
<1>22. ASSUME NEW l \in Lane, Settle(l) PROVE Accounted'
  <2>1. /\ At(l, "settle") /\ Oid(l) \in Order /\ LoopedAt(l)
        /\ ledger' = ledger \cup {Oid(l)} /\ UNCHANGED <<keys, partial, refused, unflagged>>
    BY <1>22 DEF Settle, Looped
  <2>2. AllLines \ keys[Oid(l)] \subseteq refused[Oid(l)]
    BY <2>1 DEF LoopedAt, Through, Complete
  <2>3. Complete(Oid(l)) \/ Oid(l) \in partial \cup unflagged
    BY <2>1 DEF LoopedAt, Through, Complete
  <2> QED
    BY <2>1, <2>2, <2>3 DEF Accounted, Complete
<1>23. ASSUME NEW l \in Lane, Mark(l) PROVE Accounted'
    BY <1>23, <1>g DEF Mark
<1>24. ASSUME NEW l \in Lane, NEW o \in Order, Claim(l, o) PROVE Accounted'
    BY <1>24, <1>g DEF Claim
<1>25. ASSUME NEW l \in Lane, NEW o \in Order, ScanSkip(l, o) PROVE Accounted'
    BY <1>25, <1>g DEF ScanSkip
<1>26. ASSUME NEW l \in Lane, NEW o \in Order, ScanNew(l, o) PROVE Accounted'
    BY <1>26, <1>g DEF ScanNew
<1>27. ASSUME NEW engine \in {Live, Backfill}, Crash(engine) PROVE Accounted'
    BY <1>27, <1>g DEF Crash
<1>28. ASSUME NEW o \in Order, SettleHeld(o) PROVE Accounted'
    BY <1>28, <1>g DEF SettleHeld
<1>29. ASSUME NEW o \in Order, Reindex(o) PROVE Accounted'
    BY <1>29, <1>g DEF Reindex
<1>30. ASSUME NEW o \in Order, Approve(o) PROVE Accounted'
    BY <1>30, <1>g DEF Approve
<1>31. ASSUME NEW o \in Order, Withdraw(o) PROVE Accounted'
    BY <1>31, <1>g DEF Withdraw
<1>32. CASE UNCHANGED vars
    BY <1>32, <1>g DEF vars
<1>33. ASSUME NEW l \in Lane, SetSynced(l) PROVE Accounted'
  <2>1. At(l, "sync") /\ LoopedAt(l) /\ partial \ {Oid(l)} \subseteq partial'
    BY <1>33 DEF SetSynced, Looped
  <2>2. UNCHANGED <<keys, ledger, refused, unflagged>>
    BY <1>33 DEF SetSynced
  <2>3. Oid(l) \in ledger => Complete(Oid(l))
    BY <2>1 DEF LoopedAt
  <2> QED
    BY <2>1, <2>2, <2>3 DEF Accounted, Complete
<1>34. ASSUME NEW l \in Lane, FlagPartial(l) PROVE Accounted'
    BY <1>34, <1>g DEF FlagPartial
<1> QED
    BY <1>1, <1>2, <1>3, <1>4, <1>5, <1>6, <1>7, <1>8, <1>9, <1>10, <1>11, <1>12, <1>13,
       <1>14, <1>15, <1>16, <1>17, <1>18, <1>19, <1>20, <1>21, <1>22, <1>23, <1>24, <1>25,
       <1>26, <1>27, <1>28, <1>29, <1>30, <1>31, <1>32, <1>33,
       <1>34 DEF Next, Work

\* A ledgered order of plain products lacks no line item but those HubSpot refused,
\* and HubSpot shows it as partial, unless the write of that flag failed too,
\* whatever crashes, races or fails otherwise.
THEOREM AccountedHolds ==
  ASSUME Plain, Counted
  PROVE  Spec => []Accounted
<1>1. Init => Alone /\ Looped /\ Accounted
    BY DEF Init, Alone, Creating, Looped, LoopedAt, Accounted, Idle, At
<1>2. Safe /\ Alone /\ Looped /\ Accounted /\ [Next]_vars => (Alone /\ Looped /\ Accounted)'
    BY AloneStep, LoopedStep, AccountedStep DEF Safe
<1> QED
    BY SafeAlways, <1>1, <1>2, PTL DEF Spec
=============================================================================

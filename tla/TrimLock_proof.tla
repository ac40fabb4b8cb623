--------------------------- MODULE TrimLock_proof ---------------------------
(***************************************************************************)
(* Proofs about TrimLock: whatever the number of processes, crashes and    *)
(* takeovers, at most one process deletes rows, and a tool that asks sees  *)
(* it. The argument is IInv: a process past its O_EXCL create owns the     *)
(* file in place; what a contender reads of an owned file makes it look    *)
(* live; so a file on its way to being taken over has no owner.            *)
(***************************************************************************)
EXTENDS TrimLock, TLAPS

\* The initial state satisfies the invariant.
LEMMA InitIInv == Init => IInv
<1> USE NobodyAssumption, BoundAssumption
<1> QED
    BY DEF Init, IInv, TypeOK, StampsInv, OwnerInv, JudgeInv, TakeoverInv, Owned,
           LockExists, NoLock, NoHolder, Pcs, Entering, Owning

\* Every step keeps the types.
LEMMA TypeStep == TypeOK /\ [Next]_vars => TypeOK'
<1> SUFFICES ASSUME TypeOK, [Next]_vars PROVE TypeOK'
    OBVIOUS
<1> USE NobodyAssumption, BoundAssumption
    DEF TypeOK, Pcs, Entering, Owning, Goto, Forget, Again, NoLock, NoHolder, attempt,
        PidInFile
<1>1. CASE TwoHours
    BY <1>1 DEF TwoHours
<1>2. ASSUME NEW p \in Proc, Begin(p) PROVE TypeOK'
    BY <1>2 DEF Begin
<1>3. ASSUME NEW p \in Proc, Create(p) PROVE TypeOK'
    BY <1>3 DEF Create
<1>4. ASSUME NEW p \in Proc, Exists(p) PROVE TypeOK'
    BY <1>4 DEF Exists
<1>5. ASSUME NEW p \in Proc, GiveUp(p) PROVE TypeOK'
    BY <1>5 DEF GiveUp
<1>6. ASSUME NEW p \in Proc, Stat(p) PROVE TypeOK'
    BY <1>6 DEF Stat
<1>7. ASSUME NEW p \in Proc, Read(p) PROVE TypeOK'
    BY <1>7 DEF Read
<1>8. ASSUME NEW p \in Proc, Refused(p) PROVE TypeOK'
    BY <1>8 DEF Refused
<1>9. ASSUME NEW p \in Proc, Stale(p) PROVE TypeOK'
    BY <1>9 DEF Stale
<1>10. ASSUME NEW p \in Proc, TakeGuard(p) PROVE TypeOK'
    BY <1>10 DEF TakeGuard
<1>11. ASSUME NEW p \in Proc, GuardStat(p) PROVE TypeOK'
    BY <1>11 DEF GuardStat
<1>12. ASSUME NEW p \in Proc, GuardRead(p) PROVE TypeOK'
    BY <1>12 DEF GuardRead, SameAsJudged
<1>13. ASSUME NEW p \in Proc, Unlink(p) PROVE TypeOK'
    BY <1>13 DEF Unlink
<1>14. ASSUME NEW p \in Proc, WriteLine(p) PROVE TypeOK'
  <2>0. PICK m \in {mine[p], clock + 1} :
           /\ mine' = [mine EXCEPT ![p] = m]
           /\ lock' = IF lock.mtime = mine[p] THEN [lock EXCEPT !.mtime = m, !.line = TRUE]
                                              ELSE lock
    BY <1>14 DEF WriteLine
  <2>1. m \in Nat
    BY <2>0
  <2>2. lock' \in [mtime : Nat, by : Proc \cup {Nobody}, line : BOOLEAN] /\ mine' \in [Proc -> Nat]
    BY <2>0, <2>1
  <2>3. /\ clock' \in Nat /\ pc' \in [Proc -> Pcs] /\ tries' \in [Proc -> Nat]
        /\ since' \in [Proc -> Nat] /\ UNCHANGED <<old, guard, birth, creates, crashes>>
        /\ h' \in [Proc -> [pid : Proc \cup {Nobody}, mtime : Nat, again : Nat]]
    BY <1>14 DEF WriteLine
  <2> QED
    BY <2>2, <2>3
<1>15. ASSUME NEW p \in Proc, WriteFails(p) PROVE TypeOK'
    BY <1>15 DEF WriteFails
<1>16. ASSUME NEW p \in Proc, ExitRead(p) PROVE TypeOK'
    BY <1>16 DEF ExitRead
<1>17. ASSUME NEW p \in Proc, ExitUnlink(p) PROVE TypeOK'
    BY <1>17 DEF ExitUnlink
<1>18. ASSUME NEW p \in Proc, Crash(p) PROVE TypeOK'
    BY <1>18 DEF Crash
<1>19. ASSUME NEW p \in Proc, Restart(p) PROVE TypeOK'
    BY <1>19 DEF Restart
<1>20. CASE UNCHANGED vars
    BY <1>20 DEF vars
<1> QED
    BY <1>1, <1>2, <1>3, <1>4, <1>5, <1>6, <1>7, <1>8, <1>9, <1>10, <1>11, <1>12, <1>13, <1>14, <1>15, <1>16, <1>17, <1>18, <1>19, <1>20 DEF Next, Step

\* The invariant is inductive: one step of the proof per action that can
\* disturb one of its parts.
LEMMA StepIInv == IInv /\ [Next]_vars => IInv'
<1> SUFFICES ASSUME IInv, [Next]_vars PROVE IInv'
    OBVIOUS
<1>t. TypeOK /\ TypeOK'
    BY TypeStep DEF IInv
<1> USE <1>t, NobodyAssumption, BoundAssumption DEF IInv
<1> DEFINE Rest == StampsInv /\ OwnerInv /\ JudgeInv /\ TakeoverInv
<1> USE DEF Goto, Forget, Again, NoLock, NoHolder, attempt, LockExists
<1>1. CASE TwoHours
  <2>1. StampsInv' /\ OwnerInv' /\ TakeoverInv'
    BY <1>1 DEF TwoHours, StampsInv, OwnerInv, TakeoverInv, TypeOK, Owned, Owning, Entering
  <2>2. JudgeInv'
    BY <1>1 DEF TwoHours, StampsInv, OwnerInv, JudgeInv, TypeOK, Owned, Owning, Entering
  <2> QED
    BY <2>1, <2>2
<1>2. ASSUME NEW p \in Proc, Begin(p) PROVE Rest'
  <2>1. StampsInv'
    BY <1>2 DEF Begin, StampsInv, OwnerInv, TypeOK
  <2>2. OwnerInv'
    BY <1>2 DEF Begin, StampsInv, OwnerInv, TakeoverInv, TypeOK, Owned, Owning
  <2>3. JudgeInv'
    BY <1>2 DEF Begin, StampsInv, OwnerInv, JudgeInv, TypeOK, Owned, Owning
  <2>4. TakeoverInv'
    BY <1>2 DEF Begin, StampsInv, OwnerInv, JudgeInv, TakeoverInv, TypeOK, Owned, Owning
  <2> QED
    BY <2>1, <2>2, <2>3, <2>4
<1>3. ASSUME NEW p \in Proc, Create(p) PROVE Rest'
  <2>1. StampsInv'
    BY <1>3 DEF Create, StampsInv, OwnerInv, TypeOK
  <2>2. OwnerInv'
    BY <1>3 DEF Create, StampsInv, OwnerInv, TakeoverInv, TypeOK, Owned, Owning
  <2>3. JudgeInv'
    BY <1>3 DEF Create, StampsInv, OwnerInv, JudgeInv, TypeOK, Owned, Owning
  <2>4. TakeoverInv'
    BY <1>3 DEF Create, StampsInv, OwnerInv, JudgeInv, TakeoverInv, TypeOK, Owned, Owning
  <2> QED
    BY <2>1, <2>2, <2>3, <2>4
<1>4. ASSUME NEW p \in Proc, Exists(p) PROVE Rest'
  <2>1. StampsInv'
    BY <1>4 DEF Exists, StampsInv, OwnerInv, TypeOK
  <2>2. OwnerInv'
    BY <1>4 DEF Exists, StampsInv, OwnerInv, TakeoverInv, TypeOK, Owned, Owning
  <2>3. JudgeInv'
    BY <1>4 DEF Exists, StampsInv, OwnerInv, JudgeInv, TypeOK, Owned, Owning
  <2>4. TakeoverInv'
    BY <1>4 DEF Exists, StampsInv, OwnerInv, JudgeInv, TakeoverInv, TypeOK, Owned, Owning
  <2> QED
    BY <2>1, <2>2, <2>3, <2>4
<1>5. ASSUME NEW p \in Proc, GiveUp(p) PROVE Rest'
  <2>1. StampsInv'
    BY <1>5 DEF GiveUp, StampsInv, OwnerInv, TypeOK
  <2>2. OwnerInv'
    BY <1>5 DEF GiveUp, StampsInv, OwnerInv, TakeoverInv, TypeOK, Owned, Owning
  <2>3. JudgeInv'
    BY <1>5 DEF GiveUp, StampsInv, OwnerInv, JudgeInv, TypeOK, Owned, Owning
  <2>4. TakeoverInv'
    BY <1>5 DEF GiveUp, StampsInv, OwnerInv, JudgeInv, TakeoverInv, TypeOK, Owned, Owning
  <2> QED
    BY <2>1, <2>2, <2>3, <2>4
<1>6. ASSUME NEW p \in Proc, Stat(p) PROVE Rest'
  <2>1. StampsInv'
    BY <1>6 DEF Stat, StampsInv, OwnerInv, TypeOK
  <2>2. OwnerInv'
    BY <1>6 DEF Stat, StampsInv, OwnerInv, TakeoverInv, TypeOK, Owned, Owning
  <2>3. JudgeInv'
    BY <1>6 DEF Stat, StampsInv, OwnerInv, JudgeInv, TypeOK, Owned, Owning
  <2>4. TakeoverInv'
    BY <1>6 DEF Stat, StampsInv, OwnerInv, JudgeInv, TakeoverInv, TypeOK, Owned, Owning
  <2> QED
    BY <2>1, <2>2, <2>3, <2>4
<1>7. ASSUME NEW p \in Proc, Read(p) PROVE Rest'
  <2>1. StampsInv'
    BY <1>7 DEF Read, PidInFile, StampsInv, OwnerInv, TypeOK
  <2>2. OwnerInv'
    BY <1>7 DEF Read, PidInFile, StampsInv, OwnerInv, TakeoverInv, TypeOK, Owned, Owning
  <2>3. JudgeInv'
    BY <1>7 DEF Read, PidInFile, StampsInv, OwnerInv, JudgeInv, TypeOK, Owned, Owning
  <2>4. TakeoverInv'
    BY <1>7 DEF Read, PidInFile, StampsInv, OwnerInv, JudgeInv, TakeoverInv, TypeOK, Owned, Owning
  <2> QED
    BY <2>1, <2>2, <2>3, <2>4
<1>8. ASSUME NEW p \in Proc, Refused(p) PROVE Rest'
  <2>1. StampsInv'
    BY <1>8 DEF Refused, StampsInv, OwnerInv, TypeOK
  <2>2. OwnerInv'
    BY <1>8 DEF Refused, StampsInv, OwnerInv, TakeoverInv, TypeOK, Owned, Owning
  <2>3. JudgeInv'
    BY <1>8 DEF Refused, StampsInv, OwnerInv, JudgeInv, TypeOK, Owned, Owning
  <2>4. TakeoverInv'
    BY <1>8 DEF Refused, StampsInv, OwnerInv, JudgeInv, TakeoverInv, TypeOK, Owned, Owning
  <2> QED
    BY <2>1, <2>2, <2>3, <2>4
<1>9. ASSUME NEW p \in Proc, Stale(p) PROVE Rest'
  <2>0. lock.mtime = h[p].mtime => ~Owned
    BY <1>9 DEF Stale, HolderLive, StampsInv, OwnerInv, JudgeInv, TypeOK, Owned, Owning
  <2>1. StampsInv'
    BY <1>9 DEF Stale, StampsInv, OwnerInv, TypeOK
  <2>2. OwnerInv'
    BY <1>9, <2>0 DEF Stale, StampsInv, OwnerInv, TakeoverInv, TypeOK, Owned, Owning
  <2>3. JudgeInv'
    BY <1>9, <2>0 DEF Stale, StampsInv, OwnerInv, JudgeInv, TypeOK, Owned, Owning
  <2>4. TakeoverInv'
    BY <1>9, <2>0 DEF Stale, StampsInv, OwnerInv, JudgeInv, TakeoverInv, TypeOK, Owned, Owning
  <2> QED
    BY <2>1, <2>2, <2>3, <2>4
<1>10. ASSUME NEW p \in Proc, TakeGuard(p) PROVE Rest'
  <2>1. StampsInv'
    BY <1>10 DEF TakeGuard, StampsInv, OwnerInv, TypeOK
  <2>2. OwnerInv'
    BY <1>10 DEF TakeGuard, StampsInv, OwnerInv, TakeoverInv, TypeOK, Owned, Owning
  <2>3. JudgeInv'
    BY <1>10 DEF TakeGuard, StampsInv, OwnerInv, JudgeInv, TypeOK, Owned, Owning
  <2>4. TakeoverInv'
    BY <1>10 DEF TakeGuard, StampsInv, OwnerInv, JudgeInv, TakeoverInv, TypeOK, Owned, Owning
  <2> QED
    BY <2>1, <2>2, <2>3, <2>4
<1>11. ASSUME NEW p \in Proc, GuardStat(p) PROVE Rest'
  <2>1. StampsInv'
    BY <1>11 DEF GuardStat, StampsInv, OwnerInv, TypeOK
  <2>2. OwnerInv'
    BY <1>11 DEF GuardStat, StampsInv, OwnerInv, TakeoverInv, TypeOK, Owned, Owning
  <2>3. JudgeInv'
    BY <1>11 DEF GuardStat, StampsInv, OwnerInv, JudgeInv, TypeOK, Owned, Owning
  <2>4. TakeoverInv'
    BY <1>11 DEF GuardStat, StampsInv, OwnerInv, JudgeInv, TakeoverInv, TypeOK, Owned, Owning
  <2> QED
    BY <2>1, <2>2, <2>3, <2>4
<1>12. ASSUME NEW p \in Proc, GuardRead(p) PROVE Rest'
  <2>1. StampsInv'
    BY <1>12 DEF GuardRead, SameAsJudged, StampsInv, OwnerInv, TypeOK
  <2>2. OwnerInv'
    BY <1>12 DEF GuardRead, SameAsJudged, StampsInv, OwnerInv, TakeoverInv, TypeOK, Owned, Owning
  <2>3. JudgeInv'
    BY <1>12 DEF GuardRead, SameAsJudged, StampsInv, OwnerInv, JudgeInv, TypeOK, Owned, Owning
  <2>4. TakeoverInv'
    BY <1>12 DEF GuardRead, SameAsJudged, StampsInv, OwnerInv, JudgeInv, TakeoverInv, TypeOK, Owned, Owning
  <2> QED
    BY <2>1, <2>2, <2>3, <2>4
<1>13. ASSUME NEW p \in Proc, Unlink(p) PROVE Rest'
  <2>1. StampsInv'
    BY <1>13 DEF Unlink, StampsInv, OwnerInv, TypeOK
  <2>2. OwnerInv'
    BY <1>13 DEF Unlink, StampsInv, OwnerInv, TakeoverInv, TypeOK, Owned, Owning
  <2>3. JudgeInv'
    BY <1>13 DEF Unlink, StampsInv, OwnerInv, JudgeInv, TypeOK, Owned, Owning
  <2>4. TakeoverInv'
    BY <1>13 DEF Unlink, StampsInv, OwnerInv, JudgeInv, TakeoverInv, TypeOK, Owned, Owning
  <2> QED
    BY <2>1, <2>2, <2>3, <2>4
<1>14. ASSUME NEW p \in Proc, WriteLine(p) PROVE Rest'
  <2>0. PICK m \in {mine[p], clock + 1} :
           /\ mine' = [mine EXCEPT ![p] = m]
           /\ lock' = IF lock.mtime = mine[p] THEN [lock EXCEPT !.mtime = m, !.line = TRUE]
                                              ELSE lock
    BY <1>14 DEF WriteLine
  <2>1. StampsInv'
    <3>1. UNCHANGED <<old, birth>> /\ clock' = clock + 1 /\ pc[p] \in Owning
      BY <1>14 DEF WriteLine, Owning
    <3>2. \A q \in Proc : since'[q] \in {since[q], 0} /\ h'[q].mtime \in {h[q].mtime, 0}
      BY <1>14 DEF WriteLine, TypeOK
    <3>3. lock'.mtime \in {lock.mtime, clock + 1} /\ lock'.by = lock.by /\ lock.by \in Proc
      BY <2>0, <3>1 DEF StampsInv, OwnerInv, TypeOK
    <3>4. \A q \in Proc : birth'[q] <= clock' + 1
      BY <3>1 DEF StampsInv, TypeOK
    <3>5. \A q \in Proc : since'[q] <= clock' /\ h'[q].mtime <= clock'
      BY <3>1, <3>2 DEF StampsInv, TypeOK
    <3>6. lock'.mtime <= clock' /\ old' <= clock'
      BY <3>1, <3>3 DEF StampsInv, TypeOK
    <3> QED
      BY <3>3, <3>4, <3>5, <3>6 DEF StampsInv
  <2>2. OwnerInv'
    BY <1>14 DEF WriteLine, StampsInv, OwnerInv, TakeoverInv, TypeOK, Owned, Owning
  <2>3. JudgeInv'
    BY <1>14 DEF WriteLine, StampsInv, OwnerInv, JudgeInv, TypeOK, Owned, Owning
  <2>4. TakeoverInv'
    BY <1>14 DEF WriteLine, StampsInv, OwnerInv, JudgeInv, TakeoverInv, TypeOK, Owned, Owning
  <2> QED
    BY <2>1, <2>2, <2>3, <2>4
<1>15. ASSUME NEW p \in Proc, WriteFails(p) PROVE Rest'
  <2>1. StampsInv'
    BY <1>15 DEF WriteFails, StampsInv, OwnerInv, TypeOK
  <2>2. OwnerInv'
    BY <1>15 DEF WriteFails, StampsInv, OwnerInv, TakeoverInv, TypeOK, Owned, Owning
  <2>3. JudgeInv'
    BY <1>15 DEF WriteFails, StampsInv, OwnerInv, JudgeInv, TypeOK, Owned, Owning
  <2>4. TakeoverInv'
    BY <1>15 DEF WriteFails, StampsInv, OwnerInv, JudgeInv, TakeoverInv, TypeOK, Owned, Owning
  <2> QED
    BY <2>1, <2>2, <2>3, <2>4
<1>16. ASSUME NEW p \in Proc, ExitRead(p) PROVE Rest'
  <2>1. StampsInv'
    BY <1>16 DEF ExitRead, PidInFile, StampsInv, OwnerInv, TypeOK
  <2>2. OwnerInv'
    BY <1>16 DEF ExitRead, PidInFile, StampsInv, OwnerInv, TakeoverInv, TypeOK, Owned, Owning
  <2>3. JudgeInv'
    BY <1>16 DEF ExitRead, PidInFile, StampsInv, OwnerInv, JudgeInv, TypeOK, Owned, Owning
  <2>4. TakeoverInv'
    BY <1>16 DEF ExitRead, PidInFile, StampsInv, OwnerInv, JudgeInv, TakeoverInv, TypeOK, Owned, Owning
  <2> QED
    BY <2>1, <2>2, <2>3, <2>4
<1>17. ASSUME NEW p \in Proc, ExitUnlink(p) PROVE Rest'
  <2>1. StampsInv'
    BY <1>17 DEF ExitUnlink, StampsInv, OwnerInv, TypeOK
  <2>2. OwnerInv'
    BY <1>17 DEF ExitUnlink, StampsInv, OwnerInv, TakeoverInv, TypeOK, Owned, Owning
  <2>3. JudgeInv'
    BY <1>17 DEF ExitUnlink, StampsInv, OwnerInv, JudgeInv, TypeOK, Owned, Owning
  <2>4. TakeoverInv'
    BY <1>17 DEF ExitUnlink, StampsInv, OwnerInv, JudgeInv, TakeoverInv, TypeOK, Owned, Owning
  <2> QED
    BY <2>1, <2>2, <2>3, <2>4
<1>18. ASSUME NEW p \in Proc, Crash(p) PROVE Rest'
  <2>1. StampsInv'
    BY <1>18 DEF Crash, StampsInv, OwnerInv, TypeOK
  <2>2. OwnerInv'
    BY <1>18 DEF Crash, StampsInv, OwnerInv, TakeoverInv, TypeOK, Owned, Owning
  <2>3. JudgeInv'
    BY <1>18 DEF Crash, StampsInv, OwnerInv, JudgeInv, TypeOK, Owned, Owning
  <2>4. TakeoverInv'
    BY <1>18 DEF Crash, StampsInv, OwnerInv, JudgeInv, TakeoverInv, TypeOK, Owned, Owning
  <2> QED
    BY <2>1, <2>2, <2>3, <2>4
<1>19. ASSUME NEW p \in Proc, Restart(p) PROVE Rest'
  <2>1. StampsInv'
    BY <1>19 DEF Restart, StampsInv, OwnerInv, TypeOK
  <2>2. OwnerInv'
    BY <1>19 DEF Restart, StampsInv, OwnerInv, TakeoverInv, TypeOK, Owned, Owning
  <2>3. JudgeInv'
    BY <1>19 DEF Restart, StampsInv, OwnerInv, JudgeInv, TypeOK, Owned, Owning
  <2>4. TakeoverInv'
    BY <1>19 DEF Restart, StampsInv, OwnerInv, JudgeInv, TakeoverInv, TypeOK, Owned, Owning
  <2> QED
    BY <2>1, <2>2, <2>3, <2>4
<1>20. CASE UNCHANGED vars
    BY <1>20 DEF vars, StampsInv, OwnerInv, JudgeInv, TakeoverInv, Owned
<1> QED
    BY <1>1, <1>2, <1>3, <1>4, <1>5, <1>6, <1>7, <1>8, <1>9, <1>10, <1>11, <1>12, <1>13, <1>14, <1>15, <1>16, <1>17, <1>18, <1>19, <1>20 DEF Next, Step

\* The state of trim_lock always has the types and the shape IInv states.
THEOREM Invariance == Spec => []IInv
BY InitIInv, StepIInv, PTL DEF Spec

\* The variables of trim_lock keep their types.
THEOREM TypeCorrect == Spec => []TypeOK
<1>1. IInv => TypeOK
    BY DEF IInv
<1> QED
    BY <1>1, Invariance, PTL

\* At most one process is between its successful __enter__ and the end of its
\* __exit__, so two daily trims never delete rows together.
THEOREM Exclusion == Spec => []MutualExclusion
<1>1. IInv => MutualExclusion
    BY DEF IInv, OwnerInv, MutualExclusion, Owning
<1> QED
    BY <1>1, Invariance, PTL

\* A tool that calls trim_lock_active during a trim is told so.
THEOREM Visibility == Spec => []TrimVisible
<1>1. IInv => TrimVisible
    BY BoundAssumption, NobodyAssumption
    DEF IInv, TypeOK, OwnerInv, TrimVisible, Owning, PidInFile, HolderLive, LockExists
<1> QED
    BY <1>1, Invariance, PTL
=============================================================================

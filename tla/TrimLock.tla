------------------------------ MODULE TrimLock ------------------------------
(***************************************************************************)
(* The owner-aware trim lock of realtime_base.py: mirror/trim.lock, held   *)
(* for the time a process deletes rows of a queue tab.                     *)
(*                                                                         *)
(* A lock is a file. It is created with O_EXCL, then its line "<pid> ..."  *)
(* is written, so another process can read it empty in between.  A reader  *)
(* stats the file first and reads it second: the two may be different      *)
(* files.  A lock whose writer died is taken over: judged stale without a  *)
(* guard, then compared again and unlinked under an flock.                 *)
(*                                                                         *)
(* A process of this module is a pid: after Crash(p), Restart(p) is a new  *)
(* process that the kernel gave the same pid.                              *)
(***************************************************************************)
EXTENDS Naturals

CONSTANTS
    Proc,         \* the pids of the processes that trim
    Nobody,       \* no pid: no owner, or a lock whose pid cannot be read
    Rounding,     \* slack of the start-time test (2 s in the code)
    MaxCreates,   \* bound: attempts begin while fewer locks were created
    MaxCrashes    \* bound on crashes

ASSUME NobodyAssumption == Nobody \notin Proc
ASSUME BoundAssumption ==
    Rounding \in Nat /\ MaxCreates \in Nat /\ MaxCrashes \in Nat

VARIABLES
    lock,      \* the file: its mtime (0: no file), creator and whether the line is in
    clock,     \* ticks when a lock is created or its line is written
    old,       \* a lock with an mtime up to this one is two hours old
    guard,     \* who holds the flock of trim.lock.guard
    pc,        \* where each process is in trim_lock
    tries,     \* attempts left of the loop in __enter__
    h,         \* the holder __enter__ judges: pid, mtime, mtime of the second look
    mine,      \* the mtime of the file the process created
    birth,     \* when the process of this pid started
    since,     \* when the running attempt began
    creates,   \* locks created so far
    crashes    \* crashes so far

attempt == <<tries, h, since>>
vars == <<lock, clock, old, guard, pc, attempt, mine, birth, creates, crashes>>

NoLock == [mtime |-> 0, by |-> Nobody, line |-> FALSE]
NoHolder == [pid |-> Nobody, mtime |-> 0, again |-> 0]

\* Inside __enter__: between two of its system calls.
Entering == {"open", "stat", "read", "judge", "guard", "gstat", "gread", "unlink", "write"}
\* The process created the file in place and has not yet let go of it.
Owning == {"write", "held", "release"}
Pcs == {"idle", "dead"} \cup Entering \cup Owning

LockExists == lock.mtime # 0

\* A defect: the wrong field of the line is taken for the pid.
PidInFileOther == IF lock.line THEN lock.mtime ELSE Nobody

\* trim_lock_holder: the pid in the line, or none while the line is not in.
PidInFile == IF lock.line THEN lock.by ELSE Nobody

\* Defects _holder_live guards against: age alone decides (before v2.12); a
\* reused pid passes for the holder.
HolderLiveByAge(pid, mtime) == mtime > old
HolderLiveReusedPid(pid, mtime) ==
    IF pid = Nobody THEN mtime > old ELSE pc[pid] # "dead"

\* _holder_live: a readable pid must run and must not have started after the
\* lock was written (a reused pid); without a pid the two-hour rule decides.
HolderLive(pid, mtime) ==
    IF pid = Nobody
    THEN mtime > old
    ELSE pc[pid] # "dead" /\ birth[pid] <= mtime + Rounding

-----------------------------------------------------------------------------
Init ==
    /\ lock = NoLock
    /\ clock = 0 /\ old = 0 /\ creates = 0 /\ crashes = 0
    /\ guard = Nobody
    /\ pc = [p \in Proc |-> "idle"]
    /\ tries = [p \in Proc |-> 0]
    /\ h = [p \in Proc |-> NoHolder]
    /\ mine = [p \in Proc |-> 0]
    /\ birth = [p \in Proc |-> 0]
    /\ since = [p \in Proc |-> 0]

Goto(p, from, to) == pc[p] = from /\ pc' = [pc EXCEPT ![p] = to]

\* The locals of __enter__ die with the attempt.
Forget(p) ==
    /\ tries' = [tries EXCEPT ![p] = 0]
    /\ since' = [since EXCEPT ![p] = 0]
    /\ h' = [h EXCEPT ![p] = NoHolder]

\* Back to the next pass of the loop of __enter__.
Again(p, from) ==
    /\ Goto(p, from, "open")
    /\ h' = [h EXCEPT ![p] = NoHolder]

\* The daily trim is due and enters the lock.
Begin(p) ==
    /\ creates < MaxCreates
    /\ Goto(p, "idle", "open")
    /\ tries' = [tries EXCEPT ![p] = 3]
    /\ since' = [since EXCEPT ![p] = clock]
    /\ UNCHANGED <<lock, clock, old, guard, h, mine, birth, creates, crashes>>

\* os.open(O_CREAT | O_EXCL) creates the file.
Create(p) ==
    /\ tries[p] > 0 /\ ~LockExists
    /\ Goto(p, "open", "write")
    /\ clock' = clock + 1
    /\ lock' = [mtime |-> clock + 1, by |-> p, line |-> FALSE]
    /\ mine' = [mine EXCEPT ![p] = clock + 1]
    /\ creates' = creates + 1
    /\ UNCHANGED <<old, guard, attempt, birth, crashes>>

\* os.open raises FileExistsError.
Exists(p) ==
    /\ tries[p] > 0 /\ LockExists
    /\ Goto(p, "open", "stat")
    /\ tries' = [tries EXCEPT ![p] = @ - 1]
    /\ UNCHANGED <<lock, clock, old, guard, h, mine, birth, since, creates, crashes>>

\* Three attempts raced: TrimLockHeld.
GiveUp(p) ==
    /\ tries[p] = 0
    /\ Goto(p, "open", "idle")
    /\ Forget(p)
    /\ UNCHANGED <<lock, clock, old, guard, mine, birth, creates, crashes>>

\* trim_lock_holder, first half: the stat; no file means "released, retry".
Stat(p) ==
    /\ \/ LockExists /\ Goto(p, "stat", "read") /\ h' = [h EXCEPT ![p].mtime = lock.mtime]
       \/ ~LockExists /\ Again(p, "stat")
    /\ UNCHANGED <<lock, clock, old, guard, tries, since, mine, birth, creates, crashes>>

\* trim_lock_holder, second half: the read, perhaps of a newer file.
Read(p) ==
    /\ \/ LockExists /\ Goto(p, "read", "judge") /\ h' = [h EXCEPT ![p].pid = PidInFile]
       \/ ~LockExists /\ Again(p, "read")
    /\ UNCHANGED <<lock, clock, old, guard, tries, since, mine, birth, creates, crashes>>

\* A live holder is never overwritten: TrimLockHeld.
Refused(p) ==
    /\ HolderLive(h[p].pid, h[p].mtime)
    /\ Goto(p, "judge", "idle")
    /\ Forget(p)
    /\ UNCHANGED <<lock, clock, old, guard, mine, birth, creates, crashes>>

\* A stale one is taken over.
Stale(p) ==
    /\ ~HolderLive(h[p].pid, h[p].mtime)
    /\ Goto(p, "judge", "guard")
    /\ UNCHANGED <<lock, clock, old, guard, attempt, mine, birth, creates, crashes>>

\* _takeover_guard: flock(LOCK_EX).
TakeGuard(p) ==
    /\ guard = Nobody
    /\ guard' = p
    /\ Goto(p, "guard", "gstat")
    /\ UNCHANGED <<lock, clock, old, attempt, mine, birth, creates, crashes>>

\* The second look under the guard: no file, nothing to remove.
GuardStat(p) ==
    /\ \/ LockExists /\ Goto(p, "gstat", "gread")
          /\ h' = [h EXCEPT ![p].again = lock.mtime] /\ UNCHANGED guard
       \/ ~LockExists /\ Again(p, "gstat") /\ guard' = Nobody
    /\ UNCHANGED <<lock, clock, old, tries, since, mine, birth, creates, crashes>>

\* A defect: the second look only asks whether there still is a lock.
SameAsJudgedAnyLock(p) == LockExists

\* What the second look compares: the pid read now, the mtime of GuardStat.
SameAsJudged(p) == LockExists /\ PidInFile = h[p].pid /\ h[p].again = h[p].mtime

GuardRead(p) ==
    /\ \/ SameAsJudged(p) /\ Goto(p, "gread", "unlink") /\ UNCHANGED <<guard, h>>
       \/ ~SameAsJudged(p) /\ Again(p, "gread") /\ guard' = Nobody
    /\ UNCHANGED <<lock, clock, old, tries, since, mine, birth, creates, crashes>>

\* unlink removes whatever file has the name; the guard closes after it.
Unlink(p) ==
    /\ Again(p, "unlink")
    /\ lock' = NoLock
    /\ guard' = Nobody
    /\ UNCHANGED <<clock, old, tries, since, mine, birth, creates, crashes>>

\* The line is written; the mtime moves unless create and write share a tick
\* of the file system's clock.
WriteLine(p) ==
    /\ Goto(p, "write", "held")
    /\ clock' = clock + 1
    /\ \E m \in {mine[p], clock + 1} :
         /\ mine' = [mine EXCEPT ![p] = m]
         /\ lock' = IF lock.mtime = mine[p] THEN [lock EXCEPT !.mtime = m, !.line = TRUE]
                                            ELSE lock
    /\ Forget(p)
    /\ UNCHANGED <<old, guard, birth, creates, crashes>>

\* The write fails: the file without a line is removed, the error goes through.
WriteFails(p) ==
    /\ Goto(p, "write", "idle")
    /\ lock' = NoLock
    /\ Forget(p)
    /\ mine' = [mine EXCEPT ![p] = 0]
    /\ UNCHANGED <<clock, old, guard, birth, creates, crashes>>

\* __exit__ reads the holder: ours is unlinked next, another one is left.
ExitRead(p) ==
    /\ \/ LockExists /\ PidInFile = p /\ Goto(p, "held", "release") /\ UNCHANGED mine
       \/ ~(LockExists /\ PidInFile = p) /\ Goto(p, "held", "idle")
          /\ mine' = [mine EXCEPT ![p] = 0]
    /\ UNCHANGED <<lock, clock, old, guard, attempt, birth, creates, crashes>>

ExitUnlink(p) ==
    /\ Goto(p, "release", "idle")
    /\ lock' = NoLock
    /\ mine' = [mine EXCEPT ![p] = 0]
    /\ UNCHANGED <<clock, old, guard, attempt, birth, creates, crashes>>

-----------------------------------------------------------------------------
\* kill -9 anywhere: the file stays, the kernel drops the flock.
Crash(p) ==
    /\ crashes < MaxCrashes
    /\ pc[p] # "dead"
    /\ pc' = [pc EXCEPT ![p] = "dead"]
    /\ guard' = IF guard = p THEN Nobody ELSE guard
    /\ Forget(p)
    /\ mine' = [mine EXCEPT ![p] = 0]
    /\ crashes' = crashes + 1
    /\ UNCHANGED <<lock, clock, old, birth, creates>>

\* The service manager starts the service again; the pid is reused,
\* and the process is younger than everything stamped so far.
Restart(p) ==
    /\ Goto(p, "dead", "idle")
    /\ birth' = [birth EXCEPT ![p] = clock + 1]
    /\ UNCHANGED <<lock, clock, old, guard, attempt, mine, creates, crashes>>

\* Two hours pass. No process is suspended that long inside the few system
\* calls of __enter__: every attempt under way began after the last change of
\* the lock.
TwoHours ==
    /\ old # clock
    /\ \A p \in Proc : pc[p] \in Entering => since[p] = clock
    /\ old' = clock
    /\ UNCHANGED <<lock, clock, guard, pc, attempt, mine, birth, creates, crashes>>

Step(p) ==
    \/ Create(p) \/ Exists(p) \/ GiveUp(p) \/ Stat(p) \/ Read(p)
    \/ Refused(p) \/ Stale(p) \/ TakeGuard(p) \/ GuardStat(p) \/ GuardRead(p) \/ Unlink(p)
    \/ WriteLine(p) \/ WriteFails(p) \/ ExitRead(p) \/ ExitUnlink(p)

Next == TwoHours \/ \E p \in Proc : Begin(p) \/ Step(p) \/ Crash(p) \/ Restart(p)

Spec == Init /\ [][Next]_vars

\* A running process takes its next system call; the trim is due every day;
\* the service manager restarts what died; time passes; flock is queued.
Fairness ==
    /\ WF_vars(TwoHours)
    /\ \A p \in Proc : WF_vars(Step(p)) /\ WF_vars(Begin(p)) /\ WF_vars(Restart(p))
    /\ \A p \in Proc : SF_vars(TakeGuard(p))

FairSpec == Spec /\ Fairness

-----------------------------------------------------------------------------
TypeOK ==
    /\ lock \in [mtime : Nat, by : Proc \cup {Nobody}, line : BOOLEAN]
    /\ clock \in Nat /\ old \in Nat /\ creates \in Nat /\ crashes \in Nat
    /\ guard \in Proc \cup {Nobody}
    /\ pc \in [Proc -> Pcs]
    /\ tries \in [Proc -> Nat]
    /\ h \in [Proc -> [pid : Proc \cup {Nobody}, mtime : Nat, again : Nat]]
    /\ mine \in [Proc -> Nat]
    /\ birth \in [Proc -> Nat]
    /\ since \in [Proc -> Nat]

\* The process that runs under pid p owns the lock file in place.
Owns(p) == pc[p] \in Owning /\ lock.mtime = mine[p]

\* Two processes never delete rows at the same time, whatever crashed, was
\* taken over or had its pid reused (trim_lock).
MutualExclusion ==
    \A p, q \in Proc : pc[p] \in {"held", "release"} /\ pc[q] \in {"held", "release"} => p = q

\* While a process deletes rows, a tool that calls trim_lock_active sees a
\* live holder: nobody took the lock from under a running trim.
TrimVisible ==
    \A p \in Proc : pc[p] \in {"held", "release"} =>
        LockExists /\ PidInFile = p /\ HolderLive(p, lock.mtime)

\* Why it holds, as an inductive invariant. Stamps never run ahead of the clock.
StampsInv ==
    /\ lock.mtime <= clock /\ old <= clock
    /\ LockExists => lock.by \in Proc
    /\ \A p \in Proc : birth[p] <= clock + 1 /\ since[p] <= clock /\ h[p].mtime <= clock

\* A process past its O_EXCL create owns the file in place and outlives it.
OwnerInv ==
    \A p \in Proc : pc[p] \in Owning =>
        /\ LockExists /\ lock.by = p /\ lock.mtime = mine[p]
        /\ birth[p] <= lock.mtime
        /\ lock.line <=> pc[p] # "write"
        /\ pc[p] = "write" => since[p] < lock.mtime /\ old < lock.mtime

Owned == \E q \in Proc : pc[q] \in Owning

\* What __enter__ read of an owned lock makes it look live.
JudgeInv ==
    \A p \in Proc :
        /\ pc[p] \in {"read", "judge", "guard", "gstat", "gread", "unlink"} => h[p].mtime > 0
        /\ pc[p] = "judge" /\ lock.mtime = h[p].mtime /\ Owned =>
             \/ h[p].pid = lock.by
             \/ /\ h[p].pid = Nobody /\ old < lock.mtime
                /\ pc[lock.by] = "write" \/ since[p] < clock

\* So a lock on its way to being taken over has no owner, and under the guard
\* it stays in place until the unlink.
TakeoverInv ==
    \A p \in Proc :
        /\ pc[p] \in {"guard", "gstat", "gread", "unlink"} /\ lock.mtime = h[p].mtime => ~Owned
        /\ pc[p] \in {"gstat", "gread", "unlink"} => guard = p
        /\ pc[p] = "gread" /\ h[p].again = h[p].mtime => lock.mtime = h[p].mtime
        /\ pc[p] = "unlink" => lock.mtime = h[p].mtime

IInv == TypeOK /\ StampsInv /\ OwnerInv /\ JudgeInv /\ TakeoverInv

\* A lock left by a crash does not block trimming for good: it is taken over
\* by the next day's trim (or, with no line in it, once it is two hours old).
StaleReleased ==
    \A m \in 1..(4 * MaxCreates + 4) :
        (lock.mtime = m /\ ~(\E p \in Proc : Owns(p)) /\ creates < MaxCreates)
            ~> lock.mtime # m
=============================================================================

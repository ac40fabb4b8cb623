--------------------------- MODULE HeartbeatGuard ---------------------------
(***************************************************************************)
(* The heartbeat cell J1 of a queue tab, by which consumers on different   *)
(* machines are to keep out of each other's way (live.py _heartbeat_ok for *)
(* the live engine, realtime_base.py _heartbeat_ok for the status relay    *)
(* and the customer sync).  One machine has one consumer of a tab: its     *)
(* flock (SingleInstanceLock, TabLock).                                    *)
(***************************************************************************)
EXTENDS Naturals

CONSTANTS
    Host,
    BeatEvery,   \* ticks between two looks at the cell
    StaleAfter,  \* HEARTBEAT_STALE_S in ticks
    BatchTicks,  \* bound on the ticks a poll's batch takes
    HbMaxFaults  \* bound on failed reads, failed writes and crashes

ASSUME HeartbeatAssumption ==
    /\ {BeatEvery, StaleAfter, BatchTicks} \subseteq Nat \ {0}
    /\ BeatEvery < StaleAfter /\ HbMaxFaults \in Nat
    /\ "none" \notin Host

VARIABLES
    guard,     \* "live" or "tab": which of the two guards both hosts run
    beat,      \* the cell: owner, age
    consumer,  \* host -> pc, the cell it read, ticks since its look, ticks of its batch
    raceAge,   \* history: ticks since a host wrote over a cell that was free when it looked
    outlasted, \* history: a batch was longer than its heartbeat stayed fresh
    hbFaults

hbVars == <<guard, beat, consumer, raceAge, outlasted, hbFaults>>

(* Ages above the limits they are compared with are one age. *)
LongAgo == StaleAfter + BeatEvery + BatchTicks
Aged(n, limit) == IF n < limit THEN n + 1 ELSE n
NoBeat == [owner |-> "none", age |-> StaleAfter]
Off == [pc |-> "off", read |-> NoBeat, look |-> BeatEvery, batch |-> 0]

HbInit ==
    /\ guard \in {"live", "tab"}
    /\ beat = NoBeat
    /\ consumer = [h \in Host |-> Off]
    /\ raceAge = LongAgo /\ outlasted = FALSE
    /\ hbFaults = HbMaxFaults

HbFault == hbFaults > 0 /\ hbFaults' = hbFaults - 1
At(h, pc) == consumer' = [consumer EXCEPT ![h].pc = pc]
Fresh(h, b) == b.owner \notin {h, "none"} /\ b.age < StaleAfter

StartHost(h) ==
    /\ consumer[h].pc = "off"
    /\ consumer' = [consumer EXCEPT ![h] = [Off EXCEPT !.pc = "poll"]]
    /\ UNCHANGED <<guard, beat, raceAge, outlasted, hbFaults>>

StopHost(h) ==
    /\ consumer[h].pc # "off"
    /\ HbFault
    /\ consumer' = [consumer EXCEPT ![h] = Off]
    /\ UNCHANGED <<guard, beat, raceAge, outlasted>>

(* Most polls do not look at the cell. *)
LookSkipped(h) ==
    /\ consumer[h].pc = "poll" /\ consumer[h].look < BeatEvery
    /\ At(h, "batch")
    /\ UNCHANGED <<guard, beat, raceAge, outlasted, hbFaults>>

(* queue_read_heartbeat and queue_write_heartbeat. *)
Cell == beat
Stamped(h) == beat' = [owner |-> h, age |-> 0]

(* The live engine notes the look before it reads, and claims when the read
   fails; the tab consumer's poll fails with the read. *)
ReadBeat(h) ==
    LET looked == [consumer[h] EXCEPT !.look = IF guard = "live" THEN 0 ELSE @] IN
    /\ consumer[h].pc = "poll" /\ consumer[h].look >= BeatEvery
    /\ \/ /\ consumer' = [consumer EXCEPT ![h] = [looked EXCEPT !.pc = "judge", !.read = Cell]]
          /\ UNCHANGED hbFaults
       \/ /\ HbFault
          /\ consumer' = [consumer EXCEPT ![h] =
                 [looked EXCEPT !.pc = IF guard = "live" THEN "batch" ELSE "poll"]]
    /\ UNCHANGED <<guard, beat, raceAge, outlasted>>

(* mutant: any heartbeat may be taken over *)
RefusedNever(h) == FALSE

Refused(h) == Fresh(h, consumer[h].read)

JudgeBeat(h) ==
    /\ consumer[h].pc = "judge"
    /\ At(h, IF Refused(h) THEN "poll" ELSE "write")
    /\ UNCHANGED <<guard, beat, raceAge, outlasted, hbFaults>>

WriteBeat(h) ==
    /\ consumer[h].pc = "write"
    /\ \/ /\ Stamped(h)
          /\ raceAge' = IF Fresh(h, beat) /\ ~Fresh(h, consumer[h].read) THEN 0 ELSE raceAge
          /\ consumer' = [consumer EXCEPT ![h].pc = IF guard = "live" THEN "again" ELSE "batch",
                                          ![h].look = 0]
          /\ UNCHANGED hbFaults
       \/ /\ HbFault
          /\ At(h, IF guard = "live" THEN "batch" ELSE "poll")
          /\ UNCHANGED <<beat, raceAge>>
    /\ UNCHANGED <<guard, outlasted>>

(* The live engine reads the cell once more. *)
ReadAgain(h) ==
    /\ consumer[h].pc = "again"
    /\ \/ At(h, IF Fresh(h, Cell) THEN "poll" ELSE "batch") /\ UNCHANGED hbFaults
       \/ At(h, "batch") /\ HbFault
    /\ UNCHANGED <<guard, beat, raceAge, outlasted>>

EndBatch(h) ==
    /\ consumer[h].pc = "batch"
    /\ consumer' = [consumer EXCEPT ![h].pc = "poll", ![h].batch = 0]
    /\ UNCHANGED <<guard, beat, raceAge, outlasted, hbFaults>>

(* A poll is much shorter than a tick: time passes in a batch or between two
   polls that need no look. *)
HbTick ==
    /\ \A h \in Host : \/ consumer[h].pc = "off"
                       \/ consumer[h].pc = "batch" /\ consumer[h].batch < BatchTicks
                       \/ consumer[h].pc = "poll" /\ (consumer[h].look < BeatEvery \/ Fresh(h, beat))
    /\ beat' = [beat EXCEPT !.age = Aged(@, StaleAfter)]
    /\ raceAge' = Aged(raceAge, LongAgo)
    /\ consumer' = [h \in Host |-> [consumer[h] EXCEPT
           !.look = IF @ < BeatEvery THEN @ + 1 ELSE @,
           !.batch = IF consumer[h].pc = "batch" THEN @ + 1 ELSE 0]]
    /\ outlasted' = (outlasted \/ \E h \in Host : /\ consumer'[h].batch > 0 /\ beat'.owner = h
                                                  /\ beat'.age >= StaleAfter)
    /\ UNCHANGED <<guard, hbFaults>>

HbNext ==
    \/ HbTick
    \/ \E h \in Host : \/ StartHost(h) \/ StopHost(h) \/ LookSkipped(h) \/ ReadBeat(h) \/ JudgeBeat(h)
                       \/ WriteBeat(h) \/ ReadAgain(h) \/ EndBatch(h)

-----------------------------------------------------------------------------
Together == \E g, h \in Host : g # h /\ consumer[g].pc = "batch" /\ consumer[h].pc = "batch"

(* "Two consumers of the SAME tab cannot coexist" (realtime_base.py), as far
   as it goes: consumers of a tab on two machines work at the same time only
   until the loser of a simultaneous start looks at the cell again, or when a
   batch outlasted the heartbeat of the consumer that works on it. *)
TabConsumersApart ==
    guard = "tab" /\ Together => outlasted \/ raceAge <= BeatEvery + BatchTicks

(* "Two instances can never both claim (flock + sheet heartbeat)"
   (docs/cutover-live.md), with no race, no fault and no long batch. *)
NeverBothClaim == Together => outlasted \/ raceAge < StaleAfter
=============================================================================

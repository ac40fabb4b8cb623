-------------------------- MODULE AdaptiveLimiter ---------------------------
(***************************************************************************)
(* The limiter worker lanes share (backfill.py, class AdaptiveLimiter) and *)
(* the engine that lowers its ceiling while a realtime stream is busy      *)
(* (Engine._yield_to_live).                                                *)
(*                                                                         *)
(* A rate is a number of 1..Top.  What the code computes from a rate (the  *)
(* interval 1/rate, the two decreases) is a table, so that any monotone    *)
(* arithmetic, floating point too, is an instance.  Time is in ticks.      *)
(***************************************************************************)
EXTENDS Integers

CONSTANTS
    Lane,          \* worker lanes
    Top,           \* the largest rate there is
    Interval,      \* Interval[r]: ticks between two slots at rate r
    Hard, Soft,    \* Hard[r], Soft[r]: r after a throttle, after a low bucket
    Start, Floor,  \* start_per_s and floor_per_s, clamped by __init__
    Full, Yield,   \* the ceilings with the live streams idle and busy
    Step,          \* step_per_s
    GrowthEvery,   \* successes before the rate grows
    Cooldown,      \* ticks without growth after a throttle
    SoftCooldown,  \* and after a low bucket (at most Cooldown)
    RetryAfter,    \* holds a provider may ask for; 0: it says nothing
    Adaptive,      \* adaptive_enabled
    MaxClock       \* bound: no call begins at or after this tick

Rate == 1..Top
Signal == {"busy", "idle"}

ASSUME LimiterAssumption ==
    /\ Top \in Nat \ {0}
    /\ Interval \in [Rate -> Nat \ {0}]
    /\ \A r \in Rate : Interval[r] >= Interval[Top]
    /\ Hard \in [Rate -> Int] /\ Soft \in [Rate -> Int]
    /\ {Start, Floor, Full, Yield} \subseteq Rate
    /\ Floor <= Start /\ Start <= Full /\ Yield <= Full
    /\ Step \in Nat /\ GrowthEvery \in Nat \ {0}
    /\ Cooldown \in Nat /\ SoftCooldown \in 0..Cooldown
    /\ RetryAfter \subseteq Nat
    /\ Adaptive \in BOOLEAN
    /\ MaxClock \in Nat

VARIABLES
    rate, floor, ceil,
    successes,   \* since the last change
    frozen,      \* _cooldown_until
    next,        \* _next: the first slot nobody has
    ticks,
    laneAt,          \* where each lane is: idle, waiting for its slot, sending
    now,         \* when each lane called wait
    slot,        \* the last slot each lane got
    busy,        \* a realtime stream publishes activity
    yielding,    \* what _yield_to_live saw last
    throttled,   \* when the provider last throttled us (-1: never)
    hold         \* and until when it is to be left alone

band == <<rate, floor, ceil>>
feedback == <<successes, frozen>>
lanes == <<laneAt, now, slot>>
signal == <<busy, yielding>>
history == <<throttled, hold>>
limVars == <<band, feedback, next, ticks, lanes, signal, history>>

\* __init__: with adaptive=False the whole band is the start rate.
LimInit ==
    /\ rate = Start
    /\ floor = IF Adaptive THEN Floor ELSE Start
    /\ ceil = IF Adaptive THEN Full ELSE Start
    /\ successes = 0 /\ frozen = 0 /\ next = 0 /\ ticks = 0
    /\ laneAt = [l \in Lane |-> "idle"]
    /\ now = [l \in Lane |-> 0] /\ slot = [l \in Lane |-> -Interval[Top]]
    /\ busy \in Signal /\ yielding = "unset"
    /\ throttled = -1 /\ hold = 0

Later(a, b) == IF a >= b THEN a ELSE b
Lower(a, b) == IF a <= b THEN a ELSE b

\* _set_rate.
Clamped(r) == Lower(ceil, Later(floor, r))

-----------------------------------------------------------------------------
\* wait reads the clock before it takes the lock ...
Wait(l) ==
    /\ laneAt[l] = "idle" /\ ticks < MaxClock
    /\ laneAt' = [laneAt EXCEPT ![l] = "reserve"]
    /\ now' = [now EXCEPT ![l] = ticks]
    /\ UNCHANGED <<band, feedback, next, ticks, slot, signal, history>>

\* A defect: the slot is one interval after the caller's own last one, so that
\* every lane has a budget of its own.
FirstFreePerLane(l) == Later(slot[l] + Interval[Top], now[l])

\* ... and claims the first free slot under it.
FirstFree(l) == Later(next, now[l])

Reserve(l) ==
    /\ laneAt[l] = "reserve"
    /\ laneAt' = [laneAt EXCEPT ![l] = "sleep"]
    /\ slot' = [slot EXCEPT ![l] = FirstFree(l)]
    /\ next' = FirstFree(l) + Interval[rate]
    /\ UNCHANGED <<band, feedback, ticks, now, signal, history>>

\* The sleep ends at the slot or later, and the request goes out.
Send(l) ==
    /\ laneAt[l] = "sleep" /\ slot[l] <= ticks
    /\ laneAt' = [laneAt EXCEPT ![l] = "sent"]
    /\ UNCHANGED <<band, feedback, next, ticks, now, slot, signal, history>>

Answered(l) == laneAt[l] = "sent" /\ laneAt' = [laneAt EXCEPT ![l] = "idle"]

\* on_throttle: 429; the provider may say how long.
OnThrottle(l) ==
    /\ Answered(l)
    /\ IF Adaptive
       THEN /\ \E after \in RetryAfter :
                 LET wait == IF after = 0 THEN Interval[rate] ELSE after
                 IN  next' = Later(next, ticks + wait) /\ hold' = ticks + wait
            /\ successes' = 0 /\ frozen' = ticks + Cooldown
            /\ rate' = Clamped(Hard[rate])
            /\ throttled' = ticks
       ELSE UNCHANGED <<rate, feedback, next, history>>
    /\ UNCHANGED <<floor, ceil, ticks, now, slot, signal>>

\* A defect: the soft cooldown replaces the hard one.
SoftFrozenReplaces == ticks + SoftCooldown

\* A low bucket extends a cooldown, and never shortens it.
SoftFrozen == Later(frozen, ticks + SoftCooldown)

\* on_result with little of the shared bucket left.
OnLowBucket(l) ==
    /\ Answered(l)
    /\ Adaptive
    /\ successes' = 0 /\ frozen' = SoftFrozen
    /\ rate' = Clamped(Soft[rate])
    /\ UNCHANGED <<floor, ceil, next, ticks, now, slot, signal, history>>

\* on_result otherwise, and on_success.
OnSuccess(l) ==
    /\ Answered(l)
    /\ IF ~Adaptive \/ ticks < frozen THEN UNCHANGED <<rate, feedback>>
       ELSE /\ IF successes + 1 >= GrowthEvery
               THEN successes' = 0 /\ rate' = Clamped(rate + Step)
               ELSE successes' = successes + 1 /\ UNCHANGED rate
            /\ UNCHANGED frozen
    /\ UNCHANGED <<floor, ceil, next, ticks, now, slot, signal, history>>

\* A defect: the rate is left to come down by itself.
SetCeilingOnly(c) == ceil' = c /\ floor' = Lower(floor, c) /\ UNCHANGED rate

\* set_ceiling.
SetCeiling(c) ==
    IF c = ceil THEN UNCHANGED band
    ELSE /\ ceil' = c
         /\ floor' = Lower(floor, c)
         /\ rate' = Lower(rate, c)

\* _yield_to_live, before a page: acts on a change of the signals only.
YieldToLive ==
    /\ yielding # busy
    /\ yielding' = busy
    /\ SetCeiling(IF busy = "busy" THEN Yield ELSE Full)
    /\ UNCHANGED <<feedback, next, ticks, lanes, busy, history>>

\* A realtime engine publishes its signal.
Publish ==
    /\ busy' = IF busy = "busy" THEN "idle" ELSE "busy"
    /\ UNCHANGED <<band, feedback, next, ticks, lanes, yielding, history>>

Tick ==
    /\ ticks < MaxClock \/ \E l \in Lane : laneAt[l] = "sleep" /\ slot[l] > ticks
    /\ ticks' = ticks + 1
    /\ UNCHANGED <<band, feedback, next, lanes, signal, history>>

LimNext ==
    \/ \E l \in Lane : \/ Wait(l) \/ Reserve(l) \/ Send(l)
                       \/ OnThrottle(l) \/ OnLowBucket(l) \/ OnSuccess(l)
    \/ YieldToLive \/ Publish \/ Tick

LimSpec == LimInit /\ [][LimNext]_limVars

-----------------------------------------------------------------------------
LimTypeOK ==
    /\ rate \in Rate /\ floor \in Rate /\ ceil \in Rate
    /\ successes \in Nat /\ frozen \in Nat /\ next \in Nat /\ ticks \in Nat
    /\ laneAt \in [Lane -> {"idle", "reserve", "sleep", "sent"}]
    /\ now \in [Lane -> Nat] /\ slot \in [Lane -> Int]
    /\ busy \in Signal /\ yielding \in Signal \cup {"unset"}
    /\ throttled \in Nat \cup {-1} /\ hold \in Nat

\* The rate stays in its band whatever throttles, recoveries and ceiling moves
\* come in whatever order (AdaptiveLimiter: "always stays within [floor, ceil]").
InBand == floor <= rate /\ rate <= ceil

\* While the engine yields, it asks for no more than the yielded budget.
Yields == yielding = "busy" => rate <= Yield

\* The slots of all lanes together are an interval apart: N lanes are paced to
\* the rate one lane would have (wait), also while the rate changes and however
\* long a lane is held up between its clock and the lock.
Paced ==
    \A l, m \in Lane : l # m /\ slot[l] >= 0 /\ slot[l] <= slot[m] =>
        slot[l] + Interval[Top] <= slot[m]

\* The rate does not grow within the cooldown of a throttle, whatever softer
\* signals follow it (on_throttle, on_result, on_success).
Frozen == [][rate' > rate => throttled = -1 \/ ticks >= throttled + Cooldown]_limVars

-----------------------------------------------------------------------------
\* "With adaptive=False the rate is pinned at start_per_s" (AdaptiveLimiter).
Pinned == ~Adaptive => rate = Start

\* "so slots already queued by other lanes do not fire straight into the
\* throttle window" (on_throttle): no lane sends before the hold is over.
HoldKept == [][\A l \in Lane : laneAt[l] = "sleep" /\ laneAt'[l] = "sent" => ticks >= hold]_limVars
=============================================================================

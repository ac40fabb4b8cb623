----------------------- MODULE AdaptiveLimiter_proof ------------------------
(***************************************************************************)
(* Theorems about AdaptiveLimiter, for any lanes, rates and tables: type   *)
(* correctness, the band, the yielded budget, the pacing of the lanes, and *)
(* that the rate does not grow within the cooldown of a throttle.          *)
(***************************************************************************)
EXTENDS AdaptiveLimiter, TLAPS

\* Why the slots are apart: nobody has a slot the next reservation could meet.
SlotsBeforeNext == \A l \in Lane : slot[l] + Interval[Top] <= next

\* Why the yielded budget holds: the ceiling is the one the engine set last.
CeilingSet == yielding = "busy" => ceil = Yield

IInv == LimTypeOK /\ InBand /\ CeilingSet /\ SlotsBeforeNext /\ Paced

LEMMA ClampedInBand ==
  ASSUME NEW r \in Int, floor \in Rate, ceil \in Rate, floor <= ceil
  PROVE  Clamped(r) \in Rate /\ floor <= Clamped(r) /\ Clamped(r) <= ceil
BY LimiterAssumption DEF Clamped, Later, Lower, Rate

LEMMA LowerKeepsOrder ==
  ASSUME NEW a \in Rate, NEW b \in Rate, NEW c \in Rate, a <= b
  PROVE  /\ Lower(a, c) \in Rate /\ Lower(b, c) \in Rate
         /\ Lower(a, c) <= Lower(b, c) /\ Lower(b, c) <= c
<1>1. Lower(a, c) \in Rate /\ Lower(b, c) \in Rate
  BY DEF Lower
<1>2. a \in Int /\ b \in Int /\ c \in Int
  BY LimiterAssumption DEF Rate
<1> QED
  BY <1>1, <1>2 DEF Lower

LEMMA InitIInv == LimInit => IInv
<1> SUFFICES ASSUME LimInit PROVE IInv
  OBVIOUS
<1> USE LimiterAssumption
<1>1. Interval[Top] \in Nat \ {0}
  BY DEF Rate
<1>2. LimTypeOK
  BY <1>1 DEF LimInit, LimTypeOK, Rate, Signal
<1>3. InBand
  BY DEF LimInit, InBand, Rate
<1>4. CeilingSet
  BY DEF LimInit, CeilingSet
<1>5. SlotsBeforeNext
  <2>1. next = 0 /\ \A l \in Lane : slot[l] = -Interval[Top]
    BY DEF LimInit
  <2>2. ASSUME NEW i \in Nat PROVE -i + i <= 0
    OBVIOUS
  <2> QED
    BY <2>1, <2>2, <1>1 DEF SlotsBeforeNext
<1>6. Paced
  BY <1>1 DEF LimInit, Paced
<1> QED
  BY <1>2, <1>3, <1>4, <1>5, <1>6 DEF IInv

LEMMA StepIInv == IInv /\ [LimNext]_limVars => IInv'
<1> SUFFICES ASSUME IInv, [LimNext]_limVars PROVE IInv'
  OBVIOUS
<1> USE LimiterAssumption DEF IInv
<1>t. Top \in Rate
  BY DEF Rate
<1>i. /\ Interval \in [Rate -> Nat \ {0}] /\ Interval[Top] \in Nat \ {0}
      /\ \A r \in Rate : Interval[r] >= Interval[Top]
  BY <1>t
<1>b. floor \in Rate /\ ceil \in Rate /\ rate \in Rate /\ floor <= ceil
  BY DEF LimTypeOK, InBand, Rate
<1>1. ASSUME NEW l \in Lane, Wait(l) PROVE IInv'
  <2>1. LimTypeOK'
    BY <1>1 DEF Wait, LimTypeOK, band, feedback, signal, history
  <2> QED
    BY <1>1, <2>1 DEF Wait, band, signal, InBand, CeilingSet, SlotsBeforeNext, Paced
<1>2. ASSUME NEW l \in Lane, Reserve(l) PROVE IInv'
  <2> DEFINE t == FirstFree(l)
  <2>1. /\ t \in Nat /\ next <= t
        /\ slot' = [slot EXCEPT ![l] = t] /\ next' = t + Interval[rate]
        /\ laneAt' = [laneAt EXCEPT ![l] = "sleep"]
        /\ UNCHANGED <<band, feedback, ticks, now, signal, history>>
    BY <1>2 DEF Reserve, FirstFree, Later, LimTypeOK
  <2>2. Interval[rate] \in Nat /\ Interval[rate] >= Interval[Top]
    BY <1>i, <1>b
  <2> HIDE DEF t
  <2>3. LimTypeOK'
    BY <2>1, <2>2 DEF LimTypeOK, band, feedback, signal, history
  <2>4. SlotsBeforeNext'
    <3> SUFFICES ASSUME NEW k \in Lane PROVE slot'[k] + Interval[Top] <= next'
      BY DEF SlotsBeforeNext
    <3>1. CASE k = l
      BY <3>1, <2>1, <2>2, <1>i DEF LimTypeOK
    <3>2. CASE k # l
      BY <3>2, <2>1, <2>2, <1>i DEF LimTypeOK, SlotsBeforeNext
    <3> QED
      BY <3>1, <3>2
  <2>5. Paced'
    <3> SUFFICES ASSUME NEW k \in Lane, NEW m \in Lane, k # m,
                        slot'[k] >= 0, slot'[k] <= slot'[m]
                 PROVE  slot'[k] + Interval[Top] <= slot'[m]
      BY DEF Paced
    <3>1. CASE m = l
      BY <3>1, <2>1, <1>i DEF LimTypeOK, SlotsBeforeNext
    <3>2. CASE k = l
      BY <3>2, <2>1, <1>i DEF LimTypeOK, SlotsBeforeNext
    <3>3. CASE k # l /\ m # l
      BY <3>3, <2>1, <1>i DEF LimTypeOK, Paced
    <3> QED
      BY <3>1, <3>2, <3>3
  <2> QED
    BY <2>1, <2>3, <2>4, <2>5 DEF band, signal, InBand, CeilingSet
<1>3. ASSUME NEW l \in Lane, Send(l) PROVE IInv'
  <2>1. LimTypeOK'
    BY <1>3 DEF Send, LimTypeOK, band, feedback, signal, history
  <2> QED
    BY <1>3, <2>1 DEF Send, band, signal, InBand, CeilingSet, SlotsBeforeNext, Paced
<1>4. ASSUME NEW l \in Lane, OnThrottle(l) PROVE IInv'
  <2>1. CASE ~Adaptive
    <3>1. LimTypeOK'
      BY <1>4, <2>1 DEF OnThrottle, Answered, LimTypeOK, feedback, history, signal
    <3> QED
      BY <1>4, <2>1, <3>1 DEF OnThrottle, Answered, feedback, signal, InBand, CeilingSet,
                              SlotsBeforeNext, Paced
  <2>2. CASE Adaptive
    <3>1. PICK w \in Nat : next' = Later(next, ticks + w) /\ hold' = ticks + w
      BY <1>4, <2>2, <1>i, <1>b DEF OnThrottle
    <3>2. /\ next' \in Nat /\ next <= next' /\ hold' \in Nat
          /\ slot' = slot
      BY <1>4, <3>1 DEF OnThrottle, Later, LimTypeOK
    <3>3. rate' \in Rate /\ floor <= rate' /\ rate' <= ceil
      <4>1. Hard[rate] \in Int
        BY <1>b
      <4> QED
        BY <1>4, <2>2, <4>1, <1>b, ClampedInBand DEF OnThrottle
    <3>4. LimTypeOK'
      BY <1>4, <2>2, <3>2, <3>3 DEF OnThrottle, Answered, LimTypeOK, feedback, history, signal
    <3>5. SlotsBeforeNext'
      BY <3>2, <1>i DEF SlotsBeforeNext, LimTypeOK
    <3> QED
      BY <1>4, <3>2, <3>3, <3>4, <3>5 DEF OnThrottle, signal, InBand, CeilingSet, Paced
  <2> QED
    BY <2>1, <2>2
<1>5. ASSUME NEW l \in Lane, OnLowBucket(l) PROVE IInv'
  <2>1. rate' \in Rate /\ floor <= rate' /\ rate' <= ceil
    <3>1. Soft[rate] \in Int
      BY <1>b
    <3> QED
      BY <1>5, <3>1, <1>b, ClampedInBand DEF OnLowBucket
  <2>2. frozen' \in Nat
    BY <1>5 DEF OnLowBucket, SoftFrozen, Later, LimTypeOK
  <2>3. LimTypeOK'
    BY <1>5, <2>1, <2>2 DEF OnLowBucket, Answered, LimTypeOK, history, signal
  <2> QED
    BY <1>5, <2>1, <2>3 DEF OnLowBucket, signal, InBand, CeilingSet, SlotsBeforeNext, Paced
<1>6. ASSUME NEW l \in Lane, OnSuccess(l) PROVE IInv'
  <2>1. rate' \in Rate /\ floor <= rate' /\ rate' <= ceil
    <3>1. rate + Step \in Int
      BY <1>b DEF Rate
    <3>2. rate' = rate \/ rate' = Clamped(rate + Step)
      BY <1>6 DEF OnSuccess
    <3>3. floor <= rate /\ rate <= ceil
      BY DEF InBand
    <3> QED
      BY <3>1, <3>2, <3>3, <1>b, ClampedInBand
  <2>2. successes' \in Nat /\ frozen' = frozen
    BY <1>6 DEF OnSuccess, feedback, LimTypeOK
  <2>3. LimTypeOK'
    BY <1>6, <2>1, <2>2 DEF OnSuccess, Answered, LimTypeOK, history, signal
  <2> QED
    BY <1>6, <2>1, <2>3 DEF OnSuccess, signal, InBand, CeilingSet, SlotsBeforeNext, Paced
<1>7. CASE YieldToLive
  <2> DEFINE c == IF busy = "busy" THEN Yield ELSE Full
  <2>1. SetCeiling(c) /\ yielding' = busy /\ c \in Rate
        /\ UNCHANGED <<feedback, next, ticks, lanes, busy, history>>
    BY <1>7 DEF YieldToLive
  <2>2. /\ ceil' = c
        /\ floor' \in Rate /\ rate' \in Rate /\ floor' <= rate' /\ rate' <= ceil'
    <3> HIDE DEF c
    <3>1. CASE c = ceil
      BY <3>1, <2>1, <1>b DEF SetCeiling, band, InBand
    <3>2. CASE c # ceil
      <4>1. ceil' = c /\ floor' = Lower(floor, c) /\ rate' = Lower(rate, c)
        BY <3>2, <2>1 DEF SetCeiling
      <4> QED
        BY <4>1, <2>1, <1>b, LowerKeepsOrder DEF InBand
    <3> QED
      BY <3>1, <3>2
  <2>3. LimTypeOK'
    BY <2>1, <2>2 DEF LimTypeOK, feedback, lanes, history
  <2>4. CeilingSet'
    BY <2>1, <2>2 DEF CeilingSet
  <2> QED
    BY <2>1, <2>2, <2>3, <2>4 DEF lanes, InBand, SlotsBeforeNext, Paced
<1>8. CASE Publish
  <2>1. LimTypeOK'
    BY <1>8 DEF Publish, LimTypeOK, Signal, band, feedback, lanes, history
  <2> QED
    BY <1>8, <2>1 DEF Publish, band, lanes, InBand, CeilingSet, SlotsBeforeNext, Paced
<1>9. CASE Tick
  <2>1. LimTypeOK'
    BY <1>9 DEF Tick, LimTypeOK, band, feedback, lanes, signal, history
  <2> QED
    BY <1>9, <2>1 DEF Tick, band, lanes, signal, InBand, CeilingSet, SlotsBeforeNext, Paced
<1>10. CASE UNCHANGED limVars
  <2>1. LimTypeOK'
    BY <1>10 DEF limVars, LimTypeOK, band, feedback, lanes, signal, history
  <2> QED
    BY <1>10, <2>1 DEF limVars, band, lanes, signal, InBand, CeilingSet, SlotsBeforeNext, Paced
<1> QED
  BY <1>1, <1>2, <1>3, <1>4, <1>5, <1>6, <1>7, <1>8, <1>9, <1>10 DEF LimNext

\* Every reachable state satisfies the inductive invariant.
THEOREM Invariance == LimSpec => []IInv
BY InitIInv, StepIInv, PTL DEF LimSpec

\* The variables keep their types (AdaptiveLimiter).
THEOREM TypeCorrect == LimSpec => []LimTypeOK
<1>1. IInv => LimTypeOK
  BY DEF IInv
<1> QED
  BY Invariance, <1>1, PTL

\* The rate never leaves [floor, ceil], whatever the provider answers and
\* however the ceiling moves (_set_rate, set_ceiling).
THEOREM Band == LimSpec => []InBand
<1>1. IInv => InBand
  BY DEF IInv
<1> QED
  BY Invariance, <1>1, PTL

\* Any number of lanes is paced like one: their slots are an interval apart
\* (wait).
THEOREM Pacing == LimSpec => []Paced
<1>1. IInv => Paced
  BY DEF IInv
<1> QED
  BY Invariance, <1>1, PTL

\* A yielding engine asks for no more than the yielded budget (_yield_to_live).
THEOREM Yielding == LimSpec => []Yields
<1>1. IInv => Yields
  BY LimiterAssumption DEF IInv, InBand, CeilingSet, Yields, LimTypeOK, Rate
<1> QED
  BY Invariance, <1>1, PTL

-----------------------------------------------------------------------------
\* Both decreases decrease (hard_decrease, soft_decrease: factors below 1).
Decreasing == \A r \in Rate : Hard[r] <= r /\ Soft[r] <= r

\* Why a throttle freezes the rate: no softer signal has shortened its cooldown.
CooldownKept == throttled # -1 => throttled + Cooldown <= frozen

\* Only a throttle sets the time of the last one, and nothing shortens its cooldown.
LEMMA CooldownStep == IInv /\ CooldownKept /\ [LimNext]_limVars => CooldownKept'
<1> SUFFICES ASSUME IInv, CooldownKept, [LimNext]_limVars PROVE CooldownKept'
  OBVIOUS
<1> USE LimiterAssumption DEF IInv, LimTypeOK, CooldownKept
<1>1. ASSUME NEW l \in Lane, OnThrottle(l) PROVE CooldownKept'
  BY <1>1 DEF OnThrottle, feedback, history
<1>2. ASSUME NEW l \in Lane, OnLowBucket(l) PROVE CooldownKept'
  <2>1. frozen <= frozen' /\ frozen' \in Nat /\ throttled' = throttled
    BY <1>2 DEF OnLowBucket, SoftFrozen, Later, history
  <2> QED
    BY <2>1
<1>3. ASSUME NEW l \in Lane, OnSuccess(l) PROVE CooldownKept'
  BY <1>3 DEF OnSuccess, feedback, history
<1>4. ASSUME UNCHANGED <<feedback, history>> PROVE CooldownKept'
  BY <1>4 DEF feedback, history
<1> QED
  BY <1>1, <1>2, <1>3, <1>4
     DEF LimNext, Wait, Reserve, Send, YieldToLive, Publish, Tick, limVars

\* The rate grows in one place only, and there the cooldown is over.
LEMMA GrowthStep ==
  Decreasing /\ IInv /\ CooldownKept /\ [LimNext]_limVars
    => [rate' > rate => throttled = -1 \/ ticks >= throttled + Cooldown]_limVars
<1> SUFFICES ASSUME Decreasing, IInv, CooldownKept, LimNext, rate' > rate
             PROVE  throttled = -1 \/ ticks >= throttled + Cooldown
  OBVIOUS
<1> USE LimiterAssumption DEF IInv
<1>b. rate \in Rate /\ floor <= rate /\ rate <= ceil
  BY DEF LimTypeOK, InBand
<1>i. /\ floor \in Int /\ ceil \in Int /\ rate \in Int
      /\ \A r \in Rate : r \in Int
  BY DEF LimTypeOK, Rate
<1>c. ASSUME NEW r \in Int, r <= rate PROVE Clamped(r) \in Int /\ Clamped(r) <= rate
  BY <1>b, <1>c, <1>i DEF Clamped, Later, Lower
<1>d. ASSUME rate' \in Int, rate' <= rate PROVE FALSE
  BY <1>d, <1>i
<1>1. ASSUME NEW l \in Lane, OnThrottle(l) PROVE FALSE
  <2>1. Hard[rate] \in Int /\ Hard[rate] <= rate
    BY <1>b DEF Decreasing
  <2>2. rate' = rate \/ rate' = Clamped(Hard[rate])
    BY <1>1 DEF OnThrottle
  <2> QED
    BY <1>c, <1>d, <1>i, <2>1, <2>2
<1>2. ASSUME NEW l \in Lane, OnLowBucket(l) PROVE FALSE
  <2>1. Soft[rate] \in Int /\ Soft[rate] <= rate
    BY <1>b DEF Decreasing
  <2>2. rate' = Clamped(Soft[rate])
    BY <1>2 DEF OnLowBucket
  <2> QED
    BY <1>c, <1>d, <1>i, <2>1, <2>2
<1>3. ASSUME NEW l \in Lane, OnSuccess(l)
      PROVE  throttled = -1 \/ ticks >= throttled + Cooldown
  <2>1. ~(ticks < frozen)
    <3>1. CASE rate' = rate
      BY <1>d, <1>i, <3>1
    <3>2. CASE rate' # rate
      BY <1>3, <3>2 DEF OnSuccess
    <3> QED
      BY <3>1, <3>2
  <2> QED
    BY <2>1 DEF CooldownKept, LimTypeOK
<1>4. ASSUME YieldToLive PROVE FALSE
  <2>1. PICK c \in Rate : SetCeiling(c)
    BY <1>4 DEF YieldToLive
  <2> QED
    BY <1>d, <1>i, <2>1 DEF SetCeiling, Lower, band
<1>5. ASSUME UNCHANGED rate PROVE FALSE
  BY <1>d, <1>i, <1>5
<1> QED
  BY <1>1, <1>2, <1>3, <1>4, <1>5
     DEF LimNext, Wait, Reserve, Send, Publish, Tick, band

\* The rate does not grow within the cooldown of a throttle, whatever softer
\* signals and moves of the ceiling follow it (on_throttle, on_result,
\* on_success, set_ceiling).
THEOREM NoEarlyGrowth == Decreasing => (LimSpec => Frozen)
<1> SUFFICES ASSUME Decreasing PROVE LimSpec => Frozen
  OBVIOUS
<1>1. LimInit => CooldownKept
  BY DEF LimInit, CooldownKept
<1>2. IInv /\ CooldownKept /\ [LimNext]_limVars
        => [rate' > rate => throttled = -1 \/ ticks >= throttled + Cooldown]_limVars
  BY GrowthStep
<1> QED
  BY <1>1, <1>2, Invariance, CooldownStep, PTL DEF LimSpec, Frozen
=============================================================================

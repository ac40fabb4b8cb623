---------------------------- MODULE RelayHealth ----------------------------
(***************************************************************************)
(* How the engines notice that the relay in Make.com is out of order       *)
(* (relay_health.py) and what they do about it.  Every engine has its own  *)
(* monitor; mirror/relay_health.json is read when an engine starts and     *)
(* written by all of them.  The live engine polls on through an outage,    *)
(* the backfill and the drain stop at the first call that fails and are    *)
(* started again (live.py run_live, backfill.py run, queue_drain.py).  A   *)
(* tick is the time a call needs to fail, with all its retries.            *)
(***************************************************************************)
EXTENDS Naturals, FiniteSets

CONSTANTS
    LiveEngine, Halting,  \* the engine that polls on; the engines that stop
    Threshold,            \* relay_outage_threshold
    FailWindow,           \* relay_failure_window_minutes, in ticks
    IntakeStale,          \* intake_stale_minutes, in ticks
    AlertPause,           \* alert_cooldown_minutes, in ticks
    RhMaxFaults           \* bound on failed reads, lone failures and restarts

Monitored == Halting \cup {LiveEngine}

ASSUME HealthAssumption ==
    /\ {Threshold, FailWindow, IntakeStale, AlertPause} \subseteq Nat \ {0}
    /\ LiveEngine \notin Halting /\ RhMaxFaults \in Nat

VARIABLES
    make,       \* Make.com: "up", the fetch relay alone broken, or the org down
    intakeAge,  \* ticks since the intake relay wrote a row
    monitor,    \* engine -> state, ages of the failures in its window, failures in
                \*   a row, ticks since its last alert; whether it called in this tick
    healthFile, \* what was published last: state, ticks since the alert
    silent,     \* history: engine -> relay calls in a row that failed, restarts or not
    falseClear, \* history: recovery was announced while no call could succeed
    rhFaults

rhVars == <<make, intakeAge, monitor, healthFile, silent, falseClear, rhFaults>>

Grown(n, bound) == IF n < bound THEN n + 1 ELSE n
Healthy == [state |-> "ok", alert |-> AlertPause + 1]
Started(file) == [state |-> file.state, alert |-> file.alert, fails |-> {}, row |-> 0,
                  called |-> FALSE]

RhInit ==
    /\ make = "up" /\ intakeAge = 0
    /\ monitor = [m \in Monitored |-> Started(Healthy)]
    /\ healthFile = Healthy
    /\ silent = [m \in Monitored |-> 0]
    /\ falseClear = FALSE
    /\ rhFaults = RhMaxFaults

RhFault == rhFaults > 0 /\ rhFaults' = rhFaults - 1

MakeChanges ==
    /\ RhFault
    /\ make' \in {"up", "scenario", "platform"} \ {make}
    /\ UNCHANGED <<intakeAge, monitor, healthFile, silent, falseClear>>

RhTick ==
    /\ intakeAge' \in IF make = "platform" THEN {Grown(intakeAge, IntakeStale + 1)}
                      ELSE {0, Grown(intakeAge, IntakeStale + 1)}
    /\ monitor' = [m \in Monitored |-> [monitor[m] EXCEPT
           !.fails = {age + 1 : age \in @} \cap 0..FailWindow,
           !.alert = Grown(@, AlertPause + 1), !.called = FALSE]]
    /\ healthFile' = [healthFile EXCEPT !.alert = Grown(@, AlertPause + 1)]
    /\ UNCHANGED <<make, silent, falseClear, rhFaults>>

-----------------------------------------------------------------------------
(* RelayClient and with_retries: an attempt that fails is made again, and no
   number of attempts helps while the relay does not answer. *)
Unanswered == make # "up"

Published(state, alert) == healthFile' = [state |-> state, alert |-> alert]

(* record_success: recovery is told once the window is empty. *)
Recovered(m) == monitor[m].state # "ok" /\ monitor[m].fails = {}

Succeeded(m) ==
    IF Recovered(m)
    THEN /\ Published("ok", 0)
         /\ monitor' = [monitor EXCEPT ![m].state = "ok", ![m].alert = 0, ![m].row = 0,
                                       ![m].called = TRUE]
         /\ falseClear' = (falseClear \/ Unanswered)
    ELSE /\ monitor' = [monitor EXCEPT ![m].row = 0, ![m].called = TRUE]
         /\ UNCHANGED <<healthFile, falseClear>>

(* A cycle whose relay calls all succeeded. *)
CallSucceeds(m) ==
    /\ ~Unanswered /\ ~monitor[m].called
    /\ Succeeded(m)
    /\ silent' = [silent EXCEPT ![m] = 0]
    /\ UNCHANGED <<make, intakeAge, rhFaults>>

(* A poll of the live engine that finds nothing to fetch counts as a success. *)
PollsNothing ==
    /\ ~monitor[LiveEngine].called
    /\ Succeeded(LiveEngine)
    /\ UNCHANGED <<make, intakeAge, silent, rhFaults>>

(* triage: the intake relay, whose newest row tells that it works, is the
   second witness. *)
IntakeQuiet == intakeAge > IntakeStale

Triaged(readable) ==
    IF ~readable THEN "unknown" ELSE IF IntakeQuiet THEN "platform" ELSE "scenario"

(* mutant: only failures in a row count *)
TripsInARow(row, fails) == row >= Threshold

Trips(row, fails) == row >= Threshold \/ Cardinality(fails) >= Threshold

(* record_failure, once RelayClient gave up; an engine that
   stops at it starts again from what is published. *)
CallFails(m) ==
    LET row == Grown(monitor[m].row, Threshold)
        fails == monitor[m].fails \cup {0}
        failed == [monitor[m] EXCEPT !.fails = fails, !.row = row, !.called = TRUE]
        Goes(next) == monitor' = [monitor EXCEPT ![m] =
            IF m \in Halting THEN [Started(healthFile') EXCEPT !.called = TRUE] ELSE next]
    IN
    /\ ~monitor[m].called
    /\ \/ /\ ~Trips(row, fails)
          /\ IF Unanswered THEN UNCHANGED rhFaults ELSE RhFault
          /\ UNCHANGED healthFile
          /\ Goes(failed)
       \/ \E readable \in BOOLEAN :
             LET state == Triaged(readable)
                 alert == IF state # failed.state \/ failed.alert > AlertPause
                          THEN 0 ELSE failed.alert
             IN  /\ Trips(row, fails)
                 /\ IF Unanswered /\ readable THEN UNCHANGED rhFaults ELSE RhFault
                 /\ Published(state, alert)
                 /\ Goes([failed EXCEPT !.state = state, !.alert = alert])
    /\ silent' = [silent EXCEPT ![m] = Grown(@, Threshold)]
    /\ UNCHANGED <<make, intakeAge, falseClear>>

RestartEngine(m) ==
    /\ RhFault
    /\ monitor' = [monitor EXCEPT ![m] = Started(healthFile)]
    /\ UNCHANGED <<make, intakeAge, healthFile, silent, falseClear>>

RhNext ==
    \/ MakeChanges \/ RhTick \/ PollsNothing
    \/ \E m \in Monitored : CallSucceeds(m) \/ CallFails(m) \/ RestartEngine(m)

-----------------------------------------------------------------------------
(* "A flapping platform never trips a strictly-consecutive rule, which is
   exactly the outage we must catch" (record_failure): enough failures within
   the window put the engine that saw them on alert, and while they go on the
   channel hears of it at least once per cooldown. *)
OutageSeen ==
    \A m \in Monitored :
        Cardinality(monitor[m].fails) >= Threshold =>
            /\ monitor[m].state # "ok"
            /\ 0 \in monitor[m].fails => monitor[m].alert <= AlertPause

(* "Classify, alert out-of-band, stop cleanly" (backfill.py run): an engine
   whose calls keep failing is classified. *)
HaltTold == \A m \in Halting : silent[m] >= Threshold => healthFile.state # "ok"

(* "it would fire a false all clear" (record_success): recovery is announced
   only when the relay answers. *)
NoFalseClear == ~falseClear
=============================================================================

---------------------------- MODULE CreditWatch ----------------------------
(***************************************************************************)
(* The Make.com credit watcher (credit_watch.py): a process that polls the *)
(* balance, the retry queues and a scenario's switch, raises and answers   *)
(* Slack threads, and keeps what it told in mirror/credit_state.json.      *)
(* It saves once per tick, at the end: a kill before that forgets what was *)
(* told in the tick, not the threads, which the registry of notify.py      *)
(* keeps (IssueRegistry; Slack accepts every post here).                   *)
(***************************************************************************)
EXTENDS Naturals, FiniteSetsExt

CONSTANTS
    Thresholds,   \* credit_alert_thresholds, as levels of the balance
    Ample,        \* the level above all of them
    RetryQueue,   \* the scenarios of make_dlq_watch that store failed runs
    LongFail,     \* DLQ_FAIL_ALERT_S, in ticks
    AlertEvery,   \* DLQ_COOLDOWN_S, in ticks
    NoReading,
    CwMaxEvents,  \* bound on what happens to the account
    CwMaxFaults   \* bound on failed reads and kills

ASSUME CreditAssumption ==
    /\ Thresholds \subseteq 1..(Ample - 1) /\ Thresholds # {} /\ Ample \in Nat
    /\ {LongFail, AlertEvery} \subseteq Nat \ {0}
    /\ NoReading \notin [level : Nat, extra : Nat, cycle : Nat]

VARIABLES
    account,   \* the organisation: level of the balance, extra credits bought, cycle
    stuckIn,   \* the queues with a run Make has given up on
    switchOn,  \* the watched scenario is active
    cwFile,    \* credit_state.json
    cwState,   \* self.state of the running watcher
    watcher,   \* pc, the reading of the tick, the keys posted since the last save
    cwThreads, \* the issue threads that are open
    untold,    \* history: keys posted in a tick that a kill cut short
    cwEvents, cwFaults

cwVars == <<account, stuckIn, switchOn, cwFile, cwState, watcher, cwThreads, untold,
            cwEvents, cwFaults>>
cwWorld == <<account, stuckIn, switchOn, cwEvents>>

Told0 == [fired |-> {}, out |-> FALSE, org |-> NoReading,
          alerted |-> AlertEvery, failing |-> [q \in RetryQueue |-> 0],
          found |-> {}]
CwIdle == [pc |-> "sleep", org |-> NoReading, posted |-> {}]

CwInit ==
    /\ account = [level |-> Ample, extra |-> 0, cycle |-> 0]
    /\ stuckIn = {} /\ switchOn = TRUE
    /\ cwFile = Told0 /\ cwState = Told0
    /\ watcher = CwIdle
    /\ cwThreads = {} /\ untold = {}
    /\ cwEvents = CwMaxEvents /\ cwFaults = CwMaxFaults

CwFault == cwFaults > 0 /\ cwFaults' = cwFaults - 1
CwGo(pc) == watcher' = [watcher EXCEPT !.pc = pc]

(* _alert with a key and _resolve: `opened` are opened or updated, `answered` closed. *)
Post(opened, answered, pc) ==
    /\ cwThreads' = (cwThreads \ answered) \cup opened
    /\ watcher' = [watcher EXCEPT !.pc = pc,
                                  !.posted = @ \cup opened \cup (answered \cap cwThreads)]

-----------------------------------------------------------------------------
(* What happens to the account between two readings. *)
Account ==
    /\ cwEvents > 0 /\ cwEvents' = cwEvents - 1
    /\ \/ \E l \in 0..Ample : /\ l < account.level
                              /\ account' = [account EXCEPT !.level = l]
                              /\ UNCHANGED <<stuckIn, switchOn>>
       \/ \E l \in 1..Ample : /\ l >= account.level
                              /\ account' = [account EXCEPT !.level = l, !.extra = @ + 1]
                              /\ UNCHANGED <<stuckIn, switchOn>>
       \/ /\ account' = [level |-> Ample, extra |-> 0, cycle |-> account.cycle + 1]
          /\ UNCHANGED <<stuckIn, switchOn>>
       \/ \E q \in RetryQueue : stuckIn' = (stuckIn \cup {q}) \ (stuckIn \cap {q})
                                /\ UNCHANGED <<account, switchOn>>
       \/ switchOn' = ~switchOn /\ UNCHANGED <<account, stuckIn>>
    /\ UNCHANGED <<cwFile, cwState, watcher, cwThreads, untold, cwFaults>>

(* A tick whose first read fails does nothing else. *)
ReadOrg ==
    /\ watcher.pc = "sleep"
    /\ watcher' = [watcher EXCEPT !.pc = "queues", !.org = account]
    /\ cwState' = [cwState EXCEPT !.alerted = IF @ < AlertEvery THEN @ + 1 ELSE @]
    /\ cwFile' = [cwFile EXCEPT !.alerted = IF @ < AlertEvery THEN @ + 1 ELSE @]
    /\ UNCHANGED <<cwWorld, cwThreads, untold, cwFaults>>

(* _track_read_failures: failed reads in a row. *)
Streaks(unread) ==
    [q \in RetryQueue |-> IF q \notin unread THEN 0
                          ELSE IF cwState.failing[q] < LongFail THEN cwState.failing[q] + 1
                          ELSE LongFail]

(* scan_dlq: the queues that could be read and have runs Make gave up on. *)
Stuck(unread) == stuckIn \ unread

(* check_relay_dlq: one thread for all queues.  A failed read proves nothing:
   the thread is answered, and the cooldown ended, when every queue reads clear. *)
CheckQueues ==
    \E unread \in SUBSET RetryQueue :
        LET found == Stuck(unread)
            failing == Streaks(unread)
            bad == found # {} \/ \E q \in RetryQueue : failing[q] = LongFail
            due == bad /\ cwState.alerted = AlertEvery
            rest == [cwState EXCEPT !.failing = failing, !.found = found]
        IN
        /\ watcher.pc = "queues"
        /\ IF unread = {} THEN UNCHANGED cwFaults ELSE CwFault
        /\ \/ /\ ~bad /\ unread = {}
              /\ Post({}, {"queue"}, "scenario")
              /\ cwState' = [rest EXCEPT !.alerted = AlertEvery]
           \/ /\ IF bad THEN ~due ELSE unread # {}
              /\ Post({}, {}, "scenario")
              /\ cwState' = rest
           \/ /\ due
              /\ Post({"queue"}, {}, "scenario")
              /\ cwState' = [rest EXCEPT !.alerted = 0]
        /\ UNCHANGED <<cwWorld, cwFile, untold>>

(* check_scenarios_active *)
CheckScenario ==
    /\ watcher.pc = "scenario"
    /\ \/ Post(IF switchOn THEN {} ELSE {"off"}, IF switchOn THEN {"off"} ELSE {}, "cycle")
          /\ UNCHANGED cwFaults
       \/ CwGo("cycle") /\ CwFault /\ UNCHANGED cwThreads
    /\ UNCHANGED <<cwWorld, cwFile, cwState, untold>>

Renewed == cwState.org # NoReading /\ watcher.org.cycle # cwState.org.cycle
Bought == cwState.org # NoReading /\ ~Renewed /\ watcher.org.extra > cwState.org.extra

(* Steps 1 and 2 of the tick: the cycle renewed, or credits were bought. *)
CycleOrRefill ==
    LET level == watcher.org.level IN
    /\ watcher.pc = "cycle"
    /\ \/ /\ Renewed
          /\ cwState' = [cwState EXCEPT !.fired = {}, !.out = FALSE]
          /\ Post({}, {"out", "low"}, "out")
       \/ /\ Bought
          /\ cwState' = [cwState EXCEPT !.fired = {t \in @ : t >= level}]
          /\ Post({}, IF level > Max(Thresholds) THEN {"low"} ELSE {}, "out")
       \/ ~Renewed /\ ~Bought /\ CwGo("out") /\ UNCHANGED <<cwState, cwThreads>>
    /\ UNCHANGED <<cwWorld, cwFile, untold, cwFaults>>

(* mutant: "back online" without its thread *)
BackNot == cwState' = [cwState EXCEPT !.out = FALSE] /\ Post({}, {}, "low")

Back == cwState' = [cwState EXCEPT !.out = FALSE] /\ Post({}, {"out"}, "low")

(* Step 3: out of credits, or back online. *)
OutOrBack ==
    LET level == watcher.org.level IN
    /\ watcher.pc = "out"
    /\ \/ level = 0 /\ ~cwState.out /\ cwState' = [cwState EXCEPT !.out = TRUE]
          /\ Post({"out"}, {}, "low")
       \/ level > 0 /\ cwState.out /\ Back
       \/ (level = 0) = cwState.out /\ CwGo("low") /\ UNCHANGED <<cwState, cwThreads>>
    /\ UNCHANGED <<cwWorld, cwFile, untold, cwFaults>>

(* Step 4: the highest threshold that was crossed since the last reading and
   has not been told in this cycle; the others wait for another crossing. *)
Crossed ==
    {t \in Thresholds \ cwState.fired :
        /\ watcher.org.level <= t
        /\ cwState.org = NoReading \/ cwState.org.level > t}

TellCrossing ==
    /\ watcher.pc = "low"
    /\ IF Crossed = {}
       THEN CwGo("save") /\ UNCHANGED <<cwState, cwThreads>>
       ELSE /\ cwState' = [cwState EXCEPT !.fired = @ \cup {Max(Crossed)}]
            /\ Post({"low"}, {}, "save")
    /\ UNCHANGED <<cwWorld, cwFile, untold, cwFaults>>

SaveTold ==
    /\ watcher.pc = "save"
    /\ cwState' = [cwState EXCEPT !.org = watcher.org]
    /\ cwFile' = cwState'
    /\ watcher' = CwIdle
    /\ untold' = untold \ watcher.posted
    /\ UNCHANGED <<cwWorld, cwThreads, cwFaults>>

(* A kill and a restart; the watcher may have been away for long, which ends
   the cooldown and every failure streak. *)
KillWatcher ==
    /\ CwFault
    /\ \E away \in BOOLEAN :
         cwState' = IF away THEN [cwFile EXCEPT !.alerted = AlertEvery,
                                                !.failing = Told0.failing] ELSE cwFile
    /\ cwFile' = cwState'
    /\ watcher' = CwIdle
    /\ untold' = untold \cup watcher.posted
    /\ UNCHANGED <<cwWorld, cwThreads>>

CwNext == \/ Account \/ ReadOrg \/ CheckQueues \/ CheckScenario \/ CycleOrRefill
          \/ OutOrBack \/ TellCrossing \/ SaveTold \/ KillWatcher

-----------------------------------------------------------------------------
(* After each tick the threads say what the tick saw: out of credits exactly
   while the balance is 0, low never with a balance above every threshold, and
   stuck runs always with a thread, as long as no kill fell between a post and
   the save (tick, check_relay_dlq). *)
ThreadsTell ==
    watcher.pc = "sleep" /\ cwFile.org # NoReading =>
        /\ "out" \notin untold => ("out" \in cwThreads) = (cwFile.org.level = 0)
        /\ "low" \notin untold /\ cwFile.org.level = Ample => "low" \notin cwThreads
        /\ "queue" \notin untold /\ cwFile.found # {} => "queue" \in cwThreads

(* "threshold alerts as the balance crosses 50k / 10k / 1k" (credit_watch.py):
   no tick ends with the balance under a threshold nobody was told of. *)
CrossingsTold ==
    watcher.pc = "sleep" /\ cwFile.org # NoReading =>
        \A t \in Thresholds : cwFile.org.level <= t => t \in cwFile.fired
=============================================================================

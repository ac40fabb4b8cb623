---------------------------- MODULE Notices_proof ----------------------------
(***************************************************************************)
(* Proofs about what tells people and machines of the system's state: the  *)
(* day's escalation, the relay's health, the registry of threads, the      *)
(* threads of held products, the credit watcher, the heartbeat of a tab    *)
(* and the gift refresh.  Each part has its own variables, a section here  *)
(* and its own inductive invariant: EsSafe, RhSafe, IrSafe, HtSafe,        *)
(* CwSafe, TabSafe, GtSafe and TurnSafe; the theorems end their sections   *)
(* and hold for any number of services, orders, hosts, faults and retries. *)
(***************************************************************************)
EXTENDS Escalation, RelayHealth, IssueRegistry, HeldThreads, CreditWatch, HeartbeatGuard,
        GiftRefresh, FunctionTheorems, FiniteSetTheorems, WellFoundedInduction,
        NaturalsInduction, TLAPS

(***************************************************************************)
(* The day's escalation.                                                   *)
(***************************************************************************)
Mail == [emailed : BOOLEAN, tried : BOOLEAN, waiting : BOOLEAN, sent : Nat, killed : Nat]
EsShape ==
    /\ esRec \in [state : {"none", "opening", "open", "failed", "resolving", "closed"}, mail : Mail]
    /\ relay \in [pc : {"idle", "get", "open", "post", "ask", "send", "note"}, opened : BOOLEAN]

(* Who posts the thread finds it claimed, and nobody else posts it. *)
OnePoster ==
    /\ relay.pc = "post" => esRec.state = "opening" /\ settle.pc # "post"
    /\ settle.pc = "post" => esRec.state = "opening"
    /\ relay.opened => relay.pc \in {"ask", "send", "note"}

(* No email has been sent that is not noted, but for those of killed relays. *)
Noted == esRec.mail.emailed \/ esRec.mail.sent <= esRec.mail.killed
NotedUnlessSending ==
    /\ esRec.state \in {"open", "failed", "opening"} /\ relay.pc # "note" => Noted
    /\ relay.pc = "ask" /\ relay.opened => Noted
    /\ relay.pc = "send" => esRec.mail.sent <= esRec.mail.killed

(* What every step of the relay, the settle and the world keeps. *)
EsSafe == EsShape /\ OnePoster /\ NotedUnlessSending /\ EmailOnce

(* Nothing is escalated or emailed at first. *)
LEMMA EsInitSafe == EsInit => EsSafe
  BY DEF EsInit, EsSafe, EsShape, Mail, OnePoster, NotedUnlessSending, Noted, EmailOnce, EsRecord,
         NoMail, RelayIdle, SettleIdle

(* A step of the relay, of the settle beside it, or of the world. *)
LEMMA EsStep == EsSafe /\ EsNext => EsSafe'
<1> SUFFICES ASSUME EsSafe, EsNext PROVE EsSafe'
  OBVIOUS
<1> USE DEF EsSafe, EsShape, Mail, OnePoster, NotedUnlessSending, Noted, EmailOnce, EsRecord,
            NoMail, RelayIdle, SettleIdle, esWorld, InState
<1>1. ASSUME HoldChanges PROVE EsSafe'
  BY <1>1 DEF HoldChanges
<1>2. ASSUME StampAges PROVE EsSafe'
  BY <1>2 DEF StampAges
<1>3. ASSUME BackoffOver PROVE EsSafe'
  BY <1>3 DEF BackoffOver
<1>4. ASSUME Periodic PROVE EsSafe'
  BY <1>4 DEF Periodic, Escalates
<1>5. ASSUME HeldGiveUp PROVE EsSafe'
  BY <1>5 DEF HeldGiveUp, Escalates
<1>6. ASSUME GetsRecord PROVE EsSafe'
  BY <1>6 DEF GetsRecord
<1>7. ASSUME OpensThread PROVE EsSafe'
  <2>1. CASE esRec.state \in {"none", "closed", "resolving"}
    <3>1. esRec' = EsRecord("opening", NoMail) /\ relay' = [relay EXCEPT !.pc = "post"]
      BY <1>7, <2>1 DEF OpensThread
    <3>2. UNCHANGED settle
      BY <1>7 DEF OpensThread
    <3>3. esRec'.mail = NoMail /\ esRec'.state = "opening" /\ settle.pc # "post"
      BY <2>1, <3>1
    <3>4. relay'.pc = "post" /\ relay'.opened = relay.opened /\ ~relay.opened /\ EsShape'
      BY <1>7, <3>1 DEF OpensThread
    <3> QED  BY <3>2, <3>3, <3>4
  <2>2. CASE esRec.state = "opening" /\ settle.pc # "post"
    BY <1>7, <2>2 DEF OpensThread
  <2>3. CASE esRec.state = "failed"
    <3>1. esRec' \in {esRec, EsRecord("failed", NoMail)} /\ relay' = [relay EXCEPT !.pc = "ask"]
      BY <1>7, <2>3 DEF OpensThread
    <3>2. UNCHANGED settle
      BY <1>7 DEF OpensThread
    <3>3. esRec'.mail \in {NoMail, esRec.mail} /\ esRec'.state = "failed"
      BY <2>3, <3>1
    <3>4. relay'.pc = "ask" /\ relay'.opened = relay.opened /\ ~relay.opened
      BY <1>7, <3>1 DEF OpensThread
    <3>5. esRec' \in [state : {"none", "opening", "open", "failed", "resolving", "closed"}, mail : Mail]
      <4>1. NoMail \in Mail
        OBVIOUS
      <4>2. CASE esRec' = esRec
        BY <4>2
      <4>3. CASE esRec' = EsRecord("failed", NoMail)
        BY <4>1, <4>3
      <4> QED  BY <3>1, <4>2, <4>3
    <3>6. EsShape'
      BY <3>1, <3>5
    <3> QED  BY <2>3, <1>7, <3>2, <3>3, <3>4, <3>6 DEF OpensThread
  <2>4. CASE esRec.state = "open" \/ (esRec.state = "opening" /\ settle.pc = "post")
    BY <1>7, <2>4 DEF OpensThread
  <2> QED  BY <2>1, <2>2, <2>3, <2>4
<1>8. ASSUME PostsThread PROVE EsSafe'
  BY <1>8 DEF PostsThread, Posted
<1>9. ASSUME AsksEmail PROVE EsSafe'
  BY <1>9 DEF AsksEmail, Merged
<1>10. ASSUME SendsEmail PROVE EsSafe'
  <2>1. CASE esRec' = [esRec EXCEPT !.mail.sent = @ + 1] /\ relay' = [relay EXCEPT !.pc = "note"]
    <3>1. esRec.mail.sent \in Nat /\ esRec.mail.killed \in Nat
      OBVIOUS
    <3>2. esRec'.mail.sent = esRec.mail.sent + 1 /\ esRec'.mail.killed = esRec.mail.killed
      BY <2>1
    <3>3. EsShape'
      BY <2>1, <3>1
    <3>4. relay'.pc = "note" /\ relay'.opened = relay.opened /\ esRec'.state = esRec.state
      BY <2>1
    <3> QED  BY <1>10, <3>1, <3>2, <3>3, <3>4 DEF SendsEmail
  <2>2. CASE relay' = RelayIdle /\ UNCHANGED esRec
    BY <1>10, <2>2 DEF SendsEmail
  <2> QED  BY <1>10, <2>1, <2>2 DEF SendsEmail
<1>11. ASSUME NotesEmail PROVE EsSafe'
  BY <1>11 DEF NotesEmail, Merged
<1>12. ASSUME KillRelay PROVE EsSafe'
  BY <1>12 DEF KillRelay
<1>13. ASSUME SettleReads PROVE EsSafe'
  BY <1>13 DEF SettleReads
<1>14. ASSUME SettleCloses PROVE EsSafe'
  BY <1>14 DEF SettleCloses, CloseFailed
<1>15. ASSUME SettleReposts PROVE EsSafe'
  BY <1>15 DEF SettleReposts, Left
<1>16. ASSUME SettlePosts PROVE EsSafe'
  BY <1>16 DEF SettlePosts, Posted
<1>17. ASSUME AnswerPosted PROVE EsSafe'
  BY <1>17 DEF AnswerPosted
<1> QED
  BY <1>1, <1>2, <1>3, <1>4, <1>5, <1>6, <1>7, <1>8, <1>9, <1>10, <1>11, <1>12, <1>13, <1>14,
     <1>15, <1>16, <1>17 DEF EsNext

(* A day's escalation is emailed once, and once more for each relay that was
   killed between the email and its note (run_escalations). *)
THEOREM EmailOnceHolds == EsInit /\ [][EsNext]_esVars => []EmailOnce
<1>1. EsSafe /\ UNCHANGED esVars => EsSafe'
  BY DEF esVars, EsSafe, EsShape, OnePoster, NotedUnlessSending, Noted, EmailOnce
<1>2. EsSafe => EmailOnce
  BY DEF EsSafe
<1> QED
  BY EsInitSafe, EsStep, <1>1, <1>2, PTL
-----------------------------------------------------------------------------
(***************************************************************************)
(* The relay's health.                                                     *)
(***************************************************************************)
Classes == {"ok", "unknown", "platform", "scenario"}

(* The ages of an alert, the class of a monitor and the failures in its window. *)
Pauses == 0..(AlertPause + 1)
Monitor == [state : Classes, alert : Pauses, fails : SUBSET (0..FailWindow), row : Nat,
            called : BOOLEAN]
RhShape ==
    /\ monitor \in [Monitored -> Monitor]
    /\ healthFile \in [state : Classes, alert : Pauses]

(* What every run of a monitor, tick and failure keeps. *)
RhSafe == RhShape /\ OutageSeen

(* The windows and the threshold are positive. *)
LEMMA Spans == AlertPause \in Nat \ {0} /\ FailWindow \in Nat \ {0} /\ Threshold \in Nat \ {0}
  BY HealthAssumption

(* The failures in a window can be counted. *)
LEMMA WindowIsFinite ==
  ASSUME NEW S \in SUBSET (0..FailWindow)
  PROVE  IsFiniteSet(S) /\ Cardinality(S) \in Nat
<1>1. IsFiniteSet(0..FailWindow)
  BY FS_Interval, Spans
<1> QED
  BY <1>1, FS_Subset, FS_CardinalityType

(* No failures are more of them as they grow older. *)
Aging(S) == {age + 1 : age \in S} \cap 0..FailWindow

(* Ageing by a tick is one to one, and leaves no failure new. *)
LEMMA AgingAreNoMore ==
  ASSUME NEW S \in SUBSET (0..FailWindow)
  PROVE  Aging(S) \in SUBSET (0..FailWindow) /\ Cardinality(Aging(S)) <= Cardinality(S) /\ 0 \notin Aging(S)
<1> USE Spans
<1>1. Aging(S) \in SUBSET (0..FailWindow) /\ 0 \notin Aging(S)
  BY DEF Aging
<1> DEFINE f == [n \in Aging(S) |-> n - 1]
<1>2. f \in [Aging(S) -> S]
  BY DEF Aging
<1>3. \A a, b \in Aging(S) : f[a] = f[b] => a = b
  BY <1>1
<1>4. f \in Injection(Aging(S), S)
  BY <1>2, <1>3 DEF Injection, IsInjective
<1>5. Cardinality(Aging(S)) <= Cardinality(S)
  BY <1>4, WindowIsFinite, FS_Injection
<1> QED  BY <1>1, <1>5

(* Monitors start with no failures. *)
LEMMA RhInitSafe == RhInit => RhSafe
<1> SUFFICES ASSUME RhInit PROVE RhSafe
  OBVIOUS
<1>1. Cardinality({}) = 0 /\ Threshold > 0
  BY FS_EmptySet, Spans
<1>2. Healthy \in [state : Classes, alert : Pauses]
  BY Spans DEF Healthy, Classes, Pauses
<1>3. Started(Healthy) \in Monitor /\ Started(Healthy).fails = {}
  BY <1>2 DEF Started, Monitor
<1>4. RhShape
  BY <1>2, <1>3 DEF RhInit, RhShape
<1>5. ASSUME NEW m \in Monitored PROVE ~(Cardinality(monitor[m].fails) >= Threshold)
  <2>1. monitor[m].fails = {}
    BY <1>3 DEF RhInit
  <2>2. Cardinality(monitor[m].fails) = 0
    BY <1>1, <2>1, Zenon
  <2> QED  BY <1>1, <2>2, Spans
<1> QED
  BY <1>4, <1>5 DEF RhSafe, OutageSeen

(* A monitor that was just started has nothing to tell. *)
LEMMA StartedIsMonitor ==
  ASSUME NEW f \in [state : Classes, alert : Pauses]
  PROVE  /\ Started(f) \in Monitor /\ [Started(f) EXCEPT !.called = TRUE] \in Monitor
         /\ Started(f).fails = {} /\ [Started(f) EXCEPT !.called = TRUE].fails = {}
  BY DEF Started, Monitor

(* OutageSeen of one monitor. *)
Tells(mon) ==
    Cardinality(mon.fails) >= Threshold =>
        mon.state # "ok" /\ (0 \in mon.fails => mon.alert <= AlertPause)

(* A run of a monitor, its writes, a restart and a tick. *)
LEMMA RhStep == RhSafe /\ RhNext => RhSafe'
<1> SUFFICES ASSUME RhSafe, RhNext PROVE RhSafe'
  OBVIOUS
<1> USE Spans
<1>0. RhShape /\ \A m \in Monitored : Tells(monitor[m])
  BY DEF RhSafe, OutageSeen, Tells
<1>a. ASSUME monitor' \in [Monitored -> Monitor], healthFile' \in [state : Classes, alert : Pauses],
             \A m \in Monitored : Tells(monitor'[m])
      PROVE  RhSafe'
  BY <1>a DEF RhSafe, RhShape, OutageSeen, Tells
<1>b. ASSUME NEW mon \in Monitor, mon.fails = {} PROVE Tells(mon)
  BY <1>b, FS_EmptySet DEF Tells
<1>1. ASSUME MakeChanges PROVE RhSafe'
  BY <1>0, <1>1, <1>a DEF MakeChanges, RhShape
<1>2. ASSUME RhTick PROVE RhSafe'
  <2>1. ASSUME NEW m \in Monitored
        PROVE  /\ monitor'[m] \in Monitor /\ monitor'[m].fails = Aging(monitor[m].fails)
               /\ monitor'[m].state = monitor[m].state
    <3> DEFINE old == monitor[m]
               new == [old EXCEPT !.fails = Aging(@), !.alert = Grown(@, AlertPause + 1),
                                  !.called = FALSE]
    <3>1. old \in Monitor /\ old.alert \in Pauses
      BY <1>0 DEF RhShape, Monitor
    <3>2. Aging(old.fails) \in SUBSET (0..FailWindow)
      BY <3>1, AgingAreNoMore DEF Monitor
    <3>3. Grown(old.alert, AlertPause + 1) \in Pauses
      BY <3>1 DEF Grown, Pauses
    <3>4. monitor'[m] = new
      BY <1>2 DEF RhTick, Aging
    <3> HIDE DEF old
    <3>5. new \in Monitor /\ new.fails = Aging(old.fails) /\ new.state = old.state
      BY <3>1, <3>2, <3>3 DEF Monitor
    <3> QED  BY <3>4, <3>5 DEF old
  <2>2. monitor' \in [Monitored -> Monitor]
    <3>1. monitor' = [m \in Monitored |-> monitor'[m]]
      BY <1>2 DEF RhTick
    <3> QED  BY <2>1, <3>1
  <2>3. healthFile' \in [state : Classes, alert : Pauses]
    <3>1. healthFile.alert \in Pauses
      BY <1>0 DEF RhShape
    <3>2. Grown(healthFile.alert, AlertPause + 1) \in Pauses
      BY <3>1 DEF Grown, Pauses
    <3> QED  BY <1>0, <1>2, <3>2 DEF RhTick, RhShape
  <2>4. ASSUME NEW m \in Monitored PROVE Tells(monitor'[m])
    <3>1. monitor[m].fails \in SUBSET (0..FailWindow)
      BY <1>0 DEF RhShape, Monitor
    <3>2. /\ Cardinality(Aging(monitor[m].fails)) <= Cardinality(monitor[m].fails)
          /\ 0 \notin Aging(monitor[m].fails)
          /\ Cardinality(monitor[m].fails) \in Nat /\ Cardinality(Aging(monitor[m].fails)) \in Nat
      BY <3>1, AgingAreNoMore, WindowIsFinite
    <3> QED  BY <1>0, <2>1, <3>2 DEF Tells
  <2> QED  BY <2>2, <2>3, <2>4, <1>a
<1>3. ASSUME NEW m \in Monitored, Succeeded(m) PROVE RhSafe'
  <2>1. CASE Recovered(m)
    <3>1. /\ monitor'[m] \in Monitor /\ monitor'[m].fails = {}
          /\ monitor' = [monitor EXCEPT ![m] = monitor'[m]]
          /\ healthFile' \in [state : Classes, alert : Pauses]
      BY <1>0, <1>3, <2>1 DEF Succeeded, Recovered, RhShape, Monitor, Classes, Pauses, Published
    <3> QED  BY <1>0, <3>1, <1>a, <1>b DEF RhShape
  <2>2. CASE ~Recovered(m)
    <3>1. /\ monitor'[m] \in Monitor /\ monitor'[m].fails = monitor[m].fails
          /\ monitor'[m].state = monitor[m].state /\ monitor'[m].alert = monitor[m].alert
          /\ monitor' = [monitor EXCEPT ![m] = monitor'[m]] /\ UNCHANGED healthFile
      BY <1>0, <1>3, <2>2 DEF Succeeded, RhShape, Monitor
    <3> QED  BY <1>0, <3>1, <1>a DEF RhShape, Tells
  <2> QED  BY <2>1, <2>2
<1>4. ASSUME NEW m \in Monitored, CallFails(m) PROVE RhSafe'
  <2> DEFINE row == Grown(monitor[m].row, Threshold)
             fails == monitor[m].fails \cup {0}
             failed == [monitor[m] EXCEPT !.fails = fails, !.row = row, !.called = TRUE]
  <2>1. /\ failed \in Monitor /\ failed.fails = fails /\ failed.alert = monitor[m].alert
        /\ fails \in SUBSET (0..FailWindow)
    <3>1. monitor[m] \in Monitor
      BY <1>0 DEF RhShape
    <3>2. row \in Nat /\ fails \in SUBSET (0..FailWindow)
      BY <3>1 DEF Monitor, Grown
    <3> HIDE DEF row, fails
    <3> QED  BY <3>1, <3>2 DEF Monitor
  <2>2. Cardinality(fails) \in Nat
    BY <2>1, WindowIsFinite
  <2> HIDE DEF failed, row, fails
  <2>3. ASSUME NEW next \in Monitor, Tells(next),
               healthFile' \in [state : Classes, alert : Pauses],
               monitor' = [monitor EXCEPT ![m] =
                   IF m \in Halting THEN [Started(healthFile') EXCEPT !.called = TRUE] ELSE next]
        PROVE  RhSafe'
    <3>1. monitor'[m] \in Monitor /\ Tells(monitor'[m])
      BY <1>0, <2>3, <1>b, StartedIsMonitor DEF RhShape
    <3>2. monitor' = [monitor EXCEPT ![m] = monitor'[m]]
      BY <1>0, <2>3 DEF RhShape
    <3> QED  BY <1>0, <2>3, <3>1, <3>2, <1>a DEF RhShape
  <2>4. CASE ~Trips(row, fails) /\ UNCHANGED healthFile /\ monitor' = [monitor EXCEPT ![m] =
                   IF m \in Halting THEN [Started(healthFile') EXCEPT !.called = TRUE] ELSE failed]
    <3>1. Tells(failed)
      BY <2>1, <2>2, <2>4 DEF Trips, Tells
    <3> QED  BY <1>0, <2>1, <2>3, <2>4, <3>1 DEF RhShape
  <2>5. ASSUME NEW state \in Classes \ {"ok"}, NEW alert \in 0..AlertPause,
               Published(state, alert),
               monitor' = [monitor EXCEPT ![m] =
                   IF m \in Halting THEN [Started(healthFile') EXCEPT !.called = TRUE]
                   ELSE [failed EXCEPT !.state = state, !.alert = alert]]
        PROVE  RhSafe'
    <3>1. LET next == [failed EXCEPT !.state = state, !.alert = alert]
          IN  next \in Monitor /\ next.state = state /\ next.alert = alert
      <4>1. alert \in Pauses
        BY DEF Pauses
      <4> QED  BY <2>1, <4>1 DEF Monitor
    <3> DEFINE next == [failed EXCEPT !.state = state, !.alert = alert]
    <3>2. healthFile' \in [state : Classes, alert : Pauses]
      BY <2>5 DEF Published, Pauses
    <3>3. next \in Monitor /\ Tells(next)
      BY <2>5, <3>1 DEF Tells
    <3> HIDE DEF next
    <3>4. monitor' = [monitor EXCEPT ![m] =
              IF m \in Halting THEN [Started(healthFile') EXCEPT !.called = TRUE] ELSE next]
      BY <2>5 DEF next
    <3> QED  BY <2>3, <3>2, <3>3, <3>4
  <2>6. CASE \E readable \in BOOLEAN :
             LET state == Triaged(readable)
                 alert == IF state # failed.state \/ failed.alert > AlertPause
                          THEN 0 ELSE failed.alert
             IN  /\ Published(state, alert)
                 /\ monitor' = [monitor EXCEPT ![m] =
                       IF m \in Halting THEN [Started(healthFile') EXCEPT !.called = TRUE]
                       ELSE [failed EXCEPT !.state = state, !.alert = alert]]
    <3> PICK readable \in BOOLEAN :
             LET state == Triaged(readable)
                 alert == IF state # failed.state \/ failed.alert > AlertPause
                          THEN 0 ELSE failed.alert
             IN  /\ Published(state, alert)
                 /\ monitor' = [monitor EXCEPT ![m] =
                       IF m \in Halting THEN [Started(healthFile') EXCEPT !.called = TRUE]
                       ELSE [failed EXCEPT !.state = state, !.alert = alert]]
      BY <2>6
    <3> DEFINE alert == IF Triaged(readable) # failed.state \/ failed.alert > AlertPause
                        THEN 0 ELSE failed.alert
    <3>1. Triaged(readable) \in Classes \ {"ok"}
      BY DEF Triaged, Classes
    <3>2. alert \in 0..AlertPause
      BY <2>1 DEF Monitor, Pauses
    <3> QED  BY <2>5, <3>1, <3>2
  <2> QED  BY <1>4, <2>4, <2>6 DEF CallFails, failed, row, fails
<1>5. ASSUME NEW m \in Monitored, RestartEngine(m) PROVE RhSafe'
  BY <1>0, <1>5, <1>a, <1>b, StartedIsMonitor DEF RestartEngine, RhShape
<1> QED
  BY <1>1, <1>2, <1>3, <1>4, <1>5 DEF RhNext, PollsNothing, CallSucceeds, Monitored

(* A monitor with Threshold failures in its window is not ok, and while they go
   on its last alert is not older than the pause: for any engines and any order
   of their calls and restarts (RelayMonitor). *)
THEOREM OutageSeenHolds == RhInit /\ [][RhNext]_rhVars => []OutageSeen
<1>1. RhSafe /\ UNCHANGED rhVars => RhSafe'
  BY DEF rhVars, RhSafe, RhShape, OutageSeen
<1>2. RhSafe => OutageSeen
  BY DEF RhSafe
<1> QED
  BY RhInitSafe, RhStep, <1>1, <1>2, PTL
-----------------------------------------------------------------------------
(***************************************************************************)
(* The registry of threads.                                                *)
(***************************************************************************)
Eps == 1..Episodes

(* The types of the record and of a service's job, and that the variables have
   them. *)
Record == [state : {"none", "opening", "open", "failed", "resolving", "closed"}, ep : Nat,
           threads : SUBSET Channel, holder : Service \cup {"none"}]
Job == [pc : {"idle", "raise", "post", "resolve", "reply"}, ep : Nat, left : SUBSET Channel,
        took : SUBSET Channel]
IrShape ==
    /\ rec \in Record /\ aside \in SUBSET Record /\ job \in [Service -> Job]
    /\ headlines \in [Eps \X Channel -> Nat]

(* The service that posts the thread holds the record, and who holds an
   opening record posts its thread; an open that nobody holds was killed. *)
Posting(s) == job[s].pc = "post"
HolderPosts ==
    /\ \A s \in Service : Posting(s) =>
          /\ rec.state = "opening" /\ rec.holder = s /\ rec.ep = job[s].ep /\ rec.ep \in Eps
          /\ job[s].left \cap job[s].took = {}
    /\ \A s \in Service : rec.state = "opening" /\ rec.holder = s => Posting(s)
    /\ Orphaned => rec.ep \in unsure
    /\ rec.state # "none" => rec.ep \in Eps

(* Channels that have no headline of an episode yet. *)
Blank(ep, C) == \A c \in C : headlines[<<ep, c>>] = 0

(* No channel has a headline of an episode to come or of one that was refused
   everywhere, nor of a running one where the post was not taken. *)
NoneYet ==
    /\ \A ep \in Eps : ep > rec.ep => Blank(ep, Channel)
    /\ rec.state = "failed" /\ rec.ep \in Eps \ unsure => Blank(rec.ep, Channel)
    /\ \A s \in Service : Posting(s) /\ rec.ep \notin unsure => Blank(rec.ep, Channel \ job[s].took)

(* A reply that was taken answers its episode. *)
TakenAnswers == \A s \in Service : job[s].pc = "reply" /\ job[s].took # {} => job[s].ep \in answered

(* What every step of any service keeps. *)
IrSafe == IrShape /\ HolderPosts /\ NoneYet /\ TakenAnswers /\ HeadlineOnce /\ ReplyKept

(* There is no record at first, and no job. *)
LEMMA IrInitSafe == IrInit => IrSafe
<1> SUFFICES ASSUME IrInit PROVE IrSafe
  OBVIOUS
<1> USE IssueAssumption DEF IrInit, NoRecord, NoJob
<1>1. IrShape
  BY DEF IrShape, Record, Job, Eps, Service
<1>2. \A s \in Service : job[s].pc = "idle"
  OBVIOUS
<1>3. rec.state = "none" /\ rec.ep = 0
  OBVIOUS
<1>4. ASSUME NEW ep \in Eps PROVE Blank(ep, Channel)
  BY DEF Blank, Eps
<1>5. HolderPosts /\ TakenAnswers
  BY <1>2, <1>3 DEF HolderPosts, Posting, TakenAnswers, Orphaned
<1>6. NoneYet
  BY <1>2, <1>3, <1>4 DEF NoneYet, Posting
<1>7. HeadlineOnce
  BY DEF HeadlineOnce, Eps
<1>8. ReplyKept
  BY DEF ReplyKept
<1> QED  BY <1>1, <1>5, <1>6, <1>7, <1>8 DEF IrSafe

(* What the services tell each other, where the record and the posts stay. *)
LEMMA OnlyJob ==
  ASSUME IrSafe, NEW s \in Service, NEW j \in Job, job[s].pc # "post", j.pc \notin {"post", "reply"},
         Becomes(s, j), UNCHANGED <<rec, aside, irHistory>>
  PROVE  IrSafe'
<1>0. job \in [Service -> Job] /\ job' = [job EXCEPT ![s] = j]
  BY DEF IrSafe, IrShape, Becomes
<1>1. IrShape'
  BY <1>0 DEF IrSafe, IrShape, irHistory
<1>2. \A t \in Service : Posting(t)' => Posting(t) /\ job'[t] = job[t]
  BY <1>0 DEF Posting
<1>3. \A t \in Service : Posting(t) => Posting(t)'
  BY <1>0 DEF Posting
<1>4. HolderPosts'
  <2>1. HolderPosts
    BY DEF IrSafe
  <2>2. ASSUME NEW t \in Service, Posting(t)'
        PROVE  /\ rec.state = "opening" /\ rec.holder = t /\ rec.ep = job'[t].ep /\ rec.ep \in Eps
               /\ job'[t].left \cap job'[t].took = {}
    BY <1>2, <2>1, <2>2 DEF HolderPosts
  <2>3. ASSUME NEW t \in Service, rec.state = "opening", rec.holder = t PROVE Posting(t)'
    BY <1>3, <2>1, <2>3 DEF HolderPosts
  <2> QED  BY <2>1, <2>2, <2>3 DEF HolderPosts, Orphaned, irHistory
<1>5. NoneYet'
  <2>1. NoneYet /\ UNCHANGED <<rec, unsure, headlines>>
    BY DEF IrSafe, irHistory
  <2>2. ASSUME NEW t \in Service, Posting(t)', rec.ep \notin unsure
        PROVE  Blank(rec.ep, Channel \ job'[t].took)
    BY <1>2, <2>1, <2>2 DEF NoneYet
  <2> QED  BY <2>1, <2>2 DEF NoneYet, Blank
<1>6. TakenAnswers'
  BY <1>0 DEF IrSafe, TakenAnswers, irHistory
<1>7. HeadlineOnce' /\ ReplyKept'
  BY DEF IrSafe, HeadlineOnce, ReplyKept, irHistory
<1> QED  BY <1>1, <1>4, <1>5, <1>6, <1>7 DEF IrSafe

(* A job that starts has nothing taken. *)
LEMMA WantsIsJob ==
  ASSUME NEW pc \in {"idle", "raise", "post", "resolve", "reply"}
  PROVE  /\ [NoJob EXCEPT !.pc = pc] \in Job /\ [NoJob EXCEPT !.pc = pc].pc = pc
         /\ [NoJob EXCEPT !.pc = pc].took = {}
  BY DEF NoJob, Job

(* The callers' decisions, and a caller that joins what is there. *)
LEMMA CallersStep ==
  ASSUME IrSafe
  PROVE  /\ GivesUp \/ Parks \/ Creates \/ ShowOrder \/ Applies => IrSafe'
         /\ \A s \in Service : JoinOpen(s) => IrSafe'
<1> USE WantsIsJob
<1>0. {"relay", "lane", "watch"} = Service
  BY DEF Service
<1>1. ASSUME GivesUp PROVE IrSafe'
  BY <1>0, <1>1, OnlyJob DEF GivesUp, Wants
<1>2. ASSUME Parks PROVE IrSafe'
  BY <1>0, <1>2, OnlyJob DEF Parks, Wants
<1>3. ASSUME Creates PROVE IrSafe'
  BY <1>0, <1>3, OnlyJob DEF Creates, Wants
<1>4. ASSUME ShowOrder PROVE IrSafe'
  BY <1>4 DEF ShowOrder, IrSafe, IrShape, HolderPosts, Posting, Orphaned, NoneYet, Blank, TakenAnswers,
     HeadlineOnce, ReplyKept, irHistory
<1>5. ASSUME Applies PROVE IrSafe'
  BY <1>0, <1>5, OnlyJob DEF Applies, Wants
<1>6. ASSUME NEW s \in Service, JoinOpen(s) PROVE IrSafe'
  BY <1>6, OnlyJob DEF JoinOpen, Wants
<1> QED  BY <1>1, <1>2, <1>3, <1>4, <1>5, <1>6

(* Somebody takes the record to open or to repost its thread. *)
LEMMA StartsPosting ==
  ASSUME IrSafe, NEW s \in Service, NEW ep \in Eps,
         rec.state # "opening" \/ Orphaned,
         rec'.state = "opening", rec'.ep = ep, rec'.holder = s, rec' \in Record,
         ep \in {rec.ep, rec.ep + 1},
         ep # rec.ep \/ Orphaned \/ rec.state = "failed",
         Becomes(s, [pc |-> "post", ep |-> ep, left |-> Channel, took |-> {}]),
         aside' = SetAside, UNCHANGED irHistory
  PROVE  IrSafe'
<1> DEFINE j == [pc |-> "post", ep |-> ep, left |-> Channel, took |-> {}]
<1>0. /\ job \in [Service -> Job] /\ job' = [job EXCEPT ![s] = j] /\ rec \in Record
      /\ aside \in SUBSET Record
  BY DEF IrSafe, IrShape, Becomes
<1>a. j \in Job /\ ep \in Nat
  BY IssueAssumption DEF Job, Eps
<1>1. IrShape'
  BY <1>0, <1>a DEF IrSafe, IrShape, SetAside, irHistory
<1>2. \A t \in Service : ~Posting(t)
  BY DEF IrSafe, HolderPosts, Orphaned, Service
<1>3. \A t \in Service : Posting(t)' <=> t = s
  BY <1>0, <1>2 DEF Posting
<1>4. job'[s].left \cap job'[s].took = {} /\ job'[s].ep = ep /\ job'[s].took = {}
  BY <1>0
<1>b. s # "none"
  BY DEF Service
<1>5. HolderPosts'
  <2>1. ~Orphaned'
    BY <1>b DEF Orphaned
  <2>2. rec'.ep \in Eps
    OBVIOUS
  <2> QED  BY <1>3, <1>4, <2>1, <2>2 DEF HolderPosts
<1>c. rec.ep \in Nat
  BY <1>0 DEF Record
<1>6. NoneYet'
  <2>1. UNCHANGED <<unsure, headlines>> /\ NoneYet
    BY DEF IrSafe, irHistory
  <2>2. ep \notin unsure => Blank(ep, Channel)
    <3>1. CASE ep # rec.ep
      BY <1>a, <1>c, <2>1, <3>1 DEF NoneYet
    <3>2. CASE Orphaned /\ ep = rec.ep
      BY <3>2 DEF IrSafe, HolderPosts
    <3>3. CASE rec.state = "failed" /\ ep = rec.ep
      BY <2>1, <3>3 DEF NoneYet
    <3> QED  BY <3>1, <3>2, <3>3
  <2>3. ASSUME NEW e \in Eps, e > rec'.ep PROVE Blank(e, Channel)
    <3>1. e \in Nat /\ e > rec.ep
      BY <1>a, <1>c, <2>3, IssueAssumption DEF Eps
    <3> QED  BY <2>1, <3>1 DEF NoneYet
  <2>4. ASSUME NEW t \in Service, Posting(t)', ep \notin unsure
        PROVE  Blank(ep, Channel \ job'[t].took)
    BY <1>3, <1>4, <2>2, <2>4 DEF Blank
  <2> QED  BY <2>1, <2>3, <2>4 DEF NoneYet, Blank
<1>7. TakenAnswers'
  BY <1>0 DEF IrSafe, TakenAnswers, irHistory
<1>8. HeadlineOnce'
  BY DEF IrSafe, HeadlineOnce, irHistory
<1>9. ReplyKept'
  <2>1. ASSUME NEW e \in promised \ answered
        PROVE  \E r \in aside' : r.state = "resolving" /\ r.ep = e
    <3>1. PICK r \in aside \cup {rec} : r.state = "resolving" /\ r.ep = e
      BY DEF IrSafe, ReplyKept
    <3>2. r \in aside'
      BY <3>1 DEF SetAside
    <3> QED  BY <3>1, <3>2
  <2> QED  BY <2>1 DEF ReplyKept, irHistory
<1> QED  BY <1>1, <1>5, <1>6, <1>7, <1>8, <1>9 DEF IrSafe

(* A service claims an open record for its thread, or retries a failed one. *)
LEMMA ClaimsStep ==
  ASSUME IrSafe, NEW s \in Service
  PROVE  /\ ClaimOpen(s) => IrSafe'
         /\ RetryOpen(s) => IrSafe'
<1>0. rec \in Record /\ rec.ep \in Nat
  BY DEF IrSafe, IrShape, Record
<1>1. ASSUME ClaimOpen(s) PROVE IrSafe'
  <2> DEFINE ep == IF Orphaned THEN rec.ep ELSE rec.ep + 1
  <2>1. /\ ep <= Episodes /\ rec' = [state |-> "opening", ep |-> ep, threads |-> {}, holder |-> s]
        /\ Becomes(s, [pc |-> "post", ep |-> ep, left |-> Channel, took |-> {}])
        /\ aside' = SetAside /\ UNCHANGED irHistory
        /\ rec.state \in {"none", "closed", "resolving"} \/ Orphaned
    BY <1>1 DEF ClaimOpen
  <2>2. ep \in Nat /\ ep \in {rec.ep, rec.ep + 1}
    BY <1>0
  <2>3. rec' \in Record
    BY <2>1, <2>2 DEF Record
  <2>4. ep \in Eps
    <3>1. CASE Orphaned
      BY <3>1 DEF IrSafe, HolderPosts, Orphaned
    <3>2. CASE ~Orphaned
      BY <1>0, <2>1, <3>2, IssueAssumption DEF Eps
    <3> QED  BY <3>1, <3>2
  <2>5. ep # rec.ep \/ Orphaned
    BY <1>0
  <2> HIDE DEF ep
  <2> QED  BY <2>1, <2>2, <2>3, <2>4, <2>5, StartsPosting
<1>2. ASSUME RetryOpen(s) PROVE IrSafe'
  <2>1. /\ rec' = [rec EXCEPT !.state = "opening", !.holder = s]
        /\ Becomes(s, [pc |-> "post", ep |-> rec.ep, left |-> Channel, took |-> {}])
        /\ UNCHANGED <<aside, irHistory>>
        /\ rec.state = "failed" \/ Orphaned
    BY <1>2 DEF RetryOpen, Claimed, RetryDue
  <2>2. rec' \in Record /\ rec'.state = "opening" /\ rec'.ep = rec.ep /\ rec'.holder = s
    BY <1>0, <2>1 DEF Record
  <2>3. aside' = SetAside
    BY <2>1 DEF SetAside, Orphaned
  <2>4. rec.ep \in Eps
    BY <2>1 DEF IrSafe, HolderPosts, Orphaned
  <2> QED  BY <2>1, <2>2, <2>3, <2>4, StartsPosting
<1> QED  BY <1>1, <1>2

(* The posts of a headline. *)
LEMMA PostsStep ==
  ASSUME IrSafe, NEW s \in Service
  PROVE  /\ \A c \in Channel : PostHeadline(s, c) => IrSafe'
         /\ FinishOpen(s) => IrSafe'
<1>0. /\ job \in [Service -> Job] /\ rec \in Record /\ rec.ep \in Nat /\ job[s] \in Job
      /\ headlines \in [Eps \X Channel -> Nat]
  BY DEF IrSafe, IrShape, Record
<1>1. ASSUME NEW c \in Channel, PostHeadline(s, c) PROVE IrSafe'
  <2> DEFINE ep == job[s].ep
             j == job'[s]
             posted == [headlines EXCEPT ![<<ep, c>>] = @ + 1]
  <2>1. /\ Posting(s) /\ c \in job[s].left /\ UNCHANGED <<rec, aside, promised, answered>>
        /\ ep = rec.ep /\ ep \in Eps /\ rec.state = "opening" /\ rec.holder = s
        /\ \A t \in Service : Posting(t) => t = s
    BY <1>1 DEF PostHeadline, Posting, IrSafe, HolderPosts
  <2>2. /\ job' = [job EXCEPT ![s] = j] /\ j \in Job /\ j.pc = "post" /\ j.ep = ep
        /\ j.left = job[s].left \ {c} /\ j.took \in {job[s].took, job[s].took \cup {c}}
        /\ unsure \subseteq unsure' /\ headlines' \in {headlines, posted}
        /\ headlines' = posted => c \in j.took \/ ep \in unsure'
    <3>1. CASE /\ Becomes(s, [job[s] EXCEPT !.left = @ \ {c}, !.took = @ \cup {c}])
               /\ headlines' = posted
               /\ UNCHANGED <<unsure, irFaults>>
      <4> DEFINE k == [job[s] EXCEPT !.left = @ \ {c}, !.took = @ \cup {c}]
      <4>1. /\ k \in Job /\ k.pc = job[s].pc /\ k.ep = ep /\ k.left = job[s].left \ {c}
            /\ k.took = job[s].took \cup {c}
        BY <1>0 DEF Job
      <4>2. job' = [job EXCEPT ![s] = k]
        BY <3>1 DEF Becomes
      <4> HIDE DEF k
      <4>3. j = k
        BY <1>0, <4>2
      <4> QED  BY <2>1, <3>1, <4>1, <4>2, <4>3 DEF Posting
    <3>2. CASE /\ Becomes(s, [job[s] EXCEPT !.left = @ \ {c}])
               /\ \/ UNCHANGED <<headlines, unsure>>
                  \/ headlines' = posted /\ unsure' = unsure \cup {ep}
      <4> DEFINE k == [job[s] EXCEPT !.left = @ \ {c}]
      <4>1. /\ k \in Job /\ k.pc = job[s].pc /\ k.ep = ep /\ k.left = job[s].left \ {c}
            /\ k.took = job[s].took
        BY <1>0 DEF Job
      <4>2. job' = [job EXCEPT ![s] = k]
        BY <3>2 DEF Becomes
      <4> HIDE DEF k
      <4>3. j = k
        BY <1>0, <4>2
      <4>4. headlines' = posted => ep \in unsure' \/ posted = headlines
        BY <3>2
      <4>5. posted # headlines
        <5>1. posted[<<ep, c>>] = headlines[<<ep, c>>] + 1 /\ headlines[<<ep, c>>] \in Nat
          BY <1>0, <2>1
        <5> QED  BY <5>1
      <4> QED  BY <2>1, <3>2, <4>1, <4>2, <4>3, <4>4, <4>5 DEF Posting
    <3> QED  BY <1>1, <3>1, <3>2 DEF PostHeadline
  <2>3. posted \in [Eps \X Channel -> Nat]
    BY <1>0, <2>1
  <2>4. \A e \in Eps, d \in Channel : posted[<<e, d>>] =
            IF e = ep /\ d = c THEN headlines[<<e, d>>] + 1 ELSE headlines[<<e, d>>]
    BY <1>0, <2>1
  <2> HIDE DEF posted, j, ep
  <2>5. headlines' \in [Eps \X Channel -> Nat]
    BY <1>0, <2>2, <2>3
  <2>6. IrShape'
    BY <1>0, <2>1, <2>2, <2>5 DEF IrSafe, IrShape
  <2>7. \A t \in Service : Posting(t)' <=> t = s
    BY <1>0, <2>1, <2>2 DEF Posting
  <2>8. HolderPosts'
    <3>1. job[s].left \cap job[s].took = {}
      BY <2>1 DEF IrSafe, HolderPosts
    <3>2. j.left \cap j.took = {}
      BY <2>2, <3>1
    <3>3. job'[s] = j /\ ~Orphaned'
      BY <2>1 DEF j, Orphaned, Service
    <3> QED  BY <2>1, <2>2, <2>7, <3>2, <3>3 DEF HolderPosts
  <2>9. \A e \in Eps, d \in Channel : e # ep \/ d # c => headlines'[<<e, d>>] = headlines[<<e, d>>]
    BY <1>0, <2>2, <2>4
  <2>10. NoneYet'
    <3>1. ASSUME NEW e \in Eps, e > rec'.ep PROVE Blank(e, Channel)'
      <4>1. e # ep /\ Blank(e, Channel)
        BY <1>0, <2>1, <3>1 DEF IrSafe, NoneYet, Eps
      <4> QED  BY <2>9, <4>1 DEF Blank
    <3>2. ASSUME ep \notin unsure', NEW d \in Channel \ j.took PROVE headlines'[<<ep, d>>] = 0
      <4>1. Blank(ep, Channel \ job[s].took)
        BY <2>1, <2>2, <3>2 DEF IrSafe, NoneYet
      <4>2. headlines[<<ep, d>>] = 0
        BY <2>2, <3>2, <4>1 DEF Blank
      <4>3. d = c => headlines' = headlines
        BY <2>2, <3>2
      <4>4. d # c => headlines'[<<ep, d>>] = headlines[<<ep, d>>]
        BY <2>1, <2>9, <3>2
      <4> QED  BY <4>2, <4>3, <4>4
    <3>3. rec' = rec /\ ep = rec.ep /\ rec.state # "failed"
      BY <2>1
    <3>4. \A t \in Service : Posting(t)' => job'[t] = j
      BY <2>7 DEF j
    <3> QED  BY <3>1, <3>2, <3>3, <3>4 DEF NoneYet, Blank
  <2>11. TakenAnswers'
    BY <1>0, <2>1, <2>2 DEF IrSafe, TakenAnswers, Posting
  <2>12. HeadlineOnce'
    <3>1. ASSUME NEW e \in Eps \ unsure', NEW d \in Channel PROVE headlines'[<<e, d>>] <= 1
      <4>1. headlines[<<e, d>>] <= 1
        BY <2>2 DEF IrSafe, HeadlineOnce, Eps
      <4>2. CASE headlines' = posted /\ e = ep /\ d = c
        <5>1. c \notin job[s].took
          BY <2>1 DEF IrSafe, HolderPosts
        <5>2. headlines[<<ep, c>>] = 0
          BY <2>1, <2>2, <4>2, <5>1 DEF IrSafe, NoneYet, Blank
        <5> QED  BY <2>1, <2>4, <4>2, <5>2
      <4>3. CASE headlines' = headlines \/ e # ep \/ d # c
        BY <2>9, <4>1, <4>3
      <4> QED  BY <2>2, <4>2, <4>3
    <3> QED  BY <3>1 DEF HeadlineOnce, Eps
  <2>13. ReplyKept'
    BY <2>1 DEF IrSafe, ReplyKept
  <2> QED  BY <2>6, <2>8, <2>10, <2>11, <2>12, <2>13 DEF IrSafe
<1>2. ASSUME FinishOpen(s) PROVE IrSafe'
  <2>1. /\ Posting(s) /\ rec.state = "opening" /\ rec.ep \in Eps /\ UNCHANGED <<aside, irHistory>>
        /\ \A t \in Service : Posting(t) => t = s
    BY <1>2 DEF FinishOpen, Posting, IrSafe, HolderPosts
  <2>2. /\ rec' \in Record /\ rec'.ep = rec.ep /\ rec'.holder = "none"
        /\ rec'.state = IF job[s].took = {} THEN "failed" ELSE "open"
    BY <1>0, <1>2 DEF FinishOpen, Record, Job
  <2>3. job' = [job EXCEPT ![s] = [NoJob EXCEPT !.pc = "idle"]]
    BY <1>2 DEF FinishOpen, Wants, Becomes
  <2>4. \A t \in Service : ~Posting(t)' /\ (job'[t].pc = "reply" => job'[t] = job[t])
    BY <1>0, <2>1, <2>3 DEF Posting, NoJob
  <2>5. IrShape'
    BY <1>0, <2>1, <2>2, <2>3, WantsIsJob DEF IrSafe, IrShape, irHistory
  <2>6. HolderPosts'
    BY <2>1, <2>2, <2>4 DEF HolderPosts, Orphaned, irHistory
  <2>7. NoneYet'
    <3>1. UNCHANGED <<unsure, headlines>> /\ NoneYet
      BY <2>1 DEF IrSafe, irHistory
    <3>2. job[s].took = {} /\ rec.ep \notin unsure => Blank(rec.ep, Channel)
      <4>1. Channel \ {} = Channel
        OBVIOUS
      <4> QED  BY <2>1, <3>1, <4>1 DEF NoneYet
    <3> QED  BY <2>2, <2>4, <3>1, <3>2 DEF NoneYet, Blank
  <2>8. TakenAnswers'
    BY <2>1, <2>4 DEF IrSafe, TakenAnswers, irHistory
  <2>9. HeadlineOnce'
    BY <2>1 DEF IrSafe, HeadlineOnce, irHistory
  <2>10. ReplyKept'
    BY <2>1 DEF IrSafe, ReplyKept, irHistory
  <2> QED  BY <2>5, <2>6, <2>7, <2>8, <2>9, <2>10 DEF IrSafe
<1> QED  BY <1>1, <1>2

(* The reply of a thread: nobody's headline changes. *)
Quiet == UNCHANGED <<headlines, unsure>>

(* A change of the record and of a service that does not post, where the
   headlines stay. *)
LEMMA QuietStep ==
  ASSUME IrSafe, Quiet, NEW s \in Service, ~Posting(s), NEW j \in Job, j.pc # "post", Becomes(s, j),
         rec' \in Record, rec'.ep = rec.ep, rec'.state = rec.state \/ rec'.state \in {"closed", "resolving"},
         rec.state = "opening" => rec' = rec,
         rec'.state = "failed" => rec.state = "failed",
         rec.state # "none" \/ rec'.state = "none"
  PROVE  HolderPosts' /\ NoneYet' /\ HeadlineOnce'
<1>0. job \in [Service -> Job] /\ job' = [job EXCEPT ![s] = j] /\ rec \in Record
  BY DEF IrSafe, IrShape, Becomes
<1>1. \A t \in Service : Posting(t)' <=> Posting(t)
  BY <1>0 DEF Posting
<1>2. \A t \in Service : Posting(t) => job'[t] = job[t]
  BY <1>0 DEF Posting
<1>3. UNCHANGED <<headlines, unsure>>
  BY DEF Quiet
<1>4. HolderPosts'
  <2>1. HolderPosts
    BY DEF IrSafe
  <2>2. ASSUME NEW t \in Service, Posting(t)'
        PROVE  /\ rec'.state = "opening" /\ rec'.holder = t /\ rec'.ep = job'[t].ep /\ rec'.ep \in Eps
               /\ job'[t].left \cap job'[t].took = {}
    BY <1>1, <1>2, <2>1, <2>2 DEF HolderPosts
  <2>3. rec'.state = "opening" => rec' = rec
    OBVIOUS
  <2>4. ASSUME NEW t \in Service, rec'.state = "opening", rec'.holder = t PROVE Posting(t)'
    BY <1>1, <2>1, <2>3, <2>4 DEF HolderPosts
  <2>5. Orphaned' => rec'.ep \in unsure'
    BY <1>3, <2>1, <2>3 DEF HolderPosts, Orphaned
  <2>6. rec'.state # "none" => rec'.ep \in Eps
    BY <2>1 DEF HolderPosts
  <2> QED  BY <2>2, <2>4, <2>5, <2>6 DEF HolderPosts
<1>5. NoneYet'
  <2>1. NoneYet
    BY DEF IrSafe
  <2>2. ASSUME NEW t \in Service, Posting(t)', rec'.ep \notin unsure'
        PROVE  Blank(rec.ep, Channel \ job'[t].took)
    BY <1>1, <1>2, <1>3, <2>1, <2>2 DEF NoneYet
  <2> QED  BY <1>3, <2>1, <2>2 DEF NoneYet, Blank
<1>6. HeadlineOnce'
  BY <1>3 DEF IrSafe, HeadlineOnce
<1> QED  BY <1>4, <1>5, <1>6

(* A reply that starts: the record, or one aside, is held by the service. *)
LEMMA ReplyIsJob ==
  ASSUME NEW r \in Record
  PROVE  LET j == [pc |-> "reply", ep |-> r.ep, left |-> r.threads, took |-> {}]
         IN  j \in Job /\ j.pc = "reply" /\ j.ep = r.ep /\ j.took = {}
  BY DEF Record, Job

(* A service resolves, replies, or is done replying. *)
LEMMA RepliesStep ==
  ASSUME IrSafe, NEW s \in Service
  PROVE  /\ Resolve(s) => IrSafe'
         /\ NothingToResolve(s) => IrSafe'
         /\ \A c \in Channel : PostReply(s, c) => IrSafe'
         /\ FinishReply(s) => IrSafe'
         /\ RetryReply(s) => IrSafe'
<1>0. /\ job \in [Service -> Job] /\ rec \in Record /\ job[s] \in Job /\ aside \in SUBSET Record
      /\ headlines \in [Eps \X Channel -> Nat] /\ s # "none"
  BY DEF IrSafe, IrShape, Service
<1>1. ASSUME Resolve(s) PROVE IrSafe'
  <2> DEFINE j == [pc |-> "reply", ep |-> rec.ep, left |-> rec.threads, took |-> {}]
  <2>1. /\ ~Posting(s) /\ rec.state = "open" /\ Becomes(s, j) /\ Quiet /\ UNCHANGED <<aside, answered>>
        /\ promised' = promised \cup {rec.ep} /\ rec' = [rec EXCEPT !.state = "resolving", !.holder = s]
    BY <1>1 DEF Resolve, StartReply, Posting, Quiet
  <2>2. j \in Job /\ j.pc = "reply" /\ j.took = {}
    BY <1>0, ReplyIsJob
  <2>3. rec' \in Record /\ rec'.ep = rec.ep /\ rec'.state = "resolving"
    BY <1>0, <2>1 DEF Record
  <2> HIDE DEF j
  <2>4. HolderPosts' /\ NoneYet' /\ HeadlineOnce'
    BY <2>1, <2>2, <2>3, QuietStep
  <2>5. IrShape'
    BY <1>0, <2>1, <2>2, <2>3 DEF IrSafe, IrShape, Becomes, Quiet
  <2>6. TakenAnswers'
    BY <1>0, <2>1, <2>2 DEF IrSafe, TakenAnswers, Becomes
  <2>7. ReplyKept'
    <3>1. ASSUME NEW ep \in promised' \ answered'
          PROVE  \E r \in aside' \cup {rec'} : r.state = "resolving" /\ r.ep = ep
      <4>1. CASE ep = rec.ep
        BY <2>3, <4>1
      <4>2. CASE ep \in promised \ answered
        BY <2>1, <4>2 DEF IrSafe, ReplyKept
      <4> QED  BY <2>1, <3>1, <4>1, <4>2
    <3> QED  BY <3>1 DEF ReplyKept
  <2> QED  BY <2>4, <2>5, <2>6, <2>7 DEF IrSafe
<1>2. ASSUME NothingToResolve(s) PROVE IrSafe'
  <2> DEFINE j == [NoJob EXCEPT !.pc = "idle"]
  <2>1. /\ ~Posting(s) /\ Becomes(s, j) /\ UNCHANGED <<aside, irHistory>>
        /\ rec' = IF rec.state = "failed" THEN [rec EXCEPT !.state = "closed"] ELSE rec
    BY <1>2 DEF NothingToResolve, Wants, Posting
  <2>2. j \in Job /\ j.pc = "idle"
    BY WantsIsJob
  <2>3. /\ rec' \in Record /\ rec'.ep = rec.ep
        /\ rec'.state = IF rec.state = "failed" THEN "closed" ELSE rec.state
        /\ rec.state # "failed" => rec' = rec
    BY <1>0, <2>1 DEF Record
  <2> HIDE DEF j
  <2>4. HolderPosts' /\ NoneYet' /\ HeadlineOnce'
    BY <2>1, <2>2, <2>3, QuietStep DEF Quiet, irHistory
  <2>5. IrShape'
    BY <1>0, <2>1, <2>2, <2>3 DEF IrSafe, IrShape, Becomes, irHistory
  <2>6. TakenAnswers'
    BY <1>0, <2>1, <2>2 DEF IrSafe, TakenAnswers, Becomes, irHistory
  <2>7. ReplyKept'
    BY <2>1, <2>3 DEF IrSafe, ReplyKept, irHistory
  <2> QED  BY <2>4, <2>5, <2>6, <2>7 DEF IrSafe
<1>3. ASSUME NEW c \in Channel, PostReply(s, c) PROVE IrSafe'
  <2>1. PICK j \in Job : /\ Becomes(s, j) /\ j.pc = "reply" /\ j.ep = job[s].ep
                         /\ answered \subseteq answered'
                         /\ j.took = job[s].took \/ j.ep \in answered'
    <3>1. CASE /\ Becomes(s, [job[s] EXCEPT !.left = @ \ {c}, !.took = @ \cup {c}])
               /\ answered' = answered \cup {job[s].ep}
      <4> DEFINE k == [job[s] EXCEPT !.left = @ \ {c}, !.took = @ \cup {c}]
      <4>1. k \in Job /\ k.pc = job[s].pc /\ k.ep = job[s].ep
        BY <1>0 DEF Job
      <4> HIDE DEF k
      <4>2. Becomes(s, k)
        BY <3>1 DEF k
      <4> QED  BY <1>3, <3>1, <4>1, <4>2 DEF PostReply
    <3>2. CASE Becomes(s, [job[s] EXCEPT !.left = @ \ {c}]) /\ UNCHANGED answered
      <4> DEFINE k == [job[s] EXCEPT !.left = @ \ {c}]
      <4>1. k \in Job /\ k.pc = job[s].pc /\ k.ep = job[s].ep /\ k.took = job[s].took
        BY <1>0 DEF Job
      <4> HIDE DEF k
      <4>2. Becomes(s, k)
        BY <3>2 DEF k
      <4> QED  BY <1>3, <3>2, <4>1, <4>2 DEF PostReply
    <3> QED  BY <1>3, <3>1, <3>2 DEF PostReply
  <2>2. /\ ~Posting(s) /\ job[s].pc = "reply" /\ UNCHANGED <<rec, aside, headlines, unsure, promised>>
    BY <1>3 DEF PostReply, Posting
  <2>3. HolderPosts' /\ NoneYet' /\ HeadlineOnce'
    BY <1>0, <2>1, <2>2, QuietStep DEF Quiet
  <2>4. IrShape'
    BY <1>0, <2>1, <2>2 DEF IrSafe, IrShape, Becomes
  <2>5. TakenAnswers'
    <3>1. ASSUME NEW t \in Service, job'[t].pc = "reply", job'[t].took # {}
          PROVE  job'[t].ep \in answered'
      <4>1. CASE t = s
        BY <1>0, <2>1, <2>2, <3>1, <4>1 DEF Becomes, IrSafe, TakenAnswers
      <4>2. CASE t # s
        BY <1>0, <2>1, <3>1, <4>2 DEF Becomes, IrSafe, TakenAnswers
      <4> QED  BY <4>1, <4>2
    <3> QED  BY <3>1 DEF TakenAnswers
  <2>6. ReplyKept'
    BY <2>1, <2>2 DEF IrSafe, ReplyKept
  <2> QED  BY <2>3, <2>4, <2>5, <2>6 DEF IrSafe
<1>4. ASSUME FinishReply(s) PROVE IrSafe'
  <2> DEFINE mine == {r \in aside : Resolving(s, r)}
             kept == IF job[s].took = {} THEN {[r EXCEPT !.holder = "none"] : r \in mine} ELSE {}
             j == [NoJob EXCEPT !.pc = "idle"]
  <2>1. /\ ~Posting(s) /\ job[s].pc = "reply" /\ Becomes(s, j) /\ UNCHANGED irHistory
        /\ aside' = (aside \ mine) \cup kept
        /\ ~Resolving(s, rec) => rec' = rec
        /\ Resolving(s, rec) => rec' = [rec EXCEPT !.holder = "none",
                                            !.state = IF job[s].took = {} THEN @ ELSE "closed"]
    BY <1>4 DEF FinishReply, Wants, Posting
  <2>2. j \in Job /\ j.pc = "idle"
    BY WantsIsJob
  <2>3. \A r \in Record : /\ [r EXCEPT !.holder = "none"] \in Record
                          /\ [r EXCEPT !.holder = "none"].state = r.state
                          /\ [r EXCEPT !.holder = "none"].ep = r.ep
    BY DEF Record
  <2>4. aside' \in SUBSET Record
    BY <1>0, <2>1, <2>3
  <2>5. /\ rec' \in Record /\ rec'.ep = rec.ep
        /\ rec'.state = rec.state \/ (rec.state = "resolving" /\ rec'.state = "closed" /\ job[s].took # {})
        /\ rec.state = "opening" => rec' = rec
        /\ Resolving(s, rec) /\ job[s].took = {} => rec'.state = rec.state
    <3>1. CASE Resolving(s, rec)
      BY <1>0, <2>1, <3>1 DEF Record, Resolving
    <3>2. CASE ~Resolving(s, rec)
      BY <1>0, <2>1, <3>2
    <3> QED  BY <3>1, <3>2
  <2>6. ASSUME NEW ep \in promised' \ answered'
        PROVE  \E r \in aside' \cup {rec'} : r.state = "resolving" /\ r.ep = ep
    <3>1. PICK r \in aside \cup {rec} : r.state = "resolving" /\ r.ep = ep
      BY <2>1, <2>6 DEF IrSafe, ReplyKept, irHistory
    <3>2. Resolving(s, r) => job[s].took = {}
      BY <2>1, <2>6, <3>1 DEF Resolving, IrSafe, TakenAnswers, irHistory
    <3>3. CASE r = rec
      <4>1. Resolving(s, rec) => rec'.state = rec.state /\ rec'.ep = rec.ep
        BY <2>5, <3>2, <3>3
      <4> QED  BY <2>1, <3>1, <3>3, <4>1
    <3>4. CASE r \in aside /\ ~Resolving(s, r)
      BY <2>1, <3>1, <3>4
    <3>5. CASE r \in aside /\ Resolving(s, r)
      <4>1. [r EXCEPT !.holder = "none"] \in aside'
        BY <2>1, <3>2, <3>5
      <4> QED  BY <1>0, <2>3, <3>1, <3>5, <4>1
    <3> QED  BY <3>1, <3>3, <3>4, <3>5
  <2> HIDE DEF mine, kept, j
  <2>7. HolderPosts' /\ NoneYet' /\ HeadlineOnce'
    BY <2>1, <2>2, <2>5, QuietStep DEF Quiet, irHistory
  <2>8. IrShape'
    BY <1>0, <2>1, <2>2, <2>4, <2>5 DEF IrSafe, IrShape, Becomes, irHistory
  <2>9. TakenAnswers'
    BY <1>0, <2>1, <2>2 DEF IrSafe, TakenAnswers, Becomes, irHistory
  <2> QED  BY <2>6, <2>7, <2>8, <2>9 DEF IrSafe, ReplyKept
<1>5. ASSUME RetryReply(s) PROVE IrSafe'
  <2>1. PICK r \in aside \cup {rec} :
          /\ r.state = "resolving" /\ r.holder = "none" /\ StartReply(s, r)
          /\ IF r = rec THEN rec' = [rec EXCEPT !.holder = s] /\ UNCHANGED aside
             ELSE aside' = (aside \ {r}) \cup {[r EXCEPT !.holder = s]} /\ UNCHANGED rec
    BY <1>5 DEF RetryReply
  <2> DEFINE j == [pc |-> "reply", ep |-> r.ep, left |-> r.threads, took |-> {}]
             held == [r EXCEPT !.holder = s]
  <2>2. Becomes(s, j) /\ ~Posting(s) /\ UNCHANGED irHistory
    BY <1>5, <2>1 DEF RetryReply, StartReply, Posting
  <2>3. r \in Record /\ held \in Record /\ held.state = "resolving" /\ held.ep = r.ep
    BY <1>0, <2>1 DEF Record
  <2>4. j \in Job /\ j.pc = "reply" /\ j.took = {}
    BY <2>3, ReplyIsJob
  <2>5. /\ r = rec => rec' = held /\ aside' = aside
        /\ r # rec => rec' = rec /\ aside' = (aside \ {r}) \cup {held}
    BY <2>1
  <2> HIDE DEF j, held
  <2>6. /\ rec' \in Record /\ rec'.ep = rec.ep /\ rec'.state = rec.state /\ aside' \in SUBSET Record
        /\ rec.state = "opening" => rec' = rec
    BY <1>0, <2>1, <2>3, <2>5
  <2>7. HolderPosts' /\ NoneYet' /\ HeadlineOnce'
    BY <2>2, <2>4, <2>6, QuietStep DEF Quiet, irHistory
  <2>8. IrShape'
    BY <1>0, <2>2, <2>4, <2>6 DEF IrSafe, IrShape, Becomes, irHistory
  <2>9. TakenAnswers'
    BY <1>0, <2>2, <2>4 DEF IrSafe, TakenAnswers, Becomes, irHistory
  <2>10. ASSUME NEW ep \in promised' \ answered'
         PROVE  \E q \in aside' \cup {rec'} : q.state = "resolving" /\ q.ep = ep
    <3>1. PICK q \in aside \cup {rec} : q.state = "resolving" /\ q.ep = ep
      BY <2>2, <2>10 DEF IrSafe, ReplyKept, irHistory
    <3>2. held \in aside' \cup {rec'} /\ (q # r => q \in aside' \cup {rec'})
      BY <2>5, <3>1
    <3> QED  BY <2>3, <3>1, <3>2
  <2> QED  BY <2>7, <2>8, <2>9, <2>10 DEF IrSafe, ReplyKept
<1> QED  BY <1>1, <1>2, <1>3, <1>4, <1>5

(* A killed service leaves what it had claimed to the others. *)
LEMMA KillStep ==
  ASSUME IrSafe, NEW s \in Service, KillService(s)
  PROVE  IrSafe'
<1> DEFINE freed(r) == IF r.holder = s THEN [r EXCEPT !.holder = "none"] ELSE r
           j == [NoJob EXCEPT !.pc = "idle"]
<1>0. /\ job \in [Service -> Job] /\ rec \in Record /\ job[s] \in Job /\ aside \in SUBSET Record
      /\ headlines \in [Eps \X Channel -> Nat] /\ s # "none"
  BY DEF IrSafe, IrShape, Service
<1>1. /\ rec' = freed(rec) /\ aside' = {freed(r) : r \in aside} /\ Becomes(s, j)
      /\ UNCHANGED <<headlines, promised, answered>>
      /\ unsure' = IF Posting(s) THEN unsure \cup {job[s].ep} ELSE unsure
  BY DEF KillService, Wants, Posting
<1>2. \A r \in Record : freed(r) \in Record /\ freed(r).state = r.state /\ freed(r).ep = r.ep
  BY DEF Record
<1>3. j \in Job /\ j.pc = "idle"
  BY WantsIsJob
<1>4. /\ rec' \in Record /\ rec'.state = rec.state /\ rec'.ep = rec.ep /\ aside' \in SUBSET Record
  BY <1>0, <1>1, <1>2
<1>5. ReplyKept'
  <2>1. ASSUME NEW ep \in promised' \ answered'
        PROVE  \E q \in aside' \cup {rec'} : q.state = "resolving" /\ q.ep = ep
    <3>1. PICK q \in aside \cup {rec} : q.state = "resolving" /\ q.ep = ep
      BY <1>1, <2>1 DEF IrSafe, ReplyKept
    <3>2. freed(q) \in aside' \cup {rec'}
      BY <1>1, <3>1
    <3> QED  BY <1>0, <1>2, <3>1, <3>2
  <2> QED  BY <2>1 DEF ReplyKept
<1>6. rec.holder # s => rec' = rec
  BY <1>1
<1>7. rec.holder = s => rec'.holder = "none"
  BY <1>0, <1>1 DEF Record
<1> HIDE DEF freed, j
<1>8. IrShape'
  BY <1>0, <1>1, <1>3, <1>4 DEF IrSafe, IrShape, Becomes
<1>9. TakenAnswers'
  BY <1>0, <1>1, <1>3 DEF IrSafe, TakenAnswers, Becomes
<1>10. CASE ~Posting(s)
  <2>1. rec.state = "opening" => rec' = rec
    BY <1>6, <1>10 DEF IrSafe, HolderPosts
  <2>2. HolderPosts' /\ NoneYet' /\ HeadlineOnce'
    BY <1>1, <1>3, <1>4, <1>10, <2>1, QuietStep DEF Quiet
  <2> QED  BY <1>5, <1>8, <1>9, <2>2 DEF IrSafe
<1>11. CASE Posting(s)
  <2>1. /\ rec.state = "opening" /\ rec.holder = s /\ rec.ep = job[s].ep /\ rec.ep \in Eps
        /\ \A t \in Service : Posting(t) => t = s
    BY <1>11 DEF IrSafe, HolderPosts
  <2>2. \A t \in Service : ~Posting(t)'
    BY <1>0, <1>1, <1>3, <2>1 DEF Becomes, Posting
  <2>3. HolderPosts'
    <3>1. \A t \in Service : rec'.holder # t
      BY <1>7, <2>1 DEF Service
    <3>2. rec'.ep \in Eps /\ rec'.ep \in unsure'
      BY <1>1, <1>4, <1>11, <2>1
    <3> QED  BY <2>2, <3>1, <3>2 DEF HolderPosts
  <2>4. NoneYet'
    BY <1>1, <1>4, <2>1, <2>2 DEF IrSafe, NoneYet, Blank
  <2>5. HeadlineOnce'
    BY <1>1 DEF IrSafe, HeadlineOnce
  <2> QED  BY <1>5, <1>8, <1>9, <2>3, <2>4, <2>5 DEF IrSafe
<1> QED  BY <1>10, <1>11

(* A step of any service, or a kill. *)
LEMMA IrStep == IrSafe /\ [IrNext]_irVars => IrSafe'
<1> SUFFICES ASSUME IrSafe, [IrNext]_irVars PROVE IrSafe'
  OBVIOUS
<1>1. CASE UNCHANGED irVars
  BY <1>1 DEF irVars, irHistory, IrSafe, IrShape, HolderPosts, Posting, Orphaned, NoneYet, Blank,
     TakenAnswers, HeadlineOnce, ReplyKept
<1>2. CASE GivesUp \/ Parks \/ Creates \/ ShowOrder \/ Applies
  BY <1>2, CallersStep
<1>3. ASSUME NEW s \in Service, ServiceStep(s) PROVE IrSafe'
  BY <1>3, CallersStep, ClaimsStep, PostsStep, RepliesStep DEF ServiceStep
<1>4. ASSUME NEW s \in Service, KillService(s) PROVE IrSafe'
  BY <1>4, KillStep
<1>5. ASSUME NEW s \in {"relay", "watch"}, Retries(s) PROVE IrSafe'
  <2>1. s \in Service
    BY DEF Service
  <2> QED  BY <1>5, <2>1, ClaimsStep, RepliesStep DEF Retries
<1> QED  BY <1>1, <1>2, <1>3, <1>4, <1>5 DEF IrNext

(* Only the service that holds an opening record posts its thread, and a channel
   has a headline of an episode only where a post was taken (notify.py). *)
THEOREM IrSafeAlways == IrInit /\ [][IrNext]_irVars => []IrSafe
  BY IrInitSafe, IrStep, PTL

(* No channel has two headlines of an episode, unless a post of it was in doubt:
   whatever the number of services that raise, resolve and retry at once. *)
THEOREM HeadlineOnceHolds == IrInit /\ [][IrNext]_irVars => []HeadlineOnce
<1>1. IrSafe => HeadlineOnce
  BY DEF IrSafe
<1> QED  BY IrSafeAlways, <1>1, PTL

(* The answer of an episode whose thread is closed was posted, or is kept to be
   posted: a retry, a reopened issue or a kill loses none. *)
THEOREM ReplyKeptHolds == IrInit /\ [][IrNext]_irVars => []ReplyKept
<1>1. IrSafe => ReplyKept
  BY DEF IrSafe
<1> QED  BY IrSafeAlways, <1>1, PTL
-----------------------------------------------------------------------------
(***************************************************************************)
(* The threads of held products.                                           *)
(***************************************************************************)
ThreadState == {"none", "open", "failed", "closed"}

(* The types of a thread, of the settle and of what it has looked at. *)
Thread == [state : ThreadState, orders : SUBSET HtOrder, past : BOOLEAN]
Engine == [pc : {"idle", "hold", "threads", "judge"}, order : HtOrder \cup {"none"},
           blockers : SUBSET Product]
Looked == [held : SUBSET HtOrder, busy : SUBSET HtOrder, threads : SUBSET Product,
           failed : SUBSET Product, listed : [Product -> SUBSET HtOrder],
           gate : [Product -> {"unread", "pass", "held", "unknown"}]]
HtShape ==
    /\ rowOf \in [HtOrder -> {"none", "queued", "held", "done", "gone"}]
    /\ thr \in [Product -> Thread] /\ eng \in Engine /\ looked \in Looked

(* The orders whose wait is over, and those a thread lists. *)
Over == forgotten \cup made \cup drainClosed
Listed(p, o) == thr[p].state \in {"open", "failed"} /\ o \in thr[p].orders

(* A lane holds an order once it has joined a thread. *)
JoinedFirst ==
    eng.pc = "hold" =>
        /\ eng.order \in HtOrder
        /\ eng.blockers # {} \/ eng.order \in Over \/ \E p \in Product : Listed(p, eng.order)

(* What a settle goes by: it has seen every order that waits; a thread it has
   not judged is as it read it; and a thread whose product the settle read as
   held keeps the orders that wait. *)
Settling == eng.pc \in {"threads", "judge"}
SeesHeld == Settling => \A o \in HtOrder \ Over : rowOf[o] = "held" => o \in looked.held
GatesUnread == eng.pc = "threads" => \A p \in Product : looked.gate[p] = "unread"
AsRead ==
    eng.pc = "judge" =>
        /\ looked.threads \cap looked.failed = {}
        /\ \A p \in looked.threads :
              /\ looked.gate[p] = "unread" => p \in eng.blockers
              /\ p \in eng.blockers => thr[p].state = "open" /\ thr[p].orders = looked.listed[p]
HeldStay ==
    eng.pc = "judge" =>
        \A p \in looked.threads : \A o \in looked.listed[p] :
            Waits(o) /\ looked.gate[p] = "held" => thr[p].state = "open" /\ o \in thr[p].orders

(* What every step of the lanes, the drain and the settle keeps. *)
HtSafe == HtShape /\ JoinedFirst /\ SeesHeld /\ GatesUnread /\ AsRead /\ HeldStay /\ WaitingListed

(* No order waits at first, and there are no threads. *)
LEMMA HtInitSafe == HtInit => HtSafe
<1> SUFFICES ASSUME HtInit PROVE HtSafe
  OBVIOUS
<1> USE DEF HtInit, NoThread, EngIdle, NothingSeen
<1>1. HtShape
  BY DEF HtShape, Thread, ThreadState, Engine, Looked
<1>2. eng.pc = "idle" /\ \A o \in HtOrder : rowOf[o] = "none"
  OBVIOUS
<1> QED
  BY <1>1, <1>2 DEF HtSafe, JoinedFirst, SeesHeld, Settling, GatesUnread, AsRead, HeldStay, WaitingListed

(* An engine that starts anew. *)
LEMMA IdleIsShaped == EngIdle \in Engine /\ NothingSeen \in Looked /\ NoThread \in Thread
  BY DEF EngIdle, Engine, NothingSeen, Looked, NoThread, Thread, ThreadState

(* The steps beside the lane's hold and the settle. *)
LEMMA AroundStep ==
  ASSUME HtSafe
  PROVE  /\ \A p \in Product : Judged(p) => HtSafe'
         /\ \A o \in HtOrder : Capture(o) \/ DrainHeld(o) \/ ProcessOrder(o) => HtSafe'
         /\ MissSettles => HtSafe'
         /\ MarkHeld => HtSafe'
<1> USE HeldAssumption DEF HtSafe
<1>0. /\ rowOf \in [HtOrder -> {"none", "queued", "held", "done", "gone"}]
      /\ thr \in [Product -> Thread] /\ eng \in Engine /\ looked \in Looked
  BY DEF HtShape
<1>1. ASSUME NEW p \in Product, Judged(p) PROVE HtSafe'
  BY <1>1 DEF Judged, HtShape, JoinedFirst, Over, Listed, SeesHeld, Settling, GatesUnread, AsRead,
     HeldStay, Waits, WaitingListed
<1>2. ASSUME NEW o \in HtOrder, Capture(o) PROVE HtSafe'
  <2>1. UNCHANGED <<world, thr, eng, looked, forgotten>>
    BY <1>2 DEF Capture
  <2>2. /\ rowOf' \in [HtOrder -> {"none", "queued", "held", "done", "gone"}]
        /\ \A k \in HtOrder : rowOf'[k] = "held" => rowOf[k] = "held"
    BY <1>0, <1>2 DEF Capture
  <2> QED  BY <2>1, <2>2 DEF world, HtShape, JoinedFirst, Over, Listed, SeesHeld, Settling, GatesUnread,
              AsRead, HeldStay, Waits, WaitingListed
<1>3. ASSUME NEW o \in HtOrder, DrainHeld(o) PROVE HtSafe'
  <2>1. UNCHANGED <<rowOf, thr, eng, looked, forgotten>> /\ made \subseteq made' /\ drainClosed \subseteq drainClosed'
    BY <1>3 DEF DrainHeld
  <2> QED  BY <2>1 DEF HtShape, JoinedFirst, Over, Listed, SeesHeld, Settling, GatesUnread,
              AsRead, HeldStay, Waits, WaitingListed
<1>4. ASSUME NEW o \in HtOrder, ProcessOrder(o) PROVE HtSafe'
  <2>1. UNCHANGED <<drainClosed, thr, looked, forgotten>> /\ made \subseteq made' /\ eng.pc = "idle"
    BY <1>4 DEF ProcessOrder
  <2>2. /\ rowOf' \in [HtOrder -> {"none", "queued", "held", "done", "gone"}]
        /\ \A k \in HtOrder : rowOf'[k] = "held" => rowOf[k] = "held"
    BY <1>0, <1>4 DEF ProcessOrder
  <2>3. eng' \in Engine /\ (eng'.pc = "idle" \/ (eng'.pc = "hold" /\ eng'.order = o /\ eng'.blockers # {}))
    <3>1. CASE Items[o] \subseteq passes
      BY <1>0, <1>4, <3>1 DEF ProcessOrder
    <3>2. CASE ~(Items[o] \subseteq passes)
      BY <1>4, <3>2 DEF ProcessOrder, Engine
    <3> QED  BY <3>1, <3>2
  <2> QED  BY <2>1, <2>2, <2>3 DEF HtShape, JoinedFirst, Over, Listed, SeesHeld, Settling, GatesUnread,
              AsRead, HeldStay, Waits, WaitingListed
<1>5. ASSUME MissSettles PROVE HtSafe'
  <2>1. UNCHANGED <<world, rowOf, forgotten>> /\ eng' = EngIdle /\ looked' = NothingSeen
    BY <1>5 DEF MissSettles
  <2>2. ASSUME NEW p \in Product
        PROVE  thr'[p] \in Thread /\ thr'[p].state = thr[p].state /\ thr'[p].orders = thr[p].orders
    BY <1>0, <1>5 DEF MissSettles, Thread
  <2>3. thr' \in [Product -> Thread]
    <3>1. thr' = [p \in Product |-> thr'[p]]
      BY <1>5 DEF MissSettles
    <3> QED  BY <2>2, <3>1
  <2>4. eng'.pc = "idle"
    BY <2>1 DEF EngIdle
  <2> QED  BY <2>1, <2>2, <2>3, <2>4, IdleIsShaped DEF world, HtShape, JoinedFirst, SeesHeld, Settling,
              GatesUnread, AsRead, HeldStay, WaitingListed
<1>6. ASSUME MarkHeld PROVE HtSafe'
  <2>1. /\ UNCHANGED <<world, thr, looked, forgotten>> /\ eng' = EngIdle /\ eng.pc = "hold"
        /\ eng.blockers = {}
    BY <1>6 DEF MarkHeld
  <2>2. /\ rowOf' \in [HtOrder -> {"none", "queued", "held", "done", "gone"}]
        /\ \A k \in HtOrder : rowOf'[k] = "held" => rowOf[k] = "held" \/ k = eng.order
    BY <1>0, <1>6 DEF MarkHeld
  <2>3. eng'.pc = "idle"
    BY <2>1 DEF EngIdle
  <2>4. WaitingListed'
    BY <2>1, <2>2 DEF world, JoinedFirst, Over, Listed, WaitingListed
  <2> QED  BY <2>1, <2>2, <2>3, <2>4, IdleIsShaped DEF HtShape, JoinedFirst, SeesHeld, Settling,
              GatesUnread, AsRead, HeldStay
<1> QED  BY <1>1, <1>2, <1>3, <1>4, <1>5, <1>6

(* An order joins the thread of a product. *)
LEMMA JoinStep ==
  ASSUME HtSafe, NEW p \in Product, JoinThread(p)
  PROVE  HtSafe'
<1> USE DEF HtSafe
<1>0. /\ thr \in [Product -> Thread] /\ eng \in Engine /\ eng.pc = "hold" /\ p \in eng.blockers
  BY DEF HtShape, JoinThread
<1>1. /\ UNCHANGED <<world, rowOf, looked>> /\ eng' = [eng EXCEPT !.blockers = @ \ {p}]
  BY DEF JoinThread
<1>2. eng' \in Engine /\ eng'.pc = "hold" /\ eng'.order = eng.order
  BY <1>0, <1>1 DEF Engine
<1> DEFINE o == eng.order
<1>3. o \in HtOrder
  BY <1>0 DEF JoinedFirst
<1>4. PICK t \in Thread : /\ thr' = [thr EXCEPT ![p] = t] /\ t.state \in {"open", "failed"} /\ o \in t.orders
                          /\ forgotten \subseteq forgotten'
                          /\ \A k \in thr[p].orders : Listed(p, k) => k \in t.orders \cup forgotten'
  <2>1. CASE /\ thr[p].state \in {"open", "failed"}
             /\ thr' = [thr EXCEPT ![p].orders = @ \cup {o}] /\ UNCHANGED forgotten
    <3> DEFINE t == [thr[p] EXCEPT !.orders = @ \cup {o}]
    <3>1. t \in Thread /\ t.state = thr[p].state /\ t.orders = thr[p].orders \cup {o}
      BY <1>0, <1>3 DEF Thread
    <3>2. thr' = [thr EXCEPT ![p] = t]
      BY <2>1
    <3> HIDE DEF t
    <3> QED  BY <2>1, <3>1, <3>2
  <2>2. CASE /\ thr' = [thr EXCEPT ![p] = NewThread(o, "failed")]
             /\ forgotten' = forgotten \cup thr[p].orders
    <3>1. NewThread(o, "failed") \in Thread /\ NewThread(o, "failed").state = "failed"
          /\ o \in NewThread(o, "failed").orders
      BY <1>3 DEF NewThread, Thread, ThreadState
    <3> QED  BY <2>2, <3>1
  <2>3. ASSUME NEW st \in {"open", "failed"}, thr[p].state \in {"none", "closed"},
               thr' = [thr EXCEPT ![p] = NewThread(o, st)], UNCHANGED forgotten
        PROVE  \E t \in Thread :
                  /\ thr' = [thr EXCEPT ![p] = t] /\ t.state \in {"open", "failed"} /\ o \in t.orders
                  /\ forgotten \subseteq forgotten'
                  /\ \A k \in thr[p].orders : Listed(p, k) => k \in t.orders \cup forgotten'
    <3>1. NewThread(o, st) \in Thread /\ NewThread(o, st).state = st
          /\ o \in NewThread(o, st).orders
      BY <1>3 DEF NewThread, Thread, ThreadState
    <3> QED  BY <2>3, <3>1 DEF Listed
  <2> QED  BY <2>1, <2>2, <2>3 DEF JoinThread
<1>5. thr' \in [Product -> Thread] /\ thr'[p] = t /\ \A k \in Product : k # p => thr'[k] = thr[k]
  BY <1>0, <1>4
<1>6. WaitingListed'
  <2>1. ASSUME NEW k \in HtOrder \ Over', rowOf[k] = "held"
        PROVE  \E q \in Product : Listed(q, k)'
    <3>1. k \in HtOrder \ Over
      BY <1>1, <1>4, <2>1 DEF Over, world
    <3>2. PICK q \in Product : Listed(q, k)
      BY <2>1, <3>1 DEF WaitingListed, Over, Listed
    <3>3. CASE q = p
      BY <1>4, <1>5, <2>1, <3>2, <3>3 DEF Listed, Over
    <3>4. CASE q # p
      BY <1>5, <3>2, <3>4 DEF Listed
    <3> QED  BY <3>3, <3>4
  <2> QED  BY <1>1, <2>1 DEF WaitingListed, Over, Listed
<1>7. JoinedFirst'
  <2>1. Listed(p, eng.order)'
    BY <1>2, <1>4, <1>5 DEF Listed
  <2> QED  BY <1>2, <1>3, <2>1 DEF JoinedFirst
<1> QED  BY <1>1, <1>2, <1>5, <1>6, <1>7 DEF HtShape, SeesHeld, Settling, GatesUnread, AsRead, HeldStay

(* The settle reads, and judges the threads one by one. *)
LEMMA SettleReadsStep ==
  ASSUME HtSafe
  PROVE  /\ SettleRows => HtSafe'
         /\ SettleThreads => HtSafe'
         /\ \A p \in Product : ReadGate(p) => HtSafe'
         /\ SettleRetries => HtSafe'
<1> USE DEF HtSafe
<1>0. /\ rowOf \in [HtOrder -> {"none", "queued", "held", "done", "gone"}]
      /\ thr \in [Product -> Thread] /\ eng \in Engine /\ looked \in Looked
  BY DEF HtShape
<1>1. ASSUME SettleRows PROVE HtSafe'
  <2> DEFINE held == {o \in HtOrder : rowOf[o] = "held"} \ made
  <2>1. /\ UNCHANGED <<world, thr, forgotten>> /\ eng' = [EngIdle EXCEPT !.pc = "threads"]
        /\ looked' = [NothingSeen EXCEPT !.held = held \ Closed(held),
                                         !.busy = {o \in HtOrder : rowOf[o] = "queued"}]
    BY <1>1 DEF SettleRows
  <2>2. /\ rowOf' \in [HtOrder -> {"none", "queued", "held", "done", "gone"}]
        /\ \A k \in HtOrder : rowOf'[k] = "held" => rowOf[k] = "held"
    <3>1. CASE rowOf' = [o \in HtOrder |-> CASE o \in made /\ rowOf[o] = "held" -> "done"
                                           [] o \in Closed(held) -> "gone"
                                           [] OTHER -> rowOf[o]]
      BY <1>0, <3>1
    <3>2. CASE UNCHANGED rowOf
      BY <1>0, <3>2
    <3> QED  BY <1>1, <3>1, <3>2 DEF SettleRows
  <2>3. eng' \in Engine /\ eng'.pc = "threads"
    BY <2>1 DEF EngIdle, Engine
  <2>4. /\ looked' \in Looked /\ looked'.held = held \ Closed(held)
        /\ \A p \in Product : looked'.gate[p] = "unread"
    BY <2>1 DEF NothingSeen, Looked
  <2>5. SeesHeld'
    BY <2>1, <2>2, <2>4 DEF SeesHeld, Over, Closed, world
  <2>6. WaitingListed'
    BY <2>1, <2>2 DEF WaitingListed, world
  <2> QED  BY <1>0, <2>1, <2>2, <2>3, <2>4, <2>5, <2>6
           DEF HtShape, JoinedFirst, GatesUnread, AsRead, HeldStay
<1>2. ASSUME SettleThreads PROVE HtSafe'
  <2> DEFINE open == {p \in Product : thr[p].state = "open"}
             refused == {p \in Product : thr[p].state = "failed"}
             lists == [p \in Product |-> thr[p].orders]
  <2>1. /\ UNCHANGED <<world, rowOf, thr, forgotten>> /\ eng.pc = "threads"
        /\ eng' = [eng EXCEPT !.pc = "judge", !.blockers = Product]
        /\ looked' = [looked EXCEPT !.threads = open, !.failed = refused, !.listed = lists]
    BY <1>2 DEF SettleThreads
  <2>2. lists \in [Product -> SUBSET HtOrder]
    BY <1>0 DEF Thread
  <2>3. eng' \in Engine /\ eng'.pc = "judge" /\ eng'.blockers = Product
    BY <1>0, <2>1 DEF Engine
  <2>4. /\ looked' \in Looked /\ looked'.held = looked.held /\ looked'.busy = looked.busy
        /\ looked'.gate = looked.gate
        /\ looked'.threads = open /\ looked'.failed = refused /\ looked'.listed = lists
    BY <1>0, <2>1, <2>2 DEF Looked
  <2>5. HtShape' /\ JoinedFirst' /\ GatesUnread' /\ WaitingListed'
    BY <1>0, <2>1, <2>3, <2>4 DEF HtShape, JoinedFirst, GatesUnread, WaitingListed, world
  <2>6. SeesHeld'
    BY <2>1, <2>4 DEF SeesHeld, Settling, Over, world
  <2>7. \A p \in Product : looked'.gate[p] = "unread"
    BY <2>1, <2>4 DEF GatesUnread
  <2>8. AsRead' /\ HeldStay'
    BY <2>1, <2>3, <2>4, <2>7 DEF AsRead, HeldStay
  <2> QED  BY <2>5, <2>6, <2>8
<1>3. ASSUME NEW p \in Product, ReadGate(p) PROVE HtSafe'
  <2>1. /\ UNCHANGED <<world, rowOf, thr, eng, forgotten>> /\ eng.pc = "judge"
        /\ looked.gate[p] = "unread"
    BY <1>3 DEF ReadGate
  <2>2. PICK g \in {"pass", "held", "unknown"} : looked' = [looked EXCEPT !.gate[p] = g]
    BY <1>3 DEF ReadGate, GateNow
  <2>3. looked.gate \in [Product -> {"unread", "pass", "held", "unknown"}]
    BY <1>0 DEF Looked
  <2> DEFINE gates == [looked.gate EXCEPT ![p] = g]
  <2>4. gates \in [Product -> {"unread", "pass", "held", "unknown"}]
    BY <2>3
  <2>5. /\ looked' \in Looked /\ looked'.held = looked.held /\ looked'.busy = looked.busy
        /\ looked'.gate = gates
        /\ looked'.threads = looked.threads /\ looked'.failed = looked.failed
        /\ looked'.listed = looked.listed
    BY <1>0, <2>2, <2>4 DEF Looked
  <2>6. gates[p] = g /\ \A k \in Product : k # p => gates[k] = looked.gate[k]
    BY <2>3
  <2> HIDE DEF gates
  <2>7. HtShape' /\ JoinedFirst' /\ SeesHeld' /\ GatesUnread' /\ WaitingListed'
    BY <1>0, <2>1, <2>5 DEF HtShape, JoinedFirst, SeesHeld, Settling, GatesUnread, WaitingListed, world,
       Over, Listed
  <2>8. looked.threads \subseteq Product
    BY <1>0 DEF Looked
  <2>9. AsRead'
    BY <2>1, <2>5, <2>6, <2>8 DEF AsRead
  <2>10. HeldStay'
    <3>1. ASSUME NEW k \in looked.threads, NEW o \in looked.listed[k], Waits(o), gates[k] = "held"
          PROVE  thr[k].state = "open" /\ o \in thr[k].orders
      <4>1. CASE k = p
        BY <2>1, <3>1, <4>1 DEF AsRead
      <4>2. CASE k # p
        BY <2>1, <2>6, <2>8, <3>1, <4>2 DEF HeldStay
      <4> QED  BY <4>1, <4>2
    <3> QED  BY <2>1, <2>5, <3>1 DEF HeldStay, Waits, world
  <2> QED  BY <2>7, <2>9, <2>10
<1>4. ASSUME SettleRetries PROVE HtSafe'
  <2>1. UNCHANGED <<world, rowOf, forgotten>> /\ eng' = EngIdle /\ looked' = NothingSeen
    BY <1>4 DEF SettleRetries
  <2>2. PICK due \in SUBSET {p \in Product : thr[p].state = "failed"} :
         thr' = [p \in Product |-> IF p \in due THEN [thr[p] EXCEPT !.state = "open", !.past = FALSE]
                                   ELSE thr[p]]
    BY <1>4 DEF SettleRetries
  <2>3. ASSUME NEW p \in Product
        PROVE  /\ thr'[p] \in Thread /\ thr'[p].orders = thr[p].orders
               /\ thr[p].state \in {"open", "failed"} => thr'[p].state \in {"open", "failed"}
    <3>1. CASE p \in due
      BY <1>0, <2>2, <3>1 DEF Thread, ThreadState
    <3>2. CASE p \notin due
      BY <1>0, <2>2, <3>2
    <3> QED  BY <3>1, <3>2
  <2>4. thr' \in [Product -> Thread]
    <3>1. thr' = [p \in Product |-> thr'[p]]
      BY <2>2
    <3> QED  BY <2>3, <3>1
  <2>5. eng'.pc = "idle"
    BY <2>1 DEF EngIdle
  <2>6. WaitingListed'
    BY <2>1, <2>3 DEF WaitingListed, world
  <2> QED  BY <2>1, <2>4, <2>5, <2>6, IdleIsShaped DEF world, HtShape, JoinedFirst, SeesHeld, Settling,
              GatesUnread, AsRead, HeldStay
<1> QED  BY <1>1, <1>2, <1>3, <1>4

(* One thread is judged: it is answered, or loses orders that wait no more. *)
LEMMA JudgesStep ==
  ASSUME HtSafe, NEW p \in Product, JudgeThread(p) \/ JudgeFailed(p)
  PROVE  HtSafe'
<1> USE DEF HtSafe
<1>0. /\ rowOf \in [HtOrder -> {"none", "queued", "held", "done", "gone"}]
      /\ thr \in [Product -> Thread] /\ eng \in Engine /\ looked \in Looked
  BY DEF HtShape
<1>1. /\ UNCHANGED <<world, rowOf, looked, forgotten>> /\ eng' = [eng EXCEPT !.blockers = @ \ {p}]
      /\ eng.pc = "judge" /\ p \in eng.blockers
  BY DEF JudgeThread, JudgeFailed
<1>2. eng' \in Engine /\ eng'.pc = "judge" /\ eng'.blockers = eng.blockers \ {p}
  BY <1>0, <1>1 DEF Engine
(* A thread that lists a waiting order is answered only where another one,
   whose product the settle read as held, lists it too. *)
<1>3. ASSUME NEW o \in thr[p].orders, o \in looked.listed[p], Waits(o), thr'[p].state = "closed",
             thr[p].state # "closed"
      PROVE  /\ looked.gate[p] # "held" \/ p \notin looked.threads
             /\ \E k \in looked.threads \ {p} : o \in looked.listed[k] /\ looked.gate[k] = "held"
  <2>1. o \in Waiting(p)
    BY <1>3 DEF Waiting
  <2>2. CASE JudgeThread(p)
    <3>1. AnswersThread(p)
      <4>1. ~AnswersThread(p) => thr'[p] = [thr[p] EXCEPT !.orders = Drop(p)]
        BY <1>0, <2>2 DEF JudgeThread
      <4>2. [thr[p] EXCEPT !.orders = Drop(p)].state = thr[p].state
        BY <1>0 DEF Thread
      <4> QED  BY <1>3, <4>1, <4>2
    <3> QED  BY <2>1, <3>1 DEF AnswersThread, GateOf, Elsewhere
  <2>3. CASE JudgeFailed(p)
    BY <1>3, <2>1, <2>3 DEF JudgeFailed
  <2> QED  BY <2>2, <2>3
<1>4. PICK t \in Thread :
         /\ thr' = [thr EXCEPT ![p] = t]
         /\ \/ t.state = "closed" /\ thr[p].orders \subseteq looked.listed[p]
            \/ t.state = thr[p].state /\ \A o \in thr[p].orders : Waits(o) => o \in t.orders
  <2> DEFINE closed == [NoThread EXCEPT !.state = "closed"]
             rest == [thr[p] EXCEPT !.orders = Drop(p)]
  <2>1. closed \in Thread /\ closed.state = "closed"
    BY DEF NoThread, Thread, ThreadState
  <2>2. rest \in Thread /\ rest.state = thr[p].state /\ rest.orders = Drop(p)
    BY <1>0 DEF Thread, Drop
  <2>3. \A o \in thr[p].orders : Waits(o) => o \in Drop(p)
    BY DEF Drop
  <2>4. CASE JudgeThread(p)
    <3>1. thr' = [thr EXCEPT ![p] = IF AnswersThread(p) /\ thr[p].orders \subseteq looked.listed[p]
                                    THEN closed ELSE rest]
      BY <1>0, <2>4 DEF JudgeThread
    <3> HIDE DEF closed, rest
    <3>2. CASE AnswersThread(p) /\ thr[p].orders \subseteq looked.listed[p]
      BY <2>1, <3>1, <3>2
    <3>3. CASE ~(AnswersThread(p) /\ thr[p].orders \subseteq looked.listed[p])
      BY <2>2, <2>3, <3>1, <3>3
    <3> QED  BY <3>2, <3>3
  <2>5. CASE JudgeFailed(p)
    <3>1. thr' = IF Waiting(p) = {} /\ thr[p].orders \subseteq looked.listed[p]
                 THEN [thr EXCEPT ![p] = closed] ELSE thr
      BY <2>5 DEF JudgeFailed
    <3> HIDE DEF closed, rest
    <3>2. CASE Waiting(p) = {} /\ thr[p].orders \subseteq looked.listed[p]
      BY <2>1, <3>1, <3>2
    <3>3. CASE ~(Waiting(p) = {} /\ thr[p].orders \subseteq looked.listed[p])
      <4>1. thr' = [thr EXCEPT ![p] = thr[p]] /\ thr[p] \in Thread
        BY <1>0, <3>1, <3>3
      <4> QED  BY <4>1
    <3> QED  BY <3>2, <3>3
  <2> QED  BY <2>4, <2>5
<1>5. thr' \in [Product -> Thread] /\ thr'[p] = t /\ \A k \in Product : k # p => thr'[k] = thr[k]
  BY <1>0, <1>4
<1>6. looked.threads \subseteq Product
  BY <1>0 DEF Looked
<1>7. HtShape' /\ JoinedFirst' /\ SeesHeld' /\ GatesUnread'
  BY <1>0, <1>1, <1>2, <1>5 DEF HtShape, JoinedFirst, SeesHeld, Settling, GatesUnread, Over, world
<1>8. AsRead'
  <2>1. p \in looked.threads => looked.gate[p] # "unread"
    <3>1. CASE JudgeThread(p)
      BY <1>6, <3>1 DEF JudgeThread
    <3>2. CASE JudgeFailed(p)
      BY <1>1, <3>2 DEF JudgeFailed, AsRead
    <3> QED  BY <3>1, <3>2
  <2> QED  BY <1>1, <1>2, <1>5, <1>6, <2>1 DEF AsRead
<1>9. ASSUME NEW k \in looked.threads, NEW o \in looked.listed[k], Waits(o), looked.gate[k] = "held"
      PROVE  thr'[k].state = "open" /\ o \in thr'[k].orders
  <2>1. thr[k].state = "open" /\ o \in thr[k].orders
    BY <1>1, <1>9 DEF HeldStay
  <2>2. CASE k # p
    BY <1>5, <1>6, <2>1, <2>2
  <2>3. CASE k = p
    <3>1. ~(t.state = "closed" /\ thr[p].orders \subseteq looked.listed[p])
      BY <1>3, <1>5, <1>9, <2>1, <2>3
    <3> QED  BY <1>4, <1>5, <1>9, <2>1, <2>3, <3>1
  <2> QED  BY <2>2, <2>3
<1>10. HeldStay'
  BY <1>1, <1>9 DEF HeldStay, Waits, world
<1>11. ASSUME NEW o \in HtOrder \ Over, rowOf[o] = "held" PROVE \E q \in Product : Listed(q, o)'
  <2>1. Waits(o)
    BY <1>1, <1>11 DEF SeesHeld, Settling, Waits, Over
  <2>2. PICK q \in Product : Listed(q, o)
    BY <1>11 DEF WaitingListed, Over, Listed
  <2>3. CASE q # p
    BY <1>5, <2>2, <2>3 DEF Listed
  <2>4. CASE q = p /\ t.state = thr[p].state /\ \A k \in thr[p].orders : Waits(k) => k \in t.orders
    BY <1>5, <2>1, <2>2, <2>4 DEF Listed
  <2>5. CASE q = p /\ t.state = "closed" /\ thr[p].orders \subseteq looked.listed[p]
    <3>1. PICK k \in looked.threads \ {p} : o \in looked.listed[k] /\ looked.gate[k] = "held"
      BY <1>3, <1>5, <2>1, <2>2, <2>5 DEF Listed
    <3>2. thr'[k].state = "open" /\ o \in thr'[k].orders
      BY <1>9, <2>1, <3>1
    <3> QED  BY <1>6, <3>1, <3>2 DEF Listed
  <2> QED  BY <1>4, <2>3, <2>4, <2>5
<1>12. WaitingListed'
  BY <1>1, <1>11 DEF WaitingListed, Over, Listed, world
<1> QED  BY <1>7, <1>8, <1>10, <1>12

(* A step of the lanes, the drain, the gate or the settle. *)
LEMMA HtStep == HtSafe /\ [HtNext]_htVars => HtSafe'
<1> SUFFICES ASSUME HtSafe, [HtNext]_htVars PROVE HtSafe'
  OBVIOUS
<1>1. CASE UNCHANGED htVars
  BY <1>1 DEF htVars, world, HtSafe, HtShape, JoinedFirst, Over, Listed, SeesHeld, Settling, GatesUnread,
     AsRead, HeldStay, Waits, WaitingListed
<1>2. CASE HtNext
  BY <1>2, AroundStep, JoinStep, SettleReadsStep, JudgesStep DEF HtNext
<1> QED  BY <1>1, <1>2

(* An order that waits is in the thread of a product that holds it, whatever the
   settle that runs beside the lanes has read before it joined. *)
THEOREM WaitingListedHolds == HtInit /\ [][HtNext]_htVars => []WaitingListed
<1>1. HtSafe => WaitingListed
  BY DEF HtSafe
<1> QED  BY HtInitSafe, HtStep, <1>1, PTL
-----------------------------------------------------------------------------
(***************************************************************************)
(* The credit watcher.                                                     *)
(***************************************************************************)
Reading == [level : 0..Ample, extra : Nat, cycle : Nat]

(* The types of the account's reading, of the file and of a tick. *)
Told == [fired : SUBSET Thresholds, out : BOOLEAN, org : Reading \cup {NoReading},
         alerted : 0..AlertEvery, failing : [RetryQueue -> 0..LongFail], found : SUBSET RetryQueue]
Keys == {"out", "low", "queue", "off"}
Watcher == [pc : {"sleep", "queues", "scenario", "cycle", "out", "low", "save"},
            org : Reading \cup {NoReading}, posted : SUBSET Keys]
Awake == watcher.pc # "sleep"
CwShape ==
    /\ account \in Reading /\ stuckIn \subseteq RetryQueue /\ cwFile \in Told /\ cwState \in Told
    /\ watcher \in Watcher
    /\ cwState.org = cwFile.org
    /\ ~Awake => cwState = cwFile /\ watcher.posted = {}
    /\ Awake => watcher.org \in Reading
    /\ watcher.pc = "queues" => watcher.posted = {} /\ cwState = cwFile
    /\ watcher.pc \in {"scenario", "cycle"} => "low" \notin watcher.posted

(* A balance that was read later: in a later cycle, with more credits bought,
   or with no more left. *)
Later(a, b) ==
    \/ a.cycle > b.cycle
    \/ a.cycle = b.cycle /\ (a.extra > b.extra \/ (a.extra = b.extra /\ a.level <= b.level))
Passage ==
    /\ cwFile.org # NoReading => Later(account, cwFile.org)
    /\ Awake => Later(account, watcher.org)
    /\ Awake /\ cwFile.org # NoReading => Later(watcher.org, cwFile.org)

(* A thread that no tick since the last save has posted to, and none that was
   killed, is as the file says. *)
Sure(k) == k \notin untold \cup watcher.posted
FileTells ==
    /\ cwFile.out <=> cwFile.org # NoReading /\ cwFile.org.level = 0
    /\ Sure("out") => ("out" \in cwThreads <=> cwFile.out)
    /\ Sure("low") /\ (cwFile.org = NoReading \/ cwFile.org.level = Ample) => "low" \notin cwThreads
    /\ Sure("queue") /\ (cwFile.found # {} \/ cwFile.alerted # AlertEvery) => "queue" \in cwThreads

(* What the running tick knows of a thread that it has posted to, or that no
   killed tick has. *)
Knows(k) == k \in watcher.posted \/ k \notin untold
TickTells ==
    Awake =>
        /\ Knows("out") => ("out" \in cwThreads <=> cwState.out)
        /\ Knows("queue") /\ (cwState.found # {} \/ cwState.alerted # AlertEvery) => "queue" \in cwThreads
        /\ watcher.pc \in {"out", "low", "save"} /\ Knows("low") /\ watcher.org.level = Ample
              => "low" \notin cwThreads
        /\ watcher.pc \in {"low", "save"} => (cwState.out <=> watcher.org.level = 0)

(* What each step of a tick, of the account and of a kill keeps. *)
CwSafe == CwShape /\ Passage /\ FileTells /\ TickTells

(* A set of numbers up to n that is not empty has a highest. *)
LEMMA HighestOf ==
  ASSUME NEW n \in Nat, NEW S \in SUBSET (1..n), S # {}
  PROVE  Max(S) \in S /\ \A x \in S : Max(S) >= x
<1> DEFINE T == {n - x : x \in S}
<1>0. \A x \in S : x \in 1..n /\ n - x \in Nat
  OBVIOUS
<1>1. T \subseteq Nat /\ T # {}
  BY <1>0
<1>2. PICK t \in T : \A u \in T : <<u, t>> \notin OpToRel(<, Nat)
  BY <1>1, NatLessThanWellFounded, WFMin
<1>3. PICK m \in S : t = n - m
  BY <1>2
<1>4. ASSUME NEW x \in S PROVE m >= x
  <2>1. n - x \in T /\ n - x \in Nat /\ t \in Nat
    BY <1>1, <1>2
  <2>2. ~(n - x < t)
    BY <1>2, <2>1 DEF OpToRel
  <2> QED  BY <1>3, <2>2
<1> QED  BY <1>3, <1>4 DEF Max

(* Every level is below Ample but Ample itself, and so is every threshold. *)
LEMMA Levels ==
  /\ Ample \in Nat /\ LongFail \in Nat /\ AlertEvery \in Nat
  /\ AlertEvery > 0 /\ LongFail > 0 /\ Thresholds \in SUBSET (1..(Ample - 1))
  /\ Thresholds # {} /\ Ample - 1 \in Nat
<1>1. Thresholds \subseteq 1..(Ample - 1) /\ Thresholds # {} /\ Ample \in Nat
  BY CreditAssumption
<1>2. \E t \in Thresholds : t \in 1..(Ample - 1)
  BY <1>1
<1> QED  BY <1>1, <1>2, CreditAssumption

(* The highest threshold is one, and below what is ample. *)
LEMMA HighestThreshold == Max(Thresholds) \in Thresholds /\ Max(Thresholds) < Ample
<1>1. Max(Thresholds) \in Thresholds
  BY Levels, HighestOf
<1> DEFINE m == Max(Thresholds)
<1>2. m \in Thresholds
  BY <1>1
<1> HIDE DEF m
<1>3. m < Ample
  BY <1>2, Levels
<1> QED  BY <1>1, <1>3 DEF m

(* Readings come one after another. *)
LEMMA LaterOrder ==
  ASSUME NEW a \in Reading, NEW b \in Reading, NEW c \in Reading
  PROVE  Later(a, a) /\ (Later(a, b) /\ Later(b, c) => Later(a, c))
  BY CreditAssumption DEF Later, Reading

(* Nothing was told at first, and there was nothing to tell. *)
LEMMA CwInitSafe == CwInit => CwSafe
<1> SUFFICES ASSUME CwInit PROVE CwSafe
  OBVIOUS
<1>1. Told0 \in Told /\ Told0.org = NoReading /\ Told0.out = FALSE /\ Told0.alerted = AlertEvery
      /\ Told0.found = {}
  BY CreditAssumption DEF Told0, Told
<1>2. CwIdle \in Watcher /\ CwIdle.pc = "sleep" /\ CwIdle.posted = {}
  BY DEF CwIdle, Watcher
<1>3. account \in Reading
  BY CreditAssumption DEF CwInit, Reading
<1> QED
  BY <1>1, <1>2, <1>3 DEF CwInit, CwSafe, CwShape, Awake, Passage, FileTells, TickTells, Sure

(* A reading is a reading. *)
LEMMA ReadingIsNot == NoReading \notin Reading
  BY CreditAssumption DEF Reading

(* The account is used up, renewed or refilled, and queues get stuck. *)
LEMMA AccountStep == CwSafe /\ Account => CwSafe'
<1> SUFFICES ASSUME CwSafe, Account PROVE CwSafe'
  OBVIOUS
<1>1. UNCHANGED <<cwFile, cwState, watcher, cwThreads, untold>>
  BY DEF Account
<1>2. account \in Reading /\ stuckIn \subseteq RetryQueue /\ cwFile \in Told /\ watcher \in Watcher
  BY DEF CwSafe, CwShape
<1>3. account' \in Reading /\ Later(account', account) /\ stuckIn' \subseteq RetryQueue
  <2>1. ASSUME NEW l \in 0..Ample, l < account.level, account' = [account EXCEPT !.level = l],
               UNCHANGED stuckIn
        PROVE  account' \in Reading /\ Later(account', account) /\ stuckIn' \subseteq RetryQueue
    BY <1>2, <2>1, CreditAssumption DEF Reading, Later
  <2>2. ASSUME NEW l \in 1..Ample, account' = [account EXCEPT !.level = l, !.extra = @ + 1],
               UNCHANGED stuckIn
        PROVE  account' \in Reading /\ Later(account', account) /\ stuckIn' \subseteq RetryQueue
    <3>0. account.extra \in Nat /\ account.cycle \in Nat /\ l \in 0..Ample
      BY <1>2, Levels DEF Reading
    <3> DEFINE e == account.extra + 1
    <3>1. account' = [account EXCEPT !.level = l, !.extra = e]
      BY <2>2
    <3>2. e \in Nat /\ e > account.extra
      BY <3>0
    <3> HIDE DEF e
    <3>3. account' = [level |-> l, extra |-> e, cycle |-> account.cycle]
      BY <1>2, <3>0, <3>1 DEF Reading
    <3> QED  BY <1>2, <2>2, <3>0, <3>2, <3>3 DEF Reading, Later
  <2>3. CASE account' = [level |-> Ample, extra |-> 0, cycle |-> account.cycle + 1] /\ UNCHANGED stuckIn
    BY <1>2, <2>3, CreditAssumption DEF Reading, Later
  <2>4. ASSUME NEW q \in RetryQueue, stuckIn' = (stuckIn \cup {q}) \ (stuckIn \cap {q}), UNCHANGED account
        PROVE  account' \in Reading /\ Later(account', account) /\ stuckIn' \subseteq RetryQueue
    BY <1>2, <2>4, LaterOrder
  <2>5. CASE UNCHANGED <<account, stuckIn>>
    BY <1>2, <2>5, LaterOrder
  <2> QED  BY <2>1, <2>2, <2>3, <2>4, <2>5 DEF Account
<1>4. CwShape' /\ FileTells' /\ TickTells'
  BY <1>1, <1>3 DEF CwSafe, CwShape, Awake, FileTells, Sure, TickTells, Knows
<1>5. Passage'
  <2>1. cwFile.org \in Reading \cup {NoReading} /\ (Awake => watcher.org \in Reading)
    BY <1>2 DEF Told, CwSafe, CwShape
  <2> QED  BY <1>1, <1>2, <1>3, <2>1, LaterOrder DEF CwSafe, Passage, Awake
<1> QED  BY <1>4, <1>5 DEF CwSafe

(* A tick starts with a reading of the account. *)
LEMMA ReadStep == CwSafe /\ ReadOrg => CwSafe'
<1> SUFFICES ASSUME CwSafe, ReadOrg PROVE CwSafe'
  OBVIOUS
<1>1. /\ ~Awake /\ UNCHANGED <<account, stuckIn, cwThreads, untold>>
      /\ watcher' = [watcher EXCEPT !.pc = "queues", !.org = account]
      /\ cwState' = [cwState EXCEPT !.alerted = IF @ < AlertEvery THEN @ + 1 ELSE @]
      /\ cwFile' = [cwFile EXCEPT !.alerted = IF @ < AlertEvery THEN @ + 1 ELSE @]
  BY DEF ReadOrg, Awake, cwWorld
<1>2. /\ account \in Reading /\ stuckIn \subseteq RetryQueue /\ cwFile \in Told /\ watcher \in Watcher
      /\ cwState = cwFile /\ watcher.posted = {}
  BY <1>1 DEF CwSafe, CwShape
<1>3. /\ watcher' \in Watcher /\ watcher'.pc = "queues" /\ watcher'.org = account
      /\ watcher'.posted = {}
  BY <1>1, <1>2 DEF Watcher
<1>4. /\ cwFile' \in Told /\ cwFile'.org = cwFile.org /\ cwFile'.out = cwFile.out
      /\ cwFile'.found = cwFile.found /\ (cwFile.alerted = AlertEvery => cwFile'.alerted = AlertEvery)
  <2> DEFINE n == IF cwFile.alerted < AlertEvery THEN cwFile.alerted + 1 ELSE cwFile.alerted
  <2>1. n \in 0..AlertEvery /\ (cwFile.alerted = AlertEvery => n = AlertEvery)
    BY <1>2, CreditAssumption DEF Told
  <2>2. cwFile' = [cwFile EXCEPT !.alerted = n]
    BY <1>1
  <2> HIDE DEF n
  <2> QED  BY <1>2, <2>1, <2>2 DEF Told
<1>5. cwState' = cwFile'
  BY <1>1, <1>2
<1>6. CwShape'
  BY <1>1, <1>2, <1>3, <1>4, <1>5 DEF CwShape, Awake
<1>7. Passage'
  BY <1>1, <1>2, <1>3, <1>4, LaterOrder DEF CwSafe, Passage, Awake
<1>8. FileTells'
  BY <1>1, <1>2, <1>3, <1>4 DEF CwSafe, FileTells, Sure
<1>9. TickTells'
  BY <1>1, <1>2, <1>3, <1>4, <1>5, <1>8 DEF TickTells, Knows, FileTells, Sure
<1> QED  BY <1>6, <1>7, <1>8, <1>9 DEF CwSafe

(* A step of the tick that posts to threads: what it says of the file and of
   the reading, and of the threads it does not touch. *)
LEMMA Posts ==
  ASSUME CwSafe, Awake, NEW opened \in SUBSET Keys, NEW arrived \in SUBSET Keys,
         NEW pc \in {"scenario", "cycle", "out", "low", "save"},
         Post(opened, arrived, pc), UNCHANGED <<account, stuckIn, cwFile, untold>>
  PROVE  /\ watcher' \in Watcher /\ watcher'.pc = pc /\ watcher'.org = watcher.org
         /\ watcher'.posted = watcher.posted \cup opened \cup (arrived \cap cwThreads)
         /\ cwThreads' = (cwThreads \ arrived) \cup opened
         /\ Passage' /\ FileTells'
<1>1. watcher \in Watcher
  BY DEF CwSafe, CwShape
<1>2. /\ watcher' = [watcher EXCEPT !.pc = pc,
                           !.posted = watcher.posted \cup opened \cup (arrived \cap cwThreads)]
      /\ cwThreads' = (cwThreads \ arrived) \cup opened
  BY DEF Post
<1> DEFINE p == watcher.posted \cup opened \cup (arrived \cap cwThreads)
<1>3. p \in SUBSET Keys
  BY <1>1 DEF Watcher
<1>4. watcher' = [watcher EXCEPT !.pc = pc, !.posted = p]
  BY <1>2
<1>5. /\ watcher' \in Watcher /\ watcher'.pc = pc /\ watcher'.org = watcher.org
      /\ watcher'.posted = p
  <2> HIDE DEF p
  <2> QED  BY <1>1, <1>3, <1>4 DEF Watcher
<1>6. Passage'
  BY <1>5 DEF CwSafe, Passage, Awake
<1>7. \A k : k \notin untold' \cup watcher'.posted =>
           Sure(k) /\ (k \in cwThreads' <=> k \in cwThreads)
  BY <1>2, <1>5 DEF Sure
<1>8. FileTells'
  BY <1>7 DEF CwSafe, FileTells, Sure
<1> QED  BY <1>2, <1>5, <1>6, <1>8

(* A tick that goes on without posting. *)
LEMMA GoingIsPosting ==
  ASSUME watcher \in Watcher, NEW pc, CwGo(pc), UNCHANGED cwThreads
  PROVE  Post({}, {}, pc)
<1>1. watcher' = [watcher EXCEPT !.pc = pc, !.posted = watcher.posted]
  BY DEF CwGo, Watcher
<1> QED  BY <1>1 DEF Post

(* check_queues: stuck queues and failing reads are told, or over. *)
LEMMA QueuesStep == CwSafe /\ CheckQueues => CwSafe'
<1> SUFFICES ASSUME CwSafe, CheckQueues PROVE CwSafe'
  OBVIOUS
<1>1. PICK unread \in SUBSET RetryQueue :
        LET found == Stuck(unread)
            failing == Streaks(unread)
            bad == found # {} \/ \E q \in RetryQueue : failing[q] = LongFail
            due == bad /\ cwState.alerted = AlertEvery
            rest == [cwState EXCEPT !.failing = failing, !.found = found]
        IN
        /\ watcher.pc = "queues"
        /\ \/ /\ ~bad /\ unread = {}
              /\ Post({}, {"queue"}, "scenario")
              /\ cwState' = [rest EXCEPT !.alerted = AlertEvery]
           \/ /\ IF bad THEN ~due ELSE unread # {}
              /\ Post({}, {}, "scenario")
              /\ cwState' = rest
           \/ /\ due
              /\ Post({"queue"}, {}, "scenario")
              /\ cwState' = [rest EXCEPT !.alerted = 0]
        /\ UNCHANGED <<cwWorld, cwFile, untold>>
  BY DEF CheckQueues
<1>2. /\ account \in Reading /\ stuckIn \subseteq RetryQueue /\ cwFile \in Told /\ cwState \in Told
      /\ watcher \in Watcher /\ cwState = cwFile /\ watcher.posted = {} /\ Awake
      /\ watcher.org \in Reading
  BY <1>1 DEF CwSafe, CwShape, Awake
<1> DEFINE found == Stuck(unread)
           failing == Streaks(unread)
<1>3. found \in SUBSET RetryQueue /\ failing \in [RetryQueue -> 0..LongFail]
  BY <1>2, Levels DEF Stuck, Streaks, Told
<1> DEFINE rest == [cwState EXCEPT !.failing = failing, !.found = found]
           bad == found # {} \/ \E q \in RetryQueue : failing[q] = LongFail
<1>4. UNCHANGED <<account, stuckIn, cwFile, untold>>
  BY <1>1 DEF cwWorld
<1>5. \/ ~bad /\ Post({}, {"queue"}, "scenario") /\ cwState' = [rest EXCEPT !.alerted = AlertEvery]
      \/ /\ bad => cwState.alerted # AlertEvery
         /\ Post({}, {}, "scenario") /\ cwState' = rest
      \/ Post({"queue"}, {}, "scenario") /\ cwState' = [rest EXCEPT !.alerted = 0]
  BY <1>1
<1> HIDE DEF found, failing
<1>6. /\ rest \in Told /\ rest.org = cwState.org /\ rest.out = cwState.out
      /\ rest.found = found /\ rest.alerted = cwState.alerted
  BY <1>2, <1>3 DEF Told
<1> DEFINE clear == [rest EXCEPT !.alerted = AlertEvery]
           raised == [rest EXCEPT !.alerted = 0]
<1>7. /\ clear \in Told /\ clear.org = cwState.org /\ clear.out = cwState.out
      /\ clear.found = found /\ clear.alerted = AlertEvery
      /\ raised \in Told /\ raised.org = cwState.org /\ raised.out = cwState.out
  <2> HIDE DEF rest
  <2> QED  BY <1>6, Levels DEF Told
<1> HIDE DEF rest
<1>8. FileTells /\ TickTells
  BY DEF CwSafe
<1>9. CASE ~bad /\ Post({}, {"queue"}, "scenario") /\ cwState' = clear
  <2>1. /\ watcher' \in Watcher /\ watcher'.pc = "scenario" /\ watcher'.org = watcher.org
        /\ watcher'.posted = watcher.posted \cup {} \cup ({"queue"} \cap cwThreads)
        /\ cwThreads' = (cwThreads \ {"queue"}) \cup {}
        /\ Passage' /\ FileTells'
    BY <1>2, <1>4, <1>9, Posts DEF Keys
  <2> HIDE DEF clear
  <2>2. CwShape'
    BY <1>2, <1>4, <1>7, <1>9, <2>1 DEF CwShape, Awake
  <2>3. TickTells'
    BY <1>2, <1>4, <1>7, <1>8, <1>9, <2>1 DEF TickTells, FileTells, Sure, Knows
  <2> QED  BY <2>1, <2>2, <2>3 DEF CwSafe
<1>10. CASE (bad => cwState.alerted # AlertEvery) /\ Post({}, {}, "scenario") /\ cwState' = rest
  <2>1. /\ watcher' \in Watcher /\ watcher'.pc = "scenario" /\ watcher'.org = watcher.org
        /\ watcher'.posted = watcher.posted \cup {} \cup ({} \cap cwThreads)
        /\ cwThreads' = (cwThreads \ {}) \cup {}
        /\ Passage' /\ FileTells'
    BY <1>2, <1>4, <1>10, Posts
  <2>2. CwShape'
    BY <1>2, <1>4, <1>6, <1>10, <2>1 DEF CwShape, Awake
  <2>3. TickTells'
    BY <1>2, <1>4, <1>6, <1>8, <1>10, <2>1 DEF TickTells, FileTells, Sure, Knows
  <2> QED  BY <2>1, <2>2, <2>3 DEF CwSafe
<1>11. CASE Post({"queue"}, {}, "scenario") /\ cwState' = raised
  <2>1. /\ watcher' \in Watcher /\ watcher'.pc = "scenario" /\ watcher'.org = watcher.org
        /\ watcher'.posted = watcher.posted \cup {"queue"} \cup ({} \cap cwThreads)
        /\ cwThreads' = (cwThreads \ {}) \cup {"queue"}
        /\ Passage' /\ FileTells'
    BY <1>2, <1>4, <1>11, Posts DEF Keys
  <2> HIDE DEF raised
  <2>2. CwShape'
    BY <1>2, <1>4, <1>7, <1>11, <2>1 DEF CwShape, Awake
  <2>3. TickTells'
    BY <1>2, <1>4, <1>7, <1>8, <1>11, <2>1 DEF TickTells, FileTells, Sure, Knows
  <2> QED  BY <2>1, <2>2, <2>3 DEF CwSafe
<1> QED  BY <1>5, <1>9, <1>10, <1>11

(* check_scenario: a scenario that is off is told, or back on. *)
LEMMA ScenarioStep == CwSafe /\ CheckScenario => CwSafe'
<1> SUFFICES ASSUME CwSafe, CheckScenario PROVE CwSafe'
  OBVIOUS
<1>1. /\ watcher.pc = "scenario" /\ Awake /\ UNCHANGED <<account, stuckIn, cwFile, cwState, untold>>
      /\ \E opened, arrived \in SUBSET {"off"} : Post(opened, arrived, "cycle")
  <2>1. watcher.pc = "scenario" /\ UNCHANGED <<account, stuckIn, cwFile, cwState, untold>>
    BY DEF CheckScenario, cwWorld
  <2>2. CASE Post(IF switchOn THEN {} ELSE {"off"}, IF switchOn THEN {"off"} ELSE {}, "cycle")
    BY <2>1, <2>2 DEF Awake
  <2>3. CASE CwGo("cycle") /\ UNCHANGED cwThreads
    BY <2>1, <2>3, GoingIsPosting DEF CwSafe, CwShape, Awake
  <2> QED  BY <2>2, <2>3 DEF CheckScenario
<1>2. PICK opened \in SUBSET {"off"}, arrived \in SUBSET {"off"} : Post(opened, arrived, "cycle")
  BY <1>1
<1>3. /\ watcher' \in Watcher /\ watcher'.pc = "cycle" /\ watcher'.org = watcher.org
      /\ watcher'.posted = watcher.posted \cup opened \cup (arrived \cap cwThreads)
      /\ cwThreads' = (cwThreads \ arrived) \cup opened
      /\ Passage' /\ FileTells'
  <2>1. opened \in SUBSET Keys /\ arrived \in SUBSET Keys
    BY DEF Keys
  <2> QED  BY <1>1, <1>2, <2>1, Posts
<1>4. CwShape'
  BY <1>1, <1>3 DEF CwSafe, CwShape, Awake
<1>5. TickTells'
  BY <1>1, <1>3 DEF CwSafe, TickTells, Knows, Awake
<1> QED  BY <1>3, <1>4, <1>5 DEF CwSafe

(* With neither a new cycle nor credits bought, a balance above every threshold
   was there at the last save. *)
LEMMA StillAmple ==
  ASSUME CwSafe, Awake, ~Renewed, ~Bought, watcher.org.level = Ample
  PROVE  cwFile.org = NoReading \/ cwFile.org.level = Ample
<1> SUFFICES ASSUME cwFile.org # NoReading PROVE cwFile.org.level = Ample
  OBVIOUS
<1>1. /\ cwFile.org \in Reading /\ watcher.org \in Reading /\ cwState.org = cwFile.org
      /\ Later(watcher.org, cwFile.org)
  BY DEF CwSafe, CwShape, Told, Passage
<1>2. watcher.org.cycle = cwFile.org.cycle /\ ~(watcher.org.extra > cwFile.org.extra)
  BY <1>1 DEF Renewed, Bought
<1> QED  BY <1>1, <1>2, Levels DEF Later, Reading

(* A new cycle or a refill resolves the thresholds that were crossed. *)
LEMMA CycleStep == CwSafe /\ CycleOrRefill => CwSafe'
<1> SUFFICES ASSUME CwSafe, CycleOrRefill PROVE CwSafe'
  OBVIOUS
<1>1. /\ watcher.pc = "cycle" /\ Awake /\ UNCHANGED <<account, stuckIn, cwFile, untold>>
      /\ cwState \in Told /\ watcher \in Watcher /\ watcher.org \in Reading
      /\ "low" \notin watcher.posted
  BY DEF CycleOrRefill, cwWorld, Awake, CwSafe, CwShape
<1>2. CASE Renewed /\ cwState' = [cwState EXCEPT !.fired = {}, !.out = FALSE]
           /\ Post({}, {"out", "low"}, "out")
  <2>1. /\ watcher' \in Watcher /\ watcher'.pc = "out" /\ watcher'.org = watcher.org
        /\ watcher'.posted = watcher.posted \cup {} \cup ({"out", "low"} \cap cwThreads)
        /\ cwThreads' = (cwThreads \ {"out", "low"}) \cup {}
        /\ Passage' /\ FileTells'
    BY <1>1, <1>2, Posts DEF Keys
  <2>2. /\ cwState' \in Told /\ cwState'.org = cwState.org /\ cwState'.out = FALSE
        /\ cwState'.found = cwState.found /\ cwState'.alerted = cwState.alerted
    BY <1>1, <1>2 DEF Told
  <2>3. CwShape'
    BY <1>1, <2>1, <2>2 DEF CwSafe, CwShape, Awake
  <2>4. TickTells'
    BY <1>1, <2>1, <2>2 DEF CwSafe, TickTells, Knows, Awake
  <2> QED  BY <2>1, <2>3, <2>4 DEF CwSafe
<1>3. CASE /\ Bought /\ cwState' = [cwState EXCEPT !.fired = {t \in @ : t >= watcher.org.level}]
           /\ Post({}, IF watcher.org.level > Max(Thresholds) THEN {"low"} ELSE {}, "out")
  <2> DEFINE arrived == IF watcher.org.level > Max(Thresholds) THEN {"low"} ELSE {}
  <2>0. arrived \in SUBSET {"low"} /\ arrived \in SUBSET Keys /\ (watcher.org.level = Ample => arrived = {"low"})
    BY HighestThreshold, Levels DEF Keys
  <2> HIDE DEF arrived
  <2>1. /\ watcher' \in Watcher /\ watcher'.pc = "out" /\ watcher'.org = watcher.org
        /\ watcher'.posted = watcher.posted \cup {} \cup (arrived \cap cwThreads)
        /\ cwThreads' = (cwThreads \ arrived) \cup {}
        /\ Passage' /\ FileTells'
    BY <1>1, <1>3, <2>0, Posts DEF arrived
  <2>2. /\ cwState' \in Told /\ cwState'.org = cwState.org /\ cwState'.out = cwState.out
        /\ cwState'.found = cwState.found /\ cwState'.alerted = cwState.alerted
    BY <1>1, <1>3 DEF Told
  <2>3. CwShape'
    BY <1>1, <2>1, <2>2 DEF CwSafe, CwShape, Awake
  <2>4. TickTells'
    BY <1>1, <2>0, <2>1, <2>2 DEF CwSafe, TickTells, Knows, Awake
  <2> QED  BY <2>1, <2>3, <2>4 DEF CwSafe
<1>4. CASE ~Renewed /\ ~Bought /\ CwGo("out") /\ UNCHANGED <<cwState, cwThreads>>
  <2>1. /\ watcher' \in Watcher /\ watcher'.pc = "out" /\ watcher'.org = watcher.org
        /\ watcher'.posted = watcher.posted \cup {} \cup ({} \cap cwThreads)
        /\ cwThreads' = (cwThreads \ {}) \cup {}
        /\ Passage' /\ FileTells'
    BY <1>1, <1>4, GoingIsPosting, Posts
  <2>2. CwShape'
    BY <1>1, <1>4, <2>1 DEF CwSafe, CwShape, Awake
  <2>3. ASSUME Knows("low")', watcher'.org.level = Ample PROVE "low" \notin cwThreads'
    BY <1>1, <1>4, <2>1, <2>3, StillAmple DEF CwSafe, FileTells, Sure, Knows
  <2>4. TickTells'
    BY <1>1, <1>4, <2>1, <2>3 DEF CwSafe, TickTells, Knows, Awake
  <2> QED  BY <2>1, <2>2, <2>4 DEF CwSafe
<1> QED  BY <1>2, <1>3, <1>4 DEF CycleOrRefill

(* Out of credits, or back. *)
LEMMA OutStep == CwSafe /\ OutOrBack => CwSafe'
<1> SUFFICES ASSUME CwSafe, OutOrBack PROVE CwSafe'
  OBVIOUS
<1>1. /\ watcher.pc = "out" /\ Awake /\ UNCHANGED <<account, stuckIn, cwFile, untold>>
      /\ cwState \in Told /\ watcher \in Watcher /\ watcher.org \in Reading
  BY DEF OutOrBack, cwWorld, Awake, CwSafe, CwShape
<1>2. PICK opened \in SUBSET {"out"}, arrived \in SUBSET {"out"}, out \in BOOLEAN :
        /\ Post(opened, arrived, "low") /\ cwState' = [cwState EXCEPT !.out = out]
        /\ out <=> watcher.org.level = 0
        /\ \/ opened = {"out"} /\ out
           \/ opened = {} /\ arrived = {"out"} /\ ~out
           \/ opened = {} /\ arrived = {} /\ out = cwState.out
  <2>1. CASE watcher.org.level = 0 /\ cwState' = [cwState EXCEPT !.out = TRUE] /\ Post({"out"}, {}, "low")
    <3>1. {"out"} \in SUBSET {"out"} /\ {} \in SUBSET {"out"}
      OBVIOUS
    <3> QED  BY <2>1, <3>1, Zenon
  <2>2. CASE watcher.org.level > 0 /\ Back
    <3>1. /\ {"out"} \in SUBSET {"out"} /\ {} \in SUBSET {"out"} /\ watcher.org.level # 0
          /\ cwState' = [cwState EXCEPT !.out = FALSE] /\ Post({}, {"out"}, "low")
      BY <1>1, <2>2 DEF Back, Reading
    <3> QED  BY <3>1, Zenon
  <2>3. CASE (watcher.org.level = 0) = cwState.out /\ CwGo("low") /\ UNCHANGED <<cwState, cwThreads>>
    <3>1. /\ {} \in SUBSET {"out"} /\ cwState.out \in BOOLEAN
          /\ (cwState.out <=> watcher.org.level = 0)
          /\ cwState' = [cwState EXCEPT !.out = cwState.out]
      BY <1>1, <2>3 DEF Told
    <3>2. Post({}, {}, "low")
      BY <1>1, <2>3, GoingIsPosting
    <3> QED  BY <3>1, <3>2, Zenon
  <2> QED  BY <2>1, <2>2, <2>3 DEF OutOrBack
<1>3. opened \in SUBSET Keys /\ arrived \in SUBSET Keys
  BY DEF Keys
<1>4. /\ watcher' \in Watcher /\ watcher'.pc = "low" /\ watcher'.org = watcher.org
      /\ watcher'.posted = watcher.posted \cup opened \cup (arrived \cap cwThreads)
      /\ cwThreads' = (cwThreads \ arrived) \cup opened
      /\ Passage' /\ FileTells'
  BY <1>1, <1>2, <1>3, Posts
<1>5. /\ cwState' \in Told /\ cwState'.org = cwState.org /\ cwState'.out = out
      /\ cwState'.found = cwState.found /\ cwState'.alerted = cwState.alerted
  BY <1>1, <1>2 DEF Told
<1>6. CwShape'
  BY <1>1, <1>4, <1>5 DEF CwSafe, CwShape, Awake
<1>7. TickTells'
  <2>1. TickTells
    BY DEF CwSafe
  <2>2. ASSUME Knows("out")' PROVE "out" \in cwThreads' <=> out
    BY <1>1, <1>2, <1>4, <2>1, <2>2 DEF TickTells, Knows
  <2>3. \A k : k # "out" => (k \in cwThreads' <=> k \in cwThreads) /\ (Knows(k) <=> (k \in watcher'.posted \/ k \notin untold'))
    BY <1>1, <1>2, <1>4 DEF Knows
  <2> QED  BY <1>1, <1>2, <1>4, <1>5, <2>1, <2>2, <2>3 DEF TickTells, Knows
<1> QED  BY <1>4, <1>6, <1>7 DEF CwSafe

(* The lowest threshold crossed is told. *)
LEMMA CrossingStep == CwSafe /\ TellCrossing => CwSafe'
<1> SUFFICES ASSUME CwSafe, TellCrossing PROVE CwSafe'
  OBVIOUS
<1>1. /\ watcher.pc = "low" /\ Awake /\ UNCHANGED <<account, stuckIn, cwFile, untold>>
      /\ cwState \in Told /\ watcher \in Watcher /\ watcher.org \in Reading
  BY DEF TellCrossing, cwWorld, Awake, CwSafe, CwShape
<1>2. CASE Crossed = {}
  <2>0. CwGo("save") /\ UNCHANGED <<cwState, cwThreads>>
    BY <1>2 DEF TellCrossing
  <2>1. /\ watcher' \in Watcher /\ watcher'.pc = "save" /\ watcher'.org = watcher.org
        /\ watcher'.posted = watcher.posted \cup {} \cup ({} \cap cwThreads)
        /\ cwThreads' = (cwThreads \ {}) \cup {}
        /\ Passage' /\ FileTells'
    BY <1>1, <2>0, GoingIsPosting, Posts
  <2>2. CwShape'
    BY <1>1, <2>0, <2>1 DEF CwSafe, CwShape, Awake
  <2>3. TickTells'
    BY <1>1, <2>0, <2>1 DEF CwSafe, TickTells, Knows, Awake
  <2> QED  BY <2>1, <2>2, <2>3 DEF CwSafe
<1>3. CASE Crossed # {}
  <2>0. cwState' = [cwState EXCEPT !.fired = @ \cup {Max(Crossed)}] /\ Post({"low"}, {}, "save")
    BY <1>3 DEF TellCrossing
  <2>1. /\ watcher' \in Watcher /\ watcher'.pc = "save" /\ watcher'.org = watcher.org
        /\ watcher'.posted = watcher.posted \cup {"low"} \cup ({} \cap cwThreads)
        /\ cwThreads' = (cwThreads \ {}) \cup {"low"}
        /\ Passage' /\ FileTells'
    BY <1>1, <2>0, Posts DEF Keys
  <2>2. Max(Crossed) \in Thresholds
    <3>1. Crossed \in SUBSET Thresholds
      BY DEF Crossed
    <3> QED  BY <1>3, <3>1, Levels, HighestOf
  <2>3. /\ cwState' \in Told /\ cwState'.org = cwState.org /\ cwState'.out = cwState.out
        /\ cwState'.found = cwState.found /\ cwState'.alerted = cwState.alerted
    <3> DEFINE m == Max(Crossed)
    <3>1. m \in Thresholds /\ cwState' = [cwState EXCEPT !.fired = cwState.fired \cup {m}]
      BY <2>0, <2>2
    <3> HIDE DEF m
    <3> QED  BY <1>1, <3>1 DEF Told
  <2>4. watcher.org.level # Ample
    <3>1. PICK t \in Crossed : TRUE
      BY <1>3
    <3> QED  BY <1>1, <3>1, Levels DEF Crossed, Reading
  <2>5. CwShape'
    BY <1>1, <2>1, <2>3 DEF CwSafe, CwShape, Awake
  <2>6. TickTells'
    BY <1>1, <2>1, <2>3, <2>4 DEF CwSafe, TickTells, Knows, Awake
  <2> QED  BY <2>1, <2>5, <2>6 DEF CwSafe
<1> QED  BY <1>2, <1>3

(* The tick ends with the save of what it told. *)
LEMMA SaveStep == CwSafe /\ SaveTold => CwSafe'
<1> SUFFICES ASSUME CwSafe, SaveTold PROVE CwSafe'
  OBVIOUS
<1>1. /\ watcher.pc = "save" /\ Awake /\ UNCHANGED <<account, stuckIn, cwThreads>>
      /\ cwState' = [cwState EXCEPT !.org = watcher.org] /\ cwFile' = cwState'
      /\ watcher' = CwIdle /\ untold' = untold \ watcher.posted
  BY DEF SaveTold, cwWorld, Awake
<1>2. /\ account \in Reading /\ stuckIn \subseteq RetryQueue
      /\ cwState \in Told /\ watcher \in Watcher /\ watcher.org \in Reading
  BY <1>1 DEF CwSafe, CwShape
<1>3. /\ cwState' \in Told /\ cwState'.org = watcher.org /\ cwState'.out = cwState.out
      /\ cwState'.found = cwState.found /\ cwState'.alerted = cwState.alerted
  BY <1>1, <1>2 DEF Told
<1>4. watcher' \in Watcher /\ watcher'.pc = "sleep" /\ watcher'.posted = {}
  BY <1>1 DEF CwIdle, Watcher
<1>5. CwShape'
  BY <1>1, <1>2, <1>3, <1>4 DEF CwShape, Awake
<1>6. Passage'
  BY <1>1, <1>3, <1>4 DEF CwSafe, Passage, Awake
<1>7. FileTells'
  <2>1. \A k : k \notin untold' => Knows(k)
    BY <1>1 DEF Knows
  <2>2. watcher.org # NoReading
    BY <1>2, ReadingIsNot
  <2>3. \A k : k \notin untold' \cup watcher'.posted => Knows(k)
    BY <1>4, <2>1
  <2>4. TickTells /\ cwState.out \in BOOLEAN /\ cwFile' = cwState'
    BY <1>1, <1>2 DEF CwSafe, Told
  <2>5. cwFile'.out <=> cwFile'.org # NoReading /\ cwFile'.org.level = 0
    BY <1>1, <1>3, <2>2, <2>4 DEF TickTells
  <2>6. ASSUME Sure("out")' PROVE "out" \in cwThreads' <=> cwFile'.out
    BY <1>1, <1>3, <2>3, <2>4, <2>6 DEF TickTells, Sure
  <2>7. ASSUME Sure("low")', cwFile'.org = NoReading \/ cwFile'.org.level = Ample PROVE "low" \notin cwThreads'
    BY <1>1, <1>3, <2>2, <2>3, <2>4, <2>7 DEF TickTells, Sure
  <2>8. ASSUME Sure("queue")', cwFile'.found # {} \/ cwFile'.alerted # AlertEvery PROVE "queue" \in cwThreads'
    BY <1>1, <1>3, <2>3, <2>4, <2>8 DEF TickTells, Sure
  <2> QED  BY <2>5, <2>6, <2>7, <2>8 DEF FileTells
<1>8. TickTells'
  BY <1>4 DEF TickTells, Awake
<1> QED  BY <1>5, <1>6, <1>7, <1>8 DEF CwSafe

(* A kill leaves the threads posted to since the last save untold. *)
LEMMA KillWatcherStep == CwSafe /\ KillWatcher => CwSafe'
<1> SUFFICES ASSUME CwSafe, KillWatcher PROVE CwSafe'
  OBVIOUS
<1>1. /\ UNCHANGED <<account, stuckIn, cwThreads>> /\ cwFile' = cwState'
      /\ watcher' = CwIdle /\ untold' = untold \cup watcher.posted
      /\ \/ cwState' = [cwFile EXCEPT !.alerted = AlertEvery, !.failing = Told0.failing]
         \/ cwState' = cwFile
  BY DEF KillWatcher, cwWorld
<1>2. /\ account \in Reading /\ stuckIn \subseteq RetryQueue /\ cwFile \in Told
  BY DEF CwSafe, CwShape
<1>3. /\ cwState' \in Told /\ cwState'.org = cwFile.org /\ cwState'.out = cwFile.out
      /\ cwState'.found = cwFile.found
      /\ cwState'.alerted # AlertEvery => cwFile.alerted # AlertEvery
  <2>1. Told0.failing \in [RetryQueue -> 0..LongFail]
    BY Levels DEF Told0
  <2>2. CASE cwState' = [cwFile EXCEPT !.alerted = AlertEvery, !.failing = Told0.failing]
    <3> DEFINE none == Told0.failing
    <3>1. none \in [RetryQueue -> 0..LongFail] /\ cwState' = [cwFile EXCEPT !.alerted = AlertEvery, !.failing = none]
      BY <2>1, <2>2
    <3> HIDE DEF none
    <3>2. AlertEvery \in 0..AlertEvery
      BY Levels
    <3>3. cwState' = [fired |-> cwFile.fired, out |-> cwFile.out, org |-> cwFile.org,
                      alerted |-> AlertEvery, failing |-> none, found |-> cwFile.found]
      BY <1>2, <3>1 DEF Told
    <3>4. /\ cwFile.fired \in SUBSET Thresholds /\ cwFile.out \in BOOLEAN
          /\ cwFile.org \in Reading \cup {NoReading} /\ cwFile.found \in SUBSET RetryQueue
      BY <1>2 DEF Told
    <3>5. cwState' \in Told
      BY <3>1, <3>2, <3>3, <3>4 DEF Told
    <3> QED  BY <3>3, <3>5
  <2> QED  BY <1>1, <1>2, <2>2
<1>4. watcher' \in Watcher /\ watcher'.pc = "sleep" /\ watcher'.posted = {}
  BY <1>1 DEF CwIdle, Watcher
<1>5. CwShape'
  BY <1>1, <1>2, <1>3, <1>4 DEF CwShape, Awake
<1>6. Passage'
  BY <1>1, <1>3, <1>4 DEF CwSafe, Passage, Awake
<1>7. FileTells'
  BY <1>1, <1>3, <1>4 DEF CwSafe, FileTells, Sure
<1>8. TickTells'
  BY <1>4 DEF TickTells, Awake
<1> QED  BY <1>5, <1>6, <1>7, <1>8 DEF CwSafe

(* A step of a tick, of the account, or a kill. *)
LEMMA CwStep == CwSafe /\ [CwNext]_cwVars => CwSafe'
<1> SUFFICES ASSUME CwSafe, [CwNext]_cwVars PROVE CwSafe'
  OBVIOUS
<1>1. CASE UNCHANGED cwVars
  BY <1>1 DEF cwVars, CwSafe, CwShape, Awake, Passage, FileTells, TickTells, Sure, Knows
<1> QED
  BY <1>1, AccountStep, ReadStep, QueuesStep, ScenarioStep, CycleStep, OutStep, CrossingStep,
     SaveStep, KillWatcherStep DEF CwNext

(* After each tick the credit threads say what the tick saw, for any thresholds
   and however many ticks failed or were killed: a thread that no killed tick has
   posted to is right. *)
THEOREM ThreadsTellHolds == CwInit /\ [][CwNext]_cwVars => []ThreadsTell
<1>1. CwSafe => ThreadsTell
  <2> SUFFICES ASSUME CwSafe, watcher.pc = "sleep", cwFile.org # NoReading PROVE ThreadsTell
    BY DEF ThreadsTell
  <2>1. watcher.posted = {} /\ FileTells
    BY DEF CwSafe, CwShape, Awake
  <2>2. ASSUME "out" \notin untold PROVE "out" \in cwThreads <=> cwFile.org.level = 0
    BY <2>1, <2>2 DEF FileTells, Sure
  <2>3. ASSUME "low" \notin untold, cwFile.org.level = Ample PROVE "low" \notin cwThreads
    BY <2>1, <2>3 DEF FileTells, Sure
  <2>4. ASSUME "queue" \notin untold, cwFile.found # {} PROVE "queue" \in cwThreads
    BY <2>1, <2>4 DEF FileTells, Sure
  <2> QED  BY <2>2, <2>3, <2>4 DEF ThreadsTell
<1> QED  BY <1>1, CwInitSafe, CwStep, PTL
-----------------------------------------------------------------------------
(***************************************************************************)
(* The heartbeat of a tab.                                                 *)
(***************************************************************************)
(* The types of the cell and of a consumer; only who judged the cell stale
   writes. *)
Beat == [owner : Host \cup {"none"}, age : 0..StaleAfter]
Consumer == [pc : {"off", "poll", "judge", "write", "batch"}, read : Beat,
             look : 0..BeatEvery, batch : 0..BatchTicks]
TabShape ==
    /\ beat \in Beat /\ raceAge \in 0..LongAgo /\ outlasted \in BOOLEAN
    /\ consumer \in [Host -> Consumer]
    /\ \A h \in Host : /\ consumer[h].pc # "batch" => consumer[h].batch = 0
                       /\ consumer[h].pc = "write" => ~Fresh(h, consumer[h].read)

(* A consumer works, or may go to work without a look, on a claim: what it
   wrote to the cell, and how long ago that can be. *)
Claims(c) == c.pc = "batch" \/ c.look < BeatEvery
Since(c) == IF c.look < BeatEvery THEN c.look ELSE BeatEvery + c.batch

(* The cell still holds a claim, or a host that raced wrote over it. *)
ClaimStands(h) ==
    /\ beat.owner = h /\ consumer[h].look < BeatEvery => beat.age <= consumer[h].look
    /\ Claims(consumer[h]) => \/ outlasted
                              \/ raceAge <= Since(consumer[h])
                              \/ beat.owner = h /\ beat.age < StaleAfter

(* What every step of a host and every tick keeps, for the guard of a tab. *)
TabSafe == guard = "tab" => TabShape /\ \A h \in Host : ClaimStands(h)

(* The spans are natural numbers, and a heartbeat goes stale later than it is
   due. *)
LEMMA Ticks == /\ BeatEvery \in Nat /\ StaleAfter \in Nat /\ BatchTicks \in Nat
               /\ BeatEvery > 0 /\ StaleAfter > 0 /\ BeatEvery < StaleAfter
               /\ LongAgo \in Nat /\ LongAgo >= StaleAfter + BeatEvery /\ "none" \notin Host
  BY HeartbeatAssumption DEF LongAgo

(* A consumer with fields set anew is a consumer. *)
LEMMA Altered ==
  ASSUME NEW k \in Consumer, NEW pc \in {"off", "poll", "judge", "write", "batch"},
         NEW look \in 0..BeatEvery, NEW batch \in 0..BatchTicks
  PROVE  /\ [k EXCEPT !.pc = pc, !.look = look] =
               [pc |-> pc, read |-> k.read, look |-> look, batch |-> k.batch]
         /\ [k EXCEPT !.pc = pc, !.batch = batch] =
               [pc |-> pc, read |-> k.read, look |-> k.look, batch |-> batch]
<1> DEFINE m == [k EXCEPT !.pc = pc]
<1>1. m \in Consumer /\ m.pc = pc /\ m.read = k.read /\ m.look = k.look /\ m.batch = k.batch
  BY DEF Consumer
<1> HIDE DEF m
<1>2. [m EXCEPT !.look = look] = [pc |-> pc, read |-> k.read, look |-> look, batch |-> k.batch]
  BY <1>1 DEF Consumer
<1>3. [m EXCEPT !.batch = batch] = [pc |-> pc, read |-> k.read, look |-> k.look, batch |-> batch]
  BY <1>1 DEF Consumer
<1> QED  BY <1>2, <1>3 DEF m

(* No consumer runs at first, and there has been no race. *)
LEMMA HbInitSafe == HbInit => TabSafe
<1> SUFFICES ASSUME HbInit PROVE TabShape /\ \A h \in Host : ClaimStands(h)
  BY DEF TabSafe
<1>1. NoBeat \in Beat /\ NoBeat.owner = "none"
  BY Ticks DEF NoBeat, Beat
<1>2. Off \in Consumer /\ Off.pc = "off" /\ Off.look = BeatEvery /\ Off.batch = 0
  BY <1>1, Ticks DEF Off, Consumer
<1>3. /\ beat \in Beat /\ beat.owner = "none" /\ raceAge \in 0..LongAgo /\ outlasted \in BOOLEAN
  <2>1. beat = NoBeat /\ raceAge = LongAgo /\ outlasted = FALSE
    BY DEF HbInit
  <2>2. LongAgo \in 0..LongAgo
    BY Ticks
  <2> QED  BY <1>1, <2>1, <2>2
<1>4. consumer \in [Host -> Consumer] /\ \A h \in Host : consumer[h] = Off
  BY <1>2 DEF HbInit
<1>5. TabShape
  BY <1>2, <1>3, <1>4 DEF TabShape
<1>6. \A h \in Host : ClaimStands(h)
  <2> SUFFICES ASSUME NEW h \in Host PROVE ClaimStands(h)
    OBVIOUS
  <2>1. consumer[h].pc # "batch" /\ ~(consumer[h].look < BeatEvery) /\ beat.owner # h
    BY <1>2, <1>3, <1>4, Ticks
  <2> QED  BY <2>1 DEF ClaimStands, Claims
<1> QED  BY <1>5, <1>6

(* A step of one host h to the state c, with the cell and the history left
   alone: it keeps its claim or gives it up. *)
LEMMA OneHost ==
  ASSUME guard = "tab", TabSafe, NEW h \in Host, NEW c \in Consumer,
         consumer' = [consumer EXCEPT ![h] = c], UNCHANGED <<guard, beat, raceAge, outlasted>>,
         c.pc # "batch" => c.batch = 0,
         c.pc = "write" => ~Fresh(h, c.read),
         c.look < BeatEvery => c.look = consumer[h].look,
         c.pc = "batch" => c = [consumer[h] EXCEPT !.pc = "batch"] /\ Claims(consumer[h])
  PROVE  TabSafe'
<1>1. TabShape /\ \A g \in Host : ClaimStands(g)
  BY DEF TabSafe
<1>2. consumer[h] \in Consumer /\ consumer'[h] = c /\ \A g \in Host \ {h} : consumer'[g] = consumer[g]
  BY <1>1 DEF TabShape
<1>3. TabShape'
  BY <1>1, <1>2 DEF TabShape, Fresh
<1>4. Claims(c) => Claims(consumer[h]) /\ Since(c) = Since(consumer[h])
  BY <1>2, Ticks DEF Claims, Since, Consumer
<1>5. ClaimStands(h)'
  BY <1>1, <1>2, <1>4 DEF ClaimStands
<1>6. \A g \in Host \ {h} : ClaimStands(g)'
  BY <1>1, <1>2 DEF ClaimStands
<1> QED  BY <1>3, <1>5, <1>6 DEF TabSafe

(* A host looks at the cell, skips a look, or works; none of it writes the cell. *)
LEMMA HostStep ==
  ASSUME guard = "tab", TabSafe, NEW h \in Host,
         StartHost(h) \/ StopHost(h) \/ LookSkipped(h) \/ ReadBeat(h) \/ JudgeBeat(h) \/ ReadAgain(h)
           \/ EndBatch(h)
  PROVE  TabSafe'
<1>1. /\ beat \in Beat /\ consumer \in [Host -> Consumer] /\ consumer[h] \in Consumer
      /\ consumer[h].pc # "batch" => consumer[h].batch = 0
  BY DEF TabSafe, TabShape
<1>2. Off \in Consumer /\ Off.look = BeatEvery /\ Off.batch = 0 /\ Off.pc = "off"
      /\ [Off EXCEPT !.pc = "poll"] \in Consumer
  BY Ticks DEF Off, Consumer, NoBeat, Beat
<1>3. CASE StartHost(h)
  <2> DEFINE c == [Off EXCEPT !.pc = "poll"]
  <2>1. c \in Consumer /\ c.pc = "poll" /\ c.look = BeatEvery /\ c.batch = 0
    BY <1>2 DEF Consumer
  <2>2. UNCHANGED <<guard, beat, raceAge, outlasted>> /\ consumer' = [consumer EXCEPT ![h] = c]
    BY <1>3 DEF StartHost
  <2>3. ~(c.look < BeatEvery)
    BY <2>1, Ticks
  <2> HIDE DEF c
  <2> QED  BY <2>1, <2>2, <2>3, OneHost
<1>4. CASE StopHost(h)
  <2>1. UNCHANGED <<guard, beat, raceAge, outlasted>> /\ consumer' = [consumer EXCEPT ![h] = Off]
    BY <1>4 DEF StopHost
  <2>2. ~(Off.look < BeatEvery)
    BY <1>2, Ticks
  <2> QED  BY <1>2, <2>1, <2>2, OneHost
<1>5. CASE LookSkipped(h)
  <2> DEFINE c == [consumer[h] EXCEPT !.pc = "batch"]
  <2>1. /\ c \in Consumer /\ c.pc = "batch" /\ c.look = consumer[h].look
        /\ consumer' = [consumer EXCEPT ![h] = c] /\ Claims(consumer[h])
    BY <1>1, <1>5 DEF LookSkipped, At, Consumer, Claims
  <2>2. UNCHANGED <<guard, beat, raceAge, outlasted>>
    BY <1>5 DEF LookSkipped
  <2> QED  BY <2>1, <2>2, OneHost
<1>6. CASE ReadBeat(h)
  <2>1. PICK pc \in {"judge", "poll"}, read \in Beat :
             consumer' = [consumer EXCEPT ![h] = [consumer[h] EXCEPT !.look = consumer[h].look,
                                                                     !.pc = pc, !.read = read]]
    <3>1. consumer[h] = [consumer[h] EXCEPT !.look = consumer[h].look] /\ consumer[h].read \in Beat
      BY <1>1 DEF Consumer
    <3> DEFINE c(pc, read) == [consumer[h] EXCEPT !.look = consumer[h].look, !.pc = pc, !.read = read]
    <3>2. CASE consumer' = [consumer EXCEPT ![h] = [consumer[h] EXCEPT !.look = consumer[h].look,
                                                                       !.pc = "judge", !.read = beat]]
      BY <1>1, <3>2
    <3>3. CASE consumer' = [consumer EXCEPT ![h] = [consumer[h] EXCEPT !.look = consumer[h].look,
                                                                       !.pc = "poll"]]
      <4>1. [consumer[h] EXCEPT !.look = consumer[h].look, !.pc = "poll"] = c("poll", consumer[h].read)
        BY <1>1 DEF Consumer
      <4> QED  BY <3>1, <3>3, <4>1
    <3>4. guard = "tab" /\ guard # "live"
      OBVIOUS
    <3>5. \/ consumer' = [consumer EXCEPT ![h] = [consumer[h] EXCEPT !.look = consumer[h].look,
                                                                     !.pc = "judge", !.read = beat]]
          \/ consumer' = [consumer EXCEPT ![h] = [consumer[h] EXCEPT !.look = consumer[h].look,
                                                                     !.pc = "poll"]]
      BY <1>6, <3>1, <3>4 DEF ReadBeat, Cell
    <3> QED  BY <3>2, <3>3, <3>5
  <2> DEFINE c == [consumer[h] EXCEPT !.look = consumer[h].look, !.pc = pc, !.read = read]
  <2>2. c \in Consumer /\ c.pc = pc /\ c.look = consumer[h].look /\ c.batch = 0
    BY <1>1, <1>6 DEF Consumer, ReadBeat
  <2>3. UNCHANGED <<guard, beat, raceAge, outlasted>> /\ consumer' = [consumer EXCEPT ![h] = c]
    BY <1>6, <2>1 DEF ReadBeat
  <2> QED  BY <2>2, <2>3, OneHost
<1>7. CASE JudgeBeat(h)
  <2>1. PICK pc \in {"poll", "write"} : /\ consumer' = [consumer EXCEPT ![h].pc = pc]
                                        /\ pc = "write" => ~Fresh(h, consumer[h].read)
    BY <1>7 DEF JudgeBeat, At, Refused
  <2> DEFINE c == [consumer[h] EXCEPT !.pc = pc]
  <2>2. /\ c \in Consumer /\ c.pc = pc /\ c.look = consumer[h].look /\ c.batch = 0
        /\ c.read = consumer[h].read
    BY <1>1, <1>7 DEF Consumer, JudgeBeat
  <2>3. UNCHANGED <<guard, beat, raceAge, outlasted>> /\ consumer' = [consumer EXCEPT ![h] = c]
    BY <1>1, <1>7, <2>1 DEF JudgeBeat
  <2> QED  BY <2>1, <2>2, <2>3, OneHost
<1>8. CASE ReadAgain(h)
  BY <1>1, <1>8 DEF ReadAgain, Consumer
<1>9. CASE EndBatch(h)
  <2> DEFINE c == [consumer[h] EXCEPT !.pc = "poll", !.batch = 0]
  <2>1. c \in Consumer /\ c.pc = "poll" /\ c.look = consumer[h].look /\ c.batch = 0
    <3>1. c = [pc |-> "poll", read |-> consumer[h].read, look |-> consumer[h].look, batch |-> 0]
      <4>1. 0 \in 0..BatchTicks /\ consumer[h].look \in 0..BeatEvery
        BY <1>1, Ticks DEF Consumer
      <4> QED  BY <1>1, <4>1, Altered
    <3> QED  BY <1>1, <3>1, Ticks DEF Consumer
  <2>2. UNCHANGED <<guard, beat, raceAge, outlasted>> /\ consumer' = [consumer EXCEPT ![h] = c]
    BY <1>1, <1>9 DEF EndBatch
  <2> QED  BY <2>1, <2>2, OneHost
<1> QED  BY <1>3, <1>4, <1>5, <1>6, <1>7, <1>8, <1>9

(* Writing the cell: over a claim that stands it is a race, for the writer
   found the cell free. *)
LEMMA WriteStep == ASSUME guard = "tab", TabSafe, NEW h \in Host, WriteBeat(h) PROVE TabSafe'
<1>1. /\ beat \in Beat /\ consumer \in [Host -> Consumer] /\ consumer[h] \in Consumer
      /\ raceAge \in 0..LongAgo /\ outlasted \in BOOLEAN
      /\ TabShape /\ \A g \in Host : ClaimStands(g)
      /\ consumer[h].pc = "write" /\ consumer[h].batch = 0 /\ ~Fresh(h, consumer[h].read)
      /\ UNCHANGED <<guard, outlasted>>
  BY DEF TabSafe, TabShape, WriteBeat
<1>2. CASE /\ Stamped(h)
           /\ raceAge' = IF Fresh(h, beat) /\ ~Fresh(h, consumer[h].read) THEN 0 ELSE raceAge
           /\ consumer' = [consumer EXCEPT ![h].pc = "batch", ![h].look = 0]
  <2> DEFINE c == [consumer[h] EXCEPT !.pc = "batch", !.look = 0]
  <2>1. c \in Consumer /\ c.pc = "batch" /\ c.look = 0 /\ c.batch = 0
    <3>1. c = [pc |-> "batch", read |-> consumer[h].read, look |-> 0, batch |-> consumer[h].batch]
      <4>1. 0 \in 0..BeatEvery /\ consumer[h].batch \in 0..BatchTicks
        BY <1>1, Ticks DEF Consumer
      <4> QED  BY <1>1, <4>1, Altered
    <3> QED  BY <1>1, <3>1, Ticks DEF Consumer
  <2>2. consumer' = [consumer EXCEPT ![h] = c]
    BY <1>1, <1>2
  <2>3. beat' = [owner |-> h, age |-> 0] /\ beat' \in Beat
    BY <1>2, Ticks DEF Stamped, Beat
  <2> HIDE DEF c
  <2>4. consumer'[h] = c /\ \A g \in Host \ {h} : consumer'[g] = consumer[g]
    BY <1>1, <2>1, <2>2
  <2>5. raceAge' \in 0..LongAgo /\ (Fresh(h, beat) => raceAge' = 0) /\ raceAge' <= raceAge
    BY <1>1, <1>2, Ticks
  <2>6. TabShape'
    BY <1>1, <2>1, <2>2, <2>3, <2>4, <2>5 DEF TabShape, Fresh
  <2>7. ClaimStands(h)'
    BY <2>1, <2>3, <2>4, Ticks DEF ClaimStands
  <2>8. ASSUME NEW g \in Host \ {h} PROVE ClaimStands(g)'
    <3>1. consumer[g] \in Consumer /\ Since(consumer[g]) \in Nat
      BY <1>1, Ticks DEF Consumer, Since
    <3>2. beat.owner = g /\ beat.age < StaleAfter => raceAge' = 0
      BY <2>5, Ticks DEF Fresh
    <3> QED  BY <1>1, <2>3, <2>4, <2>5, <3>1, <3>2, Ticks DEF ClaimStands
  <2> QED  BY <2>6, <2>7, <2>8 DEF TabSafe
<1>3. CASE At(h, "poll") /\ UNCHANGED <<beat, raceAge>>
  <2> DEFINE c == [consumer[h] EXCEPT !.pc = "poll"]
  <2>1. /\ c \in Consumer /\ c.pc = "poll" /\ c.look = consumer[h].look /\ c.batch = 0
        /\ consumer' = [consumer EXCEPT ![h] = c]
    BY <1>1, <1>3 DEF At, Consumer
  <2> QED  BY <1>1, <1>3, <2>1, OneHost
<1> QED  BY <1>2, <1>3 DEF WriteBeat

(* A tick ages the cell, the looks, the batches and the race alike. *)
LEMMA TickStep == ASSUME guard = "tab", TabSafe, HbTick PROVE TabSafe'
<1>1. TabShape /\ (\A g \in Host : ClaimStands(g)) /\ UNCHANGED guard
  BY DEF TabSafe, HbTick
<1>2. /\ beat' = [beat EXCEPT !.age = Aged(beat.age, StaleAfter)] /\ beat \in Beat
      /\ raceAge' = Aged(raceAge, LongAgo) /\ raceAge \in 0..LongAgo
  BY <1>1 DEF TabShape, HbTick
<1>3. /\ beat' \in Beat /\ beat'.owner = beat.owner /\ beat'.age <= beat.age + 1
      /\ raceAge' \in 0..LongAgo /\ raceAge' <= raceAge + 1
  <2> DEFINE n == Aged(beat.age, StaleAfter)
  <2>1. n \in 0..StaleAfter /\ n <= beat.age + 1
    BY <1>2, Ticks DEF Aged, Beat
  <2>2. beat' = [beat EXCEPT !.age = n]
    BY <1>2
  <2> HIDE DEF n
  <2>3. beat' \in Beat /\ beat'.owner = beat.owner /\ beat'.age = n
    BY <1>2, <2>1, <2>2 DEF Beat
  <2>4. raceAge' \in 0..LongAgo /\ raceAge' <= raceAge + 1
    BY <1>2, Ticks DEF Aged
  <2> QED  BY <2>1, <2>3, <2>4
<1>4. ASSUME NEW h \in Host
      PROVE  /\ consumer[h] \in Consumer /\ consumer'[h] \in Consumer
             /\ consumer'[h].pc = consumer[h].pc /\ consumer'[h].pc # "write"
             /\ consumer'[h].look = IF consumer[h].look < BeatEvery THEN consumer[h].look + 1
                                    ELSE consumer[h].look
             /\ consumer'[h].batch = IF consumer[h].pc = "batch" THEN consumer[h].batch + 1 ELSE 0
  <2>1. /\ consumer[h] \in Consumer
        /\ consumer[h].pc \in {"off", "poll"} \/ (consumer[h].pc = "batch" /\ consumer[h].batch < BatchTicks)
    BY <1>1 DEF TabShape, HbTick
  <2> DEFINE l == IF consumer[h].look < BeatEvery THEN consumer[h].look + 1 ELSE consumer[h].look
             b == IF consumer[h].pc = "batch" THEN consumer[h].batch + 1 ELSE 0
  <2>2. l \in 0..BeatEvery /\ b \in 0..BatchTicks
    BY <2>1, Ticks DEF Consumer
  <2>3. consumer'[h] = [consumer[h] EXCEPT !.look = l, !.batch = b]
    BY DEF HbTick
  <2> HIDE DEF l, b
  <2>4. /\ consumer'[h] \in Consumer /\ consumer'[h].pc = consumer[h].pc
        /\ consumer'[h].look = l /\ consumer'[h].batch = b
    BY <2>1, <2>2, <2>3 DEF Consumer
  <2> QED  BY <2>1, <2>4 DEF l, b
<1>5. outlasted' = (outlasted \/ \E h \in Host : /\ consumer'[h].batch > 0 /\ beat'.owner = h
                                                 /\ beat'.age >= StaleAfter)
  BY DEF HbTick
<1>6. TabShape'
  <2>1. consumer' \in [Host -> Consumer]
    BY <1>4 DEF HbTick
  <2>2. outlasted' \in BOOLEAN
    BY <1>5
  <2> QED  BY <1>3, <1>4, <2>1, <2>2 DEF TabShape
<1>7. ASSUME NEW h \in Host PROVE ClaimStands(h)'
  <2> DEFINE c == consumer[h]
             d == consumer'[h]
  <2>1. /\ c.look \in 0..BeatEvery /\ d.look \in 0..BeatEvery /\ c.batch \in Nat /\ d.batch \in Nat
        /\ beat.age \in Nat /\ beat'.age \in Nat /\ raceAge \in Nat /\ raceAge' \in Nat
        /\ d.look = IF c.look < BeatEvery THEN c.look + 1 ELSE c.look
        /\ d.batch = IF c.pc = "batch" THEN c.batch + 1 ELSE 0
        /\ d.pc = c.pc
        /\ c.pc # "batch" => c.batch = 0
    BY <1>1, <1>2, <1>3, <1>4, Ticks DEF TabShape, Consumer, Beat
  <2>2. ClaimStands(h)
    BY <1>1
  <2> HIDE DEF c, d
  <2>3. /\ beat.owner = h /\ c.look < BeatEvery => beat.age <= c.look
        /\ Claims(c) => outlasted \/ raceAge <= Since(c) \/ (beat.owner = h /\ beat.age < StaleAfter)
    BY <2>2 DEF ClaimStands, c
  <2>4. beat'.owner = h /\ d.look < BeatEvery => beat'.age <= d.look
    BY <1>3, <2>1, <2>3, Ticks
  <2>5. ASSUME Claims(d), ~outlasted'
        PROVE  raceAge' <= Since(d) \/ (beat'.owner = h /\ beat'.age < StaleAfter)
    <3>1. Claims(c) /\ ~outlasted /\ Since(d) >= Since(c) + 1 /\ Since(c) \in Nat /\ Since(d) \in Nat
      <4>1. ~outlasted
        BY <1>5, <2>5
      <4>2. Claims(c)
        BY <2>1, <2>5, Ticks DEF Claims
      <4>3. CASE d.look < BeatEvery
        BY <2>1, <4>1, <4>2, <4>3, Ticks DEF Since
      <4>4. CASE ~(d.look < BeatEvery)
        <5>1. d.look = BeatEvery /\ d.pc = "batch" /\ c.pc = "batch" /\ d.batch = c.batch + 1
          BY <2>1, <2>5, <4>4, Ticks DEF Claims
        <5>2. Since(d) = BeatEvery + c.batch + 1
          BY <2>1, <4>4, <5>1, Ticks DEF Since
        <5>3. Since(c) \in Nat /\ Since(c) <= BeatEvery + c.batch
          BY <2>1, Ticks DEF Since
        <5> QED  BY <2>1, <4>1, <4>2, <5>2, <5>3, Ticks
      <4> QED  BY <4>3, <4>4
    <3>2. CASE raceAge <= Since(c)
      BY <1>3, <2>1, <3>1, <3>2
    <3>3. CASE beat.owner = h /\ beat.age < StaleAfter
      <4>1. beat'.owner = h
        BY <1>3, <3>3
      <4>2. CASE c.pc = "batch"
        <5>1. d.batch > 0
          BY <2>1, <4>2
        <5>2. ~(beat'.age >= StaleAfter)
          BY <1>5, <2>5, <4>1, <5>1 DEF d
        <5> QED  BY <2>1, <4>1, <5>2, Ticks
      <4>3. CASE c.pc # "batch"
        <5>1. c.look < BeatEvery /\ d.look < BeatEvery
          BY <2>1, <2>5, <3>1, <4>3 DEF Claims
        <5> QED  BY <2>1, <2>4, <4>1, <5>1, Ticks
      <4> QED  BY <4>2, <4>3
    <3> QED  BY <2>3, <3>1, <3>2, <3>3
  <2> QED  BY <2>4, <2>5 DEF ClaimStands, d
<1> QED  BY <1>6, <1>7 DEF TabSafe

(* Consumers of one tab on two machines work at the same time only within
   BeatEvery + BatchTicks of a race for the cell, or when a batch outlasted the
   heartbeat: for any number of machines, faults and restarts. *)
THEOREM TabConsumersApartHolds == HbInit /\ [][HbNext]_hbVars => []TabConsumersApart
<1>1. TabSafe /\ [HbNext]_hbVars => TabSafe'
  <2> SUFFICES ASSUME TabSafe, [HbNext]_hbVars PROVE TabSafe'
    OBVIOUS
  <2>1. CASE guard # "tab"
    <3>1. UNCHANGED guard
      BY DEF HbNext, hbVars, HbTick, StartHost, StopHost, LookSkipped, ReadBeat, JudgeBeat,
             WriteBeat, ReadAgain, EndBatch
    <3> QED  BY <2>1, <3>1 DEF TabSafe
  <2>2. CASE guard = "tab" /\ UNCHANGED hbVars
    BY <2>2 DEF hbVars, TabSafe, TabShape, ClaimStands, Fresh
  <2>3. CASE guard = "tab" /\ HbNext
    BY <2>3, HostStep, WriteStep, TickStep DEF HbNext
  <2> QED  BY <2>1, <2>2, <2>3
<1>2. TabSafe => TabConsumersApart
  <2> SUFFICES ASSUME TabSafe, guard = "tab", NEW g \in Host, NEW h \in Host, g # h,
                      consumer[g].pc = "batch", consumer[h].pc = "batch", ~outlasted
               PROVE  raceAge <= BeatEvery + BatchTicks
    BY DEF TabConsumersApart, Together
  <2>1. \A k \in {g, h} : Claims(consumer[k]) /\ Since(consumer[k]) \in Nat
                          /\ Since(consumer[k]) <= BeatEvery + BatchTicks
    BY Ticks DEF TabSafe, TabShape, Claims, Since, Consumer
  <2>2. raceAge \in Nat /\ (raceAge <= Since(consumer[g]) \/ raceAge <= Since(consumer[h]))
    BY <2>1 DEF TabSafe, TabShape, ClaimStands
  <2> QED  BY <2>1, <2>2, Ticks
<1> QED  BY <1>1, <1>2, HbInitSafe, PTL
-----------------------------------------------------------------------------
(***************************************************************************)
(* The chase alerts of the gift refresh.                                   *)
(***************************************************************************)
(* The types of what HubSpot shows and of the running cycle. *)
Stamp == [incomplete : BOOLEAN, state : {"none", "confirmed", "expired"}]
Cycle(c) == c = [pc |-> c.pc, batch |-> c.batch, now |-> c.now, left |-> c.left,
                 checked |-> c.checked, payload |-> c.payload, miss |-> c.miss, lapsed |-> c.lapsed]
GtShape ==
    /\ stamp \in [GiftOrder -> Stamp] /\ giftLedger \in [GiftOrder -> {"none"} \cup Terminal]
    /\ chased \in [GiftOrder -> {0, 1}]
    /\ Cycle(cycle) /\ cycle.pc \in {"idle", "fetch", "patch", "save"}
    /\ cycle.batch \cup cycle.now \cup cycle.lapsed \subseteq GiftOrder
    /\ cycle.pc \in {"idle", "fetch"} => cycle.now = {} /\ cycle.lapsed = {}
    /\ cycle.pc = "save" => cycle.now = {} /\ cycle.batch = {}
    /\ cycle.batch \cap cycle.now = {} /\ \A o, p \in cycle.now : o = p

(* An order that was chased has its ledger row, so no later cycle takes it up;
   one of this cycle that lapsed was not chased before; and one that HubSpot
   shows as expired was chased, is going to be, or was cut short. *)
Chase(o) ==
    /\ chased[o] = 1 => giftLedger[o] \in Terminal
    /\ o \in cycle.batch \cup cycle.now => giftLedger[o] \notin Terminal
    /\ o \in cycle.lapsed => IF cycle.pc = "save" THEN chased[o] = 1
                             ELSE giftLedger[o] = "expired" /\ chased[o] = 0
    /\ stamp[o].state = "expired" =>
          \/ chased[o] = 1 \/ o \in cutShort \cup cycle.lapsed
          \/ o \in cycle.now /\ cycle.payload[o] = "lapsed"

(* What every step of a cycle keeps of the chase. *)
GtSafe == GtShape /\ \A o \in GiftOrder : Chase(o)

(* No order is settled or chased at first. *)
LEMMA GtInitSafe == GtInit => GtSafe
<1> SUFFICES ASSUME GtInit PROVE GtSafe
  OBVIOUS
<1>1. /\ Cycle(NoCycle) /\ NoCycle.pc = "idle" /\ NoCycle.batch = {} /\ NoCycle.now = {}
      /\ NoCycle.lapsed = {}
  BY DEF NoCycle, Cycle
<1>2. /\ stamp \in [GiftOrder -> [incomplete : BOOLEAN, state : {"none"}]] /\ cycle = NoCycle
      /\ giftLedger = [o \in GiftOrder |-> "none"] /\ chased = [o \in GiftOrder |-> 0]
  BY DEF GtInit
<1>3. \A o \in GiftOrder : stamp[o] \in [incomplete : BOOLEAN, state : {"none"}]
  BY <1>2
<1>4. stamp \in [GiftOrder -> Stamp] /\ \A o \in GiftOrder : stamp[o].state = "none"
  BY <1>2, <1>3 DEF Stamp
<1>5. GtShape
  BY <1>1, <1>2, <1>4 DEF GtShape
<1>6. \A o \in GiftOrder : Chase(o)
  BY <1>1, <1>2, <1>4 DEF Chase, Terminal
<1> QED  BY <1>5, <1>6 DEF GtSafe

(* A cycle begins with nothing of an earlier one, and with unsettled orders. *)
LEMMA CycleBegins == ASSUME GtSafe, SearchGifts \/ HydrateGifts \/ CycleAborted PROVE GtSafe'
<1>0. GtShape /\ (\A o \in GiftOrder : Chase(o)) /\ UNCHANGED <<stamp, giftLedger, chased, cutShort>>
  BY DEF GtSafe, SearchGifts, HydrateGifts, CycleAborted, gtHistory
<1>1. CASE SearchGifts
  <2>1. Batch \subseteq Eligible /\ Eligible \subseteq GiftOrder /\ \A o \in Eligible : giftLedger[o] \notin Terminal
    BY DEF Batch, Eligible, Leading, Found2, Page
  <2> DEFINE b == Batch
             l == Eligible \ Batch
  <2>2. cycle' = [NoCycle EXCEPT !.pc = "fetch", !.batch = b, !.left = l, !.miss = giftFile.miss]
    BY <1>1 DEF SearchGifts
  <2>3. b \subseteq GiftOrder /\ \A o \in b : giftLedger[o] \notin Terminal
    BY <2>1
  <2> HIDE DEF b, l
  <2>4. /\ Cycle(cycle') /\ cycle'.pc = "fetch" /\ cycle'.batch = b /\ cycle'.now = {}
        /\ cycle'.lapsed = {}
    BY <2>2 DEF NoCycle, Cycle
  <2>5. cycle.now = {} /\ cycle.lapsed = {}
    BY <1>0, <1>1 DEF GtShape, SearchGifts
  <2>6. GtShape'
    BY <1>0, <2>3, <2>4 DEF GtShape
  <2>7. \A o \in GiftOrder : Chase(o)'
    BY <1>0, <2>3, <2>4, <2>5 DEF Chase
  <2> QED  BY <2>6, <2>7 DEF GtSafe
<1>2. CASE HydrateGifts
  <2>1. PICK payload : cycle' = [cycle EXCEPT !.pc = "patch", !.payload = payload]
    BY <1>2 DEF HydrateGifts
  <2>2. cycle.pc = "fetch" /\ cycle.now = {} /\ cycle.lapsed = {} /\ Cycle(cycle)
    BY <1>0, <1>2 DEF GtShape, HydrateGifts
  <2>3. /\ Cycle(cycle') /\ cycle'.pc = "patch" /\ cycle'.batch = cycle.batch /\ cycle'.now = {}
        /\ cycle'.lapsed = {}
    BY <2>1, <2>2 DEF Cycle
  <2>4. GtShape'
    BY <1>0, <2>3 DEF GtShape
  <2>5. \A o \in GiftOrder : Chase(o)'
    BY <1>0, <2>2, <2>3 DEF Chase
  <2> QED  BY <2>4, <2>5 DEF GtSafe
<1>3. CASE CycleAborted
  <2>1. /\ cycle' = NoCycle /\ cycle.now = {} /\ cycle.lapsed = {}
    BY <1>0, <1>3 DEF GtShape, CycleAborted
  <2>2. /\ Cycle(NoCycle) /\ NoCycle.pc = "idle" /\ NoCycle.batch = {} /\ NoCycle.now = {}
        /\ NoCycle.lapsed = {}
    BY DEF NoCycle, Cycle
  <2>3. GtShape'
    BY <1>0, <2>1, <2>2 DEF GtShape
  <2>4. \A o \in GiftOrder : Chase(o)'
    BY <1>0, <2>1, <2>2 DEF Chase
  <2> QED  BY <2>3, <2>4 DEF GtSafe
<1> QED  BY <1>1, <1>2, <1>3

(* An order of the batch is patched, or its patch fails. *)
LEMMA PatchStep == ASSUME GtSafe, PatchGift PROVE GtSafe'
<1>0. /\ GtShape /\ (\A o \in GiftOrder : Chase(o)) /\ UNCHANGED <<giftLedger, chased, cutShort>>
      /\ cycle.pc = "patch" /\ cycle.now = {}
  BY DEF GtSafe, PatchGift, gtHistory
<1>1. PICK o \in cycle.batch :
         \/ /\ stamp' = [stamp EXCEPT ![o] = PatchFor(o)]
            /\ cycle' = [cycle EXCEPT !.batch = @ \ {o}, !.now = {o}, !.miss[o] = Misses(o)]
         \/ /\ cycle' = [cycle EXCEPT !.batch = @ \ {o}, !.checked = @ \cup {o},
                                      !.miss[o] = Misses(o)]
            /\ UNCHANGED stamp
  BY DEF PatchGift
<1> DEFINE miss == [cycle.miss EXCEPT ![o] = Misses(o)]
<1>2. o \in GiftOrder /\ Cycle(cycle)
  BY <1>0 DEF GtShape
<1>3. CASE /\ stamp' = [stamp EXCEPT ![o] = PatchFor(o)]
           /\ cycle' = [cycle EXCEPT !.batch = @ \ {o}, !.now = {o}, !.miss[o] = Misses(o)]
  <2>1. cycle' = [cycle EXCEPT !.batch = cycle.batch \ {o}, !.now = {o}, !.miss = miss]
    BY <1>3
  <2> HIDE DEF miss
  <2>2. cycle' = [pc |-> "patch", batch |-> cycle.batch \ {o}, now |-> {o}, left |-> cycle.left,
                  checked |-> cycle.checked, payload |-> cycle.payload, miss |-> miss,
                  lapsed |-> cycle.lapsed]
    BY <1>0, <1>2, <2>1 DEF Cycle
  <2>3. /\ PatchFor(o) \in Stamp
        /\ PatchFor(o).state = "expired" => cycle.payload[o] = "lapsed" \/ stamp[o].state = "expired"
    <3>1. stamp[o] \in Stamp
      BY <1>0, <1>2 DEF GtShape
    <3>2. CASE cycle.payload[o] = "confirmed"
      BY <3>2 DEF PatchFor, Confirmed, ConfirmPatch, Stamp
    <3>3. CASE cycle.payload[o] = "lapsed"
      BY <3>3 DEF PatchFor, Confirmed, Stamp
    <3>4. CASE cycle.payload[o] = "waiting"
      <4>1. PatchFor(o) = [stamp[o] EXCEPT !.incomplete = TRUE]
        BY <3>4 DEF PatchFor, Confirmed
      <4> QED  BY <3>1, <4>1 DEF Stamp
    <3>5. CASE cycle.payload[o] \notin {"confirmed", "lapsed", "waiting"}
      <4>1. PatchFor(o) = stamp[o]
        BY <3>5 DEF PatchFor, Confirmed
      <4> QED  BY <3>1, <4>1
    <3> QED  BY <3>2, <3>3, <3>4, <3>5
  <2>4. /\ stamp' \in [GiftOrder -> Stamp] /\ stamp'[o] = PatchFor(o)
        /\ \A p \in GiftOrder \ {o} : stamp'[p] = stamp[p]
    BY <1>0, <1>2, <1>3, <2>3 DEF GtShape
  <2>5. GtShape'
    BY <1>0, <1>2, <2>2, <2>4 DEF GtShape, Cycle
  <2>6. ASSUME NEW p \in GiftOrder PROVE Chase(p)'
    BY <1>0, <1>2, <2>2, <2>3, <2>4 DEF Chase
  <2> QED  BY <2>5, <2>6 DEF GtSafe
<1>4. CASE /\ cycle' = [cycle EXCEPT !.batch = @ \ {o}, !.checked = @ \cup {o},
                                     !.miss[o] = Misses(o)]
           /\ UNCHANGED stamp
  <2>1. cycle' = [cycle EXCEPT !.batch = cycle.batch \ {o}, !.checked = cycle.checked \cup {o},
                               !.miss = miss]
    BY <1>4
  <2> HIDE DEF miss
  <2>2. cycle' = [pc |-> "patch", batch |-> cycle.batch \ {o}, now |-> cycle.now, left |-> cycle.left,
                  checked |-> cycle.checked \cup {o}, payload |-> cycle.payload, miss |-> miss,
                  lapsed |-> cycle.lapsed]
    BY <1>0, <1>2, <2>1 DEF Cycle
  <2>3. GtShape'
    BY <1>0, <1>2, <1>4, <2>2 DEF GtShape, Cycle
  <2>4. ASSUME NEW p \in GiftOrder PROVE Chase(p)'
    BY <1>0, <1>2, <1>4, <2>2 DEF Chase
  <2> QED  BY <2>3, <2>4 DEF GtSafe
<1> QED  BY <1>1, <1>3, <1>4

(* The patched order gets its ledger row. *)
LEMMA RecordGiftStep == ASSUME GtSafe, RecordGift PROVE GtSafe'
<1>0. /\ GtShape /\ (\A o \in GiftOrder : Chase(o)) /\ UNCHANGED <<stamp, chased, cutShort>>
      /\ cycle.pc = "patch"
  BY DEF GtSafe, RecordGift, gtHistory
<1>1. PICK o \in cycle.now :
         /\ giftLedger' = [giftLedger EXCEPT ![o] = OutcomeFor(o)]
         /\ cycle' = [cycle EXCEPT !.now = {}, !.checked = @ \cup {o},
                                   !.lapsed = IF NewlyExpired(o) THEN @ \cup {o} ELSE @]
  BY DEF RecordGift
<1>2. o \in GiftOrder /\ Cycle(cycle) /\ giftLedger[o] \in {"none"} \cup Terminal /\ giftLedger[o] \notin Terminal
      /\ chased[o] = 0
  BY <1>0, <1>1 DEF GtShape, Chase
<1> DEFINE lapsed == IF NewlyExpired(o) THEN cycle.lapsed \cup {o} ELSE cycle.lapsed
<1>3. cycle' = [pc |-> "patch", batch |-> cycle.batch, now |-> {}, left |-> cycle.left,
                checked |-> cycle.checked \cup {o}, payload |-> cycle.payload, miss |-> cycle.miss,
                lapsed |-> lapsed]
  <2>1. cycle' = [cycle EXCEPT !.now = {}, !.checked = cycle.checked \cup {o}, !.lapsed = lapsed]
    BY <1>1
  <2> HIDE DEF lapsed
  <2> QED  BY <1>0, <1>2, <2>1 DEF Cycle
<1>4. /\ OutcomeFor(o) \in {"none"} \cup Terminal
      /\ cycle.payload[o] = "lapsed" => OutcomeFor(o) = "expired"
  BY <1>2 DEF OutcomeFor, Confirmed, NotGift, Terminal
<1>5. /\ giftLedger' \in [GiftOrder -> {"none"} \cup Terminal] /\ giftLedger'[o] = OutcomeFor(o)
      /\ \A p \in GiftOrder \ {o} : giftLedger'[p] = giftLedger[p]
  BY <1>0, <1>1, <1>2, <1>4 DEF GtShape
<1>6. /\ cycle.lapsed \subseteq lapsed /\ lapsed \subseteq cycle.lapsed \cup {o}
      /\ o \in lapsed <=> OutcomeFor(o) = "expired"
  BY <1>0, <1>2 DEF NewlyExpired, Terminal, Chase
<1> HIDE DEF lapsed
<1>7. GtShape'
  BY <1>0, <1>2, <1>3, <1>5, <1>6 DEF GtShape, Cycle
<1>8. Chase(o)'
  <2>1. o \notin cycle.batch
    BY <1>0, <1>1 DEF GtShape
  <2>2. cycle'.pc = "patch" /\ cycle'.batch = cycle.batch /\ cycle'.now = {} /\ cycle'.lapsed = lapsed
    BY <1>3
  <2>3. stamp[o].state = "expired" => o \in cutShort \cup lapsed
    BY <1>0, <1>2, <1>4, <1>6 DEF Chase
  <2> QED  BY <1>0, <1>2, <1>5, <1>6, <2>1, <2>2, <2>3, Zenon DEF Chase
<1>9. ASSUME NEW p \in GiftOrder \ {o} PROVE Chase(p)'
  <2>1. p \notin cycle.now
    BY <1>0, <1>1, <1>9 DEF GtShape
  <2> QED  BY <1>0, <1>3, <1>5, <1>6, <1>9, <2>1 DEF Chase
<1> QED  BY <1>7, <1>8, <1>9 DEF GtSafe

(* The cycle alerts, saves, or is killed. *)
LEMMA CycleEnds == ASSUME GtSafe, ChaseGifts \/ SaveGifts \/ KillCycle PROVE GtSafe'
<1>0. GtShape /\ (\A o \in GiftOrder : Chase(o)) /\ UNCHANGED <<stamp, giftLedger>> /\ Cycle(cycle)
  BY DEF GtSafe, GtShape, ChaseGifts, SaveGifts, KillCycle
<1>1. /\ Cycle(NoCycle) /\ NoCycle.pc = "idle" /\ NoCycle.batch = {} /\ NoCycle.now = {}
      /\ NoCycle.lapsed = {}
  BY DEF NoCycle, Cycle
<1>2. CASE ChaseGifts
  <2>1. /\ cycle' = [cycle EXCEPT !.pc = "save"] /\ UNCHANGED cutShort
        /\ cycle.pc = "patch" /\ cycle.batch = {} /\ cycle.now = {}
        /\ chased' = [o \in GiftOrder |-> chased[o] + IF o \in cycle.lapsed THEN 1 ELSE 0]
    BY <1>2 DEF ChaseGifts
  <2>2. /\ Cycle(cycle') /\ cycle'.pc = "save" /\ cycle'.batch = {} /\ cycle'.now = {}
        /\ cycle'.lapsed = cycle.lapsed
    BY <1>0, <2>1 DEF Cycle
  <2>3. ASSUME NEW o \in GiftOrder
        PROVE  IF o \in cycle.lapsed THEN chased[o] = 0 /\ chased'[o] = 1 /\ giftLedger[o] = "expired"
               ELSE chased'[o] = chased[o]
    BY <1>0, <2>1 DEF Chase, GtShape
  <2>4. chased' \in [GiftOrder -> {0, 1}]
    <3>1. \A o \in GiftOrder : chased'[o] \in {0, 1}
      BY <1>0, <2>3 DEF GtShape
    <3> QED  BY <2>1, <3>1
  <2>5. GtShape'
    BY <1>0, <2>2, <2>4 DEF GtShape
  <2>6. ASSUME NEW o \in GiftOrder PROVE Chase(o)'
    BY <1>0, <2>1, <2>2, <2>3 DEF Chase, Terminal
  <2> QED  BY <2>5, <2>6 DEF GtSafe
<1>3. CASE SaveGifts
  <2>1. cycle' = NoCycle /\ UNCHANGED <<chased, cutShort>> /\ cycle.pc = "save" /\ cycle.now = {}
    BY <1>0, <1>3 DEF SaveGifts, GtShape
  <2>2. GtShape'
    BY <1>0, <1>1, <2>1 DEF GtShape
  <2>3. ASSUME NEW o \in GiftOrder PROVE Chase(o)'
    BY <1>0, <1>1, <2>1 DEF Chase
  <2> QED  BY <2>2, <2>3 DEF GtSafe
<1>4. CASE KillCycle
  <2>1. cycle' = NoCycle /\ UNCHANGED chased /\ cutShort' = cutShort \cup cycle.lapsed \cup cycle.now
    BY <1>4 DEF KillCycle
  <2>2. GtShape'
    BY <1>0, <1>1, <2>1 DEF GtShape
  <2>3. ASSUME NEW o \in GiftOrder PROVE Chase(o)'
    BY <1>0, <1>1, <2>1 DEF Chase
  <2> QED  BY <2>2, <2>3 DEF GtSafe
<1> QED  BY <1>2, <1>3, <1>4

(* A step of the cycle keeps the chase. *)
LEMMA GtStep == GtSafe /\ [GtNext]_gtVars => GtSafe'
<1> SUFFICES ASSUME GtSafe, [GtNext]_gtVars PROVE GtSafe'
  OBVIOUS
<1>1. CASE UNCHANGED <<stamp, giftLedger, cycle, chased, cutShort>>
  BY <1>1 DEF GtSafe, GtShape, Chase
<1>2. CASE SallaMoves \/ IndexCatches \/ UNCHANGED gtVars
  BY <1>1, <1>2 DEF SallaMoves, IndexCatches, gtVars, gtHistory
<1> QED  BY <1>2, CycleBegins, PatchStep, RecordGiftStep, CycleEnds DEF GtNext

(* An expired gift order is chased once, and never left out unless a kill fell
   in its cycle: for any batch, search limit and number of faults. *)
THEOREM ChasedOnceHolds == GtInit /\ [][GtNext]_gtVars => []ChasedOnce
<1>1. GtSafe => ChasedOnce
  <2> SUFFICES ASSUME GtSafe, NEW o \in GiftOrder
               PROVE  /\ chased[o] <= 1
                      /\ cycle.pc = "idle" /\ stamp[o].state = "expired" => chased[o] = 1 \/ o \in cutShort
    BY DEF ChasedOnce
  <2> QED  BY DEF GtSafe, GtShape, Chase
<1> QED  BY <1>1, GtStep, GtInitSafe, PTL
-----------------------------------------------------------------------------
(***************************************************************************)
(* The turns of the recheck rotation.                                      *)
(***************************************************************************)
(* The orders that do not come before an order o any more: settled, or looked
   at later than o. *)
Behind(o) ==
    {p \in GiftOrder \ {o} : giftLedger[p] \in Terminal \/ giftFile.checked[p] > giftFile.checked[o]}

(* What the running cycle took up. *)
Taken == cycle.batch \cup cycle.now \cup cycle.checked

(* Each cycle that leaves an order puts a whole batch behind it. *)
Turn(o) ==
    /\ waited[o] * GiftBatch <= Cardinality(Behind(o))
    /\ o \in cycle.left =>
          /\ giftLedger[o] \notin Terminal /\ o \notin Taken
          /\ waited[o] * GiftBatch + GiftBatch <= Cardinality(Behind(o) \cup Taken)
Times == [GiftOrder -> 0..Cardinality(GiftOrder)]

(* What every step of a cycle keeps of the turns. *)
TurnSafe ==
    /\ GtSafe
    /\ giftFile.checked \in Times /\ waited \in [GiftOrder -> Nat]
    /\ cycle.left \subseteq GiftOrder /\ cycle.checked \subseteq GiftOrder
    /\ \A o \in GiftOrder : Turn(o)

(* There are finitely many orders, and so sets of orders can be counted. *)
LEMMA Orders ==
  /\ IsFiniteSet(GiftOrder) /\ Cardinality(GiftOrder) \in Nat
  /\ \A S \in SUBSET GiftOrder : /\ IsFiniteSet(S) /\ Cardinality(S) \in Nat
                                 /\ Cardinality(S) <= Cardinality(GiftOrder)
  /\ \A o \in GiftOrder : Place(o) \in Nat
  /\ GiftBatch \in Nat
<1>1. Len(GiftOrders) \in Nat /\ GiftOrders \in Seq(GiftOrder) /\ GiftBatch \in Nat
  BY GiftAssumption
<1>2. IsFiniteSet(1..Len(GiftOrders))
  BY <1>1, FS_Interval
<1>3. GiftOrders \in [1..Len(GiftOrders) -> GiftOrder]
  BY <1>1
<1>4. GiftOrders \in Surjection(1..Len(GiftOrders), GiftOrder)
  BY <1>3 DEF Surjection, GiftOrder
<1>5. IsFiniteSet(GiftOrder)
  BY <1>2, <1>4, FS_Surjection
<1>6. \A o \in GiftOrder : Place(o) \in 1..Len(GiftOrders)
  BY DEF GiftOrder, Place
<1> QED  BY <1>1, <1>5, <1>6, FS_Subset, FS_CardinalityType

(* The numbers that stand for the times of the checks keep their order. *)
LEMMA DenseOrder ==
  ASSUME NEW t \in [GiftOrder -> Nat]
  PROVE  /\ Dense(t) \in Times
         /\ \A o, p \in GiftOrder : t[o] < t[p] => Dense(t)[o] < Dense(t)[p]
<1> DEFINE I(o) == {t[p] : p \in {q \in GiftOrder : t[q] <= t[o]}}
           V(o) == I(o) \ {0}
<1>1. ASSUME NEW o \in GiftOrder
      PROVE  /\ IsFiniteSet(V(o)) /\ Cardinality(V(o)) \in 0..Cardinality(GiftOrder)
  <2> DEFINE S == {q \in GiftOrder : t[q] <= t[o]}
             f == [q \in S |-> t[q]]
  <2>1. S \in SUBSET GiftOrder
    OBVIOUS
  <2>2. f \in Surjection(S, I(o))
    BY DEF Surjection
  <2>3. IsFiniteSet(S) /\ Cardinality(S) \in Nat /\ Cardinality(S) <= Cardinality(GiftOrder)
    BY <2>1, Orders
  <2> HIDE DEF S, f
  <2>4. IsFiniteSet(I(o)) /\ Cardinality(I(o)) <= Cardinality(S)
    BY <2>2, <2>3, FS_Surjection
  <2>5. V(o) \in SUBSET I(o)
    OBVIOUS
  <2> HIDE DEF I
  <2>6. IsFiniteSet(V(o)) /\ Cardinality(V(o)) <= Cardinality(I(o))
    BY <2>4, <2>5, FS_Subset
  <2>7. Cardinality(V(o)) \in Nat /\ Cardinality(I(o)) \in Nat /\ Cardinality(GiftOrder) \in Nat
    BY <2>4, <2>6, FS_CardinalityType, Orders
  <2> QED  BY <2>3, <2>4, <2>6, <2>7
<1>2. Dense(t) = [o \in GiftOrder |-> Cardinality(V(o))]
  BY DEF Dense
<1>3. Dense(t) \in Times
  <2> HIDE DEF V
  <2> QED  BY <1>1, <1>2 DEF Times
<1>4. ASSUME NEW o \in GiftOrder, NEW p \in GiftOrder, t[o] < t[p]
      PROVE  Dense(t)[o] < Dense(t)[p]
  <2>1. V(o) \in SUBSET V(p) /\ t[p] \in V(p) /\ t[p] \notin V(o)
    BY <1>4
  <2>2. V(o) # V(p)
    BY <2>1
  <2> HIDE DEF V
  <2>3. Cardinality(V(o)) <= Cardinality(V(p)) /\ Cardinality(V(o)) # Cardinality(V(p))
    BY <1>1, <2>1, <2>2, FS_Subset
  <2> QED  BY <1>1, <1>2, <2>3, Orders
<1> QED  BY <1>3, <1>4

(* The rotation is an order. *)
LEMMA Rotation ==
  ASSUME giftFile.checked \in Times
  PROVE  /\ \A o \in GiftOrder : ~Sooner(o, o)
         /\ \A o, p \in GiftOrder : Sooner(o, p) => giftFile.checked[o] <= giftFile.checked[p]
         /\ \A o, p, q \in GiftOrder : Sooner(o, p) /\ Sooner(p, q) => Sooner(o, q)
<1> DEFINE P == Page(TRUE)
           c == giftFile.checked
<1>1. \A o \in GiftOrder : c[o] \in Nat /\ Place(o) \in Nat
  BY Orders DEF Times
<1>2. \A o, p \in GiftOrder :
         Sooner(o, p) <=> \/ c[o] < c[p]
                          \/ c[o] = c[p] /\ (o \in P <=> p \in P) /\ Place(o) < Place(p)
                          \/ c[o] = c[p] /\ o \in P /\ p \notin P
  <2> HIDE DEF P
  <2> SUFFICES ASSUME NEW o \in GiftOrder, NEW p \in GiftOrder
               PROVE  Sooner(o, p) <=> \/ c[o] < c[p]
                                       \/ c[o] = c[p] /\ (o \in P <=> p \in P) /\ Place(o) < Place(p)
                                       \/ c[o] = c[p] /\ o \in P /\ p \notin P
    OBVIOUS
  <2>1. CASE o \in P <=> p \in P
    <3>1. (o \in P) = (p \in P)
      BY <2>1
    <3> QED  BY <2>1, <3>1, Zenon DEF Sooner, Older, P
  <2>2. CASE ~(o \in P <=> p \in P)
    <3>1. ((o \in P) = (p \in P)) = FALSE
      BY <2>2
    <3> QED  BY <2>2, <3>1, Zenon DEF Sooner, Older, P
  <2> QED  BY <2>1, <2>2
<1> HIDE DEF P, c
<1>3. \A o \in GiftOrder : ~Sooner(o, o)
  BY <1>1, <1>2
<1>4. \A o, p \in GiftOrder : Sooner(o, p) => c[o] <= c[p]
  BY <1>1, <1>2
<1>5. \A o, p, q \in GiftOrder : Sooner(o, p) /\ Sooner(p, q) => Sooner(o, q)
  BY <1>1, <1>2
<1> QED  BY <1>3, <1>4, <1>5 DEF c

(* An order that is left has a whole batch before it. *)
LEMMA BatchBefore ==
  ASSUME giftFile.checked \in Times, NEW o \in Eligible, o \notin Batch
  PROVE  GiftBatch <= Cardinality({p \in Batch : Sooner(p, o)})
<1> DEFINE E == Eligible
           Pre(q) == {p \in E : Sooner(p, q)}
           A == {p \in Batch : Sooner(p, o)}
           S == Pre(o) \ Batch
<1>1. E \subseteq GiftOrder /\ Batch \subseteq E /\ \A q \in E : q \in Batch <=> Cardinality(Pre(q)) < GiftBatch
  BY DEF Eligible, Found2, Page, Batch, Leading
<1>2. /\ \A q : IsFiniteSet(Pre(q)) /\ Cardinality(Pre(q)) \in Nat
      /\ IsFiniteSet(A) /\ Cardinality(A) \in Nat /\ GiftBatch \in Nat
  <2>1. A \in SUBSET GiftOrder /\ \A q : Pre(q) \in SUBSET GiftOrder
    BY <1>1
  <2> HIDE DEF A, Pre
  <2> QED  BY <2>1, Orders
<1>3. SUFFICES ASSUME Cardinality(A) < GiftBatch PROVE FALSE
  BY <1>2
<1>4. CASE S = {}
  <2>1. Pre(o) = A
    BY <1>1, <1>4
  <2> QED  BY <1>1, <1>3, <2>1
<1>5. CASE S # {}
  <2> DEFINE T == {Cardinality(Pre(q)) : q \in S}
  <2>1. T \subseteq Nat /\ T # {}
    <3> HIDE DEF Pre
    <3> QED  BY <1>2, <1>5
  <2>2. PICK n \in T : \A m \in T : <<m, n>> \notin OpToRel(<, Nat)
    <3> HIDE DEF T
    <3> QED  BY <2>1, NatLessThanWellFounded, WFMin
  <2>3. PICK q \in S : n = Cardinality(Pre(q))
    BY <2>2
  <2>4. ASSUME NEW p \in Pre(q) PROVE p \in A
    <3>1. p \in E /\ q \in E /\ p \in GiftOrder /\ q \in GiftOrder /\ o \in GiftOrder
          /\ Sooner(p, q) /\ Sooner(q, o) /\ Sooner(p, o)
      BY <1>1, <2>3, <2>4, Rotation
    <3>2. Pre(p) \in SUBSET Pre(q) /\ p \notin Pre(p)
      BY <1>1, <3>1, Rotation
    <3>3. Pre(p) # Pre(q)
      BY <2>4, <3>2
    <3>4. Cardinality(Pre(p)) < Cardinality(Pre(q))
      <4> HIDE DEF Pre
      <4>1. Cardinality(Pre(p)) <= Cardinality(Pre(q)) /\ Cardinality(Pre(p)) # Cardinality(Pre(q))
        BY <1>2, <3>2, <3>3, FS_Subset
      <4> QED  BY <1>2, <4>1
    <3>5. p \notin S
      <4>1. SUFFICES ASSUME p \in S PROVE FALSE
        OBVIOUS
      <4>2. Cardinality(Pre(p)) \in T /\ Cardinality(Pre(p)) \in Nat /\ n \in Nat
        BY <1>2, <2>3, <4>1
      <4> QED  BY <2>2, <2>3, <3>4, <4>2 DEF OpToRel
    <3> QED  BY <3>1, <3>5
  <2>5. Cardinality(Pre(q)) <= Cardinality(A)
    <3>1. Pre(q) \in SUBSET A
      BY <2>4
    <3> HIDE DEF A, Pre
    <3> QED  BY <1>2, <3>1, FS_Subset
  <2>6. q \in E /\ q \notin Batch
    BY <2>3
  <2>7. Cardinality(Pre(q)) < GiftBatch
    <3> HIDE DEF A, Pre
    <3> QED  BY <1>2, <1>3, <2>5
  <2> QED  BY <1>1, <2>6, <2>7
<1> QED  BY <1>4, <1>5

(* The orders behind an order, and with them those taken up, can be counted. *)
LEMMA BehindSets ==
  ASSUME NEW o \in GiftOrder, cycle.batch \subseteq GiftOrder, cycle.now \subseteq GiftOrder,
         cycle.checked \subseteq GiftOrder
  PROVE  /\ Behind(o) \in SUBSET GiftOrder /\ Behind(o) \cup Taken \in SUBSET GiftOrder
         /\ IsFiniteSet(Behind(o)) /\ Cardinality(Behind(o)) \in Nat
         /\ IsFiniteSet(Behind(o) \cup Taken) /\ Cardinality(Behind(o) \cup Taken) \in Nat
<1>1. Behind(o) \in SUBSET GiftOrder /\ Behind(o) \cup Taken \in SUBSET GiftOrder
  BY DEF Behind, Taken
<1> QED  BY <1>1, Orders

(* No order has waited at first. *)
LEMMA GtInitTurn == GtInit => TurnSafe
<1> SUFFICES ASSUME GtInit PROVE TurnSafe
  OBVIOUS
<1>1. /\ cycle.left = {} /\ cycle.batch = {} /\ cycle.now = {} /\ cycle.checked = {}
      /\ giftFile.checked = [o \in GiftOrder |-> 0] /\ waited = [o \in GiftOrder |-> 0]
  BY DEF GtInit, NoCycle
<1>2. giftFile.checked \in Times /\ waited \in [GiftOrder -> Nat]
  BY <1>1, Orders DEF Times
<1>3. ASSUME NEW o \in GiftOrder PROVE Turn(o)
  <2>1. Cardinality(Behind(o)) \in Nat
    BY <1>1, BehindSets
  <2>2. waited[o] = 0 /\ waited[o] * GiftBatch = 0
    BY <1>1, Orders
  <2> QED  BY <1>1, <2>1, <2>2 DEF Turn
<1> QED  BY <1>1, <1>2, <1>3, GtInitSafe DEF TurnSafe

(* A step within a cycle: nothing is forgotten of what the cycle took up, and
   no settled order becomes unsettled. *)
LEMMA WithinCycle ==
  ASSUME TurnSafe, GtSafe', UNCHANGED <<giftFile, waited>>,
         \A p \in GiftOrder : giftLedger[p] \in Terminal => giftLedger'[p] \in Terminal,
         cycle'.checked \subseteq GiftOrder,
         \/ cycle'.left = {}
         \/ /\ cycle'.left = cycle.left
            /\ cycle'.batch \cup cycle'.now \cup cycle'.checked = Taken
            /\ \A p \in cycle.left : giftLedger'[p] = giftLedger[p]
  PROVE  TurnSafe'
<1>1. cycle'.left \subseteq GiftOrder /\ giftFile'.checked \in Times /\ waited' \in [GiftOrder -> Nat]
  BY DEF TurnSafe
<1>2. ASSUME NEW o \in GiftOrder PROVE Turn(o)'
  <2>1. /\ cycle.batch \subseteq GiftOrder /\ cycle.now \subseteq GiftOrder /\ cycle.checked \subseteq GiftOrder
        /\ cycle'.batch \subseteq GiftOrder /\ cycle'.now \subseteq GiftOrder
    BY DEF TurnSafe, GtSafe, GtShape
  <2>2. Turn(o)
    BY DEF TurnSafe
  <2>3. Behind(o) \in SUBSET Behind(o)'
    BY DEF Behind
  <2>4. /\ IsFiniteSet(Behind(o)) /\ Cardinality(Behind(o)) \in Nat
        /\ IsFiniteSet(Behind(o) \cup Taken) /\ Cardinality(Behind(o) \cup Taken) \in Nat
    BY <2>1, BehindSets
  <2>5. /\ Behind(o)' \in SUBSET GiftOrder /\ (Behind(o) \cup Taken)' \in SUBSET GiftOrder
    BY <2>1 DEF Behind, Taken
  <2>6. /\ IsFiniteSet(Behind(o)') /\ Cardinality(Behind(o)') \in Nat
        /\ IsFiniteSet((Behind(o) \cup Taken)') /\ Cardinality((Behind(o) \cup Taken)') \in Nat
    BY <2>5, Orders
  <2>7. Cardinality(Behind(o)) <= Cardinality(Behind(o)')
    BY <2>3, <2>6, FS_Subset
  <2>8. waited[o] \in Nat /\ waited[o] * GiftBatch \in Nat /\ GiftBatch \in Nat
    BY Orders DEF TurnSafe
  <2>9. waited'[o] * GiftBatch <= Cardinality(Behind(o)')
    <3>1. waited[o] * GiftBatch <= Cardinality(Behind(o))
      BY <2>2 DEF Turn
    <3> QED  BY <2>4, <2>6, <2>7, <2>8, <3>1
  <2>10. ASSUME o \in cycle'.left
         PROVE  /\ giftLedger'[o] \notin Terminal /\ o \notin Taken'
                /\ waited'[o] * GiftBatch + GiftBatch <= Cardinality((Behind(o) \cup Taken)')
    <3>1. /\ o \in cycle.left /\ Taken' = Taken /\ giftLedger'[o] = giftLedger[o]
      BY <2>10 DEF Taken
    <3>2. Behind(o) \cup Taken \in SUBSET (Behind(o) \cup Taken)'
      BY <2>3, <3>1
    <3>3. Cardinality(Behind(o) \cup Taken) <= Cardinality((Behind(o) \cup Taken)')
      BY <2>6, <3>2, FS_Subset
    <3>4. /\ giftLedger[o] \notin Terminal /\ o \notin Taken
          /\ waited[o] * GiftBatch + GiftBatch <= Cardinality(Behind(o) \cup Taken)
      BY <2>2, <3>1 DEF Turn
    <3> QED  BY <2>4, <2>6, <2>8, <3>1, <3>3, <3>4
  <2> QED  BY <2>9, <2>10 DEF Turn
<1> QED  BY <1>1, <1>2 DEF TurnSafe

(* A search puts the batch of its cycle before the orders it leaves. *)
LEMMA SearchTurn == ASSUME TurnSafe, GtSafe', SearchGifts PROVE TurnSafe'
<1>1. /\ UNCHANGED <<giftFile, waited, giftLedger>> /\ giftFile.checked \in Times
      /\ waited \in [GiftOrder -> Nat]
  BY DEF SearchGifts, gtHistory, TurnSafe
<1>2. Batch \subseteq Eligible /\ Eligible \subseteq GiftOrder /\ \A o \in Eligible : giftLedger[o] \notin Terminal
  BY DEF Batch, Eligible, Leading, Found2, Page
<1>3. /\ cycle'.batch = Batch /\ cycle'.now = {} /\ cycle'.checked = {}
      /\ cycle'.left = Eligible \ Batch
  <2> DEFINE b == Batch
             l == Eligible \ Batch
  <2>1. cycle' = [NoCycle EXCEPT !.pc = "fetch", !.batch = b, !.left = l, !.miss = giftFile.miss]
    BY DEF SearchGifts
  <2> HIDE DEF b, l
  <2>2. cycle'.batch = b /\ cycle'.now = {} /\ cycle'.checked = {} /\ cycle'.left = l
    BY <2>1 DEF NoCycle
  <2> QED  BY <2>2 DEF b, l
<1>4. ASSUME NEW o \in GiftOrder PROVE Turn(o)'
  <2>1. Turn(o)
    BY DEF TurnSafe
  <2>2. Behind(o)' = Behind(o) /\ waited'[o] = waited[o] /\ Taken' = Batch
    BY <1>1, <1>3 DEF Behind, Taken
  <2>3. ASSUME o \in cycle'.left
        PROVE  /\ giftLedger'[o] \notin Terminal /\ o \notin Taken'
               /\ waited[o] * GiftBatch + GiftBatch <= Cardinality(Behind(o) \cup Batch)
    <3>1. o \in Eligible /\ o \notin Batch
      BY <1>3, <2>3
    <3> DEFINE A == {p \in Batch : Sooner(p, o)}
    <3>2. GiftBatch <= Cardinality(A)
      BY <1>1, <3>1, BatchBefore
    <3>3. Behind(o) \cap A = {}
      <4>1. \A p \in A : /\ p \in Eligible /\ p \in GiftOrder /\ giftFile.checked[p] <= giftFile.checked[o]
        BY <1>1, <1>2, Rotation
      <4>2. \A p \in A : giftFile.checked[p] \in Nat /\ giftFile.checked[o] \in Nat
        BY <1>1, <4>1, Orders DEF Times
      <4> HIDE DEF A
      <4> QED  BY <1>2, <4>1, <4>2 DEF Behind
    <3>4. A \in SUBSET GiftOrder /\ Behind(o) \in SUBSET GiftOrder /\ Behind(o) \cup Batch \in SUBSET GiftOrder
          /\ Behind(o) \cup A \in SUBSET (Behind(o) \cup Batch)
      BY <1>2 DEF Behind
    <3> HIDE DEF A
    <3>5. /\ IsFiniteSet(A) /\ IsFiniteSet(Behind(o)) /\ IsFiniteSet(Behind(o) \cup Batch)
          /\ Cardinality(A) \in Nat /\ Cardinality(Behind(o)) \in Nat
          /\ Cardinality(Behind(o) \cup Batch) \in Nat
      BY <3>4, Orders
    <3>6. /\ Cardinality(Behind(o) \cup A) = Cardinality(Behind(o)) + Cardinality(A) - Cardinality(Behind(o) \cap A)
          /\ Cardinality(Behind(o) \cap A) = 0
      BY <3>3, <3>5, FS_Union, FS_EmptySet
    <3>7. Cardinality(Behind(o) \cup A) <= Cardinality(Behind(o) \cup Batch)
      BY <3>4, <3>5, FS_Subset
    <3>8. waited[o] * GiftBatch <= Cardinality(Behind(o)) /\ waited[o] * GiftBatch \in Nat /\ GiftBatch \in Nat
      BY <1>1, <2>1, Orders DEF Turn
    <3>9. waited[o] * GiftBatch + GiftBatch <= Cardinality(Behind(o) \cup Batch)
      BY <3>2, <3>5, <3>6, <3>7, <3>8
    <3> QED  BY <1>1, <1>2, <2>2, <3>1, <3>9
  <2> QED  BY <2>1, <2>2, <2>3 DEF Turn
<1>5. cycle'.left \subseteq GiftOrder /\ cycle'.checked \subseteq GiftOrder
  BY <1>2, <1>3
<1> QED  BY <1>1, <1>4, <1>5 DEF TurnSafe

(* At the end of a cycle, what it took up goes behind what it left. *)
LEMMA SaveTurn == ASSUME TurnSafe, GtSafe', SaveGifts PROVE TurnSafe'
<1>1. /\ cycle.pc = "save" /\ cycle' = NoCycle /\ UNCHANGED giftLedger
      /\ giftFile'.checked = Dense([o \in GiftOrder |-> CheckedNow(o)])
      /\ waited' = [o \in GiftOrder |-> IF o \in cycle.left THEN waited[o] + 1 ELSE 0]
  BY DEF SaveGifts
<1>2. /\ cycle.batch = {} /\ cycle.now = {} /\ cycle.checked \subseteq GiftOrder
      /\ cycle.left \subseteq GiftOrder /\ giftFile.checked \in Times /\ waited \in [GiftOrder -> Nat]
  BY <1>1 DEF TurnSafe, GtSafe, GtShape
<1>3. cycle'.left = {} /\ cycle'.batch = {} /\ cycle'.now = {} /\ cycle'.checked = {}
  BY <1>1 DEF NoCycle
<1> DEFINE t == [o \in GiftOrder |-> CheckedNow(o)]
<1>4. \A o \in GiftOrder : giftFile.checked[o] \in Nat /\ giftFile.checked[o] < Latest /\ Latest \in Nat
  BY <1>2, Orders DEF Times, Latest
<1>5. t \in [GiftOrder -> Nat]
  BY <1>4 DEF CheckedNow
<1>6. /\ giftFile'.checked \in Times
      /\ \A o, p \in GiftOrder : t[o] < t[p] => giftFile'.checked[o] < giftFile'.checked[p]
  <2>1. giftFile'.checked = Dense(t)
    BY <1>1
  <2> HIDE DEF t
  <2> QED  BY <1>5, <2>1, DenseOrder
<1>7. waited' \in [GiftOrder -> Nat]
  BY <1>1, <1>2
<1>8. ASSUME NEW o \in GiftOrder PROVE Turn(o)'
  <2>1. Turn(o)
    BY DEF TurnSafe
  <2>2. Behind(o)' \in SUBSET GiftOrder
    BY DEF Behind
  <2>3. IsFiniteSet(Behind(o)') /\ Cardinality(Behind(o)') \in Nat
    BY <2>2, Orders
  <2>4. CASE o \in cycle.left
    <3>1. /\ giftLedger[o] \notin Terminal /\ o \notin cycle.checked
          /\ waited[o] * GiftBatch + GiftBatch <= Cardinality(Behind(o) \cup Taken)
      BY <2>1, <2>4 DEF Turn, Taken
    <3>2. t[o] = giftFile.checked[o]
      BY <3>1 DEF CheckedNow
    <3>3. ASSUME NEW p \in Behind(o) \cup Taken PROVE p \in Behind(o)'
      <4>1. p \in GiftOrder /\ p # o
        BY <1>2, <3>1, <3>3 DEF Behind, Taken
      <4>2. CASE giftLedger[p] \in Terminal
        BY <1>1, <4>1, <4>2 DEF Behind
      <4>3. CASE giftLedger[p] \notin Terminal
        <5>1. t[p] = IF p \in cycle.checked THEN Latest ELSE giftFile.checked[p]
          BY <4>1, <4>3 DEF CheckedNow
        <5>2. p \in cycle.checked \/ giftFile.checked[p] > giftFile.checked[o]
          BY <1>2, <3>3, <4>3 DEF Behind, Taken
        <5>3. t[o] < t[p]
          BY <1>4, <3>2, <4>1, <5>1, <5>2
        <5>4. giftFile'.checked[o] < giftFile'.checked[p]
          BY <1>6, <4>1, <5>3
        <5>5. giftFile'.checked[o] \in Nat /\ giftFile'.checked[p] \in Nat
          BY <1>6, <4>1, Orders DEF Times
        <5> QED  BY <4>1, <5>4, <5>5 DEF Behind
      <4> QED  BY <4>2, <4>3
    <3>4. Behind(o) \cup Taken \in SUBSET Behind(o)'
      BY <3>3
    <3>5. Cardinality(Behind(o) \cup Taken) <= Cardinality(Behind(o)') /\ Cardinality(Behind(o) \cup Taken) \in Nat
      BY <1>2, <2>3, <3>4, FS_Subset, BehindSets
    <3>6. waited'[o] = waited[o] + 1 /\ waited[o] \in Nat /\ GiftBatch \in Nat
      BY <1>1, <1>2, <2>4, Orders
    <3>7. waited'[o] * GiftBatch = waited[o] * GiftBatch + GiftBatch /\ waited[o] * GiftBatch \in Nat
      BY <3>6
    <3>8. waited'[o] * GiftBatch <= Cardinality(Behind(o)')
      BY <2>3, <3>1, <3>5, <3>6, <3>7
    <3> QED  BY <1>3, <3>8 DEF Turn
  <2>5. CASE o \notin cycle.left
    <3>1. waited'[o] = 0 /\ waited'[o] * GiftBatch = 0
      BY <1>1, <2>5, Orders
    <3> QED  BY <1>3, <2>3, <3>1 DEF Turn
  <2> QED  BY <2>4, <2>5
<1> QED  BY <1>3, <1>6, <1>7, <1>8 DEF TurnSafe

(* The recheck rotation starves nobody: each cycle that leaves an order puts
   GiftBatch orders behind it, and there are no more than the others to pass. *)
THEOREM TurnComesHolds == GtInit /\ [][GtNext]_gtVars => []TurnComes
<1>1. TurnSafe /\ [GtNext]_gtVars => TurnSafe'
  <2> SUFFICES ASSUME TurnSafe, [GtNext]_gtVars PROVE TurnSafe'
    OBVIOUS
  <2>1. GtSafe' /\ GtShape /\ Cycle(cycle) /\ cycle.checked \subseteq GiftOrder
    BY GtStep DEF TurnSafe, GtSafe, GtShape
  <2>2. CASE SallaMoves \/ IndexCatches \/ UNCHANGED gtVars
    <3>1. UNCHANGED <<giftFile, waited, giftLedger, cycle>>
      BY <2>2 DEF SallaMoves, IndexCatches, gtVars, gtHistory
    <3> QED  BY <2>1, <3>1, WithinCycle DEF Taken
  <2>3. CASE HydrateGifts \/ ChaseGifts
    <3>1. /\ UNCHANGED <<giftFile, waited, giftLedger>>
          /\ \/ cycle' = [cycle EXCEPT !.pc = "save"]
             \/ \E payload : cycle' = [cycle EXCEPT !.pc = "patch", !.payload = payload]
      BY <2>3 DEF HydrateGifts, ChaseGifts, gtHistory
    <3>2. /\ cycle'.left = cycle.left /\ cycle'.batch = cycle.batch /\ cycle'.now = cycle.now
          /\ cycle'.checked = cycle.checked
      BY <2>1, <3>1 DEF Cycle
    <3> QED  BY <2>1, <3>1, <3>2, WithinCycle DEF Taken
  <2>4. CASE CycleAborted \/ KillCycle
    <3>1. UNCHANGED <<giftFile, waited, giftLedger>> /\ cycle'.left = {} /\ cycle'.checked = {}
      BY <2>4 DEF CycleAborted, KillCycle, gtHistory, NoCycle
    <3> QED  BY <2>1, <3>1, WithinCycle
  <2>5. CASE PatchGift
    <3>1. UNCHANGED <<giftFile, waited, giftLedger>> /\ cycle.now = {}
      BY <2>5 DEF PatchGift, gtHistory
    <3>2. PICK o \in cycle.batch : \E m :
            \/ cycle' = [cycle EXCEPT !.batch = cycle.batch \ {o}, !.now = {o}, !.miss = m]
            \/ cycle' = [cycle EXCEPT !.batch = cycle.batch \ {o}, !.checked = cycle.checked \cup {o}, !.miss = m]
      BY <2>5 DEF PatchGift
    <3>3. /\ cycle'.left = cycle.left /\ cycle'.batch = cycle.batch \ {o}
          /\ \/ cycle'.now = {o} /\ cycle'.checked = cycle.checked
             \/ cycle'.now = cycle.now /\ cycle'.checked = cycle.checked \cup {o}
      BY <2>1, <3>2 DEF Cycle
    <3>4. o \in GiftOrder
      BY <2>1 DEF GtShape
    <3>5. cycle'.batch \cup cycle'.now \cup cycle'.checked = Taken /\ cycle'.checked \subseteq GiftOrder
      BY <2>1, <3>1, <3>3, <3>4 DEF Taken
    <3> QED  BY <2>1, <3>1, <3>3, <3>5, WithinCycle
  <2>6. CASE RecordGift
    <3>1. PICK o \in cycle.now :
             /\ giftLedger' = [giftLedger EXCEPT ![o] = OutcomeFor(o)]
             /\ \E l : cycle' = [cycle EXCEPT !.now = {}, !.checked = cycle.checked \cup {o}, !.lapsed = l]
      BY <2>6 DEF RecordGift
    <3>2. /\ cycle'.left = cycle.left /\ cycle'.batch = cycle.batch /\ cycle'.now = {}
          /\ cycle'.checked = cycle.checked \cup {o}
      BY <2>1, <3>1 DEF Cycle
    <3>3. /\ o \in GiftOrder /\ cycle.now = {o} /\ giftLedger[o] \notin Terminal /\ o \in Taken
      BY <2>1, <3>1 DEF TurnSafe, GtSafe, GtShape, Chase, Taken
    <3>4. cycle'.batch \cup cycle'.now \cup cycle'.checked = Taken /\ cycle'.checked \subseteq GiftOrder
      BY <2>1, <3>2, <3>3 DEF Taken
    <3>5. \A p \in GiftOrder : giftLedger[p] \in Terminal => giftLedger'[p] \in Terminal
      BY <2>1, <3>1, <3>3 DEF GtShape
    <3>6. \A p \in cycle.left : giftLedger'[p] = giftLedger[p]
      BY <2>1, <3>1, <3>3 DEF TurnSafe, Turn, GtShape
    <3>7. UNCHANGED <<giftFile, waited>>
      BY <2>6 DEF RecordGift, gtHistory
    <3> QED  BY <2>1, <3>2, <3>4, <3>5, <3>6, <3>7, WithinCycle
  <2> QED  BY <2>1, <2>2, <2>3, <2>4, <2>5, <2>6, SearchTurn, SaveTurn DEF GtNext
<1>2. TurnSafe => TurnComes
  <2> SUFFICES ASSUME TurnSafe, NEW o \in GiftOrder PROVE waited[o] * GiftBatch < Cardinality(GiftOrder)
    BY DEF TurnComes
  <2>1. Behind(o) \in SUBSET (GiftOrder \ {o})
    BY DEF Behind
  <2>2. IsFiniteSet(GiftOrder \ {o}) /\ Cardinality(GiftOrder \ {o}) = Cardinality(GiftOrder) - 1
    BY Orders, FS_RemoveElement
  <2>3. Cardinality(Behind(o)) <= Cardinality(GiftOrder) - 1 /\ Cardinality(Behind(o)) \in Nat
    BY <2>1, <2>2, FS_Subset, FS_CardinalityType
  <2>4. waited[o] * GiftBatch <= Cardinality(Behind(o)) /\ waited[o] * GiftBatch \in Nat
    <3>1. Turn(o) /\ waited[o] \in Nat /\ GiftBatch \in Nat
      BY Orders DEF TurnSafe
    <3> QED  BY <3>1 DEF Turn
  <2> QED  BY <2>3, <2>4, Orders
<1> QED  BY <1>1, <1>2, GtInitTurn, PTL
==============================================================================

----------------------------- MODULE Escalation -----------------------------
(***************************************************************************)
(* The day's escalation of a catalog hold: past a number of held orders    *)
(* the status relay asks the owners to act, in a red thread and one email  *)
(* (status_relay.py, _escalate_held).  It counts the rows of the live      *)
(* queue, from a copy that may be ten minutes old; the hourly settle of    *)
(* the live engine, which also sees which held orders the drain has closed *)
(* for good, answers the thread when nothing is held.  Both go through the *)
(* registry of threads (IssueRegistry), where Slack may refuse a post.     *)
(* Beside it, the daily digest of updates that wait for older orders.      *)
(* One day's key; a claim in the registry expires only when its holder is  *)
(* dead; the product threads are HeldThreads'.                             *)
(***************************************************************************)
EXTENDS Naturals

CONSTANTS
    HoldMoves,   \* bound on changes of the hold
    EsMaxFaults, \* bound on refused posts and emails, failed reads and writes, kills
    DigestFull,  \* updates that flush the digest at once (50)
    DigestDays   \* bound on days

ASSUME EscalationAssumption ==
    {HoldMoves, EsMaxFaults, DigestFull, DigestDays} \subseteq Nat

VARIABLES
    onHold,   \* the hold: none, some orders, or many, as many as escalate
    leftRows, \* many rows read "held" of orders that the drain has closed
    counted,  \* what the relay's copy of the live queue counts
    heldStamp, \* mirror/settle_held.json
    esRec,    \* the record of held-escalation:<day>
    backlog,  \* the state of held-backlog
    relay, settle,
    passedOver, \* history: a failed email was due and the relay passed it over
    holdMoves, esFaults,
    digest    \* the digest's part: see below

esVars == <<onHold, leftRows, counted, heldStamp, esRec, backlog, relay, settle, passedOver,
            holdMoves, esFaults>>
esWorld == <<onHold, leftRows, holdMoves>>

NoMail == [emailed |-> FALSE, tried |-> FALSE, waiting |-> FALSE, sent |-> 0, killed |-> 0]
EsRecord(state, mail) == [state |-> state, mail |-> mail]
RelayIdle == [pc |-> "idle", opened |-> FALSE]
SettleIdle == [pc |-> "idle", held |-> "none"]

EsInit ==
    /\ onHold = "none" /\ leftRows = FALSE /\ counted = "none"
    /\ heldStamp = [over |-> FALSE, fresh |-> FALSE]
    /\ esRec = EsRecord("none", NoMail) /\ backlog = "none"
    /\ relay = RelayIdle /\ settle = SettleIdle /\ passedOver = FALSE
    /\ holdMoves = HoldMoves /\ esFaults = EsMaxFaults

EsFault == esFaults > 0 /\ esFaults' = esFaults - 1
InState(s) == esRec' = [esRec EXCEPT !.state = s]

-----------------------------------------------------------------------------
(* Orders are held and released; the drain gives up on held ones, whose rows
   then still read "held". *)
HoldChanges ==
    /\ holdMoves > 0 /\ holdMoves' = holdMoves - 1
    /\ onHold' \in {"none", "some", "many"} \ {onHold}
    /\ leftRows' \in {leftRows, onHold = "many"}
    /\ UNCHANGED <<counted, heldStamp, esRec, backlog, relay, settle, passedOver, esFaults>>

StampAges ==
    /\ heldStamp.fresh /\ heldStamp' = [heldStamp EXCEPT !.fresh = FALSE]
    /\ UNCHANGED <<esWorld, counted, esRec, backlog, relay, settle, passedOver, esFaults>>

BackoffOver ==
    /\ esRec.mail.waiting /\ esRec' = [esRec EXCEPT !.mail.waiting = FALSE]
    /\ UNCHANGED <<esWorld, counted, heldStamp, backlog, relay, settle, passedOver, esFaults>>

-----------------------------------------------------------------------------
(* The relay.  Its copy of the live queue, _held_summary, is the queue's, or
   the last one: not yet ten minutes old, or the read failed. *)
Shown == IF leftRows THEN "many" ELSE onHold
Counts(now) == counted' = now /\ now \in {Shown, counted}
Escalates(now) == relay' = IF now = "many" THEN [RelayIdle EXCEPT !.pc = "get"] ELSE RelayIdle

Periodic ==
    /\ relay.pc = "idle"
    /\ \E now \in {Shown, counted} : Counts(now) /\ Escalates(now)
    /\ UNCHANGED <<esWorld, heldStamp, esRec, backlog, settle, passedOver, esFaults>>

(* _giveup_alert of a held order that no product's thread lists. *)
HeldGiveUp ==
    /\ relay.pc = "idle" /\ counted # "none"
    /\ \E now \in {Shown, counted} : Counts(now) /\ Escalates(now)
    /\ backlog' = "open"
    /\ UNCHANGED <<esWorld, heldStamp, esRec, settle, passedOver, esFaults>>

SettleConfirms == heldStamp.fresh /\ heldStamp.over

(* issue_get: a thread that closed today stays closed, unless it is a new hold. *)
GetsRecord ==
    /\ relay.pc = "get"
    /\ relay' = IF esRec.state \in {"closed", "resolving"} /\ ~SettleConfirms THEN RelayIdle
                ELSE [relay EXCEPT !.pc = "open"]
    /\ UNCHANGED <<esWorld, counted, heldStamp, esRec, backlog, settle, passedOver, esFaults>>

(* issue_open: claims the key, also from a relay that died with it some minutes
   ago, or joins the record that is there.  A refused one of a past episode
   starts over. *)
OpensThread ==
    /\ relay.pc = "open"
    /\ CASE esRec.state \in {"none", "closed", "resolving"} ->
              esRec' = EsRecord("opening", NoMail) /\ relay' = [relay EXCEPT !.pc = "post"]
         [] esRec.state = "opening" /\ settle.pc # "post" ->
              UNCHANGED esRec /\ \E pc \in {"post", "ask"} : relay' = [relay EXCEPT !.pc = pc]
         [] esRec.state = "failed" ->
              /\ esRec' \in {esRec, EsRecord("failed", NoMail)}
              /\ relay' = [relay EXCEPT !.pc = "ask"]
         [] OTHER -> UNCHANGED esRec /\ relay' = [relay EXCEPT !.pc = "ask"]
    /\ UNCHANGED <<esWorld, counted, heldStamp, backlog, settle, passedOver, esFaults>>

(* Slack takes the thread, or no channel does. *)
Posted == \/ InState("open") /\ UNCHANGED esFaults
          \/ InState("failed") /\ EsFault

PostsThread ==
    /\ relay.pc = "post" /\ Posted
    /\ relay' = [pc |-> "ask", opened |-> esRec'.state = "open"]
    /\ UNCHANGED <<esWorld, counted, heldStamp, backlog, settle, passedOver>>

(* mutant: only an open record takes what is merged *)
MergedOpenOnly(mail) == IF esRec.state = "open" THEN [esRec EXCEPT !.mail = mail] ELSE esRec

(* _escalation_meta, issue_update: a record that closed takes nothing. *)
Merged(mail) ==
    IF esRec.state \in {"open", "failed", "opening"} THEN [esRec EXCEPT !.mail = mail] ELSE esRec

(* The try is written down before the email is sent. *)
AsksEmail ==
    LET mail == esRec.mail
        due == ~mail.emailed /\ ~mail.waiting
        tries == (relay.opened \/ esRec.state = "failed") /\ due
    IN
    /\ relay.pc = "ask"
    /\ relay' = IF tries THEN [relay EXCEPT !.pc = "send"] ELSE RelayIdle
    /\ esRec' = IF tries THEN Merged([mail EXCEPT !.tried = TRUE, !.waiting = TRUE]) ELSE esRec
    /\ passedOver' = (passedOver \/ (due /\ mail.tried /\ ~tries /\ esRec.state = "open"))
    /\ UNCHANGED <<esWorld, counted, heldStamp, backlog, settle, esFaults>>

SendsEmail ==
    /\ relay.pc = "send"
    /\ \/ /\ esRec' = [esRec EXCEPT !.mail.sent = @ + 1]
          /\ relay' = [relay EXCEPT !.pc = "note"] /\ UNCHANGED esFaults
       \/ relay' = RelayIdle /\ EsFault /\ UNCHANGED esRec
    /\ UNCHANGED <<esWorld, counted, heldStamp, backlog, settle, passedOver>>

NotesEmail ==
    /\ relay.pc = "note" /\ relay' = RelayIdle
    /\ esRec' = Merged([esRec.mail EXCEPT !.emailed = TRUE])
    /\ UNCHANGED <<esWorld, counted, heldStamp, backlog, settle, passedOver, esFaults>>

KillRelay ==
    /\ EsFault
    /\ relay' = RelayIdle /\ counted' = "none"
    /\ esRec' = IF relay.pc = "note" THEN [esRec EXCEPT !.mail.killed = @ + 1] ELSE esRec
    /\ UNCHANGED <<esWorld, heldStamp, backlog, settle, passedOver>>

-----------------------------------------------------------------------------
(* stamp_settle_held *)
StampHeld(held) == heldStamp' = [over |-> held = "many", fresh |-> TRUE]

(* The settle.  Its count leaves out what the drain has closed, and it marks
   those rows, unless it cannot read the queue log or write the marks. *)
SettleReads ==
    /\ settle.pc = "idle"
    /\ \/ /\ settle' = [pc |-> "close", held |-> onHold] /\ StampHeld(onHold)
          /\ \/ leftRows' = FALSE /\ UNCHANGED esFaults
             \/ leftRows /\ EsFault /\ UNCHANGED leftRows
       \/ /\ EsFault /\ settle' = [pc |-> "close", held |-> Shown]
          /\ UNCHANGED <<heldStamp, leftRows>>
    /\ UNCHANGED <<onHold, holdMoves, counted, esRec, backlog, relay, passedOver>>

(* close_failed: a thread nobody saw needs no answer. *)
CloseFailed == InState("closed") /\ UNCHANGED esFaults

(* _answer_held_threads: with nothing held the threads are answered, and one
   that was never posted is closed.  Slack may refuse the answer. *)
SettleCloses ==
    /\ settle.pc = "close" /\ settle' = [settle EXCEPT !.pc = "retry"]
    /\ IF settle.held # "none" THEN UNCHANGED <<esRec, backlog, esFaults>>
       ELSE /\ backlog' = IF backlog = "open" THEN "closed" ELSE backlog
            /\ CASE esRec.state = "open" -> \/ InState("closed") /\ UNCHANGED esFaults
                                            \/ InState("resolving") /\ EsFault
                 [] esRec.state = "failed" -> CloseFailed
                 [] OTHER -> UNCHANGED <<esRec, esFaults>>
    /\ UNCHANGED <<esWorld, counted, heldStamp, relay, passedOver>>

(* retry_failed: what Slack refused, and what a killed relay left half-way. *)
Left == esRec.state = "opening" /\ relay.pc # "post"

SettleReposts ==
    /\ settle.pc = "retry"
    /\ IF esRec.state = "failed" \/ Left
       THEN settle' = [settle EXCEPT !.pc = "post"] /\ InState("opening")
       ELSE /\ settle' = SettleIdle
            /\ UNCHANGED esRec
    /\ UNCHANGED <<esWorld, counted, heldStamp, backlog, relay, passedOver, esFaults>>

(* The answer Slack refused, posted by the settle, the relay or the credit watch. *)
AnswerPosted ==
    /\ esRec.state = "resolving" /\ InState("closed")
    /\ UNCHANGED <<esWorld, counted, heldStamp, backlog, relay, settle, passedOver, esFaults>>

SettlePosts ==
    /\ settle.pc = "post" /\ Posted /\ settle' = SettleIdle
    /\ UNCHANGED <<esWorld, counted, heldStamp, backlog, relay, passedOver>>

EsNext ==
    /\ \/ HoldChanges \/ StampAges \/ BackoffOver
       \/ Periodic \/ HeldGiveUp \/ GetsRecord \/ OpensThread \/ PostsThread \/ AsksEmail
       \/ SendsEmail \/ NotesEmail \/ KillRelay
       \/ SettleReads \/ SettleCloses \/ SettleReposts \/ SettlePosts \/ AnswerPosted
    /\ UNCHANGED digest

-----------------------------------------------------------------------------
(* The digest: `tick` counts quarters of a day, the last one is the digest's
   hour; a quarter is six hours, so the cooldown of 20 hours is four of them. *)
Quarter(d) == d.tick % 4
DayOf(d) == d.tick \div 4

DigestInit == digest = [tick |-> 4, waiting |-> 0, day |-> 0, last |-> 0, swallowed |-> FALSE]

(* _alert, which says nothing while its key's cooldown lasts. *)
Cooling(d) == d.last # 0 /\ d.tick - d.last < 4
AlertDigest(d) ==
    IF Cooling(d) THEN [d EXCEPT !.swallowed = TRUE] ELSE [d EXCEPT !.last = d.tick]

(* _flush_digest: the list is emptied and the day noted before _alert looks at
   its cooldown. *)
Flushed(d) ==
    LET due == Quarter(d) = 3 /\ d.day # DayOf(d) IN
    IF d.waiting > 0 /\ (due \/ d.waiting >= DigestFull)
    THEN AlertDigest([d EXCEPT !.waiting = 0, !.day = DayOf(d)])
    ELSE d

(* A give-up of an order older than the live sync, the only call of it. *)
BackfillGiveUp == digest' = Flushed([digest EXCEPT !.waiting = @ + 1])
DigestTick == digest.tick < 4 * DigestDays /\ digest' = [digest EXCEPT !.tick = @ + 1]
RestartDigest == digest' = [digest EXCEPT !.waiting = 0, !.day = 0, !.last = 0]
DigestNext == (BackfillGiveUp \/ DigestTick \/ RestartDigest) /\ UNCHANGED esVars

EsStart == EsInit /\ DigestInit
esAll == <<esVars, digest>>

-----------------------------------------------------------------------------
EsTypeOK ==
    /\ esRec.state \in {"none", "opening", "open", "failed", "resolving", "closed"}
    /\ {onHold, counted, settle.held} \subseteq {"none", "some", "many"}
    /\ relay.pc \in {"idle", "get", "open", "post", "ask", "send", "note"}
    /\ settle.pc \in {"idle", "close", "retry", "post"}

(* The owners get one email for an escalation, whatever becomes of its thread
   while it is sent: refused, posted later by the settle, or answered ("so the
   email never goes twice", _escalate_held); only a relay that is killed
   between the email and its note sends it again, once for each such kill. *)
EmailOnce == esRec.mail.sent <= 1 + esRec.mail.killed

(* "A day's thread that closed is not reopened that day" (_escalate_held), but
   for a new hold: violated when the settle answers the thread between the
   relay's look at the record and its open. *)
NotReopened ==
    [][esRec.state \in {"closed", "resolving"} /\ esRec'.state = "opening"
         => SettleConfirms]_esVars

(* "a failed email waits notify's failed backoff before the next try"
   (_escalate_held): violated, there is no next try once Slack has the thread. *)
EmailRetried == ~passedOver

(* Every digest is posted: violated when fifty updates come within 20 hours of
   the last one, which empties the list into the cooldown. *)
DigestTold == ~digest.swallowed
=============================================================================

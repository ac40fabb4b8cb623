------------------------------ MODULE AuditLog ------------------------------
(***************************************************************************)
(* The arrival row of an order in the Order Audit Log (backfill.py         *)
(* GoogleIO.audit_append and what it falls back to, audit_update and the   *)
(* drain's buffered one) and its replay from the local mirror              *)
(* (tools/audit_replay.py).                                                *)
(*                                                                         *)
(* An append of the Sheets API that fails with a 5xx or a timeout may or   *)
(* may not have put its row there; other writers append to the same tab.   *)
(***************************************************************************)
EXTENDS Naturals, SequencesExt

CONSTANTS
    AuditLane,   \* engine lanes, each with its order
    OrderIn,     \* [AuditLane -> order]
    Oversized,   \* orders whose arrival row Sheets refuses with a 400
    Attempts,    \* entries of audit_fallback_backoff_s
    DedupRows,   \* audit_dedup_rows
    OtherRows,   \* bound on rows of other writers
    AuditMaxFaults  \* bound on failed calls and kills

ASSUME AuditAssumption ==
    /\ {Attempts, DedupRows} \subseteq Nat \ {0}
    /\ {OtherRows, AuditMaxFaults} \subseteq Nat

Other == "other"

VARIABLES
    tab,      \* the rows of the audit tab: order, and how far it is marked
    call,     \* lane -> its audit_append call
    amirror,  \* mirror/audit_mirror.csv: <<order, event, row or 0>>
    buffer,   \* rows whose update the drain has not flushed yet
    others, auditFaults,
    landed,   \* history: rows the call of a lane has put in the tab
    blind     \* history: lanes that sent again with no look, or too late a look

auditVars == <<tab, call, amirror, buffer, others, auditFaults, landed, blind>>

AuditFault == auditFaults > 0 /\ auditFaults' = auditFaults - 1
RowOf(o, text) == [oid |-> o, text |-> text, state |-> "arrived"]

(* row 0 stands for the code's -1, no row known *)
NoCall == [pc |-> "idle", attempt |-> 0, refused |-> FALSE, row |-> 0, replay |-> FALSE]

AuditInit ==
    /\ tab = <<>>
    /\ call = [l \in AuditLane |-> NoCall]
    /\ amirror = {} /\ buffer = {}
    /\ others = OtherRows /\ auditFaults = AuditMaxFaults
    /\ landed = [l \in AuditLane |-> {}] /\ blind = {}

InTab(o) == \E n \in DOMAIN tab : tab[n].oid = o
Mirrored(o, event) == \E e \in amirror : e[1] = o /\ e[2] = event

(* A lane takes up its order: the first time, or again after a kill. *)
Arrive(l) ==
    /\ call[l].pc = "idle"
    /\ ~Mirrored(OrderIn[l], "arrived")
    /\ call' = [call EXCEPT ![l] = [NoCall EXCEPT !.pc = "send"]]
    /\ landed' = [landed EXCEPT ![l] = {}]
    /\ blind' = blind \ {l}
    /\ UNCHANGED <<tab, amirror, buffer, others, auditFaults>>

(* replay: an order mirrored with no row, or mirrored and not in the tab. *)
Replay(l) ==
    LET o == OrderIn[l] IN
    /\ call[l].pc = "idle"
    /\ Mirrored(o, "arrived") /\ ~InTab(o)
    /\ call' = [call EXCEPT ![l] = [NoCall EXCEPT !.pc = "send", !.replay = TRUE]]
    /\ landed' = [landed EXCEPT ![l] = {}]
    /\ blind' = blind \ {l}
    /\ UNCHANGED <<tab, amirror, buffer, others, auditFaults>>

OtherWriter ==
    /\ others > 0
    /\ others' = others - 1
    /\ tab' = Append(tab, RowOf(Other, "full"))
    /\ UNCHANGED <<call, amirror, buffer, auditFaults, landed, blind>>

-----------------------------------------------------------------------------
(* _audit_append_row with its three ends; text is the row's, in full or the
   fallback text in place of the JSON link. *)

Lands(l, text) ==
    /\ tab' = Append(tab, RowOf(OrderIn[l], text))
    /\ landed' = [landed EXCEPT ![l] = @ \cup {Len(tab) + 1}]

(* The call returns a row, or 0 for a lost one; or it tries again. *)
Returns(c, row) == [c EXCEPT !.pc = "mirror", !.row = row]
TriesAgain(c, refused) ==
    [c EXCEPT !.pc = "wait", !.attempt = @ + 1, !.refused = @ \/ refused]

AppendOk(l, text) ==
    /\ text = "full" => OrderIn[l] \notin Oversized
    /\ Lands(l, text)
    /\ call' = [call EXCEPT ![l] = Returns(@, Len(tab) + 1)]
    /\ UNCHANGED auditFaults

(* After the last attempt the row counts as lost. *)
NextTry(l, refused) ==
    call' = [call EXCEPT ![l] = IF @.attempt = Attempts THEN Returns(@, 0)
                                ELSE TriesAgain(@, refused)]

AppendRefused(l, text) ==
    /\ text = "full" /\ OrderIn[l] \in Oversized
    /\ NextTry(l, TRUE)
    /\ UNCHANGED <<tab, landed, auditFaults>>

AppendErrs(l, text) ==
    /\ text = "full" => OrderIn[l] \notin Oversized
    /\ AuditFault
    /\ NextTry(l, FALSE)
    /\ \/ Lands(l, text)
       \/ UNCHANGED <<tab, landed>>

SendRow(l, text) == AppendOk(l, text) \/ AppendRefused(l, text) \/ AppendErrs(l, text)

FirstAppend(l) ==
    /\ call[l].pc = "send"
    /\ SendRow(l, "full")
    /\ UNCHANGED <<amirror, buffer, others, blind>>

(* _audit_find among the last DedupRows rows. *)
(* mutant: the bottom row is cut off the window *)
WindowShort == {n \in DOMAIN tab : n + DedupRows > Len(tab) /\ n < Len(tab)}

Window == {n \in DOMAIN tab : n + DedupRows > Len(tab)}

Found(o) == {n \in Window : tab[n].oid = o}

(* The tail is read, or the read fails and the row is sent unchecked. *)
Look(l) ==
    LET mine == Found(OrderIn[l]) IN
    /\ call[l].pc = "wait"
    /\ \/ /\ mine # {}
          /\ \E n \in mine : /\ \A k \in mine : k <= n
                             /\ call' = [call EXCEPT ![l] = Returns(@, n)]
          /\ UNCHANGED <<auditFaults, blind>>
       \/ /\ mine = {}
          /\ call' = [call EXCEPT ![l].pc = "resend"]
          /\ blind' = IF landed[l] \subseteq 1..(Len(tab) - DedupRows) /\ landed[l] # {}
                      THEN blind \cup {l} ELSE blind
          /\ UNCHANGED auditFaults
       \/ /\ AuditFault
          /\ call' = [call EXCEPT ![l].pc = "resend"]
          /\ blind' = blind \cup {l}
    /\ UNCHANGED <<tab, amirror, buffer, others, landed>>

UseFallback(l) == call[l].refused \/ call[l].attempt = Attempts

Resend(l) ==
    /\ call[l].pc = "resend"
    /\ SendRow(l, IF UseFallback(l) THEN "fallback" ELSE "full")
    /\ UNCHANGED <<amirror, buffer, others, blind>>

-----------------------------------------------------------------------------
(* mutant: only a row that was written is mirrored *)
EventsOfWritten(l) ==
    IF call[l].row = 0 THEN {}
    ELSE {<<OrderIn[l], IF call[l].replay THEN "replayed" ELSE "arrived", call[l].row>>}

EventsOf(l) ==
    IF call[l].replay
    THEN IF call[l].row = 0 THEN {} ELSE {<<OrderIn[l], "replayed", call[l].row>>}
    ELSE {<<OrderIn[l], "arrived", call[l].row>>}

(* mirror.audit_event, right after audit_append has returned. *)
Mirror(l) ==
    /\ call[l].pc = "mirror"
    /\ amirror' = amirror \cup EventsOf(l)
    /\ call' = [call EXCEPT ![l] = IF @.replay THEN NoCall ELSE [@ EXCEPT !.pc = "update"]]
    /\ UNCHANGED <<tab, buffer, others, auditFaults, landed, blind>>

Mark(rows) == [n \in DOMAIN tab |-> IF n \in rows THEN [tab[n] EXCEPT !.state = "approved"]
                                    ELSE tab[n]]

(* The drain's audit_update. *)
Buffered(l) == buffer' = buffer \cup {call[l].row}

(* audit_update: nothing without a row; a failed write is logged. *)
UpdateRow(l) ==
    /\ call[l].pc = "update"
    /\ call' = [call EXCEPT ![l] = NoCall]
    /\ amirror' = amirror \cup {<<OrderIn[l], "updated", call[l].row>>}
    /\ \/ call[l].row = 0 /\ UNCHANGED <<tab, buffer, auditFaults>>
       \/ call[l].row > 0 /\ tab' = Mark({call[l].row}) /\ UNCHANGED <<buffer, auditFaults>>
       \/ call[l].row > 0 /\ Buffered(l) /\ UNCHANGED <<tab, auditFaults>>
       \/ call[l].row > 0 /\ AuditFault /\ UNCHANGED <<tab, buffer>>
    /\ UNCHANGED <<others, landed, blind>>

(* flush_audit: the buffer is emptied before the write, and a failed write
   is logged. *)
FlushAudit ==
    /\ buffer # {}
    /\ buffer' = {}
    /\ \/ tab' = Mark(buffer) /\ UNCHANGED auditFaults
       \/ AuditFault /\ UNCHANGED tab
    /\ UNCHANGED <<call, amirror, others, landed, blind>>

(* The engine is killed, with every lane and the buffer. *)
KillEngine ==
    /\ \E l \in AuditLane : call[l].pc # "idle"
    /\ AuditFault
    /\ call' = [l \in AuditLane |-> NoCall]
    /\ buffer' = {}
    /\ UNCHANGED <<tab, amirror, others, landed, blind>>

AuditNext ==
    \/ \E l \in AuditLane : \/ Arrive(l) \/ Replay(l) \/ FirstAppend(l) \/ Look(l) \/ Resend(l)
                            \/ Mirror(l) \/ UpdateRow(l)
    \/ OtherWriter \/ FlushAudit \/ KillEngine

-----------------------------------------------------------------------------
AuditOrder == {OrderIn[l] : l \in AuditLane}

TabRow == [oid : AuditOrder \cup {Other}, text : {"full", "fallback"},
           state : {"arrived", "approved"}]
AuditCall == [pc : {"idle", "send", "wait", "resend", "mirror", "update"},
              attempt : Nat, refused : BOOLEAN, row : Nat, replay : BOOLEAN]

AuditTypeOK ==
    /\ tab \in Seq(TabRow)
    /\ call \in [AuditLane -> AuditCall]
    /\ amirror \subseteq AuditOrder \X {"arrived", "replayed", "updated"} \X Nat
    /\ buffer \subseteq Nat /\ {others, auditFaults} \subseteq Nat
    /\ landed \in [AuditLane -> SUBSET Nat] /\ blind \subseteq AuditLane

RowsWith(o) == {n \in DOMAIN tab : tab[n].oid = o}

(* What landed is in the tab, and a lane sends only before its first row has
   landed, or without a look. *)
SentOnceUnlessBlind ==
    \A l \in AuditLane :
      /\ landed[l] \subseteq RowsWith(OrderIn[l])
      /\ call[l].pc = "send" => landed[l] = {}
      /\ call[l].pc = "resend" /\ l \notin blind => landed[l] = {}

(* A row a call knows is one of its order, and it is mirrored before it is
   marked. *)
KnownRow ==
    \A l \in AuditLane :
      /\ call[l].pc \in {"mirror", "update"} => call[l].row \in RowsWith(OrderIn[l]) \cup {0}
      /\ call[l].pc = "update" => \E e \in amirror : e[1] = OrderIn[l]

MirroredOrInTab ==
    \A o \in AuditOrder : (\E e \in amirror : e[1] = o) => InTab(o) \/ <<o, "arrived", 0>> \in amirror

(* A call that could look puts its order in the tab at most once: appends
   that failed after they had landed are found, as long as fewer than
   DedupRows rows of others came after them (_audit_fallback, _audit_find). *)
OneRowPerCall ==
    \A l \in AuditLane : l \notin blind => \A m, n \in landed[l] : m = n

(* An order whose append was given up, or was never seen to land, is in the
   mirror without a row, where the replay finds it; and what the replay does
   not append is in the tab (audit_append's -1, audit_event, replay). *)
LostIsReplayable ==
    \A l \in AuditLane :
      LET o == OrderIn[l] IN
      (call[l].pc \in {"update", "idle"} /\ \E e \in amirror : e[1] = o)
        => InTab(o) \/ <<o, "arrived", 0>> \in amirror
=============================================================================

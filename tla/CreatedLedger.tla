--------------------------- MODULE CreatedLedger ---------------------------
(***************************************************************************)
(* The created ledger (backfill.py, class CreatedLedger): one append-only  *)
(* CSV shared by every engine and repair tool, and in each process a map   *)
(* of it that is loaded again when a stat of the file shows a change.      *)
(*                                                                         *)
(* A process serves one call at a time (threading.Lock); the processes     *)
(* share only the file.  Its rows have no ids of their own: the marker a   *)
(* process keeps is (mtime, size), here the number of rows, since every    *)
(* append makes the file longer.                                           *)
(***************************************************************************)
EXTENDS Naturals, Sequences, FiniteSetsExt

CONSTANTS
    Process,   \* engines and tools with the ledger open
    Order,     \* Salla order ids
    HsId,      \* HubSpot order ids
    NoId,      \* no entry, or the empty id of a tombstone
    MaxRows    \* bound on the rows of the file

ASSUME NoIdAssumption == NoId \notin HsId

VARIABLES
    file,      \* the rows: order id, HubSpot id (NoId: revoked), who wrote it
    map,       \* each process's map
    seen,      \* rows the marker of each process stands for
    phase,        \* where each process is in its call
    asked,      \* the call: operation, order, id
    recent,    \* the entries the file had for the order since the call began
    answer     \* what the last get of each process returned, and whether it was current

ledgerVars == <<file, map, seen, phase, asked, recent, answer>>

Entry == HsId \cup {NoId}

\* Last row wins; an order without a row has no entry.
EntryIn(f, o) ==
    LET at == {i \in DOMAIN f : f[i].oid = o}
    IN  IF at = {} THEN NoId ELSE f[Max(at)].hs

\* A defect: the first row of an order wins over the later ones.
MapOfFirstWins(f) ==
    [o \in Order |-> LET at == {i \in DOMAIN f : f[i].oid = o}
                     IN  IF at = {} THEN NoId ELSE f[Min(at)].hs]

\* A defect: entries by row number instead of order id.
MapOfRows(f) == [i \in DOMAIN f |-> f[i].hs]

\* _load: what reading the whole file gives.
MapOf(f) == [o \in Order |-> EntryIn(f, o)]

Proceed(p, from, to) == phase[p] = from /\ phase' = [phase EXCEPT ![p] = to]

LedgerInit ==
    /\ file = << >>
    /\ map = [p \in Process |-> MapOf(<< >>)]
    /\ seen = [p \in Process |-> 0]
    /\ phase = [p \in Process |-> "idle"]
    /\ asked \in [Process -> {[op |-> "get", oid |-> o, hs |-> NoId] : o \in Order}]
    /\ recent = [p \in Process |-> {}]
    /\ answer = [p \in Process |-> [hs |-> NoId, current |-> TRUE]]

\* get, add or revoke is called; the answer to the previous call is used up.
Call(p) ==
    /\ Proceed(p, "idle", "refresh")
    /\ \E o \in Order, id \in HsId :
         \/ asked' = [asked EXCEPT ![p] = [op |-> "get", oid |-> o, hs |-> NoId]]
         \/ asked' = [asked EXCEPT ![p] = [op |-> "add", oid |-> o, hs |-> id]]
         \/ asked' = [asked EXCEPT ![p] = [op |-> "revoke", oid |-> o, hs |-> NoId]]
    /\ Len(file) < MaxRows \/ asked'[p].op = "get"
    /\ recent' = [recent EXCEPT ![p] = {EntryIn(file, asked'[p].oid)}]
    /\ answer' = [answer EXCEPT ![p] = [hs |-> NoId, current |-> TRUE]]
    /\ UNCHANGED <<file, map, seen>>

\* _refresh: the stat that decides whether to load again.
RefreshStat(p) ==
    /\ \/ seen[p] = Len(file) /\ Proceed(p, "refresh", "act")
       \/ seen[p] # Len(file) /\ Proceed(p, "refresh", "load")
    /\ UNCHANGED <<file, map, seen, asked, recent, answer>>

\* _load: the rows are read ...
LoadRead(p) ==
    /\ Proceed(p, "load", "marker")
    /\ map' = [map EXCEPT ![p] = MapOf(file)]
    /\ UNCHANGED <<file, seen, asked, recent, answer>>

\* ... and then the file is stat'ed for the marker.
LoadStat(p) ==
    /\ Proceed(p, "marker", "act")
    /\ seen' = [seen EXCEPT ![p] = Len(file)]
    /\ UNCHANGED <<file, map, asked, recent, answer>>

\* get answers from the map.
Answer(p) ==
    /\ asked[p].op = "get"
    /\ Proceed(p, "act", "idle")
    /\ LET hs == map[p][asked[p].oid]
       IN  answer' = [answer EXCEPT ![p] = [hs |-> hs, current |-> hs \in recent[p]]]
    /\ recent' = [recent EXCEPT ![p] = {}]
    /\ UNCHANGED <<file, map, seen, asked>>

\* add and revoke change the map first.
Record(p) ==
    /\ asked[p].op # "get"
    /\ Proceed(p, "act", "append")
    /\ map' = [map EXCEPT ![p][asked[p].oid] = asked[p].hs]
    /\ UNCHANGED <<file, seen, asked, recent, answer>>

\* Then one row is appended; every call under way sees its order's new entry.
AppendRow(p) ==
    /\ Proceed(p, "append", "stat")
    /\ file' = Append(file, [oid |-> asked[p].oid, hs |-> asked[p].hs, by |-> p])
    /\ recent' = [q \in Process |->
                    IF phase[q] # "idle" /\ asked[q].oid = asked[p].oid
                    THEN recent[q] \cup {asked[p].hs} ELSE recent[q]]
    /\ UNCHANGED <<map, seen, asked, answer>>

\* Our own append updates the marker as it lands.
AppendStat(p) ==
    /\ Proceed(p, "stat", "idle")
    /\ seen' = [seen EXCEPT ![p] = Len(file)]
    /\ recent' = [recent EXCEPT ![p] = {}]
    /\ UNCHANGED <<file, map, asked, answer>>

\* The process dies and its successor loads the ledger in __init__ before it
\* serves a call.
Reopen(p) ==
    /\ phase' = [phase EXCEPT ![p] = "init"]
    /\ map' = [map EXCEPT ![p] = MapOf(<< >>)]
    /\ seen' = [seen EXCEPT ![p] = 0]
    /\ asked' = [asked EXCEPT ![p].op = "get", ![p].hs = NoId]
    /\ recent' = [recent EXCEPT ![p] = {}]
    /\ answer' = [answer EXCEPT ![p] = [hs |-> NoId, current |-> TRUE]]
    /\ UNCHANGED file

InitRead(p) ==
    /\ Proceed(p, "init", "initmarker")
    /\ map' = [map EXCEPT ![p] = MapOf(file)]
    /\ UNCHANGED <<file, seen, asked, recent, answer>>

InitStat(p) ==
    /\ Proceed(p, "initmarker", "idle")
    /\ seen' = [seen EXCEPT ![p] = Len(file)]
    /\ UNCHANGED <<file, map, asked, recent, answer>>

LedgerNext ==
    \E p \in Process :
        \/ Call(p) \/ RefreshStat(p) \/ LoadRead(p) \/ LoadStat(p) \/ Answer(p)
        \/ Record(p) \/ AppendRow(p) \/ AppendStat(p)
        \/ Reopen(p) \/ InitRead(p) \/ InitStat(p)

LedgerSpec == LedgerInit /\ [][LedgerNext]_ledgerVars

-----------------------------------------------------------------------------
Row == [oid : Order, hs : Entry, by : Process]

LedgerTypeOK ==
    /\ file \in Seq(Row)
    /\ map \in [Process -> [Order -> Entry]]
    /\ seen \in [Process -> Nat]
    /\ phase \in [Process -> {"idle", "refresh", "load", "marker", "act", "append", "stat",
                           "init", "initmarker"}]
    /\ asked \in [Process -> [op : {"get", "add", "revoke"}, oid : Order, hs : Entry]]
    /\ recent \in [Process -> SUBSET Entry]
    /\ answer \in [Process -> [hs : Entry, current : BOOLEAN]]

\* The process that wrote the last row of o, or none.
LastWriter(o) ==
    LET at == {i \in DOMAIN file : file[i].oid = o}
    IN  IF at = {} THEN {} ELSE {file[Max(at)].by}

\* What a process itself recorded last it never forgets, across reloads and
\* restarts and whatever the others append (CreatedLedger.add, revoke, get):
\* an order it just created is not created a second time by its next lookup.
OwnWritesSeen ==
    \A p \in Process, o \in Order :
        phase[p] = "idle" /\ p \in LastWriter(o) => map[p][o] = EntryIn(file, o)

\* A map is never ahead of the file: outside the two steps of its own add or
\* revoke, every entry of it is or was the file's entry of that order, so no
\* process takes an order for synced that nobody recorded.
MapFromFile ==
    \A p \in Process, o \in Order :
        phase[p] \notin {"append"} =>
            \E n \in 0..Len(file) : map[p][o] = EntryIn(SubSeq(file, 1, n), o)

\* The order a process is about to append the row of: the map has the entry
\* already.
Appending(p, o) == phase[p] = "append" /\ asked[p].oid = o

AppendsWhatItKeeps ==
    \A p \in Process : phase[p] = "append" => map[p][asked[p].oid] = asked[p].hs

\* OwnWritesSeen in the middle of a call: from the load of a restart on, and
\* but for the row being appended.
OwnWritesKept ==
    \A p \in Process, o \in Order :
        /\ phase[p] # "init" /\ ~Appending(p, o)
        /\ p \in LastWriter(o)
        => map[p][o] = EntryIn(file, o)

\* MapFromFile likewise.
MapBehindFile ==
    \A p \in Process, o \in Order :
        ~Appending(p, o) => \E n \in 0..Len(file) : map[p][o] = EntryIn(SubSeq(file, 1, n), o)

\* "A tool that revokes an entry must be seen by the running engine at once"
\* (_refresh): a get returns an entry the file had for that order at some
\* moment of the call.
RevokeSeen == \A p \in Process : answer[p].current
=============================================================================

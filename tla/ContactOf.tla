----------------------------- MODULE ContactOf -----------------------------
(***************************************************************************)
(* The HubSpot contact an order is created under (route_create), and the   *)
(* growth flags its items put on that contact.  Lanes of several engines   *)
(* work at once; within an engine the lookup of one customer is serialised *)
(* and its result kept for the run.  HubSpot refuses a second contact with *)
(* the same main phone number; its search lags; Make's customer scenario   *)
(* creates contacts too.  An order has a device among its items or not;    *)
(* its other items are told apart only by whether they were added late.    *)
(***************************************************************************)
EXTENDS Naturals, Sequences, FiniteSets

CONSTANTS
    CtEngine,    \* engines: the live sync, a backfill
    CtLanes,     \* engine -> its lanes
    Buyer,       \* customers
    WithPhone,   \* the ones with a mobile number
    WithId,      \* the ones with a Salla customer id
    MaxContacts, \* bound on contacts
    CtOrders,    \* bound on orders taken
    CtMaxFaults  \* bound on failed calls and items, and kills

CtLane == UNION {CtLanes[e] : e \in CtEngine}
EngineOf(l) == CHOOSE e \in CtEngine : l \in CtLanes[e]

ASSUME ContactAssumption ==
    /\ \A e, f \in CtEngine : e # f => CtLanes[e] \cap CtLanes[f] = {}
    /\ WithPhone \cup WithId \subseteq Buyer
    /\ {MaxContacts, CtOrders, CtMaxFaults} \subseteq Nat

VARIABLES
    contacts, \* HubSpot's contacts: whose, shown by its search, flagged
    cached,   \* engine -> customer key -> the contact resolved in this run, or 0
    taken,    \* lane -> the order it works on
    halfway,  \* orders left with items missing
    placed,   \* history: engine -> orders of this run, with their contact
    earned,   \* history: contacts an order with a device was created under
    owed,     \* history: contacts of completed orders with a device
    ctOrders, ctFaults

ctVars == <<contacts, cached, taken, halfway, placed, earned, owed, ctOrders, ctFaults>>
ctHistory == <<placed, earned, owed>>

(* _contact_key: by mobile number, else by customer id, else by neither. *)
KeyOf(b) == IF b \in WithPhone \cup WithId THEN b ELSE "nobody"
CtKey == {KeyOf(b) : b \in Buyer}
NotTaken == [pc |-> "idle", buyer |-> "none", device |-> FALSE, contact |-> 0, late |-> FALSE]

CtInit ==
    /\ contacts = <<>>
    /\ cached = [e \in CtEngine |-> [k \in CtKey |-> 0]]
    /\ taken = [l \in CtLane |-> NotTaken] /\ halfway = {}
    /\ placed = [e \in CtEngine |-> {}] /\ earned = {} /\ owed = {}
    /\ ctOrders = CtOrders /\ ctFaults = CtMaxFaults

CtFault == ctFaults > 0 /\ ctFaults' = ctFaults - 1
OnTo(l, pc, c) == taken' = [taken EXCEPT ![l] = [@ EXCEPT !.pc = pc, !.contact = c]]
Ends(l) == taken' = [taken EXCEPT ![l] = NotTaken]

-----------------------------------------------------------------------------
ShowContact ==
    /\ \E c \in 1..Len(contacts) : /\ ~contacts[c].shown
                                   /\ contacts' = [contacts EXCEPT ![c].shown = TRUE]
    /\ UNCHANGED <<cached, taken, halfway, ctHistory, ctOrders, ctFaults>>

HasPhoneOf(b) == \E c \in 1..Len(contacts) : contacts[c].buyer = b /\ b \in WithPhone
NewContact(b) ==
    /\ ~HasPhoneOf(b) /\ Len(contacts) < MaxContacts
    /\ contacts' = Append(contacts, [buyer |-> b, shown |-> FALSE, device |-> FALSE])

(* Make's customer scenario: new customers, with their Salla id. *)
ScenarioCreates ==
    /\ \E b \in WithId : NewContact(b)
    /\ UNCHANGED <<cached, taken, halfway, ctHistory, ctOrders, ctFaults>>

TakeOrder(l) ==
    /\ taken[l].pc = "idle"
    /\ \/ /\ ctOrders > 0 /\ ctOrders' = ctOrders - 1
          /\ \E b \in Buyer, d \in BOOLEAN :
                taken' = [taken EXCEPT ![l] = [NotTaken EXCEPT !.pc = "wait", !.buyer = b,
                                                               !.device = d]]
          /\ UNCHANGED halfway
       \/ \E o \in halfway : /\ halfway' = halfway \ {o}
                             /\ taken' = [taken EXCEPT ![l] = [o EXCEPT !.pc = "wait"]]
                             /\ UNCHANGED ctOrders
    /\ UNCHANGED <<contacts, cached, ctHistory, ctFaults>>

-----------------------------------------------------------------------------
UnderLock == {"search", "create", "again"}

(* mutant: without the lock of the customer *)
FreeKeyAlways(l) == TRUE

(* The lock of the customer, per engine. *)
FreeKey(l) == \A m \in CtLanes[EngineOf(l)] :
    m # l /\ taken[m].pc \in UnderLock => KeyOf(taken[m].buyer) # KeyOf(taken[l].buyer)

EnterLock(l) ==
    LET known == cached[EngineOf(l)][KeyOf(taken[l].buyer)] IN
    /\ taken[l].pc = "wait" /\ FreeKey(l)
    /\ OnTo(l, IF known = 0 THEN "search" ELSE "order", known)
    /\ UNCHANGED <<contacts, cached, halfway, ctHistory, ctOrders, ctFaults>>

(* The newest contact that a search shows for the phone, or for the id. *)
Newest(found) == IF found = {} THEN 0 ELSE CHOOSE c \in found : \A d \in found : d <= c
ShownOf(b) == {c \in 1..Len(contacts) : contacts[c].shown /\ contacts[c].buyer = b}
ByPhone(b) == IF b \in WithPhone THEN Newest(ShownOf(b)) ELSE 0
ByPhoneOrId(b) == IF b \in WithPhone \cup WithId THEN Newest(ShownOf(b)) ELSE 0

Resolved(l, c) ==
    /\ cached' = [cached EXCEPT ![EngineOf(l)][KeyOf(taken[l].buyer)] = c]
    /\ OnTo(l, "order", c)

(* A search that fails counts as one that finds nothing. *)
SearchContact(l) ==
    LET c == ByPhone(taken[l].buyer) IN
    /\ taken[l].pc = "search"
    /\ \/ c # 0 /\ Resolved(l, c) /\ UNCHANGED ctFaults
       \/ /\ IF c = 0 THEN UNCHANGED ctFaults ELSE CtFault
          /\ OnTo(l, "create", 0) /\ UNCHANGED cached
    /\ UNCHANGED <<contacts, halfway, ctHistory, ctOrders>>

(* create_contact; when it fails, the guardrail searches once more. *)
CreateContact(l) ==
    /\ taken[l].pc = "create"
    /\ \/ /\ NewContact(taken[l].buyer) /\ Resolved(l, Len(contacts) + 1)
          /\ UNCHANGED ctFaults
       \/ /\ IF HasPhoneOf(taken[l].buyer) THEN UNCHANGED ctFaults ELSE CtFault
          /\ OnTo(l, "again", 0)
          /\ UNCHANGED <<contacts, cached>>
    /\ UNCHANGED <<halfway, ctHistory, ctOrders>>

(* Without a contact the order is not created: an error row. *)
SearchAgain(l) ==
    LET c == ByPhoneOrId(taken[l].buyer) IN
    /\ taken[l].pc = "again"
    /\ IF c # 0 THEN Resolved(l, c) ELSE Ends(l) /\ UNCHANGED cached
    /\ UNCHANGED <<contacts, halfway, ctHistory, ctOrders, ctFaults>>

-----------------------------------------------------------------------------
(* The order is created under the contact, or met as it was left. *)
PlaceOrder(l) ==
    LET o == taken[l] IN
    /\ o.pc = "order" /\ OnTo(l, "items", o.contact)
    /\ IF o.late THEN UNCHANGED <<placed, earned>>
       ELSE /\ placed' = [placed EXCEPT ![EngineOf(l)] = @ \cup {<<o.buyer, o.contact>>}]
            /\ earned' = IF o.device THEN earned \cup {o.contact} ELSE earned
    /\ UNCHANGED <<contacts, cached, halfway, owed, ctOrders, ctFaults>>

(* mutant: one set of signals for all lanes of an engine *)
SignalsShared(l) == \E m \in CtLanes[EngineOf(l)] : taken[m].device /\ taken[m].pc = "items"

(* The items of the order whose product is a device; a top-up sees the late ones. *)
Signals(l) == taken[l].device /\ ~taken[l].late

(* A clean loop over the items ends with the stamp, which may be refused. *)
StampSignals(l) ==
    LET c == taken[l].contact IN
    /\ taken[l].pc = "items"
    /\ \/ contacts' = [contacts EXCEPT ![c].device = @ \/ Signals(l)] /\ UNCHANGED ctFaults
       \/ Signals(l) /\ ~contacts[c].device /\ CtFault /\ UNCHANGED contacts
    /\ owed' = IF taken[l].device THEN owed \cup {c} ELSE owed
    /\ Ends(l)
    /\ UNCHANGED <<cached, halfway, placed, earned, ctOrders>>

(* An item that fails after the device: the order is topped up later. *)
ItemFails(l) ==
    /\ taken[l].pc = "items" /\ ~taken[l].late /\ CtFault
    /\ halfway' = halfway \cup {[taken[l] EXCEPT !.pc = "idle", !.late = TRUE, !.contact = 0]}
    /\ Ends(l)
    /\ UNCHANGED <<contacts, cached, ctHistory, ctOrders>>

(* A kill: what was resolved in the run is forgotten. *)
KillResolver(e) ==
    /\ CtFault
    /\ taken' = [l \in CtLane |-> IF l \in CtLanes[e] THEN NotTaken ELSE taken[l]]
    /\ cached' = [cached EXCEPT ![e] = [k \in CtKey |-> 0]]
    /\ placed' = [placed EXCEPT ![e] = {}]
    /\ UNCHANGED <<contacts, halfway, earned, owed, ctOrders>>

CtNext ==
    \/ ShowContact \/ ScenarioCreates
    \/ \E l \in CtLane : \/ TakeOrder(l) \/ EnterLock(l) \/ SearchContact(l) \/ CreateContact(l)
                         \/ SearchAgain(l) \/ PlaceOrder(l) \/ StampSignals(l) \/ ItemFails(l)
    \/ \E e \in CtEngine : KillResolver(e)

-----------------------------------------------------------------------------
Contact == [buyer : Buyer, shown : BOOLEAN, device : BOOLEAN]
Taken == [pc : {"idle", "wait", "search", "create", "again", "order", "items"},
          buyer : Buyer \cup {"none"}, device : BOOLEAN, contact : Nat, late : BOOLEAN]

CtTypeOK ==
    /\ contacts \in Seq(Contact)
    /\ cached \in [CtEngine -> [CtKey -> Nat]]
    /\ taken \in [CtLane -> Taken]
    /\ \A l \in CtLane : taken[l].pc # "idle" => taken[l].buyer \in Buyer
    /\ halfway \subseteq {o \in Taken : o.late /\ o.buyer \in Buyer}
    /\ placed \in [CtEngine -> SUBSET (Buyer \X Nat)]
    /\ {earned, owed} \subseteq SUBSET Nat
    /\ {ctOrders, ctFaults} \subseteq Nat

KeyOfLane(l) == KeyOf(taken[l].buyer)

(* The lanes of an engine that look for the contact of one customer: one at a
   time, and only while the run has not resolved it. *)
OneLookup ==
    \A l \in CtLane : taken[l].pc \in UnderLock =>
      /\ \A m \in CtLane : m # l /\ EngineOf(m) = EngineOf(l) /\ taken[m].pc \in UnderLock
                           => KeyOfLane(m) # KeyOfLane(l)
      /\ cached[EngineOf(l)][KeyOfLane(l)] = 0

(* An order is placed under the contact the run resolved for its customer. *)
PlacedAsResolved ==
    /\ \A l \in CtLane : taken[l].pc \in {"order", "items"} =>
          /\ taken[l].contact # 0
          /\ taken[l].contact = cached[EngineOf(l)][KeyOfLane(l)]
    /\ \A e \in CtEngine : \A x \in placed[e] : x[2] # 0 /\ x[2] = cached[e][KeyOf(x[1])]

(* The device an order stamps is one it was placed with. *)
StampsEarned ==
    \A l \in CtLane :
      taken[l].pc = "items" /\ Signals(l) => taken[l].contact \in earned

(* Orders of one buyer that lanes of a run create are under one contact,
   whether or not the search shows it yet and though a buyer without a phone
   could be created twice; and a contact is flagged for a device only when an
   order with one is under it, never for what another lane sells. *)
BuyersApart ==
    /\ \A e \in CtEngine : \A x, y \in placed[e] : x[1] = y[1] => x[2] = y[2]
    /\ \A c \in 1..Len(contacts) : contacts[c].device => c \in earned

(* An order is under a contact of its own buyer: violated for two buyers of
   whom Salla sends neither a phone nor an id. *)
OwnContact ==
    \A e \in CtEngine : \A x \in placed[e] : contacts[x[2]].buyer = x[1]

(* A buyer has one contact: violated for one without a phone when two engines,
   or two runs, meet their orders. *)
OneContact ==
    \A c, d \in 1..Len(contacts) : contacts[c].buyer = contacts[d].buyer => c = d

(* A contact a completed order with a device is under is flagged: violated when
   an item of the order failed first, or the stamp was refused. *)
FlagsStamped ==
    \A c \in owed : contacts[c].device \/ \E l \in CtLane : taken[l].contact = c
=============================================================================

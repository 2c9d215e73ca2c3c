--------------------------- MODULE ConnTableProof ---------------------------
(***************************************************************************)
(* The connection table for any number of slots, devices, handles and      *)
(* inquiry results, under the seven assumptions of ConnTable.              *)
(*                                                                         *)
(* The lookups return the first slot that matches, so the properties need  *)
(* to know of every slot, also of those not in use, that none in front has *)
(* the same address or handle.  And the search of main and its claim are   *)
(* two steps: what main has found must still be free, and the first slot   *)
(* with the target's address, when it claims it.                           *)
(***************************************************************************)
EXTENDS ConnTable, WellFoundedInduction, TLAPS

Disciplined == Assumed = AssumptionNames

Free(s) == conn[s].status = "DISCONNECTED"

\* Slots that remember p are not in use, and none is in front of s.
StaleBehind(p, s) == \A r \in Slots : conn[r].addr = p => Free(r) /\ s <= r

OwnersKnown == \A s \in Slots : Active(s) => conn[s].addr \in Peers

\* Slot s waits for the connection of p, and the lookup by address finds it.
PendingAt(p, s) ==
    /\ conn[s].addr = p /\ conn[s].status = "CONNECTING"
    /\ \A r \in Slots : conn[r].addr = p => s <= r

Pending == \A p \in ctrl.pages : \E s \in Slots : PendingAt(p, s)

\* Slot s is the connection of p, and the lookup by handle finds it.
LinkAt(h, p, s) ==
    /\ conn[s].addr = p /\ conn[s].status = "CONNECTED" /\ conn[s].handle = h
    /\ \A r \in Slots : conn[r].handle = h => s <= r

Linked == \A p \in Peers : ctrl.links[p] # NoHandle =>
              \E s \in Slots : LinkAt(ctrl.links[p], p, s)

\* What main has found is still free, what it has claimed is still its own.
Searched == main = "found" =>
    found \in Slots /\ Free(found) /\ StaleBehind(Target, found)

Claimed == main = "claimed" => found \in Slots /\ PendingAt(Target, found)

\* The counter may be reset by the inquiry request because it is still 0.
Inquired == /\ ListCounted
            /\ main = "start" => inquiry_results = 0 /\ ~ctrl.inquiry

\* The inductive invariant.
IInv == /\ TypeOK /\ ~torn
        /\ OneSlotPerPeer /\ OwnersKnown
        /\ Pending /\ Linked /\ SlotsNotLeaked /\ Inquired
        /\ Searched /\ Claimed

-----------------------------------------------------------------------------
(* Lookups                                                                   *)

\* A set of natural numbers with an element has a least one.
LEMMA LeastExists ==
    ASSUME NEW S, S \subseteq Nat, S # {}
    PROVE  \E m \in S : \A n \in S : m <= n
<1>. DEFINE R == {ss \in Nat \X Nat : ss[1] < ss[2]}
<1>1. IsWellFoundedOn(R, Nat)
  BY NatLessThanWellFounded DEF OpToRel
<1>2. \A y, x \in Nat : ~(<<y, x>> \in R) => x <= y
  OBVIOUS
<1>. HIDE DEF R
<1>3. PICK x \in S : \A y \in S : ~(<<y, x>> \in R)
  BY <1>1, WFMin
<1>4. ASSUME NEW y \in S PROVE x <= y
  <2>1. x \in Nat /\ y \in Nat /\ ~(<<y, x>> \in R)
    BY <1>3
  <2>. QED  BY <1>2, <2>1, Zenon
<1>. QED  BY <1>4

LEMMA SlotsOrdered == Slots \subseteq Nat /\ -1 \notin Slots
BY SizeAssumption DEF Slots, IndexMax

LEMMA FirstFound ==
    ASSUME NEW S, S \subseteq Slots, First(S) # -1
    PROVE  First(S) \in S /\ \A t \in S : First(S) <= t
<1>1. S # {} /\ First(S) = CHOOSE s \in S : \A t \in S : s <= t
  BY DEF First
<1>2. \E s \in S : \A t \in S : s <= t
  BY <1>1, SlotsOrdered, LeastExists
<1>. QED  BY <1>1, <1>2

LEMMA FirstIs ==
    ASSUME NEW S, S \subseteq Slots, NEW s \in S, \A t \in S : s <= t
    PROVE  First(S) = s
<1>1. S # {} /\ First(S) = CHOOSE r \in S : \A t \in S : r <= t
  BY DEF First
<1>2. First(S) \in S /\ \A t \in S : First(S) <= t
  BY <1>1
<1>3. First(S) <= s /\ s <= First(S) /\ s \in Nat /\ First(S) \in Nat
  BY <1>2, SlotsOrdered
<1>. QED  BY <1>3

LEMMA LookupByAddress ==
    ASSUME NEW p, NEW s \in Slots, PendingAt(p, s)
    PROVE  get_index_from_connection_info(p) = s
<1>. DEFINE S == {r \in Slots : conn[r].addr = p}
<1>1. S \subseteq Slots /\ s \in S /\ \A t \in S : s <= t
  BY DEF PendingAt
<1>2. First(S) = s
  BY <1>1, FirstIs
<1>. QED  BY <1>2 DEF get_index_from_connection_info

LEMMA LookupByHandle ==
    ASSUME NEW h, NEW p, NEW s \in Slots, LinkAt(h, p, s)
    PROVE  get_index_from_connection_handle(h) = s
<1>. DEFINE S == {r \in Slots : conn[r].handle = h}
<1>1. S \subseteq Slots /\ s \in S /\ \A t \in S : s <= t
  BY DEF LinkAt
<1>2. First(S) = s
  BY <1>1, FirstIs
<1>. QED  BY <1>2 DEF get_index_from_connection_handle

\* The first free slot is in front of every slot that remembers p, if none of
\* those is in use.
LEMMA EmptySlot ==
    ASSUME NEW p, get_empty_conn_info # -1,
           \A s \in Slots : Active(s) => conn[s].addr # p
    PROVE  /\ get_empty_conn_info \in Slots
           /\ Free(get_empty_conn_info) /\ StaleBehind(p, get_empty_conn_info)
<1>. DEFINE S == {s \in Slots : conn[s].status = "DISCONNECTED"}
<1>1. S \subseteq Slots /\ First(S) # -1 /\ get_empty_conn_info = First(S)
  BY DEF get_empty_conn_info
<1>2. First(S) \in S /\ \A t \in S : First(S) <= t
  BY <1>1, FirstFound
<1>. QED  BY <1>1, <1>2 DEF Free, StaleBehind, Active

\* The properties as the code's own lookups see them.
LEMMA LookupsFind == IInv => PendingFound /\ HandleNamesLink
<1>. SUFFICES ASSUME IInv PROVE PendingFound /\ HandleNamesLink
  OBVIOUS
<1>1. ASSUME NEW p \in ctrl.pages
      PROVE  LET s == get_index_from_connection_info(p) IN
             s # -1 /\ conn[s].status = "CONNECTING"
  <2>1. PICK s \in Slots : PendingAt(p, s)
    BY DEF IInv, Pending
  <2>. QED  BY <2>1, LookupByAddress, SlotsOrdered DEF PendingAt
<1>2. ASSUME NEW p \in Peers, ctrl.links[p] # NoHandle
      PROVE  LET s == get_index_from_connection_handle(ctrl.links[p]) IN
             s # -1 /\ conn[s].addr = p /\ conn[s].status = "CONNECTED"
  <2>1. PICK s \in Slots : LinkAt(ctrl.links[p], p, s)
    BY <1>2 DEF IInv, Linked
  <2>. QED  BY <2>1, LookupByHandle, SlotsOrdered DEF LinkAt
<1>. QED  BY <1>1, <1>2 DEF PendingFound, HandleNamesLink

-----------------------------------------------------------------------------
(* What a step does to the table                                             *)

Controller == [inquiry : BOOLEAN, names : Nat, pages : SUBSET Peers,
               links : [Peers -> Handles \union {NoHandle}]]

LEMMA Types ==
    ASSUME IInv
    PROVE  /\ conn \in [Slots -> Slot] /\ ctrl \in Controller
           /\ Target \in Peers /\ NoAddr \notin Peers /\ NoHandle \notin Handles
           /\ \A s \in Slots : conn[s] \in Slot
BY PeersAssumption, HandlesAssumption DEF IInv, TypeOK, Controller, NoHandle

\* A free slot is given to p.
Claim(s, p) == conn' = [conn EXCEPT ![s].addr = p, ![s].status = "CONNECTING"]

LEMMA SlotClaimed ==
    ASSUME IInv, NEW s \in Slots, NEW p \in Peers, Free(s), StaleBehind(p, s), Claim(s, p)
    PROVE  /\ conn' \in [Slots -> Slot]
           /\ conn'[s].status = "CONNECTING" /\ conn'[s].addr = p
           /\ \A r \in Slots \ {s} : conn'[r] = conn[r]
           /\ OneSlotPerPeer' /\ OwnersKnown'
           /\ PendingAt(p, s)'
           /\ \A q \in Peers, r \in Slots : PendingAt(q, r) => PendingAt(q, r)' /\ q # p
           /\ \A h \in Handles, q \in Peers, r \in Slots : LinkAt(h, q, r) => LinkAt(h, q, r)' /\ q # p
<1>1. /\ conn' \in [Slots -> Slot]
      /\ conn'[s].status = "CONNECTING" /\ conn'[s].addr = p
      /\ conn'[s].handle = conn[s].handle
      /\ \A r \in Slots \ {s} : conn'[r] = conn[r]
  BY Types DEF Claim, Slot, Addrs
<1>2. OneSlotPerPeer' /\ OwnersKnown'
  BY <1>1 DEF IInv, OneSlotPerPeer, OwnersKnown, Active, StaleBehind, Free
<1>3. PendingAt(p, s)'
  BY <1>1, SlotsOrdered DEF PendingAt, StaleBehind
<1>4. ASSUME NEW q \in Peers, NEW r \in Slots, PendingAt(q, r)
      PROVE  PendingAt(q, r)' /\ q # p
  <2>1. r # s /\ q # p
    BY <1>4 DEF PendingAt, Free, StaleBehind
  <2>. QED  BY <1>1, <1>4, <2>1 DEF PendingAt
<1>5. ASSUME NEW h \in Handles, NEW q \in Peers, NEW r \in Slots, LinkAt(h, q, r)
      PROVE  LinkAt(h, q, r)' /\ q # p
  <2>1. r # s /\ q # p
    BY <1>5 DEF LinkAt, Free, StaleBehind
  <2>. QED  BY <1>1, <1>5, <2>1 DEF LinkAt
<1>. QED  BY <1>1, <1>2, <1>3, <1>4, <1>5

\* The pending slot of p becomes its connection, or a failed one.
LEMMA SlotConnected ==
    ASSUME IInv, Disciplined, NEW p \in Peers, NEW h \in Handles \union {NoHandle},
           NEW s \in Slots, PendingAt(p, s), MarkConnected(s, h),
           h = NoHandle \/ HandleIsFree(h, p)
    PROVE  /\ conn' \in [Slots -> Slot]
           /\ conn'[s].addr = p /\ (h = NoHandle => conn'[s].err)
           /\ \A r \in Slots \ {s} : conn'[r] = conn[r]
           /\ OneSlotPerPeer' /\ OwnersKnown'
           /\ h # NoHandle => LinkAt(h, p, s)'
           /\ \A q \in Peers \ {p}, r \in Slots : PendingAt(q, r) => PendingAt(q, r)'
           /\ \A g \in Handles \ {h}, q \in Peers \ {p}, r \in Slots :
                 LinkAt(g, q, r) => LinkAt(g, q, r)'
<1>1. conn[s].addr = p /\ conn[s].status = "CONNECTING"
  BY DEF PendingAt
<1>2. /\ conn' \in [Slots -> Slot]
      /\ conn'[s].status = "CONNECTED" /\ conn'[s].addr = p /\ conn'[s].handle = h
      /\ conn'[s].err = (h = NoHandle)
      /\ \A r \in Slots \ {s} : conn'[r] = conn[r]
  <2>1. conn[s] \in Slot /\ (h = NoHandle) \in BOOLEAN
    BY Types
  <2>2. [conn[s] EXCEPT !.status = "CONNECTED", !.err = (h = NoHandle), !.handle = h] \in Slot
    BY <2>1 DEF Slot
  <2>3. conn' = [conn EXCEPT ![s] =
                   [conn[s] EXCEPT !.status = "CONNECTED", !.err = (h = NoHandle), !.handle = h]]
    BY Types DEF MarkConnected
  <2>. QED  BY <1>1, <2>1, <2>2, <2>3, Types DEF Slot
<1>3. OneSlotPerPeer' /\ OwnersKnown'
  BY <1>1, <1>2 DEF IInv, OneSlotPerPeer, OwnersKnown, Active
<1>4. ASSUME h # NoHandle PROVE LinkAt(h, p, s)'
  <2>1. \A r \in Slots : conn[r].handle = h => r = s
    BY <1>4, LookupByAddress DEF HandleIsFree, Disciplined, AssumptionNames
  <2>2. \A r \in Slots : conn'[r].handle = h => r = s
    BY <1>2, <2>1
  <2>. QED  BY <1>2, <2>2, SlotsOrdered DEF LinkAt
<1>5. ASSUME NEW q \in Peers \ {p}, NEW r \in Slots, PendingAt(q, r)
      PROVE  PendingAt(q, r)'
  BY <1>1, <1>2, <1>5 DEF PendingAt
<1>6. ASSUME NEW g \in Handles \ {h}, NEW q \in Peers \ {p}, NEW r \in Slots, LinkAt(g, q, r)
      PROVE  LinkAt(g, q, r)'
  BY <1>1, <1>2, <1>6 DEF LinkAt
<1>. QED  BY <1>2, <1>3, <1>4, <1>5, <1>6

\* The slot of a connection becomes free.
LEMMA SlotFreed ==
    ASSUME IInv, NEW p \in Peers, NEW h \in Handles, NEW s \in Slots, LinkAt(h, p, s),
           MarkDisconnected(s)
    PROVE  /\ conn' \in [Slots -> Slot]
           /\ \A r \in Slots : /\ conn'[r].addr = conn[r].addr
                               /\ conn'[r].status # "DISCONNECTED" => r # s /\ conn'[r] = conn[r]
           /\ OneSlotPerPeer' /\ OwnersKnown'
           /\ \A q \in Peers, r \in Slots :
                 /\ PendingAt(q, r) => PendingAt(q, r)'
                 /\ Free(r) /\ StaleBehind(q, r) => Free(r)' /\ StaleBehind(q, r)'
           /\ \A g \in Handles, q \in Peers \ {p}, r \in Slots :
                 LinkAt(g, q, r) => LinkAt(g, q, r)'
<1>1. conn[s].addr = p /\ conn[s].status = "CONNECTED"
  BY DEF LinkAt
<1>2. /\ conn' \in [Slots -> Slot]
      /\ conn'[s].status = "DISCONNECTED" /\ conn'[s].addr = p
      /\ conn'[s].handle = conn[s].handle
      /\ \A r \in Slots \ {s} : conn'[r] = conn[r]
  BY <1>1, Types DEF MarkDisconnected, Slot
<1>3. \A r \in Slots : /\ conn'[r].addr = conn[r].addr
                       /\ conn'[r].handle = conn[r].handle
                       /\ conn'[r].status # "DISCONNECTED" => r # s /\ conn'[r] = conn[r]
  BY <1>1, <1>2 DEF Active
<1>4. OneSlotPerPeer' /\ OwnersKnown'
  <2>1. \A r \in Slots : Active(r)' => Active(r) /\ conn'[r].addr = conn[r].addr
    BY <1>1, <1>2, <1>3 DEF Active
  <2>2. OneSlotPerPeer'
    BY <2>1 DEF IInv, OneSlotPerPeer
  <2>3. OwnersKnown'
    BY <2>1 DEF IInv, OwnersKnown
  <2>. QED  BY <2>2, <2>3
<1>5. ASSUME NEW q \in Peers, NEW r \in Slots, PendingAt(q, r)
      PROVE  PendingAt(q, r)'
  BY <1>1, <1>2, <1>3, <1>5 DEF PendingAt
<1>6. ASSUME NEW q \in Peers, NEW r \in Slots, Free(r), StaleBehind(q, r)
      PROVE  Free(r)' /\ StaleBehind(q, r)'
  BY <1>1, <1>2, <1>3, <1>6 DEF Free, StaleBehind
<1>7. ASSUME NEW g \in Handles, NEW q \in Peers \ {p}, NEW r \in Slots, LinkAt(g, q, r)
      PROVE  LinkAt(g, q, r)'
  BY <1>1, <1>2, <1>3, <1>7 DEF LinkAt
<1>. QED  BY <1>2, <1>3, <1>4, <1>5, <1>6, <1>7

-----------------------------------------------------------------------------
(* One lemma per step                                                        *)

Table == OneSlotPerPeer /\ OwnersKnown /\ Pending /\ Linked /\ SlotsNotLeaked

Place == Searched /\ Claimed

LEMMA TableInit == Init => IInv
<1>. SUFFICES ASSUME Init PROVE IInv
  OBVIOUS
<1>1. TypeOK
  <2>1. conn \in [Slots -> Slot]
    BY DEF Init, Slot, Addrs, NoHandle
  <2>2. inq \in [Entries -> Addrs] /\ inquiry_results \in 0 .. Octet - 1
    BY DEF Init, Addrs, Octet
  <2>3. ctrl \in [inquiry : BOOLEAN, names : Nat, pages : SUBSET Peers,
                 links : [Peers -> Handles \union {NoHandle}]]
    BY DEF Init
  <2>. QED  BY <2>1, <2>2, <2>3 DEF Init, TypeOK, Places
<1>2. \A s \in Slots : ~Active(s)
  BY DEF Init, Active
<1>3. OneSlotPerPeer /\ OwnersKnown /\ SlotsNotLeaked
  BY <1>2 DEF OneSlotPerPeer, OwnersKnown, SlotsNotLeaked
<1>4. Pending /\ Linked /\ Searched /\ Claimed /\ ~torn
  BY DEF Init, Pending, Linked, Searched, Claimed
<1>5. Inquired
  BY SizeAssumption DEF Init, Inquired, ListCounted, Entries, IndexMax
<1>. QED  BY <1>1, <1>3, <1>4, <1>5 DEF IInv

LEMMA Assembled ==
    ASSUME TypeOK', Table', Place', ~torn', Inquired'
    PROVE  IInv'
BY DEF IInv, Table, Place

\* Neither the table nor the connections change, and main does not give up a
\* slot that it has just claimed.
LEMMA TableStays ==
    ASSUME IInv, UNCHANGED conn, ctrl'.pages = ctrl.pages, ctrl'.links = ctrl.links,
           main = "claimed" => UNCHANGED <<main, found>>
    PROVE  Table'
<1>1. OneSlotPerPeer' /\ OwnersKnown'
  BY DEF IInv, OneSlotPerPeer, OwnersKnown, Active
<1>2. Pending' /\ Linked'
  BY DEF IInv, Pending, Linked, PendingAt, LinkAt
<1>3. SlotsNotLeaked'
  BY DEF IInv, SlotsNotLeaked, Active
<1>. QED  BY <1>1, <1>2, <1>3 DEF Table

LEMMA PlaceStays ==
    ASSUME IInv, UNCHANGED <<conn, main, found>>
    PROVE  Place'
BY DEF IInv, Place, Searched, Claimed, PendingAt, StaleBehind, Free

LEMMA NowhereNear ==
    ASSUME main' \notin {"found", "claimed"}
    PROVE  Place'
BY DEF Place, Searched, Claimed

\* Only the inquiry touches the list.
LEMMA ListStays ==
    ASSUME IInv, UNCHANGED list,
           main' # "start" \/ (UNCHANGED main /\ ctrl'.inquiry = ctrl.inquiry)
    PROVE  /\ Inquired'
           /\ inq' \in [Entries -> Addrs] /\ inquiry_results' \in 0 .. Octet - 1
<1>1. UNCHANGED <<inq, inquiry_results>>
  BY DEF list
<1>2. ListCounted'
  BY <1>1 DEF IInv, Inquired, ListCounted
<1>. QED  BY <1>1, <1>2 DEF IInv, TypeOK, Inquired

LEMMA QuietMainStep ==
    ASSUME IInv, send_inquiry_request \/ SetBusy \/ PressS2 \/ wait_until_idle
    PROVE  IInv'
<1>1. Table'
  <2>1. ctrl'.pages = ctrl.pages /\ ctrl'.links = ctrl.links
    BY Types DEF Controller, send_inquiry_request, SetBusy, PressS2, wait_until_idle
  <2>2. UNCHANGED conn /\ main # "claimed"
    BY DEF send_inquiry_request, SetBusy, PressS2, wait_until_idle
  <2>. QED  BY <2>1, <2>2, TableStays
<1>2. Place'
  <2>1. main' \in {"loop", "waiting"}
    BY DEF send_inquiry_request, SetBusy, PressS2, wait_until_idle
  <2>. QED  BY <2>1, NowhereNear
<1>3. ctrl' \in Controller
  BY Types DEF Controller, send_inquiry_request, SetBusy, PressS2, wait_until_idle
<1>4. main' # "start"
  BY DEF send_inquiry_request, SetBusy, PressS2, wait_until_idle
<1>5. Inquired' /\ inq' \in [Entries -> Addrs] /\ inquiry_results' \in 0 .. Octet - 1
  <2>1. CASE send_inquiry_request
    <3>1. UNCHANGED list
      BY <2>1 DEF send_inquiry_request, list, IInv, Inquired
    <3>. QED  BY <1>4, <3>1, ListStays
  <2>2. CASE SetBusy \/ PressS2 \/ wait_until_idle
    <3>1. UNCHANGED list
      BY <2>2 DEF SetBusy, PressS2, wait_until_idle
    <3>. QED  BY <1>4, <3>1, ListStays
  <2>. QED  BY <2>1, <2>2
<1>6. /\ conn' = conn /\ found' \in Slots \union {-1} /\ sysStat' \in {"BUSY", "IDLE"}
      /\ main' \in Places /\ wild' = FALSE /\ torn' = torn
  <2>. USE DEF IInv, TypeOK, Places
  <2>1. CASE send_inquiry_request
    BY <2>1 DEF send_inquiry_request
  <2>2. CASE SetBusy
    BY <2>2 DEF SetBusy
  <2>3. CASE PressS2 \/ wait_until_idle
    BY <2>3 DEF PressS2, wait_until_idle
  <2>. QED  BY <2>1, <2>2, <2>3
<1>7. TypeOK' /\ ~torn' /\ Inquired'
  BY <1>3, <1>5, <1>6 DEF IInv, TypeOK, Controller
<1>. QED  BY <1>1, <1>2, <1>7, Assembled

LEMMA FindSlotStep ==
    ASSUME IInv, Disciplined, FindSlot
    PROVE  IInv'
<1>1. /\ get_empty_conn_info \in Slots
      /\ Free(get_empty_conn_info) /\ StaleBehind(Target, get_empty_conn_info)
  <2>1. get_empty_conn_info # -1 /\ \A s \in Slots : Active(s) => conn[s].addr # Target
    BY DEF FindSlot, PressIsSafe, Disciplined, AssumptionNames
  <2>. QED  BY <2>1, EmptySlot
<1>2. Table'
  BY TableStays DEF FindSlot
<1>3. Place'
  BY <1>1 DEF FindSlot, Place, Searched, Claimed, Free, StaleBehind
<1>4. TypeOK' /\ ~torn' /\ Inquired'
  BY <1>1, ListStays DEF IInv, TypeOK, FindSlot, Places
<1>. QED  BY <1>2, <1>3, <1>4, Assembled

\* A slot claimed by main, or by the handler for a page it accepts.
LEMMA ClaimedTable ==
    ASSUME IInv, NEW s \in Slots, NEW p \in Peers, Free(s), StaleBehind(p, s), Claim(s, p),
           ctrl'.links = ctrl.links,
           \/ /\ main = "found" /\ main' = "claimed" /\ found' = s
              /\ ctrl'.pages = ctrl.pages
           \/ /\ main \notin {"found", "claimed"}
              /\ ctrl'.pages = ctrl.pages \union {p}
    PROVE  Table' /\ conn' \in [Slots -> Slot] /\ PendingAt(p, s)'
<1>1. /\ conn' \in [Slots -> Slot]
      /\ conn'[s].addr = p
      /\ \A r \in Slots \ {s} : conn'[r] = conn[r]
      /\ OneSlotPerPeer' /\ OwnersKnown'
      /\ PendingAt(p, s)'
      /\ \A q \in Peers, r \in Slots : PendingAt(q, r) => PendingAt(q, r)'
      /\ \A h \in Handles, q \in Peers, r \in Slots : LinkAt(h, q, r) => LinkAt(h, q, r)'
  BY SlotClaimed
<1>2. Pending'
  <2>. SUFFICES ASSUME NEW q \in ctrl'.pages PROVE \E r \in Slots : PendingAt(q, r)'
    BY DEF Pending
  <2>1. CASE q = p
    BY <1>1, <2>1
  <2>2. CASE q # p
    <3>1. q \in ctrl.pages /\ q \in Peers
      BY <2>2, Types DEF Controller
    <3>2. PICK r \in Slots : PendingAt(q, r)
      BY <3>1 DEF IInv, Pending
    <3>. QED  BY <1>1, <3>1, <3>2
  <2>. QED  BY <2>1, <2>2
<1>3. Linked'
  <2>. SUFFICES ASSUME NEW q \in Peers, ctrl.links[q] # NoHandle
                PROVE  \E r \in Slots : LinkAt(ctrl.links[q], q, r)'
    BY DEF Linked, LinkAt
  <2>1. PICK h \in Handles : h = ctrl.links[q]
    BY Types DEF Controller
  <2>2. PICK r \in Slots : LinkAt(h, q, r)
    BY <2>1 DEF IInv, Linked
  <2>3. LinkAt(h, q, r)'
    BY <1>1, <2>2
  <2>. QED  BY <2>1, <2>3 DEF LinkAt
<1>4. SlotsNotLeaked'
  <2>. SUFFICES ASSUME NEW r \in Slots, Active(r)'
                PROVE  \/ main' = "claimed" /\ found' = r
                       \/ conn'[r].addr \in ctrl'.pages
                       \/ ctrl'.links[conn'[r].addr] # NoHandle
                       \/ conn'[r].err
    BY DEF SlotsNotLeaked
  <2>1. CASE r = s
    BY <1>1, <2>1
  <2>2. CASE r # s
    <3>1. conn'[r] = conn[r] /\ Active(r)
      BY <1>1, <2>2 DEF Active
    <3>2. \/ conn[r].addr \in ctrl.pages
          \/ ctrl.links[conn[r].addr] # NoHandle
          \/ conn[r].err
      BY <3>1 DEF IInv, SlotsNotLeaked
    <3>. QED  BY <3>1, <3>2
  <2>. QED  BY <2>1, <2>2
<1>. QED  BY <1>1, <1>2, <1>3, <1>4 DEF Table

LEMMA ClaimSlotStep ==
    ASSUME IInv, ClaimSlot
    PROVE  IInv'
<1>1. PICK s \in Slots : s = found /\ Free(s) /\ StaleBehind(Target, s) /\ main = "found"
  BY DEF IInv, Searched, ClaimSlot
<1>2. /\ Claim(s, Target) /\ main' = "claimed"
      /\ UNCHANGED <<list, sysStat, found, ctrl, torn, wild>>
  BY <1>1, SlotsOrdered DEF ClaimSlot, Claim
<1>3. Table' /\ conn' \in [Slots -> Slot] /\ PendingAt(Target, s)'
  BY <1>1, <1>2, Types, ClaimedTable
<1>4. Place'
  BY <1>1, <1>2, <1>3 DEF Place, Searched, Claimed, PendingAt
<1>5. TypeOK' /\ ~torn' /\ Inquired'
  BY <1>2, <1>3, ListStays DEF IInv, TypeOK, Places
<1>. QED  BY <1>3, <1>4, <1>5, Assembled

\* The target is not connected, so the page begins and holds the slot.
LEMMA SendCreateStep ==
    ASSUME IInv, SendCreate
    PROVE  IInv'
<1>1. PICK s \in Slots : s = found /\ PendingAt(Target, s)
  BY DEF IInv, Claimed, SendCreate
<1>2. ctrl.links[Target] = NoHandle
  <2>. SUFFICES ASSUME ctrl.links[Target] # NoHandle PROVE FALSE
    OBVIOUS
  <2>1. PICK r \in Slots : LinkAt(ctrl.links[Target], Target, r)
    BY Types DEF IInv, Linked
  <2>2. r = s
    BY <1>1, <2>1 DEF IInv, OneSlotPerPeer, Active, LinkAt, PendingAt
  <2>. QED  BY <1>1, <2>1, <2>2 DEF LinkAt, PendingAt
<1>3. /\ ctrl' \in Controller /\ ctrl'.links = ctrl.links
      /\ ctrl'.pages = ctrl.pages \union {Target}
      /\ main' = "sent" /\ UNCHANGED <<conn, list, sysStat, found, torn, wild>>
  BY <1>2, Types DEF SendCreate, IInv, Controller
<1>4. OneSlotPerPeer' /\ OwnersKnown'
  BY <1>3 DEF IInv, OneSlotPerPeer, OwnersKnown, Active
<1>5. Pending' /\ Linked'
  BY <1>1, <1>3 DEF IInv, Pending, Linked, PendingAt, LinkAt
<1>6. SlotsNotLeaked'
  BY <1>1, <1>3 DEF IInv, SlotsNotLeaked, Active, PendingAt
<1>7. Place'
  BY <1>3, NowhereNear
<1>8. TypeOK' /\ ~torn' /\ Inquired'
  BY <1>3, ListStays DEF IInv, TypeOK, Places, Controller
<1>. QED  BY <1>4, <1>5, <1>6, <1>7, <1>8, Assembled DEF Table

\* The responses go to the free entries, and are counted.
LEMMA Counted ==
    ASSUME IInv, Disciplined, NEW n \in 1 .. MaxResponses, NEW ps \in [1 .. n -> Peers],
           InquiryResult(ps)
    PROVE  Inquired' /\ inq' \in [Entries -> Addrs] /\ inquiry_results' \in 0 .. Octet - 1
<1>1. /\ ctrl' = ctrl /\ main' = main /\ Len(ps) = n /\ n \in Nat \ {0}
      /\ inquiry_results = MAX_INQUIRY_RESULTS \/ ~Crosses(n)
  <2>1. Len(ps) = n /\ n \in Nat \ {0}
    BY SizeAssumption DEF Octet
  <2>. QED  BY <2>1 DEF InquiryResult, Disciplined, AssumptionNames
<1>2. CASE inquiry_results = MAX_INQUIRY_RESULTS
  <2>1. UNCHANGED list
    BY <1>2 DEF InquiryResult
  <2>. QED  BY <1>1, <2>1, ListStays
<1>3. CASE inquiry_results # MAX_INQUIRY_RESULTS
  <2>. DEFINE k == inquiry_results
  <2>1. k \in Nat /\ k + n <= MAX_INQUIRY_RESULTS /\ MAX_INQUIRY_RESULTS \in 1 .. 127
    BY <1>1, <1>3, SizeAssumption DEF IInv, TypeOK, Crosses, IndexMax, Octet
  <2>2. StoreResponses(ps) /\ CountResponses(n)
    BY <1>1, <1>3 DEF InquiryResult
  <2>3. inquiry_results' = k + n
    BY <1>1, <2>1, <2>2 DEF CountResponses, Octet
  <2>4. inq' = [i \in Entries |-> IF i - k \in 0 .. n - 1 THEN ps[i - k + 1] ELSE inq[i]]
    BY <1>1, <2>2 DEF StoreResponses
  <2>5. ASSUME NEW i \in Entries
        PROVE  inq'[i] \in Addrs /\ (inq'[i] # NoAddr <=> i < k + n)
    <3>1. i \in Nat /\ inq[i] \in Addrs /\ (inq[i] # NoAddr <=> i < k)
      BY <2>1 DEF IInv, TypeOK, Inquired, ListCounted, Entries
    <3>2. CASE i - k \in 0 .. n - 1
      <4>1. i - k + 1 \in 1 .. n /\ i < k + n
        BY <1>1, <2>1, <3>1, <3>2
      <4>2. inq'[i] \in Peers
        BY <2>4, <3>2, <4>1
      <4>. QED  BY <4>1, <4>2, PeersAssumption DEF Addrs
    <3>3. CASE i - k \notin 0 .. n - 1
      <4>1. inq'[i] = inq[i]
        BY <2>4, <3>3
      <4>2. i < k + n <=> i < k
        BY <1>1, <2>1, <3>1, <3>3
      <4>. QED  BY <3>1, <4>1, <4>2
    <3>. QED  BY <3>2, <3>3
  <2>6. main # "start"
    BY DEF IInv, Inquired, InquiryResult
  <2>7. inq' \in [Entries -> Addrs]
    BY <2>4, <2>5
  <2>8. ListCounted'
    BY <2>1, <2>3, <2>5 DEF ListCounted
  <2>9. inquiry_results' \in 0 .. Octet - 1
    BY <1>1, <2>1, <2>3 DEF Octet
  <2>. QED  BY <1>1, <2>6, <2>7, <2>8, <2>9 DEF Inquired
<1>. QED  BY <1>2, <1>3

\* All names asked for are those of the list.
LEMMA NamesAsked ==
    ASSUME IInv, InquiryComplete
    PROVE  /\ UNCHANGED torn /\ UNCHANGED wild
           /\ ctrl' \in Controller /\ ctrl'.links = ctrl.links /\ ctrl'.pages = ctrl.pages
<1>1. Listed \in Nat /\ Beyond = 0
  BY SizeAssumption DEF IInv, TypeOK, Inquired, ListCounted, Listed, Beyond, Octet
<1>2. PICK known \in 0 .. Beyond :
         /\ ctrl' = [ctrl EXCEPT !.inquiry = FALSE, !.names = @ + Listed + known]
         /\ IF known < Beyond THEN torn' = TRUE ELSE UNCHANGED torn
  <2>1. AskNames
    BY DEF InquiryComplete
  <2>. QED  BY <2>1, Zenon DEF AskNames
<1>3. known = 0
  BY <1>1, <1>2
<1>4. UNCHANGED torn
  BY <1>1, <1>2, <1>3
<1>5. UNCHANGED wild
  BY <1>1 DEF InquiryComplete, AskNames
<1>6. ctrl.names + Listed + known \in Nat /\ ctrl \in Controller
  BY <1>1, <1>3, Types DEF Controller
<1>7. ctrl' \in Controller /\ ctrl'.links = ctrl.links /\ ctrl'.pages = ctrl.pages
  BY <1>2, <1>6 DEF Controller
<1>. QED  BY <1>4, <1>5, <1>7

LEMMA QuietEventStep ==
    ASSUME IInv, Disciplined,
           \/ InquiryComplete \/ RemoteNameComplete
           \/ \E n \in 1 .. MaxResponses : \E ps \in [1 .. n -> Peers] : InquiryResult(ps)
    PROVE  IInv'
<1>1. /\ ctrl' \in Controller /\ ctrl'.links = ctrl.links /\ ctrl'.pages = ctrl.pages
      /\ UNCHANGED <<conn, main, found, torn, wild>>
      /\ sysStat' \in {"BUSY", "IDLE"}
  <2>1. CASE InquiryComplete
    BY <2>1, NamesAsked DEF InquiryComplete
  <2>2. CASE RemoteNameComplete
    <3>1. ctrl' = [ctrl EXCEPT !.names = ctrl.names - 1]
      BY <2>2 DEF RemoteNameComplete
    <3>2. ctrl.names - 1 \in Nat
      BY <2>2, Types DEF RemoteNameComplete, Controller
    <3>. QED  BY <2>2, <3>1, <3>2, Types DEF RemoteNameComplete, Controller
  <2>3. CASE \E n \in 1 .. MaxResponses : \E ps \in [1 .. n -> Peers] : InquiryResult(ps)
    BY <2>3, Types DEF InquiryResult, IInv, TypeOK
  <2>. QED  BY <2>1, <2>2, <2>3
<1>2. Inquired' /\ inq' \in [Entries -> Addrs] /\ inquiry_results' \in 0 .. Octet - 1
  <2>1. CASE InquiryComplete
    <3>1. ctrl.inquiry
      BY <2>1, Zenon DEF InquiryComplete
    <3>2. UNCHANGED list /\ UNCHANGED main
      BY <2>1, Zenon DEF InquiryComplete
    <3>3. main # "start"
      BY <3>1 DEF IInv, Inquired
    <3>. QED  BY <3>2, <3>3, ListStays
  <2>2. CASE RemoteNameComplete
    <3>1. ctrl'.inquiry = ctrl.inquiry /\ UNCHANGED <<list, main>>
      BY <2>2, Types DEF RemoteNameComplete, Controller
    <3>. QED  BY <3>1, ListStays
  <2>3. CASE \E n \in 1 .. MaxResponses : \E ps \in [1 .. n -> Peers] : InquiryResult(ps)
    BY <2>3, Counted
  <2>. QED  BY <2>1, <2>2, <2>3
<1>3. TypeOK'
  BY <1>1, <1>2 DEF IInv, TypeOK, Controller
<1>4. Table' /\ Place'
  BY <1>1, TableStays, PlaceStays
<1>. QED  BY <1>1, <1>2, <1>3, <1>4, Assembled DEF IInv

\* A request is accepted only for a device without a slot, while main is not
\* between its search and its claim.
LEMMA ConnectionRequestStep ==
    ASSUME IInv, Disciplined, NEW p \in Peers, ConnectionRequest(p)
    PROVE  IInv'
<1>1. /\ InInquiryList(p) /\ main \notin {"found", "claimed"}
      /\ \A s \in Slots : Active(s) => conn[s].addr # p
      /\ UNCHANGED <<list, sysStat, main, found, wild>>
  BY DEF ConnectionRequest, ReplyIsSafe, Disciplined, AssumptionNames
<1>2. Place'
  BY <1>1, NowhereNear
<1>3. CASE get_empty_conn_info = -1
  <2>1. UNCHANGED <<conn, ctrl, torn>>
    BY <1>3 DEF ConnectionRequest
  <2>2. TypeOK' /\ ~torn' /\ Inquired'
    BY <1>1, <2>1, ListStays DEF IInv, TypeOK
  <2>. QED  BY <1>1, <1>2, <2>1, <2>2, TableStays, Assembled
<1>4. CASE get_empty_conn_info # -1
  <2>1. PICK s \in Slots : s = get_empty_conn_info /\ Free(s) /\ StaleBehind(p, s)
    BY <1>1, <1>4, EmptySlot
  <2>2. Accept(p, s)
    BY <1>4, <2>1 DEF ConnectionRequest
  <2>3. /\ Claim(s, p) /\ torn' = FALSE /\ ctrl' \in Controller
        /\ ctrl'.links = ctrl.links /\ ctrl'.pages = ctrl.pages \union {p}
        /\ ctrl'.inquiry = ctrl.inquiry
    <3>. DEFINE c == [ctrl EXCEPT !.pages = @ \union {p}]
    <3>1. c \in Controller /\ c.links = ctrl.links /\ c.pages = ctrl.pages \union {p}
         /\ c.inquiry = ctrl.inquiry
      BY Types DEF Controller
    <3>2. Claim(s, p) /\ torn' = FALSE /\ ctrl' = [c EXCEPT !.names = @ + 1]
      BY <1>1, <2>2 DEF Accept, get_remote_name_request, Claim
    <3>. HIDE DEF c
    <3>. QED  BY <3>1, <3>2 DEF Controller
  <2>4. Table' /\ conn' \in [Slots -> Slot]
    BY <1>1, <2>1, <2>3, ClaimedTable
  <2>5. TypeOK' /\ ~torn' /\ Inquired'
    BY <1>1, <2>3, <2>4, ListStays DEF IInv, TypeOK, Controller
  <2>. QED  BY <1>2, <2>4, <2>5, Assembled
<1>. QED  BY <1>3, <1>4

\* The slot the lookup finds is the pending one; it keeps the handle, or the
\* error of a connection that failed.
LEMMA ConnectionCompleteStep ==
    ASSUME IInv, Disciplined, NEW p \in Peers, NEW h \in Handles \union {NoHandle},
           ConnectionComplete(p, h)
    PROVE  IInv'
<1>1. PICK s \in Slots : PendingAt(p, s)
  BY DEF IInv, Pending, ConnectionComplete
<1>2. /\ MarkConnected(s, h) /\ UNCHANGED <<list, main, found, torn, wild>>
      /\ main \notin {"found", "claimed"} /\ sysStat' = "IDLE"
      /\ h = NoHandle \/ HandleIsFree(h, p)
  BY <1>1, LookupByAddress, SlotsOrdered
     DEF ConnectionComplete, ReplyIsSafe, Disciplined, AssumptionNames
<1>3. /\ conn' \in [Slots -> Slot]
      /\ conn'[s].addr = p /\ (h = NoHandle => conn'[s].err)
      /\ \A r \in Slots \ {s} : conn'[r] = conn[r]
      /\ OneSlotPerPeer' /\ OwnersKnown'
      /\ h # NoHandle => LinkAt(h, p, s)'
      /\ \A q \in Peers \ {p}, r \in Slots : PendingAt(q, r) => PendingAt(q, r)'
      /\ \A g \in Handles \ {h}, q \in Peers \ {p}, r \in Slots :
            LinkAt(g, q, r) => LinkAt(g, q, r)'
  BY <1>1, <1>2, SlotConnected
<1>4. /\ ctrl' \in Controller /\ ctrl'.pages = ctrl.pages \ {p} /\ ctrl'.links[p] = h
      /\ ctrl'.inquiry = ctrl.inquiry
      /\ \A q \in Peers \ {p} : ctrl'.links[q] = ctrl.links[q]
  BY Types DEF ConnectionComplete, Controller
<1>5. Pending'
  <2>. SUFFICES ASSUME NEW q \in ctrl'.pages PROVE \E r \in Slots : PendingAt(q, r)'
    BY DEF Pending
  <2>1. q \in ctrl.pages /\ q \in Peers \ {p}
    BY <1>4, Types DEF Controller
  <2>2. PICK r \in Slots : PendingAt(q, r)
    BY <2>1 DEF IInv, Pending
  <2>. QED  BY <1>3, <2>1, <2>2
<1>6. Linked'
  <2>. SUFFICES ASSUME NEW q \in Peers, NEW g \in Handles, g = ctrl'.links[q]
                PROVE  \E r \in Slots : LinkAt(g, q, r)'
    BY <1>4 DEF Linked, LinkAt, Controller
  <2>1. CASE q = p
    BY <1>3, <1>4, <2>1, Types
  <2>2. CASE q # p
    <3>1. g = ctrl.links[q] /\ g # NoHandle
      BY <1>4, <2>2, Types
    <3>2. g # h
      BY <1>2, <3>1 DEF HandleIsFree
    <3>3. PICK r \in Slots : LinkAt(g, q, r)
      BY <3>1 DEF IInv, Linked
    <3>. QED  BY <1>3, <2>2, <3>2, <3>3
  <2>. QED  BY <2>1, <2>2
<1>7. SlotsNotLeaked'
  <2>. SUFFICES ASSUME NEW r \in Slots, Active(r)'
                PROVE  \/ conn'[r].addr \in ctrl'.pages
                       \/ ctrl'.links[conn'[r].addr] # NoHandle
                       \/ conn'[r].err
    BY DEF SlotsNotLeaked
  <2>1. CASE r = s
    BY <1>3, <1>4, <2>1
  <2>2. CASE r # s
    <3>1. conn'[r] = conn[r] /\ Active(r)
      BY <1>3, <2>2 DEF Active
    <3>2. conn[r].addr \in Peers \ {p}
      BY <1>1, <2>2, <3>1 DEF IInv, OwnersKnown, OneSlotPerPeer, PendingAt, Active
    <3>3. \/ conn[r].addr \in ctrl.pages
          \/ ctrl.links[conn[r].addr] # NoHandle
          \/ conn[r].err
      BY <1>2, <3>1 DEF IInv, SlotsNotLeaked
    <3>. QED  BY <1>4, <3>1, <3>2, <3>3
  <2>. QED  BY <2>1, <2>2
<1>8. Place'
  BY <1>2, NowhereNear
<1>9. TypeOK' /\ ~torn' /\ Inquired'
  BY <1>2, <1>3, <1>4, ListStays DEF IInv, TypeOK, Controller
<1>. QED  BY <1>3, <1>5, <1>6, <1>7, <1>8, <1>9, Assembled DEF Table

\* The slot the lookup by handle finds is the one of the connection that ended.
LEMMA DisconnectionCompleteStep ==
    ASSUME IInv, NEW p \in Peers, DisconnectionComplete(p)
    PROVE  IInv'
<1>1. PICK h \in Handles : h = ctrl.links[p]
  BY Types DEF DisconnectionComplete, Controller
<1>2. PICK s \in Slots : LinkAt(h, p, s)
  BY <1>1, Types DEF IInv, Linked
<1>3. MarkDisconnected(s) /\ UNCHANGED <<list, sysStat, main, found, torn, wild>>
  BY <1>1, <1>2, LookupByHandle, SlotsOrdered DEF DisconnectionComplete
<1>4. /\ conn' \in [Slots -> Slot]
      /\ \A r \in Slots : /\ conn'[r].addr = conn[r].addr
                          /\ conn'[r].status # "DISCONNECTED" => r # s /\ conn'[r] = conn[r]
      /\ OneSlotPerPeer' /\ OwnersKnown'
      /\ \A q \in Peers, r \in Slots :
            /\ PendingAt(q, r) => PendingAt(q, r)'
            /\ Free(r) /\ StaleBehind(q, r) => Free(r)' /\ StaleBehind(q, r)'
      /\ \A g \in Handles, q \in Peers \ {p}, r \in Slots :
            LinkAt(g, q, r) => LinkAt(g, q, r)'
  BY <1>2, <1>3, SlotFreed
<1>5. /\ ctrl' \in Controller /\ ctrl'.pages = ctrl.pages /\ ctrl'.links[p] = NoHandle
      /\ ctrl'.inquiry = ctrl.inquiry
      /\ \A q \in Peers \ {p} : ctrl'.links[q] = ctrl.links[q]
  BY Types DEF DisconnectionComplete, Controller
<1>6. Pending'
  <2>. SUFFICES ASSUME NEW q \in ctrl.pages PROVE \E r \in Slots : PendingAt(q, r)'
    BY <1>5 DEF Pending
  <2>1. q \in Peers
    BY Types DEF Controller
  <2>2. PICK r \in Slots : PendingAt(q, r)
    BY DEF IInv, Pending
  <2>. QED  BY <1>4, <2>1, <2>2
<1>7. Linked'
  <2>. SUFFICES ASSUME NEW q \in Peers \ {p}, NEW g \in Handles, g = ctrl'.links[q]
                PROVE  \E r \in Slots : LinkAt(g, q, r)'
    BY <1>5 DEF Linked, LinkAt, Controller
  <2>1. g = ctrl.links[q] /\ g # NoHandle
    BY <1>5, Types
  <2>2. PICK r \in Slots : LinkAt(g, q, r)
    BY <2>1 DEF IInv, Linked
  <2>. QED  BY <1>4, <2>2
<1>8. SlotsNotLeaked'
  <2>. SUFFICES ASSUME NEW r \in Slots, conn'[r].status # "DISCONNECTED"
                PROVE  \/ main = "claimed" /\ found = r
                       \/ conn'[r].addr \in ctrl'.pages
                       \/ ctrl'.links[conn'[r].addr] # NoHandle
                       \/ conn'[r].err
    BY <1>3 DEF SlotsNotLeaked, Active
  <2>1. conn'[r] = conn[r] /\ Active(r) /\ r # s
    <3>1. \A q \in Slots : conn'[q].status # "DISCONNECTED" => q # s /\ conn'[q] = conn[q]
      BY <1>2, <1>3, SlotFreed, Zenon
    <3>2. conn'[r] = conn[r] /\ r # s
      BY <3>1
    <3>. QED  BY <3>2 DEF Active
  <2>2. conn[r].addr \in Peers \ {p}
    BY <1>2, <2>1 DEF IInv, OwnersKnown, OneSlotPerPeer, LinkAt, Active
  <2>3. \/ main = "claimed" /\ found = r
        \/ conn[r].addr \in ctrl.pages
        \/ ctrl.links[conn[r].addr] # NoHandle
        \/ conn[r].err
    BY <2>1 DEF IInv, SlotsNotLeaked
  <2>. QED  BY <1>5, <2>1, <2>2, <2>3
<1>9. Place'
  <2>1. Searched'
    <3>. SUFFICES ASSUME main = "found" PROVE found \in Slots /\ (Free(found) /\ StaleBehind(Target, found))'
      BY <1>3 DEF Searched
    <3>1. PICK r \in Slots : r = found /\ Free(r) /\ StaleBehind(Target, r)
      BY DEF IInv, Searched
    <3>2. Free(r)' /\ StaleBehind(Target, r)' /\ found' = r
      BY <1>3, <1>4, <3>1, Types
    <3>. QED  BY <3>1, <3>2 DEF Free, StaleBehind
  <2>2. Claimed'
    <3>. SUFFICES ASSUME main = "claimed" PROVE found \in Slots /\ PendingAt(Target, found)'
      BY <1>3 DEF Claimed
    <3>1. PICK r \in Slots : r = found /\ PendingAt(Target, r)
      BY DEF IInv, Claimed
    <3>2. PendingAt(Target, r)' /\ found' = r
      BY <1>3, <1>4, <3>1, Types
    <3>. QED  BY <3>1, <3>2 DEF PendingAt
  <2>. QED  BY <2>1, <2>2 DEF Place
<1>10. TypeOK' /\ ~torn' /\ Inquired'
  BY <1>3, <1>4, <1>5, ListStays DEF IInv, TypeOK, Controller
<1>. QED  BY <1>4, <1>6, <1>7, <1>8, <1>9, <1>10, Assembled DEF Table

LEMMA TableStep ==
    ASSUME Disciplined, IInv, [Next]_vars  PROVE IInv'
<1>1. CASE UNCHANGED vars
  <2>1. Table' /\ Place'
    BY <1>1, TableStays, PlaceStays DEF vars
  <2>2. TypeOK' /\ ~torn' /\ Inquired'
    BY <1>1, ListStays DEF vars, list, IInv, TypeOK
  <2>. QED  BY <2>1, <2>2, Assembled
<1>2. CASE Main
  BY <1>2, QuietMainStep, FindSlotStep, ClaimSlotStep, SendCreateStep DEF Main
<1>3. CASE Events
  BY <1>1, <1>3, QuietEventStep, ConnectionRequestStep, DisconnectionCompleteStep,
     ConnectionCompleteStep DEF Events, DroppedEvent
<1>. QED  BY <1>1, <1>2, <1>3 DEF Next

-----------------------------------------------------------------------------
LEMMA TableInvariance == ASSUME Disciplined  PROVE Spec => []IInv
BY TableInit, TableStep, PTL DEF Spec

\* Types, and neither conn_info nor the inquiry list is accessed outside its
\* bounds, although no handler compares the index it looked up with -1, and the
\* loop over the list runs to a counter that is never compared with its length.
THEOREM TableTypes == ASSUME Disciplined  PROVE Spec => []TypeOK
<1>1. IInv => TypeOK
  BY DEF IInv
<1>. QED  BY <1>1, TableInvariance, PTL

\* No device ever has two slots, whoever claims them.
THEOREM PeerHasOneSlot == ASSUME Disciplined  PROVE Spec => []OneSlotPerPeer
<1>1. IInv => OneSlotPerPeer
  BY DEF IInv
<1>. QED  BY <1>1, TableInvariance, PTL

\* The lookup by address finds the slot of the connection under way.
THEOREM PendingIsFound == ASSUME Disciplined  PROVE Spec => []PendingFound
<1>1. IInv => PendingFound
  BY LookupsFind
<1>. QED  BY <1>1, TableInvariance, PTL

\* The lookup by handle finds the slot of the device the packet comes from.
THEOREM HandleFindsLink == ASSUME Disciplined  PROVE Spec => []HandleNamesLink
<1>1. IInv => HandleNamesLink
  BY LookupsFind
<1>. QED  BY <1>1, TableInvariance, PTL

\* A slot in use is held by main, a page, a connection or a failure.
THEOREM NoSlotLeaks == ASSUME Disciplined  PROVE Spec => []SlotsNotLeaked
<1>1. IInv => SlotsNotLeaked
  BY DEF IInv
<1>. QED  BY <1>1, TableInvariance, PTL

\* The counter of the inquiry list and the list never part, so that no entry is
\* lost and the loop over the names ends at the last one.
THEOREM ListIsCounted == ASSUME Disciplined  PROVE Spec => []ListCounted
<1>1. IInv => ListCounted
  BY DEF IInv, Inquired
<1>. QED  BY <1>1, TableInvariance, PTL
=============================================================================

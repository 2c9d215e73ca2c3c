----------------------------- MODULE ConnTable -----------------------------
(* The connection table conn_info of hci.c, the inquiry list and sys_stat.   *)
(* The main program searches the table, claims a slot and waits on sys_stat; *)
(* the event handlers, which run in the receive interrupt, do the same on    *)
(* behalf of the peers. A handler runs to its end before main goes on, main  *)
(* can be interrupted between any two of the steps below.                    *)
EXTENDS Integers, Sequences, FiniteSets

CONSTANTS
    Peers,                \* Bluetooth addresses of other devices
    Target,               \* testbdaddr, the only device main connects to
    Initiators,           \* the peers that ask us for a connection
    MAX_CONNECTIONS,      \* slots of conn_info
    MAX_INQUIRY_RESULTS,  \* entries of the inquiry list
    Handles,              \* connection handles of the controller
    MaxResponses,         \* bound: responses in one inquiry result event
    MaxNames,             \* bound: remote name requests under way
    Assumed,              \* which of AssumptionNames hold
    NoAddr                \* the address of a slot never used (all zero)

\* What the code relies on and does not establish:
\*   "replies"  no handler that sends runs while main is inside a packet
\*   "buttons"  S1 is pressed for a device not in the table, with a slot free
\*   "handles"  a new connection's handle is not the stale one of another slot
\*   "known"    who asks for a connection was found by the inquiry before
\*   "page"     a page takes longer than main needs to set sys_stat
\*   "retry"    a device whose connection failed does not ask again
\*   "results"  no inquiry result event crosses the end of the list
AssumptionNames ==
    {"replies", "buttons", "handles", "known", "page", "retry", "results"}

Octet == 256     \* values of an uint8_t
IndexMax == 127  \* the largest int8_t, the type of the lookups' index

ASSUME PeersAssumption ==
    /\ Target \in Peers /\ Initiators \subseteq Peers /\ NoAddr \notin Peers
    /\ Assumed \subseteq AssumptionNames
ASSUME SizeAssumption ==
    /\ MAX_CONNECTIONS \in 1 .. IndexMax
    /\ MAX_INQUIRY_RESULTS \in 1 .. IndexMax
    /\ MaxResponses \in 1 .. Octet - 1
    /\ MaxNames \in Nat
ASSUME HandlesAssumption == Handles \subseteq Nat \ {0}

VARIABLES
    conn,     \* conn_info: what of a slot the lookups read
    inq,      \* addresses in the array inq_result_remote_bd_info
    inquiry_results,  \* the uint8_t that counts them
    sysStat,  \* sys_stat
    main,     \* where main is
    found,    \* conn_index of create_connection
    ctrl,     \* the controller: inquiry, remote names, pages and links
    torn,     \* a packet type was sent that no packet followed
    wild      \* conn_info or the inquiry list was accessed outside its bounds

vars == <<conn, inq, inquiry_results, sysStat, main, found, ctrl, torn, wild>>
list == <<inq, inquiry_results>>

Slots == 0 .. MAX_CONNECTIONS - 1
Entries == 0 .. MAX_INQUIRY_RESULTS - 1
Addrs == Peers \union {NoAddr}
NoHandle == 0

Slot == [addr : Addrs,
         status : {"DISCONNECTED", "CONNECTING", "CONNECTED"},
         handle : Handles \union {NoHandle},
         err : BOOLEAN]

Places == {"start", "loop", "found", "claimed", "sent", "waiting"}

-----------------------------------------------------------------------------
(* Lookups: the first slot that matches, -1 if there is none.                *)

First(S) == IF S = {} THEN -1 ELSE CHOOSE s \in S : \A t \in S : s <= t

get_index_from_connection_info(bdaddr) ==
    First({s \in Slots : conn[s].addr = bdaddr})

get_index_from_connection_handle(h) ==
    First({s \in Slots : conn[s].handle = h})

\* Mutant of get_empty_conn_info: the search starts at the last slot.
EmptyFromTheEnd ==
    LET S == {s \in Slots : conn[s].status = "DISCONNECTED"} IN
    IF S = {} THEN -1 ELSE CHOOSE s \in S : \A t \in S : t <= s

get_empty_conn_info == First({s \in Slots : conn[s].status = "DISCONNECTED"})

\* The whole array is searched, not the entries in use.
InInquiryList(bdaddr) == \E i \in Entries : inq[i] = bdaddr

Active(s) == conn[s].status # "DISCONNECTED"

\* Mutant of MarkConnected: the handle is not stored.
MarkConnectedNoHandle(s, h) ==
    conn' = [conn EXCEPT ![s].status = "CONNECTED", ![s].err = (h = NoHandle)]

MarkConnected(s, h) ==
    conn' = [conn EXCEPT ![s].status = "CONNECTED",
                         ![s].err = (h = NoHandle),
                         ![s].handle = h]

\* Mutant of MarkDisconnected: the slot is left as if it were connecting.
MarkDisconnectedWrong(s) == conn' = [conn EXCEPT ![s].status = "CONNECTING"]

MarkDisconnected(s) == conn' = [conn EXCEPT ![s].status = "DISCONNECTED"]

-----------------------------------------------------------------------------
Init ==
    /\ conn = [s \in Slots |-> [addr |-> NoAddr, status |-> "DISCONNECTED",
                                handle |-> NoHandle, err |-> FALSE]]
    /\ inq = [i \in Entries |-> NoAddr]
    /\ inquiry_results = 0
    /\ sysStat = "IDLE"
    /\ main = "start"
    /\ found = -1
    /\ ctrl = [inquiry |-> FALSE, names |-> 0, pages |-> {},
               links |-> [p \in Peers |-> NoHandle]]
    /\ torn = FALSE
    /\ wild = FALSE

-----------------------------------------------------------------------------
(* The main program.                                                         *)

\* sys_stat is set before the payload of the command is sent.
send_inquiry_request ==
    /\ main = "start"
    /\ main' = "loop"
    /\ inquiry_results' = 0
    /\ sysStat' = "BUSY"
    /\ ctrl' = [ctrl EXCEPT !.inquiry = TRUE]
    /\ UNCHANGED <<conn, inq, found, torn, wild>>

\* The operator: S1 before the inquiry has found the target would read
\* inq_result_remote_bd_info[-1], and is left out.
PressIsSafe ==
    /\ InInquiryList(Target)
    /\ "buttons" \in Assumed =>
         /\ get_empty_conn_info # -1
         /\ \A s \in Slots : Active(s) => conn[s].addr # Target

\* create_connection: the packet type is sent, the table is searched.
FindSlot ==
    /\ main = "loop"
    /\ PressIsSafe
    /\ found' = get_empty_conn_info
    /\ main' = "found"
    /\ UNCHANGED <<conn, list, sysStat, ctrl, torn, wild>>

\* Mutant of ClaimSlot: the address is not copied.
ClaimSlotNoAddress ==
    /\ main = "found"
    /\ IF found # -1
         THEN conn' = [conn EXCEPT ![found].status = "CONNECTING"]
         ELSE UNCHANGED conn
    /\ main' = "claimed"
    /\ UNCHANGED <<list, sysStat, found, ctrl, torn, wild>>

\* The slot is filled in, if there is one; conn_info[-1] is read otherwise.
ClaimSlot ==
    /\ main = "found"
    /\ IF found # -1
         THEN /\ conn' = [conn EXCEPT ![found].addr = Target,
                                      ![found].status = "CONNECTING"]
              /\ UNCHANGED wild
         ELSE /\ wild' = TRUE
              /\ UNCHANGED conn
    /\ main' = "claimed"
    /\ UNCHANGED <<list, sysStat, found, ctrl, torn>>

\* The controller refuses to page a device it is connected to, in a Command
\* Status event that the program drops.
SendCreate ==
    /\ main = "claimed"
    /\ ctrl' = IF ctrl.links[Target] # NoHandle \/ torn THEN ctrl
               ELSE [ctrl EXCEPT !.pages = @ \union {Target}]
    /\ main' = "sent"
    /\ UNCHANGED <<conn, list, sysStat, found, torn, wild>>

SetBusy ==
    /\ main = "sent"
    /\ sysStat' = "BUSY"
    /\ main' = "waiting"
    /\ found' = -1
    /\ UNCHANGED <<conn, list, ctrl, torn, wild>>

\* S2: the RFCOMM connection request sends, and does not touch sys_stat.
PressS2 ==
    /\ main = "loop"
    /\ main' = "waiting"
    /\ UNCHANGED <<conn, list, sysStat, found, ctrl, torn, wild>>

wait_until_idle ==
    /\ main = "waiting"
    /\ sysStat = "IDLE"
    /\ main' = "loop"
    /\ UNCHANGED <<conn, list, sysStat, found, ctrl, torn, wild>>

-----------------------------------------------------------------------------
(* The event handlers. What the controller does once a packet was torn is    *)
(* not defined: the model lets it fall silent.                               *)

ReplyIsSafe == "replies" \in Assumed => main \notin {"found", "claimed"}

\* An event with n responses has more than the list has free entries.
Crosses(n) == inquiry_results + n > MAX_INQUIRY_RESULTS

\* The entries from inquiry_results on take the addresses ps, as far as they
\* reach.
StoreResponses(ps) ==
    inq' = [i \in Entries |->
              IF i - inquiry_results \in 0 .. Len(ps) - 1
                THEN ps[i - inquiry_results + 1] ELSE inq[i]]

\* Mutant of CountResponses: counts num_of_responses, which by then is the end
\* of the loops, offset included.
CountOffset(n) ==
    inquiry_results' = (inquiry_results
        + IF Crosses(n) THEN MAX_INQUIRY_RESULTS ELSE inquiry_results + n) % Octet

\* The responses of the event are counted, also those that were cut off.
CountResponses(n) == inquiry_results' = (inquiry_results + n) % Octet

\* An inquiry result with the responses ps. A list that is exactly full drops
\* it; one that would overflow is filled up.
InquiryResult(ps) ==
    /\ ctrl.inquiry /\ ~torn
    /\ "results" \in Assumed =>
         inquiry_results = MAX_INQUIRY_RESULTS \/ ~Crosses(Len(ps))
    /\ IF inquiry_results = MAX_INQUIRY_RESULTS
         THEN UNCHANGED list
         ELSE StoreResponses(ps) /\ CountResponses(Len(ps))
    /\ UNCHANGED <<conn, sysStat, main, found, ctrl, torn, wild>>

\* The names the loop of the inquiry complete event asks for within the list
\* and behind its end.
Listed == IF inquiry_results <= MAX_INQUIRY_RESULTS
          THEN inquiry_results ELSE MAX_INQUIRY_RESULTS
Beyond == inquiry_results - Listed

\* A name is asked for inquiry_results times. What lies behind the list may be
\* an address of the list, or else tears its request.
AskNames ==
    /\ \E known \in 0 .. Beyond :
         /\ ctrl' = [ctrl EXCEPT !.inquiry = FALSE, !.names = @ + Listed + known]
         /\ IF known < Beyond THEN torn' = TRUE ELSE UNCHANGED torn
    /\ IF Beyond > 0 THEN wild' = TRUE ELSE UNCHANGED wild

\* Mutant of InquiryComplete: sys_stat is left to the name events.
InquiryCompleteNotIdle ==
    /\ ctrl.inquiry /\ ~torn
    /\ ReplyIsSafe
    /\ AskNames
    /\ UNCHANGED <<conn, list, sysStat, main, found>>

\* The end of the inquiry: the names of all devices in the list are asked for.
InquiryComplete ==
    /\ ctrl.inquiry /\ ~torn
    /\ ReplyIsSafe
    /\ sysStat' = "IDLE"
    /\ AskNames
    /\ UNCHANGED <<conn, list, main, found>>

RemoteNameComplete ==
    /\ ctrl.names > 0 /\ ~torn
    /\ sysStat' = "IDLE"
    /\ ctrl' = [ctrl EXCEPT !.names = @ - 1]
    /\ UNCHANGED <<conn, list, main, found, torn, wild>>

\* get_remote_name_request sends the packet type before it knows whether the
\* address is in the inquiry list, and sends no more if it is not.
get_remote_name_request(p, c) ==
    /\ ctrl' = IF InInquiryList(p) THEN [c EXCEPT !.names = @ + 1] ELSE c
    /\ torn' = ~InInquiryList(p)

\* Mutant of Accept: the slot is marked only when the connection is complete.
AcceptUnmarked(p, s) ==
    /\ conn' = [conn EXCEPT ![s].addr = p]
    /\ get_remote_name_request(p, [ctrl EXCEPT !.pages = @ \union {p}])

\* A slot is claimed, the connection accepted, and the name asked for.
Accept(p, s) ==
    /\ conn' = [conn EXCEPT ![s].addr = p, ![s].status = "CONNECTING"]
    /\ get_remote_name_request(p, [ctrl EXCEPT !.pages = @ \union {p}])

\* Without a free slot the request is rejected and nothing changes.
ConnectionRequest(p) ==
    /\ p \in Initiators \ ctrl.pages
    /\ ctrl.links[p] = NoHandle
    /\ ctrl.names < MaxNames /\ ~torn
    /\ ReplyIsSafe
    /\ "known" \in Assumed => InInquiryList(p)
    /\ "retry" \in Assumed => \A s \in Slots : Active(s) => conn[s].addr # p
    /\ IF get_empty_conn_info # -1
         THEN Accept(p, get_empty_conn_info)
         ELSE UNCHANGED <<conn, ctrl, torn>>
    /\ UNCHANGED <<list, sysStat, main, found, wild>>

\* A handle no live connection has; if assumed, no other slot remembers it.
HandleIsFree(h, p) ==
    /\ \A q \in Peers : ctrl.links[q] # h
    /\ "handles" \in Assumed =>
         \A s \in Slots : conn[s].handle = h =>
             s = get_index_from_connection_info(p)

\* The slot is found by its address, and is marked connected even if the
\* status of the event is an error. An address that is not in the table writes
\* to conn_info[-1]. The handler then sends an L2CAP connection request.
ConnectionComplete(p, h) ==
    /\ p \in ctrl.pages /\ ~torn
    /\ ReplyIsSafe
    /\ "page" \in Assumed => ~(p = Target /\ main = "sent")
    /\ h = NoHandle \/ HandleIsFree(h, p)
    /\ LET s == get_index_from_connection_info(p) IN
       IF s # -1
         THEN MarkConnected(s, h) /\ UNCHANGED wild
         ELSE wild' = TRUE /\ UNCHANGED conn
    /\ ctrl' = [ctrl EXCEPT !.pages = @ \ {p}, !.links[p] = h]
    /\ sysStat' = "IDLE"
    /\ UNCHANGED <<list, main, found, torn>>

\* The slot is found by its handle. A handle that is not in the table, -1 in an
\* uint8_t, writes to conn_info[255].
DisconnectionComplete(p) ==
    /\ ctrl.links[p] # NoHandle /\ ~torn
    /\ LET s == get_index_from_connection_handle(ctrl.links[p]) IN
       IF s # -1
         THEN MarkDisconnected(s) /\ UNCHANGED wild
         ELSE wild' = TRUE /\ UNCHANGED conn
    /\ ctrl' = [ctrl EXCEPT !.links[p] = NoHandle]
    /\ UNCHANGED <<list, sysStat, main, found, torn>>

\* Command Status, also one that reports a failure, Page Scan Mode, Max Slots,
\* Completed Packets, Role Change and unknown events are read and dropped.
DroppedEvent == ~torn /\ UNCHANGED vars

-----------------------------------------------------------------------------
Main ==
    \/ send_inquiry_request \/ FindSlot \/ ClaimSlot \/ SendCreate
    \/ SetBusy \/ PressS2 \/ wait_until_idle

Events ==
    \/ InquiryComplete \/ RemoteNameComplete \/ DroppedEvent
    \/ \E n \in 1 .. MaxResponses : \E ps \in [1 .. n -> Peers] : InquiryResult(ps)
    \/ \E p \in Peers : \/ ConnectionRequest(p)
                        \/ DisconnectionComplete(p)
                        \/ \E h \in Handles \union {NoHandle} :
                              ConnectionComplete(p, h)

Next == Main \/ Events

\* The processor runs; the controller answers what it was asked. Nobody has to
\* press a button, to ask for a connection or to close one.
Fairness ==
    /\ WF_vars(send_inquiry_request) /\ WF_vars(ClaimSlot)
    /\ WF_vars(SendCreate) /\ WF_vars(SetBusy) /\ WF_vars(wait_until_idle)
    /\ WF_vars(InquiryComplete) /\ WF_vars(RemoteNameComplete)
    /\ \A p \in Peers : WF_vars(\E h \in Handles \union {NoHandle} :
                                    ConnectionComplete(p, h))

Spec == Init /\ [][Next]_vars /\ Fairness

-----------------------------------------------------------------------------
(* Every variable keeps its type, and conn_info and the inquiry list are     *)
(* never accessed outside their bounds, although the handlers of the         *)
(* complete events (hci.c:571, 600) never compare the index they get with    *)
(* -1, nor that of the inquiry (hci.c:764) its counter with the list.        *)
TypeOK ==
    /\ conn \in [Slots -> Slot]
    /\ inq \in [Entries -> Addrs] /\ inquiry_results \in 0 .. Octet - 1
    /\ sysStat \in {"BUSY", "IDLE"}
    /\ main \in Places
    /\ found \in Slots \union {-1}
    /\ ctrl \in [inquiry : BOOLEAN, names : Nat, pages : SUBSET Peers,
                 links : [Peers -> Handles \union {NoHandle}]]
    /\ torn \in BOOLEAN
    /\ wild = FALSE

(* The counter of the inquiry list says which of its entries hold a device,  *)
(* so that the events that follow append behind them and the loop over the   *)
(* list asks for every name once ("Max responses reached", hci.c:393).       *)
ListCounted ==
    /\ inquiry_results <= MAX_INQUIRY_RESULTS
    /\ \A i \in Entries : inq[i] # NoAddr <=> i < inquiry_results

(* Two slots in use never belong to the same device, whichever of main and   *)
(* the handler claimed them (hci.c:978-1009, 511-540).                       *)
OneSlotPerPeer ==
    \A s, t \in Slots : Active(s) /\ Active(t) /\ conn[s].addr = conn[t].addr
                        => s = t

(* The lookup by address that the connection complete handler makes          *)
(* (hci.c:600) finds the slot that was claimed for the connection under way, *)
(* never one that an earlier connection of the same device has left behind.  *)
PendingFound ==
    \A p \in ctrl.pages :
        LET s == get_index_from_connection_info(p) IN
        s # -1 /\ conn[s].status = "CONNECTING"

(* "connection_handle; //Represents the connection between 2 bt devices."    *)
(* (hci.h:298): the handle of a live connection finds the slot of its device *)
(* (hci.c:571, and every L2CAP packet), and that slot is connected.          *)
HandleNamesLink ==
    \A p \in Peers : ctrl.links[p] # NoHandle =>
        LET s == get_index_from_connection_handle(ctrl.links[p]) IN
        s # -1 /\ conn[s].addr = p /\ conn[s].status = "CONNECTED"

(* A slot in use is held by somebody: main is filling it, the controller is  *)
(* working on it, the connection lives, or it failed (hci.c:600-602 marks a  *)
(* failed connection connected, and nothing frees it then).                  *)
SlotsNotLeaked ==
    \A s \in Slots : Active(s) =>
        \/ main = "claimed" /\ found = s
        \/ conn[s].addr \in ctrl.pages
        \/ ctrl.links[conn[s].addr] # NoHandle
        \/ conn[s].err

(* main never spins for ever in wait_until_idle (btdev.c:247, 262).          *)
WaitEnds == main = "waiting" ~> main = "loop"
=============================================================================

--------------------------- MODULE AclReassembly ----------------------------
(* Reassembly of L2CAP packets from ACL data packets (hci.c), in the one     *)
(* buffer l2cap_pkt_buff that all connections share with the requests the    *)
(* host builds. An octet is known by its sender, its packet (its size and a  *)
(* bit that tells a packet from the one before) and its place in it.         *)
(* ACL packets arrive whole and in order: that is what HciRx is about.       *)
EXTENDS Integers, Sequences

CONSTANTS
    Links,              \* connections
    Sizes,              \* payload sizes of the L2CAP packets the peers send
    L2CAP_HEADER_SIZE,
    L2CAP_BUFF_SIZE,
    AclMax,             \* the largest ACL packet of the controller
    ConnReqSize,        \* payload size of the L2CAP connection request
    SabmSize,           \* payload size of the SABM frame
    Assumed,            \* which of AssumptionNames hold
    Host, Nobody        \* who wrote an octet, besides the peers

\* What the code relies on and does not establish:
\*   "turns"  a packet is whole before another begins, on whatever connection
\*   "quiet"  no connection completes between the fragments of a packet
\*   "still"  main builds its request not between the fragments of a packet,
\*            and no ACL data comes in while it does
AssumptionNames == {"turns", "quiet", "still"}

ASSUME SendersAssumption ==
    Host \notin Links /\ Nobody \notin Links /\ Host # Nobody
ASSUME AclSizeAssumption ==
    /\ L2CAP_HEADER_SIZE \in Nat \ {0} /\ L2CAP_BUFF_SIZE \in Nat
    /\ AclMax \in Nat /\ AclMax >= L2CAP_HEADER_SIZE
    /\ Sizes \union {ConnReqSize, SabmSize} \subseteq
           0 .. L2CAP_BUFF_SIZE - L2CAP_HEADER_SIZE
ASSUME AssumedAssumption == Assumed \subseteq AssumptionNames

VARIABLES
    buff,       \* l2cap_pkt_buff
    index,      \* l2cap_buff_index
    l2cap_len,
    cur,        \* the packet each peer is sending and how much of it was sent
    processed,  \* what the latest ACL packet made process_l2cap_pkt work on
    due,        \* the packet the latest ACL packet completed
    main        \* where main is in rfcomm_connect_request

vars == <<buff, index, l2cap_len, cur, processed, due, main>>

Octet == [from : Links \union {Host, Nobody}, bit : {0, 1}, size : Nat, at : Nat]
Zero == [from |-> Nobody, bit |-> 0, size |-> 0, at |-> 0]
Cleared == [i \in 0 .. L2CAP_BUFF_SIZE - 1 |-> Zero]

Total(n) == L2CAP_HEADER_SIZE + n

OctetOf(from, bit, n, i) == [from |-> from, bit |-> bit, size |-> n, at |-> i]

\* A packet as the sequence of its octets.
PacketOf(from, bit, n) == [i \in 1 .. Total(n) |-> OctetOf(from, bit, n, i - 1)]

\* The buffer after k octets from the first-th on of a packet were put at i.
Stored(i, from, bit, n, first, k) ==
    [j \in DOMAIN buff |->
        IF i <= j /\ j < i + k THEN OctetOf(from, bit, n, first + j - i)
                               ELSE buff[j]]

\* The packet a buffer holds, by the length in its header.
Contents(b) == [i \in 1 .. Total(b[0].size) |-> b[i - 1]]

Init ==
    /\ buff = Cleared /\ index = 0 /\ l2cap_len = 0
    /\ cur = [l \in Links |-> [size |-> 0, sent |-> 0, bit |-> 0]]
    /\ processed = << >> /\ due = << >>
    /\ main = "idle"

Whole == \A l \in Links : cur[l].sent = 0

-----------------------------------------------------------------------------
(* The peers, by way of the controller, and what hci_rx_pkt_handler does.    *)

\* The peer has sent k octets more of a packet of n.
Sent(l, n, k) ==
    LET bit == cur[l].bit  all == cur[l].sent + k IN
    IF all = Total(n)
      THEN /\ cur' = [cur EXCEPT ![l] = [size |-> 0, sent |-> 0, bit |-> 1 - bit]]
           /\ due' = PacketOf(l, bit, n)
      ELSE /\ cur' = [cur EXCEPT ![l] = [size |-> n, sent |-> all, bit |-> bit]]
           /\ due' = << >>

\* Mutant of Process: the index is not set back.
ProcessKeepIndex(b) ==
    /\ processed' = Contents(b)
    /\ buff' = Cleared
    /\ UNCHANGED index

\* process_l2cap_pkt, which may build its reply in the same buffer; then the
\* buffer is cleared.
Process(b) ==
    /\ processed' = Contents(b)
    /\ buff' = Cleared
    /\ index' = 0

\* Mutant of Keep: the index is added to itself.
KeepAddsIndex(b, i) ==
    /\ buff' = b
    /\ index' = index + i
    /\ processed' = << >>

Keep(b, i) ==
    /\ buff' = b
    /\ index' = i
    /\ processed' = << >>

\* Mutant of StartFragments: the header is not added to the length.
StartFragmentsNoHeader(l, n, k) ==
    /\ l2cap_len' = n
    /\ Keep(Stored(0, l, cur[l].bit, n, 0, k), k)

\* A first packet that is not the whole one: the buffer is started anew.
StartFragments(l, n, k) ==
    /\ l2cap_len' = n + L2CAP_HEADER_SIZE
    /\ Keep(Stored(0, l, cur[l].bit, n, 0, k), k)

FirstPacket(l, n, k) ==
    /\ cur[l].sent = 0
    /\ k \in L2CAP_HEADER_SIZE .. AclMax /\ k <= Total(n)
    /\ "turns" \in Assumed => Whole
    /\ "still" \in Assumed => main = "idle"
    /\ Sent(l, n, k)
    /\ \/ k - L2CAP_HEADER_SIZE # n /\ StartFragments(l, n, k)
       \/ /\ k - L2CAP_HEADER_SIZE = n
          /\ l2cap_len' = n
          /\ Process(Stored(index, l, cur[l].bit, n, 0, k))
    /\ UNCHANGED main

ContinuingFragment(l, k) ==
    LET c == cur[l]
        b == Stored(index, l, c.bit, c.size, c.sent, k)
    IN
    /\ c.sent > 0
    /\ k \in 1 .. AclMax /\ c.sent + k <= Total(c.size)
    /\ "still" \in Assumed => main = "idle"
    /\ Sent(l, c.size, k)
    /\ \/ l2cap_len = index + k /\ l2cap_len' = 0 /\ Process(b)
       \/ l2cap_len # index + k /\ UNCHANGED l2cap_len /\ Keep(b, index + k)
    /\ UNCHANGED main

\* The host writes the k octets from the first-th on of a packet of its own,
\* and leaves index and l2cap_len alone.
HostWrites(n, first, k) ==
    /\ buff' = Stored(first, Host, 0, n, first, k)
    /\ UNCHANGED <<index, l2cap_len, cur, processed, due>>

\* l2cap_connect_request, in the handler of a connection complete event.
ConnectRequest ==
    /\ "quiet" \in Assumed => Whole
    /\ HostWrites(ConnReqSize, 0, Total(ConnReqSize))
    /\ UNCHANGED main

\* rfcomm_connect_request, in the program: first the payload of the packet
\* (create_rfcomm_pkt), then its header (create_l2cap_bframe_rfcomm_pkt).
BuildSabm ==
    /\ main = "idle"
    /\ "still" \in Assumed => Whole
    /\ main' = "building"
    /\ HostWrites(SabmSize, L2CAP_HEADER_SIZE, SabmSize)

BuildHeader ==
    /\ main = "building"
    /\ main' = "idle"
    /\ HostWrites(SabmSize, 0, L2CAP_HEADER_SIZE)

-----------------------------------------------------------------------------
Next ==
    \/ \E l \in Links, n \in Sizes, k \in 1 .. AclMax : FirstPacket(l, n, k)
    \/ \E l \in Links, k \in 1 .. AclMax : ContinuingFragment(l, k)
    \/ ConnectRequest
    \/ BuildSabm \/ BuildHeader

Spec == Init /\ [][Next]_vars

-----------------------------------------------------------------------------
(* Types; the index stays inside the buffer, which no line of hci.c:892-929  *)
(* checks.                                                                   *)
TypeOK ==
    /\ buff \in [0 .. L2CAP_BUFF_SIZE - 1 -> Octet]
    /\ index \in 0 .. L2CAP_BUFF_SIZE
    /\ l2cap_len \in 0 .. L2CAP_BUFF_SIZE
    /\ cur \in [Links -> [size : Nat, sent : Nat, bit : {0, 1}]]
    /\ processed \in Seq(Octet) /\ due \in Seq(Octet)
    /\ main \in {"idle", "building"}

(* "Fragmentation buffer handling ... Done" (todo.txt:80): process_l2cap_pkt *)
(* runs exactly when the last fragment of a packet has come, and on exactly  *)
(* the octets of that packet, in order (hci.c:892-929).                      *)
Reassembled == processed = due
=============================================================================

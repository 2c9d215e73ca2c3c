------------------------------- MODULE HciRx -------------------------------
(***************************************************************************)
(* The receive path: the RX half of USCI_A2_ISR (hal_uart_dma.c), the flow *)
(* control by RTS and UCRXIE, and the packet parser hci_rx_pkt_handler     *)
(* (hci.c), which the interrupt calls when readblksize bytes are there.    *)
(*                                                                         *)
(* The handler re-opens the receiver itself, with set_read_blk_size, while *)
(* it is still running.  A payload handler that replies has set gie by     *)
(* then (hal_uart_dma_send_data does), so the next byte interrupts it:     *)
(* handlers nest, and "frames" is the stack of the unfinished ones.        *)
(*                                                                         *)
(* The bytes of the stream are numbered; a byte in rx_q is its number, and *)
(* offered says what each number is (packet type, header or payload).      *)
(***************************************************************************)
EXTENDS CircularQueue, Sequences

CONSTANTS
  MaxPackets,       \* bound: packets the controller sends
  EventLengths,     \* parameter lengths of the events it sends
  AclLengths,       \* data lengths of the ACL packets it sends
  LoopCounterMax    \* largest value of the uint8_t that counts payload bytes

ASSUME LengthsAssumption == EventLengths \subseteq Nat /\ AclLengths \subseteq Nat
ASSUME LoopCounterAssumption == LoopCounterMax \in Nat

VARIABLES
  rx_q,          \* the receive queue
  readblksize,   \* bytes the handler waits for
  evt_state,     \* what the parser expects next
  pktLen,        \* len or acl_data_len, kept from the header to the payload
  stop,          \* RTS is high: the controller must not begin a character
  ucRxIe,        \* UCRXIE: receive interrupt enabled
  gie,           \* global interrupt enable
  frames,        \* what each unfinished payload handler has left to do
  booted,        \* how far hci_state_init has come
  offered,       \* packets the controller began to send
  nextByte,      \* number of the next byte it will send
  shifting,      \* the byte on the line, 0 if none
  rxbuf,         \* the byte in UCA2RXBUF with UCRXIFG set, 0 if none
  handled        \* packets the host acted on

hostVars == <<rx_q, readblksize, evt_state, pktLen, stop, ucRxIe, gie, frames, handled>>
lineVars == <<offered, nextByte, shifting, rxbuf>>
vars == <<hostVars, lineVars, booted>>

States == {"NONE", "PACKET_TYPE", "ACL_HEADER", "ACL_PAYLOAD", "EVENT_HEADER", "EVENT_PAYLOAD"}

\* Mutant of HCI_ACL_HEADER_SIZE: the length field is counted as one byte.
ShortAclHeader == 3

HCI_EVT_HEADER_SIZE == 2
HCI_ACL_HEADER_SIZE == 4

\* What the controller puts on the line: type, header, payload.
HeaderOnLine(kind) == IF kind = "acl" THEN 4 ELSE 2

Size(pkt) == 1 + HeaderOnLine(pkt.kind) + pkt.len

\* The packet byte number b belongs to.
PacketOf(b) ==
  CHOOSE k \in DOMAIN offered : b \in offered[k].first .. offered[k].first + Size(offered[k]) - 1

\* The packet types a byte can read as: a first byte is one, any other byte
\* can have any value.
TypesRead(b) ==
  IF offered[PacketOf(b)].first = b THEN {offered[PacketOf(b)].kind}
  ELSE {"acl", "evt", "sync", "unknown"}

Init ==
  /\ rx_q = cq_init
  /\ readblksize = 0
  /\ evt_state = "NONE"
  /\ pktLen = 0
  /\ stop = TRUE
  /\ ucRxIe = TRUE
  /\ gie = TRUE
  /\ frames = << >>
  /\ booted = "off"
  /\ offered = << >>
  /\ nextByte = 1
  /\ shifting = 0
  /\ rxbuf = 0
  /\ handled = << >>

-----------------------------------------------------------------------------
(* The controller                                                           *)

Packets == [kind : {"evt"}, len : EventLengths] \cup [kind : {"acl"}, len : AclLengths]

\* It has nothing to say before the first command, which follows
\* hci_state_init, and it sends its packets one after the other.
OfferPacket(pkt) ==
  /\ booted = "ready"
  /\ Len(offered) < MaxPackets
  /\ offered # << >> =>
       LET last == offered[Len(offered)] IN nextByte = last.first + Size(last)
  /\ offered' = Append(offered, [kind |-> pkt.kind, len |-> pkt.len, first |-> nextByte])
  /\ UNCHANGED <<hostVars, nextByte, shifting, rxbuf, booted>>

\* A character begins only while RTS is low; one under way is finished.
BeginByte ==
  /\ ~stop
  /\ shifting = 0
  /\ offered # << >>
  /\ LET last == offered[Len(offered)] IN nextByte < last.first + Size(last)
  /\ shifting' = nextByte
  /\ nextByte' = nextByte + 1
  /\ UNCHANGED <<hostVars, offered, rxbuf, booted>>

(***************************************************************************)
(* A character takes about 1400 cycles.  The handler needs a few dozen     *)
(* from re-opening the receiver to its return, and an interrupt that is    *)
(* pending and enabled is taken at once: no character ends there.          *)
(***************************************************************************)
CharTimePasses ==
  /\ ~(gie /\ ucRxIe /\ rxbuf # 0)
  /\ frames # << >> => Head(frames) # << >>

\* A byte still in UCA2RXBUF is overrun by the next one.
ByteArrives ==
  /\ shifting # 0
  /\ CharTimePasses
  /\ rxbuf' = shifting
  /\ shifting' = 0
  /\ UNCHANGED <<hostVars, offered, nextByte, booted>>

-----------------------------------------------------------------------------
(* hci_state_init, in the program: set_read_blk_size(1), then the state     *)

InitBlkSize ==
  /\ booted = "off"
  /\ booted' = "open"
  /\ readblksize' = 1
  /\ ucRxIe' = TRUE
  /\ stop' = FALSE
  /\ UNCHANGED <<rx_q, evt_state, pktLen, gie, frames, handled, lineVars>>

InitState ==
  /\ booted = "open"
  /\ booted' = "ready"
  /\ evt_state' = "PACKET_TYPE"
  /\ UNCHANGED <<rx_q, readblksize, pktLen, stop, ucRxIe, gie, frames, handled, lineVars>>

-----------------------------------------------------------------------------
(* The receive interrupt                                                    *)

\* Mutant of StayClosed: the receive interrupt stays enabled.
StayClosedRtsOnly ==
  /\ ucRxIe' = TRUE
  /\ stop' = TRUE
  /\ UNCHANGED <<evt_state, readblksize>>

\* What the end of a step of hci_rx_pkt_handler does: the new state, and
\* set_read_blk_size, which opens the receiver.
Expect(state, blksize) ==
  /\ evt_state' = state
  /\ readblksize' = blksize
  /\ ucRxIe' = TRUE
  /\ stop' = FALSE

\* The receiver stays closed: nothing but set_read_blk_size opens it.
StayClosed ==
  /\ ucRxIe' = FALSE
  /\ stop' = TRUE
  /\ UNCHANGED <<evt_state, readblksize>>

\* Reading one byte after the other is what cq_discard does to the counters.
Read(q, n) == cq_discard(q, n)

PacketType(q) ==
  /\ rx_q' = cq_del(q)
  /\ \E type \in TypesRead(Front(q)) :
       CASE type = "acl" -> Expect("ACL_HEADER", HCI_ACL_HEADER_SIZE)
         [] type = "evt" -> Expect("EVENT_HEADER", HCI_EVT_HEADER_SIZE)
         [] type = "sync" -> StayClosed
         [] OTHER -> Expect("PACKET_TYPE", 1)
  /\ UNCHANGED <<pktLen, gie, frames, handled>>

AclHeader(q) ==
  /\ rx_q' = Read(q, HCI_ACL_HEADER_SIZE)
  /\ pktLen' = offered[PacketOf(Front(q))].len
  /\ Expect("ACL_PAYLOAD", pktLen')
  /\ UNCHANGED <<gie, frames, handled>>

\* Mutant of EventHeader: the test for an event without parameters is dropped.
EventHeaderNoTest(q) ==
  /\ rx_q' = Read(q, HCI_EVT_HEADER_SIZE)
  /\ pktLen' = offered[PacketOf(Front(q))].len
  /\ Expect("EVENT_PAYLOAD", pktLen')
  /\ UNCHANGED <<gie, frames, handled>>

\* An event without parameters is over with its header.
EventHeader(q) ==
  /\ rx_q' = Read(q, HCI_EVT_HEADER_SIZE)
  /\ pktLen' = offered[PacketOf(Front(q))].len
  /\ IF pktLen' = 0
     THEN /\ Expect("PACKET_TYPE", 1)
          /\ handled' = Append(handled, offered[PacketOf(Front(q))])
     ELSE /\ Expect("EVENT_PAYLOAD", pktLen')
          /\ UNCHANGED handled
  /\ UNCHANGED <<gie, frames>>

\* Mutant of PayloadTail: the receiver is opened before the state is set.
PayloadTailSwapped == <<"set_read_blk_size", "set_rx_state">>

\* The two steps every payload handler ends with, in this order.
PayloadTail == <<"set_rx_state", "set_read_blk_size">>

(***************************************************************************)
(* handle_hci_event, and the ACL branches: the payload is read (or dropped *)
(* as a whole by cq_reset), the handler goes on with interrupts off and    *)
(* the receiver closed.  An ACL payload is copied in loops that count its  *)
(* bytes in a uint8_t: past LoopCounterMax such a loop does not end.       *)
(* hci.c:894-930 reads packets whose boundary flag says first (flushable)  *)
(* or continuing, the two a controller sends.  For any other flag it has   *)
(* no branch and would leave the payload in rx_q: such packets are not     *)
(* offered here.                                                           *)
(***************************************************************************)
Payload(q) ==
  /\ StayClosed
  /\ gie' = FALSE
  /\ IF evt_state = "ACL_PAYLOAD" /\ pktLen > LoopCounterMax
     THEN /\ frames' = << <<"loops">> >> \o frames
          /\ UNCHANGED <<rx_q, handled>>
     ELSE /\ frames' = << <<"work">> \o PayloadTail >> \o frames
          /\ \/ rx_q' = Read(q, pktLen)
             \/ evt_state = "EVENT_PAYLOAD" /\ rx_q' = cq_reset(q)
          /\ handled' = Append(handled, offered[PacketOf(Front(q))])
  /\ UNCHANGED pktLen

\* switch(evt_state) of hci_rx_pkt_handler, on the queue with the new byte.
hci_rx_pkt_handler(q) ==
  CASE evt_state = "PACKET_TYPE" -> PacketType(q)
    [] evt_state = "ACL_HEADER" -> AclHeader(q)
    [] evt_state = "EVENT_HEADER" -> EventHeader(q)
    [] evt_state \in {"ACL_PAYLOAD", "EVENT_PAYLOAD"} -> Payload(q)
    [] OTHER -> /\ StayClosed
                /\ rx_q' = q
                /\ UNCHANGED <<pktLen, gie, frames, handled>>

\* USCI_A2_ISR case 0x02.  A full queue loses the byte and closes the
\* receiver without calling the handler.
RxIsr ==
  /\ gie /\ ucRxIe /\ rxbuf # 0
  /\ rxbuf' = 0
  /\ IF cq_is_full(rx_q)
     THEN /\ StayClosed
          /\ UNCHANGED <<rx_q, pktLen, gie, frames, handled>>
     ELSE LET q == cq_add(rx_q, rxbuf)
          IN  IF cq_used_size(q) >= readblksize
              THEN hci_rx_pkt_handler(q)
              ELSE /\ rx_q' = q
                   /\ UNCHANGED <<readblksize, evt_state, pktLen, stop, ucRxIe, gie, frames, handled>>
  /\ UNCHANGED <<offered, nextByte, shifting, booted>>

-----------------------------------------------------------------------------
(* The rest of a payload handler: the innermost frame runs                  *)

Doing(step) == frames # << >> /\ Head(frames) # << >> /\ Head(Head(frames)) = step

StepDone == frames' = << Tail(Head(frames)) >> \o Tail(frames)

\* What the payload asks for, up to the first reply, which sets gie.
Reply ==
  /\ Doing("work")
  /\ gie' = TRUE
  /\ UNCHANGED <<rx_q, readblksize, evt_state, pktLen, stop, ucRxIe, frames, handled, lineVars, booted>>

WorkDone ==
  /\ Doing("work")
  /\ StepDone
  /\ UNCHANGED <<rx_q, readblksize, evt_state, pktLen, stop, ucRxIe, gie, handled, lineVars, booted>>

SetRxState ==
  /\ Doing("set_rx_state")
  /\ StepDone
  /\ evt_state' = "PACKET_TYPE"
  /\ UNCHANGED <<rx_q, readblksize, pktLen, stop, ucRxIe, gie, handled, lineVars, booted>>

SetReadBlkSize ==
  /\ Doing("set_read_blk_size")
  /\ StepDone
  /\ readblksize' = 1
  /\ ucRxIe' = TRUE
  /\ stop' = FALSE
  /\ UNCHANGED <<rx_q, evt_state, pktLen, gie, handled, lineVars, booted>>

\* RETI: the interrupted context had gie set.
Return ==
  /\ frames # << >> /\ Head(frames) = << >>
  /\ frames' = Tail(frames)
  /\ gie' = TRUE
  /\ UNCHANGED <<rx_q, readblksize, evt_state, pktLen, stop, ucRxIe, handled, lineVars, booted>>

HandlerStep == WorkDone \/ SetRxState \/ SetReadBlkSize \/ Return

Next ==
  \/ \E pkt \in Packets : OfferPacket(pkt)
  \/ BeginByte
  \/ ByteArrives
  \/ InitBlkSize
  \/ InitState
  \/ RxIsr
  \/ Reply
  \/ HandlerStep

(***************************************************************************)
(* The processor runs, an open receiver is served, and a controller that   *)
(* has begun a packet sends its bytes as RTS lets it.  It need not offer   *)
(* any packet, and a handler need not reply.                               *)
(***************************************************************************)
Fairness ==
  /\ WF_vars(InitBlkSize) /\ WF_vars(InitState)
  /\ WF_vars(RxIsr)
  /\ WF_vars(HandlerStep)
  /\ WF_vars(BeginByte) /\ WF_vars(ByteArrives)

Spec == Init /\ [][Next]_vars /\ Fairness

-----------------------------------------------------------------------------
(* Properties                                                               *)

\* Every variable keeps its type.
TypeOK ==
  /\ rx_q \in Queue
  /\ readblksize \in UInt16 /\ pktLen \in UInt16
  /\ evt_state \in States
  /\ stop \in BOOLEAN /\ ucRxIe \in BOOLEAN /\ gie \in BOOLEAN
  /\ frames \in Seq(Seq({"work", "loops", "set_rx_state", "set_read_blk_size"}))
  /\ booted \in {"off", "open", "ready"}
  /\ nextByte \in Nat /\ shifting \in Nat /\ rxbuf \in Nat

\* The first byte the parser has not read: it is in the queue, in the UART,
\* on the line or not sent.
Unread ==
  IF ~cq_is_empty(rx_q) THEN Front(rx_q)
  ELSE IF rxbuf # 0 THEN rxbuf
  ELSE IF shifting # 0 THEN shifting
  ELSE nextByte

\* The unread byte is byte number n of a packet (0 is its first) of that kind
\* and length; what follows the last packet is the start of another.
UnreadIs(n, kinds, lens) ==
  \E k \in DOMAIN offered :
    /\ Unread = offered[k].first + n
    /\ n < Size(offered[k])
    /\ offered[k].kind \in kinds
    /\ offered[k].len \in lens

BetweenPackets ==
  \/ UnreadIs(0, {"evt", "acl"}, UInt16)
  \/ \A k \in DOMAIN offered : Unread >= offered[k].first + Size(offered[k])

(***************************************************************************)
(* The parser is where it believes to be: whenever the receiver is open,   *)
(* the next unread byte is a packet type if it waits for one, the first    *)
(* byte of a header of the right kind, or the first byte of a payload of   *)
(* the length it kept.                                                     *)
(***************************************************************************)
ParserInSync ==
  (ucRxIe /\ booted = "ready") =>
    \/ evt_state = "PACKET_TYPE" /\ readblksize = 1 /\ BetweenPackets
    \/ evt_state = "ACL_HEADER" /\ readblksize = 4 /\ UnreadIs(1, {"acl"}, UInt16)
    \/ evt_state = "EVENT_HEADER" /\ readblksize = 2 /\ UnreadIs(1, {"evt"}, UInt16)
    \/ evt_state = "ACL_PAYLOAD" /\ UnreadIs(5, {"acl"}, {readblksize})
    \/ evt_state = "EVENT_PAYLOAD" /\ UnreadIs(3, {"evt"}, {readblksize})

(***************************************************************************)
(* The receiver cannot stall: when no payload handler is unfinished it is  *)
(* open, RTS lets the controller send, and the queue has the room for what *)
(* is missing of the block the handler waits for.                          *)
(***************************************************************************)
ReceiverOpen ==
  (frames = << >> /\ booted = "ready") =>
    /\ ucRxIe /\ ~stop
    /\ cq_used_size(rx_q) < readblksize
    /\ readblksize <= MODSIZE

\* A payload handler is never interrupted by another payload handler: the
\* statics of the parser and l2cap_pkt_buff have one user at a time.
OneHandler == Len(frames) <= 1

\* Every packet the controller sends is acted on in the end.
EveryPacketHandled ==
  \A n \in 1 .. MaxPackets : Len(offered) >= n ~> Len(handled) >= n

\* The parser implements PacketFeed: every packet is handled, once, in order.
Feed == INSTANCE PacketFeed

FeedSpec == Feed!Spec
=============================================================================

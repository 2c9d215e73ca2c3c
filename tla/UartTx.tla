------------------------------- MODULE UartTx -------------------------------
(***************************************************************************)
(* The transmit path of hal_uart_dma.c with its callers in hci.c.          *)
(*                                                                         *)
(* Three actors share tx_q.  "main" is the program, "rx" is the UART       *)
(* interrupt handler serving a received block (it replies to the peer from *)
(* inside the interrupt), and TxIsr is the same handler serving "transmit  *)
(* buffer empty".  The two producers run one and the same function,        *)
(* hal_uart_dma_send_data, called in a loop until a chunk is queued        *)
(* (hci_send_data_chk), a packet being a few chunks.                       *)
(*                                                                         *)
(* There is one processor: main stands still while rx runs, an interrupt   *)
(* is taken only while gie is set, a handler starts with gie cleared, and  *)
(* the function itself sets gie again, so that TxIsr nests in rx.          *)
(***************************************************************************)
EXTENDS CircularQueue, Sequences

CONSTANTS
  MaxPackets,    \* bound: packets each producer sends
  MaxPayload,    \* bound: bytes in the last chunk of a packet
  Unrestricted   \* may a reply start in the middle of main's own send?

ASSUME BoundsAssumption == MaxPackets \in [{"main", "rx"} -> Nat] /\ MaxPayload \in Nat \ {0}
ASSUME UnrestrictedAssumption == Unrestricted \in BOOLEAN

VARIABLES
  tx_q,       \* the transmit queue
  gie,        \* the processor's global interrupt enable bit
  ucTxIe,     \* UCTXIE: transmit interrupt enabled
  ucTxIfg,    \* UCTXIFG: transmit interrupt pending
  txBusy,     \* the UART still holds the byte last written to UCA2TXBUF
  pc,         \* where each producer is
  chunks,     \* bytes its packet still has to queue, chunk by chunk
  len,        \* adds left in its call of hal_uart_dma_send_data
  loaded,     \* the curfreesize its cq_add has loaded
  packets,    \* packets it has started
  accepted,   \* number of cq_add calls so far; the n-th byte has number n
  wire        \* what was written to UCA2TXBUF, in order

queueVars == <<tx_q, accepted>>
uartVars == <<ucTxIe, ucTxIfg, txBusy, wire>>
procVars == <<pc, chunks, len, loaded, packets>>
vars == <<queueVars, uartVars, procVars, gie>>

Producers == {"main", "rx"}

(***************************************************************************)
(* Places in a producer.  idle: not sending (rx: not in the handler);      *)
(* wait: the loop on cq_is_full in send_hci_cmd; snap .. entx: inside      *)
(* hal_uart_dma_send_data; reti: the rx handler has nothing more to send   *)
(* and has not returned yet.                                               *)
(***************************************************************************)
InSendData == {"snap", "add", "count", "fin", "entx"}
Places == {"idle", "wait", "reti"} \cup InSendData

\* A command is the packet type and one buffer; an ACL packet the packet
\* type, the handle, the length and the payload.
Packet(kind, n) == IF kind = "cmd" THEN <<1, n>> ELSE <<1, 2, 2, n>>

Init ==
  /\ tx_q = cq_init
  /\ gie = TRUE
  /\ ucTxIe = FALSE
  /\ ucTxIfg = TRUE
  /\ txBusy = FALSE
  /\ pc = [p \in Producers |-> "idle"]
  /\ chunks = [p \in Producers |-> << >>]
  /\ len = [p \in Producers |-> 0]
  /\ loaded = [p \in Producers |-> 0]
  /\ packets = [p \in Producers |-> 0]
  /\ accepted = 0
  /\ wire = << >>

Running(p) == p = "rx" \/ pc["rx"] = "idle"

At(p, place) == Running(p) /\ pc[p] = place

Goto(p, place) == pc' = [pc EXCEPT ![p] = place]

-----------------------------------------------------------------------------
(* Packets: main calls one of the functions of hci.c or l2cap.c; a received *)
(* block makes the handler send from inside the interrupt.                  *)

\* A packet of a command starts with send_hci_cmd's wait for a free slot.
StartPacket(p, kind, n) ==
  /\ packets[p] < MaxPackets[p]
  /\ packets' = [packets EXCEPT ![p] = @ + 1]
  /\ chunks' = [chunks EXCEPT ![p] = Packet(kind, n)]
  /\ Goto(p, IF kind = "cmd" THEN "wait" ELSE "snap")
  /\ UNCHANGED <<queueVars, uartVars, len, loaded>>

MainSend(kind, n) ==
  /\ At("main", "idle")
  /\ StartPacket("main", kind, n)
  /\ UNCHANGED gie

(***************************************************************************)
(* The conditions nothing in the code establishes, and that the transmit   *)
(* path needs all the same: a reply starts when main is not in the middle  *)
(* of a send, and the reply is not a command while the queue is full.      *)
(***************************************************************************)
ReplyIsSafe(kind) ==
  /\ pc["main"] = "idle"
  /\ kind = "cmd" => ~cq_is_full(tx_q)

\* USCI_A2_ISR case 0x02, up to the first packet the handler sends.
RxIsrEnter(kind, n) ==
  /\ pc["rx"] = "idle"
  /\ gie
  /\ Unrestricted \/ ReplyIsSafe(kind)
  /\ StartPacket("rx", kind, n)
  /\ gie' = FALSE

\* The handler sends one more packet before it returns.
RxSendMore(kind, n) ==
  /\ pc["rx"] = "reti"
  /\ Unrestricted \/ ReplyIsSafe(kind)
  /\ StartPacket("rx", kind, n)
  /\ UNCHANGED gie

\* RETI restores the status register the interrupt found, with gie set.
RxIsrReturn ==
  /\ pc["rx"] = "reti"
  /\ Goto("rx", "idle")
  /\ gie' = TRUE
  /\ UNCHANGED <<queueVars, uartVars, chunks, len, loaded, packets>>

\* while(cq_is_full(&tx_q)); -- at the head of send_hci_cmd.
WaitNotFull(p) ==
  /\ At(p, "wait")
  /\ ~cq_is_full(tx_q)
  /\ Goto(p, "snap")
  /\ UNCHANGED <<queueVars, uartVars, chunks, len, loaded, packets, gie>>

-----------------------------------------------------------------------------
(* hal_uart_dma_send_data                                                   *)

AtMost(a, b) == IF a < b THEN a ELSE b

\* Mutant of Snapshot: len is not cut down to the free size.
SnapshotUnclamped(p) ==
  /\ At(p, "snap")
  /\ gie' = FALSE
  /\ len' = [len EXCEPT ![p] = Head(chunks[p])]
  /\ Goto(p, "add")
  /\ UNCHANGED <<queueVars, uartVars, chunks, loaded, packets>>

\* Disable interrupts, take the free size, cut len down to it.
Snapshot(p) ==
  /\ At(p, "snap")
  /\ gie' = FALSE
  /\ LET n == AtMost(cq_freesize(tx_q), Head(chunks[p]))
     IN  /\ len' = [len EXCEPT ![p] = n]
         /\ Goto(p, IF n = 0 THEN "fin" ELSE "add")
  /\ UNCHANGED <<queueVars, uartVars, chunks, loaded, packets>>

\* Mutant of AddByte: the __disable_interrupt() in the loop is dropped.
AddByteInterruptible(p) ==
  /\ At(p, "add")
  /\ accepted' = accepted + 1
  /\ tx_q' = AddStore(tx_q, accepted + 1)
  /\ loaded' = [loaded EXCEPT ![p] = tx_q.curfreesize]
  /\ Goto(p, "count")
  /\ UNCHANGED <<uartVars, chunks, len, packets, gie>>

\* Disable interrupts, first half of cq_add.
AddByte(p) ==
  /\ At(p, "add")
  /\ gie' = FALSE
  /\ accepted' = accepted + 1
  /\ tx_q' = AddStore(tx_q, accepted + 1)
  /\ loaded' = [loaded EXCEPT ![p] = tx_q.curfreesize]
  /\ Goto(p, "count")
  /\ UNCHANGED <<uartVars, chunks, len, packets>>

\* Second half of cq_add, enable interrupts, next turn of the loop.
CountByte(p) ==
  /\ At(p, "count")
  /\ tx_q' = AddCount(tx_q, loaded[p])
  /\ gie' = TRUE
  /\ len' = [len EXCEPT ![p] = @ - 1]
  /\ chunks' = [chunks EXCEPT ![p] = <<Head(@) - 1>> \o Tail(@)]
  /\ Goto(p, IF len[p] = 1 THEN "fin" ELSE "add")
  /\ UNCHANGED <<uartVars, loaded, packets, accepted>>

\* Mutant of EnableInterrupts: the call behind the loop is dropped.
EnableInterruptsDropped(p) ==
  /\ At(p, "fin")
  /\ Goto(p, "entx")
  /\ UNCHANGED <<queueVars, uartVars, chunks, len, loaded, packets, gie>>

\* The __enable_interrupt() behind the loop.
EnableInterrupts(p) ==
  /\ At(p, "fin")
  /\ gie' = TRUE
  /\ Goto(p, "entx")
  /\ UNCHANGED <<queueVars, uartVars, chunks, len, loaded, packets>>

\* enable_uart_tx_interrupt() and the return to hci_send_data_chk, which
\* calls again for what was not queued, or goes on with the next chunk.
EnableTx(p) ==
  /\ At(p, "entx")
  /\ ucTxIe' = TRUE
  /\ LET left == IF Head(chunks[p]) = 0 THEN Tail(chunks[p]) ELSE chunks[p]
     IN  /\ chunks' = [chunks EXCEPT ![p] = left]
         /\ Goto(p, IF left # << >> THEN "snap" ELSE IF p = "rx" THEN "reti" ELSE "idle")
  /\ UNCHANGED <<queueVars, ucTxIfg, txBusy, wire, len, loaded, packets, gie>>

-----------------------------------------------------------------------------
(* The transmit interrupt and the UART                                      *)

\* Mutant of TxIsr: the second test for an empty queue is dropped, so that
\* UCTXIE stays set behind the last byte.
TxIsrSingleTest ==
  /\ gie /\ ucTxIe /\ ucTxIfg
  /\ ucTxIfg' = FALSE
  /\ IF cq_is_empty(tx_q)
     THEN /\ ucTxIe' = FALSE
          /\ UNCHANGED <<tx_q, txBusy, wire>>
     ELSE /\ wire' = Append(wire, Front(tx_q))
          /\ txBusy' = TRUE
          /\ tx_q' = cq_del(tx_q)
          /\ UNCHANGED ucTxIe
  /\ UNCHANGED <<accepted, procVars, gie>>

\* USCI_A2_ISR case 0x04.  Reading UCA2IV takes the pending flag away;
\* writing UCA2TXBUF occupies the UART.
TxIsr ==
  /\ gie /\ ucTxIe /\ ucTxIfg
  /\ ucTxIfg' = FALSE
  /\ IF cq_is_empty(tx_q)
     THEN /\ ucTxIe' = FALSE
          /\ UNCHANGED <<tx_q, txBusy, wire>>
     ELSE /\ wire' = Append(wire, Front(tx_q))
          /\ txBusy' = TRUE
          /\ tx_q' = cq_del(tx_q)
          /\ ucTxIe' = ~cq_is_empty(tx_q')
  /\ UNCHANGED <<accepted, procVars, gie>>

(***************************************************************************)
(* One character takes about 1400 cycles (115200 baud, 16 MHz), the code   *)
(* between the last cq_add and enable_uart_tx_interrupt() a dozen: no      *)
(* character ends there, unless a handler runs in between.                 *)
(***************************************************************************)
CharTimePasses ==
  LET p == IF pc["rx"] = "idle" THEN "main" ELSE "rx"
  IN  pc[p] \notin {"fin", "entx"}

\* The UART can take another byte, and raises UCTXIFG.
UartReady ==
  /\ txBusy
  /\ CharTimePasses
  /\ txBusy' = FALSE
  /\ ucTxIfg' = TRUE
  /\ UNCHANGED <<queueVars, ucTxIe, wire, procVars, gie>>

-----------------------------------------------------------------------------
Kinds == {"cmd", "acl"}

SendData(p) ==
  \/ WaitNotFull(p)
  \/ Snapshot(p)
  \/ AddByte(p)
  \/ CountByte(p)
  \/ EnableInterrupts(p)
  \/ EnableTx(p)

Next ==
  \/ \E kind \in Kinds, n \in 1 .. MaxPayload :
        \/ MainSend(kind, n)
        \/ RxIsrEnter(kind, n)
        \/ RxSendMore(kind, n)
  \/ \E p \in Producers : SendData(p)
  \/ RxIsrReturn
  \/ TxIsr
  \/ UartReady

(***************************************************************************)
(* The processor never stops and the UART shifts its byte out.  A pending  *)
(* enabled interrupt is taken before the interrupted code goes on, so one  *)
(* that is enabled again and again is taken: strong fairness for TxIsr.    *)
(* So does a loop of send_data calls on a full queue give the UART the     *)
(* time for a character: strong fairness for UartReady, whose window       *)
(* CharTimePasses closes and opens on every turn.                          *)
(* Nothing obliges main to send, nor the peer to make rx reply.            *)
(***************************************************************************)
Fairness ==
  /\ \A p \in Producers : WF_vars(SendData(p))
  /\ WF_vars(RxIsrReturn)
  /\ SF_vars(TxIsr)
  /\ SF_vars(UartReady)

Spec == Init /\ [][Next]_vars /\ Fairness

-----------------------------------------------------------------------------
(* Properties                                                               *)

\* Every variable keeps its type; start and end stay inside the buffer.
TypeOK ==
  /\ tx_q \in Queue
  /\ gie \in BOOLEAN /\ ucTxIe \in BOOLEAN /\ ucTxIfg \in BOOLEAN /\ txBusy \in BOOLEAN
  /\ pc \in [Producers -> Places]
  /\ chunks \in [Producers -> Seq(Nat)]
  /\ len \in [Producers -> Nat]
  /\ loaded \in [Producers -> UInt16]
  /\ packets \in [Producers -> Nat]
  /\ accepted \in Nat
  /\ wire \in Seq(Byte)

\* The free size the queue has, or will have when the cq_add under way is done.
EffectiveFree ==
  IF \E p \in Producers : pc[p] = "count" THEN tx_q.curfreesize - 1 ELSE tx_q.curfreesize

(***************************************************************************)
(* check() of hal_uart_dma.c, the program's own assertion on tx_q: whenever *)
(* no cq_add is half done, start, end and curfreesize agree.               *)
(***************************************************************************)
Check ==
  (\A p \in Producers : pc[p] # "count") =>
    /\ tx_q.start < tx_q.end => MODSIZE - (tx_q.end - tx_q.start) = tx_q.curfreesize
    /\ tx_q.end < tx_q.start => (tx_q.start - tx_q.end) - 1 = tx_q.curfreesize

(***************************************************************************)
(* The snapshot of the free size stays good for the whole loop: what is    *)
(* left to add always fits, because curfreesize can only have grown since. *)
(***************************************************************************)
SnapshotHolds ==
  \A p \in Producers : pc[p] \in {"add", "count"} => len[p] <= tx_q.curfreesize

(***************************************************************************)
(* No queued byte is stranded: when nobody is about to enable the transmit *)
(* interrupt, a queue that holds bytes has it enabled, with a pending      *)
(* request or a character on its way that will raise one.                  *)
(***************************************************************************)
TransmitterArmed ==
  (/\ ~cq_is_empty(tx_q)
   /\ \A p \in Producers : pc[p] \notin {"add", "count", "fin", "entx"})
    => ucTxIe /\ (ucTxIfg \/ txBusy)

\* The wire carries exactly the bytes accepted, in the order they were
\* accepted, and everything accepted is sent: tx_q implements ByteStream.
Stream == INSTANCE ByteStream WITH Capacity <- MODSIZE, delivered <- wire

StreamSpec == Stream!Spec

\* A send that was begun comes to its end: the busy waits of
\* hci_send_data_chk and send_hci_cmd terminate, in the interrupt handler too.
SendCompletes == \A p \in Producers : pc[p] # "idle" ~> pc[p] = "idle"
=============================================================================

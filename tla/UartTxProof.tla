---------------------------- MODULE UartTxProof ----------------------------
(***************************************************************************)
(* The transmit path for every queue size, packet size and number of       *)
(* packets, under the discipline ReplyIsSafe (Unrestricted = FALSE).       *)
(*                                                                         *)
(* None of the properties is inductive alone.  The strengthening adds what *)
(* each step relies on: at most one producer is inside a send, a half-done *)
(* cq_add has interrupts off and an up-to-date copy of curfreesize, the    *)
(* bytes in the queue are the accepted ones the wire has not carried, and  *)
(* UCTXIE is never set over an empty queue.                                *)
(***************************************************************************)
EXTENDS UartTx, CircularQueueProof, SequenceTheorems

OneProducer == pc["main"] = "idle" \/ pc["rx"] = "idle"

\* A sender has a chunk under way, and only the one under way can be used up.
Chunked ==
  \A p \in Producers :
    /\ pc[p] \in InSendData \cup {"wait"} =>
         chunks[p] # << >> /\ Tail(chunks[p]) \in Seq(Nat \ {0})
    /\ pc[p] \in {"wait", "snap"} => chunks[p] \in Seq(Nat \ {0})

Adding ==
  \A p \in Producers : pc[p] \in {"add", "count"} =>
    1 <= len[p] /\ len[p] <= Head(chunks[p]) /\ len[p] <= tx_q.curfreesize

Counting ==
  \A p \in Producers : pc[p] = "count" =>
    ~gie /\ loaded[p] = tx_q.curfreesize /\ loaded[p] <= MODSIZE

Ring == Agree(tx_q, EffectiveFree)

Order ==
  /\ accepted = Len(wire) + Used(EffectiveFree)
  /\ \A i \in 0 .. Used(EffectiveFree) - 1 : cq_peek(tx_q, i) = Len(wire) + 1 + i

\* The window between the last cq_add and enable_uart_tx_interrupt().
InWindow(p) == pc[p] \in {"fin", "entx"}

Armed ==
  /\ ucTxIfg \/ txBusy
  /\ ucTxIe => tx_q.curfreesize # MODSIZE
  /\ \A p \in Producers : InWindow(p) =>
        /\ tx_q.curfreesize <= MODSIZE - 1
        /\ ucTxIe /\ ucTxIfg => tx_q.curfreesize <= MODSIZE - 2
  /\ TransmitterArmed

\* The inductive invariant.
IInv == TypeOK /\ OneProducer /\ Chunked /\ Adding /\ Counting /\ Ring /\ Order /\ Armed
-----------------------------------------------------------------------------
(* Sequences of chunks                                                      *)

\* Taking one byte off the first chunk.
LEMMA FirstChunk ==
  ASSUME NEW s \in Seq(Nat), s # << >>, Head(s) >= 1
  PROVE  /\ <<Head(s) - 1>> \o Tail(s) \in Seq(Nat)
         /\ <<Head(s) - 1>> \o Tail(s) # << >>
         /\ Head(<<Head(s) - 1>> \o Tail(s)) = Head(s) - 1
         /\ Tail(<<Head(s) - 1>> \o Tail(s)) = Tail(s)
<1> DEFINE t == <<Head(s) - 1>> \o Tail(s)
<1>1. Head(s) \in Nat /\ Tail(s) \in Seq(Nat)
  BY HeadTailProperties
<1>2. <<Head(s) - 1>> \in Seq(Nat) /\ Len(<<Head(s) - 1>>) = 1
  BY <1>1
<1>3. /\ t \in Seq(Nat) /\ Len(t) = 1 + Len(Tail(s)) /\ t[1] = Head(s) - 1
      /\ \A i \in 1 .. Len(Tail(s)) : t[1 + i] = Tail(s)[i]
  BY <1>1, <1>2, ConcatProperties
<1>4. t # << >> /\ Head(t) = Head(s) - 1
  BY <1>1, <1>3
<1>5. Tail(t) = Tail(s)
  <2>1. /\ Tail(t) \in Seq(Nat) /\ Len(Tail(t)) = Len(Tail(s))
        /\ \A i \in 1 .. Len(Tail(s)) : Tail(t)[i] = t[i + 1]
    BY <1>1, <1>3, <1>4, HeadTailProperties
  <2>2. \A i \in 1 .. Len(Tail(s)) : Tail(t)[i] = Tail(s)[i]
    BY <1>1, <1>3, <2>1
  <2>. HIDE DEF t
  <2>. QED  BY <1>1, <2>1, <2>2, SeqEqual
<1>. QED  BY <1>3, <1>4, <1>5

\* Going on with the packet: the used-up first chunk is dropped.
LEMMA NextChunk ==
  ASSUME NEW s \in Seq(Nat), s # << >>, Tail(s) \in Seq(Nat \ {0}),
         NEW t, t = IF Head(s) = 0 THEN Tail(s) ELSE s
  PROVE  /\ t \in Seq(Nat \ {0})
         /\ t # << >> => Tail(t) \in Seq(Nat \ {0})
<1>1. Head(s) \in Nat
  BY HeadTailProperties
<1>2. CASE Head(s) = 0
  BY <1>2, HeadTailProperties
<1>3. CASE Head(s) # 0
  <2>1. <<Head(s)>> \in Seq(Nat \ {0})
    BY <1>1, <1>3
  <2>2. s = <<Head(s)>> \o Tail(s)
    BY HeadTailProperties
  <2>. QED  BY <1>3, <2>1, <2>2, ConcatProperties
<1>. QED  BY <1>2, <1>3

\* Every chunk of a packet has something to send.
LEMMA PacketIsSeq ==
  ASSUME NEW kind, NEW n \in Nat \ {0}
  PROVE  Packet(kind, n) \in Seq(Nat \ {0}) /\ Packet(kind, n) # << >>
<1>1. 1 \in Nat \ {0} /\ 2 \in Nat \ {0}
  OBVIOUS
<1>2. CASE kind = "cmd"
  BY <1>1, <1>2 DEF Packet
<1>3. CASE kind # "cmd"
  <2>. DEFINE P == Nat \ {0}
  <2>1. 1 \in P /\ 2 \in P /\ n \in P
    BY <1>1
  <2>2. HIDE DEF P
  <2>3. <<1, 2, 2, n>> \in Seq(P)
    BY <2>1
  <2>. QED  BY <1>3, <2>3 DEF Packet, P
<1>. QED  BY <1>2, <1>3

\* A sequence of positive numbers is one of numbers.
LEMMA PositiveSeq ==
  ASSUME NEW s \in Seq(Nat \ {0})
  PROVE  s \in Seq(Nat) /\ (s # << >> => Head(s) >= 1 /\ Tail(s) \in Seq(Nat \ {0}))
<1>1. s \in Seq(Nat)
  BY SeqMonotonic
<1>. QED  BY <1>1, HeadTailProperties

-----------------------------------------------------------------------------
(* The initial states                                                       *)

LEMMA InitIInv == Init => IInv
<1> SUFFICES ASSUME Init  PROVE IInv
  OBVIOUS
<1>1. TypeOK
  <2>1. chunks \in [Producers -> Seq(Nat)]
    BY DEF Init
  <2>2. 0 \in UInt16
    BY BuffSizeAssumption DEF UInt16
  <2>. QED  BY <2>1, <2>2, InitAgrees DEF Init, TypeOK, Places, Producers, Byte
<1>2. EffectiveFree = MODSIZE /\ tx_q.curfreesize = MODSIZE
  BY DEF Init, EffectiveFree, Producers, cq_init
<1>3. Ring
  BY <1>2, InitAgrees DEF Ring, Init
<1>4. Order
  BY <1>2, ModSizeRange DEF Init, Order, Used
<1>5. OneProducer /\ Chunked /\ Adding /\ Counting
  BY DEF Init, OneProducer, Chunked, Adding, Counting, InSendData, Producers
<1>6. Armed
  BY <1>2, ModSizeRange DEF Init, Armed, InWindow, TransmitterArmed, Producers, cq_is_empty
<1>. QED  BY <1>1, <1>3, <1>4, <1>5, <1>6 DEF IInv

-----------------------------------------------------------------------------
(* The steps                                                                *)

\* A step that touches neither the queue nor the wire, and neither begins nor
\* ends a cq_add, keeps what is said about the queue's contents.
LEMMA QueueSame ==
  ASSUME Ring, Order, UNCHANGED <<tx_q, wire, accepted>>, EffectiveFree' = EffectiveFree
  PROVE  Ring' /\ Order'
  BY DEF Ring, Order, Used, Agree, cq_peek, SlotOf

\* A producer begins a packet, with the other one outside its sends.
LEMMA StartPacketStep ==
  ASSUME IInv, NEW p \in Producers, NEW kind \in Kinds, NEW n \in 1 .. MaxPayload,
         StartPacket(p, kind, n), pc[p] \in {"idle", "reti"},
         \A q \in Producers \ {p} : pc[q] = "idle",
         gie' \in BOOLEAN
  PROVE  IInv'
<1> USE DEF StartPacket, queueVars, uartVars, procVars, Goto
<1>1. /\ Packet(kind, n) \in Seq(Nat \ {0}) /\ Packet(kind, n) \in Seq(Nat)
      /\ Packet(kind, n) # << >> /\ Tail(Packet(kind, n)) \in Seq(Nat \ {0})
  <2>1. n \in Nat \ {0}
    BY BoundsAssumption
  <2>. QED  BY <2>1, PacketIsSeq, PositiveSeq
<1>2. TypeOK'
  BY <1>1 DEF IInv, TypeOK, Places, InSendData
<1>3. OneProducer'
  BY DEF IInv, TypeOK, OneProducer, Producers
<1>4. Chunked'
  BY <1>1 DEF IInv, TypeOK, Chunked, Producers, InSendData
<1>5. Adding' /\ Counting'
  BY DEF IInv, TypeOK, Adding, Counting, Producers
<1>6. EffectiveFree' = EffectiveFree
  BY DEF IInv, TypeOK, EffectiveFree, Producers
<1>7. Ring' /\ Order'
  BY <1>6, QueueSame DEF IInv
<1>8. Armed'
  BY DEF IInv, TypeOK, Armed, InWindow, TransmitterArmed, Producers, cq_is_empty
<1>. QED  BY <1>2, <1>3, <1>4, <1>5, <1>7, <1>8 DEF IInv

\* A producer that is not idle is the only one.
LEMMA Alone ==
  ASSUME IInv, NEW p \in Producers, pc[p] # "idle"
  PROVE  \A q \in Producers \ {p} : pc[q] = "idle"
  BY DEF IInv, OneProducer, Producers

\* RETI: only gie and the place change.
LEMMA RxIsrReturnStep == ASSUME IInv, RxIsrReturn  PROVE IInv'
<1> USE DEF RxIsrReturn, queueVars, uartVars, Goto
<1>1. TypeOK' /\ OneProducer' /\ Chunked' /\ Adding' /\ Counting'
  BY DEF IInv, TypeOK, Places, InSendData, OneProducer, Chunked, Adding, Counting, Producers
<1>2. EffectiveFree' = EffectiveFree
  BY DEF IInv, TypeOK, EffectiveFree, Producers
<1>3. Ring' /\ Order'
  BY <1>2, QueueSame DEF IInv
<1>4. Armed'
  BY DEF IInv, TypeOK, Armed, InWindow, TransmitterArmed, Producers, cq_is_empty
<1>. QED  BY <1>1, <1>3, <1>4 DEF IInv

\* The end of the wait changes the place only.
LEMMA WaitNotFullStep ==
  ASSUME IInv, NEW p \in Producers, WaitNotFull(p)  PROVE IInv'
<1> USE DEF WaitNotFull, At, queueVars, uartVars, Goto
<1>1. TypeOK' /\ OneProducer' /\ Chunked' /\ Adding' /\ Counting'
  BY DEF IInv, TypeOK, Places, InSendData, OneProducer, Chunked, Adding, Counting, Producers
<1>2. EffectiveFree' = EffectiveFree
  BY DEF IInv, TypeOK, EffectiveFree, Producers
<1>3. Ring' /\ Order'
  BY <1>2, QueueSame DEF IInv
<1>4. Armed'
  BY DEF IInv, TypeOK, Armed, InWindow, TransmitterArmed, Producers, cq_is_empty
<1>. QED  BY <1>1, <1>3, <1>4 DEF IInv

\* The snapshot is at most what is free and at most what is left to queue; a
\* full queue of at least two bytes outlives the one byte the window allows.
LEMMA SnapshotStep ==
  ASSUME IInv, NEW p \in Producers, Snapshot(p)  PROVE IInv'
<1> USE DEF Snapshot, At, queueVars, uartVars, Goto
<1> DEFINE n == AtMost(cq_freesize(tx_q), Head(chunks[p]))
<1>1. /\ tx_q \in Queue /\ tx_q.curfreesize \in Nat
      /\ chunks[p] \in Seq(Nat) /\ Head(chunks[p]) \in Nat /\ Head(chunks[p]) >= 1
  BY HeadTailProperties, PositiveSeq DEF IInv, TypeOK, Chunked, InSendData, Queue, UInt16
<1>2. n \in Nat /\ n <= tx_q.curfreesize /\ n <= Head(chunks[p])
  BY <1>1 DEF AtMost, cq_freesize
<1>3. TypeOK'
  BY <1>2 DEF IInv, TypeOK, Places, InSendData
<1>4. OneProducer' /\ Chunked' /\ Counting'
  BY DEF IInv, TypeOK, InSendData, OneProducer, Chunked, Counting, Producers
<1>5. Adding'
  BY <1>1, <1>2, Alone DEF IInv, TypeOK, Adding, Producers
<1>6. EffectiveFree' = EffectiveFree
  BY DEF IInv, TypeOK, EffectiveFree, Producers
<1>7. Ring' /\ Order'
  BY <1>6, QueueSame DEF IInv
<1>8. Armed'
  <2>1. pc'[p] = "add" \/ (pc'[p] = "fin" /\ n = 0)
    BY DEF IInv, TypeOK
  <2>2. CASE pc'[p] = "add"
    BY <2>2, Alone DEF IInv, TypeOK, Armed, InWindow, TransmitterArmed, Producers
  <2>3. CASE pc'[p] = "fin" /\ n = 0
    <3>1. tx_q.curfreesize = 0
      BY <1>1, <2>3 DEF AtMost, cq_freesize
    <3>2. TransmitterArmed'
      BY <2>3 DEF TransmitterArmed
    <3>. QED  BY <3>1, <3>2, ModSizeRange DEF IInv, Armed
  <2>. QED  BY <2>1, <2>2, <2>3
<1>. QED  BY <1>3, <1>4, <1>5, <1>7, <1>8 DEF IInv

\* The byte is stored behind the others and curfreesize is about to follow.
LEMMA AddByteStep ==
  ASSUME IInv, NEW p \in Producers, AddByte(p)  PROVE IInv'
<1> USE DEF AddByte, At, uartVars, Goto
<1> DEFINE c == tx_q.curfreesize
<1>1. /\ tx_q \in Queue /\ c \in UInt16 /\ c \in Nat /\ pc[p] = "add" /\ pc'[p] = "count"
      /\ \A q \in Producers \ {p} : pc[q] = "idle" /\ pc'[q] = "idle"
  <2>1. tx_q \in Queue /\ pc \in [Producers -> Places]
    BY DEF IInv, TypeOK
  <2>2. c \in UInt16 /\ c \in Nat
    BY <2>1, ModSizeRange DEF Queue, UInt16
  <2>. QED  BY <2>1, <2>2, Alone
<1>2. EffectiveFree = c /\ c \in 1 .. MODSIZE
  <2>1. EffectiveFree = c
    BY <1>1 DEF EffectiveFree
  <2>2. len[p] \in Nat /\ 1 <= len[p] /\ len[p] <= c
    BY <1>1 DEF IInv, TypeOK, Adding
  <2>. QED  BY <1>1, <2>1, <2>2, ModSizeRange DEF IInv, Ring, Agree
<1>3. accepted \in Nat /\ accepted + 1 \in Byte
  BY DEF IInv, TypeOK, Byte
<1>4. /\ tx_q' \in Queue /\ tx_q'.curfreesize = c /\ Agree(tx_q', c - 1)
      /\ \A i \in 0 .. Used(c) - 1 : cq_peek(tx_q', i) = cq_peek(tx_q, i)
      /\ cq_peek(tx_q', Used(c)) = accepted + 1
  BY <1>1, <1>2, <1>3, AddStoreAgrees DEF IInv, Ring
<1>5. EffectiveFree' = c - 1
  BY <1>1, <1>4 DEF EffectiveFree
<1>6. TypeOK'
  <2>1. accepted' \in Nat
    BY <1>3
  <2>2. loaded' \in [Producers -> UInt16]
    BY <1>1 DEF IInv, TypeOK
  <2>3. pc' \in [Producers -> Places]
    BY DEF IInv, TypeOK, Places, InSendData
  <2>. QED  BY <1>4, <2>1, <2>2, <2>3 DEF IInv, TypeOK
<1>7. OneProducer' /\ Chunked'
  BY DEF IInv, TypeOK, InSendData, OneProducer, Chunked, Producers
<1>8. Adding' /\ Counting'
  BY <1>1, <1>2, <1>4 DEF IInv, TypeOK, Adding, Counting
<1>9. Ring'
  BY <1>4, <1>5 DEF Ring
<1>10. Order'
  <2>1. Len(wire) \in Nat /\ accepted = Len(wire) + Used(c)
    BY <1>2 DEF IInv, TypeOK, Order
  <2>2. Used(c) \in Nat /\ Used(c - 1) = Used(c) + 1
    BY <1>2, ModSizeRange DEF Used
  <2>3. \A i \in 0 .. Used(c) - 1 : cq_peek(tx_q', i) = Len(wire) + 1 + i
    BY <1>2, <1>4 DEF IInv, Order
  <2>4. cq_peek(tx_q', Used(c)) = Len(wire) + 1 + Used(c)
    BY <1>4, <2>1, <2>2
  <2>5. \A i \in 0 .. Used(c - 1) - 1 : i \in 0 .. Used(c) - 1 \/ i = Used(c)
    BY <2>2
  <2>. QED  BY <1>5, <2>1, <2>2, <2>3, <2>4, <2>5 DEF Order
<1>11. Armed'
  <2>1. TransmitterArmed'
    BY <1>1 DEF TransmitterArmed
  <2>2. \A q \in Producers : ~InWindow(q)'
    BY <1>1 DEF InWindow
  <2>. QED  BY <1>4, <2>1, <2>2 DEF IInv, Armed
<1>. QED  BY <1>6, <1>7, <1>8, <1>9, <1>10, <1>11 DEF IInv

\* curfreesize catches up; nobody changed it since it was loaded.
LEMMA CountByteStep ==
  ASSUME IInv, NEW p \in Producers, CountByte(p)  PROVE IInv'
<1> USE DEF CountByte, At, uartVars, Goto
<1> DEFINE c == tx_q.curfreesize
<1>1. /\ tx_q \in Queue /\ pc[p] = "count" /\ pc'[p] \in {"add", "fin"}
      /\ \A q \in Producers \ {p} : pc[q] = "idle" /\ pc'[q] = "idle"
  BY Alone DEF IInv, TypeOK
<1>2. /\ len[p] \in Nat /\ 1 <= len[p] /\ len[p] <= Head(chunks[p]) /\ len[p] <= c
      /\ loaded[p] = c /\ c \in 1 .. MODSIZE /\ EffectiveFree = c - 1
      /\ len'[p] = len[p] - 1 /\ (pc'[p] = "add" => 1 <= len[p] - 1)
  <2>1. len[p] \in Nat /\ 1 <= len[p] /\ len[p] <= Head(chunks[p]) /\ len[p] <= c
    BY <1>1 DEF IInv, TypeOK, Adding
  <2>2. loaded[p] = c /\ c <= MODSIZE /\ c \in Nat
    BY <1>1 DEF IInv, Counting, TypeOK, Queue, UInt16
  <2>3. EffectiveFree = c - 1
    BY <1>1 DEF EffectiveFree
  <2>4. len'[p] = len[p] - 1 /\ (pc'[p] = "add" => len[p] # 1)
    BY DEF IInv, TypeOK
  <2>. QED  BY <2>1, <2>2, <2>3, <2>4, ModSizeRange
<1>3. /\ tx_q' \in Queue /\ tx_q'.curfreesize = c - 1 /\ Agree(tx_q', c - 1)
      /\ \A i \in Nat : cq_peek(tx_q', i) = cq_peek(tx_q, i)
  BY <1>1, <1>2, AddCountAgrees DEF IInv, Ring
<1>4. EffectiveFree' = c - 1
  BY <1>1, <1>3 DEF EffectiveFree
<1>5. /\ chunks[p] \in Seq(Nat) /\ chunks[p] # << >> /\ Head(chunks[p]) \in Nat
      /\ Head(chunks[p]) >= 1 /\ Tail(chunks[p]) \in Seq(Nat \ {0})
  BY <1>1, <1>2, HeadTailProperties DEF IInv, TypeOK, Chunked, InSendData
<1>6. /\ chunks'[p] \in Seq(Nat) /\ chunks'[p] # << >>
      /\ Head(chunks'[p]) = Head(chunks[p]) - 1 /\ Tail(chunks'[p]) = Tail(chunks[p])
  BY <1>5, FirstChunk DEF IInv, TypeOK
<1>7. TypeOK'
  <2>1. chunks' \in [Producers -> Seq(Nat)]
    BY <1>6 DEF IInv, TypeOK
  <2>2. len' \in [Producers -> Nat]
    <3>1. len[p] - 1 \in Nat
      BY <1>2
    <3>. QED  BY <3>1 DEF IInv, TypeOK
  <2>3. pc' \in [Producers -> Places]
    BY DEF IInv, TypeOK, Places, InSendData
  <2>. QED  BY <1>3, <2>1, <2>2, <2>3 DEF IInv, TypeOK
<1>8. OneProducer' /\ Counting'
  BY <1>1 DEF IInv, OneProducer, Counting, Producers
<1>9. Chunked'
  BY <1>1, <1>5, <1>6 DEF Chunked, InSendData
<1>10. Adding'
  BY <1>1, <1>2, <1>3, <1>5, <1>6 DEF Adding
<1>11. Ring' /\ Order'
  BY <1>2, <1>3, <1>4, ModSizeRange DEF IInv, Ring, Order, Used
<1>12. Armed'
  <2>1. TransmitterArmed'
    BY <1>1 DEF TransmitterArmed
  <2>2. tx_q'.curfreesize <= MODSIZE - 1 /\ tx_q'.curfreesize # MODSIZE
    BY <1>2, <1>3, ModSizeRange
  <2>3. ucTxIe => tx_q'.curfreesize <= MODSIZE - 2
    BY <1>2, <1>3, ModSizeRange DEF IInv, Armed
  <2>. QED  BY <2>1, <2>2, <2>3 DEF IInv, Armed
<1>. QED  BY <1>7, <1>8, <1>9, <1>10, <1>11, <1>12 DEF IInv

\* Only gie and the place change.
LEMMA EnableInterruptsStep ==
  ASSUME IInv, NEW p \in Producers, EnableInterrupts(p)  PROVE IInv'
<1> USE DEF EnableInterrupts, At, queueVars, uartVars, Goto
<1>1. TypeOK' /\ OneProducer' /\ Chunked' /\ Adding'
  BY DEF IInv, TypeOK, Places, InSendData, OneProducer, Chunked, Adding, Producers
<1>2. Counting'
  BY Alone DEF IInv, TypeOK, Counting
<1>3. EffectiveFree' = EffectiveFree
  BY DEF IInv, TypeOK, EffectiveFree, Producers
<1>4. Ring' /\ Order'
  BY <1>3, QueueSame DEF IInv
<1>5. Armed'
  BY DEF IInv, TypeOK, Armed, InWindow, TransmitterArmed, Producers, cq_is_empty
<1>. QED  BY <1>1, <1>2, <1>4, <1>5 DEF IInv

\* At least one byte is still queued when UCTXIE is set.
LEMMA EnableTxStep ==
  ASSUME IInv, NEW p \in Producers, EnableTx(p)  PROVE IInv'
<1> USE DEF EnableTx, At, queueVars, Goto
<1> DEFINE left == IF Head(chunks[p]) = 0 THEN Tail(chunks[p]) ELSE chunks[p]
<1>1. /\ chunks[p] \in Seq(Nat) /\ chunks[p] # << >> /\ Tail(chunks[p]) \in Seq(Nat \ {0})
      /\ \A q \in Producers \ {p} : pc[q] = "idle" /\ pc'[q] = "idle"
  BY Alone DEF IInv, TypeOK, Chunked, InSendData
<1>2. left \in Seq(Nat \ {0}) /\ (left # << >> => Tail(left) \in Seq(Nat \ {0}))
  BY <1>1, NextChunk
<1>3. /\ chunks'[p] = left
      /\ pc'[p] = IF left # << >> THEN "snap" ELSE IF p = "rx" THEN "reti" ELSE "idle"
  BY DEF IInv, TypeOK
<1>4. left \in Seq(Nat)
  BY <1>2, PositiveSeq
<1>5. TypeOK'
  BY <1>4 DEF IInv, TypeOK, Places, InSendData
<1>6. OneProducer' /\ Adding' /\ Counting'
  BY <1>1, <1>3 DEF IInv, OneProducer, Adding, Counting, Producers
<1>7. Chunked'
  <2>1. pc'[p] \in InSendData \cup {"wait"} => left # << >> /\ pc'[p] = "snap"
    BY <1>3 DEF InSendData
  <2>2. \A q \in Producers \ {p} : pc'[q] \notin InSendData \cup {"wait", "snap"}
    BY <1>1 DEF InSendData
  <2>. HIDE DEF left
  <2>. QED  BY <1>2, <1>3, <2>1, <2>2 DEF Chunked
<1>8. EffectiveFree' = EffectiveFree
  BY <1>1, <1>3 DEF EffectiveFree
<1>9. Ring' /\ Order'
  BY <1>8, QueueSame DEF IInv
<1>10. Armed'
  <2>1. tx_q.curfreesize # MODSIZE
    BY ModSizeRange DEF IInv, Armed, InWindow
  <2>2. \A q \in Producers : ~InWindow(q)'
    BY <1>1, <1>3 DEF InWindow
  <2>. QED  BY <2>1, <2>2 DEF IInv, Armed, TransmitterArmed
<1>. QED  BY <1>5, <1>6, <1>7, <1>9, <1>10 DEF IInv

\* Interrupts are on, so no cq_add is half done; UCTXIE is set, so there is a
\* byte; in the window there is a second one.
LEMMA TxIsrStep == ASSUME IInv, TxIsr  PROVE IInv'
<1> USE DEF TxIsr, procVars
<1> DEFINE c == tx_q.curfreesize
<1>1. tx_q \in Queue /\ wire \in Seq(Byte) /\ Len(wire) \in Nat /\ accepted \in Nat
  BY DEF IInv, TypeOK
<1>2. EffectiveFree = c
  BY DEF IInv, Counting, EffectiveFree
<1>3. c \in 0 .. MODSIZE - 1 /\ ~cq_is_empty(tx_q)
  BY <1>2, ModSizeRange DEF IInv, Ring, Agree, Armed, cq_is_empty
<1>4. /\ tx_q' \in Queue /\ tx_q'.curfreesize = c + 1 /\ Agree(tx_q', c + 1)
      /\ Front(tx_q) = cq_peek(tx_q, 0)
      /\ \A i \in 0 .. Used(c) - 2 : cq_peek(tx_q', i) = cq_peek(tx_q, i + 1)
  BY <1>1, <1>2, <1>3, DelAgrees DEF IInv, Ring
<1>5. EffectiveFree' = c + 1
  BY <1>4 DEF IInv, Counting, EffectiveFree
<1>6. Front(tx_q) = Len(wire) + 1 /\ Used(c) \in Nat /\ Used(c) >= 1 /\ Used(c + 1) = Used(c) - 1
  <2>1. Used(c) \in Nat /\ Used(c) >= 1 /\ Used(c + 1) = Used(c) - 1
    BY <1>3, ModSizeRange DEF Used
  <2>. QED  BY <1>1, <1>2, <1>4, <2>1 DEF IInv, Order
<1>7. wire' = Append(wire, Len(wire) + 1) /\ wire' \in Seq(Byte) /\ Len(wire') = Len(wire) + 1
  <2>1. wire' = Append(wire, Front(tx_q))
    BY <1>3
  <2>2. Len(wire) + 1 \in Byte
    BY <1>1 DEF Byte
  <2>. QED  BY <1>1, <1>6, <2>1, <2>2, AppendProperties
<1>8. TypeOK'
  BY <1>3, <1>4, <1>7 DEF IInv, TypeOK
<1>9. OneProducer' /\ Chunked' /\ Counting'
  BY DEF IInv, OneProducer, Chunked, Counting
<1>10. Adding'
  BY <1>3, <1>4, ModSizeRange DEF IInv, TypeOK, Adding
<1>11. Ring'
  BY <1>4, <1>5 DEF Ring
<1>12. Order'
  <2>1. accepted = Len(wire') + Used(c + 1)
    BY <1>1, <1>2, <1>6, <1>7 DEF IInv, Order
  <2>2. ASSUME NEW i \in 0 .. Used(c + 1) - 1
        PROVE  cq_peek(tx_q', i) = Len(wire') + 1 + i
    <3>1. i \in 0 .. Used(c) - 2 /\ i + 1 \in 0 .. Used(c) - 1
      BY <1>6
    <3>2. cq_peek(tx_q', i) = Len(wire) + 1 + (i + 1)
      BY <1>2, <1>4, <3>1 DEF IInv, Order
    <3>. QED  BY <1>1, <1>7, <3>1, <3>2
  <2>. QED  BY <1>5, <2>1, <2>2 DEF Order
<1>13. Armed'
  <2>1. txBusy' /\ ~ucTxIfg' /\ (ucTxIe' <=> tx_q'.curfreesize # MODSIZE)
    BY <1>3 DEF cq_is_empty
  <2>2. \A p \in Producers : InWindow(p)' => tx_q'.curfreesize <= MODSIZE - 1
    BY <1>3, <1>4, ModSizeRange DEF IInv, Armed, InWindow
  <2>. QED  BY <2>1, <2>2 DEF Armed, TransmitterArmed, cq_is_empty
<1>. QED  BY <1>8, <1>9, <1>10, <1>11, <1>12, <1>13 DEF IInv

\* No character ends in the window.
LEMMA UartReadyStep == ASSUME IInv, UartReady  PROVE IInv'
<1> USE DEF UartReady, queueVars, procVars
<1>1. TypeOK' /\ OneProducer' /\ Chunked' /\ Adding' /\ Counting'
  BY DEF IInv, TypeOK, OneProducer, Chunked, Adding, Counting
<1>2. EffectiveFree' = EffectiveFree
  BY DEF EffectiveFree
<1>3. Ring' /\ Order'
  BY <1>2, QueueSame DEF IInv
<1>4. \A p \in Producers : ~InWindow(p)
  BY DEF IInv, OneProducer, CharTimePasses, InWindow, Producers
<1>5. Armed'
  BY <1>4 DEF IInv, Armed, InWindow, TransmitterArmed
<1>. QED  BY <1>1, <1>3, <1>5 DEF IInv

-----------------------------------------------------------------------------
(* The theorems                                                             *)

\* Every step of the next-state relation keeps the inductive invariant.
LEMMA Inductive == ASSUME Unrestricted = FALSE, IInv, [Next]_vars  PROVE IInv'
<1>1. ASSUME NEW kind \in Kinds, NEW n \in 1 .. MaxPayload, MainSend(kind, n)  PROVE IInv'
  <2>1. \A q \in Producers \ {"main"} : pc[q] = "idle"
    BY <1>1 DEF MainSend, At, Running, Producers
  <2>. QED  BY <1>1, <2>1, StartPacketStep DEF MainSend, At, Producers, IInv, TypeOK
<1>2. ASSUME NEW kind \in Kinds, NEW n \in 1 .. MaxPayload, RxIsrEnter(kind, n)  PROVE IInv'
  <2>1. \A q \in Producers \ {"rx"} : pc[q] = "idle"
    BY <1>2 DEF RxIsrEnter, ReplyIsSafe, Producers
  <2>. QED  BY <1>2, <2>1, StartPacketStep DEF RxIsrEnter, Producers
<1>3. ASSUME NEW kind \in Kinds, NEW n \in 1 .. MaxPayload, RxSendMore(kind, n)  PROVE IInv'
  <2>1. \A q \in Producers \ {"rx"} : pc[q] = "idle"
    BY <1>3 DEF RxSendMore, ReplyIsSafe, Producers
  <2>. QED  BY <1>3, <2>1, StartPacketStep DEF RxSendMore, Producers, IInv, TypeOK
<1>4. ASSUME NEW p \in Producers, SendData(p)  PROVE IInv'
  BY <1>4, WaitNotFullStep, SnapshotStep, AddByteStep, CountByteStep,
     EnableInterruptsStep, EnableTxStep DEF SendData
<1>5. CASE UNCHANGED vars
  BY <1>5 DEF vars, queueVars, uartVars, procVars, IInv, TypeOK, OneProducer, Chunked,
     Adding, Counting, Ring, Order, Armed, InWindow, EffectiveFree, TransmitterArmed
<1>. QED  BY <1>1, <1>2, <1>3, <1>4, <1>5, RxIsrReturnStep, TxIsrStep, UartReadyStep DEF Next

\* The inductive invariant holds in every reachable state.
LEMMA Invariance == ASSUME Unrestricted = FALSE  PROVE Spec => []IInv
<1>1. IInv /\ [Next]_vars => IInv'
  BY Inductive
<1>. QED  BY <1>1, InitIInv, PTL DEF Spec

\* tx_q stays inside its buffer, and every variable keeps its type.
THEOREM TypeCorrect == ASSUME Unrestricted = FALSE  PROVE Spec => []TypeOK
<1>1. IInv => TypeOK
  BY DEF IInv
<1>. QED  BY <1>1, Invariance, PTL

\* check() of hal_uart_dma.c never finds start, end and curfreesize at odds.
THEOREM CheckHolds == ASSUME Unrestricted = FALSE  PROVE Spec => []Check
<1>1. IInv => Check
  <2> SUFFICES ASSUME IInv, \A p \in Producers : pc[p] # "count"  PROVE Check
    BY DEF Check
  <2>1. EffectiveFree = tx_q.curfreesize
    BY DEF EffectiveFree
  <2>2. Agree(tx_q, tx_q.curfreesize) /\ tx_q.start \in Slots /\ tx_q.end \in Slots
    BY <2>1 DEF IInv, Ring, TypeOK, Queue
  <2>3. /\ tx_q.start \in 0 .. MODSIZE /\ tx_q.end \in 0 .. MODSIZE
        /\ tx_q.curfreesize \in 0 .. MODSIZE
        /\ \/ tx_q.end = tx_q.start + (MODSIZE - tx_q.curfreesize)
           \/ tx_q.end = tx_q.start + (MODSIZE - tx_q.curfreesize) - (MODSIZE + 1)
    BY <2>2, ModSizeRange DEF Agree, Used, Slots
  <2>4. tx_q.start < tx_q.end => MODSIZE - (tx_q.end - tx_q.start) = tx_q.curfreesize
    BY <2>3, ModSizeRange
  <2>5. tx_q.end < tx_q.start => (tx_q.start - tx_q.end) - 1 = tx_q.curfreesize
    BY <2>3, ModSizeRange
  <2>. QED  BY <2>4, <2>5 DEF Check
<1>. QED  BY <1>1, Invariance, PTL

\* The snapshot of the free size is never too large for the loop that uses it.
THEOREM SnapshotIsSafe == ASSUME Unrestricted = FALSE  PROVE Spec => []SnapshotHolds
<1>1. IInv => SnapshotHolds
  BY DEF IInv, Adding, SnapshotHolds
<1>. QED  BY <1>1, Invariance, PTL

\* No byte is stranded in tx_q with the transmit interrupt off or used up.
THEOREM NoByteStranded == ASSUME Unrestricted = FALSE  PROVE Spec => []TransmitterArmed
<1>1. IInv => TransmitterArmed
  BY DEF IInv, Armed
<1>. QED  BY <1>1, Invariance, PTL

\* A step of the transmit path is a step of the byte stream or leaves it alone.
LEMMA StreamStep ==
  ASSUME IInv, [Next]_vars  PROVE [Stream!Next]_(Stream!vars)
<1> USE DEF Stream!vars
<1>1. ASSUME NEW p \in Producers, AddByte(p)  PROVE Stream!Accept
  <2> DEFINE c == tx_q.curfreesize
  <2>1. pc[p] = "add" /\ c \in Nat /\ c >= 1 /\ EffectiveFree = c
    <3>1. pc[p] = "add"
      BY <1>1 DEF AddByte, At
    <3>2. c \in Nat /\ c >= 1
      BY <3>1 DEF IInv, Adding, TypeOK, Queue, UInt16
    <3>3. EffectiveFree = c
      BY <3>1, Alone DEF EffectiveFree
    <3>. QED  BY <3>1, <3>2, <3>3
  <2>2. accepted - Len(wire) < MODSIZE
    BY <2>1, ModSizeRange DEF IInv, TypeOK, Order, Used
  <2>. QED  BY <1>1, <2>2 DEF AddByte, uartVars, Stream!Accept
<1>2. ASSUME TxIsr  PROVE Stream!Deliver
  <2> DEFINE c == tx_q.curfreesize
  <2>1. EffectiveFree = c /\ c # MODSIZE /\ c \in 0 .. MODSIZE
    BY <1>2 DEF TxIsr, IInv, Counting, EffectiveFree, Armed, Ring, Agree
  <2>2. Used(c) >= 1 /\ Used(c) \in Nat
    BY <2>1, ModSizeRange DEF Used
  <2>3. /\ accepted = Len(wire) + Used(c) /\ Len(wire) \in Nat
        /\ cq_peek(tx_q, 0) = Len(wire) + 1
    BY <2>1, <2>2 DEF IInv, TypeOK, Order
  <2>4. Front(tx_q) = cq_peek(tx_q, 0)
    BY <2>1, ModSizeRange, DelAgrees DEF IInv, TypeOK, Ring
  <2>5. wire' = Append(wire, Front(tx_q)) /\ accepted' = accepted
    BY <1>2, <2>1 DEF TxIsr, cq_is_empty
  <2>6. Len(wire) < accepted
    BY <2>2, <2>3
  <2>. QED  BY <2>3, <2>4, <2>5, <2>6 DEF Stream!Deliver
<1>3. ASSUME NEW p \in Producers, SendData(p), ~AddByte(p)  PROVE UNCHANGED Stream!vars
  BY <1>3 DEF SendData, WaitNotFull, Snapshot, CountByte, EnableInterrupts, EnableTx,
     queueVars, uartVars
<1>4. ASSUME NEW kind \in Kinds, NEW n \in 1 .. MaxPayload,
             MainSend(kind, n) \/ RxIsrEnter(kind, n) \/ RxSendMore(kind, n)
      PROVE  UNCHANGED Stream!vars
  BY <1>4 DEF MainSend, RxIsrEnter, RxSendMore, StartPacket, queueVars, uartVars
<1>5. CASE RxIsrReturn \/ UartReady \/ UNCHANGED vars
  BY <1>5 DEF RxIsrReturn, UartReady, vars, queueVars, uartVars
<1>. QED  BY <1>1, <1>2, <1>3, <1>4, <1>5 DEF Next, Stream!Next

\* What reaches the UART is the bytes accepted, each once and in order, and no
\* more than the queue holds is ever waiting: the safety half of StreamSpec.
THEOREM StreamSafety ==
  ASSUME Unrestricted = FALSE
  PROVE  Spec => Stream!Init /\ [][Stream!Next]_(Stream!vars)
<1>1. Init => Stream!Init
  BY DEF Init, Stream!Init
<1>2. IInv /\ [Next]_vars => [Stream!Next]_(Stream!vars)
  BY StreamStep
<1>. QED  BY <1>1, <1>2, Invariance, PTL DEF Spec
=============================================================================

----------------------------- MODULE HciRxProof -----------------------------
(***************************************************************************)
(* The receive path for every queue size, every number of packets and all  *)
(* lengths the queue can hold.                                             *)
(*                                                                         *)
(* ParserInSync only speaks of the moments when the receiver is open.  It  *)
(* is kept through the others because a payload handler leaves the queue   *)
(* empty and the unread byte at the start of a packet, closes the receiver *)
(* and opens it again as its last step but one, with evt_state set before; *)
(* and because the bytes between the unread one and the controller's next  *)
(* one are in the queue, in UCA2RXBUF and on the line, in this order, none *)
(* lost: two of them are in the UART only while the receiver is open, when *)
(* its interrupt takes the first before the second ends.                   *)
(***************************************************************************)
EXTENDS HciRx, CircularQueueProof, SequenceTheorems

(***************************************************************************)
(* What the receive queue has to have room for.  rx_q has 260 slots, and   *)
(* the parameters of an event are at most 255 bytes; the ACL packets are   *)
(* the ones of a peer that keeps to a data length the queue can hold.      *)
(***************************************************************************)
Fits ==
  /\ HCI_ACL_HEADER_SIZE <= MODSIZE
  /\ EventLengths \subseteq 0 .. MODSIZE
  /\ AclLengths \subseteq 1 .. MODSIZE

-----------------------------------------------------------------------------
(* Payload handlers                                                         *)

\* The stack when no payload handler is unfinished, and when the only one has
\* everything, two steps, one step or only its RETI left, or counts for ever.
Idle == << >>
AtWork == << <<"work", "set_rx_state", "set_read_blk_size">> >>
AtState == << <<"set_rx_state", "set_read_blk_size">> >>
AtBlkSize == << <<"set_read_blk_size">> >>
AtReturn == << << >> >>
InLoop == << <<"loops">> >>

Steps == {"work", "loops", "set_rx_state", "set_read_blk_size"}

\* What a payload handler is pushed with.
LEMMA WorkSteps == <<"work">> \o PayloadTail = <<"work", "set_rx_state", "set_read_blk_size">>
<1> DEFINE w == <<"work">>
           s == w \o PayloadTail
           t == <<"work", "set_rx_state", "set_read_blk_size">>
<1>1. /\ PayloadTail \in Seq(Steps) /\ Len(PayloadTail) = 2
      /\ PayloadTail[1] = "set_rx_state" /\ PayloadTail[2] = "set_read_blk_size"
  BY DEF PayloadTail, Steps
<1>2. w \in Seq(Steps) /\ Len(w) = 1 /\ w[1] = "work"
  BY DEF Steps
<1>3. /\ t \in Seq(Steps) /\ Len(t) = 3
      /\ t[1] = "work" /\ t[2] = "set_rx_state" /\ t[3] = "set_read_blk_size"
  BY DEF Steps
<1>. HIDE DEF w, t
<1>4. /\ s \in Seq(Steps)
      /\ Len(s) = Len(w) + Len(PayloadTail)
      /\ \A i \in 1 .. Len(w) + Len(PayloadTail) :
           s[i] = IF i <= Len(w) THEN w[i] ELSE PayloadTail[i - Len(w)]
  BY <1>1, <1>2, ConcatProperties
<1>. HIDE DEF s
<1>5. /\ Len(s) = 3
      /\ s[1] = w[1] /\ s[2] = PayloadTail[1] /\ s[3] = PayloadTail[2]
  BY <1>1, <1>2, <1>4
<1>6. \A i \in 1 .. Len(s) : s[i] = t[i]
  BY <1>1, <1>2, <1>3, <1>5
<1>7. s = t
  BY <1>3, <1>4, <1>5, <1>6, SeqEqual
<1>. QED  BY <1>7 DEF s, t, w

\* The steps of a payload handler lead from each of these to the next.
LEMMA FrameSteps ==
  /\ << <<"work">> \o PayloadTail >> \o Idle = AtWork
  /\ << <<"loops">> >> \o Idle = InLoop
  /\ << Tail(Head(AtWork)) >> \o Tail(AtWork) = AtState
  /\ << Tail(Head(AtState)) >> \o Tail(AtState) = AtBlkSize
  /\ << Tail(Head(AtBlkSize)) >> \o Tail(AtBlkSize) = AtReturn
  /\ Tail(AtReturn) = Idle
<1>1. Tail(<<"work", "set_rx_state", "set_read_blk_size">>) = <<"set_rx_state", "set_read_blk_size">>
  OBVIOUS
<1>2. Tail(<<"set_rx_state", "set_read_blk_size">>) = <<"set_read_blk_size">>
  OBVIOUS
<1>3. Tail(<<"set_read_blk_size">>) = << >>
  OBVIOUS
<1>4. \A r : Head(<<r>>) = r /\ Tail(<<r>>) = << >> /\ <<r>> \o << >> = <<r>>
  OBVIOUS
<1>. QED  BY WorkSteps, <1>1, <1>2, <1>3, <1>4 DEF Idle, AtWork, AtState, AtBlkSize, AtReturn, InLoop

\* What each has to do next.
LEMMA FrameNext ==
  /\ Idle = << >>
  /\ AtWork # << >> /\ Head(AtWork) # << >> /\ Head(Head(AtWork)) = "work"
  /\ AtState # << >> /\ Head(AtState) # << >> /\ Head(Head(AtState)) = "set_rx_state"
  /\ AtBlkSize # << >> /\ Head(AtBlkSize) # << >> /\ Head(Head(AtBlkSize)) = "set_read_blk_size"
  /\ AtReturn # << >> /\ Head(AtReturn) = << >>
  /\ InLoop # << >> /\ Head(InLoop) # << >> /\ Head(Head(InLoop)) = "loops"
  BY DEF Idle, AtWork, AtState, AtBlkSize, AtReturn, InLoop

\* They are stacks of at most one handler.
LEMMA FrameTypes ==
  \A f \in {Idle, AtWork, AtState, AtBlkSize, AtReturn, InLoop} :
    /\ f \in Seq(Seq({"work", "loops", "set_rx_state", "set_read_blk_size"}))
    /\ Len(f) <= 1
<1>1. /\ <<"work", "set_rx_state", "set_read_blk_size">> \in Seq(Steps)
      /\ <<"set_rx_state", "set_read_blk_size">> \in Seq(Steps)
      /\ <<"set_read_blk_size">> \in Seq(Steps)
      /\ << >> \in Seq(Steps)
      /\ <<"loops">> \in Seq(Steps)
  BY DEF Steps
<1>2. /\ << >> \in Seq(Seq(Steps)) /\ Len(<< >>) <= 1
      /\ \A r \in Seq(Steps) : <<r>> \in Seq(Seq(Steps)) /\ Len(<<r>>) <= 1
  OBVIOUS
<1>3. \A f \in {Idle, AtWork, AtState, AtBlkSize, AtReturn, InLoop} :
        f \in Seq(Seq(Steps)) /\ Len(f) <= 1
  BY <1>1, <1>2 DEF Idle, AtWork, AtState, AtBlkSize, AtReturn, InLoop
<1>. QED  BY <1>3 DEF Steps

-----------------------------------------------------------------------------
(* The inductive invariant                                                  *)

Packet == [kind : {"evt", "acl"}, len : 0 .. MODSIZE, first : Nat \ {0}]

\* The number of the first byte after packet k.
End(k) == offered[k].first + Size(offered[k])

\* The packets follow each other on the line without a gap, and the next byte
\* is one of the last packet or the one after it.
OfferedOK ==
  /\ offered \in Seq(Packet)
  /\ \A k \in 1 .. Len(offered) : offered[k].kind = "acl" => offered[k].len # 0
  /\ \A j, k \in 1 .. Len(offered) : j < k => End(j) <= offered[k].first
  /\ \A k \in 1 .. Len(offered) : k < Len(offered) => End(k) = offered[k + 1].first
  /\ offered = << >> => nextByte = 1
  /\ offered # << >> =>
       offered[Len(offered)].first <= nextByte /\ nextByte <= End(Len(offered))

\* The packets handled are the first ones offered.
HandledOK ==
  /\ handled \in Seq(Packet)
  /\ Len(handled) <= Len(offered)
  /\ \A k \in 1 .. Len(handled) : handled[k] = offered[k]

\* The only unfinished payload handler does not end.
Looping == frames = InLoop

\* An unfinished payload handler has not opened the receiver yet.
Closed == frames \in {AtWork, AtState, AtBlkSize, InLoop}

\* There is at most one unfinished payload handler, the receiver is closed
\* until it calls set_read_blk_size, and it has set the state by then.  From
\* there to its return only the first byte of a packet can come in.
FramesOK ==
  /\ frames \in {Idle, AtWork, AtState, AtBlkSize, AtReturn, InLoop}
  /\ frames = Idle => gie
  /\ booted = "ready" => IF Closed THEN stop /\ ~ucRxIe ELSE ~stop /\ ucRxIe
  /\ Looping => ~gie
  /\ frames = AtBlkSize => evt_state = "PACKET_TYPE"
  /\ frames = AtReturn => evt_state = "PACKET_TYPE" \/ rxbuf = 0

\* Nothing comes in before hci_state_init is over.
BootOK ==
  booted # "ready" =>
    /\ offered = << >> /\ handled = << >> /\ nextByte = 1 /\ shifting = 0 /\ rxbuf = 0
    /\ frames = Idle /\ rx_q = cq_init /\ evt_state = "NONE"
    /\ booted = "open" => readblksize = 1 /\ ucRxIe /\ ~stop

InUart == (IF rxbuf # 0 THEN 1 ELSE 0) + (IF shifting # 0 THEN 1 ELSE 0)

Queued == Used(rx_q.curfreesize)

\* The bytes between the first unread one and the next one the controller will
\* send are the ones in the queue, in the UART and on the line, in this order.
LineInStep ==
  /\ Agree(rx_q, rx_q.curfreesize)
  /\ Unread + Queued + InUart = nextByte
  /\ Unread >= 1
  /\ rxbuf # 0 => rxbuf = Unread + Queued
  /\ shifting # 0 => shifting = nextByte - 1

\* Two characters in the UART at once: only with the receiver open.
LineOK ==
  ~Looping =>
    /\ LineInStep
    /\ rxbuf # 0 /\ shifting # 0 => ~stop

\* The packet to handle next.
Cur == Len(handled) + 1

At(n, kind) ==
  /\ Cur <= Len(offered)
  /\ Unread = offered[Cur].first + n
  /\ offered[Cur].kind = kind

AtStart ==
  IF Cur <= Len(offered) THEN Unread = offered[Cur].first
  ELSE /\ Unread = nextByte
       /\ offered # << >> => nextByte = End(Len(offered))

AtPayload ==
  /\ readblksize = offered[Cur].len
  /\ pktLen = readblksize
  /\ readblksize # 0

\* With the receiver open the unread byte is where evt_state says, in the
\* packet to handle next; while a payload handler is unfinished it is the
\* first one of the packet after it.
InPacket ==
  \/ evt_state = "PACKET_TYPE" /\ readblksize = 1 /\ AtStart
  \/ evt_state = "ACL_HEADER" /\ readblksize = 4 /\ At(1, "acl")
  \/ evt_state = "EVENT_HEADER" /\ readblksize = 2 /\ At(1, "evt")
  \/ evt_state = "ACL_PAYLOAD" /\ At(5, "acl") /\ AtPayload
  \/ evt_state = "EVENT_PAYLOAD" /\ At(3, "evt") /\ AtPayload

Position ==
  booted = "ready" /\ ~Looping =>
    IF Closed THEN AtStart /\ Queued = 0
    ELSE Queued < readblksize /\ readblksize <= MODSIZE /\ InPacket

IInv ==
  /\ TypeOK
  /\ OfferedOK
  /\ HandledOK
  /\ FramesOK
  /\ BootOK
  /\ LineOK
  /\ Position

-----------------------------------------------------------------------------
(* Lemmas                                                                   *)

\* No two of them are the same.
LEMMA FramesDiffer ==
  /\ Idle \notin {AtWork, AtState, AtBlkSize, AtReturn, InLoop}
  /\ AtWork \notin {AtState, AtBlkSize, AtReturn, InLoop}
  /\ AtState \notin {AtBlkSize, AtReturn, InLoop}
  /\ AtBlkSize \notin {AtReturn, InLoop}
  /\ AtReturn # InLoop
  BY FrameNext

\* The counters of the line are numbers.
LEMMA Numbers ==
  ASSUME TypeOK
  PROVE  /\ Unread \in Nat
         /\ InUart \in 0 .. 2
         /\ rx_q.curfreesize \in Nat
         /\ (Agree(rx_q, rx_q.curfreesize) => Queued \in 0 .. MODSIZE)
<1>1. /\ rx_q \in Queue
      /\ rxbuf \in Nat /\ shifting \in Nat /\ nextByte \in Nat
  BY DEF TypeOK
<1>2. Front(rx_q) \in Nat
  BY <1>1 DEF Queue, Front, Byte
<1>3. rx_q.curfreesize \in Nat
  BY <1>1, ModSizeRange DEF Queue, UInt16
<1>. QED  BY <1>1, <1>2, <1>3, ModSizeRange DEF Unread, InUart, Queued, Agree, Used

\* The packets are records of numbers.
LEMMA PacketNumbers ==
  ASSUME OfferedOK, NEW k \in 1 .. Len(offered)
  PROVE  /\ offered[k] \in Packet
         /\ offered[k].first \in Nat \ {0}
         /\ offered[k].len \in Nat /\ offered[k].len <= MODSIZE
         /\ offered[k].len \in UInt16
         /\ offered[k].kind \in {"evt", "acl"}
         /\ Size(offered[k]) \in Nat
         /\ Size(offered[k]) = offered[k].len + (IF offered[k].kind = "acl" THEN 5 ELSE 3)
         /\ End(k) \in Nat
<1>1. offered[k] \in Packet
  BY DEF OfferedOK
<1>2. /\ offered[k].first \in Nat \ {0}
      /\ offered[k].len \in 0 .. MODSIZE
      /\ offered[k].kind \in {"evt", "acl"}
  BY <1>1 DEF Packet
<1>3. /\ offered[k].len \in Nat /\ offered[k].len <= MODSIZE
      /\ offered[k].len \in UInt16
  BY <1>2, ModSizeRange DEF UInt16
<1>4. /\ Size(offered[k]) \in Nat
      /\ Size(offered[k]) = offered[k].len + (IF offered[k].kind = "acl" THEN 5 ELSE 3)
  BY <1>2, <1>3 DEF Size, HeaderOnLine
<1>5. End(k) \in Nat
  BY <1>2, <1>4 DEF End
<1>. QED  BY <1>1, <1>2, <1>3, <1>4, <1>5

\* Every byte belongs to one packet.
LEMMA Located ==
  ASSUME OfferedOK, NEW c \in 1 .. Len(offered), NEW b \in Nat,
         offered[c].first <= b, b < End(c)
  PROVE  PacketOf(b) = c
<1> DEFINE Has(k) == b \in offered[k].first .. offered[k].first + Size(offered[k]) - 1
<1>1. DOMAIN offered = 1 .. Len(offered) /\ Len(offered) \in Nat
  BY DEF OfferedOK
<1>2. Has(c)
  BY PacketNumbers DEF End
<1>3. ASSUME NEW k \in 1 .. Len(offered), Has(k)
      PROVE  k = c
  <2>1. /\ offered[k].first \in Nat /\ End(k) \in Nat
        /\ offered[c].first \in Nat /\ End(c) \in Nat
    BY PacketNumbers
  <2>2. offered[k].first <= b /\ b < End(k)
    BY <1>3, PacketNumbers DEF End
  <2>3. ~(k < c) /\ ~(c < k)
    BY <2>1, <2>2 DEF OfferedOK
  <2>. QED  BY <1>1, <2>3
<1>. QED  BY <1>1, <1>2, <1>3 DEF PacketOf

\* What only the queue and the line say, when neither changes.
LEMMA LineKept ==
  ASSUME UNCHANGED <<rx_q, rxbuf, shifting, nextByte>>
  PROVE  /\ Unread' = Unread /\ Queued' = Queued /\ InUart' = InUart
         /\ LineInStep' = LineInStep
  BY DEF Unread, Queued, InUart, LineInStep

\* What only the packets say.
LEMMA PacketsKept ==
  ASSUME IInv, UNCHANGED <<offered, nextByte, handled>>
  PROVE  OfferedOK' /\ HandledOK' /\ Cur' = Cur
  BY DEF IInv, OfferedOK, HandledOK, Cur, End

\* Where the unread byte is among the packets.
LEMMA PlaceKept ==
  ASSUME UNCHANGED <<offered, handled, nextByte>>, Unread' = Unread
  PROVE  AtStart' = AtStart /\ \A n, kind : At(n, kind)' = At(n, kind)
  BY DEF AtStart, At, Cur, End

-----------------------------------------------------------------------------
(* The initial state and the bring-up                                       *)

LEMMA InitInv == Init => IInv
<1> SUFFICES ASSUME Init
             PROVE  IInv
  OBVIOUS
<1>1. TypeOK
  <2>1. 0 \in UInt16 /\ << >> \in Seq(Seq(Steps))
    BY ModSizeRange DEF UInt16
  <2>. QED  BY <2>1, InitAgrees DEF Init, TypeOK, States, Steps
<1>2. OfferedOK /\ HandledOK
  BY DEF Init, OfferedOK, HandledOK
<1>3. FramesOK /\ BootOK
  BY FramesDiffer DEF Init, FramesOK, BootOK, Looping, Closed, Idle
<1>4. LineOK
  <2>1. rx_q.curfreesize = MODSIZE
    BY DEF Init, cq_init
  <2>2. Unread = 1 /\ Queued = 0 /\ InUart = 0
    BY <2>1, ModSizeRange DEF Init, Unread, Queued, InUart, Used, cq_is_empty
  <2>. QED  BY <2>1, <2>2, InitAgrees DEF Init, LineOK, LineInStep
<1>5. Position
  BY DEF Init, Position
<1>. QED  BY <1>1, <1>2, <1>3, <1>4, <1>5 DEF IInv

LEMMA InitBlkSizeKeeps == ASSUME IInv, InitBlkSize PROVE IInv'
<1>. USE DEF InitBlkSize, lineVars
<1>1. TypeOK'
  <2>1. 1 \in UInt16
    BY ModSizeRange DEF UInt16
  <2>. QED  BY <2>1 DEF IInv, TypeOK
<1>2. OfferedOK' /\ HandledOK'
  BY PacketsKept
<1>3. FramesOK' /\ BootOK'
  BY DEF IInv, FramesOK, BootOK, Looping, Closed
<1>4. LineOK'
  BY LineKept DEF IInv, LineOK, Looping
<1>5. Position'
  BY DEF Position
<1>. QED  BY <1>1, <1>2, <1>3, <1>4, <1>5 DEF IInv

LEMMA InitStateKeeps == ASSUME IInv, InitState PROVE IInv'
<1>. USE DEF InitState, lineVars
<1>1. TypeOK'
  BY DEF IInv, TypeOK, States
<1>2. OfferedOK' /\ HandledOK'
  BY PacketsKept
<1>3. /\ offered = << >> /\ handled = << >> /\ nextByte = 1 /\ shifting = 0 /\ rxbuf = 0
      /\ frames = Idle /\ rx_q = cq_init /\ readblksize = 1 /\ ucRxIe /\ ~stop
  BY DEF IInv, BootOK
<1>4. FramesOK' /\ BootOK'
  BY <1>3, FramesDiffer DEF IInv, FramesOK, BootOK, Looping, Closed
<1>5. LineOK'
  BY LineKept DEF IInv, LineOK, Looping
<1>6. Position'
  <2>1. rx_q'.curfreesize = MODSIZE
    BY <1>3 DEF cq_init
  <2>2. Queued' = 0 /\ Unread' = nextByte'
    BY <1>3, <2>1, ModSizeRange DEF Queued, Unread, Used, cq_is_empty
  <2>3. AtStart'
    BY <1>3, <2>2 DEF AtStart, Cur
  <2>4. ~Closed'
    BY <1>3, FramesDiffer DEF Closed
  <2>. QED  BY <1>3, <2>2, <2>3, <2>4, ModSizeRange DEF Position, InPacket
<1>. QED  BY <1>1, <1>2, <1>4, <1>5, <1>6 DEF IInv

-----------------------------------------------------------------------------
(* The line                                                                 *)

\* A packet is offered when the one before it is out.
LEMMA OfferPacketKeeps ==
  ASSUME Fits, IInv, NEW pkt \in Packets, OfferPacket(pkt)
  PROVE  IInv'
<1>. DEFINE new == [kind |-> pkt.kind, len |-> pkt.len, first |-> nextByte]
            n == Len(offered)
<1>1. /\ booted = "ready"
      /\ offered # << >> => nextByte = End(n)
      /\ offered' = Append(offered, new)
      /\ UNCHANGED <<hostVars, nextByte, shifting, rxbuf, booted>>
  BY DEF OfferPacket, End
<1>2. UNCHANGED <<rx_q, readblksize, evt_state, pktLen, stop, ucRxIe, gie, frames, handled>>
  BY <1>1 DEF hostVars
<1>3. /\ pkt.kind \in {"evt", "acl"} /\ pkt.len \in 0 .. MODSIZE
      /\ pkt.kind = "acl" => pkt.len # 0
  <2>1. \/ pkt.kind = "evt" /\ pkt.len \in EventLengths
        \/ pkt.kind = "acl" /\ pkt.len \in AclLengths
    BY DEF Packets
  <2>2. /\ \A len \in EventLengths : len \in 0 .. MODSIZE
        /\ \A len \in AclLengths : len \in 1 .. MODSIZE
    BY DEF Fits
  <2>3. \A len \in 1 .. MODSIZE : len \in 0 .. MODSIZE /\ len # 0
    BY ModSizeRange
  <2>. QED  BY <2>1, <2>2, <2>3
<1>4. nextByte \in Nat \ {0}
  <2>1. nextByte \in Nat /\ n \in Nat
    BY DEF IInv, TypeOK, OfferedOK
  <2>2. CASE offered = << >>
    BY <2>2 DEF IInv, OfferedOK
  <2>3. CASE offered # << >>
    <3>1. n \in 1 .. Len(offered)
      BY <2>3 DEF IInv, OfferedOK
    <3>. QED  BY <2>1, <2>3, <3>1, PacketNumbers DEF IInv, OfferedOK
  <2>. QED  BY <2>2, <2>3
<1>5. new \in Packet
  BY <1>3, <1>4 DEF Packet
<1>. DEFINE off == offered'
<1>. HIDE DEF new
<1>6. /\ off \in Seq(Packet) /\ off # << >>
      /\ n \in Nat /\ Len(off) = n + 1
      /\ \A k \in 1 .. n : off[k] = offered[k]
      /\ off[n + 1] = new
  BY <1>1, <1>5, AppendProperties DEF IInv, OfferedOK
<1>7. new.first = nextByte /\ new.kind = pkt.kind /\ new.len = pkt.len /\ Size(new) \in Nat
  BY <1>3, ModSizeRange DEF new, Size, HeaderOnLine
<1>8. \A k \in 1 .. n : End(k)' = End(k)
  BY <1>6 DEF End
<1>9. \A k \in 1 .. n : End(k) <= nextByte
  <2> SUFFICES ASSUME NEW k \in 1 .. n
               PROVE  End(k) <= nextByte
    OBVIOUS
  <2>1. offered # << >> /\ nextByte = End(n) /\ n \in 1 .. Len(offered)
    BY <1>1, <1>6
  <2>2. k < n => End(k) <= offered[n].first
    BY <2>1 DEF IInv, OfferedOK
  <2>3. /\ End(k) \in Nat /\ End(n) \in Nat /\ offered[n].first \in Nat
        /\ offered[n].first <= End(n)
    BY <2>1, PacketNumbers DEF IInv, End
  <2>. QED  BY <1>6, <2>1, <2>2, <2>3
<1>10. OfferedOK'
  <2>1. \A k \in 1 .. Len(off) : off[k].kind = "acl" => off[k].len # 0
    BY <1>3, <1>6, <1>7 DEF IInv, OfferedOK
  <2>2. \A j, k \in 1 .. Len(off) : j < k => End(j)' <= off[k].first
    <3> SUFFICES ASSUME NEW j \in 1 .. Len(off), NEW k \in 1 .. Len(off), j < k
                 PROVE  End(j)' <= off[k].first
      OBVIOUS
    <3>1. j \in 1 .. n /\ End(j)' = End(j)
      BY <1>6, <1>8
    <3>2. CASE k = n + 1
      BY <1>6, <1>7, <1>9, <3>1, <3>2
    <3>3. CASE k # n + 1
      <4>1. k \in 1 .. n
        BY <1>6, <3>3
      <4>. QED  BY <1>6, <3>1, <4>1 DEF IInv, OfferedOK
    <3>. QED  BY <3>2, <3>3
  <2>3. \A k \in 1 .. Len(off) : k < Len(off) => End(k)' = off[k + 1].first
    <3> SUFFICES ASSUME NEW k \in 1 .. Len(off), k < Len(off)
                 PROVE  End(k)' = off[k + 1].first
      OBVIOUS
    <3>1. k \in 1 .. n /\ End(k)' = End(k)
      BY <1>6, <1>8
    <3>2. CASE k = n
      BY <1>1, <1>6, <1>7, <3>1, <3>2
    <3>3. CASE k # n
      BY <1>6, <3>1, <3>3 DEF IInv, OfferedOK
    <3>. QED  BY <3>2, <3>3
  <2>4. /\ offered'[Len(offered')].first <= nextByte'
        /\ nextByte' <= offered'[Len(offered')].first + Size(offered'[Len(offered')])
    BY <1>1, <1>4, <1>6, <1>7
  <2>. QED  BY <1>6, <2>1, <2>2, <2>3, <2>4 DEF OfferedOK, End
<1>11. HandledOK'
  BY <1>2, <1>6 DEF IInv, HandledOK
<1>12. TypeOK'
  BY <1>1, <1>2 DEF IInv, TypeOK
<1>13. FramesOK' /\ BootOK'
  BY <1>1, <1>2 DEF IInv, FramesOK, BootOK, Looping, Closed
<1>14. LineOK' /\ Unread' = Unread /\ Queued' = Queued
  BY <1>1, <1>2, LineKept DEF IInv, LineOK, Looping
<1>15. Cur' = Cur /\ Cur \in Nat \ {0} /\ Cur <= n + 1
  BY <1>2, <1>6 DEF IInv, HandledOK, Cur
<1>16. AtStart => AtStart'
  <2> SUFFICES ASSUME AtStart
               PROVE  AtStart'
    OBVIOUS
  <2>1. Cur <= Len(off)
    BY <1>6, <1>15
  <2>2. CASE Cur <= n
    BY <1>6, <1>14, <1>15, <2>1, <2>2 DEF AtStart
  <2>3. CASE ~(Cur <= n)
    <3>1. Cur = n + 1 /\ Unread = nextByte
      BY <1>6, <1>15, <2>3 DEF AtStart
    <3>. QED  BY <1>6, <1>7, <1>14, <1>15, <2>1, <3>1 DEF AtStart
  <2>. QED  BY <2>2, <2>3
<1>17. \A m, kind : At(m, kind) => At(m, kind)' /\ offered'[Cur'] = offered[Cur]
  BY <1>6, <1>14, <1>15 DEF At
<1>18. Position'
  BY <1>1, <1>2, <1>14, <1>16, <1>17
     DEF IInv, Position, InPacket, AtPayload, Looping, Closed
<1>. QED  BY <1>10, <1>11, <1>12, <1>13, <1>14, <1>18 DEF IInv

\* A character begins: the byte was not sent and is on the line now.
LEMMA BeginByteKeeps == ASSUME IInv, BeginByte PROVE IInv'
<1>1. /\ ~stop /\ shifting = 0 /\ offered # << >>
      /\ nextByte < End(Len(offered))
      /\ shifting' = nextByte /\ nextByte' = nextByte + 1
      /\ UNCHANGED <<hostVars, offered, rxbuf, booted>>
  BY DEF BeginByte, End
<1>2. UNCHANGED <<rx_q, readblksize, evt_state, pktLen, stop, ucRxIe, gie, frames, handled>>
  BY <1>1 DEF hostVars
<1>3. booted = "ready" /\ ~Closed /\ ~Looping
  <2>1. booted = "ready"
    BY <1>1 DEF IInv, BootOK
  <2>. QED  BY <1>1, <2>1 DEF IInv, FramesOK, Closed, Looping
<1>4. LineInStep
  BY <1>3 DEF IInv, LineOK
<1>5. /\ Unread \in Nat /\ InUart \in 0 .. 2 /\ Queued \in 0 .. MODSIZE
      /\ nextByte \in Nat /\ rxbuf \in Nat /\ shifting \in Nat
  BY <1>4, Numbers DEF IInv, TypeOK, LineInStep
<1>6. nextByte # 0 /\ Queued' = Queued
  BY <1>2, <1>4, <1>5, ModSizeRange DEF LineInStep, Queued
<1>7. InUart' = InUart + 1
  BY <1>1, <1>6 DEF InUart
<1>8. Unread' = Unread
  BY <1>1, <1>2, <1>6 DEF Unread
<1>9. LineInStep'
  BY <1>1, <1>2, <1>4, <1>5, <1>6, <1>7, <1>8, ModSizeRange DEF LineInStep
<1>10. TypeOK'
  BY <1>1, <1>2, <1>5 DEF IInv, TypeOK
<1>11. OfferedOK'
  <2>1. Len(offered) \in 1 .. Len(offered)
    BY <1>1 DEF IInv, OfferedOK
  <2>2. End(Len(offered)) \in Nat /\ offered[Len(offered)].first \in Nat
    BY <2>1, PacketNumbers DEF IInv
  <2>3. offered[Len(offered)].first <= nextByte
    BY <1>1 DEF IInv, OfferedOK
  <2>4. offered[Len(offered)].first <= nextByte' /\ nextByte' <= End(Len(offered))
    BY <1>1, <1>5, <2>2, <2>3
  <2>. QED  BY <1>1, <2>4 DEF IInv, OfferedOK, End
<1>12. HandledOK' /\ Cur' = Cur
  BY <1>1, <1>2 DEF IInv, HandledOK, Cur
<1>13. FramesOK' /\ BootOK'
  BY <1>1, <1>2, <1>3 DEF IInv, FramesOK, BootOK, Looping, Closed
<1>14. LineOK'
  BY <1>1, <1>2, <1>9 DEF LineOK
<1>15. AtStart => AtStart'
  <2>1. End(Len(offered)) \in Nat
    <3>1. Len(offered) \in 1 .. Len(offered)
      BY <1>1 DEF IInv, OfferedOK
    <3>. QED  BY <3>1, PacketNumbers DEF IInv
  <2>. QED  BY <1>1, <1>5, <1>8, <1>12, <2>1 DEF AtStart
<1>16. \A m, kind : At(m, kind) => At(m, kind)'
  BY <1>1, <1>8, <1>12 DEF At
<1>17. Position'
  BY <1>1, <1>2, <1>3, <1>6, <1>12, <1>15, <1>16
     DEF IInv, Position, InPacket, AtPayload, Looping, Closed
<1>. QED  BY <1>10, <1>11, <1>12, <1>13, <1>14, <1>17 DEF IInv

\* A character ends.  No character ends over one that was not read: with two
\* of them in the UART the receiver is open and one of the conditions of
\* CharTimePasses is not met.
LEMMA ByteArrivesKeeps == ASSUME IInv, ByteArrives PROVE IInv'
<1>1. /\ shifting # 0 /\ CharTimePasses
      /\ rxbuf' = shifting /\ shifting' = 0
      /\ UNCHANGED <<hostVars, offered, nextByte, booted>>
  BY DEF ByteArrives
<1>2. UNCHANGED <<rx_q, readblksize, evt_state, pktLen, stop, ucRxIe, gie, frames, handled>>
  BY <1>1 DEF hostVars
<1>3. booted = "ready"
  BY <1>1 DEF IInv, BootOK
<1>4. frames \in {Idle, AtWork, AtState, AtBlkSize, AtReturn, InLoop}
  BY DEF IInv, FramesOK
<1>5. frames # AtReturn
  BY <1>1, FrameNext DEF CharTimePasses
<1>6. ~Looping => rxbuf = 0
  <2> SUFFICES ASSUME ~Looping, rxbuf # 0
               PROVE  FALSE
    OBVIOUS
  <2>1. ~stop
    BY <1>1 DEF IInv, LineOK
  <2>2. ~Closed /\ ucRxIe
    BY <1>3, <2>1 DEF IInv, FramesOK
  <2>3. frames = Idle
    BY <1>4, <1>5, <2>2 DEF Closed
  <2>. QED  BY <1>1, <2>2, <2>3 DEF IInv, FramesOK, CharTimePasses
<1>7. TypeOK'
  BY <1>1, <1>2 DEF IInv, TypeOK
<1>8. OfferedOK' /\ HandledOK' /\ Cur' = Cur
  BY <1>1, <1>2, PacketsKept
<1>9. FramesOK' /\ BootOK'
  BY <1>1, <1>2, <1>3, <1>5 DEF IInv, FramesOK, BootOK, Looping, Closed
<1>10. ~Looping => LineInStep' /\ Unread' = Unread /\ Queued' = Queued
  <2> SUFFICES ASSUME ~Looping
               PROVE  LineInStep' /\ Unread' = Unread /\ Queued' = Queued
    OBVIOUS
  <2>1. LineInStep
    BY DEF IInv, LineOK
  <2>2. /\ Unread \in Nat /\ Queued \in 0 .. MODSIZE
        /\ nextByte \in Nat /\ shifting \in Nat
    BY <2>1, Numbers DEF IInv, TypeOK, LineInStep
  <2>3. InUart' = 1 /\ InUart = 1 /\ Queued' = Queued /\ Unread' = Unread
    BY <1>1, <1>2, <1>6 DEF InUart, Queued, Unread
  <2>. QED  BY <1>1, <1>2, <2>1, <2>2, <2>3, ModSizeRange DEF LineInStep
<1>11. LineOK'
  BY <1>1, <1>2, <1>10 DEF LineOK, Looping
<1>12. Position'
  BY <1>1, <1>2, <1>8, <1>10, PlaceKept
     DEF IInv, Position, InPacket, AtPayload, Looping, Closed
<1>. QED  BY <1>7, <1>8, <1>9, <1>11, <1>12 DEF IInv

-----------------------------------------------------------------------------
(* The rest of a payload handler                                            *)

\* Which handler is at which step.
LEMMA AtStep ==
  ASSUME IInv
  PROVE  /\ Doing("work") => frames = AtWork /\ (StepDone => frames' = AtState)
         /\ Doing("set_rx_state") => frames = AtState /\ (StepDone => frames' = AtBlkSize)
         /\ Doing("set_read_blk_size") => frames = AtBlkSize /\ (StepDone => frames' = AtReturn)
         /\ frames # << >> /\ Head(frames) = << >> => frames = AtReturn /\ Tail(frames) = Idle
<1>1. frames \in {Idle, AtWork, AtState, AtBlkSize, AtReturn, InLoop}
  BY DEF IInv, FramesOK
<1>. QED  BY <1>1, FrameNext, FrameSteps DEF Doing, StepDone

\* Nothing comes in while a handler does one of its steps.
LEMMA HandlerOnly ==
  ASSUME IInv,
         UNCHANGED <<rx_q, pktLen, handled, offered, nextByte, shifting, rxbuf, booted>>,
         frames # Idle, ~Looping, ~Looping',
         rxbuf # 0 /\ shifting # 0 => ~stop',
         TypeOK', FramesOK',
         Closed => Closed' \/ (evt_state' = "PACKET_TYPE" /\ readblksize' = 1),
         ~Closed => ~Closed' /\ UNCHANGED <<evt_state, readblksize>>
  PROVE  IInv'
<1>1. OfferedOK' /\ HandledOK' /\ Cur' = Cur
  BY PacketsKept
<1>2. booted = "ready"
  BY DEF IInv, BootOK
<1>3. BootOK'
  BY <1>2 DEF BootOK
<1>4. Unread' = Unread /\ Queued' = Queued /\ LineInStep' = LineInStep
  BY LineKept
<1>5. LineOK'
  BY <1>4 DEF IInv, LineOK
<1>6. AtStart' = AtStart
  BY <1>4, PlaceKept
<1>7. Position'
  <2>1. CASE Closed
    <3>1. AtStart' /\ Queued' = 0
      BY <1>2, <1>4, <1>6, <2>1 DEF IInv, Position
    <3>. QED  BY <2>1, <3>1, ModSizeRange DEF Position, InPacket
  <2>2. CASE ~Closed
    <3>1. Queued < readblksize /\ readblksize <= MODSIZE /\ InPacket
      BY <1>2, <2>2 DEF IInv, Position
    <3>2. UNCHANGED <<evt_state, readblksize, pktLen, offered>> /\ ~Closed' /\ Cur' = Cur
      BY <1>1, <2>2
    <3>3. \A n, kind : At(n, kind)' = At(n, kind)
      BY <1>4, PlaceKept
    <3>4. InPacket'
      BY <1>6, <3>1, <3>2, <3>3 DEF InPacket, AtPayload
    <3>. QED  BY <1>4, <3>1, <3>2, <3>4 DEF Position
  <2>. QED  BY <2>1, <2>2
<1>. QED  BY <1>1, <1>3, <1>5, <1>7 DEF IInv

LEMMA ReplyKeeps == ASSUME IInv, Reply PROVE IInv'
<1>. USE DEF Reply, lineVars
<1>1. frames = AtWork /\ frames' = AtWork
  BY AtStep
<1>2. ~Looping /\ ~Looping' /\ Closed /\ Closed' /\ frames # Idle
  BY <1>1, FramesDiffer DEF Looping, Closed
<1>3. rxbuf # 0 /\ shifting # 0 => ~stop'
  BY <1>2 DEF IInv, LineOK
<1>4. TypeOK'
  BY DEF IInv, TypeOK
<1>5. FramesOK'
  BY <1>1, <1>2, FramesDiffer DEF IInv, FramesOK
<1>. QED  BY <1>2, <1>3, <1>4, <1>5, HandlerOnly

LEMMA WorkDoneKeeps == ASSUME IInv, WorkDone PROVE IInv'
<1>. USE DEF WorkDone, lineVars
<1>1. frames = AtWork /\ frames' = AtState
  BY AtStep
<1>2. ~Looping /\ ~Looping' /\ Closed /\ Closed' /\ frames # Idle
  BY <1>1, FramesDiffer DEF Looping, Closed
<1>3. rxbuf # 0 /\ shifting # 0 => ~stop'
  BY <1>2 DEF IInv, LineOK
<1>4. TypeOK'
  BY <1>1, FrameTypes DEF IInv, TypeOK
<1>5. FramesOK'
  BY <1>1, <1>2, FramesDiffer DEF IInv, FramesOK
<1>. QED  BY <1>2, <1>3, <1>4, <1>5, HandlerOnly

LEMMA SetRxStateKeeps == ASSUME IInv, SetRxState PROVE IInv'
<1>. USE DEF SetRxState, lineVars
<1>1. frames = AtState /\ frames' = AtBlkSize
  BY AtStep
<1>2. ~Looping /\ ~Looping' /\ Closed /\ Closed' /\ frames # Idle
  BY <1>1, FramesDiffer DEF Looping, Closed
<1>3. rxbuf # 0 /\ shifting # 0 => ~stop'
  BY <1>2 DEF IInv, LineOK
<1>4. TypeOK'
  BY <1>1, FrameTypes DEF IInv, TypeOK, States
<1>5. FramesOK'
  BY <1>1, <1>2, FramesDiffer DEF IInv, FramesOK
<1>. QED  BY <1>2, <1>3, <1>4, <1>5, HandlerOnly

\* The receiver opens: the state is PACKET_TYPE and the queue is empty.
LEMMA SetReadBlkSizeKeeps == ASSUME IInv, SetReadBlkSize PROVE IInv'
<1>. USE DEF SetReadBlkSize, lineVars
<1>1. frames = AtBlkSize /\ frames' = AtReturn
  BY AtStep
<1>2. ~Looping /\ ~Looping' /\ Closed /\ ~Closed' /\ frames # Idle
  BY <1>1, FramesDiffer DEF Looping, Closed
<1>3. 1 \in UInt16
  BY ModSizeRange DEF UInt16
<1>4. TypeOK'
  BY <1>1, <1>3, FrameTypes DEF IInv, TypeOK
<1>5. FramesOK'
  BY <1>1, <1>2, FramesDiffer DEF IInv, FramesOK
<1>6. evt_state' = "PACKET_TYPE"
  BY <1>1 DEF IInv, FramesOK
<1>. QED  BY <1>2, <1>4, <1>5, <1>6, HandlerOnly

LEMMA ReturnKeeps == ASSUME IInv, Return PROVE IInv'
<1>. USE DEF Return, lineVars
<1>1. frames = AtReturn /\ frames' = Idle
  BY AtStep
<1>2. ~Looping /\ ~Looping' /\ ~Closed /\ ~Closed' /\ frames # Idle
  BY <1>1, FramesDiffer DEF Looping, Closed
<1>3. rxbuf # 0 /\ shifting # 0 => ~stop'
  BY <1>2 DEF IInv, LineOK
<1>4. TypeOK'
  BY <1>1, FrameTypes DEF IInv, TypeOK
<1>5. FramesOK'
  BY <1>1, <1>2, FramesDiffer DEF IInv, FramesOK
<1>. QED  BY <1>2, <1>3, <1>4, <1>5, HandlerOnly

-----------------------------------------------------------------------------
(* The receive interrupt                                                    *)

\* The queue with the byte that came in, and the byte's interrupt.
Fed == cq_add(rx_q, rxbuf)

IsrEntered == gie /\ ucRxIe /\ rxbuf # 0

\* Where the interrupt can come: the receiver is open, the parser is in step,
\* there is room for the byte and it is at most the last one of the block.
LEMMA IsrFacts ==
  ASSUME IInv, IsrEntered
  PROVE  /\ booted = "ready" /\ frames \in {Idle, AtReturn} /\ ~Closed /\ ~Looping
         /\ frames = AtReturn => evt_state = "PACKET_TYPE"
         /\ LineInStep /\ InPacket
         /\ Unread \in Nat \ {0} /\ Queued \in Nat
         /\ Queued < readblksize /\ readblksize <= MODSIZE /\ readblksize \in Nat
         /\ rx_q.curfreesize \in 1 .. MODSIZE /\ Queued = MODSIZE - rx_q.curfreesize
         /\ ~cq_is_full(rx_q)
         /\ nextByte = Unread + Queued + 1 + (IF shifting # 0 THEN 1 ELSE 0)
<1>1. booted = "ready"
  BY DEF IInv, BootOK, IsrEntered
<1>2. ~Closed /\ ~Looping
  BY <1>1 DEF IInv, FramesOK, IsrEntered, Looping
<1>3. frames \in {Idle, AtReturn} /\ (frames = AtReturn => evt_state = "PACKET_TYPE")
  BY <1>2 DEF IInv, FramesOK, IsrEntered, Closed
<1>4. LineInStep
  BY <1>2 DEF IInv, LineOK
<1>5. Queued < readblksize /\ readblksize <= MODSIZE /\ InPacket
  BY <1>1, <1>2 DEF IInv, Position
<1>6. /\ Unread \in Nat /\ Queued \in 0 .. MODSIZE /\ InUart \in 0 .. 2
      /\ nextByte \in Nat /\ readblksize \in UInt16
  BY <1>4, Numbers DEF IInv, TypeOK, LineInStep
<1>7. /\ Unread \in Nat \ {0} /\ Queued \in Nat /\ readblksize \in Nat
      /\ nextByte = Unread + Queued + 1 + (IF shifting # 0 THEN 1 ELSE 0)
  BY <1>4, <1>6, ModSizeRange DEF LineInStep, InUart, IsrEntered, UInt16
<1>8. rx_q.curfreesize \in 0 .. MODSIZE /\ Queued = MODSIZE - rx_q.curfreesize
  BY <1>4 DEF LineInStep, Agree, Queued, Used
<1>9. rx_q.curfreesize \in 1 .. MODSIZE
  BY <1>5, <1>7, <1>8, ModSizeRange
<1>10. ~cq_is_full(rx_q)
  BY <1>9, ModSizeRange DEF cq_is_full
<1>. QED  BY <1>1, <1>2, <1>3, <1>4, <1>5, <1>7, <1>8, <1>9, <1>10

\* The byte is queued behind the others, the unread byte is at the front.
LEMMA FedFacts ==
  ASSUME IInv, IsrEntered
  PROVE  /\ Fed \in Queue
         /\ Fed.curfreesize = rx_q.curfreesize - 1
         /\ Agree(Fed, Fed.curfreesize)
         /\ Front(Fed) = Unread
         /\ Used(Fed.curfreesize) = Queued + 1
         /\ cq_used_size(Fed) = Queued + 1
<1>1. /\ rx_q \in Queue /\ rxbuf \in Byte
      /\ rx_q.curfreesize \in 1 .. MODSIZE /\ Agree(rx_q, rx_q.curfreesize)
      /\ Queued = MODSIZE - rx_q.curfreesize
  BY IsrFacts DEF IInv, TypeOK, LineInStep, Byte
<1>2. /\ Fed \in Queue
      /\ Fed.curfreesize = rx_q.curfreesize - 1
      /\ Agree(Fed, rx_q.curfreesize - 1)
      /\ Front(Fed) = IF rx_q.curfreesize = MODSIZE THEN rxbuf ELSE Front(rx_q)
  BY <1>1, AddAgrees DEF Fed
<1>3. Front(Fed) = Unread
  BY <1>2 DEF Unread, cq_is_empty, IsrEntered
<1>4. Fed.curfreesize \in 0 .. MODSIZE /\ Used(Fed.curfreesize) = Queued + 1
  BY <1>1, <1>2, ModSizeRange DEF Used
<1>5. cq_used_size(Fed) = Queued + 1
  BY <1>4, UsedSize
<1>. QED  BY <1>2, <1>3, <1>4, <1>5

\* A handler that was called takes the whole block out of the queue.
LEMMA Emptied ==
  ASSUME IInv, IsrEntered, Queued + 1 = readblksize,
         \/ rx_q' = cq_discard(Fed, readblksize)
         \/ rx_q' = cq_reset(Fed)
         \/ readblksize = 1 /\ rx_q' = cq_del(Fed),
         rxbuf' = 0, UNCHANGED <<shifting, nextByte>>
  PROVE  /\ rx_q' \in Queue
         /\ Queued' = 0
         /\ Unread' = Unread + readblksize
         /\ LineInStep'
<1>1. /\ Fed \in Queue
      /\ Fed.curfreesize \in Nat /\ Fed.curfreesize < MODSIZE
      /\ Fed.curfreesize + readblksize = MODSIZE
      /\ Agree(Fed, Fed.curfreesize)
      /\ Used(Fed.curfreesize) = readblksize
      /\ readblksize \in Nat
  BY IsrFacts, FedFacts, ModSizeRange DEF Used
<1>2. rx_q' \in Queue /\ rx_q'.curfreesize = MODSIZE /\ Agree(rx_q', MODSIZE)
  <2>1. CASE rx_q' = cq_discard(Fed, readblksize)
    <3>1. readblksize \in 0 .. Used(Fed.curfreesize) /\ Fed.curfreesize \in 0 .. MODSIZE
      BY <1>1, ModSizeRange
    <3>. QED  BY <1>1, <2>1, <3>1, DiscardAgrees
  <2>2. CASE rx_q' = cq_reset(Fed)
    BY <1>1, <2>2, ResetAgrees
  <2>3. CASE readblksize = 1 /\ rx_q' = cq_del(Fed)
    <3>1. Fed.curfreesize \in 0 .. MODSIZE - 1 /\ Fed.curfreesize + 1 = MODSIZE
      BY <1>1, <2>3, ModSizeRange
    <3>. QED  BY <1>1, <2>3, <3>1, DelAgrees
  <2>. QED  BY <2>1, <2>2, <2>3
<1>3. Queued' = 0
  BY <1>2, ModSizeRange DEF Queued, Used
<1>4. Unread' = IF shifting # 0 THEN shifting ELSE nextByte
  BY <1>2 DEF Unread, cq_is_empty
<1>5. /\ Unread \in Nat \ {0} /\ Queued \in Nat /\ LineInStep
      /\ nextByte = Unread + Queued + 1 + (IF shifting # 0 THEN 1 ELSE 0)
  BY IsrFacts
<1>6. Unread' = Unread + readblksize
  BY <1>4, <1>5 DEF LineInStep
<1>7. InUart' = IF shifting # 0 THEN 1 ELSE 0
  BY DEF InUart
<1>8. LineInStep'
  <2>1. nextByte' = Unread' + Queued' + InUart'
    BY <1>1, <1>3, <1>5, <1>6, <1>7
  <2>2. Unread' >= 1
    BY <1>1, <1>5, <1>6
  <2>. QED  BY <1>2, <1>5, <2>1, <2>2 DEF LineInStep
<1>. QED  BY <1>2, <1>3, <1>6, <1>8

\* The block is not complete: the byte is stored.
LEMMA StoredKeeps ==
  ASSUME IInv, IsrEntered, Queued + 1 # readblksize, rx_q' = Fed, rxbuf' = 0,
         UNCHANGED <<readblksize, evt_state, pktLen, stop, ucRxIe, gie, frames, handled,
                     offered, nextByte, shifting, booted>>
  PROVE  IInv'
<1>1. /\ Fed \in Queue /\ Agree(Fed, Fed.curfreesize)
      /\ Front(Fed) = Unread /\ Used(Fed.curfreesize) = Queued + 1
      /\ Fed.curfreesize = rx_q.curfreesize - 1
  BY FedFacts
<1>2. /\ booted = "ready" /\ ~Closed /\ ~Looping /\ LineInStep /\ InPacket
      /\ Unread \in Nat \ {0} /\ Queued \in Nat /\ rx_q.curfreesize \in 1 .. MODSIZE
      /\ Queued < readblksize /\ readblksize <= MODSIZE /\ readblksize \in Nat
      /\ nextByte = Unread + Queued + 1 + (IF shifting # 0 THEN 1 ELSE 0)
  BY IsrFacts
<1>3. Unread' = Unread /\ Queued' = Queued + 1
  <2>1. ~(rx_q'.curfreesize = MODSIZE)
    BY <1>1, <1>2, ModSizeRange
  <2>. QED  BY <1>1, <2>1 DEF Unread, Queued, cq_is_empty
<1>4. InUart' = IF shifting # 0 THEN 1 ELSE 0
  BY DEF InUart
<1>5. LineInStep'
  <2>1. nextByte' = Unread' + Queued' + InUart'
    BY <1>2, <1>3, <1>4
  <2>. QED  BY <1>1, <1>2, <1>3, <2>1 DEF LineInStep
<1>6. TypeOK'
  BY <1>1 DEF IInv, TypeOK
<1>7. OfferedOK' /\ HandledOK' /\ Cur' = Cur
  BY PacketsKept
<1>8. FramesOK' /\ BootOK'
  BY <1>2 DEF IInv, FramesOK, BootOK, Looping, Closed
<1>9. LineOK'
  BY <1>5 DEF LineOK
<1>10. Position'
  <2>1. AtStart' = AtStart /\ \A n, kind : At(n, kind)' = At(n, kind)
    BY <1>3, PlaceKept
  <2>2. InPacket'
    BY <1>2, <1>7, <2>1 DEF InPacket, AtPayload
  <2>3. ~Closed' /\ Queued' < readblksize'
    BY <1>2, <1>3 DEF Closed
  <2>. QED  BY <1>2, <2>2, <2>3 DEF Position
<1>. QED  BY <1>6, <1>7, <1>8, <1>9, <1>10 DEF IInv

\* A step of the parser that opens the receiver for the next block of the same
\* packet, or for the next packet.
LEMMA ParserStep ==
  ASSUME IInv, IsrEntered, Queued + 1 = readblksize,
         rx_q' \in Queue, Queued' = 0, LineInStep', rxbuf' = 0,
         UNCHANGED <<gie, frames, offered, nextByte, shifting, booted>>,
         evt_state' \in States, readblksize' \in 1 .. MODSIZE, ucRxIe', ~stop',
         ucRxIe' \in BOOLEAN, stop' \in BOOLEAN,
         pktLen' \in UInt16, HandledOK', InPacket'
  PROVE  IInv'
<1>1. booted = "ready" /\ frames \in {Idle, AtReturn} /\ ~Closed /\ ~Looping
  BY IsrFacts
<1>2. TypeOK'
  <2>1. readblksize' \in UInt16
    BY ModSizeRange DEF UInt16
  <2>. QED  BY <2>1 DEF IInv, TypeOK
<1>3. OfferedOK'
  BY DEF IInv, OfferedOK, End
<1>4. FramesOK' /\ BootOK'
  BY <1>1, FramesDiffer DEF IInv, FramesOK, BootOK, Looping, Closed
<1>5. LineOK'
  BY DEF LineOK
<1>6. Position'
  <2>1. ~Closed'
    BY <1>1 DEF Closed
  <2>. QED  BY <1>1, <2>1, ModSizeRange DEF Position
<1>. QED  BY <1>2, <1>3, <1>4, <1>5, <1>6 DEF IInv

\* What RxIsr leaves alone.
Kept == UNCHANGED <<offered, nextByte, shifting, booted>>

\* The packet the unread byte is in, when it is number m of packet Cur.
LEMMA CurFacts ==
  ASSUME IInv, Cur <= Len(offered), NEW m \in Nat, Unread = offered[Cur].first + m,
         m < Size(offered[Cur])
  PROVE  /\ Cur \in 1 .. Len(offered)
         /\ PacketOf(Unread) = Cur
<1>1. Cur \in 1 .. Len(offered)
  BY DEF IInv, HandledOK, OfferedOK, Cur
<1>2. Unread \in Nat
  BY Numbers DEF IInv
<1>3. offered[Cur].first <= Unread /\ Unread < End(Cur)
  BY <1>1, PacketNumbers DEF IInv, End
<1>. QED  BY <1>1, <1>2, <1>3, Located DEF IInv

\* Before a packet type is read the packet is there.
LEMMA StartFacts ==
  ASSUME IInv, IsrEntered, AtStart
  PROVE  /\ Cur \in 1 .. Len(offered)
         /\ Unread = offered[Cur].first
         /\ PacketOf(Unread) = Cur
<1>1. /\ Unread \in Nat \ {0} /\ Queued \in Nat
      /\ nextByte = Unread + Queued + 1 + (IF shifting # 0 THEN 1 ELSE 0)
  BY IsrFacts
<1>2. Cur <= Len(offered) /\ Unread = offered[Cur].first
  BY <1>1 DEF AtStart
<1>3. Cur \in 1 .. Len(offered)
  BY <1>2 DEF IInv, HandledOK, OfferedOK, Cur
<1>4. Unread = offered[Cur].first + 0 /\ 0 < Size(offered[Cur])
  <2>1. /\ offered[Cur].first \in Nat /\ offered[Cur].len \in Nat
        /\ Size(offered[Cur]) = offered[Cur].len + (IF offered[Cur].kind = "acl" THEN 5 ELSE 3)
    BY <1>3, PacketNumbers DEF IInv
  <2>. QED  BY <1>2, <2>1
<1>. QED  BY <1>2, <1>4, CurFacts

\* After the last byte of packet Cur the next one starts, or nothing was sent.
LEMMA NextStart ==
  ASSUME IInv, Kept, LineInStep', Unread' \in Nat, Queued' \in Nat, InUart' \in Nat,
         Cur \in 1 .. Len(offered), Unread' = End(Cur), Len(handled') = Len(handled) + 1
  PROVE  AtStart'
<1>1. /\ Cur' = Cur + 1 /\ offered' = offered /\ nextByte' = nextByte
      /\ Len(offered) \in Nat /\ Cur \in Nat
  BY DEF Kept, Cur, IInv, OfferedOK, HandledOK
<1>2. CASE Cur < Len(offered)
  BY <1>1, <1>2 DEF IInv, OfferedOK, AtStart
<1>3. CASE ~(Cur < Len(offered))
  <2>1. Cur = Len(offered) /\ offered # << >>
    BY <1>1, <1>3
  <2>2. nextByte <= End(Cur) /\ nextByte \in Nat /\ End(Cur) \in Nat
    BY <2>1, PacketNumbers DEF IInv, OfferedOK, TypeOK
  <2>3. nextByte' = Unread' + Queued' + InUart'
    BY DEF LineInStep
  <2>4. Unread' = nextByte' /\ nextByte' = End(Cur)
    BY <1>1, <2>2, <2>3, SMTT(30)
  <2>. QED  BY <1>1, <2>1, <2>4 DEF AtStart, End
<1>. QED  BY <1>2, <1>3

\* Packet Cur is the one that is handled.
LEMMA HandleNext ==
  ASSUME IInv, Kept, Cur \in 1 .. Len(offered), handled' = Append(handled, offered[Cur])
  PROVE  HandledOK' /\ Len(handled') = Len(handled) + 1
<1>1. offered[Cur] \in Packet /\ handled \in Seq(Packet) /\ Len(handled) \in Nat
  BY PacketNumbers DEF IInv, HandledOK
<1>2. /\ handled' \in Seq(Packet) /\ Len(handled') = Len(handled) + 1
      /\ \A k \in 1 .. Len(handled) : handled'[k] = handled[k]
      /\ handled'[Len(handled) + 1] = offered[Cur]
  BY <1>1, AppendProperties
<1>3. \A k \in 1 .. Len(handled') : handled'[k] = offered[k]
  <2> SUFFICES ASSUME NEW k \in 1 .. Len(handled')
               PROVE  handled'[k] = offered[k]
    OBVIOUS
  <2>1. CASE k = Len(handled) + 1
    BY <1>2, <2>1 DEF Cur
  <2>2. CASE k # Len(handled) + 1
    <3>1. k \in 1 .. Len(handled)
      BY <1>1, <1>2, <2>2
    <3>. QED  BY <1>2, <3>1 DEF IInv, HandledOK
  <2>. QED  BY <2>1, <2>2
<1>. QED  BY <1>1, <1>2, <1>3 DEF HandledOK, Kept, Cur

\* The type of the packet decides what the parser expects next.
LEMMA PacketTypeKeeps ==
  ASSUME IInv, IsrEntered, Kept, rxbuf' = 0, Queued + 1 >= readblksize,
         Fits, evt_state = "PACKET_TYPE", PacketType(Fed)
  PROVE  IInv'
<1>1. /\ InPacket /\ Queued \in Nat /\ Queued < readblksize /\ readblksize \in Nat
      /\ Unread \in Nat \ {0}
  BY IsrFacts
<1>2. Queued + 1 = readblksize
  BY <1>1
<1>3. readblksize = 1 /\ AtStart
  BY <1>1 DEF InPacket
<1>4. /\ Cur \in 1 .. Len(offered)
      /\ Unread = offered[Cur].first /\ PacketOf(Unread) = Cur
  BY <1>3, StartFacts
<1>5. Front(Fed) = Unread
  BY FedFacts
<1>6. TypesRead(Front(Fed)) = {offered[Cur].kind}
  BY <1>4, <1>5 DEF TypesRead
<1>7. /\ rx_q' = cq_del(Fed)
      /\ UNCHANGED <<pktLen, gie, frames, handled>>
      /\ \/ offered[Cur].kind = "acl" /\ Expect("ACL_HEADER", 4)
         \/ offered[Cur].kind = "evt" /\ Expect("EVENT_HEADER", 2)
  <2>1. offered[Cur].kind \in {"evt", "acl"}
    BY <1>4, PacketNumbers DEF IInv
  <2>. QED  BY <1>6, <2>1 DEF PacketType, HCI_ACL_HEADER_SIZE, HCI_EVT_HEADER_SIZE
<1>8. rx_q' \in Queue /\ Queued' = 0 /\ Unread' = Unread + 1 /\ LineInStep'
  BY <1>2, <1>3, <1>7, Emptied DEF Kept
<1>9. Cur' = Cur /\ HandledOK'
  BY <1>7 DEF Kept, Cur, IInv, HandledOK
<1>10. /\ InPacket' /\ evt_state' \in States /\ readblksize' \in {2, 4}
       /\ ucRxIe' = TRUE /\ stop' = FALSE
  BY <1>4, <1>7, <1>8, <1>9 DEF InPacket, At, Expect, States, Kept
<1>11. readblksize' \in 1 .. MODSIZE
  <2>. QED  BY <1>10, ModSizeRange DEF Fits, HCI_ACL_HEADER_SIZE
<1>12. pktLen' \in UInt16
  BY <1>7 DEF IInv, TypeOK
<1>. QED  BY <1>2, <1>7, <1>8, <1>9, <1>10, <1>11, <1>12, ParserStep DEF Kept

\* The header gives the length of the payload.
LEMMA AclHeaderKeeps ==
  ASSUME IInv, IsrEntered, Kept, rxbuf' = 0, Queued + 1 >= readblksize,
         evt_state = "ACL_HEADER", AclHeader(Fed)
  PROVE  IInv'
<1>1. /\ InPacket /\ Queued \in Nat /\ Queued < readblksize /\ readblksize \in Nat
      /\ Unread \in Nat \ {0}
  BY IsrFacts
<1>2. Queued + 1 = readblksize
  BY <1>1
<1>3. readblksize = 4 /\ At(1, "acl")
  BY <1>1 DEF InPacket
<1>4. Cur \in 1 .. Len(offered)
  BY <1>3 DEF At, IInv, HandledOK, OfferedOK, Cur
<1>5. /\ offered[Cur].kind = "acl" /\ Unread = offered[Cur].first + 1
      /\ offered[Cur].first \in Nat /\ offered[Cur].len \in 1 .. MODSIZE
      /\ offered[Cur].len \in UInt16
      /\ Size(offered[Cur]) = offered[Cur].len + 5
  <2>1. offered[Cur].kind = "acl" /\ Unread = offered[Cur].first + 1
    BY <1>3 DEF At
  <2>2. offered[Cur].len # 0
    BY <1>4, <2>1 DEF IInv, OfferedOK
  <2>. QED  BY <1>4, <2>1, <2>2, PacketNumbers, ModSizeRange DEF IInv
<1>6. PacketOf(Front(Fed)) = Cur
  BY <1>4, <1>5, CurFacts, FedFacts
<1>7. /\ rx_q' = cq_discard(Fed, 4)
      /\ pktLen' = offered[Cur].len
      /\ evt_state' = "ACL_PAYLOAD" /\ readblksize' = pktLen' /\ ucRxIe' = TRUE /\ stop' = FALSE
      /\ UNCHANGED <<gie, frames, handled>>
  BY <1>6 DEF AclHeader, Read, HCI_ACL_HEADER_SIZE, Expect
<1>8. rx_q' \in Queue /\ Queued' = 0 /\ Unread' = Unread + 4 /\ LineInStep'
  BY <1>2, <1>3, <1>7, Emptied DEF Kept
<1>9. Cur' = Cur /\ HandledOK'
  BY <1>7 DEF Kept, Cur, IInv, HandledOK
<1>10. InPacket'
  <2>1. Unread' = offered'[Cur'].first + 5
    BY <1>5, <1>8, <1>9 DEF Kept
  <2>2. At(5, "acl")'
    BY <1>4, <1>5, <1>9, <2>1 DEF At, Kept
  <2>3. AtPayload'
    BY <1>5, <1>7, <1>9, ModSizeRange DEF AtPayload, Kept
  <2>. QED  BY <1>7, <2>2, <2>3 DEF InPacket
<1>. QED  BY <1>2, <1>5, <1>7, <1>8, <1>9, <1>10, ParserStep DEF Kept, States

\* An event without parameters is handled here.
LEMMA EventHeaderKeeps ==
  ASSUME IInv, IsrEntered, Kept, rxbuf' = 0, Queued + 1 >= readblksize,
         evt_state = "EVENT_HEADER", EventHeader(Fed)
  PROVE  /\ IInv'
         /\ \/ UNCHANGED handled
            \/ Cur <= Len(offered) /\ handled' = Append(handled, offered[Cur])
<1>1. /\ InPacket /\ Queued \in Nat /\ Queued < readblksize /\ readblksize \in Nat
      /\ Unread \in Nat \ {0}
  BY IsrFacts
<1>2. Queued + 1 = readblksize
  BY <1>1
<1>3. readblksize = 2 /\ At(1, "evt")
  BY <1>1 DEF InPacket
<1>4. Cur \in 1 .. Len(offered)
  BY <1>3 DEF At, IInv, HandledOK, OfferedOK, Cur
<1>5. /\ offered[Cur].kind = "evt" /\ Unread = offered[Cur].first + 1
      /\ offered[Cur].first \in Nat /\ offered[Cur].len \in 0 .. MODSIZE
      /\ offered[Cur].len \in UInt16
      /\ Size(offered[Cur]) = offered[Cur].len + 3
      /\ offered[Cur] \in Packet
  <2>1. offered[Cur].kind = "evt" /\ Unread = offered[Cur].first + 1
    BY <1>3 DEF At
  <2>2. /\ offered[Cur].first \in Nat /\ offered[Cur].len \in Nat
        /\ offered[Cur].len <= MODSIZE /\ offered[Cur].len \in UInt16
        /\ Size(offered[Cur]) = offered[Cur].len + (IF offered[Cur].kind = "acl" THEN 5 ELSE 3)
        /\ offered[Cur] \in Packet
    BY <1>4, PacketNumbers DEF IInv
  <2>. QED  BY <2>1, <2>2, ModSizeRange
<1>6. PacketOf(Front(Fed)) = Cur
  BY <1>4, <1>5, CurFacts, FedFacts
<1>7. /\ rx_q' = cq_discard(Fed, 2)
      /\ pktLen' = offered[Cur].len
      /\ ucRxIe' = TRUE /\ stop' = FALSE
      /\ UNCHANGED <<gie, frames>>
      /\ IF pktLen' = 0
         THEN /\ evt_state' = "PACKET_TYPE" /\ readblksize' = 1
              /\ handled' = Append(handled, offered[Cur])
         ELSE /\ evt_state' = "EVENT_PAYLOAD" /\ readblksize' = pktLen'
              /\ UNCHANGED handled
  BY <1>6 DEF EventHeader, Read, HCI_EVT_HEADER_SIZE, Expect
<1>8. rx_q' \in Queue /\ Queued' = 0 /\ Unread' = Unread + 2 /\ LineInStep'
  BY <1>2, <1>3, <1>7, Emptied DEF Kept
<1>9. CASE pktLen' = 0
  <2>1. /\ HandledOK' /\ Len(handled') = Len(handled) + 1
    BY <1>4, <1>5, <1>7, <1>9, HandleNext
  <2>2. Unread' = End(Cur)
    BY <1>5, <1>7, <1>8, <1>9 DEF End
  <2>3. Unread' \in Nat /\ Queued' \in Nat /\ InUart' \in Nat
    BY <1>1, <1>8 DEF InUart
  <2>4. AtStart'
    BY <1>4, <1>8, <2>1, <2>2, <2>3, NextStart
  <2>5. InPacket'
    BY <1>7, <1>9, <2>4 DEF InPacket
  <2>6. evt_state' \in States /\ pktLen' \in UInt16 /\ readblksize' \in 1 .. MODSIZE
    BY <1>5, <1>7, <1>9, ModSizeRange DEF States
  <2>7. IInv'
    BY <1>2, <1>7, <1>8, <2>1, <2>5, <2>6, ParserStep DEF Kept
  <2>. QED  BY <1>4, <1>7, <1>9, <2>7
<1>10. CASE pktLen' # 0
  <2>1. Cur' = Cur /\ HandledOK'
    BY <1>7, <1>10 DEF Kept, Cur, IInv, HandledOK
  <2>2. Unread' = offered'[Cur'].first + 3
    BY <1>5, <1>8, <2>1 DEF Kept
  <2>3. At(3, "evt")'
    BY <1>4, <1>5, <2>1, <2>2 DEF At, Kept
  <2>4. AtPayload'
    BY <1>5, <1>7, <1>10, <2>1, ModSizeRange DEF AtPayload, Kept
  <2>5. InPacket'
    BY <1>7, <1>10, <2>3, <2>4 DEF InPacket
  <2>6. readblksize' \in 1 .. MODSIZE
    BY <1>5, <1>7, <1>10, ModSizeRange
  <2>7. evt_state' \in States /\ pktLen' \in UInt16
    BY <1>5, <1>7, <1>10 DEF States
  <2>8. IInv'
    BY <1>2, <1>7, <1>8, <2>1, <2>5, <2>6, <2>7, ParserStep DEF Kept
  <2>. QED  BY <1>7, <1>10, <2>8
<1>. QED  BY <1>9, <1>10

\* A payload is read or dropped as a whole; the handler goes on, closed.
LEMMA PayloadKeeps ==
  ASSUME IInv, IsrEntered, Kept, rxbuf' = 0, Queued + 1 >= readblksize,
         evt_state \in {"ACL_PAYLOAD", "EVENT_PAYLOAD"}, Payload(Fed)
  PROVE  /\ IInv'
         /\ \/ UNCHANGED handled
            \/ Cur <= Len(offered) /\ handled' = Append(handled, offered[Cur])
<1>1. /\ InPacket /\ Queued \in Nat /\ Queued < readblksize /\ readblksize \in Nat
      /\ Unread \in Nat \ {0}
      /\ booted = "ready" /\ frames = Idle
  BY IsrFacts
<1>2. Queued + 1 = readblksize
  BY <1>1
<1>3. /\ AtPayload
      /\ \/ evt_state = "ACL_PAYLOAD" /\ At(5, "acl")
         \/ evt_state = "EVENT_PAYLOAD" /\ At(3, "evt")
  BY <1>1 DEF InPacket
<1>4. Cur \in 1 .. Len(offered)
  BY <1>3 DEF At, IInv, HandledOK, OfferedOK, Cur
<1>5. /\ offered[Cur] \in Packet /\ offered[Cur].first \in Nat
      /\ offered[Cur].len = readblksize /\ pktLen = readblksize
      /\ Unread = offered[Cur].first + (IF offered[Cur].kind = "acl" THEN 5 ELSE 3)
      /\ Size(offered[Cur]) = readblksize + (IF offered[Cur].kind = "acl" THEN 5 ELSE 3)
      /\ readblksize # 0
  <2>1. Unread = offered[Cur].first + (IF offered[Cur].kind = "acl" THEN 5 ELSE 3)
    BY <1>3 DEF At
  <2>2. offered[Cur].len = readblksize /\ pktLen = readblksize /\ readblksize # 0
    BY <1>3 DEF AtPayload
  <2>. QED  BY <1>4, <2>1, <2>2, PacketNumbers DEF IInv
<1>6. PacketOf(Front(Fed)) = Cur
  <2>1. /\ (IF offered[Cur].kind = "acl" THEN 5 ELSE 3) \in Nat
        /\ (IF offered[Cur].kind = "acl" THEN 5 ELSE 3) < Size(offered[Cur])
    BY <1>1, <1>5
  <2>. QED  BY <1>4, <1>5, <2>1, CurFacts, FedFacts
<1>7. /\ ucRxIe' = FALSE /\ stop' = TRUE /\ gie' = FALSE
      /\ UNCHANGED <<evt_state, readblksize, pktLen>>
  BY DEF Payload, StayClosed
<1>8. OfferedOK' /\ BootOK'
  BY <1>1 DEF Kept, IInv, OfferedOK, End, BootOK
<1>9. CASE evt_state = "ACL_PAYLOAD" /\ pktLen > LoopCounterMax
  <2>1. frames' = InLoop /\ UNCHANGED <<rx_q, handled>>
    BY <1>1, <1>9, FrameSteps DEF Payload
  <2>2. Looping' /\ Closed'
    BY <2>1 DEF Looping, Closed
  <2>3. TypeOK'
    BY <1>7, <2>1, FrameTypes DEF Kept, IInv, TypeOK
  <2>4. FramesOK'
    BY <1>7, <2>1, <2>2, FramesDiffer DEF FramesOK
  <2>5. HandledOK' /\ LineOK' /\ Position'
    BY <2>1, <2>2 DEF Kept, IInv, HandledOK, LineOK, Position
  <2>. QED  BY <1>8, <2>1, <2>3, <2>4, <2>5 DEF IInv
<1>10. CASE ~(evt_state = "ACL_PAYLOAD" /\ pktLen > LoopCounterMax)
  <2>1. /\ frames' = AtWork
        /\ rx_q' = cq_discard(Fed, pktLen) \/ rx_q' = cq_reset(Fed)
        /\ handled' = Append(handled, offered[Cur])
    BY <1>1, <1>6, <1>10, FrameSteps DEF Payload, Read
  <2>2. ~Looping' /\ Closed'
    BY <2>1, FramesDiffer DEF Looping, Closed
  <2>3. rx_q' \in Queue /\ Queued' = 0 /\ Unread' = Unread + readblksize /\ LineInStep'
    BY <1>2, <1>5, <2>1, Emptied DEF Kept
  <2>4. HandledOK' /\ Len(handled') = Len(handled) + 1
    BY <1>4, <1>5, <2>1, HandleNext
  <2>5. Unread' = End(Cur)
    BY <1>1, <1>5, <2>3 DEF End
  <2>6. Unread' \in Nat /\ Queued' \in Nat /\ InUart' \in Nat
    BY <1>1, <2>3 DEF InUart
  <2>7. AtStart'
    BY <1>4, <2>3, <2>4, <2>5, <2>6, NextStart
  <2>8. TypeOK'
    BY <1>7, <2>1, <2>3, FrameTypes DEF Kept, IInv, TypeOK
  <2>9. FramesOK'
    BY <1>7, <2>1, <2>2, FramesDiffer DEF FramesOK
  <2>10. LineOK' /\ Position'
    BY <2>2, <2>3, <2>7 DEF LineOK, Position
  <2>11. IInv'
    BY <1>8, <2>4, <2>8, <2>9, <2>10 DEF IInv
  <2>. QED  BY <1>4, <2>1, <2>11
<1>. QED  BY <1>9, <1>10

\* The interrupt: an error of the parser would show here, as an unread byte
\* that the branch of the switch was not written for.
LEMMA RxIsrKeeps ==
  ASSUME Fits, IInv, RxIsr
  PROVE  /\ IInv' /\ offered' = offered
         /\ \/ UNCHANGED handled
            \/ Cur <= Len(offered) /\ handled' = Append(handled, offered[Cur])
<1>1. IsrEntered /\ rxbuf' = 0 /\ Kept
  BY DEF RxIsr, IsrEntered, Kept
<1>2. /\ ~cq_is_full(rx_q) /\ InPacket
      /\ Queued \in Nat /\ Queued < readblksize /\ readblksize \in Nat
  BY <1>1, IsrFacts
<1>3. IF Queued + 1 >= readblksize
      THEN hci_rx_pkt_handler(Fed)
      ELSE /\ rx_q' = Fed
           /\ UNCHANGED <<readblksize, evt_state, pktLen, stop, ucRxIe, gie, frames, handled>>
  BY <1>1, <1>2, FedFacts DEF RxIsr, Fed
<1>4. CASE ~(Queued + 1 >= readblksize)
  BY <1>1, <1>2, <1>3, <1>4, StoredKeeps DEF Kept
<1>5. CASE Queued + 1 >= readblksize
  <2>. USE <1>1, <1>2, <1>3, <1>5
  <2>1. CASE evt_state = "PACKET_TYPE"
    <3>1. PacketType(Fed)
      BY <2>1 DEF hci_rx_pkt_handler
    <3>. QED  BY <2>1, <3>1, PacketTypeKeeps DEF Kept, PacketType
  <2>2. CASE evt_state = "ACL_HEADER"
    <3>1. AclHeader(Fed)
      BY <2>2 DEF hci_rx_pkt_handler
    <3>. QED  BY <2>2, <3>1, AclHeaderKeeps DEF Kept, AclHeader
  <2>3. CASE evt_state = "EVENT_HEADER"
    <3>1. EventHeader(Fed)
      BY <2>3 DEF hci_rx_pkt_handler
    <3>. QED  BY <2>3, <3>1, EventHeaderKeeps DEF Kept
  <2>4. CASE evt_state \in {"ACL_PAYLOAD", "EVENT_PAYLOAD"}
    <3>1. Payload(Fed)
      BY <2>4 DEF hci_rx_pkt_handler
    <3>. QED  BY <2>4, <3>1, PayloadKeeps DEF Kept
  <2>5. evt_state \in {"PACKET_TYPE", "ACL_HEADER", "EVENT_HEADER", "ACL_PAYLOAD", "EVENT_PAYLOAD"}
    BY DEF InPacket
  <2>. QED  BY <2>1, <2>2, <2>3, <2>4, <2>5
<1>. QED  BY <1>4, <1>5

-----------------------------------------------------------------------------
(* The theorems                                                             *)

LEMMA StepKeeps == ASSUME Fits, IInv, [Next]_vars PROVE IInv'
<1>1. CASE UNCHANGED vars
  <2>. USE <1>1 DEF vars, hostVars, lineVars
  <2>1. OfferedOK' /\ HandledOK' /\ Cur' = Cur
    BY PacketsKept
  <2>2. LineInStep' = LineInStep /\ Unread' = Unread /\ Queued' = Queued
    BY LineKept
  <2>3. AtStart' = AtStart /\ \A n, kind : At(n, kind)' = At(n, kind)
    BY <2>2, PlaceKept
  <2>4. TypeOK' /\ FramesOK' /\ BootOK'
    BY DEF IInv, TypeOK, FramesOK, BootOK, Looping, Closed
  <2>5. LineOK'
    BY <2>2 DEF IInv, LineOK, Looping
  <2>6. Position'
    BY <2>1, <2>2, <2>3 DEF IInv, Position, InPacket, AtPayload, Looping, Closed
  <2>. QED  BY <2>1, <2>4, <2>5, <2>6 DEF IInv
<1>2. CASE Next
  <2>1. CASE \E pkt \in Packets : OfferPacket(pkt)
    BY <2>1, OfferPacketKeeps
  <2>2. CASE BeginByte
    BY <2>2, BeginByteKeeps
  <2>3. CASE ByteArrives
    BY <2>3, ByteArrivesKeeps
  <2>4. CASE InitBlkSize
    BY <2>4, InitBlkSizeKeeps
  <2>5. CASE InitState
    BY <2>5, InitStateKeeps
  <2>6. CASE RxIsr
    BY <2>6, RxIsrKeeps
  <2>7. CASE Reply
    BY <2>7, ReplyKeeps
  <2>8. CASE WorkDone
    BY <2>8, WorkDoneKeeps
  <2>9. CASE SetRxState
    BY <2>9, SetRxStateKeeps
  <2>10. CASE SetReadBlkSize
    BY <2>10, SetReadBlkSizeKeeps
  <2>11. CASE Return
    BY <2>11, ReturnKeeps
  <2>. QED
    BY <1>2, <2>1, <2>2, <2>3, <2>4, <2>5, <2>6, <2>7, <2>8, <2>9, <2>10, <2>11
       DEF Next, HandlerStep
<1>. QED  BY <1>1, <1>2

LEMMA Inductive == ASSUME Fits PROVE Spec => []IInv
<1>1. Init => IInv
  BY InitInv
<1>2. IInv /\ [Next]_vars => IInv'
  BY StepKeeps
<1>. QED  BY <1>1, <1>2, PTL DEF Spec

\* Every variable of the receive path keeps its type: the counters stay in 16
\* bits and no handler pushes anything but its own steps.
THEOREM ReceiveTypes == ASSUME Fits PROVE Spec => []TypeOK
<1>1. IInv => TypeOK
  BY DEF IInv
<1>. QED  BY <1>1, Inductive, PTL

LEMMA InSync == ASSUME IInv PROVE ParserInSync
<1> SUFFICES ASSUME ucRxIe, booted = "ready"
             PROVE  \/ evt_state = "PACKET_TYPE" /\ readblksize = 1 /\ BetweenPackets
                    \/ evt_state = "ACL_HEADER" /\ readblksize = 4 /\ UnreadIs(1, {"acl"}, UInt16)
                    \/ evt_state = "EVENT_HEADER" /\ readblksize = 2 /\ UnreadIs(1, {"evt"}, UInt16)
                    \/ evt_state = "ACL_PAYLOAD" /\ UnreadIs(5, {"acl"}, {readblksize})
                    \/ evt_state = "EVENT_PAYLOAD" /\ UnreadIs(3, {"evt"}, {readblksize})
  BY DEF ParserInSync
<1>1. ~Closed /\ ~Looping
  BY DEF IInv, FramesOK, Looping, Closed
<1>2. InPacket
  BY <1>1 DEF IInv, Position
<1>3. DOMAIN offered = 1 .. Len(offered) /\ Len(offered) \in Nat
  BY DEF IInv, OfferedOK
<1>4. Cur \in Nat \ {0}
  BY DEF Cur, IInv, HandledOK
<1>5. ASSUME NEW n \in Nat, NEW kind, At(n, kind), n < Size(offered[Cur])
      PROVE  /\ UnreadIs(n, {kind}, UInt16)
             /\ offered[Cur].len = readblksize => UnreadIs(n, {kind}, {readblksize})
  <2>1. Cur \in DOMAIN offered /\ offered[Cur].len \in UInt16
    BY <1>3, <1>4, <1>5, PacketNumbers DEF At, IInv
  <2>. QED  BY <1>5, <2>1 DEF At, UnreadIs
<1>6. Cur <= Len(offered) =>
        /\ offered[Cur].first \in Nat /\ offered[Cur].len \in Nat
        /\ Size(offered[Cur]) = offered[Cur].len + (IF offered[Cur].kind = "acl" THEN 5 ELSE 3)
        /\ offered[Cur].kind \in {"evt", "acl"} /\ offered[Cur].len \in UInt16
  BY <1>3, <1>4, PacketNumbers DEF IInv
<1>7. AtStart => BetweenPackets
  <2> SUFFICES ASSUME AtStart
               PROVE  BetweenPackets
    OBVIOUS
  <2>1. CASE Cur <= Len(offered)
    <3>1. /\ Cur \in DOMAIN offered /\ Unread = offered[Cur].first + 0
          /\ 0 < Size(offered[Cur])
      BY <1>3, <1>4, <1>6, <2>1 DEF AtStart
    <3>2. UnreadIs(0, {"evt", "acl"}, UInt16)
      BY <1>6, <2>1, <3>1 DEF UnreadIs
    <3>. QED  BY <3>2 DEF BetweenPackets
  <2>2. CASE ~(Cur <= Len(offered))
    <3>1. Unread = nextByte /\ (offered # << >> => nextByte = End(Len(offered)))
      BY <2>2 DEF AtStart
    <3>2. ASSUME NEW k \in 1 .. Len(offered)
          PROVE  Unread >= End(k)
      <4>. DEFINE m == Len(offered)
      <4>1. m \in 1 .. Len(offered) /\ offered # << >>
        BY <1>3
      <4>2. /\ End(k) \in Nat /\ End(m) \in Nat /\ offered[m].first \in Nat
            /\ offered[m].first <= End(m)
        BY <4>1, PacketNumbers DEF IInv, End
      <4>3. k < m => End(k) <= offered[m].first
        BY <4>1 DEF IInv, OfferedOK
      <4>. QED  BY <1>3, <3>1, <4>1, <4>2, <4>3
    <3>. QED  BY <1>3, <3>2 DEF BetweenPackets, End
  <2>. QED  BY <2>1, <2>2
<1>8. CASE evt_state = "PACKET_TYPE"
  BY <1>2, <1>7, <1>8 DEF InPacket
<1>9. CASE evt_state = "ACL_HEADER"
  BY <1>2, <1>5, <1>6, <1>9 DEF InPacket, At
<1>10. CASE evt_state = "EVENT_HEADER"
  BY <1>2, <1>5, <1>6, <1>10 DEF InPacket, At
<1>11. CASE evt_state = "ACL_PAYLOAD"
  <2>1. At(5, "acl") /\ AtPayload
    BY <1>2, <1>11 DEF InPacket
  <2>2. offered[Cur].len = readblksize /\ 5 < Size(offered[Cur])
    BY <1>6, <2>1 DEF At, AtPayload
  <2>3. UnreadIs(5, {"acl"}, {readblksize})
    BY <1>5, <2>1, <2>2
  <2>. QED  BY <1>11, <2>3
<1>12. CASE evt_state = "EVENT_PAYLOAD"
  <2>1. At(3, "evt") /\ AtPayload
    BY <1>2, <1>12 DEF InPacket
  <2>2. offered[Cur].len = readblksize /\ 3 < Size(offered[Cur])
    BY <1>6, <2>1 DEF At, AtPayload
  <2>3. UnreadIs(3, {"evt"}, {readblksize})
    BY <1>5, <2>1, <2>2
  <2>. QED  BY <1>12, <2>3
<1>. QED  BY <1>2, <1>8, <1>9, <1>10, <1>11, <1>12 DEF InPacket

\* For every sequence of packets and every interleaving of the line with the
\* interrupts: whenever the receiver is open, the next unread byte is the one
\* evt_state and readblksize say it is.
THEOREM ParserStaysInSync == ASSUME Fits PROVE Spec => []ParserInSync
<1>1. IInv => ParserInSync
  BY InSync
<1>. QED  BY <1>1, Inductive, PTL

\* With no payload handler unfinished the receiver is open and the queue has
\* room for the rest of the block: it cannot stall in between.
THEOREM ReceiverStaysOpen == ASSUME Fits PROVE Spec => []ReceiverOpen
<1>1. ASSUME IInv
      PROVE  ReceiverOpen
  <2> SUFFICES ASSUME frames = << >>, booted = "ready"
               PROVE  /\ ucRxIe /\ ~stop
                      /\ cq_used_size(rx_q) < readblksize
                      /\ readblksize <= MODSIZE
    BY DEF ReceiverOpen
  <2>1. ~Closed /\ ~Looping
    BY FrameNext, FramesDiffer DEF Closed, Looping
  <2>2. ucRxIe /\ ~stop
    BY <1>1, <2>1 DEF IInv, FramesOK
  <2>3. Queued < readblksize /\ readblksize <= MODSIZE
    BY <1>1, <2>1 DEF IInv, Position
  <2>4. cq_used_size(rx_q) = Queued
    <3>1. rx_q.curfreesize \in 0 .. MODSIZE
      BY <1>1, <2>1 DEF IInv, LineOK, LineInStep, Agree
    <3>. QED  BY <3>1, UsedSize DEF Queued
  <2>. QED  BY <2>2, <2>3, <2>4
<1>. QED  BY <1>1, Inductive, PTL

\* A payload handler is never interrupted by another one, although a reply
\* turns the interrupts on in the middle of it.
THEOREM HandlersDoNotNest == ASSUME Fits PROVE Spec => []OneHandler
<1>1. IInv => OneHandler
  BY FrameTypes DEF IInv, FramesOK, OneHandler
<1>. QED  BY <1>1, Inductive, PTL

-----------------------------------------------------------------------------
(* The refinement of PacketFeed: its safety half                            *)

LEMMA FeedStep == ASSUME Fits, IInv, [Next]_vars PROVE [Feed!Next]_<<offered, handled>>
<1>. USE DEF hostVars, lineVars
<1>1. ASSUME UNCHANGED <<offered, handled>>
      PROVE  [Feed!Next]_<<offered, handled>>
  BY <1>1
<1>2. CASE RxIsr
  <2>1. /\ offered' = offered
        /\ \/ UNCHANGED handled
           \/ Cur <= Len(offered) /\ handled' = Append(handled, offered[Cur])
    BY <1>2, RxIsrKeeps
  <2>2. ASSUME Cur <= Len(offered), handled' = Append(handled, offered[Cur])
        PROVE  Feed!Handle
    <3>1. Len(handled) < Len(offered)
      BY <2>2, SMTT(30) DEF Cur, IInv, HandledOK, OfferedOK
    <3>. QED  BY <2>1, <2>2, <3>1 DEF Feed!Handle, Cur
  <2>. QED  BY <2>1, <2>2 DEF Feed!Next
<1>3. CASE \E pkt \in Packets : OfferPacket(pkt)
  <2>1. PICK pkt \in Packets : OfferPacket(pkt)
    BY <1>3
  <2>. DEFINE new == [kind |-> pkt.kind, len |-> pkt.len, first |-> nextByte]
              S == Packet \cup {new}
  <2>2. offered' = Append(offered, new) /\ UNCHANGED handled
    BY <2>1 DEF OfferPacket
  <2>. HIDE DEF new
  <2>3. offered \in Seq(Packet) /\ Len(offered) \in Nat
    BY DEF IInv, OfferedOK
  <2>4. offered \in Seq(S) /\ new \in S
    BY <2>3, SeqMonotonic
  <2>. HIDE DEF S
  <2>5. /\ offered' \in Seq(S) /\ Len(offered') = Len(offered) + 1
        /\ \A k \in 1 .. Len(offered) : offered'[k] = offered[k]
    BY <2>2, <2>4, AppendProperties
  <2>6. SubSeq(offered', 1, Len(offered)) = offered
    <3>. DEFINE n == Len(offered)
                pre == SubSeq(offered', 1, n)
    <3>1. \A k \in 1 .. n : offered'[k] \in S
      BY <2>3, <2>5, ElementOfSeq
    <3>2. /\ pre \in Seq(S)
          /\ Len(pre) = IF 1 <= n THEN n - 1 + 1 ELSE 0
          /\ \A k \in 1 .. n - 1 + 1 : pre[k] = offered'[1 + k - 1]
      BY <2>3, <3>1, SubSeqProperties
    <3>. HIDE DEF pre
    <3>3. Len(pre) = n
      BY <2>3, <3>2
    <3>4. \A k \in 1 .. Len(pre) : pre[k] = offered[k]
      BY <2>3, <2>5, <3>2, <3>3
    <3>5. pre = offered
      BY <2>4, <3>2, <3>3, <3>4, SeqEqual
    <3>. QED  BY <3>5 DEF pre
  <2>. QED  BY <2>2, <2>5, <2>6 DEF Feed!Next, Feed!Offer
<1>4. CASE BeginByte \/ ByteArrives
  BY <1>1, <1>4 DEF BeginByte, ByteArrives
<1>5. CASE InitBlkSize \/ InitState
  BY <1>1, <1>5 DEF InitBlkSize, InitState
<1>6. CASE Reply \/ HandlerStep
  BY <1>1, <1>6 DEF Reply, HandlerStep, WorkDone, SetRxState, SetReadBlkSize, Return
<1>7. CASE UNCHANGED vars
  BY <1>1, <1>7 DEF vars
<1>. QED  BY <1>2, <1>3, <1>4, <1>5, <1>6, <1>7 DEF Next

\* Every step of the receive path hands over nothing, or the one packet that
\* is next in the order the controller offered them: no packet is handled
\* twice, skipped or cut.  That every packet is handled in the end is left to
\* the run that checks FeedSpec.
THEOREM PacketsInOrder ==
  ASSUME Fits
  PROVE  Spec => Feed!Init /\ [][Feed!Next]_<<offered, handled>>
<1>1. Init => Feed!Init
  BY DEF Init, Feed!Init
<1>2. IInv /\ [Next]_vars => [Feed!Next]_<<offered, handled>>
  BY FeedStep
<1>. QED  BY <1>1, <1>2, Inductive, PTL DEF Spec
=============================================================================

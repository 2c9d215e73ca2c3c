------------------------- MODULE AclReassemblyProof -------------------------
(***************************************************************************)
(* Reassembly for every number of connections and all sizes of packets,    *)
(* fragments and the buffer, under the three assumptions of AclReassembly. *)
(*                                                                         *)
(* Reassembled speaks of the moment a packet is complete.  The inductive   *)
(* invariant says how it gets there: what of the packet was sent is in     *)
(* front of the index, and l2cap_len is where the index has to arrive.     *)
(***************************************************************************)
EXTENDS AclReassembly, SequenceTheorems, TLAPS

Disciplined == Assumed = AssumptionNames

OneAtATime == \A l, m \in Links : cur[l].sent > 0 /\ cur[m].sent > 0 => l = m

Buffered ==
  \A l \in Links : cur[l].sent > 0 =>
    /\ cur[l].size \in Sizes /\ cur[l].sent < Total(cur[l].size)
    /\ cur[l].sent >= L2CAP_HEADER_SIZE
    /\ index = cur[l].sent
    /\ l2cap_len = Total(cur[l].size)
    /\ main = "idle"
    /\ \A i \in 0 .. cur[l].sent - 1 :
          buff[i] = OctetOf(l, cur[l].bit, cur[l].size, i)

\* The inductive invariant.
IInv == /\ TypeOK /\ OneAtATime /\ Buffered /\ Reassembled
        /\ Whole => index = 0
-----------------------------------------------------------------------------
(* Facts about the buffer                                                    *)

Buffers == [0 .. L2CAP_BUFF_SIZE - 1 -> Octet]

LEMMA SizesFit ==
  ASSUME NEW n \in Sizes \union {ConnReqSize, SabmSize}
  PROVE  /\ n \in Nat /\ Total(n) \in Nat /\ Total(n) = L2CAP_HEADER_SIZE + n
         /\ Total(n) > 0 /\ Total(n) <= L2CAP_BUFF_SIZE
BY AclSizeAssumption DEF Total

LEMMA OctetType ==
  ASSUME NEW from \in Links \union {Host, Nobody}, NEW bit \in {0, 1},
         NEW n \in Nat, NEW i \in Nat
  PROVE  OctetOf(from, bit, n, i) \in Octet
BY DEF OctetOf, Octet

\* What storing octets does to the buffer.
IsStored(b, i, from, bit, n, first, k) ==
  /\ b \in Buffers
  /\ \A j \in 0 .. L2CAP_BUFF_SIZE - 1 :
       IF i <= j /\ j < i + k THEN b[j] = OctetOf(from, bit, n, first + j - i)
                              ELSE b[j] = buff[j]

\* Storing octets keeps the type, and changes those places and no other.
LEMMA StoredOctets ==
  ASSUME buff \in Buffers, NEW i \in Nat, NEW from \in Links \union {Host, Nobody},
         NEW bit \in {0, 1}, NEW n \in Nat, NEW first \in Nat, NEW k \in Nat
  PROVE  IsStored(Stored(i, from, bit, n, first, k), i, from, bit, n, first, k)
<1>1. DOMAIN buff = 0 .. L2CAP_BUFF_SIZE - 1
  BY DEF Buffers
<1>2. ASSUME NEW j \in 0 .. L2CAP_BUFF_SIZE - 1, i <= j, j < i + k
      PROVE  OctetOf(from, bit, n, first + j - i) \in Octet
  <2>1. first + j - i \in Nat
    BY <1>2, AclSizeAssumption
  <2>. QED  BY <2>1, OctetType
<1>3. ASSUME NEW j \in 0 .. L2CAP_BUFF_SIZE - 1  PROVE buff[j] \in Octet
  BY DEF Buffers
<1>. QED  BY <1>1, <1>2, <1>3 DEF Stored, IsStored, Buffers

\* A packet is a sequence of octets.
LEMMA PacketType ==
  ASSUME NEW l \in Links, NEW bit \in {0, 1}, NEW n \in Sizes
  PROVE  PacketOf(l, bit, n) \in Seq(Octet)
<1>1. PacketOf(l, bit, n) \in [1 .. Total(n) -> Octet]
  BY SizesFit, OctetType DEF PacketOf
<1>. QED  BY <1>1, SizesFit, SeqDef

\* A buffer that starts with all octets of a packet holds that packet.
LEMMA WholePacket ==
  ASSUME NEW b \in Buffers, NEW l \in Links, NEW bit \in {0, 1}, NEW n \in Sizes,
         \A i \in 0 .. Total(n) - 1 : b[i] = OctetOf(l, bit, n, i)
  PROVE  Contents(b) = PacketOf(l, bit, n)
<1>1. b[0] = OctetOf(l, bit, n, 0)
  BY SizesFit
<1>2. b[0].size = n
  BY <1>1 DEF OctetOf
<1>3. \A i \in 1 .. Total(n) : b[i - 1] = OctetOf(l, bit, n, i - 1)
  BY SizesFit
<1>. QED  BY <1>2, <1>3 DEF Contents, PacketOf

LEMMA ClearedType == Cleared \in Buffers
BY AclSizeAssumption DEF Cleared, Zero, Octet, Buffers
-----------------------------------------------------------------------------
LEMMA AclInit == Init => IInv
<1>1. Init => TypeOK
  BY ClearedType, AclSizeAssumption, EmptySeq DEF Init, TypeOK, Buffers
<1>. QED  BY <1>1 DEF Init, IInv, OneAtATime, Buffered, Reassembled

\* A first packet comes when no other is under way: it is processed at once or
\* starts the buffer.
LEMMA FirstPacketStep ==
  ASSUME Disciplined, IInv, NEW l \in Links, NEW n \in Sizes, NEW k \in 1 .. AclMax,
         FirstPacket(l, n, k)
  PROVE  IInv'
<1>1. /\ Whole /\ main = "idle" /\ main' = main /\ index = 0
      /\ k \in Nat /\ k >= L2CAP_HEADER_SIZE /\ k <= Total(n)
      /\ cur[l].sent = 0 /\ cur[l].bit \in {0, 1} /\ buff \in Buffers
  BY AclSizeAssumption
     DEF FirstPacket, IInv, TypeOK, Disciplined, AssumptionNames, Buffers
<1> DEFINE bit == cur[l].bit
           b == Stored(0, l, bit, n, 0, k)
<1>2. /\ b \in Buffers
      /\ \A i \in 0 .. k - 1 : b[i] = OctetOf(l, bit, n, i)
  <2>1. /\ b \in Buffers
        /\ \A j \in 0 .. L2CAP_BUFF_SIZE - 1 :
             0 <= j /\ j < 0 + k => b[j] = OctetOf(l, bit, n, 0 + j - 0)
    <3>1. n \in Nat /\ 0 \in Nat /\ l \in Links \union {Host, Nobody}
      BY SizesFit
    <3>2. IsStored(b, 0, l, bit, n, 0, k)
      BY <1>1, <3>1, StoredOctets
    <3>. QED  BY <3>2 DEF IsStored
  <2>2. ASSUME NEW i \in 0 .. k - 1  PROVE b[i] = OctetOf(l, bit, n, i)
    <3>1. i \in 0 .. L2CAP_BUFF_SIZE - 1 /\ 0 <= i /\ i < 0 + k /\ 0 + i - 0 = i
      BY <1>1, SizesFit, AclSizeAssumption
    <3>. QED  BY <2>1, <3>1
  <2>. QED  BY <2>1, <2>2
<1>3. CASE k = Total(n)
  <2>1. k - L2CAP_HEADER_SIZE = n
    BY <1>3, SizesFit, AclSizeAssumption
  <2>2. /\ cur' = [cur EXCEPT ![l] = [size |-> 0, sent |-> 0, bit |-> 1 - bit]]
        /\ due' = PacketOf(l, bit, n)
    BY <1>1, <1>3 DEF FirstPacket, Sent
  <2>3. l2cap_len' = n /\ processed' = Contents(b) /\ buff' = Cleared /\ index' = 0
    BY <1>1, <2>1 DEF FirstPacket, Process
  <2>4. processed' = due'
    BY <1>1, <1>2, <1>3, <2>2, <2>3, WholePacket
  <2>5. cur' \in [Links -> [size : Nat, sent : Nat, bit : {0, 1}]]
    BY <1>1, <2>2 DEF IInv, TypeOK
  <2>6. TypeOK'
    BY <1>1, <2>2, <2>3, <2>4, <2>5, ClearedType, PacketType, SizesFit, AclSizeAssumption
       DEF IInv, TypeOK, Buffers
  <2>7. Whole'
    BY <1>1, <2>2 DEF Whole, IInv, TypeOK
  <2>. QED
    BY <2>3, <2>4, <2>6, <2>7 DEF IInv, OneAtATime, Buffered, Reassembled, Whole, TypeOK
<1>4. CASE k # Total(n)
  <2>1. k - L2CAP_HEADER_SIZE # n
    BY <1>1, <1>4, SizesFit, AclSizeAssumption
  <2>2. /\ cur' = [cur EXCEPT ![l] = [size |-> n, sent |-> k, bit |-> bit]]
        /\ due' = << >>
    BY <1>1, <1>4 DEF FirstPacket, Sent
  <2>3. l2cap_len' = Total(n) /\ processed' = << >> /\ buff' = b /\ index' = k
    BY <2>1, SizesFit, AclSizeAssumption DEF FirstPacket, StartFragments, Keep
  <2>4. cur'[l] = [size |-> n, sent |-> k, bit |-> bit]
    BY <2>2 DEF IInv, TypeOK
  <2>5. \A m \in Links \ {l} : cur'[m].sent = 0
    BY <1>1, <2>2 DEF Whole, IInv, TypeOK
  <2>6. cur' \in [Links -> [size : Nat, sent : Nat, bit : {0, 1}]]
    BY <1>1, <2>2, SizesFit DEF IInv, TypeOK
  <2>7. TypeOK'
    BY <1>1, <1>2, <2>2, <2>3, <2>6, SizesFit, AclSizeAssumption, EmptySeq
       DEF IInv, TypeOK, Buffers
  <2>8. OneAtATime' /\ ~Whole'
    BY <1>1, <2>4, <2>5, AclSizeAssumption DEF OneAtATime, Whole
  <2>9. Buffered'
    <3>1. cur'[l].size = n /\ cur'[l].sent = k /\ cur'[l].bit = bit
      BY <2>4
    <3>2. k < Total(n) /\ main' = "idle" /\ \A i \in 0 .. k - 1 : buff'[i] = OctetOf(l, bit, n, i)
      <4>1. k < Total(n)
        BY <1>1, <1>4, SizesFit
      <4>2. main' = "idle"
        BY <1>1
      <4>3. \A i \in 0 .. k - 1 : buff'[i] = OctetOf(l, bit, n, i)
        BY <1>2, <2>3
      <4>. QED  BY <4>1, <4>2, <4>3
    <3>3. \A m \in Links : cur'[m].sent > 0 => m = l
      BY <2>5
    <3>4. SUFFICES ASSUME NEW m \in Links, cur'[m].sent > 0
                   PROVE  /\ cur'[m].size \in Sizes
                          /\ cur'[m].sent < Total(cur'[m].size)
                          /\ cur'[m].sent >= L2CAP_HEADER_SIZE
                          /\ index' = cur'[m].sent
                          /\ l2cap_len' = Total(cur'[m].size)
                          /\ main' = "idle"
                          /\ \A i \in 0 .. cur'[m].sent - 1 :
                                buff'[i] = OctetOf(m, cur'[m].bit, cur'[m].size, i)
      BY DEF Buffered, Total, OctetOf
    <3>5. m = l
      BY <3>3, <3>4
    <3>. QED  BY <1>1, <2>3, <3>1, <3>2, <3>5
  <2>. QED  BY <2>2, <2>3, <2>7, <2>8, <2>9 DEF IInv, Reassembled
<1>. QED  BY <1>3, <1>4

\* A continuing fragment goes behind the octets of its own packet.
LEMMA ContinuingFragmentStep ==
  ASSUME Disciplined, IInv, NEW l \in Links, NEW k \in 1 .. AclMax,
         ContinuingFragment(l, k)
  PROVE  IInv'
<1> DEFINE n == cur[l].size
           s == cur[l].sent
           bit == cur[l].bit
           b == Stored(index, l, bit, n, s, k)
<1>1. /\ s > 0 /\ s \in Nat /\ k \in Nat /\ k > 0 /\ s + k <= Total(n)
      /\ bit \in {0, 1} /\ buff \in Buffers /\ main' = main
  BY AclSizeAssumption DEF ContinuingFragment, IInv, TypeOK, Buffers
<1>2. /\ n \in Sizes /\ s >= L2CAP_HEADER_SIZE /\ index = s /\ l2cap_len = Total(n)
      /\ main = "idle"
      /\ \A i \in 0 .. s - 1 : buff[i] = OctetOf(l, bit, n, i)
  BY <1>1 DEF IInv, Buffered
<1>3. /\ b \in Buffers
      /\ \A i \in 0 .. s + k - 1 : b[i] = OctetOf(l, bit, n, i)
  <2>1. /\ b \in Buffers
        /\ \A j \in 0 .. L2CAP_BUFF_SIZE - 1 :
             /\ s <= j /\ j < s + k => b[j] = OctetOf(l, bit, n, s + j - s)
             /\ ~(s <= j /\ j < s + k) => b[j] = buff[j]
    <3>1. n \in Nat /\ l \in Links \union {Host, Nobody}
      BY <1>2, SizesFit
    <3>2. IsStored(Stored(s, l, bit, n, s, k), s, l, bit, n, s, k)
      BY <1>1, <3>1, StoredOctets
    <3>3. IsStored(b, s, l, bit, n, s, k)
      BY <1>2, <3>2
    <3>. QED  BY <3>3 DEF IsStored
  <2>2. ASSUME NEW i \in 0 .. s + k - 1  PROVE b[i] = OctetOf(l, bit, n, i)
    <3>1. i \in 0 .. L2CAP_BUFF_SIZE - 1
      BY <1>1, <1>2, SizesFit, AclSizeAssumption
    <3>2. CASE s <= i
      <4>1. s + i - s = i /\ i < s + k
        BY <1>1
      <4>. QED  BY <2>1, <3>1, <3>2, <4>1
    <3>3. CASE i < s
      BY <1>1, <1>2, <2>1, <3>1, <3>3
    <3>. QED  BY <1>1, <3>2, <3>3
  <2>. QED  BY <2>1, <2>2
<1>4. \A m \in Links \ {l} : cur[m].sent = 0
  BY <1>1 DEF IInv, OneAtATime, TypeOK
<1>5. CASE s + k = Total(n)
  <2>1. l2cap_len = index + k
    BY <1>2, <1>5
  <2>2. /\ cur' = [cur EXCEPT ![l] = [size |-> 0, sent |-> 0, bit |-> 1 - bit]]
        /\ due' = PacketOf(l, bit, n)
    BY <1>5 DEF ContinuingFragment, Sent
  <2>3. l2cap_len' = 0 /\ processed' = Contents(b) /\ buff' = Cleared /\ index' = 0
    BY <2>1 DEF ContinuingFragment, Process
  <2>4. processed' = due'
    BY <1>1, <1>2, <1>3, <1>5, <2>2, <2>3, WholePacket
  <2>5. cur' \in [Links -> [size : Nat, sent : Nat, bit : {0, 1}]]
    BY <1>1, <2>2 DEF IInv, TypeOK
  <2>6. TypeOK'
    BY <1>1, <1>2, <2>2, <2>3, <2>4, <2>5, ClearedType, PacketType, AclSizeAssumption
       DEF IInv, TypeOK, Buffers
  <2>7. Whole'
    BY <1>4, <2>2 DEF Whole, IInv, TypeOK
  <2>. QED
    BY <2>3, <2>4, <2>6, <2>7 DEF IInv, OneAtATime, Buffered, Reassembled, Whole, TypeOK
<1>6. CASE s + k # Total(n)
  <2>1. l2cap_len # index + k
    BY <1>2, <1>6
  <2>2. /\ cur' = [cur EXCEPT ![l] = [size |-> n, sent |-> s + k, bit |-> bit]]
        /\ due' = << >>
    BY <1>6 DEF ContinuingFragment, Sent
  <2>3. l2cap_len' = Total(n) /\ processed' = << >> /\ buff' = b /\ index' = s + k
    BY <1>2, <2>1 DEF ContinuingFragment, Keep
  <2>4. cur'[l] = [size |-> n, sent |-> s + k, bit |-> bit]
    BY <2>2 DEF IInv, TypeOK
  <2>5. \A m \in Links \ {l} : cur'[m].sent = 0
    BY <1>4, <2>2 DEF IInv, TypeOK
  <2>6. cur' \in [Links -> [size : Nat, sent : Nat, bit : {0, 1}]]
    BY <1>1, <1>2, <2>2, SizesFit DEF IInv, TypeOK
  <2>7. TypeOK'
    BY <1>1, <1>2, <1>3, <2>2, <2>3, <2>6, SizesFit, AclSizeAssumption, EmptySeq
       DEF IInv, TypeOK, Buffers
  <2>8. OneAtATime' /\ ~Whole'
    BY <1>1, <2>4, <2>5 DEF OneAtATime, Whole
  <2>9. Buffered'
    <3>1. cur'[l].size = n /\ cur'[l].sent = s + k /\ cur'[l].bit = bit
      BY <2>4
    <3>2. /\ s + k < Total(n) /\ s + k >= L2CAP_HEADER_SIZE /\ main' = "idle"
          /\ \A i \in 0 .. s + k - 1 : buff'[i] = OctetOf(l, bit, n, i)
      <4>1. Total(n) \in Nat
        BY <1>2, SizesFit
      <4>2. s + k < Total(n) /\ s + k >= L2CAP_HEADER_SIZE
        BY <1>1, <1>2, <1>6, <4>1, AclSizeAssumption
      <4>3. main' = "idle"
        BY <1>1, <1>2
      <4>4. \A i \in 0 .. s + k - 1 : buff'[i] = OctetOf(l, bit, n, i)
        BY <1>3, <2>3
      <4>. QED  BY <4>2, <4>3, <4>4
    <3>3. \A m \in Links : cur'[m].sent > 0 => m = l
      BY <2>5
    <3>4. SUFFICES ASSUME NEW m \in Links, cur'[m].sent > 0
                   PROVE  /\ cur'[m].size \in Sizes
                          /\ cur'[m].sent < Total(cur'[m].size)
                          /\ cur'[m].sent >= L2CAP_HEADER_SIZE
                          /\ index' = cur'[m].sent
                          /\ l2cap_len' = Total(cur'[m].size)
                          /\ main' = "idle"
                          /\ \A i \in 0 .. cur'[m].sent - 1 :
                                buff'[i] = OctetOf(m, cur'[m].bit, cur'[m].size, i)
      BY DEF Buffered, Total, OctetOf
    <3>5. m = l
      BY <3>3, <3>4
    <3>. QED  BY <1>1, <1>2, <2>3, <3>1, <3>2, <3>5
  <2>. QED  BY <2>2, <2>3, <2>7, <2>8, <2>9 DEF IInv, Reassembled
<1>. QED  BY <1>5, <1>6

\* The host writes the buffer only while no packet is in it.
LEMMA HostStep ==
  ASSUME Disciplined, IInv, ConnectRequest \/ BuildSabm \/ BuildHeader
  PROVE  IInv'
<1>1. Whole /\ main' \in {"idle", "building"}
  <2>1. CASE ConnectRequest
    BY <2>1 DEF ConnectRequest, Disciplined, AssumptionNames, IInv, TypeOK
  <2>2. CASE BuildSabm
    BY <2>2 DEF BuildSabm, Disciplined, AssumptionNames
  <2>3. CASE BuildHeader
    BY <2>3 DEF BuildHeader, IInv, Buffered, Whole, TypeOK
  <2>. QED  BY <2>1, <2>2, <2>3
<1>2. /\ buff' \in Buffers
      /\ UNCHANGED <<index, l2cap_len, cur, processed, due>>
  <2>. SUFFICES ASSUME NEW n \in {ConnReqSize, SabmSize}, NEW first \in Nat,
                       NEW k \in Nat, HostWrites(n, first, k)
                PROVE  /\ buff' \in Buffers
                       /\ UNCHANGED <<index, l2cap_len, cur, processed, due>>
    BY SizesFit, AclSizeAssumption DEF ConnectRequest, BuildSabm, BuildHeader
  <2>1. buff \in Buffers
    BY DEF IInv, TypeOK, Buffers
  <2>. QED  BY <2>1, SizesFit, StoredOctets DEF HostWrites, IsStored
<1>. QED  BY <1>1, <1>2 DEF IInv, TypeOK, OneAtATime, Buffered, Reassembled, Whole, Buffers

LEMMA AclStep ==
  ASSUME Disciplined, IInv, [Next]_vars  PROVE IInv'
<1>1. CASE UNCHANGED vars
  BY <1>1 DEF vars, IInv, TypeOK, OneAtATime, Buffered, Reassembled, Whole
<1>. QED  BY <1>1, FirstPacketStep, ContinuingFragmentStep, HostStep DEF Next
-----------------------------------------------------------------------------
LEMMA AclInvariance == ASSUME Disciplined  PROVE Spec => []IInv
BY AclInit, AclStep, PTL DEF Spec

\* Types, and no fragment is stored outside the buffer.
THEOREM AclTypes == ASSUME Disciplined  PROVE Spec => []TypeOK
<1>1. IInv => TypeOK
  BY DEF IInv
<1>. QED  BY <1>1, AclInvariance, PTL

\* Every packet is processed when, and only when, it is complete, and whole.
THEOREM EveryPacketReassembled == ASSUME Disciplined  PROVE Spec => []Reassembled
<1>1. IInv => Reassembled
  BY DEF IInv
<1>. QED  BY <1>1, AclInvariance, PTL
=============================================================================
